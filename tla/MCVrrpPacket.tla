---------------------------- MODULE MCVrrpPacket ----------------------------
(* Values for checking VrrpPacket: two addresses whose words carry in the  *)
(* sum, and what other implementations may send.                           *)
EXTENDS VrrpPacket

Address(a, b, c, d) == <<a * Byte + b, c * Byte + d>>

TwoSources == {Address(192, 168, 255, 254)}
TwoLists   == {<<>>, <<Address(192, 168, 255, 1)>>}

\* Version 2; an unknown type; more addresses announced than there are; more
\* addresses than announced; a packet of two words.
OthersPackets ==
  { <<33 * Byte + 1, 100 * Byte + 1, 1, 0, 49320, 65281>>,
    <<50 * Byte + 1, 100 * Byte, 100, 0>>,
    <<49 * Byte + 1, 100 * Byte + 2, 100, 0, 49320, 65281>>,
    <<49 * Byte + 1, 100 * Byte, 100, 0, 49320, 65281>>,
    <<49 * Byte + 1, 100 * Byte>> }

=============================================================================
