--------------------------- MODULE MCTelnetSession ---------------------------
(* Values for checking TelnetSession: one interface, two routers that an   *)
(* operator may ask for, lines of each kind, and a line that does not fit  *)
(* in the buffer.                                                          *)
EXTENDS TelnetSession, TLC

Numerals == ("1" :> 1) @@ ("256" :> 256) @@ ("10.0.0.1" :> 10)
Addresses == ("10.0.0.1" :> "IPv4") @@ ("fe80::1" :> "IPv6")

Configurations ==
  {[k \in {} |-> 0], <<"eth0", 1, "IPv6">> :> 256}

Typed ==
  {<<>>,
   <<"add", "router", "eth0", "1">>,
   <<"add", "router", "eth0", "256">>,
   <<"add", "router", "eth0", "1", "vlan", "256", "ipv6">>,
   <<"remove", "router", "eth0", "1">>,
   <<"set", "router", "eth0", "1", "ipv6", "accept", "on">>,
   <<"set", "router", "eth0">>,
   <<"show", "router", "eth0">>,
   <<"save">>,
   <<"exit">>,
   <<"set", "router", "eth0", "1", "master", "command", "1", "1", "1">>}

=============================================================================
