----------------------------- MODULE VrrpPacket -----------------------------
(***************************************************************************)
(* Advertisements on their way from sendPacket of one router through the   *)
(* LAN to the listeners of another daemon's VrrpSocket (IPv4): how they    *)
(* are put into words, what may happen to them on the way, and the checks  *)
(* of onSocketPacket in their order.                                       *)
(*                                                                         *)
(* A word has 16 bits, an address is two words.  Packets of other          *)
(* implementations are in Foreign; all that is wrong with them is wrong    *)
(* when they leave, and their checksum is right.                           *)
(***************************************************************************)
EXTENDS Integers, Sequences, SequencesExt

CONSTANTS
  Interfaces,    \* of the receiving daemon
  Vrids,         \* virtual router ids
  Priorities,    \* priorities in advertisements
  Intervals,     \* advertisement intervals, in centiseconds
  Sources,       \* primary addresses of the senders
  AddressLists,  \* lists of virtual addresses
  Foreign,       \* first words and addresses of packets of other implementations
  Bits,          \* the bits a medium may flip
  MaxQueue,      \* bound: packets waiting in the raw socket
  MaxCount       \* bound: the error counters

Word == 2^16
Byte == 2^8

Words     == 0 .. Word - 1
Addresses == Words \X Words

ASSUME PacketAssumption ==
  /\ Vrids \subseteq 1..255 /\ Priorities \subseteq 0..255 /\ Intervals \subseteq 1..4095
  /\ Sources \subseteq Addresses /\ AddressLists \subseteq Seq(Addresses)
  /\ Foreign \subseteq Seq(Words) /\ Bits \subseteq 0..15
  /\ MaxQueue \in Nat /\ MaxCount \in Nat

\* 224.0.0.18 and the protocol number
MulticastAddress == <<224 * Byte, 18>>
Protocol         == 112

Routers == [interface : Interfaces, vrid : Vrids]

Advertisements ==
  [interface : Interfaces, vrid : Vrids, source : Sources, priority : Priorities,
   interval : Intervals, addresses : AddressLists]

\* Not an advertisement of version 3, or none at all
Nothing == [vrid |-> 0]

VARIABLES
  queue,      \* packets in the raw socket of the daemon, oldest first
  listeners,  \* VrrpSocket::m_listeners: the routers that hear packets
  calls,      \* onIncomingVrrpPacket and onIncomingVrrpError of the latest packet
  errors      \* the counters all routers share

vars == <<queue, listeners, calls, errors>>

-----------------------------------------------------------------------------
(* Packets *)

Sum(words) ==
  LET UpTo[n \in 0..Len(words)] == IF n = 0 THEN 0 ELSE UpTo[n - 1] + words[n]
  IN UpTo[Len(words)]

Folded[s \in Nat] == IF s < Word THEN s ELSE Folded[(s % Word) + (s \div Word)]

\* The ones' complement of the ones' complement sum, pseudo header included.
checksum_NoPseudoHeader(words, source, destination) == Word - 1 - Folded[Sum(words)]

checksum_Unfolded(words, source, destination) ==
  Word - 1 - (Sum(source) + Sum(destination) + Protocol + 2 * Len(words) + Sum(words))

checksum(words, source, destination) ==
  Word - 1 - Folded[Sum(source) + Sum(destination) + Protocol + 2 * Len(words) + Sum(words)]

Sealed(words, source) ==
  [words EXCEPT ![4] = checksum([words EXCEPT ![4] = 0], source, MulticastAddress)]

Header(vrid, priority, count, interval) ==
  << 49 * Byte + vrid, priority * Byte + (count % Byte), interval % 4096, 0 >>

\* The words of some addresses, one after the other.
Body(addresses) ==
  [n \in 1 .. 2 * Len(addresses) |-> addresses[(n + 1) \div 2][IF n % 2 = 1 THEN 1 ELSE 2]]

\* What sendPacket composes, as it arrives.
Composed(a) ==
  [interface |-> a.interface, source |-> a.source, destination |-> MulticastAddress, ttl |-> 255,
   words |-> Sealed(Header(a.vrid, a.priority, Len(a.addresses), a.interval)
                      \o Body(a.addresses), a.source),
   sent |-> a, garbled |-> FALSE]

FromAnother(i, source, words) ==
  [interface |-> i, source |-> source, destination |-> MulticastAddress, ttl |-> 255,
   words |-> IF Len(words) < 4 THEN words ELSE Sealed(words, source),
   sent |-> Nothing, garbled |-> FALSE]

Version(m)     == m.words[1] \div (16 * Byte)
Type(m)        == (m.words[1] \div Byte) % 16
VridOf(m)      == m.words[1] % Byte
PriorityOf(m)  == m.words[2] \div Byte
CountOf(m)     == m.words[2] % Byte
IntervalOf(m)  == m.words[3] % 4096
AddressesOf(m) == [n \in 1..CountOf(m) |-> <<m.words[3 + 2 * n], m.words[4 + 2 * n]>>]

Decoded(m) ==
  [interface |-> m.interface, vrid |-> VridOf(m), source |-> m.source, priority |-> PriorityOf(m),
   interval |-> IntervalOf(m), addresses |-> AddressesOf(m)]

-----------------------------------------------------------------------------
(* Reception *)

OnInterface(m) == {l \in listeners : l.interface = m.interface}
Addressee(m)   == {l \in OnInterface(m) : l.vrid = VridOf(m)}

Incomplete_OffByOne(m) == Len(m.words) <= 4 + 2 * CountOf(m)
Incomplete(m)          == Len(m.words) < 4 + 2 * CountOf(m)

Fails(check, m) ==
  CASE check = "nobody"     -> OnInterface(m) = {}
    [] check = "short"      -> Len(m.words) < 4
    [] check = "version"    -> Version(m) # 3
    [] check = "checksum"   -> checksum(m.words, m.source, m.destination) # 0
    [] check = "type"       -> Type(m) # 1
    [] check = "vrid"       -> Addressee(m) = {}
    [] check = "ttl"        -> m.ttl # 255
    [] check = "incomplete" -> Incomplete(m)

Checks_VridFirst ==
  <<"nobody", "short", "version", "type", "vrid", "ttl", "checksum", "incomplete">>
Checks ==
  <<"nobody", "short", "version", "checksum", "type", "vrid", "ttl", "incomplete">>

\* The first check that a packet fails, "none" if it passes them all.
Verdict(m) ==
  LET n == SelectInSeq(Checks, LAMBDA check : Fails(check, m))
  IN IF n = 0 THEN "none" ELSE Checks[n]

\* Whom onIncomingVrrpError is called for.  A packet of version 2 has its router id
\* where one of version 3 has it.
Told(m) ==
  CASE Verdict(m) \in {"short", "type", "vrid"}  -> OnInterface(m)
    [] Verdict(m) \in {"ttl", "incomplete"}      -> Addressee(m)
    [] Verdict(m) = "version"                    ->
         IF m.words[1] \div Byte = 33 THEN Addressee(m) ELSE {}
    [] OTHER                                     -> {}

onIncomingVrrpPacket(l, m) == [to |-> l, error |-> "none", advertisement |-> Decoded(m)]
onIncomingVrrpError(l, m)  == [to |-> l, error |-> Verdict(m), advertisement |-> Nothing]

onSocketPacket ==
  /\ queue # <<>>
  /\ queue' = Tail(queue)
  /\ LET m == Head(queue)
     IN /\ calls' = IF Verdict(m) = "none"
                    THEN {onIncomingVrrpPacket(l, m) : l \in Addressee(m)}
                    ELSE {onIncomingVrrpError(l, m) : l \in Told(m)}
        /\ errors' = [e \in DOMAIN errors |->
                        IF e = Verdict(m) /\ errors[e] < MaxCount THEN errors[e] + 1 ELSE errors[e]]
  /\ UNCHANGED listeners

-----------------------------------------------------------------------------
(* The rest of the daemon, and the LAN *)

addEventListener(l) ==
  /\ listeners' = listeners \cup {l}
  /\ calls' = {}
  /\ UNCHANGED <<queue, errors>>

removeEventListener(l) ==
  /\ listeners' = listeners \ {l}
  /\ calls' = {}
  /\ UNCHANGED <<queue, errors>>

Arrives(m) ==
  /\ Len(queue) < MaxQueue
  /\ queue' = Append(queue, m)
  /\ calls' = {}
  /\ UNCHANGED <<listeners, errors>>

sendPacket(a) == Arrives(Composed(a))

\* A bit of a packet that arrives is not as it was sent, in a word or in the source.
Flipped(w, b) == IF (w \div 2^b) % 2 = 0 THEN w + 2^b ELSE w - 2^b

Garbled(a, n, b) ==
  Arrives([Composed(a) EXCEPT !.words[n] = Flipped(@, b), !.garbled = TRUE])

SourceGarbled(a, n, b) ==
  Arrives([Composed(a) EXCEPT !.source[n] = Flipped(@, b), !.garbled = TRUE])

\* A router of the network has passed the packet on.
Forwarded(a) == Arrives([Composed(a) EXCEPT !.ttl = 254])

Init ==
  /\ queue = <<>>
  /\ listeners = {}
  /\ calls = {}
  /\ errors = [version |-> 0, checksum |-> 0, vrid |-> 0]

Next ==
  \/ onSocketPacket
  \/ \E l \in Routers : addEventListener(l) \/ removeEventListener(l)
  \/ \E a \in Advertisements :
       \/ sendPacket(a)
       \/ Forwarded(a)
       \/ \E n \in 1 .. 4 + 2 * Len(a.addresses), b \in Bits : Garbled(a, n, b)
       \/ \E n \in 1..2, b \in Bits : SourceGarbled(a, n, b)
  \/ \E i \in Interfaces, s \in Sources, words \in Foreign : Arrives(FromAnother(i, s, words))

Spec == Init /\ [][Next]_vars

-----------------------------------------------------------------------------
(* Properties *)

\* Words have 16 bits, counters stay at their bound, and only who listens is called.
PacketTypeOK ==
  /\ \A n \in 1..Len(queue) : ToSet(queue[n].words) \subseteq Words
  /\ listeners \subseteq Routers
  /\ {c.to : c \in calls} \subseteq listeners
  /\ \A e \in DOMAIN errors : errors[e] \in 0..MaxCount

Handles(m) == queue # <<>> /\ m = Head(queue) /\ queue' = Tail(queue)

\* Whatever a listener is handed was sent, as it is handed over, by a router of its
\* id on its LAN: no flipped bit of header, addresses or source gets by, and
\* nothing that a router passed on.
DeliversWhatWasSent ==
  [][\A m \in ToSet(queue) :
       Handles(m) =>
         \A c \in calls' :
           c.error = "none" =>
             /\ ~m.garbled /\ m.ttl = 255
             /\ c.advertisement.interface = c.to.interface /\ c.advertisement.vrid = c.to.vrid
             /\ m.sent # Nothing => c.advertisement = m.sent]_vars

\* A packet that was not touched on its way is handed to its router, and to no
\* other, with exactly the values its sender gave it.
IntactIsDelivered ==
  [][\A l \in listeners, m \in ToSet(queue) :
       (/\ Handles(m) /\ m.sent # Nothing /\ ~m.garbled /\ m.ttl = 255
        /\ l.interface = m.interface /\ l.vrid = m.sent.vrid)
       => calls' = {[to |-> l, error |-> "none", advertisement |-> m.sent]}]_vars

\* What noise does to a packet is not held against a router: no listener is told of
\* a wrong type, id, hop limit or length because of it, and none of another
\* interface is told anything.
NoiseIsNotBlamed ==
  [][\A m \in ToSet(queue) :
       Handles(m) =>
         /\ m.garbled => \A c \in calls' : c.error = "version"
         /\ \A c \in calls' : c.to.interface = m.interface]_vars

=============================================================================
