------------------------------- MODULE VrrpHost -------------------------------
(***************************************************************************)
(* Several virtual routers on one interface of a host, and the ArpService  *)
(* that answers for the addresses of those that do not accept traffic.     *)
(*                                                                         *)
(* VrrpService says which addresses each router has placed there.  Here    *)
(* is the table that they share, and the calls that the routers make of    *)
(* addFakeArp and removeFakeArp, whether these change anything or not.     *)
(* Commands about intervals, preemption and the primary address make no    *)
(* such call and are left to VrrpService; the link of the interface stays  *)
(* as it is.                                                               *)
(***************************************************************************)
EXTENDS VrrpService

CONSTANTS
  SubnetsOf,   \* the subnets that an operator gives to each router
  Tuned,       \* bound: the routers whose priority and mode an operator changes; the
               \* others leave their addresses to ArpService
  MaxRefusals  \* bound: entries missing because no socket could be made

ASSUME HostAssumption ==
  /\ SubnetsOf \in [Routers -> SUBSET Subnets]
  /\ Tuned \subseteq Routers
  /\ MaxRefusals \in Nat

VARIABLES
  arp,     \* for a device and an address that ArpService answers for: whose m_mac
           \* (without a macvlan, that of the interface)
  refused, \* <<device, address, router>>: calls of addFakeArp that failed
  taken    \* history, the same: entries of the router that another took back since

tableVars == <<arp, refused, taken>>
hostVars == <<vars, tableVars>>

\* The routers share the interface, and each has virtual devices of its own.
Device(r, iface) == IF iface = Physical THEN <<Physical>> ELSE <<iface, r>>

EntriesOf(r, iface) == {<<Device(r, iface), AddressOf[s]>> : s \in subnets[r]}

\* The entries that a router has placed and not taken back.
Placed(r) == {<<Device(r, p[1]), p[2]>> : p \in fakeArp[r]}

HasService(device) == \E e \in DOMAIN arp : e[1] = device

-----------------------------------------------------------------------------
(* ArpService *)

With(r, entries) == [e \in DOMAIN arp \cup entries |-> IF e \in entries THEN r ELSE arp[e]]

\* What is known of a router's entries, when it calls about some of them anew.
Forgotten(known, r, entries) == {f \in known : f[3] # r \/ <<f[1], f[2]>> \notin entries}

\* The first entry of a device needs a socket, which may not be had; a call that
\* fails is not repeated and its result is not looked at.
addFakeArp(r, entries) ==
  \E lost \in SUBSET entries :
    /\ \A e \in lost : ~HasService(e[1])
    /\ Cardinality(refused) + Cardinality(lost) <= MaxRefusals
    /\ arp' = With(r, entries \ lost)
    /\ refused' = Forgotten(refused, r, entries) \cup {<<e[1], e[2], r>> : e \in lost}
    /\ taken' = Forgotten(taken, r, entries)

Without_DropsService(r, entries) ==
  [e \in {d \in DOMAIN arp : \A f \in entries : f[1] # d[1]} |-> arp[e]]

\* With its last entry the service of a device is deleted.
Without(r, entries) == [e \in DOMAIN arp \ entries |-> arp[e]]

removeFakeArp(r, entries) ==
  /\ arp' = Without(r, entries)
  /\ refused' = Forgotten(refused, r, entries)
  /\ taken' = Forgotten(taken, r, entries)
                \cup UNION {{<<e[1], e[2], q>> : e \in entries \cap Placed(q)} : q \in Routers \ {r}}

NoCall == UNCHANGED tableVars

\* Whose address an ARP request on a device is answered with.
onArpPacket(device, address) ==
  IF <<device, address>> \in DOMAIN arp THEN {arp[<<device, address>>]} ELSE {}

-----------------------------------------------------------------------------
(* The calls of the routers *)

\* setState, on the way to Master and back.
TransitionCalls(r) ==
  CASE state[r] # "Master" /\ state'[r] = "Master" /\ ~HostsAddresses(r) ->
         addFakeArp(r, EntriesOf(r, Physical))
    [] state[r] = "Master" /\ state'[r] # "Master" /\ ~HostsAddresses(r) ->
         removeFakeArp(r, EntriesOf(r, Physical))
    [] OTHER -> NoCall

PriorityCalls(r) ==
  CASE state[r] = "Master" /\ ~acceptMode[r] /\ priority[r] # 255 /\ priority'[r] = 255 ->
         removeFakeArp(r, EntriesOf(r, Physical))
    [] state[r] = "Master" /\ ~acceptMode[r] /\ priority[r] = 255 /\ priority'[r] # 255 ->
         addFakeArp(r, EntriesOf(r, Physical))
    [] OTHER -> NoCall

AcceptCalls(r) ==
  CASE state[r] = "Master" /\ acceptMode'[r]  -> removeFakeArp(r, EntriesOf(r, Physical))
    [] state[r] = "Master" /\ ~acceptMode'[r] -> addFakeArp(r, EntriesOf(r, Physical))
    [] OTHER -> NoCall

Entry(r, s) == {<<Device(r, outputInterface(r)), AddressOf[s]>>}

Answering(r) == state[r] = "Master" /\ ~HostsAddresses(r)

Host(r) ==
  \/ (enable(r) \/ disable(r) \/ React(r)) /\ TransitionCalls(r)
  \/ \E p \in Priorities : r \in Tuned /\ setPriority(r, p) /\ PriorityCalls(r)
  \/ \E m \in AcceptModes : r \in Tuned /\ setAcceptMode(r, m) /\ AcceptCalls(r)
  \/ \E s \in SubnetsOf[r] :
       /\ addIpAddress(r, s)
       /\ IF Answering(r) THEN addFakeArp(r, Entry(r, s)) ELSE NoCall
  \/ \E s \in SubnetsOf[r] :
       /\ removeIpAddress(r, s)
       /\ IF Answering(r) THEN removeFakeArp(r, Entry(r, s)) ELSE NoCall

HostInit ==
  /\ Init
  /\ arp = [e \in {} |-> {}]
  /\ refused = {}
  /\ taken = {}
  /\ \A r, q \in Routers : link[r] = link[q]
  /\ \A r \in Routers \ Tuned : ~HostsAddresses(r)
  /\ \A r \in Routers : subnets[r] \subseteq SubnetsOf[r]

HostNext ==
  \/ \E r \in Routers : Host(r)
  \/ \E d \in TimeSteps : Elapse(d) /\ NoCall

HostSpec == HostInit /\ [][HostNext]_hostVars

-----------------------------------------------------------------------------
(* Properties *)

\* The addresses that only this one of the routers is ever given: an entry has no
\* count, and of two routers with one address the first to leave removes it.
OwnAddresses(r) ==
  {AddressOf[s] : s \in SubnetsOf[r]}
    \ {AddressOf[s] : s \in UNION {SubnetsOf[q] : q \in Routers \ {r}}}

\* A Master on a host with others is answered for at each address it advertises, through
\* its interface or by the table they share, through any order of commands, transitions
\* and calls of the others: unless its call failed, or another router that is given the
\* address took the entry back since.
ServesAdvertised ==
  \A r \in Routers : state[r] = "Master" =>
    \A a \in addresses[r] :
      \/ \E s \in ifAddrs[r] : AddressOf[s] = a
      \/ \E iface \in {Physical, outputInterface(r)} :
           \/ onArpPacket(Device(r, iface), a) # {}
           \/ <<Device(r, iface), a, r>> \in refused \cup taken

\* A Master on a host with others answers with its own MAC for each address that it
\* advertises and they are never given, unless it accepts the traffic or the call
\* failed, however the others come and go; and the table answers for a router only
\* where it has placed an address and not taken it back.
AnswersFollowMasters ==
  \A r \in Routers :
    /\ state[r] = "Master" =>
         \A a \in addresses[r] \cap OwnAddresses(r) :
           \/ \E s \in ifAddrs[r] : AddressOf[s] = a
           \/ \E iface \in {Physical, outputInterface(r)} :
                \/ onArpPacket(Device(r, iface), a) = {r}
                \/ <<Device(r, iface), a, r>> \in refused
    /\ \A e \in DOMAIN arp :
         arp[e] = r => e \in Placed(r)

=============================================================================
