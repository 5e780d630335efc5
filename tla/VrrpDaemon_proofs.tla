--------------------------- MODULE VrrpDaemon_proofs ---------------------------
(***************************************************************************)
(* Proofs about a router in its daemon: where virtual addresses are        *)
(* placed, by one router and by the routers of one interface with the      *)
(* table of ArpService; how a router follows its link; and that it does    *)
(* so, and keeps its timers, under the event loop.                         *)
(*                                                                         *)
(* That a Master serves what it advertises is not inductive: it advertises *)
(* the list of addresses and places the list of subnets.  The invariant    *)
(* adds that every listed address has a listed subnet.                     *)
(*                                                                         *)
(* A step of a host is a step of VrrpService by one of its routers, with   *)
(* the calls that this router makes: it adds what it places to the table,  *)
(* takes back what it takes back, or makes no call.  The table and what a  *)
(* router has placed are the same for the addresses that no other router   *)
(* is given.  Of the others, what the table lacks was refused, or another  *)
(* router has taken it back.                                               *)
(*                                                                         *)
(* VrrpService hears of its link through a queue of netlink messages,      *)
(* late; that it is right once the queue is empty rests on the latest      *)
(* message telling the current state.                                      *)
(*                                                                         *)
(* Under the loop a timer may be served that is not due, and a packet wait *)
(* in the socket while the configuration changes: its steps are not steps  *)
(* of VrrpService's own specification.  Each is one that Step describes,   *)
(* and the invariants are kept by any of these.                            *)
(***************************************************************************)
EXTENDS VrrpHost, VrrpEventLoop, VrrpService_proofs, FiniteSetTheorems

-----------------------------------------------------------------------------
(* One router *)


Hosting(r) == state[r] = "Master" /\ HostsAddresses(r)

Hosted(r) ==
  \A a \in addresses[r] :
    \/ \E s \in ifAddrs[r] : AddressOf[s] = a
    \/ \E e \in fakeArp[r] : e[2] = a

PlacementInvariant(r) ==
  /\ \A a \in addresses[r] : \E s \in subnets[r] : AddressOf[s] = a
  /\ ifAddrs[r] \subseteq subnets[r]
  /\ ~Hosting(r) => ifAddrs[r] = {}
  /\ state[r] = "Master" => Hosted(r)

\* What the invariant is about does not change.
Unmoved(r) ==
  /\ state'[r] = state[r]
  /\ priority'[r] = priority[r] /\ acceptMode'[r] = acceptMode[r]
  /\ subnets'[r] = subnets[r] /\ addresses'[r] = addresses[r]
  /\ ifAddrs'[r] = ifAddrs[r] /\ fakeArp'[r] = fakeArp[r]

LEMMA UnmovedKeeps ==
  ASSUME NEW r, PlacementInvariant(r), Unmoved(r)
  PROVE  PlacementInvariant(r)'
BY DEF PlacementInvariant, Unmoved, Hosted, Hosting, HostsAddresses

\* All subnets on the interface, or all addresses in the ARP service, will do.
LEMMA AllServed ==
  ASSUME NEW r \in Routers, PlacementInvariant(r), addresses'[r] = addresses[r],
         subnets'[r] = subnets[r],
         \/ subnets[r] \subseteq ifAddrs'[r]
         \/ ArpEntries(r, Physical) \subseteq fakeArp'[r]
  PROVE  Hosted(r)'
<1> SUFFICES ASSUME NEW a \in addresses[r]
             PROVE  \/ \E s \in ifAddrs'[r] : AddressOf[s] = a
                    \/ \E e \in fakeArp'[r] : e[2] = a
  BY DEF Hosted
<1>1. PICK s \in subnets[r] : AddressOf[s] = a
  BY DEF PlacementInvariant
<1>2. <<Physical, AddressOf[s]>> \in ArpEntries(r, Physical)
  BY DEF ArpEntries
<1>3. <<Physical, AddressOf[s]>>[2] = a
  BY <1>1
<1> QED
  BY <1>1, <1>2, <1>3

-----------------------------------------------------------------------------
(* What moving the addresses comes to, router by router.                     *)

LEMMA HereIsWritten ==
  ASSUME TypeOK, NEW r \in Routers
  PROVE  /\ MoveToInterface(r) => ifAddrs'[r] = ifAddrs[r] \cup subnets[r]
         /\ MoveToArpService(r) =>
              /\ ifAddrs'[r] = ifAddrs[r] \ subnets[r]
              /\ fakeArp'[r] = fakeArp[r] \cup ArpEntries(r, Physical)
         /\ addIpAddresses(r) /\ HostsAddresses(r) => ifAddrs'[r] = ifAddrs[r] \cup subnets[r]
         /\ addIpAddresses(r) /\ ~HostsAddresses(r) =>
              /\ ifAddrs'[r] = ifAddrs[r]
              /\ fakeArp'[r] = fakeArp[r] \cup ArpEntries(r, Physical)
         /\ removeIpAddresses(r) /\ HostsAddresses(r) => ifAddrs'[r] = ifAddrs[r] \ subnets[r]
         /\ removeIpAddresses(r) /\ ~HostsAddresses(r) => ifAddrs'[r] = ifAddrs[r]
<1>1. ifAddrs \in [Routers -> SUBSET Subnets] /\ fakeArp \in [Routers -> SUBSET Entries]
  BY DEF TypeOK
<1>2. MoveToInterface(r) => ifAddrs'[r] = ifAddrs[r] \cup subnets[r]
  BY <1>1 DEF MoveToInterface
<1>3. MoveToArpService(r) =>
        /\ ifAddrs'[r] = ifAddrs[r] \ subnets[r]
        /\ fakeArp'[r] = fakeArp[r] \cup ArpEntries(r, Physical)
  BY <1>1 DEF MoveToArpService
<1>4. addIpAddresses(r) /\ HostsAddresses(r) => ifAddrs'[r] = ifAddrs[r] \cup subnets[r]
  BY <1>1 DEF addIpAddresses
<1>5. addIpAddresses(r) /\ ~HostsAddresses(r) =>
        /\ ifAddrs'[r] = ifAddrs[r]
        /\ fakeArp'[r] = fakeArp[r] \cup ArpEntries(r, Physical)
  BY <1>1 DEF addIpAddresses
<1>6. /\ removeIpAddresses(r) /\ HostsAddresses(r) => ifAddrs'[r] = ifAddrs[r] \ subnets[r]
      /\ removeIpAddresses(r) /\ ~HostsAddresses(r) => ifAddrs'[r] = ifAddrs[r]
  BY <1>1 DEF removeIpAddresses
<1> QED
  BY <1>2, <1>3, <1>4, <1>5, <1>6

LEMMA SetStateKeeps ==
  ASSUME TypeOK, NEW r \in Routers, NEW new, setState(r, new), PlacementInvariant(r),
         UNCHANGED <<priority, acceptMode, subnets, addresses>>,
         new = "Master" => state[r] # "Master"
  PROVE  PlacementInvariant(r)'
<1>1. state'[r] = new
  BY DEF setState, TypeOK
<1>2. HostsAddresses(r)' <=> HostsAddresses(r)
  BY DEF HostsAddresses
<1>3. subnets'[r] = subnets[r] /\ addresses'[r] = addresses[r]
  OBVIOUS
<1>4. CASE new = "Master"
  <2>1. addIpAddresses(r) /\ ifAddrs[r] = {}
    BY <1>4 DEF setState, PlacementInvariant, Hosting
  <2>2. CASE HostsAddresses(r)
    <3>1. ifAddrs'[r] = subnets[r]
      BY <2>1, <2>2, HereIsWritten
    <3>2. Hosted(r)'
      BY <1>3, <3>1, AllServed
    <3> QED
      BY <1>1, <1>2, <1>3, <1>4, <2>2, <3>1, <3>2 DEF PlacementInvariant, Hosting
  <2>3. CASE ~HostsAddresses(r)
    <3>1. /\ ifAddrs'[r] = {}
          /\ fakeArp'[r] = fakeArp[r] \cup ArpEntries(r, Physical)
      BY <2>1, <2>3, HereIsWritten
    <3>2. Hosted(r)'
      BY <1>3, <3>1, AllServed
    <3> QED
      BY <1>1, <1>2, <1>3, <1>4, <2>3, <3>1, <3>2 DEF PlacementInvariant, Hosting
  <2> QED
    BY <2>2, <2>3
<1>5. CASE new # "Master"
  <2>1. ifAddrs'[r] = {}
    <3>1. CASE state[r] = "Master" /\ HostsAddresses(r)
      BY <1>5, <3>1, HereIsWritten DEF setState, PlacementInvariant, Hosting
    <3>2. CASE state[r] = "Master" /\ ~HostsAddresses(r)
      BY <1>5, <3>2, HereIsWritten DEF setState, PlacementInvariant, Hosting
    <3>3. CASE state[r] # "Master"
      BY <1>5, <3>3 DEF setState, PlacementInvariant, Hosting
    <3> QED
      BY <3>1, <3>2, <3>3
  <2> QED
    BY <1>1, <1>3, <1>5, <2>1 DEF PlacementInvariant, Hosting
<1> QED
  BY <1>4, <1>5

-----------------------------------------------------------------------------
(* The steps of the router itself.                                           *)

LEMMA BecomeMasterKeeps ==
  ASSUME TypeOK, NEW r \in Routers, BecomeMaster(r), state[r] # "Master",
         UNCHANGED <<priority, acceptMode, subnets, addresses>>, PlacementInvariant(r)
  PROVE  PlacementInvariant(r)'
BY SetStateKeeps DEF BecomeMaster

LEMMA StartupKeeps ==
  ASSUME TypeOK, NEW r \in Routers, startup(r), state[r] # "Master",
         UNCHANGED <<priority, acceptMode, subnets, addresses>>, PlacementInvariant(r)
  PROVE  PlacementInvariant(r)'
BY BecomeMasterKeeps, SetStateKeeps DEF startup

LEMMA ShutdownKeeps ==
  ASSUME TypeOK, NEW r \in Routers, NEW new \in {"Disabled", "LinkDown"}, shutdown(r, new),
         UNCHANGED <<priority, acceptMode, subnets, addresses>>, PlacementInvariant(r)
  PROVE  PlacementInvariant(r)'
BY SetStateKeeps DEF shutdown

\* What the three moves come to for a router that stays in its state.
LEMMA ToInterfaceKeeps ==
  ASSUME TypeOK, NEW r \in Routers, MoveToInterface(r), PlacementInvariant(r),
         state[r] = "Master", HostsAddresses(r)', UNCHANGED <<state, subnets, addresses>>
  PROVE  PlacementInvariant(r)'
<1>1. ifAddrs'[r] = subnets[r]
  BY HereIsWritten DEF PlacementInvariant
<1>2. Hosted(r)'
  BY <1>1, AllServed
<1> QED
  BY <1>1, <1>2 DEF PlacementInvariant, Hosting

LEMMA ToArpServiceKeeps ==
  ASSUME TypeOK, NEW r \in Routers, MoveToArpService(r), PlacementInvariant(r),
         UNCHANGED <<state, subnets, addresses>>
  PROVE  PlacementInvariant(r)'
<1>1. /\ ifAddrs'[r] = {}
      /\ fakeArp'[r] = fakeArp[r] \cup ArpEntries(r, Physical)
  BY HereIsWritten DEF PlacementInvariant
<1>2. Hosted(r)'
  BY <1>1, AllServed
<1> QED
  BY <1>1, <1>2 DEF PlacementInvariant, Hosting

LEMMA StillKeeps ==
  ASSUME NEW r \in Routers, PlacementInvariant(r),
         UNCHANGED <<state, subnets, addresses, ifAddrs, fakeArp>>,
         Hosting(r) => HostsAddresses(r)'
  PROVE  PlacementInvariant(r)'
<1>1. Hosting(r) => Hosting(r)'
  BY DEF Hosting
<1> QED
  BY <1>1 DEF PlacementInvariant, Hosted

\* Changing the priority moves the addresses when it changes who hosts them.
LEMMA SetPriorityKeeps ==
  ASSUME ConfigAssumption, TypeOK, NEW r \in Routers, NEW p \in Priorities, setPriority(r, p),
         PlacementInvariant(r)
  PROVE  PlacementInvariant(r)'
<1>1. UNCHANGED <<state, acceptMode, subnets, addresses>>
  BY DEF setPriority, listVars
<1>2. priority'[r] = p
  BY DEF setPriority, TypeOK
<1> DEFINE moving == state[r] = "Master" /\ ~acceptMode[r]
<1>3. CASE moving /\ priority[r] # 255 /\ p = 255
  <2>1. MoveToInterface(r)
    BY <1>3 DEF setPriority
  <2>2. HostsAddresses(r)'
    BY <1>2, <1>3 DEF HostsAddresses
  <2> QED
    BY <1>1, <1>3, <2>1, <2>2, ToInterfaceKeeps
<1>4. CASE moving /\ priority[r] = 255 /\ p # 255
  <2>1. MoveToArpService(r)
    BY <1>4 DEF setPriority
  <2> QED
    BY <1>1, <2>1, ToArpServiceKeeps
<1>5. CASE ~(moving /\ priority[r] # 255 /\ p = 255) /\ ~(moving /\ priority[r] = 255 /\ p # 255)
  <2>1. UNCHANGED <<ifAddrs, fakeArp>>
    BY <1>5 DEF setPriority
  <2>2. Hosting(r) => HostsAddresses(r)'
    BY <1>1, <1>2, <1>5 DEF Hosting, HostsAddresses
  <2> QED
    BY <1>1, <2>1, <2>2, StillKeeps
<1> QED
  BY <1>3, <1>4, <1>5

\* Turning accept mode off moves the addresses even when the owner hosts them.
LEMMA SetAcceptModeKeeps ==
  ASSUME ConfigAssumption, TypeOK, NEW r \in Routers, NEW m \in AcceptModes,
         setAcceptMode(r, m), PlacementInvariant(r)
  PROVE  PlacementInvariant(r)'
<1>1. UNCHANGED <<state, priority, subnets, addresses>>
  BY DEF setAcceptMode, listVars
<1>2. acceptMode'[r] = m /\ m \in BOOLEAN
  BY DEF setAcceptMode, TypeOK, ConfigAssumption
<1>3. CASE state[r] = "Master" /\ m
  <2>1. MoveToInterface(r)
    BY <1>3 DEF setAcceptMode
  <2>2. HostsAddresses(r)'
    BY <1>2, <1>3 DEF HostsAddresses
  <2> QED
    BY <1>1, <1>3, <2>1, <2>2, ToInterfaceKeeps
<1>4. CASE state[r] = "Master" /\ ~m
  <2>1. MoveToArpService(r)
    BY <1>4 DEF setAcceptMode
  <2> QED
    BY <1>1, <2>1, ToArpServiceKeeps
<1>5. CASE state[r] # "Master"
  <2>1. UNCHANGED <<ifAddrs, fakeArp>>
    BY <1>5 DEF setAcceptMode
  <2> QED
    BY <1>1, <1>5, <2>1, StillKeeps DEF Hosting
<1> QED
  BY <1>2, <1>3, <1>4, <1>5

LEMMA AddIpAddressKeeps ==
  ASSUME TypeOK, NEW r \in Routers, NEW s \in Subnets, addIpAddress(r, s), PlacementInvariant(r)
  PROVE  PlacementInvariant(r)'
<1> DEFINE e == <<outputInterface(r), AddressOf[s]>>
<1>1. /\ subnets'[r] = subnets[r] \cup {s}
      /\ addresses'[r] = addresses[r] \cup {AddressOf[s]}
  BY DEF addIpAddress, TypeOK
<1>2. UNCHANGED <<state, priority, acceptMode>>
  BY DEF addIpAddress, configVars
<1>3. HostsAddresses(r)' <=> HostsAddresses(r)
  BY <1>2 DEF HostsAddresses
<1>4. \A a \in addresses'[r] : \E t \in subnets'[r] : AddressOf[t] = a
  BY <1>1 DEF PlacementInvariant
<1>5. CASE Hosting(r)
  <2>1. ifAddrs'[r] = ifAddrs[r] \cup {s} /\ fakeArp' = fakeArp
    BY <1>5 DEF addIpAddress, TypeOK, Hosting
  <2>2. Hosted(r)'
    BY <1>1, <1>5, <2>1 DEF PlacementInvariant, Hosted, Hosting
  <2> QED
    BY <1>1, <1>2, <1>3, <1>4, <1>5, <2>1, <2>2 DEF PlacementInvariant, Hosting
<1>6. CASE state[r] = "Master" /\ ~HostsAddresses(r)
  <2>1. ifAddrs' = ifAddrs
    BY <1>6 DEF addIpAddress
  <2>2. fakeArp'[r] = fakeArp[r] \cup {e}
    BY <1>6 DEF addIpAddress, TypeOK
  <2>3. e[2] = AddressOf[s]
    OBVIOUS
  <2> HIDE DEF e
  <2>4. Hosted(r)'
    BY <1>1, <1>6, <2>1, <2>2, <2>3 DEF PlacementInvariant, Hosted
  <2> QED
    BY <1>1, <1>2, <1>3, <1>4, <1>6, <2>1, <2>4 DEF PlacementInvariant, Hosting
<1>7. CASE state[r] # "Master"
  <2>1. ifAddrs' = ifAddrs
    BY <1>7 DEF addIpAddress
  <2> QED
    BY <1>1, <1>2, <1>4, <1>7, <2>1 DEF PlacementInvariant, Hosting
<1> QED
  BY <1>5, <1>6, <1>7 DEF Hosting

LEMMA RemoveIpAddressKeeps ==
  ASSUME TypeOK, NEW r \in Routers, NEW s \in Subnets, removeIpAddress(r, s),
         PlacementInvariant(r)
  PROVE  PlacementInvariant(r)'
<1> DEFINE e == <<outputInterface(r), AddressOf[s]>>
<1>1. /\ subnets'[r] = subnets[r] \ {s}
      /\ addresses'[r] = addresses[r] \ {AddressOf[s]}
  BY DEF removeIpAddress, TypeOK
<1>2. UNCHANGED <<state, priority, acceptMode>>
  BY DEF removeIpAddress, configVars
<1>3. HostsAddresses(r)' <=> HostsAddresses(r)
  BY <1>2 DEF HostsAddresses
<1>4. \A a \in addresses'[r] : \E t \in subnets'[r] : AddressOf[t] = a
  BY <1>1 DEF PlacementInvariant
<1>5. CASE Hosting(r)
  <2>1. ifAddrs'[r] = ifAddrs[r] \ {s} /\ fakeArp' = fakeArp
    BY <1>5 DEF removeIpAddress, TypeOK, Hosting
  <2>2. Hosted(r)'
    BY <1>1, <1>5, <2>1 DEF PlacementInvariant, Hosted, Hosting
  <2> QED
    BY <1>1, <1>2, <1>3, <1>4, <1>5, <2>1, <2>2 DEF PlacementInvariant, Hosting
<1>6. CASE state[r] = "Master" /\ ~HostsAddresses(r)
  <2>1. ifAddrs' = ifAddrs /\ ifAddrs[r] = {}
    BY <1>6 DEF removeIpAddress, PlacementInvariant, Hosting
  <2>2. fakeArp'[r] = fakeArp[r] \ {e}
    BY <1>6 DEF removeIpAddress, TypeOK
  <2>3. e[2] = AddressOf[s]
    OBVIOUS
  <2> HIDE DEF e
  <2>4. Hosted(r)'
    BY <1>1, <1>6, <2>1, <2>2, <2>3 DEF PlacementInvariant, Hosted
  <2> QED
    BY <1>1, <1>2, <1>3, <1>4, <1>6, <2>1, <2>4 DEF PlacementInvariant, Hosting
<1>7. CASE state[r] # "Master"
  <2>1. ifAddrs' = ifAddrs /\ ifAddrs[r] = {}
    BY <1>7 DEF removeIpAddress, PlacementInvariant, Hosting
  <2> QED
    BY <1>1, <1>2, <1>4, <1>7, <2>1 DEF PlacementInvariant, Hosting
<1> QED
  BY <1>5, <1>6, <1>7 DEF Hosting

LEMMA PacketKeeps ==
  ASSUME TypeOK, NEW r \in Routers, NEW pkt \in Packets, onIncomingVrrpPacket(r, pkt),
         PlacementInvariant(r)
  PROVE  PlacementInvariant(r)'
<1>1. UNCHANGED <<priority, acceptMode, subnets, addresses>>
  BY DEF onIncomingVrrpPacket, configVars, listVars
<1>2. CASE MasterYields(r, pkt)
  BY <1>1, <1>2, SetStateKeeps DEF MasterYields
<1>3. CASE UNCHANGED <<state, placeVars>>
  BY <1>1, <1>3, UnmovedKeeps DEF placeVars, Unmoved
<1> QED
  BY <1>2, <1>3 DEF onIncomingVrrpPacket, BackupHearsGoodbye, BackupHearsMaster,
                    IgnoresAdvertisement, MasterHearsGoodbye

Turn(r) == Operate(r) \/ React(r) \/ LinkChange(r)

LEMMA StepKeeps ==
  ASSUME ConfigAssumption, TypeOK, NEW r \in Routers, Turn(r), PlacementInvariant(r)
  PROVE  PlacementInvariant(r)'
<1>1. ASSUME UNCHANGED <<state, priority, acceptMode, listVars, placeVars>>
      PROVE  PlacementInvariant(r)'
  BY <1>1, UnmovedKeeps DEF Unmoved, listVars, placeVars
<1>2. ASSUME UNCHANGED <<configVars, listVars>>
      PROVE  UNCHANGED <<priority, acceptMode, subnets, addresses>>
  BY <1>2 DEF configVars, listVars
<1>3. CASE enable(r)
  <2>1. state[r] # "Master" /\ (startup(r) \/ setState(r, "LinkDown"))
    BY <1>3 DEF enable
  <2>2. UNCHANGED <<priority, acceptMode, subnets, addresses>>
    BY <1>2, <1>3 DEF enable
  <2> QED
    BY <2>1, <2>2, StartupKeeps, SetStateKeeps
<1>4. CASE disable(r)
  BY <1>2, <1>4, ShutdownKeeps DEF disable
<1>5. ASSUME NEW i \in Intervals, setAdvertisementInterval(r, i)
      PROVE  PlacementInvariant(r)'
  BY <1>1, <1>5 DEF setAdvertisementInterval
<1>6. ASSUME NEW m, setPreemptMode(r, m)
      PROVE  PlacementInvariant(r)'
  BY <1>1, <1>6 DEF setPreemptMode
<1>7. ASSUME NEW ip, setPrimaryIpAddress(r, ip) \/ unsetPrimaryIpAddress(r)
      PROVE  PlacementInvariant(r)'
  BY <1>1, <1>7 DEF setPrimaryIpAddress, unsetPrimaryIpAddress, configVars
<1>8. CASE MasterDownExpires(r)
  <2>1. UNCHANGED <<priority, acceptMode, subnets, addresses>>
    BY <1>2, <1>8 DEF MasterDownExpires, onMasterDownTimer
  <2>2. BecomeMaster(r) /\ state[r] # "Master"
    BY <1>8 DEF MasterDownExpires, onMasterDownTimer
  <2> QED
    BY <2>1, <2>2, BecomeMasterKeeps
<1>9. CASE AdvertisementExpires(r)
  BY <1>1, <1>9 DEF AdvertisementExpires, onAdvertisementTimer, configVars
<1>10. CASE interfaceCallback(r)
  <2>1. UNCHANGED <<priority, acceptMode, subnets, addresses>>
    BY <1>2, <1>10 DEF interfaceCallback
  <2>2. CASE ComesUp(r) /\ startup(r)
    BY <2>1, <2>2, StartupKeeps DEF ComesUp
  <2>3. CASE shutdown(r, "LinkDown")
    BY <2>1, <2>3, ShutdownKeeps
  <2>4. CASE UNCHANGED <<state, placeVars>>
    BY <2>1, <2>4, UnmovedKeeps DEF placeVars, Unmoved
  <2> QED
    BY <1>10, <2>2, <2>3, <2>4 DEF interfaceCallback
<1>11. CASE LinkChange(r)
  BY <1>1, <1>11 DEF LinkChange, configVars
<1> QED
  BY <1>3, <1>4, <1>5, <1>6, <1>7, <1>8, <1>9, <1>10, <1>11, SetPriorityKeeps,
     SetAcceptModeKeeps, AddIpAddressKeeps, RemoveIpAddressKeeps, PacketKeeps
  DEF Turn, Operate, React

-----------------------------------------------------------------------------
(* A step of one router moves nothing of another's.                          *)

LEMMA SetStateOthers ==
  ASSUME TypeOK, NEW r \in Routers, NEW q \in Routers \ {r},
         UNCHANGED <<priority, acceptMode, subnets, addresses>>,
         \/ \E new : setState(r, new)
         \/ state' = state /\ (MoveToInterface(r) \/ MoveToArpService(r))
         \/ UNCHANGED <<state, ifAddrs, fakeArp>>
  PROVE  Unmoved(q)
<1>1. state'[q] = state[q]
  BY DEF setState, TypeOK
<1>2. \/ addIpAddresses(r) \/ removeIpAddresses(r) \/ MoveToInterface(r) \/ MoveToArpService(r)
      \/ UNCHANGED <<ifAddrs, fakeArp>>
  BY DEF setState
<1>3. ifAddrs'[q] = ifAddrs[q] /\ fakeArp'[q] = fakeArp[q]
  BY <1>2 DEF addIpAddresses, removeIpAddresses, MoveToInterface, MoveToArpService, TypeOK
<1> QED
  BY <1>1, <1>3 DEF Unmoved

LEMMA StepOthersUnmoved ==
  ASSUME TypeOK, NEW r \in Routers, NEW q \in Routers \ {r}, Turn(r)
  PROVE  Unmoved(q)
<1>1. ASSUME UNCHANGED <<configVars, listVars>>, \E new : setState(r, new)
      PROVE  Unmoved(q)
  BY <1>1, SetStateOthers DEF configVars, listVars
<1>2. ASSUME UNCHANGED <<state, priority, acceptMode, listVars, placeVars>>
      PROVE  Unmoved(q)
  BY <1>2 DEF Unmoved, listVars, placeVars
<1>3. \A new : shutdown(r, new) => \E x : setState(r, x)
  BY DEF shutdown
<1>4. startup(r) => \E x : setState(r, x)
  BY DEF startup, BecomeMaster
<1>5. CASE enable(r) \/ disable(r)
  BY <1>1, <1>3, <1>4, <1>5 DEF enable, disable
<1>6. ASSUME NEW p \in Priorities, setPriority(r, p)
      PROVE  Unmoved(q)
  <2>1. priority'[q] = priority[q]
    BY <1>6 DEF setPriority, TypeOK
  <2>2. MoveToInterface(r) \/ MoveToArpService(r) \/ UNCHANGED <<ifAddrs, fakeArp>>
    BY <1>6 DEF setPriority
  <2>3. ifAddrs'[q] = ifAddrs[q] /\ fakeArp'[q] = fakeArp[q]
    BY <2>2 DEF MoveToInterface, MoveToArpService, TypeOK
  <2> QED
    BY <1>6, <2>1, <2>3 DEF setPriority, listVars, Unmoved
<1>7. ASSUME NEW m, setAcceptMode(r, m)
      PROVE  Unmoved(q)
  <2>1. acceptMode'[q] = acceptMode[q]
    BY <1>7 DEF setAcceptMode, TypeOK
  <2>2. MoveToInterface(r) \/ MoveToArpService(r) \/ UNCHANGED <<ifAddrs, fakeArp>>
    BY <1>7 DEF setAcceptMode
  <2>3. ifAddrs'[q] = ifAddrs[q] /\ fakeArp'[q] = fakeArp[q]
    BY <2>2 DEF MoveToInterface, MoveToArpService, TypeOK
  <2> QED
    BY <1>7, <2>1, <2>3 DEF setAcceptMode, listVars, Unmoved
<1>8. ASSUME NEW s, addIpAddress(r, s) \/ removeIpAddress(r, s)
      PROVE  Unmoved(q)
  <2>1. subnets'[q] = subnets[q] /\ addresses'[q] = addresses[q]
    BY <1>8 DEF addIpAddress, removeIpAddress, TypeOK
  <2>2. ifAddrs'[q] = ifAddrs[q] /\ fakeArp'[q] = fakeArp[q]
    BY <1>8 DEF addIpAddress, removeIpAddress, TypeOK
  <2> QED
    BY <1>8, <2>1, <2>2 DEF addIpAddress, removeIpAddress, configVars, Unmoved
<1>9. ASSUME NEW x, \/ setAdvertisementInterval(r, x) \/ setPreemptMode(r, x)
                    \/ setPrimaryIpAddress(r, x) \/ unsetPrimaryIpAddress(r)
      PROVE  Unmoved(q)
  BY <1>2, <1>9 DEF setAdvertisementInterval, setPreemptMode, setPrimaryIpAddress,
                    unsetPrimaryIpAddress, configVars
<1>10. CASE MasterDownExpires(r)
  BY <1>1, <1>10 DEF MasterDownExpires, onMasterDownTimer, BecomeMaster
<1>11. CASE AdvertisementExpires(r)
  BY <1>2, <1>11 DEF AdvertisementExpires, onAdvertisementTimer, configVars
<1>12. ASSUME NEW pkt \in Packets, onIncomingVrrpPacket(r, pkt)
       PROVE  Unmoved(q)
  <2>1. CASE MasterYields(r, pkt)
    BY <1>1, <1>12, <2>1 DEF onIncomingVrrpPacket, MasterYields
  <2>2. CASE UNCHANGED <<state, placeVars>>
    BY <1>2, <1>12, <2>2 DEF onIncomingVrrpPacket, configVars
  <2> QED
    BY <1>12, <2>1, <2>2 DEF onIncomingVrrpPacket, BackupHearsGoodbye, BackupHearsMaster,
                             IgnoresAdvertisement, MasterHearsGoodbye
<1>13. CASE interfaceCallback(r)
  <2>1. CASE \E x : setState(r, x)
    BY <1>1, <1>13, <2>1 DEF interfaceCallback
  <2>2. CASE UNCHANGED <<state, placeVars>>
    BY <1>2, <1>13, <2>2 DEF interfaceCallback, configVars
  <2> QED
    BY <1>3, <1>4, <1>13, <2>1, <2>2 DEF interfaceCallback
<1>14. CASE LinkChange(r)
  BY <1>2, <1>14 DEF LinkChange, configVars
<1> QED
  BY <1>5, <1>6, <1>7, <1>8, <1>9, <1>10, <1>11, <1>12, <1>13, <1>14
  DEF Turn, Operate, React

-----------------------------------------------------------------------------

LEMMA PlacementStep ==
  ASSUME ConfigAssumption, TypeOK, \A q \in Routers : PlacementInvariant(q), [Next]_vars
  PROVE  \A q \in Routers : PlacementInvariant(q)'
<1> SUFFICES ASSUME NEW q \in Routers
             PROVE  PlacementInvariant(q)'
  OBVIOUS
<1>1. ASSUME NEW r \in Routers, Turn(r)
      PROVE  PlacementInvariant(q)'
  <2>1. CASE q = r
    BY <1>1, <2>1, StepKeeps
  <2>2. CASE q # r
    <3>1. Unmoved(q)
      BY <1>1, <2>2, StepOthersUnmoved
    <3> QED
      BY <3>1, UnmovedKeeps
  <2> QED
    BY <2>1, <2>2
<1>2. ASSUME NEW d \in TimeSteps, Elapse(d)
      PROVE  PlacementInvariant(q)'
  <2>1. Unmoved(q)
    BY <1>2 DEF Elapse, configVars, listVars, placeVars, Unmoved
  <2> QED
    BY <2>1, UnmovedKeeps
<1>3. CASE UNCHANGED vars
  <2>1. Unmoved(q)
    BY <1>3 DEF vars, configVars, listVars, placeVars, Unmoved
  <2> QED
    BY <2>1, UnmovedKeeps
<1> QED
  BY <1>1, <1>2, <1>3 DEF Next, Turn

LEMMA PlacementAlways == Spec => [](TypeOK /\ \A q \in Routers : PlacementInvariant(q))
<1>1. Init => TypeOK /\ \A q \in Routers : PlacementInvariant(q)
  <2>1. ASSUME Init, NEW q \in Routers
        PROVE  PlacementInvariant(q)
    <3>1. /\ state[q] = "Disabled" /\ ifAddrs[q] = {}
          /\ addresses[q] = {AddressOf[s] : s \in subnets[q]}
      BY <2>1 DEF Init
    <3> QED
      BY <3>1 DEF PlacementInvariant, Hosting
  <2> QED
    BY <2>1, ConfigAssumption, InitType
<1>2. TypeOK /\ (\A q \in Routers : PlacementInvariant(q)) /\ [Next]_vars
        => TypeOK' /\ (\A q \in Routers : PlacementInvariant(q))'
  BY ConfigAssumption, NextType, PlacementStep
<1> QED
  BY <1>1, <1>2, PTL DEF Spec

\* Only a Master that accepts or owns the addresses has them on its interface.
THEOREM OnlyMastersHost == Spec => []HostedOnlyByMaster
<1>1. (\A q \in Routers : PlacementInvariant(q)) => HostedOnlyByMaster
  BY DEF PlacementInvariant, Hosting, HostedOnlyByMaster
<1> QED
  BY <1>1, PlacementAlways, PTL

-----------------------------------------------------------------------------
(* The table of the interface *)

Cell(r, p) == <<Device(r, p[1]), p[2]>>

Placeable(r) ==
  {<<iface, AddressOf[s]>> : iface \in {Physical, outputInterface(r)}, s \in SubnetsOf[r]}

\* What the router has placed of its own is in the table, under its name, or was refused.
OwnAreEntered(r) ==
  \A p \in fakeArp[r] :
    p[2] \in OwnAddresses(r) =>
      \/ Cell(r, p) \in DOMAIN arp /\ arp[Cell(r, p)] = r
      \/ <<Cell(r, p)[1], Cell(r, p)[2], r>> \in refused

\* What the router has placed is in the table, whosever it is now, or it was refused or
\* another router has taken it back.
AllAreEntered(r) ==
  \A p \in fakeArp[r] :
    \/ Cell(r, p) \in DOMAIN arp
    \/ <<Cell(r, p)[1], Cell(r, p)[2], r>> \in refused \cup taken

\* What is in the table under a router's name was placed by that router.
EntriesArePlaced(r) ==
  \A e \in DOMAIN arp : arp[e] = r => \E p \in fakeArp[r] : e = Cell(r, p)

TableInvariant(r) ==
  /\ subnets[r] \subseteq SubnetsOf[r]
  /\ fakeArp[r] \subseteq Placeable(r)
  /\ OwnAreEntered(r)
  /\ AllAreEntered(r)
  /\ EntriesArePlaced(r)

-----------------------------------------------------------------------------
(* Devices and cells                                                         *)

\* Two places of two routers are one cell of the table only on the physical interface.
LEMMA CellsAreApart ==
  ASSUME NEW r, NEW q, NEW p, NEW o, NEW x, NEW y, NEW i, NEW j,
         p = <<i, x>>, o = <<j, y>>, Cell(r, p) = Cell(q, o)
  PROVE  /\ x = y
         /\ r = q => p = o
<1>1. Cell(r, p) = <<Device(r, i), x>> /\ Cell(q, o) = <<Device(q, j), y>>
  BY DEF Cell
<1>2. x = y /\ Device(r, i) = Device(q, j)
  BY <1>1
<1>3. ASSUME r = q
      PROVE  i = j
  <2>1. CASE i = Physical /\ j = Physical
    BY <2>1
  <2>2. CASE i = Physical /\ j # Physical
    <3>1. <<Physical>> = <<j, q>>
      BY <1>2, <2>2 DEF Device
    <3> QED BY <3>1
  <2>3. CASE i # Physical /\ j = Physical
    <3>1. <<i, r>> = <<Physical>>
      BY <1>2, <2>3 DEF Device
    <3> QED BY <3>1
  <2>4. CASE i # Physical /\ j # Physical
    <3>1. <<i, r>> = <<j, q>>
      BY <1>2, <2>4 DEF Device
    <3> QED BY <3>1
  <2> QED BY <2>1, <2>2, <2>3, <2>4
<1> QED BY <1>2, <1>3

\* The entries that a call is about are the cells of what the router places.
LEMMA EntriesAreCells ==
  ASSUME NEW r, NEW iface
  PROVE  EntriesOf(r, iface) = {Cell(r, p) : p \in ArpEntries(r, iface)}
<1>1. \A s \in subnets[r] : Cell(r, <<iface, AddressOf[s]>>) = <<Device(r, iface), AddressOf[s]>>
  BY DEF Cell
<1> QED BY <1>1 DEF EntriesOf, ArpEntries

-----------------------------------------------------------------------------
(* The calls of a router, and what it remembers of them                      *)

Adds(r, P) ==
  /\ P \subseteq Placeable(r)
  /\ fakeArp'[r] = fakeArp[r] \cup P
  /\ addFakeArp(r, {Cell(r, p) : p \in P})

Removes(r, P) ==
  /\ P \subseteq Placeable(r)
  /\ fakeArp'[r] = fakeArp[r] \ P
  /\ removeFakeArp(r, {Cell(r, p) : p \in P})

Keeps(r) == fakeArp'[r] = fakeArp[r] /\ NoCall

Calls(r) == (\E P : Adds(r, P) \/ Removes(r, P)) \/ Keeps(r)

LEMMA PlacesArePairs ==
  ASSUME NEW r, NEW p \in Placeable(r)
  PROVE  /\ p = <<p[1], p[2]>>
         /\ \E s \in SubnetsOf[r] : p[2] = AddressOf[s]
BY DEF Placeable

\* The cells of other routers' calls are not those of a router's own addresses.
LEMMA OwnCellsAreApart ==
  ASSUME NEW r \in Routers, NEW q \in Routers \ {r},
         NEW p \in Placeable(r), p[2] \in OwnAddresses(r), NEW o \in Placeable(q)
  PROVE  Cell(r, p) # Cell(q, o)
<1>1. p = <<p[1], p[2]>> /\ o = <<o[1], o[2]>>
  BY PlacesArePairs
<1>2. PICK s \in SubnetsOf[q] : o[2] = AddressOf[s]
  BY PlacesArePairs
<1>3. s \in UNION {SubnetsOf[t] : t \in Routers \ {r}}
  BY <1>2
<1>4. p[2] # o[2]
  BY <1>2, <1>3 DEF OwnAddresses
<1> QED BY <1>1, <1>4, CellsAreApart

LEMMA AddKeeps ==
  ASSUME NEW r \in Routers, NEW P, Adds(r, P), NEW q \in Routers,
         q # r => fakeArp'[q] = fakeArp[q], fakeArp[q] \subseteq Placeable(q),
         OwnAreEntered(q), EntriesArePlaced(q)
  PROVE  OwnAreEntered(q)' /\ EntriesArePlaced(q)'
<1> DEFINE E == {Cell(r, p) : p \in P}
<1>1. PICK lost \in SUBSET E :
        /\ arp' = With(r, E \ lost)
        /\ refused' = {f \in refused : f[3] # r \/ <<f[1], f[2]>> \notin E}
                        \cup {<<e[1], e[2], r>> : e \in lost}
  BY DEF Adds, addFakeArp, Forgotten
<1>2. /\ DOMAIN arp' = DOMAIN arp \cup (E \ lost)
      /\ \A e \in DOMAIN arp' : arp'[e] = IF e \in E \ lost THEN r ELSE arp[e]
  BY <1>1 DEF With
<1>3. ASSUME NEW p \in fakeArp'[q], p[2] \in OwnAddresses(q)
      PROVE  \/ Cell(q, p) \in DOMAIN arp' /\ arp'[Cell(q, p)] = q
             \/ <<Cell(q, p)[1], Cell(q, p)[2], q>> \in refused'
  <2> DEFINE c == Cell(q, p)
  <2>0. c = <<c[1], c[2]>>
    BY DEF Cell
  <2>1. CASE c \in E /\ q = r
    <3>1. CASE c \in lost
      BY <1>1, <2>1, <3>1
    <3>2. CASE c \notin lost
      BY <1>2, <2>1, <3>2
    <3> QED BY <3>1, <3>2
  <2>2. CASE c \in E /\ q # r
    <3>1. p \in Placeable(q) /\ P \subseteq Placeable(r)
      BY <2>2 DEF Adds
    <3>2. PICK o \in P : c = Cell(r, o)
      BY <2>2
    <3> QED BY <1>3, <2>2, <3>1, <3>2, OwnCellsAreApart
  <2>3. CASE c \notin E
    <3>1. p \in fakeArp[q]
      BY <2>3 DEF Adds
    <3>2. CASE c \in DOMAIN arp /\ arp[c] = q
      BY <1>2, <2>3, <3>2
    <3>3. CASE <<c[1], c[2], q>> \in refused
      <4> DEFINE f == <<c[1], c[2], q>>
      <4>1. <<f[1], f[2]>> = c
        BY <2>0
      <4> QED BY <1>1, <2>3, <3>3, <4>1
    <3> QED BY <1>3, <3>1, <3>2, <3>3 DEF OwnAreEntered
  <2> QED BY <2>1, <2>2, <2>3
<1>4. ASSUME NEW e \in DOMAIN arp', arp'[e] = q
      PROVE  \E p \in fakeArp'[q] : e = Cell(q, p)
  <2>1. CASE e \in E \ lost
    <3>1. q = r
      BY <1>2, <1>4, <2>1
    <3>2. P \subseteq fakeArp'[r]
      BY DEF Adds
    <3> QED BY <2>1, <3>1, <3>2
  <2>2. CASE e \notin E \ lost
    <3>1. e \in DOMAIN arp /\ arp[e] = q
      BY <1>2, <1>4, <2>2
    <3>2. fakeArp[q] \subseteq fakeArp'[q]
      BY DEF Adds
    <3> QED BY <3>1, <3>2 DEF EntriesArePlaced
  <2> QED BY <2>1, <2>2
<1>5. OwnAddresses(q)' = OwnAddresses(q)
  BY DEF OwnAddresses
<1> QED BY <1>3, <1>4, <1>5 DEF OwnAreEntered, EntriesArePlaced, Cell, Device

LEMMA RemoveKeeps ==
  ASSUME NEW r \in Routers, NEW P, Removes(r, P), NEW q \in Routers,
         q # r => fakeArp'[q] = fakeArp[q], fakeArp[q] \subseteq Placeable(q),
         OwnAreEntered(q), EntriesArePlaced(q)
  PROVE  OwnAreEntered(q)' /\ EntriesArePlaced(q)'
<1> DEFINE E == {Cell(r, p) : p \in P}
<1>1. /\ arp' = Without(r, E)
      /\ refused' = {f \in refused : f[3] # r \/ <<f[1], f[2]>> \notin E}
  BY DEF Removes, removeFakeArp, Forgotten
<1>2. /\ DOMAIN arp' = DOMAIN arp \ E
      /\ \A e \in DOMAIN arp' : arp'[e] = arp[e]
  BY <1>1 DEF Without
<1>3. ASSUME NEW p \in fakeArp'[q], p[2] \in OwnAddresses(q)
      PROVE  \/ Cell(q, p) \in DOMAIN arp' /\ arp'[Cell(q, p)] = q
             \/ <<Cell(q, p)[1], Cell(q, p)[2], q>> \in refused'
  <2> DEFINE c == Cell(q, p)
  <2>0. c = <<c[1], c[2]>>
    BY DEF Cell
  <2>1. /\ p \in fakeArp[q] /\ p \in Placeable(q)
        /\ q = r => p \notin P
    BY DEF Removes
  <2>2. c \notin E
    <3> SUFFICES ASSUME NEW o \in P, c = Cell(r, o)
                 PROVE  FALSE
      OBVIOUS
    <3>1. o \in Placeable(r)
      BY DEF Removes
    <3>2. CASE q # r
      BY <1>3, <2>1, <3>1, <3>2, OwnCellsAreApart
    <3>3. CASE q = r
      <4>1. p = <<p[1], p[2]>> /\ o = <<o[1], o[2]>>
        BY <2>1, <3>1, PlacesArePairs
      <4>2. p = o
        BY <3>3, <4>1, CellsAreApart
      <4> QED BY <2>1, <3>3, <4>2
    <3> QED BY <3>2, <3>3
  <2>3. CASE c \in DOMAIN arp /\ arp[c] = q
    BY <1>2, <2>2, <2>3
  <2>4. CASE <<c[1], c[2], q>> \in refused
    <3> DEFINE f == <<c[1], c[2], q>>
    <3>1. <<f[1], f[2]>> = c
      BY <2>0
    <3> QED BY <1>1, <2>2, <2>4, <3>1
  <2> QED BY <1>3, <2>1, <2>3, <2>4 DEF OwnAreEntered
<1>4. ASSUME NEW e \in DOMAIN arp', arp'[e] = q
      PROVE  \E p \in fakeArp'[q] : e = Cell(q, p)
  <2>1. e \in DOMAIN arp /\ arp[e] = q /\ e \notin E
    BY <1>2, <1>4
  <2>2. PICK p \in fakeArp[q] : e = Cell(q, p)
    BY <2>1 DEF EntriesArePlaced
  <2>3. q = r => p \notin P
    BY <2>1, <2>2
  <2>4. p \in fakeArp'[q]
    BY <2>3 DEF Removes
  <2> QED BY <2>2, <2>4
<1>5. OwnAddresses(q)' = OwnAddresses(q)
  BY DEF OwnAddresses
<1> QED BY <1>3, <1>4, <1>5 DEF OwnAreEntered, EntriesArePlaced, Cell, Device

\* An entry made in another router's place is an entry all the same.
LEMMA AddEnters ==
  ASSUME NEW r \in Routers, NEW P, Adds(r, P), NEW q \in Routers,
         q # r => fakeArp'[q] = fakeArp[q], AllAreEntered(q)
  PROVE  AllAreEntered(q)'
<1> DEFINE E == {Cell(r, p) : p \in P}
<1>1. PICK lost \in SUBSET E :
        /\ arp' = With(r, E \ lost)
        /\ refused' = {f \in refused : f[3] # r \/ <<f[1], f[2]>> \notin E}
                        \cup {<<e[1], e[2], r>> : e \in lost}
        /\ taken' = {f \in taken : f[3] # r \/ <<f[1], f[2]>> \notin E}
  BY DEF Adds, addFakeArp, Forgotten
<1>2. DOMAIN arp' = DOMAIN arp \cup (E \ lost)
  BY <1>1 DEF With
<1>3. ASSUME NEW p \in fakeArp'[q]
      PROVE  \/ Cell(q, p) \in DOMAIN arp'
             \/ <<Cell(q, p)[1], Cell(q, p)[2], q>> \in refused' \cup taken'
  <2> DEFINE c == Cell(q, p)
             f == <<c[1], c[2], q>>
  <2>1. <<f[1], f[2]>> = c /\ f[3] = q
    BY DEF Cell
  <2>2. CASE c \in E \ lost
    BY <1>2, <2>2
  <2>3. CASE c \in lost /\ q = r
    BY <1>1, <2>3
  <2>4. CASE q # r \/ c \notin E
    <3>1. p \in fakeArp[q]
      BY <2>4 DEF Adds
    <3>2. c \in DOMAIN arp \/ f \in refused \cup taken
      BY <3>1 DEF AllAreEntered
    <3>3. f \in refused \cup taken => f \in refused' \cup taken'
      BY <1>1, <2>1, <2>4
    <3> QED BY <1>2, <3>2, <3>3
  <2> QED BY <2>2, <2>3, <2>4
<1> QED BY <1>3 DEF AllAreEntered, Cell, Device

LEMMA RemoveEnters ==
  ASSUME NEW r \in Routers, NEW P, Removes(r, P), NEW q \in Routers,
         q # r => fakeArp'[q] = fakeArp[q], fakeArp[q] \subseteq Placeable(q), AllAreEntered(q)
  PROVE  AllAreEntered(q)'
<1> DEFINE E == {Cell(r, p) : p \in P}
           lent == UNION {{<<e[1], e[2], t>> : e \in E \cap Placed(t)} : t \in Routers \ {r}}
<1>1. /\ arp' = Without(r, E)
      /\ refused' = {f \in refused : f[3] # r \/ <<f[1], f[2]>> \notin E}
      /\ taken' = {f \in taken : f[3] # r \/ <<f[1], f[2]>> \notin E} \cup lent
  BY DEF Removes, removeFakeArp, Forgotten
<1>2. DOMAIN arp' = DOMAIN arp \ E
  BY <1>1 DEF Without
<1>3. ASSUME NEW p \in fakeArp'[q]
      PROVE  \/ Cell(q, p) \in DOMAIN arp'
             \/ <<Cell(q, p)[1], Cell(q, p)[2], q>> \in refused' \cup taken'
  <2> DEFINE c == Cell(q, p)
             f == <<c[1], c[2], q>>
  <2>1. <<f[1], f[2]>> = c /\ f[3] = q
    BY DEF Cell
  <2>2. /\ p \in fakeArp[q] /\ p \in Placeable(q)
        /\ q = r => p \notin P
    BY DEF Removes
  <2>3. CASE q # r /\ c \in E
    <3>1. c \in Placed(q)
      BY <2>2 DEF Placed, Cell
    <3>2. f \in {<<e[1], e[2], q>> : e \in E \cap Placed(q)}
      BY <2>3, <3>1
    <3>3. f \in lent
      BY <2>3, <3>2
    <3> QED BY <1>1, <3>3
  <2>4. CASE q = r
    <3> SUFFICES ASSUME c \in E
                 PROVE  FALSE
      <4>1. c \in DOMAIN arp \/ f \in refused \cup taken
        BY <2>2 DEF AllAreEntered
      <4>2. ASSUME c \notin E, f \in refused \cup taken
            PROVE  f \in refused' \cup taken'
        BY <1>1, <2>1, <4>2
      <4> QED BY <1>2, <4>1, <4>2
    <3>1. PICK o \in P : c = Cell(r, o)
      OBVIOUS
    <3>2. o \in Placeable(r)
      BY DEF Removes
    <3>3. p = <<p[1], p[2]>> /\ o = <<o[1], o[2]>>
      BY <2>2, <3>2, PlacesArePairs
    <3>4. p = o
      BY <2>4, <3>1, <3>3, CellsAreApart
    <3> QED BY <2>2, <2>4, <3>4
  <2>5. CASE q # r /\ c \notin E
    <3>1. c \in DOMAIN arp \/ f \in refused \cup taken
      BY <2>2 DEF AllAreEntered
    <3>2. f \in refused \cup taken => f \in refused' \cup taken'
      BY <1>1, <2>1, <2>5
    <3> QED BY <1>2, <2>5, <3>1, <3>2
  <2> QED BY <2>3, <2>4, <2>5
<1> QED BY <1>3 DEF AllAreEntered, Cell, Device

-----------------------------------------------------------------------------
(* Each step of a router with its calls                                      *)

LEMMA PhysicalPlaces ==
  ASSUME NEW r \in Routers, subnets[r] \subseteq SubnetsOf[r]
  PROVE  ArpEntries(r, Physical) \subseteq Placeable(r)
BY DEF ArpEntries, Placeable

LEMMA AddPhysical ==
  ASSUME NEW r \in Routers, subnets[r] \subseteq SubnetsOf[r],
         fakeArp'[r] = fakeArp[r] \cup ArpEntries(r, Physical),
         addFakeArp(r, EntriesOf(r, Physical))
  PROVE  Calls(r)
BY PhysicalPlaces, EntriesAreCells DEF Calls, Adds

LEMMA RemovePhysical ==
  ASSUME NEW r \in Routers, subnets[r] \subseteq SubnetsOf[r],
         fakeArp'[r] = fakeArp[r] \ ArpEntries(r, Physical),
         removeFakeArp(r, EntriesOf(r, Physical))
  PROVE  Calls(r)
BY PhysicalPlaces, EntriesAreCells DEF Calls, Removes

LEMMA SetStateCalls ==
  ASSUME TypeOK, NEW r \in Routers, NEW new, setState(r, new), TransitionCalls(r),
         new = "Master" => state[r] # "Master", subnets[r] \subseteq SubnetsOf[r]
  PROVE  Calls(r)
<1>1. state'[r] = new
  BY DEF setState, TypeOK
<1>2. fakeArp \in [Routers -> SUBSET Entries]
  BY DEF TypeOK
<1>3. CASE new = "Master" /\ ~HostsAddresses(r)
  <2>1. addIpAddresses(r)
    BY <1>3 DEF setState
  <2>2. fakeArp'[r] = fakeArp[r] \cup ArpEntries(r, Physical)
    BY <1>2, <1>3, <2>1 DEF addIpAddresses
  <2>3. addFakeArp(r, EntriesOf(r, Physical))
    BY <1>1, <1>3 DEF TransitionCalls
  <2> QED BY <2>2, <2>3, AddPhysical
<1>4. CASE new # "Master" /\ state[r] = "Master" /\ ~HostsAddresses(r)
  <2>1. removeIpAddresses(r)
    BY <1>4 DEF setState
  <2>2. fakeArp'[r] = fakeArp[r] \ ArpEntries(r, Physical)
    BY <1>2, <1>4, <2>1 DEF removeIpAddresses
  <2>3. removeFakeArp(r, EntriesOf(r, Physical))
    BY <1>1, <1>4 DEF TransitionCalls
  <2> QED BY <2>2, <2>3, RemovePhysical
<1>5. CASE HostsAddresses(r) \/ (new # "Master" /\ state[r] # "Master")
  <2>1. fakeArp' = fakeArp
    BY <1>5 DEF setState, addIpAddresses, removeIpAddresses
  <2>2. NoCall
    BY <1>1, <1>5 DEF TransitionCalls
  <2> QED BY <2>1, <2>2 DEF Calls, Keeps
<1> QED BY <1>3, <1>4, <1>5

\* A step that leaves the state and the places alone makes no call.
LEMMA StayingCalls ==
  ASSUME NEW r \in Routers, state' = state, fakeArp' = fakeArp, TransitionCalls(r)
  PROVE  Calls(r)
<1>1. NoCall
  BY DEF TransitionCalls
<1> QED BY <1>1 DEF Calls, Keeps

LEMMA LifeCycleCalls ==
  ASSUME TypeOK, NEW r \in Routers, enable(r) \/ disable(r) \/ React(r), TransitionCalls(r),
         subnets[r] \subseteq SubnetsOf[r]
  PROVE  Calls(r)
<1>1. ASSUME startup(r), state[r] # "Master"
      PROVE  Calls(r)
  BY <1>1, SetStateCalls DEF startup, BecomeMaster
<1>2. ASSUME NEW new \in {"Disabled", "LinkDown"}, shutdown(r, new)
      PROVE  Calls(r)
  BY <1>2, SetStateCalls DEF shutdown
<1>3. CASE enable(r)
  <2>1. state[r] # "Master" /\ (startup(r) \/ setState(r, "LinkDown"))
    BY <1>3 DEF enable
  <2> QED BY <1>1, <2>1, SetStateCalls
<1>4. CASE disable(r)
  BY <1>2, <1>4 DEF disable
<1>5. CASE MasterDownExpires(r)
  <2>1. setState(r, "Master") /\ state[r] # "Master"
    BY <1>5 DEF MasterDownExpires, onMasterDownTimer, BecomeMaster
  <2> QED BY <2>1, SetStateCalls
<1>6. CASE AdvertisementExpires(r)
  BY <1>6, StayingCalls DEF AdvertisementExpires, onAdvertisementTimer, placeVars
<1>7. ASSUME NEW pkt \in Packets, onIncomingVrrpPacket(r, pkt)
      PROVE  Calls(r)
  <2>1. CASE MasterYields(r, pkt)
    BY <2>1, SetStateCalls DEF MasterYields
  <2>2. CASE state' = state /\ fakeArp' = fakeArp
    BY <2>2, StayingCalls
  <2> QED BY <1>7, <2>1, <2>2 DEF onIncomingVrrpPacket, BackupHearsGoodbye, BackupHearsMaster,
                                 IgnoresAdvertisement, MasterHearsGoodbye, placeVars
<1>8. CASE interfaceCallback(r)
  <2>1. CASE ComesUp(r) /\ startup(r)
    BY <1>1, <2>1 DEF ComesUp
  <2>2. CASE shutdown(r, "LinkDown")
    BY <1>2, <2>2
  <2>3. CASE UNCHANGED <<state, placeVars>>
    BY <2>3, StayingCalls DEF placeVars
  <2> QED BY <1>8, <2>1, <2>2, <2>3 DEF interfaceCallback
<1> QED BY <1>3, <1>4, <1>5, <1>6, <1>7, <1>8 DEF React

LEMMA PriorityCallsMatch ==
  ASSUME TypeOK, NEW r \in Routers, NEW p, setPriority(r, p), PriorityCalls(r),
         subnets[r] \subseteq SubnetsOf[r]
  PROVE  Calls(r)
<1>1. priority'[r] = p
  BY DEF setPriority, TypeOK
<1>2. fakeArp \in [Routers -> SUBSET Entries]
  BY DEF TypeOK
<1> DEFINE moving == state[r] = "Master" /\ ~acceptMode[r]
<1>3. CASE moving /\ priority[r] # 255 /\ p = 255
  <2>1. MoveToInterface(r) /\ removeFakeArp(r, EntriesOf(r, Physical))
    BY <1>1, <1>3 DEF setPriority, PriorityCalls
  <2>2. fakeArp'[r] = fakeArp[r] \ ArpEntries(r, Physical)
    BY <1>2, <2>1 DEF MoveToInterface
  <2> QED BY <2>1, <2>2, RemovePhysical
<1>4. CASE moving /\ priority[r] = 255 /\ p # 255
  <2>1. MoveToArpService(r) /\ addFakeArp(r, EntriesOf(r, Physical))
    BY <1>1, <1>4 DEF setPriority, PriorityCalls
  <2>2. fakeArp'[r] = fakeArp[r] \cup ArpEntries(r, Physical)
    BY <1>2, <2>1 DEF MoveToArpService
  <2> QED BY <2>1, <2>2, AddPhysical
<1>5. CASE ~(moving /\ priority[r] # 255 /\ p = 255) /\ ~(moving /\ priority[r] = 255 /\ p # 255)
  <2>1. fakeArp' = fakeArp
    BY <1>5 DEF setPriority
  <2>2. NoCall
    BY <1>1, <1>5 DEF PriorityCalls
  <2> QED BY <2>1, <2>2 DEF Calls, Keeps
<1> QED BY <1>3, <1>4, <1>5

LEMMA AcceptCallsMatch ==
  ASSUME TypeOK, NEW r \in Routers, NEW m \in BOOLEAN, setAcceptMode(r, m), AcceptCalls(r),
         subnets[r] \subseteq SubnetsOf[r]
  PROVE  Calls(r)
<1>1. acceptMode'[r] = m
  BY DEF setAcceptMode, TypeOK
<1>2. fakeArp \in [Routers -> SUBSET Entries]
  BY DEF TypeOK
<1>3. CASE state[r] = "Master" /\ m
  <2>1. MoveToInterface(r) /\ removeFakeArp(r, EntriesOf(r, Physical))
    BY <1>1, <1>3 DEF setAcceptMode, AcceptCalls
  <2>2. fakeArp'[r] = fakeArp[r] \ ArpEntries(r, Physical)
    BY <1>2, <2>1 DEF MoveToInterface
  <2> QED BY <2>1, <2>2, RemovePhysical
<1>4. CASE state[r] = "Master" /\ ~m
  <2>1. MoveToArpService(r) /\ addFakeArp(r, EntriesOf(r, Physical))
    BY <1>1, <1>4 DEF setAcceptMode, AcceptCalls
  <2>2. fakeArp'[r] = fakeArp[r] \cup ArpEntries(r, Physical)
    BY <1>2, <2>1 DEF MoveToArpService
  <2> QED BY <2>1, <2>2, AddPhysical
<1>5. CASE state[r] # "Master"
  <2>1. fakeArp' = fakeArp
    BY <1>5 DEF setAcceptMode
  <2>2. NoCall
    BY <1>5 DEF AcceptCalls
  <2> QED BY <2>1, <2>2 DEF Calls, Keeps
<1> QED BY <1>3, <1>4, <1>5

\* An address that is added or removed alone has its entry on the output interface.
LEMMA EntryIsCell ==
  ASSUME NEW r, NEW s \in SubnetsOf[r]
  PROVE  LET p == <<outputInterface(r), AddressOf[s]>>
         IN Entry(r, s) = {Cell(r, o) : o \in {p}} /\ {p} \subseteq Placeable(r)
<1> DEFINE p == <<outputInterface(r), AddressOf[s]>>
<1>1. Cell(r, p) = <<Device(r, outputInterface(r)), AddressOf[s]>>
  BY DEF Cell
<1>2. {Cell(r, o) : o \in {p}} = {Cell(r, p)}
  OBVIOUS
<1>3. p \in Placeable(r)
  BY DEF Placeable
<1> QED BY <1>1, <1>2, <1>3 DEF Entry

LEMMA AddressCalls ==
  ASSUME TypeOK, NEW r \in Routers, NEW s \in SubnetsOf[r],
         \/ /\ addIpAddress(r, s)
            /\ IF Answering(r) THEN addFakeArp(r, Entry(r, s)) ELSE NoCall
         \/ /\ removeIpAddress(r, s)
            /\ IF Answering(r) THEN removeFakeArp(r, Entry(r, s)) ELSE NoCall
  PROVE  Calls(r)
<1> DEFINE P == {<<outputInterface(r), AddressOf[s]>>}
<1>1. Entry(r, s) = {Cell(r, o) : o \in P} /\ P \subseteq Placeable(r)
  BY EntryIsCell
<1>2. fakeArp \in [Routers -> SUBSET Entries]
  BY DEF TypeOK
<1>3. CASE Answering(r) /\ addIpAddress(r, s) /\ addFakeArp(r, Entry(r, s))
  <2>1. fakeArp'[r] = fakeArp[r] \cup P
    BY <1>2, <1>3 DEF Answering, addIpAddress
  <2> QED BY <1>1, <1>3, <2>1 DEF Calls, Adds
<1>4. CASE Answering(r) /\ removeIpAddress(r, s) /\ removeFakeArp(r, Entry(r, s))
  <2>1. fakeArp'[r] = fakeArp[r] \ P
    BY <1>2, <1>4 DEF Answering, removeIpAddress
  <2> QED BY <1>1, <1>4, <2>1 DEF Calls, Removes
<1>5. CASE ~Answering(r)
  <2>1. fakeArp' = fakeArp /\ NoCall
    BY <1>5 DEF Answering, addIpAddress, removeIpAddress
  <2> QED BY <2>1 DEF Calls, Keeps
<1> QED BY <1>3, <1>4, <1>5

LEMMA HostCalls ==
  ASSUME ConfigAssumption, TypeOK, NEW r \in Routers, Host(r), subnets[r] \subseteq SubnetsOf[r]
  PROVE  Calls(r)
<1>1. AcceptModes \subseteq BOOLEAN
  BY DEF ConfigAssumption
<1> QED BY <1>1, LifeCycleCalls, PriorityCallsMatch, AcceptCallsMatch, AddressCalls DEF Host

-----------------------------------------------------------------------------
(* A host's step is one of VrrpService, and its router's alone.              *)

LEMMA HostIsStep ==
  ASSUME HostAssumption, NEW r \in Routers, Host(r)
  PROVE  Operate(r) \/ React(r)
<1>1. SubnetsOf[r] \subseteq Subnets
  BY DEF HostAssumption
<1> QED BY <1>1 DEF Host, Operate

LEMMA HostKeepsSubnets ==
  ASSUME TypeOK, NEW r \in Routers, Host(r), subnets[r] \subseteq SubnetsOf[r]
  PROVE  subnets'[r] \subseteq SubnetsOf[r]
<1>1. subnets \in [Routers -> SUBSET Subnets]
  BY DEF TypeOK
<1>2. ASSUME NEW s \in SubnetsOf[r], addIpAddress(r, s) \/ removeIpAddress(r, s)
      PROVE  subnets'[r] \subseteq SubnetsOf[r]
  BY <1>1, <1>2 DEF addIpAddress, removeIpAddress
<1>3. CASE UNCHANGED listVars
  BY <1>3 DEF listVars
<1>4. enable(r) \/ disable(r) \/ React(r) => UNCHANGED listVars
  BY DEF enable, disable, React, MasterDownExpires, onMasterDownTimer, AdvertisementExpires,
         onAdvertisementTimer, onIncomingVrrpPacket, interfaceCallback
<1>5. \A x : setPriority(r, x) \/ setAcceptMode(r, x) => UNCHANGED listVars
  BY DEF setPriority, setAcceptMode
<1> QED BY <1>2, <1>3, <1>4, <1>5 DEF Host

LEMMA MacvlanStays ==
  ASSUME NEW r, Operate(r) \/ React(r)
  PROVE  macvlan' = macvlan
<1>1. ASSUME NEW x, \/ setPriority(r, x) \/ setAdvertisementInterval(r, x)
                    \/ setPreemptMode(r, x) \/ setAcceptMode(r, x)
                    \/ setPrimaryIpAddress(r, x)
                    \/ addIpAddress(r, x) \/ removeIpAddress(r, x)
      PROVE  macvlan' = macvlan
  BY <1>1 DEF setPriority, setAdvertisementInterval, setPreemptMode, setAcceptMode,
              setPrimaryIpAddress, addIpAddress, removeIpAddress
<1>2. CASE enable(r) \/ disable(r) \/ unsetPrimaryIpAddress(r)
  BY <1>2 DEF enable, disable, unsetPrimaryIpAddress
<1>3. CASE React(r)
  BY <1>3 DEF React, MasterDownExpires, onMasterDownTimer, AdvertisementExpires,
              onAdvertisementTimer, onIncomingVrrpPacket, interfaceCallback
<1> QED BY <1>1, <1>2, <1>3 DEF Operate

LEMMA CallsPlace ==
  ASSUME NEW r, Calls(r), fakeArp[r] \subseteq Placeable(r)
  PROVE  fakeArp'[r] \subseteq Placeable(r)
BY DEF Calls, Adds, Removes, Keeps

LEMMA TableStep ==
  ASSUME ConfigAssumption, HostAssumption, TypeOK, \A q \in Routers : TableInvariant(q),
         NEW r \in Routers, Host(r), NEW q \in Routers
  PROVE  TableInvariant(q)'
<1>1. Operate(r) \/ React(r)
  BY HostIsStep
<1>2. macvlan' = macvlan
  BY <1>1, MacvlanStays
<1>3. Placeable(q)' = Placeable(q)
  BY <1>2 DEF Placeable, outputInterface
<1>4. q # r => fakeArp'[q] = fakeArp[q] /\ subnets'[q] = subnets[q]
  BY <1>1, StepOthersUnmoved DEF Turn, Unmoved
<1>5. Calls(r)
  BY HostCalls DEF TableInvariant
<1>6. subnets'[q] \subseteq SubnetsOf[q]
  BY <1>4, HostKeepsSubnets DEF TableInvariant
<1>7. fakeArp'[q] \subseteq Placeable(q)
  BY <1>4, <1>5, CallsPlace DEF TableInvariant
<1>8. OwnAreEntered(q)' /\ AllAreEntered(q)' /\ EntriesArePlaced(q)'
  <2>1. /\ fakeArp[q] \subseteq Placeable(q)
        /\ OwnAreEntered(q) /\ AllAreEntered(q) /\ EntriesArePlaced(q)
    BY DEF TableInvariant
  <2>2. CASE Keeps(r)
    <3>1. fakeArp'[q] = fakeArp[q] /\ UNCHANGED <<arp, refused, taken>>
      BY <1>4, <2>2 DEF Keeps, NoCall, tableVars
    <3>2. OwnAreEntered(q)' /\ EntriesArePlaced(q)'
      BY <2>1, <3>1, SMTT(40) DEF OwnAreEntered, EntriesArePlaced, OwnAddresses, Cell, Device
    <3>3. AllAreEntered(q)'
      BY <2>1, <3>1 DEF AllAreEntered, Cell, Device
    <3> QED BY <3>2, <3>3
  <2>3. ASSUME NEW P, Adds(r, P)
        PROVE  OwnAreEntered(q)' /\ AllAreEntered(q)' /\ EntriesArePlaced(q)'
    BY <1>4, <2>1, <2>3, AddKeeps, AddEnters
  <2>4. ASSUME NEW P, Removes(r, P)
        PROVE  OwnAreEntered(q)' /\ AllAreEntered(q)' /\ EntriesArePlaced(q)'
    BY <1>4, <2>1, <2>4, RemoveKeeps, RemoveEnters
  <2> QED BY <1>5, <2>2, <2>3, <2>4 DEF Calls
<1> QED BY <1>3, <1>6, <1>7, <1>8 DEF TableInvariant

-----------------------------------------------------------------------------

LEMMA HostStepIsStep ==
  ASSUME HostAssumption, [HostNext]_hostVars
  PROVE  [Next]_vars
BY HostIsStep DEF HostNext, Next, hostVars

LEMMA TableAlways ==
  HostSpec => [](TypeOK /\ (\A q \in Routers : PlacementInvariant(q) /\ TableInvariant(q)))
<1> DEFINE Inv == TypeOK /\ (\A q \in Routers : PlacementInvariant(q) /\ TableInvariant(q))
<1>1. HostInit => Inv
  <2> SUFFICES ASSUME HostInit
               PROVE  Inv
    OBVIOUS
  <2>1. TypeOK
    BY ConfigAssumption, InitType DEF HostInit
  <2>2. ASSUME NEW q \in Routers
        PROVE  PlacementInvariant(q)
    <3>1. /\ state[q] = "Disabled" /\ ifAddrs[q] = {}
          /\ addresses[q] = {AddressOf[s] : s \in subnets[q]}
      BY DEF HostInit, Init
    <3> QED BY <3>1 DEF PlacementInvariant, Hosting
  <2>3. ASSUME NEW q \in Routers
        PROVE  TableInvariant(q)
    <3>1. fakeArp[q] = {} /\ subnets[q] \subseteq SubnetsOf[q] /\ DOMAIN arp = {}
      BY DEF HostInit, Init
    <3> QED BY <3>1 DEF TableInvariant, OwnAreEntered, AllAreEntered, EntriesArePlaced
  <2> QED BY <2>1, <2>2, <2>3
<1>2. Inv /\ [HostNext]_hostVars => Inv'
  <2> SUFFICES ASSUME Inv, [HostNext]_hostVars
               PROVE  Inv'
    OBVIOUS
  <2>1. [Next]_vars
    BY HostAssumption, HostStepIsStep
  <2>2. TypeOK' /\ \A q \in Routers : PlacementInvariant(q)'
    BY <2>1, ConfigAssumption, NextType, PlacementStep
  <2>3. ASSUME NEW q \in Routers
        PROVE  TableInvariant(q)'
    <3>1. CASE \E r \in Routers : Host(r)
      BY <3>1, ConfigAssumption, HostAssumption, TableStep
    <3>2. CASE UNCHANGED <<subnets, macvlan, fakeArp, arp, refused, taken>>
      BY <3>2 DEF TableInvariant, Placeable, outputInterface, OwnAreEntered, AllAreEntered,
                  EntriesArePlaced, OwnAddresses, Cell, Device
    <3>3. ASSUME NEW d \in TimeSteps, Elapse(d), NoCall
          PROVE  UNCHANGED <<subnets, macvlan, fakeArp, arp, refused, taken>>
      BY <3>3 DEF Elapse, NoCall, tableVars, listVars, placeVars
    <3>4. UNCHANGED hostVars => UNCHANGED <<subnets, macvlan, fakeArp, arp, refused, taken>>
      BY DEF hostVars, tableVars, vars, listVars, placeVars
    <3> QED BY <3>1, <3>2, <3>3, <3>4 DEF HostNext
  <2> QED BY <2>2, <2>3
<1> QED BY <1>1, <1>2, PTL DEF HostSpec

\* Among the routers of one interface, a Master is answered for at every address that it
\* advertises, on its interface or in the table, unless its call was refused or another
\* router has taken the entry back since (ArpService has no count of them).
THEOREM MastersServe == HostSpec => []ServesAdvertised
<1>1. ASSUME \A q \in Routers : PlacementInvariant(q) /\ TableInvariant(q),
             NEW r \in Routers, state[r] = "Master", NEW a \in addresses[r],
             ~\E s \in ifAddrs[r] : AddressOf[s] = a
      PROVE  \E iface \in {Physical, outputInterface(r)} :
               \/ onArpPacket(Device(r, iface), a) # {}
               \/ <<Device(r, iface), a, r>> \in refused \cup taken
  <2>1. PICK p \in fakeArp[r] : p[2] = a
    BY <1>1 DEF PlacementInvariant, Hosted
  <2>2. p[1] \in {Physical, outputInterface(r)}
    BY <1>1 DEF TableInvariant, Placeable
  <2>3. /\ Cell(r, p) = <<Device(r, p[1]), a>>
        /\ Cell(r, p)[1] = Device(r, p[1]) /\ Cell(r, p)[2] = a
    BY <2>1 DEF Cell
  <2>4. \/ Cell(r, p) \in DOMAIN arp
        \/ <<Cell(r, p)[1], Cell(r, p)[2], r>> \in refused \cup taken
    BY <1>1 DEF TableInvariant, AllAreEntered
  <2> QED BY <2>2, <2>3, <2>4 DEF onArpPacket
<1>2. (\A q \in Routers : PlacementInvariant(q) /\ TableInvariant(q)) => ServesAdvertised
  BY <1>1 DEF ServesAdvertised
<1> QED BY <1>2, TableAlways, PTL

\* Among the routers of one interface, a Master is answered for with its own MAC at each
\* address that it advertises and no other is given, and the table holds for a router
\* only what it has placed and not taken back (ArpService, VrrpService::setState).
THEOREM MastersAnswerForTheirs == HostSpec => []AnswersFollowMasters
<1>1. ASSUME \A q \in Routers : PlacementInvariant(q) /\ TableInvariant(q)
      PROVE  AnswersFollowMasters
  <2>1. ASSUME NEW r \in Routers, state[r] = "Master",
               NEW a \in addresses[r] \cap OwnAddresses(r),
               ~\E s \in ifAddrs[r] : AddressOf[s] = a
        PROVE  \E iface \in {Physical, outputInterface(r)} :
                 \/ onArpPacket(Device(r, iface), a) = {r}
                 \/ <<Device(r, iface), a, r>> \in refused
    <3>1. PICK p \in fakeArp[r] : p[2] = a
      BY <1>1, <2>1 DEF PlacementInvariant, Hosted
    <3>2. p[1] \in {Physical, outputInterface(r)}
      BY <1>1 DEF TableInvariant, Placeable
    <3>3. /\ Cell(r, p) = <<Device(r, p[1]), a>>
          /\ Cell(r, p)[1] = Device(r, p[1]) /\ Cell(r, p)[2] = a
      BY <3>1 DEF Cell
    <3>4. \/ Cell(r, p) \in DOMAIN arp /\ arp[Cell(r, p)] = r
          \/ <<Cell(r, p)[1], Cell(r, p)[2], r>> \in refused
      BY <1>1, <2>1, <3>1 DEF TableInvariant, OwnAreEntered
    <3>5. \/ onArpPacket(Device(r, p[1]), a) = {r}
          \/ <<Device(r, p[1]), a, r>> \in refused
      BY <3>3, <3>4 DEF onArpPacket
    <3> QED BY <3>2, <3>5
  <2>2. ASSUME NEW r \in Routers, NEW e \in DOMAIN arp, arp[e] = r
        PROVE  e \in Placed(r)
    BY <1>1, <2>2 DEF TableInvariant, EntriesArePlaced, Cell, Placed
  <2> QED BY <2>1, <2>2 DEF AnswersFollowMasters
<1>2. (\A q \in Routers : PlacementInvariant(q) /\ TableInvariant(q)) => AnswersFollowMasters
  BY <1>1
<1> QED BY <1>2, TableAlways, PTL

-----------------------------------------------------------------------------
(* The link *)

Active(r) == state[r] \in {"Backup", "Master"}

LinkInvariant(r) ==
  /\ link[r].oper => link[r].admin
  /\ linkEvents[r] # <<>> => linkEvents[r][Len(linkEvents[r])] = Flag(link[r].admin)
  /\ linkEvents[r] = <<>> /\ ~link[r].admin => state[r] \in {"Disabled", "LinkDown"}
  /\ linkEvents[r] = <<>> /\ state[r] = "LinkDown" /\ r \notin misled => ~link[r].oper

Attached(r) ==
  /\ link'[r] = link[r] /\ linkEvents'[r] = linkEvents[r]
  /\ r \in misled' <=> r \in misled

LEMMA SetStateLeaves ==
  ASSUME TypeOK, NEW r \in Routers, NEW new, setState(r, new)
  PROVE  state'[r] = new
BY DEF setState, TypeOK

LEMMA StartupActivates ==
  ASSUME TypeOK, NEW r \in Routers, startup(r)
  PROVE  state'[r] \in {"Backup", "Master"}
BY SetStateLeaves DEF startup, BecomeMaster

LEMMA ShutdownLeaves ==
  ASSUME TypeOK, NEW r \in Routers, NEW new, shutdown(r, new)
  PROVE  state'[r] = new
BY SetStateLeaves DEF shutdown

\* A router that sees nothing of its link stays, or stays active.
LEMMA AttachedKeeps ==
  ASSUME NEW r, LinkInvariant(r), Attached(r),
         \/ state'[r] = state[r]
         \/ Active(r) /\ state'[r] \in {"Backup", "Master"}
  PROVE  LinkInvariant(r)'
BY DEF LinkInvariant, Attached, Active

LEMMA EnableKeeps ==
  ASSUME TypeOK, NEW r \in Routers, enable(r), LinkInvariant(r)
  PROVE  LinkInvariant(r)'
<1>1. link' = link /\ linkEvents' = linkEvents
  BY DEF enable, linkVars
<1>2. CASE link[r].oper /\ startup(r)
  <2>1. state'[r] \in {"Backup", "Master"}
    BY <1>2, StartupActivates
  <2> QED
    BY <1>1, <1>2, <2>1 DEF LinkInvariant
<1>3. CASE (~link[r].oper \/ r \in misled') /\ setState(r, "LinkDown")
  <2>1. state'[r] = "LinkDown"
    BY <1>3, SetStateLeaves
  <2> QED
    BY <1>1, <1>3, <2>1 DEF LinkInvariant
<1> QED
  BY <1>2, <1>3 DEF enable

\* The last element of a queue is its first when nothing is left behind it.
LEMMA LastIsLast ==
  ASSUME NEW q \in Seq(Flags), q # <<>>
  PROVE  /\ Tail(q) = <<>> => q[Len(q)] = Head(q)
         /\ Tail(q) # <<>> => Tail(q)[Len(Tail(q))] = q[Len(q)]
         /\ Head(q) \in Flags
<1>1. Len(q) \in Nat \ {0}
  BY EmptySeq
<1>2. Len(Tail(q)) = Len(q) - 1 /\ Tail(q) \in Seq(Flags)
  BY HeadTailProperties
<1>3. \A i \in 1..Len(Tail(q)) : Tail(q)[i] = q[i + 1]
  OBVIOUS
<1>4. Head(q) = q[1] /\ Head(q) \in Flags
  OBVIOUS
<1>5. ASSUME Tail(q) = <<>>
      PROVE  Len(q) = 1
  <2>1. Len(<<>>) = 0
    OBVIOUS
  <2>2. Len(q) - 1 = 0
    BY <1>2, <1>5, <2>1
  <2> QED
    BY <1>1, <2>2
<1>6. Tail(q) # <<>> => Len(Tail(q)) \in 1..Len(Tail(q))
  BY <1>1, <1>2
<1> QED
  BY <1>1, <1>2, <1>3, <1>4, <1>5, <1>6

LEMMA CallbackKeeps ==
  ASSUME TypeOK, NEW r \in Routers, interfaceCallback(r), LinkInvariant(r)
  PROVE  LinkInvariant(r)'
<1> DEFINE q == linkEvents[r]
<1>1. /\ q \in Seq(Flags) /\ q # <<>>
      /\ linkEvents'[r] = Tail(q)
      /\ link'[r] = link[r]
  BY DEF interfaceCallback, TypeOK
<1>2. state[r] \in States
  BY DEF TypeOK
<1>3. /\ Tail(q) = <<>> => Head(q) = Flag(link[r].admin)
      /\ Tail(q) # <<>> => Tail(q)[Len(Tail(q))] = Flag(link[r].admin)
      /\ Head(q) \in Flags
  BY <1>1, LastIsLast DEF LinkInvariant
<1>4. link[r].oper => link[r].admin
  BY DEF LinkInvariant
<1>5. CASE ComesUp(r) /\ startup(r)
  <2>1. state'[r] \in {"Backup", "Master"}
    BY <1>5, StartupActivates
  <2>2. Tail(q) = <<>> => link[r].admin
    BY <1>3, <1>5 DEF ComesUp, Flag
  <2> QED
    BY <1>1, <1>3, <1>4, <2>1, <2>2 DEF LinkInvariant
<1>6. CASE GoesDown(r) /\ shutdown(r, "LinkDown")
  <2>1. state'[r] = "LinkDown"
    BY <1>6, ShutdownLeaves
  <2>2. Tail(q) = <<>> => ~link[r].admin
    BY <1>3, <1>6 DEF GoesDown, Flag
  <2> QED
    BY <1>1, <1>3, <1>4, <2>1, <2>2 DEF LinkInvariant
<1>7. CASE ~ComesUp(r) /\ ~GoesDown(r) /\ state' = state
  <2>1. Tail(q) = <<>> /\ ~link[r].admin => state[r] \in {"Disabled", "LinkDown"}
    BY <1>2, <1>3, <1>7 DEF GoesDown, Flag, States
  <2>2. Tail(q) = <<>> /\ state[r] = "LinkDown" => ~link[r].admin
    BY <1>3, <1>7 DEF ComesUp, Flag
  <2> QED
    BY <1>1, <1>3, <1>4, <1>7, <2>1, <2>2 DEF LinkInvariant
<1> QED
  BY <1>5, <1>6, <1>7 DEF interfaceCallback

LEMMA LinkChangeKeeps ==
  ASSUME TypeOK, NEW r \in Routers, LinkChange(r), LinkInvariant(r)
  PROVE  LinkInvariant(r)'
<1> DEFINE q == linkEvents[r]
<1>1. PICK new \in [admin : BOOLEAN, oper : BOOLEAN] :
        /\ new.oper => new.admin
        /\ link' = [link EXCEPT ![r] = new]
        /\ linkEvents' = [linkEvents EXCEPT ![r] = Append(q, Flag(new.admin))]
  BY DEF LinkChange
<1>2. q \in Seq(Flags)
  BY DEF TypeOK
<1>3. link'[r] = new /\ linkEvents'[r] = Append(q, Flag(new.admin))
  BY <1>1 DEF TypeOK
<1>4. /\ Len(Append(q, Flag(new.admin))) = Len(q) + 1
      /\ Append(q, Flag(new.admin))[Len(q) + 1] = Flag(new.admin)
      /\ Append(q, Flag(new.admin)) # <<>>
  BY <1>2
<1> QED
  BY <1>1, <1>3, <1>4 DEF LinkInvariant

LEMMA OwnStepKeeps ==
  ASSUME TypeOK, NEW r \in Routers, Step(r), LinkInvariant(r)
  PROVE  LinkInvariant(r)'
<1>1. ASSUME UNCHANGED <<state, linkVars>>
      PROVE  LinkInvariant(r)'
  BY <1>1, AttachedKeeps DEF Attached, linkVars
<1>2. CASE disable(r)
  <2>1. state'[r] = "Disabled" /\ UNCHANGED <<link, linkEvents, misled>>
    BY <1>2, ShutdownLeaves DEF disable, linkVars
  <2> QED
    BY <2>1 DEF LinkInvariant
<1>3. ASSUME NEW x, \/ setPriority(r, x) \/ setAdvertisementInterval(r, x)
                    \/ setPreemptMode(r, x) \/ setAcceptMode(r, x)
                    \/ setPrimaryIpAddress(r, x) \/ unsetPrimaryIpAddress(r)
                    \/ addIpAddress(r, x) \/ removeIpAddress(r, x)
      PROVE  LinkInvariant(r)'
  <2>1. UNCHANGED <<state, linkVars>>
    BY <1>3 DEF setPriority, setAdvertisementInterval, setPreemptMode, setAcceptMode,
                setPrimaryIpAddress, unsetPrimaryIpAddress, addIpAddress, removeIpAddress
  <2> QED
    BY <1>1, <2>1
<1>4. CASE onMasterDownTimer(r)
  <2>1. Active(r) /\ state'[r] = "Master" /\ Attached(r)
    BY <1>4, SetStateLeaves
    DEF onMasterDownTimer, BecomeMaster, Active, Attached, linkVars
  <2> QED
    BY <2>1, AttachedKeeps
<1>5. CASE onAdvertisementTimer(r)
  BY <1>1, <1>5 DEF onAdvertisementTimer
<1>6. ASSUME NEW pkt \in Advertisements, onIncomingVrrpPacket(r, pkt)
      PROVE  LinkInvariant(r)'
  <2>1. Attached(r)
    BY <1>6 DEF onIncomingVrrpPacket, linkVars, Attached
  <2>2. CASE MasterYields(r, pkt)
    <3>1. Active(r) /\ state'[r] = "Backup"
      BY <2>2, SetStateLeaves DEF MasterYields, Active
    <3> QED
      BY <2>1, <3>1, AttachedKeeps
  <2>3. CASE state' = state
    BY <2>1, <2>3, AttachedKeeps
  <2> QED
    BY <1>6, <2>2, <2>3 DEF onIncomingVrrpPacket, BackupHearsGoodbye, BackupHearsMaster,
                            IgnoresAdvertisement, MasterHearsGoodbye
<1>7. CASE Operate(r)
  BY <1>2, <1>3, <1>7, EnableKeeps DEF Operate
<1>8. CASE React(r)
  <2>1. Packets \subseteq Advertisements
    BY ConfigAssumption DEF ConfigAssumption
  <2> QED
    BY <1>4, <1>5, <1>6, <1>8, <2>1, CallbackKeeps
    DEF React, MasterDownExpires, AdvertisementExpires
<1> QED
  BY <1>4, <1>5, <1>6, <1>7, <1>8, LinkChangeKeeps DEF Step

LEMMA StepOthersAttached ==
  ASSUME TypeOK, NEW r \in Routers, NEW q \in Routers \ {r},
         Step(r)
  PROVE  Attached(q) /\ state'[q] = state[q]
<1>1. linkEvents \in [Routers -> Seq(Flags)] /\ state \in [Routers -> States]
  BY DEF TypeOK
<1>2. link \in [Routers -> [admin : BOOLEAN, oper : BOOLEAN]]
  BY DEF TypeOK
<1>3. \A new : setState(r, new) => state'[q] = state[q]
  BY <1>1 DEF setState
<1>4. /\ startup(r) => state'[q] = state[q]
      /\ \A new : shutdown(r, new) => state'[q] = state[q]
  BY <1>3 DEF startup, BecomeMaster, shutdown
<1>5. CASE enable(r) \/ disable(r)
  <2>1. Attached(q)
    BY <1>5 DEF enable, disable, linkVars, Attached
  <2>2. state'[q] = state[q]
    BY <1>3, <1>4, <1>5 DEF enable, disable
  <2> QED
    BY <2>1, <2>2
<1>6. ASSUME NEW x, \/ setPriority(r, x) \/ setAdvertisementInterval(r, x)
                    \/ setPreemptMode(r, x) \/ setAcceptMode(r, x)
                    \/ setPrimaryIpAddress(r, x) \/ unsetPrimaryIpAddress(r)
                    \/ addIpAddress(r, x) \/ removeIpAddress(r, x)
      PROVE  Attached(q) /\ state'[q] = state[q]
  <2>1. UNCHANGED <<state, linkVars>>
    BY <1>6 DEF setPriority, setAdvertisementInterval, setPreemptMode, setAcceptMode,
                setPrimaryIpAddress, unsetPrimaryIpAddress, addIpAddress, removeIpAddress
  <2> QED
    BY <2>1 DEF linkVars, Attached
<1>7. CASE onMasterDownTimer(r) \/ onAdvertisementTimer(r)
  <2>1. Attached(q)
    BY <1>7 DEF onMasterDownTimer, onAdvertisementTimer, linkVars, Attached
  <2>2. state'[q] = state[q]
    BY <1>3, <1>7 DEF onMasterDownTimer, onAdvertisementTimer, BecomeMaster
  <2> QED
    BY <2>1, <2>2
<1>8. ASSUME NEW pkt \in Advertisements, onIncomingVrrpPacket(r, pkt)
      PROVE  Attached(q) /\ state'[q] = state[q]
  <2>1. Attached(q)
    BY <1>8 DEF onIncomingVrrpPacket, linkVars, Attached
  <2>2. state' = state \/ setState(r, "Backup")
    BY <1>8 DEF onIncomingVrrpPacket, BackupHearsGoodbye, BackupHearsMaster,
                IgnoresAdvertisement, MasterHearsGoodbye, MasterYields
  <2> QED
    BY <1>3, <2>1, <2>2
<1>9. CASE interfaceCallback(r)
  <2>1. Attached(q)
    BY <1>1, <1>9 DEF interfaceCallback, Attached
  <2>2. state'[q] = state[q]
    BY <1>4, <1>9 DEF interfaceCallback
  <2> QED
    BY <2>1, <2>2
<1>10. CASE LinkChange(r)
  <2>1. PICK new : /\ link' = [link EXCEPT ![r] = new]
                   /\ linkEvents' = [linkEvents EXCEPT ![r] = Append(@, Flag(new.admin))]
                   /\ state' = state /\ misled' = misled
    BY <1>10 DEF LinkChange
  <2> QED
    BY <1>1, <1>2, <2>1 DEF Attached
<1>11. CASE Operate(r)
  BY <1>5, <1>6, <1>11 DEF Operate
<1>12. CASE React(r)
  <2>1. Packets \subseteq Advertisements
    BY ConfigAssumption DEF ConfigAssumption
  <2> QED
    BY <1>7, <1>8, <1>9, <1>12, <2>1 DEF React, MasterDownExpires, AdvertisementExpires
<1> QED
  BY <1>7, <1>8, <1>10, <1>11, <1>12 DEF Step

LEMMA LinkStep ==
  ASSUME TypeOK, \A q \in Routers : LinkInvariant(q), [Next]_vars
  PROVE  \A q \in Routers : LinkInvariant(q)'
<1> SUFFICES ASSUME NEW q \in Routers
             PROVE  LinkInvariant(q)'
  OBVIOUS
<1>1. ASSUME NEW r \in Routers, Step(r)
      PROVE  LinkInvariant(q)'
  <2>1. CASE q = r
    BY <1>1, <2>1, OwnStepKeeps
  <2>2. CASE q # r
    <3>1. Attached(q) /\ state'[q] = state[q]
      BY <1>1, <2>2, StepOthersAttached
    <3> QED
      BY <3>1, AttachedKeeps
  <2> QED
    BY <2>1, <2>2
<1>2. CASE UNCHANGED <<state, linkVars>>
  BY <1>2, AttachedKeeps DEF linkVars, Attached
<1>3. (\E d \in TimeSteps : Elapse(d)) => UNCHANGED <<state, linkVars>>
  BY DEF Elapse
<1>4. UNCHANGED vars => UNCHANGED <<state, linkVars>>
  BY DEF vars
<1> QED
  BY <1>1, <1>2, <1>3, <1>4 DEF Next, Step

LEMMA LinkAlways == Spec => [](TypeOK /\ \A q \in Routers : LinkInvariant(q))
<1>1. Init => TypeOK /\ \A q \in Routers : LinkInvariant(q)
  <2>1. ASSUME Init, NEW q \in Routers
        PROVE  LinkInvariant(q)
    <3>1. /\ state[q] = "Disabled" /\ linkEvents[q] = <<>>
          /\ link[q].oper => link[q].admin
      BY <2>1 DEF Init
    <3> QED
      BY <3>1 DEF LinkInvariant
  <2> QED
    BY <2>1, ConfigAssumption, InitType
<1>2. TypeOK /\ (\A q \in Routers : LinkInvariant(q)) /\ [Next]_vars
        => TypeOK' /\ (\A q \in Routers : LinkInvariant(q))'
  BY ConfigAssumption, NextType, LinkStep
<1> QED
  BY <1>1, <1>2, PTL DEF Spec

\* Once its messages are read, no router takes part over an interface that is down.
THEOREM StopsWithItsInterface == Spec => []StopsWithInterface
<1>1. (\A q \in Routers : LinkInvariant(q)) => StopsWithInterface
  BY DEF LinkInvariant, StopsWithInterface
<1> QED
  BY <1>1, LinkAlways, PTL

\* Once its messages are read, no router waits in LinkDown for a link that is up, unless
\* enable could not look it up and no message came since (enable, interfaceCallback).
THEOREM NeverStuckInLinkDown == Spec => []NotStuckInLinkDown
<1>1. (\A q \in Routers : LinkInvariant(q)) => NotStuckInLinkDown
  BY DEF LinkInvariant, NotStuckInLinkDown
<1> QED
  BY <1>1, LinkAlways, PTL

-----------------------------------------------------------------------------
(* The event loop                                                            *)

\* What waits in a socket is what the network may bring.
SocketsType == received \in [Routers -> Seq(Packets)]

\* A batch has each event once, and that of the socket only while packets wait there: so
\* a turn of the loop never reads from an empty socket.
BatchInvariant(q) ==
  /\ batch[q] \in Seq(Events)
  /\ \A i, j \in 1..Len(batch[q]) : batch[q][i] = batch[q][j] => i = j
  /\ \A i \in 1..Len(batch[q]) : batch[q][i] = Permanent("socket") => received[q] # <<>>
  /\ loop[q] = "serving" => batch[q] # <<>>

LoopTypeOK ==
  /\ batch \in [Routers -> Seq(Events)]
  /\ loop \in [Routers -> {"testing", "waiting", "serving", "ended", "crashed"}]

LoopInvariant ==
  /\ TypeOK
  /\ SocketsType
  /\ LoopTypeOK
  /\ \A q \in Routers : TimerInvariant(q) /\ LinkInvariant(q) /\ BatchInvariant(q)

LEMMA EventsAreFinite == IsFiniteSet(Events)
<1> DEFINE S1 == {Permanent("socket")}
           S2 == S1 \cup {Permanent("netlink")}
           S3 == S2 \cup {Permanent("telnet")}
           S4 == S3 \cup {TimerEvent(1)}
           S5 == S4 \cup {TimerEvent(2)}
<1>1. Events = S5
  BY DEF Events, Blocks
<1>2. IsFiniteSet({})
  BY FS_EmptySet
<1>3. S1 = {} \cup {Permanent("socket")}
  OBVIOUS
<1>4. IsFiniteSet(S1)
  BY <1>2, <1>3, FS_AddElement
<1> HIDE DEF S1
<1>5. IsFiniteSet(S2)
  BY <1>4, FS_AddElement
<1> HIDE DEF S2
<1>6. IsFiniteSet(S3)
  BY <1>5, FS_AddElement
<1> HIDE DEF S3
<1>7. IsFiniteSet(S4)
  BY <1>6, FS_AddElement
<1> HIDE DEF S4
<1>8. IsFiniteSet(S5)
  BY <1>7, FS_AddElement
<1> QED BY <1>1, <1>8

\* epoll_wait orders what is ready, and what is ready once.
LEMMA OrdersAreInjective ==
  ASSUME NEW S \in SUBSET Events, S # {}, NEW order \in SetToSeqs(S)
  PROVE  /\ order \in Seq(Events) /\ order # <<>>
         /\ \A i, j \in 1..Len(order) : order[i] = order[j] => i = j
         /\ \A i \in 1..Len(order) : order[i] \in S
<1> DEFINE n == Cardinality(S)
<1>1. IsFiniteSet(S) /\ n \in Nat /\ n # 0
  BY EventsAreFinite, FS_Subset, FS_CardinalityType, FS_EmptySet
<1>2. order \in [1..n -> S] /\ \A i, j \in 1..n : i # j => order[i] # order[j]
  BY DEF SetToSeqs
<1> HIDE DEF n
<1>3. order \in Seq(S) /\ Len(order) = n
  BY <1>1, <1>2
<1>4. order \in Seq(Events) /\ order # <<>>
  BY <1>1, <1>2, <1>3
<1> QED BY <1>2, <1>3, <1>4

\* What is left of a batch does not hold the event that is served.
LEMMA RestOfBatch ==
  ASSUME NEW s \in Seq(Events), s # <<>>,
         \A i, j \in 1..Len(s) : s[i] = s[j] => i = j
  PROVE  /\ Tail(s) \in Seq(Events)
         /\ \A i, j \in 1..Len(Tail(s)) : Tail(s)[i] = Tail(s)[j] => i = j
         /\ \A i \in 1..Len(Tail(s)) : Tail(s)[i] # Head(s)
         /\ \A i \in 1..Len(Tail(s)) : \E j \in 1..Len(s) : Tail(s)[i] = s[j]
<1>1. Len(s) \in Nat \ {0} /\ Len(Tail(s)) = Len(s) - 1 /\ Tail(s) \in Seq(Events)
  BY EmptySeq, HeadTailProperties
<1>2. \A i \in 1..Len(Tail(s)) : Tail(s)[i] = s[i + 1] /\ i + 1 \in 1..Len(s)
  BY <1>1
<1>3. Head(s) = s[1] /\ 1 \in 1..Len(s)
  BY <1>1
<1>4. ASSUME NEW i \in 1..Len(Tail(s)), NEW j \in 1..Len(Tail(s)), Tail(s)[i] = Tail(s)[j]
      PROVE  i = j
  <2>1. i + 1 = j + 1
    BY <1>2, <1>4
  <2> QED BY <2>1
<1>5. ASSUME NEW i \in 1..Len(Tail(s)), Tail(s)[i] = Head(s)
      PROVE  FALSE
  <2>1. i + 1 = 1
    BY <1>2, <1>3, <1>5
  <2> QED BY <2>1
<1> QED BY <1>1, <1>2, <1>4, <1>5

LEMMA ReadsWhatWaits ==
  ASSUME NEW r \in Routers, BatchInvariant(r), ServeSocket(r)
  PROVE  received[r] # <<>>
<1>1. batch[r] \in Seq(Events) /\ batch[r] # <<>> /\ Head(batch[r]) = Permanent("socket")
  BY DEF ServeSocket, Served, Event, BatchInvariant
<1>2. 1 \in 1..Len(batch[r]) /\ batch[r][1] = Permanent("socket")
  BY <1>1
<1> QED BY <1>2 DEF BatchInvariant

\* Each turn of the loop, and each step of its environment, is a step of one service,
\* or time, or nothing that a service has to do with.
LEMMA LoopIsStep ==
  ASSUME ConfigAssumption, SocketsType, \A q \in Routers : BatchInvariant(q), [LoopNext]_loopVars
  PROVE  \/ \E r \in Routers : Step(r)
         \/ \E d \in TimeSteps : Elapse(d)
         \/ UNCHANGED vars
<1>1. ASSUME NEW r \in Routers, TestAborted(r) \/ EpollWait(r) \/ ServeDeleted(r) \/ Signal(r)
      PROVE  UNCHANGED vars
  BY <1>1 DEF TestAborted, EpollWait, ServeDeleted, Signal
<1>2. ASSUME NEW r \in Routers, Finish(r)
      PROVE  Step(r) \/ UNCHANGED vars
  BY <1>2 DEF Finish, Step, Operate
<1>3. ASSUME NEW r \in Routers, ServeSocket(r)
      PROVE  Step(r) \/ UNCHANGED vars
  <2>1. CASE onIncomingVrrpPacket(r, Head(received[r]))
    <3>1. received[r] \in Seq(Packets) /\ received[r] # <<>>
      BY <1>3, ReadsWhatWaits DEF SocketsType
    <3>2. Head(received[r]) \in Packets
      BY <3>1
    <3>3. Head(received[r]) \in Advertisements
      BY <3>2 DEF ConfigAssumption
    <3> QED BY <2>1, <3>3 DEF Step
  <2>2. CASE UNCHANGED <<vars, monitors>>
    BY <2>2
  <2> QED BY <1>3, <2>1, <2>2 DEF ServeSocket
<1>4. ASSUME NEW r \in Routers, ServeNetlink(r) \/ ServeTelnet(r) \/ ServeTimer(r) \/ ChangeLink(r)
      PROVE  Step(r)
  BY <1>4 DEF ServeNetlink, ServeTelnet, ServeTimer, ChangeLink, Step, React
<1>5. ASSUME NEW r \in Routers, NEW pkt \in Packets, Arrive(r, pkt)
      PROVE  UNCHANGED vars
  BY <1>5 DEF Arrive
<1>6. ASSUME NEW d \in TimeSteps, Pass(d)
      PROVE  Elapse(d)
  BY <1>6 DEF Pass
<1>7. UNCHANGED loopVars => UNCHANGED vars
  BY DEF loopVars
<1> QED BY <1>1, <1>2, <1>3, <1>4, <1>5, <1>6, <1>7 DEF LoopNext

LEMMA SocketsStep ==
  ASSUME SocketsType, \A q \in Routers : BatchInvariant(q), [LoopNext]_loopVars
  PROVE  SocketsType'
<1>1. ASSUME NEW r \in Routers, NEW pkt \in Packets, Arrive(r, pkt)
      PROVE  SocketsType'
  <2>1. Append(received[r], pkt) \in Seq(Packets)
    BY DEF SocketsType
  <2> QED BY <1>1, <2>1 DEF Arrive, SocketsType
<1>2. ASSUME NEW r \in Routers, ServeSocket(r)
      PROVE  SocketsType'
  <2>1. received' = [received EXCEPT ![r] = Tail(@)] /\ received[r] # <<>>
    BY <1>2, ReadsWhatWaits DEF ServeSocket
  <2>2. Tail(received[r]) \in Seq(Packets)
    BY <2>1 DEF SocketsType
  <2> QED BY <2>1, <2>2 DEF SocketsType
<1>3. CASE UNCHANGED received
  BY <1>3 DEF SocketsType
<1>4. ASSUME NEW r \in Routers,
             \/ TestAborted(r) \/ Finish(r) \/ EpollWait(r) \/ ServeNetlink(r) \/ ServeTelnet(r)
             \/ ServeTimer(r) \/ ServeDeleted(r) \/ ChangeLink(r) \/ Signal(r)
      PROVE  UNCHANGED received
  BY <1>4 DEF TestAborted, Finish, EpollWait, ServeNetlink, ServeTelnet, ServeTimer,
              ServeDeleted, ChangeLink, Signal
<1>5. \A d \in TimeSteps : Pass(d) => UNCHANGED received
  BY DEF Pass
<1>6. UNCHANGED loopVars => UNCHANGED received
  BY DEF loopVars
<1> QED BY <1>1, <1>2, <1>3, <1>4, <1>5, <1>6 DEF LoopNext

\* What a turn of the loop does to the batch: it takes the first event off.
LEMMA TurnKeepsBatch ==
  ASSUME SocketsType, LoopTypeOK, NEW r \in Routers, BatchInvariant(r), Served(r),
         Continue(r) \/ loop' = [loop EXCEPT ![r] = "crashed"],
         received'[r] = received[r] \/ Event(r) = Permanent("socket")
  PROVE  BatchInvariant(r)'
<1> DEFINE s == batch[r]
<1>1. /\ s \in Seq(Events) /\ s # <<>>
      /\ \A i, j \in 1..Len(s) : s[i] = s[j] => i = j
      /\ \A i \in 1..Len(s) : s[i] = Permanent("socket") => received[r] # <<>>
  BY DEF BatchInvariant, Served
<1>2. batch'[r] = Tail(s)
  BY DEF Served, LoopTypeOK
<1>3. loop'[r] = "serving" => Tail(s) # <<>>
  BY <1>2 DEF Continue, LoopTypeOK
<1>4. Event(r) = Head(s)
  BY DEF Event
<1> HIDE DEF s
<1>5. /\ Tail(s) \in Seq(Events)
      /\ \A i, j \in 1..Len(Tail(s)) : Tail(s)[i] = Tail(s)[j] => i = j
      /\ \A i \in 1..Len(Tail(s)) : Tail(s)[i] # Head(s)
      /\ \A i \in 1..Len(Tail(s)) : \E j \in 1..Len(s) : Tail(s)[i] = s[j]
  BY <1>1, RestOfBatch
<1>6. ASSUME NEW i \in 1..Len(Tail(s)), Tail(s)[i] = Permanent("socket")
      PROVE  received'[r] # <<>>
  BY <1>1, <1>4, <1>5, <1>6
<1>7. Permanent("socket")' = Permanent("socket") /\ Events' = Events
  BY DEF Permanent, Events, TimerEvent, Blocks
<1> QED BY <1>2, <1>3, <1>5, <1>6, <1>7 DEF BatchInvariant

LEMMA OwnBatchStep ==
  ASSUME SocketsType, LoopTypeOK, NEW r \in Routers, BatchInvariant(r),
         \/ TestAborted(r) \/ Finish(r) \/ EpollWait(r)
         \/ ServeSocket(r) \/ ServeNetlink(r) \/ ServeTelnet(r)
         \/ ServeTimer(r) \/ ServeDeleted(r) \/ ChangeLink(r) \/ Signal(r)
         \/ \E pkt \in Packets : Arrive(r, pkt)
  PROVE  BatchInvariant(r)'
<1>1. ASSUME batch' = batch, received'[r] = received[r] \/ received'[r] # <<>>,
             loop'[r] = "serving" => loop[r] = "serving"
      PROVE  BatchInvariant(r)'
  BY <1>1 DEF BatchInvariant
<1>2. CASE TestAborted(r)
  <2>1. batch' = batch /\ received' = received /\ loop'[r] = "waiting"
    BY <1>2 DEF TestAborted, LoopTypeOK
  <2> QED BY <1>1, <2>1
<1>3. CASE Finish(r)
  <2>1. batch' = batch /\ received' = received /\ loop'[r] = "ended"
    BY <1>3 DEF Finish, LoopTypeOK
  <2> QED BY <1>1, <2>1
<1>4. CASE EpollWait(r)
  <2>1. PICK typed \in {{}, {Permanent("telnet")}} :
          /\ Ready(r) \cup typed # {}
          /\ \E order \in SetToSeqs(Ready(r) \cup typed) : batch' = [batch EXCEPT ![r] = order]
    BY <1>4 DEF EpollWait
  <2> DEFINE S == Ready(r) \cup typed
  <2>2. PICK order \in SetToSeqs(S) : batch' = [batch EXCEPT ![r] = order]
    BY <2>1
  <2>3. S \in SUBSET Events /\ S # {}
    BY <2>1 DEF Ready, Events
  <2>4. Permanent("socket") \in S => received[r] # <<>>
    <3>1. Permanent("socket").monitor = "socket" /\ Permanent("telnet").monitor = "telnet"
      BY DEF Permanent
    <3>2. Permanent("socket") \notin typed
      BY <3>1
    <3> HIDE DEF S
    <3>3. ASSUME Permanent("socket") \in Ready(r) PROVE received[r] # <<>>
      BY <3>1, <3>3 DEF Ready
    <3> QED BY <3>2, <3>3 DEF S
  <2> HIDE DEF S
  <2>5. /\ order \in Seq(Events) /\ order # <<>>
        /\ \A i, j \in 1..Len(order) : order[i] = order[j] => i = j
        /\ \A i \in 1..Len(order) : order[i] \in S
    BY <2>3, OrdersAreInjective
  <2>6. batch'[r] = order /\ received' = received
    BY <1>4, <2>2 DEF LoopTypeOK, EpollWait
  <2> QED BY <2>4, <2>5, <2>6 DEF BatchInvariant
<1>5. CASE ServeSocket(r)
  BY <1>5, TurnKeepsBatch DEF ServeSocket
<1>6. CASE ServeNetlink(r) \/ ServeTelnet(r) \/ ServeTimer(r)
  BY <1>6, TurnKeepsBatch DEF ServeNetlink, ServeTelnet, ServeTimer
<1>7. CASE ServeDeleted(r)
  BY <1>7, TurnKeepsBatch DEF ServeDeleted
<1>8. CASE ChangeLink(r)
  BY <1>1, <1>8 DEF ChangeLink
<1>9. CASE Signal(r)
  <2>1. batch' = batch /\ received' = received /\ (loop'[r] = "serving" => loop[r] = "serving")
    BY <1>9 DEF Signal, LoopTypeOK
  <2> QED BY <1>1, <2>1
<1>10. ASSUME NEW pkt \in Packets, Arrive(r, pkt)
       PROVE  BatchInvariant(r)'
  <2>1. received'[r] = Append(received[r], pkt) /\ received[r] \in Seq(Packets)
    BY <1>10 DEF Arrive, SocketsType
  <2>2. Append(received[r], pkt) # <<>>
    BY <2>1
  <2> QED BY <1>1, <1>10, <2>1, <2>2 DEF Arrive
<1> QED BY <1>2, <1>3, <1>4, <1>5, <1>6, <1>7, <1>8, <1>9, <1>10

LEMMA OthersBatchStep ==
  ASSUME SocketsType, LoopTypeOK, NEW r \in Routers, NEW q \in Routers \ {r},
         \/ TestAborted(r) \/ Finish(r) \/ EpollWait(r)
         \/ ServeSocket(r) \/ ServeNetlink(r) \/ ServeTelnet(r)
         \/ ServeTimer(r) \/ ServeDeleted(r) \/ ChangeLink(r) \/ Signal(r)
         \/ \E pkt \in Packets : Arrive(r, pkt)
  PROVE  batch'[q] = batch[q] /\ received'[q] = received[q] /\ loop'[q] = loop[q]
<1>1. Served(r) => batch'[q] = batch[q]
  BY DEF Served, LoopTypeOK
<1>2. Continue(r) => loop'[q] = loop[q]
  BY DEF Continue, LoopTypeOK
<1>3. CASE TestAborted(r) \/ Finish(r) \/ ChangeLink(r) \/ Signal(r)
  BY <1>3 DEF TestAborted, Finish, ChangeLink, Signal, LoopTypeOK
<1>4. CASE EpollWait(r)
  BY <1>4 DEF EpollWait, LoopTypeOK
<1>5. CASE ServeSocket(r)
  BY <1>1, <1>2, <1>5 DEF ServeSocket, SocketsType
<1>6. CASE ServeNetlink(r) \/ ServeTelnet(r) \/ ServeTimer(r)
  BY <1>1, <1>2, <1>6 DEF ServeNetlink, ServeTelnet, ServeTimer
<1>7. CASE ServeDeleted(r)
  BY <1>1, <1>2, <1>7 DEF ServeDeleted, LoopTypeOK
<1>8. ASSUME NEW pkt \in Packets, Arrive(r, pkt)
      PROVE  batch'[q] = batch[q] /\ received'[q] = received[q] /\ loop'[q] = loop[q]
  BY <1>8 DEF Arrive, SocketsType
<1> QED BY <1>3, <1>4, <1>5, <1>6, <1>7, <1>8

LEMMA LoopTypeStep ==
  ASSUME LoopTypeOK, \A q \in Routers : BatchInvariant(q), [LoopNext]_loopVars
  PROVE  LoopTypeOK'
<1> DEFINE Loops == {"testing", "waiting", "serving", "ended", "crashed"}
<1>1. batch \in [Routers -> Seq(Events)] /\ loop \in [Routers -> Loops]
  BY DEF LoopTypeOK
<1>2. ASSUME NEW r \in Routers, Served(r)
      PROVE  batch' \in [Routers -> Seq(Events)]
  <2>1. batch[r] \in Seq(Events) /\ batch[r] # <<>>
    BY <1>2 DEF BatchInvariant, Served
  <2>2. Tail(batch[r]) \in Seq(Events)
    BY <2>1
  <2> QED BY <1>1, <1>2, <2>2 DEF Served
<1>3. ASSUME NEW r \in Routers, Continue(r)
      PROVE  loop' \in [Routers -> Loops]
  BY <1>1, <1>3 DEF Continue
<1>4. ASSUME NEW r \in Routers, TestAborted(r) \/ Finish(r) \/ Signal(r) \/ ChangeLink(r)
      PROVE  batch' = batch /\ loop' \in [Routers -> Loops]
  BY <1>1, <1>4 DEF TestAborted, Finish, Signal, ChangeLink
<1>5. ASSUME NEW r \in Routers, EpollWait(r)
      PROVE  batch' \in [Routers -> Seq(Events)] /\ loop' \in [Routers -> Loops]
  <2>1. PICK typed \in {{}, {Permanent("telnet")}} :
          /\ Ready(r) \cup typed # {}
          /\ \E order \in SetToSeqs(Ready(r) \cup typed) : batch' = [batch EXCEPT ![r] = order]
    BY <1>5 DEF EpollWait
  <2>2. Ready(r) \cup typed \in SUBSET Events
    BY DEF Ready, Events
  <2>3. \A order \in SetToSeqs(Ready(r) \cup typed) : order \in Seq(Events)
    BY <2>1, <2>2, OrdersAreInjective
  <2>4. batch' \in [Routers -> Seq(Events)]
    BY <1>1, <2>1, <2>3
  <2>5. loop' \in [Routers -> Loops]
    BY <1>1, <1>5 DEF EpollWait
  <2> QED BY <2>4, <2>5
<1>6. ASSUME NEW r \in Routers, ServeSocket(r) \/ ServeNetlink(r) \/ ServeTelnet(r) \/ ServeTimer(r)
      PROVE  Served(r) /\ Continue(r)
  BY <1>6 DEF ServeSocket, ServeNetlink, ServeTelnet, ServeTimer
<1>7. ASSUME NEW r \in Routers, ServeDeleted(r)
      PROVE  Served(r) /\ loop' \in [Routers -> Loops]
  BY <1>1, <1>3, <1>7 DEF ServeDeleted
<1>8. ASSUME NEW r \in Routers, NEW pkt \in Packets, Arrive(r, pkt)
      PROVE  UNCHANGED <<batch, loop>>
  BY <1>8 DEF Arrive
<1>9. \A d \in TimeSteps : Pass(d) => UNCHANGED <<batch, loop>>
  BY DEF Pass
<1>10. UNCHANGED loopVars => UNCHANGED <<batch, loop>>
  BY DEF loopVars
<1>11. CASE UNCHANGED <<batch, loop>>
  BY <1>1, <1>11 DEF LoopTypeOK
<1>12. batch' \in [Routers -> Seq(Events)] /\ loop' \in [Routers -> Loops] => LoopTypeOK'
  BY DEF LoopTypeOK, Events, Permanent, TimerEvent, Blocks
<1> QED BY <1>1, <1>2, <1>3, <1>4, <1>5, <1>6, <1>7, <1>8, <1>9, <1>10, <1>11, <1>12 DEF LoopNext

LEMMA BatchStep ==
  ASSUME SocketsType, LoopTypeOK, \A q \in Routers : BatchInvariant(q), [LoopNext]_loopVars,
         NEW q \in Routers
  PROVE  BatchInvariant(q)'
<1>1. CASE batch'[q] = batch[q] /\ received'[q] = received[q] /\ loop'[q] = loop[q]
  BY <1>1 DEF BatchInvariant
<1>2. ASSUME NEW r \in Routers,
             \/ TestAborted(r) \/ Finish(r) \/ EpollWait(r)
             \/ ServeSocket(r) \/ ServeNetlink(r) \/ ServeTelnet(r)
             \/ ServeTimer(r) \/ ServeDeleted(r) \/ ChangeLink(r) \/ Signal(r)
             \/ \E pkt \in Packets : Arrive(r, pkt)
      PROVE  BatchInvariant(q)'
  BY <1>1, <1>2, OwnBatchStep, OthersBatchStep
<1>3. \A d \in TimeSteps : Pass(d) => UNCHANGED <<batch, received, loop>>
  BY DEF Pass
<1>4. UNCHANGED loopVars => UNCHANGED <<batch, received, loop>>
  BY DEF loopVars
<1> QED BY <1>1, <1>2, <1>3, <1>4 DEF LoopNext

LEMMA ServicesStep ==
  ASSUME ConfigAssumption, TypeOK, \A q \in Routers : TimerInvariant(q) /\ LinkInvariant(q),
         \/ \E r \in Routers : Step(r)
         \/ \E d \in TimeSteps : Elapse(d)
         \/ UNCHANGED vars
  PROVE  TypeOK' /\ \A q \in Routers : TimerInvariant(q)' /\ LinkInvariant(q)'
<1>1. ASSUME NEW r \in Routers, Step(r), NEW q \in Routers
      PROVE  TimerInvariant(q)' /\ LinkInvariant(q)'
  <2>1. Outcome(q)
    BY <1>1, StepOutcome, StepOthers DEF OthersUndisturbed, Outcome
  <2>2. TimerInvariant(q)'
    BY <2>1, OutcomeKeeps
  <2>3. CASE q = r
    BY <1>1, <2>2, <2>3, OwnStepKeeps
  <2>4. CASE q # r
    <3>1. Attached(q) /\ state'[q] = state[q]
      BY <1>1, <2>4, StepOthersAttached
    <3> QED BY <2>2, <3>1, AttachedKeeps
  <2> QED BY <2>3, <2>4
<1>2. CASE \E r \in Routers : Step(r)
  BY <1>1, <1>2, StepType
<1>3. CASE (\E d \in TimeSteps : Elapse(d)) \/ UNCHANGED vars
  <2>1. [Next]_vars
    BY <1>3 DEF Next
  <2> QED BY <2>1, NextType, TimerStep, LinkStep
<1> QED BY <1>2, <1>3

LEMMA LoopAlways == LoopSpec => []LoopInvariant
<1>1. LoopInit => LoopInvariant
  <2> SUFFICES ASSUME LoopInit
               PROVE  LoopInvariant
    OBVIOUS
  <2>1. TypeOK
    BY ConfigAssumption, InitType DEF LoopInit
  <2>2. SocketsType /\ LoopTypeOK
    BY DEF LoopInit, SocketsType, LoopTypeOK
  <2>3. ASSUME NEW q \in Routers
        PROVE  TimerInvariant(q) /\ LinkInvariant(q) /\ BatchInvariant(q)
    <3>1. TimerInvariant(q)
      BY DEF LoopInit, Init, TimerInvariant, Armed
    <3>2. /\ state[q] = "Disabled" /\ linkEvents[q] = <<>>
          /\ link[q].oper => link[q].admin
      BY DEF LoopInit, Init
    <3>3. batch[q] = <<>> /\ loop[q] = "testing"
      BY DEF LoopInit
    <3> QED BY <3>1, <3>2, <3>3 DEF LinkInvariant, BatchInvariant
  <2> QED BY <2>1, <2>2, <2>3 DEF LoopInvariant
<1>2. LoopInvariant /\ [LoopNext]_loopVars => LoopInvariant'
  <2> SUFFICES ASSUME LoopInvariant, [LoopNext]_loopVars
               PROVE  LoopInvariant'
    OBVIOUS
  <2>1. SocketsType' /\ LoopTypeOK' /\ \A q \in Routers : BatchInvariant(q)'
    BY SocketsStep, LoopTypeStep, BatchStep DEF LoopInvariant
  <2>2. \/ \E r \in Routers : Step(r)
        \/ \E d \in TimeSteps : Elapse(d)
        \/ UNCHANGED vars
    BY ConfigAssumption, LoopIsStep DEF LoopInvariant
  <2>3. TypeOK' /\ \A q \in Routers : TimerInvariant(q)' /\ LinkInvariant(q)'
    BY <2>2, ConfigAssumption, ServicesStep DEF LoopInvariant
  <2> QED BY <2>1, <2>3 DEF LoopInvariant
<1> QED BY <1>1, <1>2, PTL DEF LoopSpec

\* Exactly the timer that the state calls for is armed, though the loop serves timers
\* that were restarted after epoll_wait had returned them, and ends on a signal at any
\* batch (MainLoop::run, Timer::callback).
THEOREM LoopKeepsTimers == LoopSpec => []TimerDiscipline
<1>1. LoopInvariant => TimerDiscipline
  BY DEF LoopInvariant, TimerInvariant, TimerDiscipline
<1> QED BY <1>1, LoopAlways, PTL

\* A router served by the loop has stopped when the messages about an interface that
\* was taken down are read, in whatever order a batch serves them and the rest.
THEOREM LoopStopsWithInterface == LoopSpec => []StopsWithInterface
<1>1. LoopInvariant => StopsWithInterface
  BY DEF LoopInvariant, LinkInvariant, StopsWithInterface
<1> QED BY <1>1, LoopAlways, PTL

=============================================================================
