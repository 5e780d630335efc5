------------------------- MODULE VrrpRegistry_proofs -------------------------
(***************************************************************************)
(* The tables of the daemon stay exact for any set of routers, interfaces  *)
(* and VLANs, whatever the kernel refuses and wherever the daemon is       *)
(* killed.  A step that changes the tables creates a router (Construct),   *)
(* gives one up half-way (Abandon), removes one or forgets them all; there *)
(* is one lemma for each of these.                                         *)
(***************************************************************************)
EXTENDS VrrpRegistry, FiniteSetTheorems, Sequences, TLAPS

-----------------------------------------------------------------------------
(* Keys and names *)

LEMMA EntryParts ==
  ASSUME NEW e \in Entries
  PROVE  /\ e.key \in Keys
         /\ e = [key |-> e.key, vlanId |-> e.vlanId]
         /\ e.vlanId \in 0..4095
<1>1. e \in [key : [interface : Interfaces, vrid : Ids, family : Families], vlanId : 0..4095]
  BY RegistryAssumption
<1> QED BY <1>1 DEF Keys

LEMMA KeyType == Keys \subseteq [interface : Interfaces, vrid : Ids, family : Families]
BY RegistryAssumption DEF Keys

\* A key is told by its three parts.
LEMMA KeyParts ==
  ASSUME NEW k \in Keys, NEW l \in Keys,
         k.interface = l.interface, k.vrid = l.vrid, k.family = l.family
  PROVE  k = l
BY KeyType

\* The name of a device tells what kind it is, and whose.
LEMMA NameParts ==
  /\ \A i : Eth(i)[1] = "eth" /\ Eth(i)[2] = i
  /\ \A k : /\ MacvlanOf(k)[1] = "vrrp" /\ Len(MacvlanOf(k)) = 3
            /\ MacvlanOf(k)[2] = k.family /\ MacvlanOf(k)[3] = k.vrid
  /\ \A k, v : /\ VlanOf(k, v)[1] = "vrrp" /\ Len(VlanOf(k, v)) = 4
               /\ VlanOf(k, v)[2] = k.family /\ VlanOf(k, v)[3] = k.vrid
  /\ NoDevice[1] = "none"
BY DEF Eth, MacvlanOf, VlanOf, NoDevice

LEMMA EthNames ==
  /\ \A i, j : Eth(i) = Eth(j) => i = j
  /\ \A i : Eth(i) # NoDevice
BY NameParts

LEMMA EthIsNotVirtual ==
  /\ \A i, k : Eth(i) # MacvlanOf(k)
  /\ \A i, k, v : Eth(i) # VlanOf(k, v)
BY NameParts

LEMMA MacvlanNames ==
  /\ \A k, l : MacvlanOf(k) = MacvlanOf(l) => k.family = l.family /\ k.vrid = l.vrid
  /\ \A k : MacvlanOf(k) # NoDevice
  /\ \A k, l, v : MacvlanOf(k) # VlanOf(l, v)
BY NameParts, SMTT(40)

LEMMA VlanNames ==
  /\ \A k, l, v, w : VlanOf(k, v) = VlanOf(l, w) => k.family = l.family /\ k.vrid = l.vrid
  /\ \A k, v : VlanOf(k, v) # NoDevice
BY NameParts

LEMMA NoDeviceIsNotVirtual == NoDevice \notin VirtualDevices
BY MacvlanNames, VlanNames DEF VirtualDevices

-----------------------------------------------------------------------------
(* What each service is made of, and what a stopped daemon has.              *)

\* A service of key k: what it owns and where it listens is told by k and its VLAN.
Shape(k, service) ==
  /\ [key |-> k, vlanId |-> service.vlanId] \in Entries
  /\ service.macvlan \in {MacvlanOf(k), NoDevice}
  /\ service.vlanId = 0 => service.vlan = NoDevice /\ service.input = Eth(k.interface)
  /\ service.vlanId # 0 =>
       service.vlan = VlanOf(k, service.vlanId) /\ service.input = service.vlan

ServiceShape == \A k \in DOMAIN services : Shape(k, services[k])

Asleep == ~up => DOMAIN services = {} /\ pending = {}

\* A router that getService constructs: the names of the devices made for it are free.
Fits(k, vlanId, macvlan, vlan, made) ==
  /\ up
  /\ [key |-> k, vlanId |-> vlanId] \in Entries
  /\ k \notin DOMAIN services
  /\ macvlan \in {MacvlanOf(k), NoDevice}
  /\ vlan = IF vlanId = 0 THEN NoDevice ELSE VlanOf(k, vlanId)
  /\ made \subseteq Wanted(k, vlanId) \ devices
  /\ {macvlan, vlan} \ {NoDevice} \subseteq made

\* One that it gives up for want of its VLAN.
GivesUp(k, vlanId, macvlan, made) ==
  /\ up
  /\ [key |-> k, vlanId |-> vlanId] \in Entries
  /\ vlanId # 0
  /\ k \notin DOMAIN services
  /\ macvlan \in {MacvlanOf(k), NoDevice}
  /\ made \subseteq Wanted(k, vlanId) \ devices

InputOf(k, vlanId, vlan) == IF vlanId = 0 THEN Eth(k.interface) ELSE vlan

ServiceOf(k, vlanId, macvlan, vlan) ==
  [macvlan |-> macvlan, vlan |-> vlan, input |-> InputOf(k, vlanId, vlan), vlanId |-> vlanId]

LEMMA FitsTypes ==
  ASSUME NEW k, NEW vlanId, NEW macvlan, NEW vlan, NEW made, Fits(k, vlanId, macvlan, vlan, made)
  PROVE  /\ k \in Keys /\ k.family \in Families /\ k.interface \in Interfaces
         /\ macvlan \in VirtualDevices \cup {NoDevice}
         /\ vlan \in VirtualDevices \cup {NoDevice}
         /\ InputOf(k, vlanId, vlan) \in Devices
         /\ vlanId \in {e.vlanId : e \in Entries}
         /\ made \subseteq VirtualDevices
<1> DEFINE e == [key |-> k, vlanId |-> vlanId]
<1>1. e \in Entries /\ e.key = k /\ e.vlanId = vlanId
  BY DEF Fits
<1>2. k \in Keys /\ vlanId \in {x.vlanId : x \in Entries}
  BY <1>1, EntryParts
<1>3. k.family \in Families /\ k.interface \in Interfaces
  BY <1>2 DEF Families, Interfaces
<1>4. macvlan \in VirtualDevices \cup {NoDevice}
  BY <1>2 DEF Fits, VirtualDevices
<1>5. vlanId # 0 => VlanOf(k, vlanId) \in VirtualDevices
  BY <1>1 DEF VirtualDevices
<1>6. InputOf(k, vlanId, vlan) \in Devices
  BY <1>3, <1>5 DEF Fits, InputOf, Devices
<1>7. made \subseteq VirtualDevices
  BY <1>2, <1>5 DEF Fits, Wanted, VirtualDevices
<1> QED BY <1>2, <1>3, <1>4, <1>5, <1>6, <1>7 DEF Fits

LEMMA GivesUpTypes ==
  ASSUME NEW k, NEW vlanId, NEW macvlan, NEW made, GivesUp(k, vlanId, macvlan, made)
  PROVE  /\ k \in Keys /\ k.family \in Families
         /\ made \subseteq VirtualDevices
         /\ VlanOf(k, vlanId) \in Wanted(k, vlanId) \ {macvlan}
         /\ \A stays \in Unwound(macvlan, made) : stays \subseteq made
<1> DEFINE e == [key |-> k, vlanId |-> vlanId]
<1>1. e \in Entries /\ e.key = k /\ e.vlanId = vlanId
  BY DEF GivesUp
<1>2. k \in Keys /\ k.family \in Families
  BY <1>1, EntryParts DEF Families
<1>3. VlanOf(k, vlanId) \in VirtualDevices /\ MacvlanOf(k) \in VirtualDevices
  BY <1>1, <1>2 DEF VirtualDevices, GivesUp
<1>4. made \subseteq VirtualDevices
  BY <1>3 DEF GivesUp, Wanted
<1>5. VlanOf(k, vlanId) \in Wanted(k, vlanId) \ {macvlan}
  BY MacvlanNames, VlanNames DEF GivesUp, Wanted
<1> QED BY <1>2, <1>4, <1>5 DEF Unwound

\* The tables after a construction.
LEMMA ConstructedServices ==
  ASSUME NEW k, NEW vlanId, NEW macvlan, NEW vlan, NEW made,
         Fits(k, vlanId, macvlan, vlan, made), Construct(k, vlanId, macvlan, vlan, made)
  PROVE  /\ DOMAIN services' = DOMAIN services \cup {k}
         /\ \A s \in DOMAIN services : s # k /\ services'[s] = services[s]
         /\ services'[k] = ServiceOf(k, vlanId, macvlan, vlan)
BY DEF Fits, Construct, InputOf, ServiceOf

LEMMA RemovedServices ==
  ASSUME NEW k, removeService(k)
  PROVE  /\ k \in DOMAIN services
         /\ DOMAIN services' = DOMAIN services \ {k}
         /\ \A s \in DOMAIN services' : services'[s] = services[s]
BY DEF removeService

LEMMA ForgottenServices ==
  ASSUME Forget
  PROVE  DOMAIN services' = {} /\ pending' = {}
BY DEF Forget

-----------------------------------------------------------------------------
(* Shape *)

LEMMA ConstructShape ==
  ASSUME NEW k, NEW vlanId, NEW macvlan, NEW vlan, NEW made,
         Fits(k, vlanId, macvlan, vlan, made), Construct(k, vlanId, macvlan, vlan, made),
         ServiceShape
  PROVE  ServiceShape'
<1>1. ASSUME NEW s \in DOMAIN services PROVE Shape(s, services'[s])
  BY ConstructedServices DEF ServiceShape
<1>2. Shape(k, ServiceOf(k, vlanId, macvlan, vlan))
  BY DEF Shape, Fits, InputOf, ServiceOf
<1>3. services'[k] = ServiceOf(k, vlanId, macvlan, vlan)
  BY ConstructedServices
<1>4. Shape(k, services'[k])
  BY <1>2, <1>3
<1> QED BY <1>1, <1>4, ConstructedServices DEF ServiceShape

LEMMA RemoveShape ==
  ASSUME NEW k, removeService(k), ServiceShape
  PROVE  ServiceShape'
BY RemovedServices DEF ServiceShape

\* No two services share the device and the id that they listen on.
LEMMA ListenApart ==
  ASSUME NEW k \in Keys, NEW l \in Keys, NEW a, NEW b, Shape(k, a), Shape(l, b),
         OwnDevices(a) \cap OwnDevices(b) = {},
         k.family = l.family, k.vrid = l.vrid, a.input = b.input
  PROVE  k = l
<1>1. CASE a.vlanId = 0 /\ b.vlanId = 0
  <2>1. k.interface = l.interface
    BY <1>1, EthNames DEF Shape
  <2> QED BY <2>1, KeyParts
<1>2. CASE a.vlanId # 0 /\ b.vlanId # 0
  <2>1. a.vlan = b.vlan /\ a.vlan # NoDevice
    BY <1>2, VlanNames DEF Shape
  <2> QED BY <2>1 DEF OwnDevices
<1>3. CASE a.vlanId = 0 /\ b.vlanId # 0
  BY <1>3, EthIsNotVirtual DEF Shape
<1>4. CASE a.vlanId # 0 /\ b.vlanId = 0
  BY <1>4, EthIsNotVirtual DEF Shape
<1> QED BY <1>1, <1>2, <1>3, <1>4

-----------------------------------------------------------------------------
(* Types *)

\* addInterface and removeInterface keep the counts natural numbers.
LEMMA MembersType ==
  ASSUME NEW k \in Keys, NEW device \in Devices, NEW joins \in BOOLEAN,
         members \in [Families -> [Devices -> Nat]]
  PROVE  /\ addInterface(k, device, joins) \in [Families -> [Devices -> Nat]]
         /\ removeInterface(k, device) \in [Families -> [Devices -> Nat]]
<1> k.family \in Families
  BY DEF Families
<1> members[k.family] \in [Devices -> Nat] /\ members[k.family][device] \in Nat
  OBVIOUS
<1>1. addInterface(k, device, joins) \in [Families -> [Devices -> Nat]]
  BY DEF addInterface
<1>2. removeInterface(k, device) \in [Families -> [Devices -> Nat]]
  BY DEF removeInterface
<1> QED BY <1>1, <1>2

LEMMA ListenersType ==
  ASSUME NEW k \in Keys, NEW device \in Devices,
         listeners \subseteq {Listener(l, d) : l \in Keys, d \in Devices}
  PROVE  /\ addEventListener(k, device) \subseteq {Listener(l, d) : l \in Keys, d \in Devices}
         /\ removeEventListener(k, device) \subseteq {Listener(l, d) : l \in Keys, d \in Devices}
BY DEF addEventListener, removeEventListener, Without

LEMMA MonitorType ==
  ASSUME NEW k \in Keys, callbacks \in [Interfaces -> SUBSET Keys],
         netlink \in {"closed", "open", "broken"},
         removeInterfaceMonitor(k) \/ \E connects \in BOOLEAN : addInterfaceMonitor(k, connects)
  PROVE  /\ callbacks' \in [Interfaces -> SUBSET Keys]
         /\ netlink' \in {"closed", "open", "broken"}
<1> k.interface \in Interfaces
  BY DEF Interfaces
<1>1. CASE removeInterfaceMonitor(k)
  BY <1>1 DEF removeInterfaceMonitor
<1>2. ASSUME NEW connects \in BOOLEAN, addInterfaceMonitor(k, connects)
      PROVE  /\ callbacks' \in [Interfaces -> SUBSET Keys]
             /\ netlink' \in {"closed", "open", "broken"}
  BY <1>2 DEF addInterfaceMonitor
<1> QED BY <1>1, <1>2

LEMMA ReasonsType ==
  ASSUME NEW missing, faults \subseteq {"taken", "denied"}
  PROVE  /\ Reasons(missing) \subseteq {"taken", "denied"}
         /\ faults \subseteq Reasons(missing)
         /\ missing # {} => Reasons(missing) # {}
BY DEF Reasons

LEMMA ConstructType ==
  ASSUME NEW k, NEW vlanId, NEW macvlan, NEW vlan, NEW made,
         Fits(k, vlanId, macvlan, vlan, made), Construct(k, vlanId, macvlan, vlan, made),
         RegistryTypeOK, pending' \in SUBSET Entries
  PROVE  RegistryTypeOK'
<1> USE DEF RegistryTypeOK
<1> DEFINE input == InputOf(k, vlanId, vlan)
<1>1. /\ k \in Keys /\ input \in Devices
      /\ macvlan \in VirtualDevices \cup {NoDevice}
      /\ vlan \in VirtualDevices \cup {NoDevice}
      /\ vlanId \in {e.vlanId : e \in Entries}
  BY FitsTypes
<1>2. PICK joins \in BOOLEAN, connects \in BOOLEAN :
        /\ members' = addInterface(k, input, joins)
        /\ addInterfaceMonitor(k, connects)
        /\ faults' = Reasons(Wanted(k, vlanId) \ {macvlan, vlan}) \cup (IF joins /\ connects THEN {} ELSE {"denied"})
  BY DEF Construct, InputOf, Answers
<1>3. members' \in [Families -> [Devices -> Nat]]
  BY <1>1, <1>2, MembersType
<1>4. listeners' \subseteq {Listener(l, d) : l \in Keys, d \in Devices}
  <2>1. listeners' = addEventListener(k, input)
    BY DEF Construct, InputOf
  <2> QED BY <1>1, <2>1, ListenersType
<1>5. /\ callbacks' \in [Interfaces -> SUBSET Keys]
      /\ netlink' \in {"closed", "open", "broken"}
  BY <1>1, <1>2, MonitorType
<1>6. faults' \subseteq {"taken", "denied"}
  BY <1>2, ReasonsType
<1>7. /\ devices' \subseteq VirtualDevices /\ stranded' \subseteq devices'
      /\ sockets' \subseteq Families
  BY <1>1, FitsTypes DEF Construct
<1> HIDE DEF RegistryTypeOK
<1>8. DOMAIN services' \subseteq Keys /\ \A s \in DOMAIN services' : services'[s] \in Services
  <2>1. DOMAIN services \subseteq Keys /\ \A s \in DOMAIN services : services[s] \in Services
    BY DEF RegistryTypeOK
  <2>2. ServiceOf(k, vlanId, macvlan, vlan) \in Services
    BY <1>1 DEF Services, Devices, ServiceOf
  <2>3. services'[k] \in Services
    BY <2>2, ConstructedServices
  <2>4. /\ DOMAIN services' = DOMAIN services \cup {k}
        /\ \A s \in DOMAIN services : services'[s] = services[s]
    BY ConstructedServices
  <2> QED BY <1>1, <2>1, <2>3, <2>4
<1> USE DEF RegistryTypeOK
<1>10. up' \in BOOLEAN /\ file' \in SUBSET Entries
  BY DEF Construct
<1> QED BY <1>3, <1>4, <1>5, <1>6, <1>7, <1>8, <1>10

LEMMA AbandonType ==
  ASSUME NEW k, NEW vlanId, NEW macvlan, NEW made, GivesUp(k, vlanId, macvlan, made),
         Abandon(k, vlanId, macvlan, made), RegistryTypeOK, pending' \in SUBSET Entries
  PROVE  RegistryTypeOK'
<1> USE DEF RegistryTypeOK
<1> k \in Keys
  BY GivesUpTypes
<1>1. Eth(k.interface) \in Devices
  BY DEF Devices, Interfaces
<1>2. members' \in [Families -> [Devices -> Nat]]
  BY <1>1, MembersType DEF Abandon
<1>3. listeners' \subseteq {Listener(l, d) : l \in Keys, d \in Devices}
  BY <1>1, ListenersType DEF Abandon
<1>4. /\ callbacks' \in [Interfaces -> SUBSET Keys]
      /\ netlink' \in {"closed", "open", "broken"}
  BY MonitorType DEF Abandon
<1>5. faults' \subseteq {"taken", "denied"}
  BY ReasonsType DEF Abandon
<1>6. /\ stranded' \subseteq devices' /\ devices' \subseteq VirtualDevices
      /\ sockets' \subseteq Families
  BY GivesUpTypes DEF Abandon
<1>7. /\ up' = up /\ file' = file /\ services' = services
  BY DEF Abandon
<1> QED BY <1>2, <1>3, <1>4, <1>5, <1>6, <1>7

LEMMA ForgetType ==
  ASSUME Forget, RegistryTypeOK, devices' \subseteq VirtualDevices, file' \in SUBSET Entries
  PROVE  RegistryTypeOK'
<1>1. DOMAIN services' = {} /\ pending' = {}
  BY ForgottenServices
<1>2. members' \in [Families -> [Devices -> Nat]] /\ callbacks' \in [Interfaces -> SUBSET Keys]
  BY DEF Forget
<1>3. /\ up' \in BOOLEAN /\ listeners' = {} /\ netlink' = "closed" /\ faults' = {}
      /\ sockets' = {} /\ stranded' = {}
  BY DEF Forget
<1> QED BY <1>1, <1>2, <1>3 DEF RegistryTypeOK

LEMMA RemoveType ==
  ASSUME NEW k, removeService(k), up, RegistryTypeOK, DevicesOwned
  PROVE  RegistryTypeOK'
<1> USE DEF RegistryTypeOK
<1>1. k \in Keys /\ services[k].input \in Devices
  BY DEF removeService, Services
<1>2. members' \in [Families -> [Devices -> Nat]]
  <2>1. members' = removeInterface(k, services[k].input)
    BY DEF removeService
  <2>2. TRUE \in BOOLEAN /\ members \in [Families -> [Devices -> Nat]]
    OBVIOUS
  <2> HIDE DEF RegistryTypeOK
  <2> QED BY <1>1, <2>1, <2>2, MembersType
<1>3. listeners' \subseteq {Listener(l, d) : l \in Keys, d \in Devices}
  BY <1>1, ListenersType DEF removeService
<1>4. /\ callbacks' \in [Interfaces -> SUBSET Keys]
      /\ netlink' \in {"closed", "open", "broken"}
  BY <1>1, MonitorType DEF removeService
<1> HIDE DEF RegistryTypeOK
<1>5. DOMAIN services' \subseteq Keys /\ \A s \in DOMAIN services' : services'[s] \in Services
  <2>1. DOMAIN services \subseteq Keys /\ \A s \in DOMAIN services : services[s] \in Services
    BY DEF RegistryTypeOK
  <2> QED BY <2>1, RemovedServices
<1> USE DEF RegistryTypeOK
<1>6. stranded' \subseteq devices' /\ devices' \subseteq VirtualDevices
  <2>1. PICK stays \in Refusable(services[k]) :
          /\ devices' = devices \ (Deleted(services[k]) \ stays)
          /\ stranded' = stranded \cup stays
    BY DEF removeService
  <2>2. Deleted(services[k]) \cap stranded = {} /\ stays \subseteq devices
    BY <1>1, RemovedServices DEF DevicesOwned, Deleted, Refusable
  <2> QED BY <2>1, <2>2
<1> QED BY <1>2, <1>3, <1>4, <1>5, <1>6 DEF removeService

-----------------------------------------------------------------------------
(* Devices                                                                   *)

LEMMA ConstructDevices ==
  ASSUME NEW k, NEW vlanId, NEW macvlan, NEW vlan, NEW made,
         Fits(k, vlanId, macvlan, vlan, made), Construct(k, vlanId, macvlan, vlan, made),
         RegistryTypeOK, DevicesOwned
  PROVE  DevicesOwned'
<1> DEFINE own == {macvlan, vlan} \ {NoDevice}
<1>1. up /\ own \subseteq made /\ made \cap devices = {}
  BY DEF Fits
<1>2. /\ devices' = devices \cup made
      /\ stranded' = stranded \cup (made \ own)
      /\ k \notin DOMAIN services
  <2>1. NoDevice \notin made
    BY FitsTypes, NoDeviceIsNotVirtual
  <2> QED BY <2>1 DEF Construct, Fits
<1>3. OwnDevices(ServiceOf(k, vlanId, macvlan, vlan)) = own
  BY DEF OwnDevices, ServiceOf
<1>4. /\ DOMAIN services' = DOMAIN services \cup {k}
      /\ \A s \in DOMAIN services : services'[s] = services[s]
      /\ services'[k] = ServiceOf(k, vlanId, macvlan, vlan)
  BY ConstructedServices
<1>5. OwnDevices(services'[k]) = own
  BY <1>3, <1>4
<1>6. \A s \in DOMAIN services : OwnDevices(services'[s]) = OwnDevices(services[s])
  BY <1>4
<1>7. /\ devices = stranded \cup UNION {OwnDevices(services[s]) : s \in DOMAIN services}
      /\ \A s \in DOMAIN services : OwnDevices(services[s]) \cap stranded = {}
      /\ stranded \subseteq devices
  BY <1>1 DEF DevicesOwned, RegistryTypeOK
<1> HIDE DEF own
<1>8. devices' = stranded' \cup UNION {OwnDevices(services'[s]) : s \in DOMAIN services'}
  BY <1>1, <1>2, <1>4, <1>5, <1>6, <1>7
<1>9. ASSUME NEW s \in DOMAIN services', s # k
      PROVE  /\ s \in DOMAIN services
             /\ OwnDevices(services'[s]) \subseteq devices
             /\ OwnDevices(services'[s]) \cap stranded = {}
  BY <1>4, <1>6, <1>7, <1>9
<1>10. ASSUME NEW s \in DOMAIN services' PROVE OwnDevices(services'[s]) \cap stranded' = {}
  <2>1. CASE s = k
    BY <1>1, <1>2, <1>5, <1>7, <2>1
  <2>2. CASE s # k
    BY <1>1, <1>2, <1>9, <2>2
  <2> QED BY <2>1, <2>2
<1>11. ASSUME NEW s \in DOMAIN services', NEW t \in DOMAIN services', s # t
      PROVE  OwnDevices(services'[s]) \cap OwnDevices(services'[t]) = {}
  <2>1. CASE s # k /\ t # k
    BY <1>1, <1>4, <1>6, <1>11, <2>1 DEF DevicesOwned
  <2>2. CASE s = k
    BY <1>1, <1>5, <1>9, <1>11, <2>2
  <2>3. CASE t = k
    BY <1>1, <1>5, <1>9, <1>11, <2>3
  <2> QED BY <2>1, <2>2, <2>3
<1> QED BY <1>8, <1>10, <1>11 DEF DevicesOwned

LEMMA AbandonDevices ==
  ASSUME NEW k, NEW vlanId, NEW macvlan, NEW made, GivesUp(k, vlanId, macvlan, made),
         Abandon(k, vlanId, macvlan, made), RegistryTypeOK, DevicesOwned
  PROVE  DevicesOwned'
<1>1. PICK stays \in SUBSET made :
        devices' = devices \cup stays /\ stranded' = stranded \cup stays
  BY GivesUpTypes DEF Abandon
<1>2. up /\ services' = services /\ made \cap devices = {}
  BY DEF GivesUp, Abandon
<1>3. /\ devices = stranded \cup UNION {OwnDevices(services[s]) : s \in DOMAIN services}
      /\ \A s \in DOMAIN services : OwnDevices(services[s]) \cap stranded = {}
      /\ \A s, t \in DOMAIN services :
           s # t => OwnDevices(services[s]) \cap OwnDevices(services[t]) = {}
  BY <1>2 DEF DevicesOwned
<1>4. \A s \in DOMAIN services : OwnDevices(services[s]) \subseteq devices
  BY <1>3
<1>5. \A s \in DOMAIN services : OwnDevices(services[s]) \cap stranded' = {}
  BY <1>1, <1>2, <1>3, <1>4
<1>6. devices' = stranded' \cup UNION {OwnDevices(services[s]) : s \in DOMAIN services}
  BY <1>1, <1>3
<1> QED BY <1>2, <1>3, <1>5, <1>6 DEF DevicesOwned

LEMMA RemoveDevices ==
  ASSUME NEW k, removeService(k), up, DevicesOwned
  PROVE  DevicesOwned'
<1>1. /\ k \in DOMAIN services
      /\ DOMAIN services' = DOMAIN services \ {k}
      /\ \A s \in DOMAIN services' : services'[s] = services[s]
  BY RemovedServices
<1>2. PICK stays \in SUBSET OwnDevices(services[k]) :
        /\ devices' = devices \ (OwnDevices(services[k]) \ stays)
        /\ stranded' = stranded \cup stays
  BY DEF removeService, Refusable, Deleted
<1>3. /\ devices = stranded \cup UNION {OwnDevices(services[s]) : s \in DOMAIN services}
      /\ \A s \in DOMAIN services : OwnDevices(services[s]) \cap stranded = {}
      /\ \A s, t \in DOMAIN services :
           s # t => OwnDevices(services[s]) \cap OwnDevices(services[t]) = {}
  BY DEF DevicesOwned
<1>4. \A s \in DOMAIN services' : OwnDevices(services'[s]) = OwnDevices(services[s]) /\ s # k
  BY <1>1
<1>5. devices' = stranded' \cup UNION {OwnDevices(services'[s]) : s \in DOMAIN services'}
  BY <1>1, <1>2, <1>3, <1>4
<1>6. \A s \in DOMAIN services' : OwnDevices(services'[s]) \cap stranded' = {}
  BY <1>1, <1>2, <1>3, <1>4
<1> QED BY <1>1, <1>3, <1>4, <1>5, <1>6 DEF DevicesOwned

-----------------------------------------------------------------------------
(* Listeners and callbacks                                                   *)

Attached ==
  /\ NothingDangles
  /\ \A k \in DOMAIN services : Listener(k, services[k].input) \in listeners
  /\ \A i \in Interfaces : \A k \in callbacks[i] : k.interface = i

LEMMA ConstructAttached ==
  ASSUME NEW k, NEW vlanId, NEW macvlan, NEW vlan, NEW made,
         Fits(k, vlanId, macvlan, vlan, made), Construct(k, vlanId, macvlan, vlan, made),
         RegistryTypeOK, RegistryTypeOK', ServiceShape', DevicesOwned', Attached
  PROVE  Attached'
<1> DEFINE input == InputOf(k, vlanId, vlan)
<1>1. /\ DOMAIN services' = DOMAIN services \cup {k}
      /\ \A s \in DOMAIN services : s # k /\ services'[s] = services[s]
      /\ services'[k] = ServiceOf(k, vlanId, macvlan, vlan)
  BY ConstructedServices
<1>2. services'[k].input = input
  BY <1>1 DEF ServiceOf
<1>3. listeners' = Without(k, input) \cup {Listener(k, input)}
  BY DEF Construct, addEventListener, InputOf
<1> HIDE DEF input
<1>4. ASSUME NEW l \in listeners'
      PROVE  l.service \in DOMAIN services' /\ l.device = services'[l.service].input
  <2>1. CASE l \in listeners
    BY <1>1, <2>1 DEF Attached, NothingDangles
  <2>2. CASE l = Listener(k, input)
    BY <1>1, <1>2, <2>2 DEF Listener
  <2> QED BY <1>3, <2>1, <2>2 DEF Without
<1>5. ASSUME NEW s \in DOMAIN services' PROVE Listener(s, services'[s].input) \in listeners'
  <2>1. CASE s = k
    BY <1>2, <1>3, <2>1
  <2>2. CASE s # k
    <3>1. s \in DOMAIN services /\ services'[s] = services[s]
      BY <1>1, <2>2
    <3>2. Listener(s, services[s].input) \in listeners
      BY <3>1 DEF Attached
    <3>3. s \in Keys /\ k \in Keys
      BY <1>1, <3>1 DEF RegistryTypeOK
    <3>4. Shape(s, services'[s]) /\ Shape(k, services'[k])
      BY <1>1 DEF ServiceShape
    <3>5. OwnDevices(services'[s]) \cap OwnDevices(services'[k]) = {}
      BY <1>1, <2>2, ZenonT(40) DEF DevicesOwned, Construct, Fits
    <3>6. ~(s.family = k.family /\ s.vrid = k.vrid /\ services'[s].input = services'[k].input)
      BY <2>2, <3>3, <3>4, <3>5, ListenApart
    <3>7. Listener(s, services[s].input) \in Without(k, input)
      BY <1>2, <3>1, <3>2, <3>6 DEF Without, Listener
    <3> QED BY <1>3, <3>1, <3>7
  <2> QED BY <2>1, <2>2
<1>6. ASSUME NEW i \in Interfaces
      PROVE  /\ callbacks'[i] \subseteq DOMAIN services'
             /\ \A s \in callbacks'[i] : s.interface = i
  <2>1. callbacks'[i] = callbacks[i] \/ (i = k.interface /\ callbacks'[i] = callbacks[i] \cup {k})
    BY DEF Construct, addInterfaceMonitor, RegistryTypeOK
  <2>2. /\ callbacks[i] \subseteq DOMAIN services
        /\ \A s \in callbacks[i] : s.interface = i
    BY DEF Attached, NothingDangles
  <2> QED BY <1>1, <2>1, <2>2
<1> QED BY <1>4, <1>5, <1>6 DEF Attached, NothingDangles

LEMMA AbandonAttached ==
  ASSUME NEW k, NEW vlanId, NEW macvlan, NEW made, GivesUp(k, vlanId, macvlan, made),
         Abandon(k, vlanId, macvlan, made), RegistryTypeOK, ServiceShape, Attached
  PROVE  Attached'
<1> k \in Keys /\ k \notin DOMAIN services
  BY GivesUpTypes DEF GivesUp
<1>1. services' = services /\ listeners' = Without(k, Eth(k.interface))
  BY DEF Abandon, removeEventListener
<1>2. callbacks' = [callbacks EXCEPT ![k.interface] = @ \ {k}]
  BY DEF Abandon, removeInterfaceMonitor
<1>3. ASSUME NEW s \in DOMAIN services PROVE Listener(s, services[s].input) \in listeners'
  <2>1. s \in Keys /\ Shape(s, services[s]) /\ s # k
    BY DEF RegistryTypeOK, ServiceShape
  <2>2. services[s].input = Eth(k.interface) => s.interface = k.interface
    BY <2>1, EthNames, EthIsNotVirtual DEF Shape
  <2>3. ~(s.family = k.family /\ s.vrid = k.vrid /\ services[s].input = Eth(k.interface))
    BY <2>1, <2>2, KeyParts
  <2>4. Listener(s, services[s].input) \in listeners
    BY DEF Attached
  <2> QED BY <1>1, <2>3, <2>4 DEF Without, Listener
<1>4. \A i \in Interfaces : callbacks'[i] \subseteq callbacks[i]
  BY <1>2 DEF RegistryTypeOK
<1>5. listeners' \subseteq listeners
  BY <1>1 DEF Without
<1> QED BY <1>1, <1>3, <1>4, <1>5 DEF Attached, NothingDangles

LEMMA RemoveAttached ==
  ASSUME NEW k, removeService(k), up, RegistryTypeOK, ServiceShape, DevicesOwned, Attached
  PROVE  Attached'
<1>1. /\ k \in DOMAIN services
      /\ DOMAIN services' = DOMAIN services \ {k}
      /\ \A s \in DOMAIN services' : services'[s] = services[s]
  BY RemovedServices
<1>2. listeners' = Without(k, services[k].input)
  BY DEF removeService, removeEventListener
<1>3. callbacks' = [callbacks EXCEPT ![k.interface] = @ \ {k}] /\ k.interface \in Interfaces
  BY <1>1 DEF removeService, removeInterfaceMonitor, RegistryTypeOK, Interfaces
<1>4. ASSUME NEW l \in listeners'
      PROVE  l.service \in DOMAIN services' /\ l.device = services'[l.service].input
  <2>1. l \in listeners /\ <<l.family, l.device, l.vrid>> # <<k.family, services[k].input, k.vrid>>
    BY <1>2 DEF Without
  <2>2. l.service \in DOMAIN services /\ l.device = services[l.service].input
    BY <2>1 DEF Attached, NothingDangles
  <2>3. l.family = l.service.family /\ l.vrid = l.service.vrid
    BY <2>1 DEF RegistryTypeOK, Listener
  <2>4. l.service # k
    BY <2>1, <2>2, <2>3
  <2> QED BY <1>1, <2>2, <2>4
<1>5. ASSUME NEW s \in DOMAIN services' PROVE Listener(s, services'[s].input) \in listeners'
  <2>1. s \in DOMAIN services /\ services'[s] = services[s] /\ s # k
    BY <1>1
  <2>2. Listener(s, services[s].input) \in listeners
    BY <2>1 DEF Attached
  <2>3. s \in Keys /\ k \in Keys
    BY <1>1, <2>1 DEF RegistryTypeOK
  <2>4. Shape(s, services[s]) /\ Shape(k, services[k])
    BY <1>1, <2>1 DEF ServiceShape
  <2>5. OwnDevices(services[s]) \cap OwnDevices(services[k]) = {}
    BY <1>1, <2>1 DEF DevicesOwned
  <2>6. ~(s.family = k.family /\ s.vrid = k.vrid /\ services[s].input = services[k].input)
    BY <2>1, <2>3, <2>4, <2>5, ListenApart
  <2>7. Listener(s, services[s].input) \in Without(k, services[k].input)
    BY <2>2, <2>6 DEF Without, Listener
  <2> QED BY <1>2, <2>1, <2>7
<1>6. ASSUME NEW i \in Interfaces
      PROVE  /\ callbacks'[i] \subseteq DOMAIN services'
             /\ \A s \in callbacks'[i] : s.interface = i
  <2> callbacks \in [Interfaces -> SUBSET Keys]
    BY DEF RegistryTypeOK
  <2>1. callbacks'[i] = IF i = k.interface THEN callbacks[i] \ {k} ELSE callbacks[i]
    BY <1>3
  <2>2. /\ callbacks[i] \subseteq DOMAIN services
        /\ \A s \in callbacks[i] : s.interface = i
    BY DEF Attached, NothingDangles
  <2> QED BY <1>1, <2>1, <2>2
<1> QED BY <1>4, <1>5, <1>6 DEF Attached, NothingDangles

-----------------------------------------------------------------------------
(* Hearing                                                                   *)

\* While nothing is refused every service is told of its link.
Heard ==
  faults = {} =>
    /\ \A k \in DOMAIN services : k \in callbacks[k.interface]
    /\ netlink # "broken"
    /\ DOMAIN services # {} => netlink = "open"

LEMMA ConstructHeard ==
  ASSUME NEW k, NEW vlanId, NEW macvlan, NEW vlan, NEW made,
         Fits(k, vlanId, macvlan, vlan, made), Construct(k, vlanId, macvlan, vlan, made),
         RegistryTypeOK, Heard
  PROVE  Heard'
<1> SUFFICES ASSUME faults' = {}
             PROVE  /\ \A s \in DOMAIN services' : s \in callbacks'[s.interface]
                    /\ netlink' = "open"
  BY DEF Heard
<1>1. /\ DOMAIN services' = DOMAIN services \cup {k}
      /\ k \in Keys /\ k.interface \in Interfaces
  BY ConstructedServices, FitsTypes
<1>2. PICK joins \in BOOLEAN, connects \in BOOLEAN :
        /\ addInterfaceMonitor(k, connects)
        /\ faults' = Reasons(Wanted(k, vlanId) \ {macvlan, vlan}) \cup (IF joins /\ connects THEN {} ELSE {"denied"})
  BY DEF Construct
<1>3. connects /\ faults = {}
  <2>1. Reasons(Wanted(k, vlanId) \ {macvlan, vlan}) = {} /\ connects
    BY <1>2
  <2> QED BY <2>1 DEF Reasons
<1>4. /\ \A s \in DOMAIN services : s \in callbacks[s.interface] /\ s.interface \in Interfaces
      /\ netlink \in {"closed", "open"}
      /\ callbacks \in [Interfaces -> SUBSET Keys]
  BY <1>3 DEF Heard, RegistryTypeOK, Interfaces
<1>5. callbacks' = [callbacks EXCEPT ![k.interface] = callbacks[k.interface] \cup {k}]
  BY <1>2, <1>3 DEF addInterfaceMonitor
<1>6. netlink' = "open"
  BY <1>2, <1>3, <1>4 DEF addInterfaceMonitor
<1> QED BY <1>1, <1>4, <1>5, <1>6

LEMMA AbandonHeard ==
  ASSUME NEW k, NEW vlanId, NEW macvlan, NEW made, GivesUp(k, vlanId, macvlan, made),
         Abandon(k, vlanId, macvlan, made)
  PROVE  Heard'
<1>1. faults' # {}
  BY GivesUpTypes DEF Abandon, Reasons
<1> QED BY <1>1 DEF Heard

LEMMA RemoveHeard ==
  ASSUME NEW k, removeService(k), RegistryTypeOK, Heard
  PROVE  Heard'
<1> SUFFICES ASSUME faults' = {}
             PROVE  /\ \A s \in DOMAIN services' : s \in callbacks'[s.interface]
                    /\ netlink' # "broken"
                    /\ DOMAIN services' # {} => netlink' = "open"
  BY DEF Heard
<1> DEFINE left == [callbacks EXCEPT ![k.interface] = callbacks[k.interface] \ {k}]
<1>1. /\ k \in DOMAIN services
      /\ DOMAIN services' = DOMAIN services \ {k}
  BY RemovedServices
<1>2. faults = {}
  BY DEF removeService
<1>3. /\ \A s \in DOMAIN services : s \in callbacks[s.interface] /\ s.interface \in Interfaces
      /\ netlink = "open"
      /\ callbacks \in [Interfaces -> SUBSET Keys]
  BY <1>1, <1>2 DEF Heard, RegistryTypeOK, Interfaces
<1>4. callbacks' = left
  BY DEF removeService, removeInterfaceMonitor
<1>5. netlink' = IF Closes(k.interface, left) THEN "closed" ELSE "open"
  BY <1>1, <1>3 DEF removeService, removeInterfaceMonitor
<1>6. \A s \in DOMAIN services' : s \in left[s.interface]
  BY <1>1, <1>3
<1>7. DOMAIN services' # {} => ~Closes(k.interface, left)
  BY <1>1, <1>3, <1>6 DEF Closes
<1> QED BY <1>4, <1>5, <1>6, <1>7

-----------------------------------------------------------------------------
(* Memberships                                                               *)

Listening(family, device) ==
  {k \in DOMAIN services : k.family = family /\ services[k].input = device}

Counted ==
  /\ IsFiniteSet(DOMAIN services)
  /\ faults = {} =>
       \A f \in Families, d \in Devices : members[f][d] = Cardinality(Listening(f, d))

LEMMA CountedIsMembersCounted == Counted => MembersCounted
BY DEF Counted, MembersCounted, Listening

LEMMA ListeningIsFinite ==
  ASSUME IsFiniteSet(DOMAIN services), NEW f, NEW d
  PROVE  IsFiniteSet(Listening(f, d)) /\ Cardinality(Listening(f, d)) \in Nat
<1>1. Listening(f, d) \in SUBSET DOMAIN services
  BY DEF Listening
<1>2. IsFiniteSet(Listening(f, d))
  BY <1>1, FS_Subset
<1> QED BY <1>2, FS_CardinalityType

LEMMA ConstructCounted ==
  ASSUME NEW k, NEW vlanId, NEW macvlan, NEW vlan, NEW made,
         Fits(k, vlanId, macvlan, vlan, made), Construct(k, vlanId, macvlan, vlan, made),
         RegistryTypeOK, Counted
  PROVE  Counted'
<1> DEFINE input == InputOf(k, vlanId, vlan)
<1>1. /\ DOMAIN services' = DOMAIN services \cup {k}
      /\ \A s \in DOMAIN services : s # k /\ services'[s] = services[s]
      /\ services'[k] = ServiceOf(k, vlanId, macvlan, vlan)
  BY ConstructedServices
<1>2. IsFiniteSet(DOMAIN services) /\ IsFiniteSet(DOMAIN services')
  BY <1>1, FS_AddElement DEF Counted
<1>3. services'[k].input = input
  BY <1>1 DEF ServiceOf
<1>4. ASSUME faults' = {}, NEW f \in Families, NEW d \in Devices
      PROVE  members'[f][d] = Cardinality(Listening(f, d)')
  <2>1. PICK joins \in BOOLEAN, connects \in BOOLEAN :
          /\ members' = addInterface(k, input, joins)
          /\ faults' = Reasons(Wanted(k, vlanId) \ {macvlan, vlan}) \cup (IF joins /\ connects THEN {} ELSE {"denied"})
    BY DEF Construct, InputOf, Answers
  <2>2. joins /\ faults = {}
    <3>1. Reasons(Wanted(k, vlanId) \ {macvlan, vlan}) = {} /\ joins
      BY <1>4, <2>1
    <3> QED BY <3>1 DEF Reasons
  <2>3. members[f][d] = Cardinality(Listening(f, d))
    BY <2>2 DEF Counted
  <2>4. k.family \in Families /\ input \in Devices
    BY FitsTypes
  <2> HIDE DEF input
  <2>5. members' = [members EXCEPT ![k.family][input] = members[k.family][input] + 1]
    BY <2>1, <2>2 DEF addInterface
  <2>6. CASE f = k.family /\ d = input
    <3>1. Listening(f, d)' = Listening(f, d) \cup {k} /\ k \notin Listening(f, d)
      BY <1>1, <1>3, <2>6 DEF Listening
    <3>2. Cardinality(Listening(f, d)') = Cardinality(Listening(f, d)) + 1
      BY <1>2, <3>1, ListeningIsFinite, FS_AddElement
    <3>3. members'[f][d] = members[f][d] + 1
      BY <2>4, <2>5, <2>6 DEF RegistryTypeOK
    <3> QED BY <2>3, <3>2, <3>3
  <2>7. CASE ~(f = k.family /\ d = input)
    <3>1. Listening(f, d)' = Listening(f, d)
      BY <1>1, <1>3, <2>7 DEF Listening
    <3>2. members'[f][d] = members[f][d]
      BY <2>4, <2>5, <2>7 DEF RegistryTypeOK
    <3> QED BY <2>3, <3>1, <3>2
  <2> QED BY <2>6, <2>7
<1> QED BY <1>2, <1>4 DEF Counted

LEMMA AbandonCounted ==
  ASSUME NEW k, NEW vlanId, NEW macvlan, NEW made, GivesUp(k, vlanId, macvlan, made),
         Abandon(k, vlanId, macvlan, made), Counted
  PROVE  Counted'
<1>1. faults' # {} /\ services' = services
  BY GivesUpTypes DEF Abandon, Reasons
<1> QED BY <1>1 DEF Counted

LEMMA RemoveCounted ==
  ASSUME NEW k, removeService(k), RegistryTypeOK, Counted
  PROVE  Counted'
<1> DEFINE input == services[k].input
<1>1. /\ k \in DOMAIN services
      /\ DOMAIN services' = DOMAIN services \ {k}
      /\ \A s \in DOMAIN services' : services'[s] = services[s]
  BY RemovedServices
<1>2. IsFiniteSet(DOMAIN services) /\ IsFiniteSet(DOMAIN services')
  BY <1>1, FS_RemoveElement DEF Counted
<1>3. k.family \in Families /\ input \in Devices
  BY <1>1 DEF RegistryTypeOK, Families, Services
<1> HIDE DEF input
<1>4. ASSUME faults' = {}, NEW f \in Families, NEW d \in Devices
      PROVE  members'[f][d] = Cardinality(Listening(f, d)')
  <2>1. faults = {} /\ members' = removeInterface(k, input)
    BY <1>4 DEF removeService, input
  <2>2. \A g \in Families, e \in Devices : members[g][e] = Cardinality(Listening(g, e))
    BY <2>1 DEF Counted
  <2>3. k \in Listening(k.family, input)
    BY <1>1 DEF Listening, input
  <2>4. members[k.family][input] # 0
    <3>1. Cardinality(Listening(k.family, input)) # 0
      BY <1>2, <2>3, ListeningIsFinite, FS_EmptySet
    <3> QED BY <1>3, <2>2, <3>1
  <2>5. members' = [members EXCEPT ![k.family][input] = members[k.family][input] - 1]
    BY <2>1, <2>4 DEF removeInterface
  <2>6. CASE f = k.family /\ d = input
    <3>1. Listening(f, d)' = Listening(f, d) \ {k} /\ k \in Listening(f, d)
      BY <1>1, <2>3, <2>6 DEF Listening
    <3>2. Cardinality(Listening(f, d)') = Cardinality(Listening(f, d)) - 1
      BY <1>2, <3>1, ListeningIsFinite, FS_RemoveElement
    <3>3. members'[f][d] = members[f][d] - 1
      BY <1>3, <2>5, <2>6 DEF RegistryTypeOK
    <3> QED BY <2>2, <3>2, <3>3
  <2>7. CASE ~(f = k.family /\ d = input)
    <3>1. Listening(f, d)' = Listening(f, d)
      BY <1>1, <2>7 DEF Listening, input
    <3>2. members'[f][d] = members[f][d]
      BY <1>3, <2>5, <2>7 DEF RegistryTypeOK
    <3> QED BY <2>2, <3>1, <3>2
  <2> QED BY <2>6, <2>7
<1> QED BY <1>2, <1>4 DEF Counted

-----------------------------------------------------------------------------
(* The end of a daemon, and the outcomes of getService                       *)

LEMMA ForgetTables ==
  ASSUME Forget
  PROVE  /\ ServiceShape' /\ Asleep' /\ DevicesOwned'
         /\ Attached' /\ Heard' /\ Counted'
<1>1. DOMAIN services' = {} /\ pending' = {}
  BY ForgottenServices
<1>2. /\ ~up' /\ listeners' = {} /\ netlink' = "closed"
      /\ members' = [f \in Families |-> [d \in Devices |-> 0]]
      /\ callbacks' = [i \in Interfaces |-> {}]
  BY DEF Forget
<1>3. ServiceShape' /\ Asleep' /\ DevicesOwned'
  BY <1>1, <1>2 DEF ServiceShape, Asleep, DevicesOwned
<1>4. Attached'
  BY <1>1, <1>2 DEF Attached, NothingDangles
<1>5. Heard'
  BY <1>1, <1>2 DEF Heard
<1>6. Counted'
  <2>1. \A f, d : Listening(f, d)' = {}
    BY <1>1 DEF Listening
  <2>2. IsFiniteSet(DOMAIN services') /\ Cardinality({}) = 0
    BY <1>1, FS_EmptySet
  <2> QED BY <1>2, <2>1, <2>2 DEF Counted
<1> QED BY <1>3, <1>4, <1>5, <1>6

\* getService finds the router, cannot open its socket, constructs it, gives it up for want
\* of its VLAN, or the daemon dies.
LEMMA GetServiceOutcomes ==
  ASSUME NEW k, NEW vlanId, NEW rest, up, [key |-> k, vlanId |-> vlanId] \in Entries,
         RegistryTypeOK, getService(k, vlanId, rest)
  PROVE  \/ /\ k \in DOMAIN services /\ pending' = rest
            /\ UNCHANGED <<up, file, memory, kernel, faults>>
         \/ k \notin DOMAIN services /\ GoWithout(k) /\ pending' = rest
         \/ \E macvlan, vlan, made :
              /\ Fits(k, vlanId, macvlan, vlan, made)
              /\ Construct(k, vlanId, macvlan, vlan, made)
              /\ pending' = rest
         \/ \E macvlan, made :
              /\ GivesUp(k, vlanId, macvlan, made)
              /\ Abandon(k, vlanId, macvlan, made)
              /\ pending' = rest
         \/ \E made \in SUBSET VirtualDevices : Dies(made)
<1>1. CASE k \in DOMAIN services
  BY <1>1 DEF getService
<1>2. CASE k \notin DOMAIN services /\ GoWithout(k) /\ pending' = rest
  BY <1>2
<1>3. ASSUME k \notin DOMAIN services,
             NEW made \in SUBSET (Wanted(k, vlanId) \ devices), NEW known \in SUBSET made
      PROVE  LET Known(d) == IF d \in known THEN d ELSE NoDevice
                 macvlan  == Known(MacvlanOf(k))
                 vlan     == Known(VlanOf(k, vlanId))
             IN /\ (vlanId # 0 => vlan # NoDevice)
                     => Fits(k, vlanId, macvlan, vlan, made)
                /\ vlanId # 0 => GivesUp(k, vlanId, macvlan, made)
  <2> DEFINE Known(d) == IF d \in known THEN d ELSE NoDevice
             macvlan  == Known(MacvlanOf(k))
             vlan     == Known(VlanOf(k, vlanId))
  <2>1. vlanId = 0 => vlan = NoDevice
    BY <1>3, MacvlanNames DEF Wanted
  <2>2. {macvlan, vlan} \ {NoDevice} \subseteq made
    BY <1>3
  <2>3. (vlanId # 0 => vlan # NoDevice) => Fits(k, vlanId, macvlan, vlan, made)
    BY <1>3, <2>1, <2>2 DEF Fits
  <2>4. vlanId # 0 => GivesUp(k, vlanId, macvlan, made)
    BY <1>3 DEF GivesUp
  <2> QED BY <2>3, <2>4
<1>4. \A made \in SUBSET (Wanted(k, vlanId) \ devices) : made \in SUBSET VirtualDevices
  <2>1. [key |-> k, vlanId |-> vlanId].key = k /\ [key |-> k, vlanId |-> vlanId].vlanId = vlanId
    OBVIOUS
  <2>2. MacvlanOf(k) \in VirtualDevices /\ (vlanId # 0 => VlanOf(k, vlanId) \in VirtualDevices)
    BY <2>1 DEF VirtualDevices, Keys
  <2> QED BY <2>2 DEF Wanted
<1>5. CASE k \notin DOMAIN services /\ ~(GoWithout(k) /\ pending' = rest)
  <2>1. CASE \E made \in SUBSET (Wanted(k, vlanId) \ devices) : Dies(made)
    BY <1>4, <2>1
  <2>2. CASE ~\E made \in SUBSET (Wanted(k, vlanId) \ devices) : Dies(made)
    <3>0. PICK made \in SUBSET (Wanted(k, vlanId) \ devices) : \E known \in SUBSET made :
            LET Known(d) == IF d \in known THEN d ELSE NoDevice
                macvlan  == Known(MacvlanOf(k))
                vlan     == Known(VlanOf(k, vlanId))
            IN \/ /\ vlanId # 0 => vlan # NoDevice
                  /\ Construct(k, vlanId, macvlan, vlan, made)
                  /\ pending' = rest
               \/ /\ vlanId # 0 /\ vlan = NoDevice
                  /\ Abandon(k, vlanId, macvlan, made)
                  /\ pending' = rest
      BY <1>5, <2>2 DEF getService
    <3>1. PICK known \in SUBSET made :
            LET Known(d) == IF d \in known THEN d ELSE NoDevice
                macvlan  == Known(MacvlanOf(k))
                vlan     == Known(VlanOf(k, vlanId))
            IN \/ /\ vlanId # 0 => vlan # NoDevice
                  /\ Construct(k, vlanId, macvlan, vlan, made)
                  /\ pending' = rest
               \/ /\ vlanId # 0 /\ vlan = NoDevice
                  /\ Abandon(k, vlanId, macvlan, made)
                  /\ pending' = rest
      BY <3>0
    <3> DEFINE Known(d) == IF d \in known THEN d ELSE NoDevice
               macvlan  == Known(MacvlanOf(k))
               vlan     == Known(VlanOf(k, vlanId))
    <3>2. /\ (vlanId # 0 => vlan # NoDevice) => Fits(k, vlanId, macvlan, vlan, made)
          /\ vlanId # 0 => GivesUp(k, vlanId, macvlan, made)
      BY <1>3, <1>5
    <3>3. \/ /\ vlanId # 0 => vlan # NoDevice
             /\ Construct(k, vlanId, macvlan, vlan, made)
             /\ pending' = rest
          \/ /\ vlanId # 0 /\ vlan = NoDevice
             /\ Abandon(k, vlanId, macvlan, made)
             /\ pending' = rest
      BY <3>1
    <3> HIDE DEF macvlan, vlan
    <3> QED BY <3>2, <3>3
  <2> QED BY <2>1, <2>2
<1> QED BY <1>1, <1>2, <1>5

-----------------------------------------------------------------------------
(* The invariant *)

RegistryInvariant ==
  /\ RegistryTypeOK
  /\ ServiceShape
  /\ Asleep
  /\ DevicesOwned
  /\ Attached
  /\ Heard
  /\ Counted

LEMMA InitRegistry == Init => RegistryInvariant
<1> SUFFICES ASSUME Init PROVE RegistryInvariant
  OBVIOUS
<1>1. DOMAIN services = {} /\ ~up /\ pending = {}
  BY DEF Init
<1>2. RegistryTypeOK
  <2>1. /\ members \in [Families -> [Devices -> Nat]]
        /\ callbacks \in [Interfaces -> SUBSET Keys]
    BY DEF Init
  <2>2. /\ up \in BOOLEAN /\ pending = {} /\ file = {} /\ listeners = {}
        /\ netlink = "closed" /\ devices = {} /\ stranded = {} /\ sockets = {} /\ faults = {}
    BY DEF Init
  <2> QED BY <1>1, <2>1, <2>2 DEF RegistryTypeOK
<1>3. ServiceShape /\ Asleep /\ DevicesOwned
  BY <1>1 DEF ServiceShape, Asleep, DevicesOwned
<1>4. Attached /\ Heard
  BY <1>1 DEF Init, Attached, NothingDangles, Heard
<1>5. Counted
  <2>1. \A f, d : Listening(f, d) = {}
    BY <1>1 DEF Listening
  <2>2. IsFiniteSet(DOMAIN services) /\ Cardinality({}) = 0
    BY <1>1, FS_EmptySet
  <2> QED BY <2>1, <2>2 DEF Init, Counted
<1> QED BY <1>2, <1>3, <1>4, <1>5 DEF RegistryInvariant

\* A step that leaves the tables alone, and may be refused something.
LEMMA TablesUnchanged ==
  ASSUME RegistryInvariant, UNCHANGED <<memory, kernel>>, up' = up,
         faults \subseteq faults', faults' \subseteq {"taken", "denied"},
         pending' \in SUBSET Entries, file' \in SUBSET Entries, Asleep'
  PROVE  RegistryInvariant'
<1>1. RegistryTypeOK'
  BY DEF RegistryInvariant, RegistryTypeOK, memory, kernel
<1>2. ServiceShape' /\ DevicesOwned'
  BY DEF RegistryInvariant, ServiceShape, DevicesOwned, memory, kernel
<1>3. Attached' /\ Heard'
  BY DEF RegistryInvariant, Attached, NothingDangles, Heard, memory
<1>4. Counted'
  BY DEF RegistryInvariant, Counted, Listening, memory
<1> QED BY <1>1, <1>2, <1>3, <1>4 DEF RegistryInvariant

LEMMA ConfigurationIsOfEntries == ServiceShape => Configuration \subseteq Entries
BY DEF ServiceShape, Shape, Configuration

LEMMA GetServiceKeeps ==
  ASSUME NEW k, NEW vlanId, NEW rest \in SUBSET Entries, up,
         [key |-> k, vlanId |-> vlanId] \in Entries,
         RegistryInvariant, getService(k, vlanId, rest)
  PROVE  RegistryInvariant'
<1>1. /\ RegistryTypeOK /\ ServiceShape /\ Asleep /\ DevicesOwned
      /\ Attached /\ Heard /\ Counted
  BY DEF RegistryInvariant
<1>2. k \in Keys
  BY DEF Keys
<1>3. CASE pending' = rest /\ UNCHANGED <<up, file, memory, kernel, faults>>
  <2>1. /\ Asleep' /\ file' \in SUBSET Entries
        /\ faults' = faults /\ faults \subseteq {"taken", "denied"}
    BY <1>1, <1>3 DEF Asleep, RegistryTypeOK
  <2> QED BY <1>3, <2>1, TablesUnchanged
<1>4. CASE GoWithout(k) /\ pending' = rest
  <2>1. /\ Asleep' /\ file' \in SUBSET Entries
        /\ up' = up /\ UNCHANGED <<memory, kernel>>
        /\ faults \subseteq faults' /\ faults' \subseteq {"taken", "denied"}
    BY <1>1, <1>4 DEF GoWithout, Asleep, RegistryTypeOK
  <2> QED BY <1>4, <2>1, TablesUnchanged
<1>5. ASSUME NEW macvlan, NEW vlan, NEW made,
             Fits(k, vlanId, macvlan, vlan, made),
             Construct(k, vlanId, macvlan, vlan, made),
             pending' = rest
      PROVE  RegistryInvariant'
  <2>1. RegistryTypeOK'
    BY <1>1, <1>5, ConstructType
  <2>2. ServiceShape'
    BY <1>1, <1>5, ConstructShape
  <2>3. DevicesOwned'
    BY <1>1, <1>5, ConstructDevices
  <2>4. Attached'
    BY <1>1, <1>5, <2>1, <2>2, <2>3, ConstructAttached
  <2>5. Heard'
    BY <1>1, <1>5, ConstructHeard
  <2>6. Counted'
    BY <1>1, <1>5, ConstructCounted
  <2>7. Asleep'
    BY <1>5 DEF Construct, Asleep
  <2> QED BY <2>1, <2>2, <2>3, <2>4, <2>5, <2>6, <2>7 DEF RegistryInvariant
<1>6. ASSUME NEW macvlan, NEW made, GivesUp(k, vlanId, macvlan, made),
             Abandon(k, vlanId, macvlan, made), pending' = rest
      PROVE  RegistryInvariant'
  <2>1. RegistryTypeOK'
    BY <1>1, <1>6, AbandonType
  <2>2. ServiceShape'
    BY <1>1, <1>6 DEF Abandon, ServiceShape
  <2>3. DevicesOwned'
    BY <1>1, <1>6, AbandonDevices
  <2>4. Attached'
    BY <1>1, <1>6, AbandonAttached
  <2>5. Heard'
    BY <1>6, AbandonHeard
  <2>6. Counted'
    BY <1>1, <1>6, AbandonCounted
  <2>7. Asleep'
    BY <1>6 DEF Abandon, Asleep
  <2> QED BY <2>1, <2>2, <2>3, <2>4, <2>5, <2>6, <2>7 DEF RegistryInvariant
<1>7. ASSUME NEW made \in SUBSET VirtualDevices, Dies(made)
      PROVE  RegistryInvariant'
  <2>1. Forget /\ devices' = devices \cup made /\ file' = file
    BY <1>7 DEF Dies
  <2>2. RegistryTypeOK'
    BY <1>1, <2>1, ForgetType DEF RegistryTypeOK
  <2> QED BY <2>1, <2>2, ForgetTables DEF RegistryInvariant
<1> QED BY <1>1, <1>3, <1>4, <1>5, <1>6, <1>7, GetServiceOutcomes

LEMMA StepRegistry == RegistryInvariant /\ [Next]_vars => RegistryInvariant'
<1> SUFFICES ASSUME RegistryInvariant, [Next]_vars PROVE RegistryInvariant'
  OBVIOUS
<1>1. /\ RegistryTypeOK /\ ServiceShape /\ Asleep /\ DevicesOwned
      /\ Attached /\ Heard /\ Counted
  BY DEF RegistryInvariant
<1>2. CASE Start
  <2>1. PICK stays \in SUBSET devices :
          /\ up' = TRUE /\ devices' = stays /\ stranded' = stays
          /\ pending' = file /\ file' = file /\ UNCHANGED memory /\ faults' = faults
    BY <1>2 DEF Start, removeVrrpInterfaces
  <2>2. DOMAIN services = {} /\ services' = services
    BY <1>1, <1>2, <2>1 DEF Start, Asleep, memory
  <2>3. RegistryTypeOK'
    BY <1>1, <2>1 DEF RegistryTypeOK, memory
  <2>4. ServiceShape' /\ Asleep' /\ DevicesOwned'
    BY <2>1, <2>2 DEF ServiceShape, Asleep, DevicesOwned
  <2>5. Attached' /\ Heard'
    BY <1>1, <2>1 DEF Attached, NothingDangles, Heard, memory
  <2>6. Counted'
    BY <1>1, <2>1 DEF Counted, Listening, memory
  <2> QED BY <2>3, <2>4, <2>5, <2>6 DEF RegistryInvariant
<1>3. CASE Restore
  <2>1. PICK e \in pending : getService(e.key, e.vlanId, pending \ {e})
    BY <1>3 DEF Restore
  <2>2. up /\ pending \subseteq Entries /\ e \in Entries
    BY <1>1, <1>3 DEF Restore, RegistryTypeOK
  <2>3. [key |-> e.key, vlanId |-> e.vlanId] \in Entries
    BY <2>2, EntryParts
  <2>4. pending \ {e} \in SUBSET Entries
    BY <2>2
  <2> QED BY <2>1, <2>2, <2>3, <2>4, GetServiceKeeps
<1>4. CASE Save
  <2>1. file' \in SUBSET Entries
    BY <1>1, <1>4, ConfigurationIsOfEntries DEF Save, Written
  <2>2. /\ UNCHANGED <<memory, kernel>> /\ up' = up /\ faults' = faults
        /\ faults \subseteq {"taken", "denied"}
        /\ pending' \in SUBSET Entries /\ Asleep'
    BY <1>1, <1>4 DEF Save, Asleep, RegistryTypeOK, memory
  <2> QED BY <2>1, <2>2, TablesUnchanged
<1>5. CASE Crash
  <2>1. file' \in SUBSET Entries
    BY <1>1, <1>5 DEF Crash, RegistryTypeOK
  <2>2. Forget /\ devices' \subseteq VirtualDevices
    BY <1>1, <1>5 DEF Crash, RegistryTypeOK
  <2>3. RegistryTypeOK'
    BY <1>1, <2>1, <2>2, ForgetType
  <2> QED BY <2>2, <2>3, ForgetTables DEF RegistryInvariant
<1>6. CASE Exit
  <2>1. Forget /\ devices' \subseteq VirtualDevices /\ file' \in SUBSET Entries
    BY <1>1, <1>6 DEF Exit, RegistryTypeOK
  <2>2. RegistryTypeOK'
    BY <1>1, <2>1, ForgetType
  <2> QED BY <2>1, <2>2, ForgetTables DEF RegistryInvariant
<1>7. ASSUME NEW e \in Entries, AddRouter(e.key, e.vlanId) PROVE RegistryInvariant'
  <2>1. up /\ getService(e.key, e.vlanId, {})
    BY <1>7 DEF AddRouter, Serving
  <2>2. [key |-> e.key, vlanId |-> e.vlanId] \in Entries
    BY EntryParts
  <2>3. {} \in SUBSET Entries
    OBVIOUS
  <2> QED BY <2>1, <2>2, <2>3, GetServiceKeeps
<1>8. ASSUME NEW k \in Keys, RemoveRouter(k) PROVE RegistryInvariant'
  <2>1. up /\ removeService(k)
    BY <1>8 DEF RemoveRouter, Serving
  <2>2. RegistryTypeOK' /\ ServiceShape'
    BY <1>1, <2>1, RemoveType, RemoveShape
  <2>3. DevicesOwned'
    BY <1>1, <2>1, RemoveDevices
  <2>4. Attached'
    BY <1>1, <2>1, RemoveAttached
  <2>5. Heard' /\ Counted'
    BY <1>1, <2>1, RemoveHeard, RemoveCounted
  <2>6. Asleep'
    BY <2>1 DEF removeService, Asleep
  <2> QED BY <2>2, <2>3, <2>4, <2>5, <2>6 DEF RegistryInvariant
<1>9. CASE UNCHANGED vars
  <2>1. /\ UNCHANGED <<memory, kernel>> /\ up' = up /\ faults' = faults
        /\ faults \subseteq {"taken", "denied"}
        /\ pending' \in SUBSET Entries /\ file' \in SUBSET Entries /\ Asleep'
    BY <1>1, <1>9 DEF vars, Asleep, RegistryTypeOK, memory
  <2> QED BY <2>1, TablesUnchanged
<1> QED BY <1>2, <1>3, <1>4, <1>5, <1>6, <1>7, <1>8, <1>9 DEF Next

THEOREM RegistryInvariantHolds == Spec => []RegistryInvariant
BY InitRegistry, StepRegistry, PTL DEF Spec

-----------------------------------------------------------------------------
(* What it says *)

\* Every table keeps to its type, and no membership count falls below zero.
THEOREM RegistryTypesHold == Spec => []RegistryTypeOK
<1>1. RegistryInvariant => RegistryTypeOK
  BY DEF RegistryInvariant
<1> QED BY <1>1, RegistryInvariantHolds, PTL

\* Nothing is handed to a service that was deleted.
THEOREM NoListenerDangles == Spec => []NothingDangles
<1>1. RegistryInvariant => NothingDangles
  BY DEF RegistryInvariant, Attached
<1> QED BY <1>1, RegistryInvariantHolds, PTL

\* The running daemon owns each virtual device through one service, but those that the
\* kernel refused to remove or to tell their index.
THEOREM DevicesAreOwned == Spec => []DevicesOwned
<1>1. RegistryInvariant => DevicesOwned
  BY DEF RegistryInvariant
<1> QED BY <1>1, RegistryInvariantHolds, PTL

\* Memberships are given back with the last service of a device.
THEOREM MembershipsAreCounted == Spec => []MembersCounted
<1>1. RegistryInvariant => MembersCounted
  BY CountedIsMembersCounted DEF RegistryInvariant
<1> QED BY <1>1, RegistryInvariantHolds, PTL

\* No removal silences another service.
THEOREM ServicesHear == Spec => []EveryoneHears
<1>1. ASSUME RegistryInvariant, NEW k \in DOMAIN services
      PROVE  /\ Listener(k, services[k].input) \in listeners
             /\ faults = {} =>
                  /\ members[k.family][services[k].input] > 0
                  /\ k \in callbacks[k.interface]
                  /\ netlink = "open"
  <2>1. Listener(k, services[k].input) \in listeners
    BY <1>1 DEF RegistryInvariant, Attached
  <2>2. faults = {} => k \in callbacks[k.interface] /\ netlink = "open"
    BY <1>1 DEF RegistryInvariant, Heard
  <2>3. k.family \in Families /\ services[k].input \in Devices
    BY <1>1 DEF RegistryInvariant, RegistryTypeOK, Services, Families
  <2>4. ASSUME faults = {} PROVE members[k.family][services[k].input] > 0
    <3> DEFINE heard == Listening(k.family, services[k].input)
    <3>1. /\ members[k.family][services[k].input] = Cardinality(heard)
          /\ IsFiniteSet(DOMAIN services)
      BY <1>1, <2>3, <2>4 DEF RegistryInvariant, Counted
    <3>2. k \in heard
      BY DEF Listening
    <3>3. IsFiniteSet(heard) /\ Cardinality(heard) \in Nat
      BY <3>1, ListeningIsFinite
    <3>4. Cardinality(heard) # 0
      BY <3>2, <3>3, FS_EmptySet
    <3> QED BY <3>1, <3>3, <3>4
  <2> QED BY <2>1, <2>2, <2>4
<1>2. RegistryInvariant => EveryoneHears
  BY <1>1 DEF EveryoneHears
<1> QED BY <1>2, RegistryInvariantHolds, PTL

-----------------------------------------------------------------------------
(* Restoring *)

\* A name that is taken, and not by a device left over, is that of a router of the same
\* family and id.
LEMMA TakenByItsOwn ==
  ASSUME RegistryInvariant, up, NEW k, NEW d \in devices \ stranded,
         d = MacvlanOf(k) \/ \E v : d = VlanOf(k, v)
  PROVE  \E l \in DOMAIN services : MacvlanOf(l) = MacvlanOf(k)
<1>1. PICK l \in DOMAIN services : d \in OwnDevices(services[l])
  BY DEF RegistryInvariant, DevicesOwned
<1>2. d = MacvlanOf(l) \/ \E v : d = VlanOf(l, v)
  BY <1>1 DEF OwnDevices, RegistryInvariant, ServiceShape, Shape
<1>3. l.family = k.family /\ l.vrid = k.vrid
  BY <1>2, MacvlanNames, VlanNames
<1> QED BY <1>3 DEF MacvlanOf

LEMMA GetServiceRestores ==
  ASSUME RegistryInvariant, up, NEW k, NEW v, [key |-> k, vlanId |-> v] \in Entries,
         NEW rest, getService(k, v, rest), up', "denied" \notin faults',
         MacvlanOf(k) \notin {MacvlanOf(l) : l \in DOMAIN services},
         Wanted(k, v) \cap stranded = {}
  PROVE  /\ k \in DOMAIN services'
         /\ services'[k].vlanId = v
         /\ services'[k].macvlan = MacvlanOf(k)
<1>1. RegistryTypeOK
  BY DEF RegistryInvariant
<1>2. Wanted(k, v) \cap devices = {}
  BY TakenByItsOwn DEF Wanted
<1>3. \A missing : missing \subseteq Wanted(k, v) /\ missing # {} => "denied" \in Reasons(missing)
  BY <1>2 DEF Reasons
<1>4. k \notin DOMAIN services
  OBVIOUS
<1>5. ASSUME NEW macvlan, NEW vlan, NEW made,
             Fits(k, v, macvlan, vlan, made), Construct(k, v, macvlan, vlan, made)
      PROVE  /\ k \in DOMAIN services'
             /\ services'[k].vlanId = v /\ services'[k].macvlan = MacvlanOf(k)
  <2>1. Reasons(Wanted(k, v) \ {macvlan, vlan}) \subseteq faults'
    BY <1>5 DEF Construct
  <2>2. Wanted(k, v) \ {macvlan, vlan} = {}
    BY <1>3, <2>1
  <2>3. macvlan = MacvlanOf(k)
    BY <1>5, <2>2, MacvlanNames DEF Fits, Wanted
  <2>4. k \in DOMAIN services' /\ services'[k] = ServiceOf(k, v, macvlan, vlan)
    BY <1>5, ConstructedServices
  <2> QED BY <2>3, <2>4 DEF ServiceOf
<1>6. ASSUME NEW macvlan, NEW made, GivesUp(k, v, macvlan, made), Abandon(k, v, macvlan, made)
      PROVE  FALSE
  <2>1. "denied" \in Reasons(Wanted(k, v) \ {macvlan})
    BY <1>3, <1>6, GivesUpTypes
  <2> QED BY <1>6, <2>1 DEF Abandon
<1>7. ASSUME NEW made, Dies(made) PROVE FALSE
  BY <1>7 DEF Dies, Forget
<1>8. ~GoWithout(k)
  BY DEF GoWithout
<1>9. \/ \E macvlan, vlan, made :
           Fits(k, v, macvlan, vlan, made) /\ Construct(k, v, macvlan, vlan, made)
      \/ \E macvlan, made : GivesUp(k, v, macvlan, made) /\ Abandon(k, v, macvlan, made)
      \/ \E made : Dies(made)
  BY <1>1, <1>4, <1>8, GetServiceOutcomes
<1> QED BY <1>5, <1>6, <1>7, <1>9

\* After a crash each router of the file comes back with the devices it had.
THEOREM RestartBringsBack == Spec => RestartRestores
<1>1. ASSUME RegistryInvariant, [Next]_vars, NEW e \in pending \ pending', up',
             "denied" \notin faults',
             MacvlanOf(e.key) \notin {MacvlanOf(k) : k \in DOMAIN services},
             Wanted(e.key, e.vlanId) \cap stranded = {}
      PROVE  /\ e.key \in DOMAIN services'
             /\ services'[e.key].vlanId = e.vlanId
             /\ services'[e.key].macvlan = MacvlanOf(e.key)
  <2>1. up /\ e \in Entries
    BY <1>1 DEF RegistryInvariant, Asleep, RegistryTypeOK
  <2>2. CASE Restore
    <3>1. PICK r \in pending : getService(r.key, r.vlanId, pending \ {r})
      BY <2>2 DEF Restore
    <3>2. [key |-> r.key, vlanId |-> r.vlanId] \in Entries /\ RegistryTypeOK
      BY <1>1, EntryParts, SMTT(40) DEF RegistryInvariant, RegistryTypeOK
    <3>3. pending' = pending \ {r} \/ \E made : Dies(made)
      BY <2>1, <3>1, <3>2, GetServiceOutcomes
    <3>4. pending' = pending \ {r}
      BY <1>1, <3>3 DEF Dies, Forget
    <3>5. e = r
      BY <1>1, <3>4
    <3> QED BY <1>1, <2>1, <3>1, <3>2, <3>5, GetServiceRestores
  <2>3. CASE ~Restore
    <3>1. pending = {} \/ pending' = pending \/ ~up'
      BY <1>1, <2>1, <2>3
         DEF Next, Start, Save, Crash, Exit, Forget, AddRouter, RemoveRouter, removeService,
             Serving, vars
    <3> QED BY <1>1, <3>1
  <2> QED BY <2>2, <2>3
<1>2. RegistryInvariant /\ [Next]_vars =>
        [\A e \in pending \ pending' :
           /\ up'
           /\ "denied" \notin faults'
           /\ MacvlanOf(e.key) \notin {MacvlanOf(k) : k \in DOMAIN services}
           /\ Wanted(e.key, e.vlanId) \cap stranded = {}
           =>
             /\ e.key \in DOMAIN services'
             /\ services'[e.key].vlanId = e.vlanId
             /\ services'[e.key].macvlan = MacvlanOf(e.key)]_vars
  BY <1>1
<1> QED BY <1>2, RegistryInvariantHolds, PTL DEF Spec, RestartRestores

=============================================================================
