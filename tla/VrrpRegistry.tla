---------------------------- MODULE VrrpRegistry ----------------------------
(***************************************************************************)
(* What the daemon registers for its routers and takes back: the services  *)
(* of VrrpManager, the multicast memberships and listeners of VrrpSocket,  *)
(* the callbacks of Netlink, and the virtual devices in the kernel, which  *)
(* outlive a daemon that is killed.  Routers come and go by command and    *)
(* through the configuration file, which a crash may leave cut short.      *)
(*                                                                         *)
(* The kernel may refuse to open a socket, to create a device, to tell the *)
(* index of one that it has created, to join a group and to remove a       *)
(* device.  Some of these refusals the daemon does not survive.            *)
(***************************************************************************)
EXTENDS Integers, FiniteSets

CONSTANTS
  Entries,  \* the routers an operator may ask for: records [key, vlanId] with a
            \* key [interface, vrid, family], and vlanId 0 for no VLAN
  Saved     \* bound: those of them that the configuration file may hold

Keys       == {e.key : e \in Entries}
Interfaces == {k.interface : k \in Keys}
Ids        == {k.vrid : k \in Keys}
Families   == {k.family : k \in Keys}

ASSUME RegistryAssumption ==
  /\ Entries \subseteq
       [key : [interface : Interfaces, vrid : Ids, family : Families], vlanId : 0..4095]
  /\ Saved \subseteq Entries

\* The names of virtual devices tell the family, "vrrp." or "vrrp6.", and the
\* router id, but not the interface.
Eth(i)          == <<"eth", i>>
MacvlanOf(k)    == <<"vrrp", k.family, k.vrid>>
VlanOf(k, vlan) == <<"vrrp", k.family, k.vrid, vlan>>

VirtualDevices ==
  {MacvlanOf(k) : k \in Keys}
    \cup {VlanOf(e.key, e.vlanId) : e \in {x \in Entries : x.vlanId # 0}}
Devices        == {Eth(i) : i \in Interfaces} \cup VirtualDevices

NoDevice == <<"none">>

Services == [macvlan : Devices \cup {NoDevice}, vlan : Devices \cup {NoDevice},
             input : Devices, vlanId : {e.vlanId : e \in Entries}]

VARIABLES
  up,         \* the daemon is running
  pending,    \* entries of the configuration that start-up has still to read
  file,       \* entries in the configuration file
  services,   \* VrrpManager::m_services, a function from some Keys
  members,    \* VrrpSocket::m_interfaceCount, 0 for a device not in it
  listeners,  \* VrrpSocket::m_listeners
  callbacks,  \* Netlink::callbacks
  netlink,    \* Netlink::sock: "closed", "open" and watched, or "broken"
  sockets,    \* the families that VrrpSocket has an instance for
  devices,    \* the virtual devices in the kernel
  stranded,   \* history: those of them that the kernel refused this daemon to remove,
              \* or to tell their index when they were made
  faults      \* history: why the kernel refused this daemon something a router needs

memory == <<services, members, listeners, callbacks, netlink, sockets>>
kernel == <<devices, stranded>>
vars   == <<up, pending, file, memory, kernel, faults>>

Listener(k, device) == [family |-> k.family, device |-> device, vrid |-> k.vrid, service |-> k]

-----------------------------------------------------------------------------
(* The tables *)

addInterface_NotCounted(k, device, joins) ==
  IF joins \/ members[k.family][device] > 0
  THEN [members EXCEPT ![k.family][device] = 1]
  ELSE members

\* The first router of a device joins the group; a failure is not looked at.
addInterface(k, device, joins) ==
  IF joins \/ members[k.family][device] > 0
  THEN [members EXCEPT ![k.family][device] = @ + 1]
  ELSE members

removeInterface_NotFound(k, device) == [members EXCEPT ![k.family][device] = @ - 1]

removeInterface(k, device) ==
  IF members[k.family][device] = 0
  THEN members
  ELSE [members EXCEPT ![k.family][device] = @ - 1]

Without(k, device) ==
  {l \in listeners : <<l.family, l.device, l.vrid>> # <<k.family, device, k.vrid>>}

addEventListener(k, device) == Without(k, device) \cup {Listener(k, device)}

removeEventListener_Leaves(k, device) == listeners
removeEventListener(k, device) == Without(k, device)

\* Only the first callback of an interface looks whether the socket is open.  If
\* it cannot be connected it stays, and is taken for open from then on.
addInterfaceMonitor(k, connects) ==
  IF callbacks[k.interface] = {} /\ netlink = "closed" /\ ~connects
  THEN netlink' = "broken" /\ UNCHANGED callbacks
  ELSE /\ callbacks' = [callbacks EXCEPT ![k.interface] = @ \cup {k}]
       /\ netlink' = IF netlink = "closed" THEN "open" ELSE netlink

Closes_Early(i, left) == left[i] = {}
Closes(i, left) == \A j \in Interfaces : left[j] = {}

removeInterfaceMonitor(k) ==
  LET left == [callbacks EXCEPT ![k.interface] = @ \ {k}]
  IN /\ callbacks' = left
     /\ netlink' = IF k \in callbacks[k.interface] /\ Closes(k.interface, left)
                   THEN "closed" ELSE netlink

-----------------------------------------------------------------------------
(* The life of a VrrpService *)

\* What the kernel may answer, where it is asked.
Answers(asked) == IF asked THEN BOOLEAN ELSE {TRUE}

\* The devices that a router asks for.
Wanted(k, vlanId) == {MacvlanOf(k)} \cup (IF vlanId = 0 THEN {} ELSE {VlanOf(k, vlanId)})

\* A name is taken by another router, or the request is denied.
Reasons(missing) == faults \cup {IF d \in devices THEN "taken" ELSE "denied" : d \in missing}

\* A constructed service, listening and registered.  A device that was made without its
\* index becoming known stays, and is not the service's.
Construct(k, vlanId, macvlan, vlan, made) ==
  LET input == IF vlanId = 0 THEN Eth(k.interface) ELSE vlan
      missing == Wanted(k, vlanId) \ {macvlan, vlan}
  IN /\ services' = [s \in DOMAIN services \cup {k} |->
                       IF s = k
                       THEN [macvlan |-> macvlan, vlan |-> vlan, input |-> input, vlanId |-> vlanId]
                       ELSE services[s]]
     /\ listeners' = addEventListener(k, input)
     /\ \E joins \in Answers(members[k.family][input] = 0),
           connects \in Answers(callbacks[k.interface] = {} /\ netlink = "closed") :
          /\ members' = addInterface(k, input, joins)
          /\ addInterfaceMonitor(k, connects)
          /\ faults' = Reasons(missing) \cup (IF joins /\ connects THEN {} ELSE {"denied"})
     /\ sockets' = sockets \cup {k.family}
     /\ devices' = devices \cup made
     /\ stranded' = stranded \cup (made \ {macvlan, vlan})
     /\ UNCHANGED <<up, file>>

\* What stays of the devices made: a VLAN goes with the macvlan that it is on.
Unwound(macvlan, made) == IF macvlan \in made THEN {{}, made} ELSE {made}

\* Without its VLAN the constructor returns early, and getService deletes what it
\* has got: the destructor takes back registrations that were never made.
Abandon(k, vlanId, macvlan, made) ==
  /\ members' = removeInterface(k, Eth(k.interface))
  /\ listeners' = removeEventListener(k, Eth(k.interface))
  /\ removeInterfaceMonitor(k)
  /\ faults' = Reasons(Wanted(k, vlanId) \ {macvlan})
  /\ sockets' = sockets \cup {k.family}
  /\ \E stays \in Unwound(macvlan, made) :
       /\ devices' = devices \cup stays
       /\ stranded' = stranded \cup stays
  /\ UNCHANGED <<up, file, services>>

\* Without a socket it returns before that, and there is nothing to take back.
GoWithout(k) ==
  /\ k.family \notin sockets
  /\ faults' = faults \cup {"denied"}
  /\ UNCHANGED <<up, file, memory, kernel>>

\* Memory is gone, sockets are closed by the kernel.
Forget ==
  /\ up' = FALSE
  /\ pending' = {}
  /\ services' = [s \in {} |-> NoDevice]
  /\ members' = [f \in Families |-> [d \in Devices |-> 0]]
  /\ listeners' = {}
  /\ callbacks' = [i \in Interfaces |-> {}]
  /\ netlink' = "closed"
  /\ sockets' = {}
  /\ stranded' = {}
  /\ faults' = {}

\* The daemon ends on the way, killed or by a refusal: getPrimaryIpAddress does not look
\* whether it got the addresses, and addInterface goes on with a socket it has freed (the
\* other outcome of which is -1).
Dies(made) == Forget /\ devices' = devices \cup made /\ UNCHANGED file

\* VrrpManager::getService with createIfMissing.  A router is known by its key,
\* not by its VLAN.
getService(k, vlanId, rest) ==
  IF k \in DOMAIN services
  THEN pending' = rest /\ UNCHANGED <<up, file, memory, kernel, faults>>
  ELSE \/ GoWithout(k) /\ pending' = rest
       \/ \E made \in SUBSET (Wanted(k, vlanId) \ devices) :
          \E known \in SUBSET made :
            LET Known(d) == IF d \in known THEN d ELSE NoDevice
                macvlan  == Known(MacvlanOf(k))
                vlan     == Known(VlanOf(k, vlanId))
            IN \/ /\ vlanId # 0 => vlan # NoDevice
                  /\ Construct(k, vlanId, macvlan, vlan, made)
                  /\ pending' = rest
               \/ /\ vlanId # 0 /\ vlan = NoDevice
                  /\ Abandon(k, vlanId, macvlan, made)
                  /\ pending' = rest
       \/ \E made \in SUBSET (Wanted(k, vlanId) \ devices) : Dies(made)

OwnDevices(service) == {service.macvlan, service.vlan} \ {NoDevice}

\* What the destructor asks the kernel to remove, and what it may refuse.
Deleted_Vlan(service) == {service.vlan} \ {NoDevice}
Deleted(service) == OwnDevices(service)

Refusable(service) ==
  {d \in SUBSET OwnDevices(service) : service.vlan \in d => service.macvlan \in d \cup {NoDevice}}

\* VrrpManager::removeService and the destructor.  (Netlink::removeInterface does not look
\* whether it got a socket: without one the daemon ends, a step of Crash after this one.)
removeService(k) ==
  /\ k \in DOMAIN services
  /\ services' = [s \in DOMAIN services \ {k} |-> services[s]]
  /\ removeInterfaceMonitor(k)
  /\ members' = removeInterface(k, services[k].input)
  /\ listeners' = removeEventListener(k, services[k].input)
  /\ \E stays \in Refusable(services[k]) :
       /\ devices' = devices \ (Deleted(services[k]) \ stays)
       /\ stranded' = stranded \cup stays
  /\ UNCHANGED <<up, pending, file, sockets, faults>>

-----------------------------------------------------------------------------
(* The daemon *)

Serving == up /\ pending = {}

removeVrrpInterfaces_IPv6(stays) == {d \in devices : d[2] # "inet6"} \cup stays
removeVrrpInterfaces(stays) == stays

\* Old devices stay where the kernel refuses to list or to remove them.
Start ==
  /\ ~up
  /\ up' = TRUE
  /\ \E stays \in SUBSET devices :
       /\ devices' = removeVrrpInterfaces(stays)
       /\ stranded' = stays
  /\ pending' = file
  /\ UNCHANGED <<file, memory, faults>>

\* readConfiguration, one entry at a time.
Restore ==
  /\ up
  /\ \E e \in pending : getService(e.key, e.vlanId, pending \ {e})

\* Telnet commands
AddRouter(k, vlanId) ==
  /\ Serving
  /\ getService(k, vlanId, {})

RemoveRouter(k) == Serving /\ removeService(k)

Configuration == {[key |-> k, vlanId |-> services[k].vlanId] : k \in DOMAIN services}

Written == SUBSET (Configuration \cap Saved)

\* The file is emptied and then written: what is cut short, by a full disk or by
\* a crash, is read as far as it goes.
Save ==
  /\ Serving
  /\ file' \in Written
  /\ UNCHANGED <<up, pending, memory, kernel, faults>>

\* (A crash that cuts a save short is that Save and this step.)
Crash ==
  /\ up
  /\ Forget
  /\ UNCHANGED <<devices, file>>

\* A signal ends the loop, and cleanup deletes every service.
Exit ==
  /\ Serving
  /\ Forget
  /\ \E stays \in SUBSET devices :
       /\ \A k \in DOMAIN services : stays \cap OwnDevices(services[k]) \in Refusable(services[k])
       /\ devices' = stays \cup (devices \ UNION {Deleted(services[k]) : k \in DOMAIN services})
  /\ UNCHANGED file

Init ==
  /\ up = FALSE
  /\ pending = {}
  /\ file = {}
  /\ services = [s \in {} |-> NoDevice]
  /\ members = [f \in Families |-> [d \in Devices |-> 0]]
  /\ listeners = {}
  /\ callbacks = [i \in Interfaces |-> {}]
  /\ netlink = "closed"
  /\ sockets = {}
  /\ devices = {}
  /\ stranded = {}
  /\ faults = {}

Next ==
  \/ Start \/ Restore \/ Save \/ Crash \/ Exit
  \/ \E e \in Entries : AddRouter(e.key, e.vlanId)
  \/ \E k \in Keys : RemoveRouter(k)

Spec == Init /\ [][Next]_vars

-----------------------------------------------------------------------------
(* Properties *)

\* Every table keeps to its type; no count falls below zero.
RegistryTypeOK ==
  /\ up \in BOOLEAN
  /\ pending \in SUBSET Entries
  /\ file \in SUBSET Entries
  /\ DOMAIN services \subseteq Keys
  /\ \A k \in DOMAIN services : services[k] \in Services
  /\ members \in [Families -> [Devices -> Nat]]
  /\ listeners \subseteq {Listener(k, d) : k \in Keys, d \in Devices}
  /\ callbacks \in [Interfaces -> SUBSET Keys]
  /\ netlink \in {"closed", "open", "broken"}
  /\ sockets \subseteq Families
  /\ stranded \subseteq devices /\ devices \subseteq VirtualDevices
  /\ faults \subseteq {"taken", "denied"}

\* No packet and no link message is handed to a service that was deleted, also
\* after creations that failed half-way, and no two services share a listener.
NothingDangles ==
  /\ \A l \in listeners : l.service \in DOMAIN services /\ l.device = services[l.service].input
  /\ \A i \in Interfaces : callbacks[i] \subseteq DOMAIN services

\* Every service hears its link and the packets of its device, as long as the
\* kernel has refused nothing: the removal of another never silences it.
EveryoneHears ==
  \A k \in DOMAIN services :
    /\ Listener(k, services[k].input) \in listeners
    /\ faults = {} =>
         /\ members[k.family][services[k].input] > 0
         /\ k \in callbacks[k.interface]
         /\ netlink = "open"

\* Memberships are given back with the last service of a device, neither earlier
\* nor later, as long as the kernel has refused nothing.
MembersCounted ==
  faults = {} =>
    \A f \in Families, d \in Devices :
      members[f][d] = Cardinality({k \in DOMAIN services : k.family = f /\ services[k].input = d})

\* The running daemon owns each virtual device through exactly one service, and leaves
\* none behind, by no removal, failed creation or restart, but those that the kernel
\* refused to remove or to tell their index.
DevicesOwned ==
  up => /\ devices = stranded \cup UNION {OwnDevices(services[k]) : k \in DOMAIN services}
        /\ \A k \in DOMAIN services : OwnDevices(services[k]) \cap stranded = {}
        /\ \A k, l \in DOMAIN services :
             k # l => OwnDevices(services[k]) \cap OwnDevices(services[l]) = {}

\* A restart brings back each router of the file, on its VLAN and with a macvlan
\* of its own, though a crash left the old devices in the kernel: only an equal id
\* on another interface may be in the way, or a device that could not be removed.
RestartRestores ==
  [][\A e \in pending \ pending' :
       /\ up'
       /\ "denied" \notin faults'
       /\ MacvlanOf(e.key) \notin {MacvlanOf(k) : k \in DOMAIN services}
       /\ Wanted(e.key, e.vlanId) \cap stranded = {}
       =>
         /\ e.key \in DOMAIN services'
         /\ services'[e.key].vlanId = e.vlanId
         /\ services'[e.key].macvlan = MacvlanOf(e.key)]_vars

=============================================================================
