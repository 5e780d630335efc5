---------------------------- MODULE VrrpService ----------------------------
(***************************************************************************)
(* The VRRP state machine of one virtual router: class VrrpService with    *)
(* the Timer objects it owns, the virtual addresses it places on network   *)
(* interfaces or in the ARP service, and the link events it reacts to.     *)
(* Every variable is a function over Routers, one service instance each,   *)
(* so that modules putting several routers on a LAN can extend this one.   *)
(*                                                                         *)
(* A definition with an underscore in its name is a wrong version of the   *)
(* one after it: it serves to test the properties and nothing else.        *)
(*                                                                         *)
(* The daemon is single-threaded: a handler runs to completion, so each    *)
(* handler is one action.  Packets, operator commands, link changes and    *)
(* the passage of time come from the environment in any order.             *)
(***************************************************************************)
EXTENDS Integers, Sequences, FiniteSets

CONSTANTS
  Routers,          \* the service instances
  IPv4,             \* m_family = AF_INET (otherwise AF_INET6)
  VlanId,           \* m_vlanId, 0 for none
  MacvlanOutcomes,  \* what creating the macvlan may give: {TRUE}, {FALSE} or both
  Subnets,          \* the subnets an operator adds and removes
  AddressOf,        \* [Subnets -> addresses], IpSubnet::address()
  InitialSubnets,   \* the subnets a configuration may start with, a set of sets
  InterfaceIp,      \* [Routers -> Nat], first address of the interface; 0: none
  PrimaryIps,       \* addresses given to setPrimaryIpAddress
  Priorities,       \* priorities given to setPriority
  Intervals,        \* intervals given to setAdvertisementInterval
  PreemptModes,     \* modes given to setPreemptMode
  AcceptModes,      \* modes given to setAcceptMode
  Commands,         \* the roles, "Backup" or "Master", with a command to run
  Packets,          \* the advertisements other routers may send
  TimeSteps,        \* milliseconds that may elapse between two events
  LookupOutcomes,   \* whether asking for the operstate works: {TRUE}, {FALSE} or both
  MaxLinkEvents     \* bound on unread netlink messages

Addresses == {AddressOf[s] : s \in Subnets}

PriorityRange == 1..255    \* 0 is for the goodbye of a leaving Master
IntervalRange == 1..4095
SentPriorities == PriorityRange \cup {0}

\* The twelve bits of a packet, which nobody checks on receipt.
SentIntervals == 0..4095

\* 0 stands for AF_UNSPEC, which IpAddress::operator> orders below any address.
Ips == Nat

Advertisements ==
  [src : Ips, priority : SentPriorities, interval : SentIntervals, addresses : SUBSET Addresses]

ASSUME ConfigAssumption ==
  /\ IPv4 \in BOOLEAN
  /\ VlanId \in 0..4095
  /\ MacvlanOutcomes \subseteq BOOLEAN
  /\ AddressOf \in [Subnets -> Addresses]
  /\ InitialSubnets \subseteq SUBSET Subnets
  /\ InterfaceIp \in [Routers -> Ips]
  /\ PrimaryIps \subseteq Ips \ {0}
  /\ Priorities \subseteq SentPriorities
  /\ Intervals \subseteq Nat
  /\ PreemptModes \subseteq BOOLEAN
  /\ AcceptModes \subseteq BOOLEAN
  /\ Commands \subseteq {"Backup", "Master"}
  /\ Packets \subseteq Advertisements
  /\ TimeSteps \subseteq Nat \ {0}
  /\ LookupOutcomes \subseteq BOOLEAN
  /\ MaxLinkEvents \in Nat

VARIABLES
  state,                        \* m_state
  priority,                     \* m_priority
  preemptMode,                  \* m_preemptMode
  acceptMode,                   \* m_acceptMode
  advertisementInterval,        \* m_advertisementInterval, units of 10 msec
  masterAdvertisementInterval,  \* m_masterAdvertisementInterval
  primaryIp,                    \* m_primaryIpAddress
  autoPrimaryIp,                \* m_autoPrimaryIpAddress
  masterIp,                     \* m_masterIpAddress
  subnets,                      \* m_subnets
  addresses,                    \* m_addresses
  macvlan,                      \* m_macvlanInterface # -1
  masterDownTimer,              \* m_masterDownTimer, see Timer below
  advertisementTimer,           \* m_advertisementTimer
  virtualUp,                    \* the virtual interfaces, where there are any, are up
  ifAddrs,                      \* virtual subnets on the output interface
  fakeArp,                      \* <<interface, address>> answered by ArpService
  sent,                         \* what the latest handler sent: <<>> or <<advertisement>>
  announced,                    \* interval in the latest advertisement, 0: none yet
  script,                       \* environment of the latest transition script
  link,                         \* [admin, oper]: IFF_UP, and operstate "up"
  linkEvents,                   \* IFF_UP flags in netlink messages not yet read
  misled                        \* history: the routers enabled without having learned the
                                \* operstate, and with no message read since

configVars == <<priority, preemptMode, acceptMode, advertisementInterval>>
ipVars     == <<primaryIp, autoPrimaryIp>>
masterVars == <<masterAdvertisementInterval, masterIp>>
listVars   == <<subnets, addresses>>
timerVars  == <<masterDownTimer, advertisementTimer>>
placeVars  == <<virtualUp, ifAddrs, fakeArp>>
outVars    == <<announced, script>>
linkVars   == <<link, linkEvents, misled>>
vars == <<state, configVars, ipVars, masterVars, listVars, macvlan, timerVars,
          placeVars, sent, outVars, linkVars>>

States == {"Disabled", "LinkDown", "Backup", "Master"}

-----------------------------------------------------------------------------
(* Interfaces *)

Physical == "physical"  \* m_interface
Macvlan  == "macvlan"
Vlan     == "vlan"

\* The VLAN device sits on the macvlan, or on the physical interface without one.
outputInterface(r) ==
  CASE VlanId # 0               -> Vlan
    [] VlanId = 0 /\ macvlan[r] -> Macvlan
    [] OTHER                    -> Physical

\* m_inputInterface is the VLAN device if there is one, else the physical
\* interface.  The kernel drops the frames of a VLAN device that is down.
CanReceive(r) == VlanId # 0 => virtualUp[r]

ForcedAccept == ~IPv4 \/ VlanId # 0

-----------------------------------------------------------------------------
(* Timer: remaining milliseconds, 0 once expired and not yet handled.  Not   *)
(* armed is Idle; starting with 0 disarms the timerfd while m_armed stays    *)
(* set, a timer that never expires: Stalled.                                 *)

Idle    == -1
Stalled == -2
Armed(t)  == t # Idle

Start(msec) == IF msec = 0 THEN Stalled ELSE msec

Elapsed(t, d) == IF t > d THEN t - d ELSE IF t > 0 THEN 0 ELSE t

skewTime(p, interval) == ((256 - p) * interval) \div 256

masterDownInterval(p, interval) == 3 * interval + skewTime(p, interval)

\* As if the timer were started before the interval is taken over.
StartMasterDown_Early(r, interval) ==
  masterDownTimer' = [masterDownTimer EXCEPT
    ![r] = Start(10 * masterDownInterval(priority[r], masterAdvertisementInterval[r]))]

StartMasterDown_Forgotten(r, interval) == UNCHANGED masterDownTimer

StartMasterDown(r, interval) ==
  masterDownTimer' =
    [masterDownTimer EXCEPT ![r] = Start(10 * masterDownInterval(priority[r], interval))]

StartAdvertisement_MastersInterval(r) ==
  advertisementTimer' =
    [advertisementTimer EXCEPT ![r] = Start(10 * masterAdvertisementInterval[r])]

StartAdvertisement(r) ==
  advertisementTimer' =
    [advertisementTimer EXCEPT ![r] = Start(10 * advertisementInterval[r])]

StopMasterDown(r)    == masterDownTimer' = [masterDownTimer EXCEPT ![r] = Idle]

StopAdvertisement_Forgotten(r) == UNCHANGED advertisementTimer
StopAdvertisement(r) == advertisementTimer' = [advertisementTimer EXCEPT ![r] = Idle]

-----------------------------------------------------------------------------
(* Sending.  A router without a primary address sends nothing: sendPacket    *)
(* refuses the AF_UNSPEC source.  Still it counts as its announcement.       *)

Advertisement(r, p) ==
  [src |-> primaryIp[r], priority |-> p, interval |-> advertisementInterval[r],
   addresses |-> addresses[r]]

sendAdvertisement(r, p) ==
  /\ sent' = [sent EXCEPT ![r] = IF primaryIp[r] = 0 THEN <<>> ELSE <<Advertisement(r, p)>>]
  /\ announced' = [announced EXCEPT ![r] = advertisementInterval[r]]

SendNothing(r) ==
  /\ sent' = [sent EXCEPT ![r] = <<>>]
  /\ UNCHANGED announced

-----------------------------------------------------------------------------
(* Placing the virtual addresses: on the output interface in accept mode or  *)
(* as the address owner, otherwise in the ARP service.                       *)

HostsAddresses(r) == acceptMode[r] \/ priority[r] = 255

ArpEntries(r, iface) == {<<iface, AddressOf[s]>> : s \in subnets[r]}

MoveToInterface_OnlyFrom(r) ==
  /\ fakeArp' = [fakeArp EXCEPT ![r] = @ \ ArpEntries(r, Physical)]
  /\ UNCHANGED ifAddrs

MoveToInterface(r) ==
  /\ ifAddrs' = [ifAddrs EXCEPT ![r] = @ \cup subnets[r]]
  /\ fakeArp' = [fakeArp EXCEPT ![r] = @ \ ArpEntries(r, Physical)]

MoveToArpService_OnlyTo(r) ==
  /\ fakeArp' = [fakeArp EXCEPT ![r] = @ \cup ArpEntries(r, Physical)]
  /\ UNCHANGED ifAddrs

MoveToArpService(r) ==
  /\ ifAddrs' = [ifAddrs EXCEPT ![r] = @ \ subnets[r]]
  /\ fakeArp' = [fakeArp EXCEPT ![r] = @ \cup ArpEntries(r, Physical)]

addIpAddresses(r) ==
  IF HostsAddresses(r)
  THEN ifAddrs' = [ifAddrs EXCEPT ![r] = @ \cup subnets[r]] /\ UNCHANGED fakeArp
  ELSE /\ fakeArp' = [fakeArp EXCEPT ![r] = @ \cup ArpEntries(r, Physical)]
       /\ UNCHANGED ifAddrs

removeIpAddresses(r) ==
  IF HostsAddresses(r)
  THEN ifAddrs' = [ifAddrs EXCEPT ![r] = @ \ subnets[r]] /\ UNCHANGED fakeArp
  ELSE /\ fakeArp' = [fakeArp EXCEPT ![r] = @ \ ArpEntries(r, Physical)]
       /\ UNCHANGED ifAddrs

\* executeScript: the environment handed to the command, as far as it is about
\* who is master.
executeScript(r, role) ==
  script' = [script EXCEPT ![r] =
              [role |-> role, masterIp |-> masterIp[r], primaryIp |-> primaryIp[r]]]

\* setState.  Entering Master also sends an advertisement, see BecomeMaster.
setState(r, new) ==
  /\ state' = [state EXCEPT ![r] = new]
  /\ virtualUp' = [virtualUp EXCEPT ![r] = new = "Master"]
  /\ CASE new = "Master"                          -> addIpAddresses(r)
       [] new # "Master" /\ state[r] = "Master"   -> removeIpAddresses(r)
       [] OTHER                                   -> UNCHANGED <<ifAddrs, fakeArp>>
  /\ IF new \in Commands THEN executeScript(r, new) ELSE UNCHANGED script

\* What startup (as the owner) and onMasterDownTimer do alike.
BecomeMaster(r) ==
  /\ setState(r, "Master")
  /\ sendAdvertisement(r, priority[r])
  /\ StartAdvertisement(r)
  /\ masterIp' = [masterIp EXCEPT ![r] = primaryIp[r]]

-----------------------------------------------------------------------------
(* Life cycle *)

startup(r) ==
  \/ /\ priority[r] = 255
     /\ BecomeMaster(r)
     /\ UNCHANGED <<masterDownTimer, masterAdvertisementInterval>>
  \/ /\ priority[r] # 255
     /\ masterAdvertisementInterval' =
          [masterAdvertisementInterval EXCEPT ![r] = advertisementInterval[r]]
     /\ StartMasterDown(r, advertisementInterval[r])
     /\ setState(r, "Backup")
     /\ SendNothing(r)
     /\ UNCHANGED <<advertisementTimer, masterIp>>

shutdown(r, new) ==
  \/ /\ state[r] = "Backup"
     /\ StopMasterDown(r)
     /\ setState(r, new)
     /\ SendNothing(r)
     /\ UNCHANGED <<advertisementTimer, masterVars>>
  \/ /\ state[r] = "Master"
     /\ StopAdvertisement(r)
     /\ sendAdvertisement(r, 0)
     /\ setState(r, new)
     /\ UNCHANGED <<masterDownTimer, masterVars>>

\* enable: the kernel is asked for the operstate, and the link is taken to be down
\* if it cannot be; the message queue is left as it is.
enable(r) ==
  /\ state[r] = "Disabled"
  /\ \E answered \in LookupOutcomes :
       /\ misled' = IF answered THEN misled \ {r} ELSE misled \cup {r}
       /\ \/ answered /\ link[r].oper /\ startup(r)
          \/ /\ ~answered \/ ~link[r].oper
             /\ setState(r, "LinkDown")
             /\ SendNothing(r)
             /\ UNCHANGED <<timerVars, masterVars>>
  /\ UNCHANGED <<configVars, ipVars, listVars, macvlan, link, linkEvents>>

\* disable: shutdown ignores LinkDown, so only Backup and Master are left.
disable(r) ==
  /\ shutdown(r, "Disabled")
  /\ UNCHANGED <<configVars, ipVars, listVars, macvlan, linkVars>>

-----------------------------------------------------------------------------
(* Timers.  Timer::callback stops the timer, then calls the service.  The    *)
(* service ignores a timer in another state, which TimerDiscipline excludes. *)

onMasterDownTimer(r) ==
  /\ Armed(masterDownTimer[r])
  /\ state[r] = "Backup"
  /\ StopMasterDown(r)
  /\ BecomeMaster(r)
  /\ UNCHANGED <<masterAdvertisementInterval, configVars, ipVars, listVars,
                 macvlan, linkVars>>

onAdvertisementTimer(r) ==
  /\ Armed(advertisementTimer[r])
  /\ state[r] = "Master"
  /\ sendAdvertisement(r, priority[r])
  /\ StartAdvertisement(r)
  /\ UNCHANGED <<state, masterDownTimer, masterVars, configVars, ipVars, listVars,
                 macvlan, placeVars, script, linkVars>>

MasterDownExpires(r)    == masterDownTimer[r] = 0 /\ onMasterDownTimer(r)
AdvertisementExpires(r) == advertisementTimer[r] = 0 /\ onAdvertisementTimer(r)

-----------------------------------------------------------------------------
(* Advertisements received (onIncomingVrrpPacket).  In the other states the  *)
(* handler only counts.                                                      *)

RightMaster_Any(r, pkt) == TRUE
RightMaster(r, pkt) == ~preemptMode[r] \/ pkt.priority >= priority[r]

BetterMaster_NoTieBreak(r, pkt) == pkt.priority > priority[r]
BetterMaster_AnyTie(r, pkt) == pkt.priority >= priority[r]

BetterMaster(r, pkt) ==
  \/ pkt.priority > priority[r]
  \/ pkt.priority = priority[r] /\ pkt.src > primaryIp[r]

\* The master is leaving: wait only the skew time.
BackupHearsGoodbye(r, pkt) ==
  /\ state[r] = "Backup"
  /\ pkt.priority = 0
  /\ masterDownTimer' = [masterDownTimer EXCEPT ![r] =
        Start(10 * skewTime(priority[r], masterAdvertisementInterval[r]))]
  /\ SendNothing(r)
  /\ UNCHANGED <<state, advertisementTimer, masterVars, placeVars, script>>

BackupHearsMaster(r, pkt) ==
  /\ state[r] = "Backup"
  /\ pkt.priority # 0
  /\ RightMaster(r, pkt)
  /\ masterAdvertisementInterval' =
       [masterAdvertisementInterval EXCEPT ![r] = pkt.interval]
  /\ StartMasterDown(r, pkt.interval)
  /\ masterIp' = [masterIp EXCEPT ![r] = pkt.src]
  /\ SendNothing(r)
  /\ UNCHANGED <<state, advertisementTimer, placeVars, script>>

\* A master to be preempted is ignored, and so is a worse rival.
IgnoresAdvertisement(r, pkt) ==
  /\ pkt.priority # 0
  /\ \/ state[r] = "Backup" /\ ~RightMaster(r, pkt)
     \/ state[r] = "Master" /\ ~BetterMaster(r, pkt)
  /\ SendNothing(r)
  /\ UNCHANGED <<state, timerVars, masterVars, placeVars, script>>

MasterHearsGoodbye_NoReminder(r, pkt) ==
  /\ state[r] = "Master"
  /\ pkt.priority = 0
  /\ SendNothing(r)
  /\ UNCHANGED <<state, timerVars, masterVars, placeVars, script>>

MasterHearsGoodbye(r, pkt) ==
  /\ state[r] = "Master"
  /\ pkt.priority = 0
  /\ sendAdvertisement(r, priority[r])
  /\ StartAdvertisement(r)
  /\ UNCHANGED <<state, masterDownTimer, masterVars, placeVars, script>>

\* The new master's address is not recorded before its next advertisement.
MasterYields(r, pkt) ==
  /\ state[r] = "Master"
  /\ pkt.priority # 0
  /\ BetterMaster(r, pkt)
  /\ StopAdvertisement(r)
  /\ masterAdvertisementInterval' =
       [masterAdvertisementInterval EXCEPT ![r] = pkt.interval]
  /\ StartMasterDown(r, pkt.interval)
  /\ setState(r, "Backup")
  /\ SendNothing(r)
  /\ UNCHANGED masterIp

onIncomingVrrpPacket(r, pkt) ==
  /\ CanReceive(r)
  /\ \/ BackupHearsGoodbye(r, pkt)
     \/ BackupHearsMaster(r, pkt)
     \/ IgnoresAdvertisement(r, pkt)
     \/ MasterHearsGoodbye(r, pkt)
     \/ MasterYields(r, pkt)
  /\ UNCHANGED <<configVars, ipVars, listVars, macvlan, linkVars>>

-----------------------------------------------------------------------------
(* Link events.  The kernel queues a message with the current IFF_UP flag    *)
(* for every change; Netlink::nlMessageCallback hands it to the service.     *)

Flags == {"up", "down"}
Flag(admin) == IF admin THEN "up" ELSE "down"

LinkChange(r) ==
  /\ Len(linkEvents[r]) < MaxLinkEvents
  /\ \E new \in [admin : BOOLEAN, oper : BOOLEAN] :
       /\ new.oper => new.admin
       /\ new # link[r]
       /\ link' = [link EXCEPT ![r] = new]
       /\ linkEvents' = [linkEvents EXCEPT ![r] = Append(@, Flag(new.admin))]
  /\ UNCHANGED <<state, configVars, ipVars, masterVars, listVars, macvlan,
                 timerVars, placeVars, sent, outVars, misled>>

ComesUp_Never(r) == FALSE
ComesUp(r) == Head(linkEvents[r]) = "up" /\ state[r] = "LinkDown"

GoesDown_MasterOnly(r) == Head(linkEvents[r]) = "down" /\ state[r] = "Master"
GoesDown(r) == Head(linkEvents[r]) = "down" /\ state[r] \in {"Backup", "Master"}

interfaceCallback(r) ==
  /\ linkEvents[r] # <<>>
  /\ linkEvents' = [linkEvents EXCEPT ![r] = Tail(@)]
  /\ misled' = misled \ {r}
  /\ \/ ComesUp(r) /\ startup(r)
     \/ GoesDown(r) /\ shutdown(r, "LinkDown")
     \/ /\ ~ComesUp(r)
        /\ ~GoesDown(r)
        /\ SendNothing(r)
        /\ UNCHANGED <<state, timerVars, masterVars, placeVars, script>>
  /\ UNCHANGED <<configVars, ipVars, listVars, macvlan, link>>

-----------------------------------------------------------------------------
(* Operator commands *)

ValidPriority_Any(p) == TRUE
ValidPriority(p) == p # 0

ValidInterval(i) == i \in IntervalRange

setPriority(r, p) ==
  /\ ValidPriority(p)
  /\ priority' = [priority EXCEPT ![r] = p]
  /\ LET moving == state[r] = "Master" /\ ~acceptMode[r]
     IN CASE moving /\ priority[r] # 255 /\ p = 255 -> MoveToInterface(r)
          [] moving /\ priority[r] = 255 /\ p # 255 -> MoveToArpService(r)
          [] OTHER -> UNCHANGED <<ifAddrs, fakeArp>>
  /\ SendNothing(r)
  /\ UNCHANGED <<state, preemptMode, acceptMode, advertisementInterval, ipVars,
                 masterVars, listVars, macvlan, timerVars, virtualUp, script, linkVars>>

setAdvertisementInterval(r, i) ==
  /\ ValidInterval(i)
  /\ advertisementInterval' = [advertisementInterval EXCEPT ![r] = i]
  /\ SendNothing(r)
  /\ UNCHANGED <<state, priority, preemptMode, acceptMode, ipVars, masterVars,
                 listVars, macvlan, timerVars, placeVars, script, linkVars>>

setPreemptMode(r, enabled) ==
  /\ preemptMode' = [preemptMode EXCEPT ![r] = enabled]
  /\ SendNothing(r)
  /\ UNCHANGED <<state, priority, acceptMode, advertisementInterval, ipVars,
                 masterVars, listVars, macvlan, timerVars, placeVars, script, linkVars>>

setAcceptMode(r, enabled) ==
  /\ acceptMode[r] # enabled
  /\ ~ForcedAccept
  /\ acceptMode' = [acceptMode EXCEPT ![r] = enabled]
  /\ CASE state[r] = "Master" /\ enabled  -> MoveToInterface(r)
       [] state[r] = "Master" /\ ~enabled -> MoveToArpService(r)
       [] OTHER -> UNCHANGED <<ifAddrs, fakeArp>>
  /\ SendNothing(r)
  /\ UNCHANGED <<state, priority, preemptMode, advertisementInterval, ipVars,
                 masterVars, listVars, macvlan, timerVars, virtualUp, script, linkVars>>

setPrimaryIpAddress(r, ip) ==
  /\ primaryIp' = [primaryIp EXCEPT ![r] = ip]
  /\ autoPrimaryIp' = [autoPrimaryIp EXCEPT ![r] = FALSE]
  /\ SendNothing(r)
  /\ UNCHANGED <<state, configVars, masterVars, listVars, macvlan, timerVars,
                 placeVars, script, linkVars>>

\* The flag is not set back to automatic.
unsetPrimaryIpAddress(r) ==
  /\ ~autoPrimaryIp[r]
  /\ primaryIp' = [primaryIp EXCEPT ![r] = InterfaceIp[r]]
  /\ SendNothing(r)
  /\ UNCHANGED <<state, configVars, autoPrimaryIp, masterVars, listVars, macvlan,
                 timerVars, placeVars, script, linkVars>>

\* While Master the new address is placed at once, in the ARP service of the
\* output interface and not, as on transitions, of the physical one.
addIpAddress(r, s) ==
  /\ subnets' = [subnets EXCEPT ![r] = @ \cup {s}]
  /\ addresses' = [addresses EXCEPT ![r] = @ \cup {AddressOf[s]}]
  /\ CASE state[r] = "Master" /\ HostsAddresses(r) ->
            ifAddrs' = [ifAddrs EXCEPT ![r] = @ \cup {s}] /\ UNCHANGED fakeArp
       [] state[r] = "Master" /\ ~HostsAddresses(r) ->
            /\ fakeArp' = [fakeArp EXCEPT ![r] = @ \cup {<<outputInterface(r), AddressOf[s]>>}]
            /\ UNCHANGED ifAddrs
       [] OTHER -> UNCHANGED <<ifAddrs, fakeArp>>
  /\ SendNothing(r)
  /\ UNCHANGED <<state, configVars, ipVars, masterVars, macvlan, timerVars,
                 virtualUp, script, linkVars>>

removeIpAddress(r, s) ==
  /\ subnets' = [subnets EXCEPT ![r] = @ \ {s}]
  /\ addresses' = [addresses EXCEPT ![r] = @ \ {AddressOf[s]}]
  /\ CASE state[r] = "Master" /\ HostsAddresses(r) ->
            ifAddrs' = [ifAddrs EXCEPT ![r] = @ \ {s}] /\ UNCHANGED fakeArp
       [] state[r] = "Master" /\ ~HostsAddresses(r) ->
            /\ fakeArp' = [fakeArp EXCEPT ![r] = @ \ {<<outputInterface(r), AddressOf[s]>>}]
            /\ UNCHANGED ifAddrs
       [] OTHER -> UNCHANGED <<ifAddrs, fakeArp>>
  /\ SendNothing(r)
  /\ UNCHANGED <<state, configVars, ipVars, masterVars, macvlan, timerVars,
                 virtualUp, script, linkVars>>

-----------------------------------------------------------------------------
(* Time.  A busy daemon may be late: timers wait at 0 until handled.         *)

Elapse(d) ==
  /\ \E r \in Routers : masterDownTimer[r] > 0 \/ advertisementTimer[r] > 0
  /\ masterDownTimer' = [r \in Routers |-> Elapsed(masterDownTimer[r], d)]
  /\ advertisementTimer' = [r \in Routers |-> Elapsed(advertisementTimer[r], d)]
  /\ UNCHANGED <<state, configVars, ipVars, masterVars, listVars, macvlan, placeVars,
                 sent, outVars, linkVars>>

-----------------------------------------------------------------------------
(* A service as the configurator leaves it: constructed, set up, disabled.   *)

DefaultInterval == 100

InitialAcceptModes == {m \in BOOLEAN : IF ForcedAccept THEN m ELSE m \in AcceptModes}

Init ==
  /\ state = [r \in Routers |-> "Disabled"]
  /\ priority \in [Routers -> {p \in Priorities : ValidPriority(p)}]
  /\ preemptMode \in [Routers -> PreemptModes]
  /\ acceptMode \in [Routers -> InitialAcceptModes]
  /\ advertisementInterval \in [Routers -> {i \in Intervals : ValidInterval(i)}]
  /\ masterAdvertisementInterval = [r \in Routers |-> DefaultInterval]
  /\ primaryIp = InterfaceIp
  /\ autoPrimaryIp = [r \in Routers |-> TRUE]
  /\ masterIp = [r \in Routers |-> 0]
  /\ subnets \in [Routers -> InitialSubnets]
  /\ addresses = [r \in Routers |-> {AddressOf[s] : s \in subnets[r]}]
  /\ macvlan \in [Routers -> MacvlanOutcomes]
  /\ masterDownTimer = [r \in Routers |-> Idle]
  /\ advertisementTimer = [r \in Routers |-> Idle]
  /\ virtualUp = [r \in Routers |-> FALSE]
  /\ ifAddrs = [r \in Routers |-> {}]
  /\ fakeArp = [r \in Routers |-> {}]
  /\ sent = [r \in Routers |-> <<>>]
  /\ announced = [r \in Routers |-> 0]
  /\ script = [r \in Routers |-> [role |-> "Disabled", masterIp |-> 0, primaryIp |-> 0]]
  /\ link \in [Routers -> {l \in [admin : BOOLEAN, oper : BOOLEAN] : l.oper => l.admin}]
  /\ linkEvents = [r \in Routers |-> <<>>]
  /\ misled = {}

Operate(r) ==
  \/ enable(r) \/ disable(r)
  \/ \E p \in Priorities : setPriority(r, p)
  \/ \E i \in Intervals : setAdvertisementInterval(r, i)
  \/ \E m \in PreemptModes : setPreemptMode(r, m)
  \/ \E m \in AcceptModes : setAcceptMode(r, m)
  \/ \E ip \in PrimaryIps : setPrimaryIpAddress(r, ip)
  \/ unsetPrimaryIpAddress(r)
  \/ \E s \in Subnets : addIpAddress(r, s) \/ removeIpAddress(r, s)

React(r) ==
  \/ MasterDownExpires(r)
  \/ AdvertisementExpires(r)
  \/ \E pkt \in Packets : onIncomingVrrpPacket(r, pkt)
  \/ interfaceCallback(r)

Next ==
  \/ \E r \in Routers : Operate(r) \/ React(r) \/ LinkChange(r)
  \/ \E d \in TimeSteps : Elapse(d)

Spec == Init /\ [][Next]_vars

\* The loop serves every ready descriptor and the clock runs.
Fairness ==
  /\ \A r \in Routers :
       /\ WF_vars(MasterDownExpires(r))
       /\ WF_vars(AdvertisementExpires(r))
       /\ WF_vars(interfaceCallback(r))
  /\ WF_vars(\E d \in TimeSteps : Elapse(d))

FairSpec == Spec /\ Fairness

-----------------------------------------------------------------------------
(* Properties *)

\* Every variable keeps to its type; timers are Idle, Stalled or milliseconds.
Timers == Nat \cup {Idle, Stalled}
Entries == {Physical, Macvlan, Vlan} \X Addresses
Environments == [role : States, masterIp : Ips, primaryIp : Ips]

TypeOK ==
  /\ state \in [Routers -> States]
  /\ priority \in [Routers -> PriorityRange]
  /\ preemptMode \in [Routers -> BOOLEAN]
  /\ acceptMode \in [Routers -> BOOLEAN]
  /\ advertisementInterval \in [Routers -> IntervalRange]
  /\ masterAdvertisementInterval \in [Routers -> SentIntervals]
  /\ primaryIp \in [Routers -> Ips]
  /\ autoPrimaryIp \in [Routers -> BOOLEAN]
  /\ masterIp \in [Routers -> Ips]
  /\ subnets \in [Routers -> SUBSET Subnets]
  /\ addresses \in [Routers -> SUBSET Addresses]
  /\ macvlan \in [Routers -> BOOLEAN]
  /\ masterDownTimer \in [Routers -> Timers]
  /\ advertisementTimer \in [Routers -> Timers]
  /\ virtualUp \in [Routers -> BOOLEAN]
  /\ ifAddrs \in [Routers -> SUBSET Subnets]
  /\ fakeArp \in [Routers -> SUBSET Entries]
  /\ sent \in [Routers -> Seq(Advertisements)]
  /\ announced \in [Routers -> IntervalRange \cup {0}]
  /\ script \in [Routers -> Environments]
  /\ link \in [Routers -> [admin : BOOLEAN, oper : BOOLEAN]]
  /\ linkEvents \in [Routers -> Seq(Flags)]
  /\ misled \subseteq Routers

\* Timers follow the state through every transition: a Backup waits for its
\* master and never advertises by timer, a Master does the reverse, and a router
\* that does not take part has no timer armed.  (Handlers drop a timer's
\* event in the wrong state, so a router whose timers break this hangs.)
TimerDiscipline ==
  \A r \in Routers :
    /\ Armed(masterDownTimer[r]) <=> state[r] = "Backup"
    /\ Armed(advertisementTimer[r]) <=> state[r] = "Master"

\* Virtual addresses sit on an interface only while the router is Master and
\* either accepts their traffic or owns them, and none outlives its subnet's
\* removal, whatever the order of commands, link events and transitions.
HostedOnlyByMaster ==
  \A r \in Routers :
    ifAddrs[r] # {} =>
      /\ state[r] = "Master" /\ HostsAddresses(r)
      /\ ifAddrs[r] \subseteq subnets[r]

\* A Backup's wait for a silent master ends within four of the master's own
\* intervals, also after the priority or either interval changed meanwhile; or it
\* never ends (see BackupTimerRuns), which needs a master's interval below 256
\* units, 2.56 seconds.
BoundedTakeover ==
  \A r \in Routers : state[r] = "Backup" =>
    \/ masterDownTimer[r] \in 0 .. (40 * masterAdvertisementInterval[r] - 1)
    \/ masterDownTimer[r] = Stalled /\ masterAdvertisementInterval[r] < 256

\* A Master advertises again within the interval it announced last, on which
\* its backups' patience rests, also when the operator changes the interval.
KeepsAnnouncedInterval ==
  \A r \in Routers : state[r] = "Master" =>
    advertisementTimer[r] \in 0..(10 * announced[r])

\* Once its messages are read, a router whose interface was taken down has left
\* the protocol, though enable looks the link up without reading them.
StopsWithInterface ==
  \A r \in Routers :
    linkEvents[r] = <<>> /\ ~link[r].admin => state[r] \in {"Disabled", "LinkDown"}

\* Once its messages are read, a router does not wait in LinkDown for a link
\* that is up (debian/changelog 0.2.2 fixed exactly that), unless enable could not
\* learn that it was and no message came after.
NotStuckInLinkDown ==
  \A r \in Routers :
    linkEvents[r] = <<>> /\ state[r] = "LinkDown" /\ r \notin misled => ~link[r].oper

\* Once no other router is heard any more no router stays Backup, but for one that
\* waits on a timer which never expires (see BackupTimerRuns).
Hears == \E r \in Routers, pkt \in Packets : onIncomingVrrpPacket(r, pkt)

TakesOverSilence ==
  <>[][~Hears]_vars =>
    \A r \in Routers : []<>(state[r] # "Backup" \/ masterDownTimer[r] = Stalled)

=============================================================================
