# OpenVRRP: specifications, model checking and proofs

OpenVRRP is a daemon that lets several hosts share virtual IP addresses by the
Virtual Router Redundancy Protocol, version 3. The modules in this directory
specify the daemon's own logic in TLA+, as the C++ code in `src/src` has it. TLC
checks them on small instances; TLAPS proves the invariants of a router, of its event
loop, of a host with several routers, of the registries, the packets, the configuration
file and the telnet sessions, and of a LAN of routers, which implements an abstract
group, for every value of the constants. `PROJECT.json` maps each definition to the
lines it models, and lists the runs, the mutants, the theorems, the findings
and the hazards.

## 1. The system and its parts

The daemon is one process with one thread. `MainLoop` waits in `epoll_wait` and
calls a callback for each ready descriptor; a callback runs to its end. So there
are no data races, and a handler is one atomic step with respect to the others.
What is hard here is order: packets, timers, link messages and commands come in
any order, several are in one epoll batch, and routers on a LAN run concurrently.

| Component | State | Operations | Talks to |
|---|---|---|---|
| `VrrpService`, one per virtual router | `m_state`, priority, modes, intervals, addresses, two timers | enable, disable, packet, two timers, link callback, setters | Timer, VrrpSocket, Netlink, ArpService, scripts |
| `Timer` | a timerfd and `m_armed` | start, stop, callback | MainLoop |
| `MainLoop` | descriptor to monitor map, the batch being served | addMonitor, removeMonitor, run | every owner of a descriptor |
| `VrrpSocket`, one per address family | listeners by interface and id, membership counts, error counters | sendPacket, onSocketPacket, registration | VrrpService, kernel raw socket |
| `Netlink` | callbacks by interface, one netlink socket | devices, addresses, operstate, link messages | VrrpService, kernel |
| `ArpService`, one per interface | table of addresses to answer for | addFakeArp, removeFakeArp, answer | VrrpService |
| `VrrpManager` | services by interface, id and family | getService, removeService, cleanup, removeVrrpInterfaces | VrrpService, Netlink |
| `Configurator` | the configuration file | readConfiguration, writeConfiguration | VrrpManager, VrrpService |
| `TelnetServer`, `TelnetSession` | a line buffer per session | one method per command | VrrpManager, VrrpService, Configurator |
| `IpAddress`, `IpSubnet`, `Util` | none | parsing, ordering, checksum | everyone |

How they interact: a packet goes from the raw socket through
`VrrpSocket::onSocketPacket` to the `VrrpService` registered for its interface and
id; the service restarts or stops a timer and, on a transition, moves addresses
between the network interface and the ARP service. A link message goes through
`Netlink::nlMessageCallback` to each service of the interface. An operator's
line goes through `TelnetSession` to a setter. The kernel outlives the daemon: what
a killed daemon created is found by its successor.

What is hard, and what makes each part correct:

* **VrrpService**. Which timer runs after any sequence of events
  (`TimerDiscipline`), for how long (`BoundedTakeover`, `KeepsAnnouncedInterval`),
  where the addresses sit after any sequence of transitions and commands
  (`HostedOnlyByMaster`), and what becomes of link messages
  that are read late (`StopsWithInterface`, `NotStuckInLinkDown`). It must not wait
  for ever (`TakesOverSilence`).
* **Several routers on a LAN**. Simultaneous take-over, ties, goodbyes, lost
  packets, killed processes: one Master when all is quiet (`OneMasterWhenQuiet`),
  none missing for long (`TakeoverBound`), and the right one in the end
  (`Converges`, `ConvergesToBest`).
* **MainLoop and Timer**. Events of a batch that are out of date when they are
  served, monitors that are deleted meanwhile, and a signal that comes just before
  the loop waits (`EndsWhenSignalled`).
* **The registries**. Routers that share devices, groups and sockets come and go,
  creations fail half-way, the daemon is killed (`NothingDangles`,
  `EveryoneHears`, `MembersCounted`, `DevicesOwned`, `RestartRestores`).
* **Packets**. Only what was sent is heard, and it always is
  (`DeliversWhatWasSent`, `IntactIsDelivered`, `NoiseIsNotBlamed`).
* **A host with several routers**. They share the table of ARP entries of their
  interface, in which each address that a Master advertises must be answered for
  (`ServesAdvertised`), by the right one (`AnswersFollowMasters`).
* **Configurator**. A format of three versions that must be read back as it was
  written, from files cut anywhere and through a stream that gives what it has
  buffered (`NoneHalfRestored`, `SaveIsRestored`, `RestartChangesNothing`).
* **TelnetSession**. Lines that come in pieces, several at once or too long, in a
  buffer of fixed size, while the daemon does nothing else (`LineStaysWhole`,
  `OnlyHasteKills`, `Responds`), and words that are found by their place
  (`ManualIsUnderstood`).

## 2. The modules

```
VrrpService            one router: state machine, timers, addresses, link
  VrrpServiceClaims    what the repository says of it and the code does not do
  VrrpOperator         with the operator's last order
  VrrpHost             several routers of one interface, and ArpService
  VrrpEventLoop        under epoll batches
  VrrpCluster          several routers on a LAN
    VrrpClusterRefinement  the cluster as an implementation of RedundancyGroup
  VrrpService_proofs     types, lemmas about the handlers, timers
    VrrpDaemon_proofs    addresses and the shared table; links; both under the loop
    VrrpCluster_proofs   refinement, take-over and election on a LAN
RedundancyGroup        abstract: roles, and claims to be heard
  RedundancyGroup_proofs
VrrpRegistry           services, listeners, memberships, callbacks, devices, file
  VrrpRegistry_proofs
VrrpPacket             sendPacket, the LAN, onSocketPacket
  VrrpPacket_proofs
ConfigurationFormat    what is written for a router and read back
  Configurator         saves and starts of a daemon whose interfaces come and go
    Configurator_proofs
TelnetCommand          what a line of words asks for
  TelnetSession        lines in pieces in a buffer, sessions, the loop over lines
    TelnetSession_proofs
MC*                    values of constants for TLC
```

A name with an underscore (`StopAdvertisement_Forgotten`) is a wrong version of
the definition after it, as a plausible bug would have it; it is used only to
test that a property can fail.

### VrrpService

Each variable is a function over `Routers`, so that the cluster can extend the
module. Variables keep the names of the members without `m_`. In addition `sent`
is what the latest handler passed to `sendPacket`, `announced` the interval in it,
`ifAddrs` and `fakeArp` where addresses are in the kernel and in the ARP service,
`virtualUp` whether the macvlan and VLAN devices are up, `script` the environment
of the latest script, `link` and `linkEvents` the kernel's flags and the unread
netlink messages.

A timer is the milliseconds left, 0 once it has expired and waits to be served,
`Idle` when not armed, and `Stalled` when it was started with 0: `timerfd_settime`
with 0 disarms, while `m_armed` stays set.

| Action | Code |
|---|---|
| `enable`, `disable`, `startup`, `shutdown` | the methods of these names |
| `MasterDownExpires`, `AdvertisementExpires` | `Timer::callback` with `onMasterDownTimer`, `onAdvertisementTimer` |
| `onIncomingVrrpPacket` | five named cases: goodbye, right master, rival to be ignored, goodbye to a Master, better master |
| `interfaceCallback`, `LinkChange` | the netlink callback, and the kernel's side of it |
| `setPriority` ... `removeIpAddress` | the setters behind the telnet commands |
| `Elapse` | time; late callbacks are timers that wait at 0 |

`setState` is an operator used in these actions and does all that the method
does: devices up or down, addresses placed or removed, the script.

`enable` asks the kernel for the operstate. The look-up may fail (`LookupOutcomes`), which
`isInterfaceUp` answers as if the link were down; `misled` is history, the routers that
were enabled so and have read no link message since. A packet may announce an
interval of 0 (`SentIntervals`), since nobody looks. `ifAddrs` and `virtualUp` are what the
kernel was asked for: that it refuses an address or a flag is not modelled.

`Init` is a constructed and configured, disabled router. The link may be down.
Statistics, log lines and the setters of the two commands are left out.

### VrrpCluster

A LAN of such routers. `inbox` is the receive queue of each socket. What a router
sends is put in each other queue by the same step, unless it is one of at most
`MaxLosses` lost deliveries. `Crash` kills a process: no goodbye, queue gone,
virtual devices removed by the successor. Time passes only when queues are empty
and no timer is due: the shortest timer is 10 msec and a LAN is much faster. It
passes up to the next expiry at most (`RunsFor`), in steps or at once. The order in which simultaneous timers and packets are handled is free. `alone`
counts how long each Backup has waited with no Master on the LAN.

### RedundancyGroup and VrrpClusterRefinement

What the routers of a LAN promise each other, without timers, intervals, queues or
commands. `role` and `rank` (priority, then address) are functions over the routers;
`claims` holds what each may still hear: the ranks that were claimed. A router may
`Join`, `Claim` (take over, or remind the others as Master), `Hear` a claim and `Leave`.
A Master gives way to a better claim, at once, and to no other. Claims may be lost,
late and repeated. `disturbed` is true from the departure of a Master, by command or
crash, until no claim of before can be heard any more: such a claim makes a Master
give way to somebody who is gone.

`VrrpClusterRefinement` maps `VrrpCluster` to it: `roleOf`, `rankOf` and `claimsOf` take
the role from `m_state`, the rank from priority and primary address and the claims
from the receive queues. `ImplementsGroup` is the abstract specification as a property
of the detailed one, and `NeverAbandoned` what the group promises: its last Master is
lost only when a Master leaves, or while the LAN is disturbed.

### VrrpHost

Routers of one interface with the table they share. `VrrpService` has, for each
router, what it has placed in the ARP service; `VrrpHost` adds `arp`, the table itself,
and every call of `addFakeArp` and `removeFakeArp`, also those that change nothing of
the router's own. A call that needs a new socket may fail: its result is dropped by
the callers, and `refused` remembers it. An entry has no count, so that a router may
take back one that another has placed too; `taken` remembers that. An `ArpService`
exists as long as it has entries. The commands that make no such call are left out, and the link is constant.

### VrrpEventLoop

The same service, reached as in the daemon. `EpollWait` takes all that is ready
into `batch`; `Serve...` actions take the events one by one. A timer's event
points at a block of memory, since `removeMonitor` deletes the monitor and a
later `addMonitor` may get the same block. `ServeTimer` serves whatever monitor is
in the block, `ServeDeleted` a block that is free: the call has no effect or ends
in a crash. `loop` is where `run` is and `aborted` is `m_aborted`. `Signal` interrupts a
waiting loop or, when it comes between the test and `epoll_wait`, does not; `Finish`
is the way out, with the service's destructor.

### VrrpRegistry

`services` is `VrrpManager::m_services`, `members` is `m_interfaceCount`, `listeners`
is `m_listeners`, `callbacks` and `netlink` are the statics of `Netlink`, `devices`
is what the kernel has, `file` and `pending` the configuration on disk and the part
still to be read at start-up. `getService` is the whole construction, with what the kernel
may refuse on the way:

* no socket of the family: the router is not created (`GoWithout`);
* no macvlan: go on without; no VLAN: the constructor returns early and the destructor
  runs (`Abandon`). After a refusal `Netlink::addInterface` uses a socket it has freed:
  the daemon dies (`Dies`) or gets -1. The device may also be made and its index not be
  read (netlink.cpp:154-165): then it stays in the kernel and belongs to nobody;
* no membership, no netlink connection: go on without.

A device may also not be removed, by a destructor or by `removeVrrpInterfaces` at the
start, which finds none when it gets no netlink socket (netlink.cpp:299). `stranded` is
history: the devices that stayed by such a refusal. `faults` remembers why something that
a router needs was refused, a name taken or a request denied. A membership is always given
up when asked.

An entry of the file is a router and its VLAN; its other attributes are
not in the model. A file that is cut short holds any part of what was to be
written, which includes the prefixes that it really may hold.

### VrrpPacket

Packets are sequences of 16-bit words with the real layout, pseudo header and
ones' complement sum. A packet may arrive as composed, with one bit flipped in a
word or in the source address, forwarded with a lower TTL, or be one of another
implementation with a version, type or count that OpenVRRP does not send. `Checks`
lists the checks of `onSocketPacket` in their order, and the first that fails
decides whom `onIncomingVrrpError` is called for. `calls` holds the calls made for
the latest packet. The fields `sent` and `garbled` of a queued packet are not
data: they tell the properties where it came from.

### ConfigurationFormat and Configurator

A file is a sequence of fields, each with its width in bytes and its value, as
`writeConfiguration` writes them; a string is its length and as many bytes, cut to 255.
A field is read whole or not at all, so that a file cut inside a field is read like one
cut before it, and cuts are made between fields. `Extent` is how far `readsome` gets:
to the end of the file, or to the last field that ends within the buffer of the
stream. `readEntries` reads entry by entry while `Whole`. `Configurator` has the routers
of a daemon (`services`), the interfaces of the kernel by index (`names`) and the `file`;
`saved` is what the latest save was to write. An interface that disappears takes its
name with it and comes back with another index, while the routers stay. A save cut after
any field stands for a crash as well as for a full disk, which
the daemon reports as a success. At a start the kernel may refuse any router, its socket
or its VLAN; `refused` is history, the entries that were left out so. `VlanValues` are what an uninitialised variable may
hold.

### TelnetCommand and TelnetSession

A word with the blank after it is one cell of the buffer, and so is a newline or a NUL:
the code looks at nothing smaller between two reads. `onCommand` and the operators it
uses give the call that a line asks for, as a tuple. `receiveChunk` is one read of any
number of cells; `ServeLine` is one turn of the loop over the lines, which is not one
atomic step, since it need not end. `Moved` is the `memmove` with its count as it is.
`splitCommand` ends at the first NUL. A reply that is composed by `sendFormatted`
overwrites the front of the buffer. A turn may kill the daemon (`MayDie`): when the kernel
refuses what a call asks it for (`KernelCalls`), which is `addInterface`'s double free
(netlink.cpp:148-163), `removeInterface` without a socket (netlink.cpp:268, 280) and
`isInterfaceUp` without a cache; and when the client has hung up, since nothing handles
the SIGPIPE of the reply. There is one session at a time. An operator waits for the prompt before he types
the next line, or types up to `MaxAhead` lines ahead; `owed` and `ahead` are history.
What the family of a word is and what `atoi` makes of it are constants.

## 3. The runs

| Run | Instance | Shows |
|---|---|---|
| `MCHost` | two routers of one interface; two addresses, one of them given to both; with and without macvlan; owner or not; one failing call | addresses sit where the state says; none advertised goes unanswered, unless its call failed or the other router took the entry back; and sharing the ARP table does no harm to addresses of one router |
| `MCService` | one router; intervals 1 and 2, priorities 1, 200, 255; two unread link messages; 10 msec steps; a primary address above and below a rival's; packets with interval 0; look-ups of the operstate that fail | timers and link states; liveness |
| `MCTwoRouters` | two routers; priorities 1, 100, 255; one crash, one loss | election, take-over and convergence; the refinement |
| `MCThreeRouters` | three routers | the reminder after a goodbye; the refinement with crossing claims |
| `MCEventLoop` | one router in the loop | stale events do no harm to timers and link states; a signalled daemon ends |
| `MCRegistry` | four routers: two on one interface, one of equal id on another, one in the other family; one may be on a VLAN; a file of up to two, of equal ids; any refusal | the tables stay exact, and no device is left over but by a refusal |
| `MCPacket` | two interfaces, two ids, 32 advertisements, flips in four bit positions | reception |
| `MCConfigurator` | three kinds of routers, old files of versions 1 and 2, cuts between fields, routers that are refused at a start, one interface that comes and goes, a stream buffer of exactly one router's file | saving and restoring |
| `MCTelnet` | eleven lines of all kinds, one longer than the buffer; one line ahead; refusals by the kernel and a client that hangs up | sessions |
| `MCClaimGoodbye`, `MCClaimDisable`, `MCLoopTakeover` | as above | the code does something else than a comment or the header says |

Bounds, and why they are enough:

* *Intervals 1 and 2 (10 and 20 msec).* With interval 1 the skew time is 0 for each
  priority but 0, with 2 it is 0 or 1; all cases of the arithmetic occur and every
  step of 10 msec counts. The theorems cover all intervals.
* *Priorities 1, 100 or 200, 255.* A worst, a middle and the owner; packets also
  with 0.
* *`Tuned` = {r1}.* In `MCHost` only one router gets priority and mode commands; the
  other one leaves its addresses to the ARP service, the case in which they meet.
* *No address of the interface.* In `MCHost` the routers have no primary address, so
  they send nothing; what they place does not depend on it.
* *`MaxRefusals` = 1.* A second failure is another one of the same kind.
* *`MaxLinkEvents`, `MaxReceived`* bound queues. Two link messages are enough
  for one that is stale when it is read. The theorems need no bound.
* *`MaxLosses` = 1, `MaxCrashes` = 1.* A take-over from a living Master needs all its
  advertisements of three intervals lost; with intervals of equal length a single
  loss already makes two Masters, by a Master that misses the packet it should
  yield to. `OneMasterWhenQuiet` is stated for no losses, convergence with them.
* *`SortedSpec`.* With two and three routers the priorities are given in the order of the
  addresses. These decide between equal priorities only, so that every other start is one
  of these with the routers renamed.
* *`MaxInbox` = 1.* A router is enabled again while one old packet is unread, the
  case in which a restart meets the past.
* *`Saved`.* The file holds up to two of the four routers, on a VLAN and of equal ids on
  two interfaces: it is a saved file, or one cut short, and its entries may be in each
  other's way.
* *`MaxQueue` = 1, `MaxCount` = 1.* `VrrpSocket` keeps nothing from one packet to the
  next but listeners and counters.
* *Bits 0, 8, 12, 15.* Both bytes of a word, the version and reserved bits, and the
  carry out of the word.
* *`StreamBuffer` = 325.* The real one holds 8191 bytes; the file of the router with
  the longest command fits exactly, and one with another router does not.
* *`MaxIndex`.* The interface comes back once, with a new index.
* *`BufferSize` = 9, `MaxAhead` = 1.* The longest line that fits fills the buffer to the
  last cell, the overlong one is two cells longer. One line ahead already meets each
  error of the loop over lines; the properties say what holds without any.

In `MCEventLoop` and `MCLoopTakeover` deadlock is not checked: a router whose daemon
has ended or crashed, or which is disabled with every queue full, stops.

### Fairness

`FairSpec` (one router) asks weak fairness of the two timer actions, of
`interfaceCallback` and of time. epoll reports a descriptor as long as it is
readable, and every callback of a batch is called, so a ready descriptor is
served; and the clock runs. Nothing is assumed of packets, operators or links:
`TakesOverSilence` has the silence as its premise. `ClusterFairness` adds the same for
the receive queues. No strong fairness is used. `TakesOverSilence` excepts a
`Stalled` timer, which is the finding of `MCClaimGoodbye`.

`FairLoopSpec` asks it of the loop itself: `run` goes on to its next test and its next
event, `epoll_wait` returns while a descriptor is ready, and time passes. Nothing is
assumed of signals, and `epoll_wait` need not return when nothing is ready.

## 4. What is proved

| Theorem | Module | Property |
|---|---|---|
| `TypeCorrect` | `VrrpService_proofs` | `TypeOK` |
| `TimersFollowState` | `VrrpService_proofs` | `TimerDiscipline` |
| `TakeoverIsBounded` | `VrrpService_proofs` | `BoundedTakeover` |
| `AnnouncedIntervalIsKept` | `VrrpService_proofs` | `KeepsAnnouncedInterval` |
| `OnlyMastersHost` | `VrrpDaemon_proofs` | `HostedOnlyByMaster` |
| `MastersServe` | `VrrpDaemon_proofs` | `ServesAdvertised` |
| `MastersAnswerForTheirs` | `VrrpDaemon_proofs` | `AnswersFollowMasters` |
| `StopsWithItsInterface` | `VrrpDaemon_proofs` | `StopsWithInterface` |
| `NeverStuckInLinkDown` | `VrrpDaemon_proofs` | `NotStuckInLinkDown` |
| `LoopKeepsTimers` | `VrrpDaemon_proofs` | `TimerDiscipline`, under the loop |
| `LoopStopsWithInterface` | `VrrpDaemon_proofs` | `StopsWithInterface`, under the loop |
| `EveryClaimIsBacked` | `RedundancyGroup_proofs` | `ClaimsBacked` |
| `GroupNeverAbandoned` | `RedundancyGroup_proofs` | `NeverAbandoned`, of the group |
| `RoutersImplementGroup` | `VrrpCluster_proofs` | `ImplementsGroup` |
| `RoutersNeverAbandon` | `VrrpCluster_proofs` | `NeverAbandoned`, of the cluster |
| `AbandonedLanIsTakenOver` | `VrrpCluster_proofs` | `TakeoverBound` |
| `ElectionLeavesOneMaster` | `VrrpCluster_proofs` | `OneMasterWhenQuiet` |
| `RegistryTypesHold` | `VrrpRegistry_proofs` | `RegistryTypeOK` |
| `NoListenerDangles` | `VrrpRegistry_proofs` | `NothingDangles` |
| `DevicesAreOwned` | `VrrpRegistry_proofs` | `DevicesOwned` |
| `MembershipsAreCounted` | `VrrpRegistry_proofs` | `MembersCounted` |
| `ServicesHear` | `VrrpRegistry_proofs` | `EveryoneHears` |
| `RestartBringsBack` | `VrrpRegistry_proofs` | `RestartRestores` |
| `SessionTypes` | `TelnetSession_proofs` | `TelnetTypeOK` |
| `LinesStayWhole` | `TelnetSession_proofs` | `LineStaysWhole` |
| `OnlyHasteIsFatal` | `TelnetSession_proofs` | `OnlyHasteKills` |
| `ManualHolds` | `TelnetSession_proofs` | `ManualIsUnderstood` |
| `TypeCorrect` | `VrrpPacket_proofs` | `PacketTypeOK` |
| `WhatWasSent` | `VrrpPacket_proofs` | `DeliversWhatWasSent` |
| `Intact` | `VrrpPacket_proofs` | `IntactIsDelivered` |
| `Noise` | `VrrpPacket_proofs` | `NoiseIsNotBlamed` |
| `TypeCorrect` | `Configurator_proofs` | `ConfiguratorTypeOK` |
| `NothingHalfRead` | `Configurator_proofs` | `NoneHalfRestored` |
| `SavesComeBack` | `Configurator_proofs` | `SaveIsRestored` |
| `RestartKeeps` | `Configurator_proofs` | `RestartChangesNothing` |

These are all the safety invariants, action properties and the refinement that the passing
runs check.

They hold for any set of routers, subnets, priorities, intervals, packets, words and
lines, and for any queue and buffer sizes. What is assumed of the constants is named
in the modules and evaluated by TLC in each run:

* `ConfigAssumption` says what the types in the code say: priorities given to a setter
  fit a byte, intervals are natural numbers, packets are advertisements that
  `onSocketPacket` may hand over, with any interval of twelve bits, 0 included. `ClusterAssumption` adds that the routers are
  finitely many and that bounds are numbers, `HostAssumption` the same of `VrrpHost`.
* `RegistryAssumption`: an entry is a router and a VLAN id of 0..4095, and the file holds
  entries.
* `PacketAssumption`: ids, priorities, intervals and words are of the width that the
  packet gives them. `WhatWasSent` and `Intact` are stated under `CountsFit`,
  that a router has fewer than 256 addresses: the count is cut to a byte
  (vrrpsocket.cpp:523), so that a packet with more is not read as it was sent.
  `MCPacket` checks an instance that satisfies it.
* `FormatAssumption`: a string that is cut to 255 bytes is a string, and no address is the
  one that stands for none (`AutoPrimary`). `ConfiguratorAssumption`: names of interfaces are
  different and short (IFNAMSIZ is 16), and what an uninitialised `ifname` holds is some
  string of up to 255 bytes; routers are in the ranges that the setters' types and the
  telnet commands keep them to; the file of an earlier release is one that the release wrote, of
  version 1 or 2. An uninitialised VLAN is any integer.
* `CommandAssumption` and `SessionAssumption`: `atoi` returns an integer, the word
  `ipv6` is no address, no word holds a newline or a NUL, and the buffer has a cell.

Two theorems about the LAN have hypotheses of their own, which are part of their
statements:

* `TakeoverBound` is proved under `SkewRuns`: no skew time is rounded down to 0. Without it
  it is false, for the reason that `MCClaimGoodbye` shows: after a goodbye, a Backup of skew
  time 0 waits on a disarmed timer. With the default interval of 100 the skew time is 0 for
  the priority 254 alone.
* `OneMasterWhenQuiet` is proved under `SameIntervals` (all routers advertise at one interval,
  which the protocol asks of the operator) and `DistinctIps`. With other intervals a
  Backup's timer no longer says anything about its master's next advertisement, and of two routers
  of one address and one priority neither yields.

`MCTwoRouters` and `MCThreeRouters` check instances that satisfy all three.

How the proofs go:

* *Types.* `TypeOK` is inductive. One lemma per action shows it preserved;
  `TypeParts` names its parts, so that a leaf sees only the part it needs.
* *Timers.* Each step leaves a router's state and timers in one of four ways: as they
  were, waiting, advertising or at rest (`Outcome`). One lemma per action says which,
  with an arithmetic lemma that the skew time is below one interval. `TimerInvariant`
  is what the three properties say of one router; each follows from the outcomes
  and from the passage of time, without another look at the handlers.
* *Addresses.* A Master advertises the list of addresses and places the list of subnets.
  `PlacementInvariant` says that each listed address has a listed subnet, is placed on the
  interface or with the ARP service, and that nothing is on the interface unless the
  router hosts its addresses. It speaks of what the router has asked for.
* *Host.* `TableInvariant` ties the table of the interface to that: whatever a router has
  placed is in the table, was refused, or was taken back by another; of its own
  addresses each is in the table under its name or was refused, and what is there under
  its name it has placed. `ServesAdvertised` needs both invariants. Another router's call reaches a cell of
  these only for an address of both (`CellsAreApart`), which is why the property
  speaks of addresses of one router.
* *Link.* `LinkInvariant` adds that the last unread message tells the present state of
  the link, and that an operational link is up: `enable` reads the operstate past the
  queue, and an empty queue is right only because its last message was. A router whose
  look-up failed is excepted until it reads a message.
* *Loop.* A batch may hold an event of a timer that was restarted meanwhile, so that a
  handler runs that is not due: the loop does not implement `VrrpService`'s
  specification, and the invariants of the router had to be shown for these steps too.
  `LoopInvariant` adds `BatchInvariant`: a batch has each event once, and that of the socket
  only while a packet waits. It rests on a lemma that `epoll_wait`'s answers are
  sequences without repetition.
* *Group.* `NeverAbandoned` holds for any set of routers and needs no assumption. Its
  inductive invariant is `ClaimsBacked`: behind each claim that may still be heard
  stands a Master at least as good. A Master that gives way to a claim leaves the one
  behind it, and whatever it backed itself is backed by that one, since the order is
  transitive.
* *Refinement.* One lemma per handler says in which way it changes its router and what it
  sends (`Patient`, `Claims`, `Departs`, `Hastens`, `PacketWay`); each way is a step of the
  group or a stutter under the mapping, whatever deliveries are lost. The invariant it
  needs, `Configured`, says that the intervals and addresses in the queues are those of
  routers. `RoutersNeverAbandon` is the theorem of the group carried over along the mapping.
* *Take-over.* `LoneWait`: the time that a Backup has been alone and what is left of its
  timer stay below four intervals together, and it is alone for no time while a Master
  or an unread packet exists. A reminder may lengthen the timer only while it is not alone.
* *Election.* `Elected` says of each Master and each other router that a better Master's claim
  is in the queue of the worse one, or that the worse one's timer runs longer than the
  time to the better one's next advertisement, or that a goodbye is in the queue of the
  better one, whose reminder is to follow; and that behind each goodbye in a queue comes a
  claim of every Master. Two Masters with empty queues contradict it. The goodbyes are what makes it hard:
  they shorten the timers of all Backups, and only the order of the packets in the queues
  keeps these from taking over.
* *Registry.* `RegistryInvariant` adds to the properties the shape of a service (`ServiceShape`),
  that a daemon that is not up has no tables (`Asleep`), and stronger forms of the others:
  `Attached`, `Heard` and `Counted`. The outcomes of `getService` (constructed, abandoned,
  died) are separated once (`GetServiceOutcomes`), and each is shown to preserve every part.
  What stays of the devices when something is refused is `stranded` in each outcome.
  `RestartRestores` follows from the same outcomes.
* *Sessions.* `SessionInvariant` adds where the newline that is being served stands, and that
  for an operator who waits it is the last cell of all that he has typed: then `Moved`
  moves nothing, though its count is wrong, and each death is one that `OnlyHasteKills`
  names. That the first newline of a buffer
  exists needs a least number; `LeastNatural` gets it from the well-foundedness of
  the finite sets `0..n`, since the library's induction takes an operator.
* *Manual.* `ManualIsUnderstood` says nothing of the history; it is proved for any tables of words,
  while TLC checks it for three numbers and two addresses. The lemmas follow the words from
  their places in the line to the setter.
* *Recursion.* The checksum, the file and what is read from it are recursive functions.
  The library's induction takes an operator for a parameter, which the provers cannot
  instantiate; here induction is a statement about a set of numbers (`UpToLast`), which follows
  from the least number of its complement. For each recursive function a predicate says that a
  function has its values (`Walks`, `Writes`, `Reads`, `Applies`); that one exists, and
  whatever holds of its values, is shown with `UpToLast`.
* *Packets.* The folded sum of words is their total modulo 2^16 - 1, in the range of 1 to
  2^16 - 1 unless all are 0. So the checksum of the sender is the one that the receiver
  computes; and a flipped bit changes the total by less than 2^16 - 1 and not by 0, so that it
  is always seen. `PacketInvariant` says of a packet in the queue that its checksum is wrong if a
  bit of it was flipped, and that it is what its router composed if it was left alone;
  the order of the checks does the rest.
* *Configuration.* `ConfiguratorInvariant`: the file is the beginning of an image of the routers
  it was meant to hold. `ImageHolds` gives the places where entries begin, `EntryRead` that the
  reader finds in an entry what was written there, whichever optional parts it has; with
  them `ReadBack` says that what is read are the first routers. That a start gives each
  router back that is not refused needs that no two entries have one key: the services differ in their keys
  (`OrderedIs`: each is written once), and a key is told from another by the name, id and family
  that are written, as long as each interface has its name. This is the last part of the
  invariant, and false once an interface is gone, which the property excepts.

Only model-checked is liveness: fairness and ENABLED are beyond this prover.

## 5. Where the code and its documents differ

Shown by runs (`findings` in `PROJECT.json`):

1. After a goodbye a Backup whose skew time is 0 never takes over by its timer
   (`MCClaimGoodbye`).
2. `disable` in LinkDown has no effect: the router the operator disabled is Backup or Master
   once its link returns (`MCClaimDisable`, whose trace ends there).
3. A Backup that has just heard its master takes over, when the packet and the
   expired timer were in one batch (`MCLoopTakeover`).

Read off the code while modelling it, and modelled as it is, without a run:

* An interval of 0 in a packet is handed over and obeyed (vrrpsocket.cpp:421,
  vrrpservice.cpp:602): a Backup of such a master starts its timer with 0, and waits for ever.
* `isInterfaceUp` answers "down" when the kernel cannot be asked (netlink.cpp:357): `enable`
  then enters LinkDown though the link is up, and nothing wakes the router until the
  next link message.
* An owner that does not preempt obeys a lower master (vrrpservice.cpp:553), though
  the header says that the owner always preempts (vrrpservice.h:231).
* An address added while Master is placed in the ARP service of the output interface
  and removed from that of the physical one (vrrpservice.cpp:737, 720): with a macvlan
  it stays answered after the step down.
* `setAcceptMode(false)` takes the addresses off the owner too (vrrpservice.cpp:317),
  and its ARP entries stay behind when it steps down.
* Of two subnets with one address, removing one drops the address from the list
  that is advertised (vrrpservice.cpp:747).
* Of two routers of one interface with one address, the first to leave takes the ARP
  entry of the other (arpservice.cpp:58).
* The script of a new Master gets the old master's address (vrrpservice.cpp:515).
* `unsetPrimaryIpAddress` does not set the flag back (vrrpservice.cpp:216).
* A router on a VLAN takes the device it listens on down when it is not Master
  (vrrpservice.cpp:687), so it hears nobody as Backup.
* A signal between the test of `m_aborted` and `epoll_wait` is noticed with the next event
  only (mainloop.cpp:106): at once for a router that takes part, whose timer is that
  event, but a daemon of disabled routers may wait for a packet or an operator.
* A stopped timer may still be called through its deleted monitor
  (mainloop.cpp:86, 126).
* A VLAN that cannot be created costs another router of the interface its
  membership (vrrpservice.cpp:127, 147). Equal ids on two interfaces ask for one
  device name, which is such a case.
* `addInterface` frees its socket when the kernel refuses the device, and uses and frees it
  again (netlink.cpp:148). When the device was made but cannot be looked up, it gives
  the device up and leaves it in the kernel (netlink.cpp:160), where its name is in the
  way of each later router of that id.
* Without a netlink socket a starting daemon finds no old devices (netlink.cpp:299), and
  restores its routers without them.
* Without a socket of its family a router of the file is left out at a start
  (vrrpservice.cpp:86), and lost with the next save.
* A netlink socket that cannot be connected is taken for connected by the next
  router (netlink.cpp:464).
* `readsome` returns what the stream has buffered: of a configuration file longer than
  the buffer, the routers from the first field that straddles its end are lost at the
  next start (configurator.cpp:285).
* A save to a full disk is answered as successful: the stream is flushed by its
  destructor, after the last look at it (configurator.cpp:279).
* The interface's name is not initialised before `if_indextoname` (configurator.cpp:236):
  a router whose interface is gone is saved under whatever name is there, the
  previous router's for one.
* `vlanId` is not initialised for files of version 1 and 2 (configurator.cpp:89).
* Two lines in one read: the rest is moved by a count with the size of the read in
  place of the line's (telnetsession.cpp:165). It is 0 - 1, unsigned, when the buffer
  was empty before the read: the daemon crashes. After a piece of a line, lines
  are repeated or mixed, and the loop may run for ever.
* A line that fills the buffer ends the session: the next `read` has room for nothing
  and returns 0 (telnetsession.cpp:124). The answer to an overlong line is never sent.
* A reply to a client that has hung up raises SIGPIPE, for which there is no handler
  (telnetsession.cpp:97, mainloop.cpp:98): the daemon ends with all its routers.
* `set router` with fewer than four words reads past the vector (telnetsession.cpp:414).
* `enable` and `disable` do not look at their second word; `show router` does not know
  `ipv6`, since the family that it compares with is never AF_UNSPEC (line 625); `status`
  is documented (line 53) and not implemented (line 556).

This is why some properties except something:

* `MembersCounted` and `EveryoneHears`: a daemon to which the kernel has refused anything.
* `DevicesOwned` and `RestartRestores`: the devices that a refusal left behind; the latter also
  routers of equal ids.
* `BoundedTakeover` and `TakesOverSilence`: a timer that was started with 0. The former shows
  that this needs a master's interval below 256; `BackupTimerRuns` is the claim without
  the exception.
* `NotStuckInLinkDown`: a router that could not learn its operstate (`misled`).
* `ServesAdvertised`: an entry whose call failed, or that another router took back.
  `AnswersFollowMasters` is stated for addresses of one router, for which the second does
  not happen.
* `EndsWhenSignalled`: a daemon none of whose routers takes part.
* `SaveIsRestored` and `RestartChangesNothing`: files longer than the buffer. The first says that
  the file is read to its last entry; the second, that these routers are there again,
  but those that the kernel refuses in a start that the daemon survives.
* `LineStaysWhole`, `OnlyHasteKills` and `Responds`: lines typed ahead. `OnlyHasteKills` excepts
  refusals by the kernel and clients that hang up as well, and `Responds` is about
  a daemon with one session: the lines that the operator of another one typed ahead may
  keep the loop for ever.
* `ManualIsUnderstood`: `status` and the forms of `show`, which do not work as documented,
  and `save`, which names nothing.

## 6. What is not modelled

* Statistics of a service, log lines, the wording of telnet output: no behaviour
  depends on them.
* `ArpSocket`, which sends a gratuitous ARP packet and keeps nothing.
* IPv6 reception: it rests on what the kernel delivers to an IPv6 raw socket, and the
  code expects a header that Linux does not.
* Parsing of addresses (a word has the family that a constant gives it), formatting;
  layout of netlink and ARP packets.
* Refusals of the netlink calls that place addresses and set a device's flags, and failures of
  `recv` on the netlink socket: the code drops the results and the messages, so nothing
  it promises of addresses and links holds after one. A refusal to leave a multicast
  group.
* Several telnet sessions at once.
* The error exit of `epoll_wait` (mainloop.cpp:113), and a signal during start-up.
* Packets of more than 255 addresses, whose count is cut to a byte, and odd packet
  lengths.
* The event of an ARP or telnet descriptor that is closed by an earlier callback of the
  batch: `VrrpEventLoop` has it for timers.

## 7. Plan

Done: all modules of section 2, and the theorems of section 4, one for each safety
invariant, action property and refinement that a run checks. Next:

1. Refusals of address placement in `VrrpService`, and failures of `recv` on the netlink socket.
2. The memory behind ARP and telnet descriptors in `VrrpEventLoop`, and a second session in
   `TelnetSession`.
3. A group for `RedundancyGroup` whose members also take over, to state `TakeoverBound`
   once for the abstract specification.
