---------------------------- MODULE VrrpCluster ----------------------------
(***************************************************************************)
(* Several VrrpService routers of one virtual router on a LAN.  What a     *)
(* router multicasts is queued in the socket of every other router, unless *)
(* it is lost.  The configuration stays as it is: routers are enabled,     *)
(* disabled and killed, links stay up, and intervals are all the same.     *)
(*                                                                         *)
(* The LAN is fast and the daemons are prompt: time passes only when every *)
(* packet has been handled and no expired timer waits, and no further than *)
(* to the next expiry.  The shortest timer is 10 msec, far above the delay *)
(* of a LAN, so packets are never late; only the order in which routers    *)
(* handle what is due is left open.                                        *)
(***************************************************************************)
EXTENDS VrrpService

CONSTANTS
  MaxLosses,   \* how many deliveries may be lost in all
  MaxCrashes,  \* how many times a router may be killed
  MaxInbox     \* a router is enabled only while no inbox is longer than this

ASSUME ClusterAssumption ==
  /\ IsFiniteSet(Routers)
  /\ {MaxLosses, MaxCrashes, MaxInbox} \subseteq Nat

VARIABLES
  inbox,       \* packets in the receive queue of each router's socket
  losses,      \* deliveries lost so far
  crashes,     \* routers killed so far
  alone        \* msec each Backup has waited with no Master on the LAN

clusterVars == <<vars, inbox, losses, crashes, alone>>

-----------------------------------------------------------------------------

Masters == {r \in Routers : state[r] = "Master"}
Running == {r \in Routers : state[r] \in {"Backup", "Master"}}

Waited(d) ==
  alone' = [r \in Routers |->
              IF state'[r] = "Backup" /\ (\A q \in Routers : state'[q] # "Master")
              THEN alone[r] + d ELSE 0]

Quiet == \A r \in Routers : inbox[r] = <<>>

\* inboxes after r's step, from queues: its packet reaches all but the lost.
Delivered(queues, r, lost) ==
  [q \in Routers |->
     IF q = r \/ q \in lost THEN queues[q] ELSE queues[q] \o sent'[r]]

Send(queues, r) ==
  \E lost \in SUBSET (Routers \ {r}) :
    /\ Cardinality(lost) + losses <= MaxLosses
    /\ sent'[r] = <<>> => lost = {}
    /\ losses' = losses + Cardinality(lost)
    /\ inbox' = Delivered(queues, r, lost)

Received(r) == [inbox EXCEPT ![r] = Tail(@)]

Enable(r) ==
  /\ \A q \in Routers : Len(inbox[q]) <= MaxInbox
  /\ enable(r)
  /\ Send(inbox, r)
  /\ Waited(0)
  /\ UNCHANGED crashes

Disable(r) ==
  /\ disable(r)
  /\ Send(inbox, r)
  /\ Waited(0)
  /\ UNCHANGED crashes

MasterDown(r) ==
  /\ MasterDownExpires(r)
  /\ Send(inbox, r)
  /\ Waited(0)
  /\ UNCHANGED crashes

Advertise(r) ==
  /\ AdvertisementExpires(r)
  /\ Send(inbox, r)
  /\ Waited(0)
  /\ UNCHANGED crashes

Receive(r) ==
  /\ inbox[r] # <<>>
  /\ onIncomingVrrpPacket(r, Head(inbox[r]))
  /\ Send(Received(r), r)
  /\ Waited(0)
  /\ UNCHANGED crashes

\* A router that does not take part only counts what it receives.
Discard(r) ==
  /\ inbox[r] # <<>>
  /\ r \notin Running
  /\ inbox' = Received(r)
  /\ UNCHANGED <<vars, losses, crashes, alone>>

\* The process is killed: no goodbye.  Its successor starts with the same
\* configuration, Disabled, and first removes the old virtual interfaces and
\* the addresses on them (VrrpManager::removeVrrpInterfaces).
Crash(r) ==
  /\ crashes < MaxCrashes
  /\ r \in Running
  /\ crashes' = crashes + 1
  /\ state' = [state EXCEPT ![r] = "Disabled"]
  /\ StopMasterDown(r)
  /\ StopAdvertisement(r)
  /\ virtualUp' = [virtualUp EXCEPT ![r] = FALSE]
  /\ ifAddrs' = [ifAddrs EXCEPT ![r] = IF outputInterface(r) = Physical THEN @ ELSE {}]
  /\ fakeArp' = [fakeArp EXCEPT ![r] = {}]
  /\ masterIp' = [masterIp EXCEPT ![r] = 0]
  /\ masterAdvertisementInterval' =
       [masterAdvertisementInterval EXCEPT ![r] = DefaultInterval]
  /\ SendNothing(r)
  /\ inbox' = [inbox EXCEPT ![r] = <<>>]
  /\ Waited(0)
  /\ UNCHANGED <<configVars, ipVars, listVars, macvlan, script, linkVars, losses>>

Due(r) == masterDownTimer[r] = 0 \/ advertisementTimer[r] = 0

\* No timer of r expires within less than d.
RunsFor(r, d) == \A t \in {masterDownTimer[r], advertisementTimer[r]} : t >= d \/ t < 0

Tick(d) ==
  /\ Quiet
  /\ \A r \in Routers : ~Due(r) /\ RunsFor(r, d)
  /\ Elapse(d)
  /\ Waited(d)
  /\ UNCHANGED <<inbox, losses, crashes>>

ClusterInit ==
  /\ Init
  /\ \A r \in Routers : link[r].oper
  /\ \A r, q \in Routers : priority[r] = 255 /\ priority[q] = 255 => r = q
  /\ inbox = [r \in Routers |-> <<>>]
  /\ losses = 0
  /\ crashes = 0
  /\ alone = [r \in Routers |-> 0]

ClusterNext ==
  \/ \E r \in Routers :
       \/ Enable(r) \/ Disable(r) \/ Crash(r)
       \/ MasterDown(r) \/ Advertise(r)
       \/ Receive(r) \/ Discard(r)
  \/ \E d \in TimeSteps : Tick(d)

ClusterSpec == ClusterInit /\ [][ClusterNext]_clusterVars

ClusterFairness ==
  /\ \A r \in Routers :
       /\ WF_clusterVars(MasterDown(r))
       /\ WF_clusterVars(Advertise(r))
       /\ WF_clusterVars(Receive(r))
       /\ WF_clusterVars(Discard(r))
  /\ WF_clusterVars(\E d \in TimeSteps : Tick(d))

FairClusterSpec == ClusterSpec /\ ClusterFairness

-----------------------------------------------------------------------------
(* Properties *)

\* Without losses two Masters coexist only while a packet that ends it is under
\* way: the election, the tie-break by address, the reminder that a Master
\* sends on hearing a goodbye and the length of the timers all serve this.
OneMasterWhenQuiet ==
  losses = 0 /\ Quiet /\ (\A r \in Routers : ~Due(r)) => Cardinality(Masters) <= 1

\* A Backup on a LAN without a Master takes over before four intervals have
\* passed, though the Master crashed, said goodbye or lost its last packets.
TakeoverBound ==
  \A r \in Routers : state[r] = "Backup" =>
    alone[r] < 40 * masterAdvertisementInterval[r]

\* Once nobody is enabled, disabled or killed any more, there comes a time from
\* which on exactly one running router is Master, if there is any.
Settled == Running # {} => Cardinality(Masters) = 1

Upheavals == \E r \in Routers : Enable(r) \/ Disable(r) \/ Crash(r)

Converges == <>[][~Upheavals]_clusterVars => <>[]Settled

\* And where every router preempts it is the best: no other running router has
\* a higher priority.
BestIsMaster ==
  \A m \in Masters : \A r \in Running : priority[r] <= priority[m]

ConvergesToBest ==
  (\A r \in Routers : preemptMode[r]) =>
    (<>[][~Upheavals]_clusterVars => <>[]BestIsMaster)

=============================================================================
