-------------------------- MODULE VrrpCluster_proofs --------------------------
(***************************************************************************)
(* The routers of a LAN, for any number of them and any configuration:     *)
(* what the cluster does is a step of RedundancyGroup, a LAN without a     *)
(* Master is taken over in time, and the election leaves one Master.       *)
(*                                                                         *)
(* A handler changes its router in one of a few ways (Patient, Claims,     *)
(* Departs, Hastens, Still) and no other router; the invariants are proved *)
(* of these ways.                                                          *)
(***************************************************************************)
EXTENDS VrrpClusterRefinement, VrrpService_proofs, FiniteSetTheorems

-----------------------------------------------------------------------------
(* Queues of packets *)

Queues == Seq(Advertisements)

Holds(s, x) == \E i \in 1..Len(s) : s[i] = x

HasGoodbye(s) == \E i \in 1..Len(s) : s[i].priority = 0

\* Behind every goodbye in the queue comes x.
Covered(s, x) ==
  \A i \in 1..Len(s) : s[i].priority = 0 => \E j \in (i + 1)..Len(s) : s[j] = x

LEMMA TailParts ==
  ASSUME NEW s \in Queues, s # <<>>
  PROVE  /\ Head(s) = s[1] /\ Head(s) \in Advertisements
         /\ Tail(s) \in Queues
         /\ Len(s) \in Nat \ {0}
         /\ Len(Tail(s)) = Len(s) - 1
         /\ \A i \in 1..Len(Tail(s)) : Tail(s)[i] = s[i + 1]
BY DEF Queues

LEMMA AddedParts ==
  ASSUME NEW s \in Queues, NEW x \in Advertisements
  PROVE  /\ s \o <<x>> \in Queues
         /\ Len(s) \in Nat
         /\ Len(s \o <<x>>) = Len(s) + 1
         /\ \A i \in 1..Len(s) : (s \o <<x>>)[i] = s[i]
         /\ (s \o <<x>>)[Len(s) + 1] = x
         /\ s \o <<x>> # <<>>
BY DEF Queues

LEMMA NothingAdded ==
  ASSUME NEW s \in Queues
  PROVE  s \o <<>> = s
BY DEF Queues

LEMMA HeldInTail ==
  ASSUME NEW s \in Queues, s # <<>>, NEW x
  PROVE  /\ Holds(s, x) /\ Head(s) # x => Holds(Tail(s), x)
         /\ Holds(Tail(s), x) => Holds(s, x)
<1>1. ASSUME NEW i \in 1..Len(s), s[i] = x, Head(s) # x PROVE Holds(Tail(s), x)
  <2>1. i # 1 /\ i - 1 \in 1..Len(Tail(s)) /\ Tail(s)[i - 1] = s[(i - 1) + 1] /\ (i - 1) + 1 = i
    BY <1>1, TailParts
  <2> QED BY <1>1, <2>1 DEF Holds
<1>2. ASSUME NEW i \in 1..Len(Tail(s)), Tail(s)[i] = x PROVE Holds(s, x)
  <2>1. i + 1 \in 1..Len(s) /\ s[i + 1] = x
    BY <1>2, TailParts
  <2> QED BY <2>1 DEF Holds
<1> QED BY <1>1, <1>2 DEF Holds

LEMMA GoodbyeInTail ==
  ASSUME NEW s \in Queues, s # <<>>, HasGoodbye(s), Head(s).priority # 0
  PROVE  HasGoodbye(Tail(s))
<1> PICK i \in 1..Len(s) : s[i].priority = 0
  BY DEF HasGoodbye
<1>1. i # 1 /\ i - 1 \in 1..Len(Tail(s)) /\ Tail(s)[i - 1] = s[(i - 1) + 1] /\ (i - 1) + 1 = i
  BY TailParts
<1> QED BY <1>1 DEF HasGoodbye

LEMMA CoveredInTail ==
  ASSUME NEW s \in Queues, s # <<>>, NEW x, Covered(s, x)
  PROVE  /\ Covered(Tail(s), x)
         /\ Head(s).priority = 0 => Holds(Tail(s), x)
<1>1. \A j \in 2..Len(s) : j - 1 \in 1..Len(Tail(s)) /\ Tail(s)[j - 1] = s[j]
  <2>1. \A j \in 2..Len(s) : j - 1 \in 1..Len(Tail(s)) /\ (j - 1) + 1 = j
    BY TailParts
  <2>2. \A j \in 2..Len(s) : Tail(s)[j - 1] = s[(j - 1) + 1]
    BY <2>1, TailParts
  <2> QED BY <2>1, <2>2
<1>2. ASSUME NEW i \in 1..Len(Tail(s)), Tail(s)[i].priority = 0
      PROVE  \E j \in (i + 1)..Len(Tail(s)) : Tail(s)[j] = x
  <2>1. i + 1 \in 1..Len(s) /\ s[i + 1].priority = 0
    BY <1>2, TailParts
  <2>2. PICK j \in ((i + 1) + 1)..Len(s) : s[j] = x
    BY <2>1 DEF Covered
  <2>3. j \in 2..Len(s) /\ j - 1 \in (i + 1)..Len(Tail(s))
    BY TailParts
  <2> QED BY <1>1, <2>2, <2>3
<1>3. ASSUME Head(s).priority = 0 PROVE Holds(Tail(s), x)
  <2>1. 1 \in 1..Len(s) /\ s[1].priority = 0
    BY <1>3, TailParts
  <2>2. PICK j \in (1 + 1)..Len(s) : s[j] = x
    BY <2>1 DEF Covered
  <2> QED BY <1>1, <2>2 DEF Holds
<1> QED BY <1>2, <1>3 DEF Covered

LEMMA HeldWhenAdded ==
  ASSUME NEW s \in Queues, NEW y \in Advertisements, NEW x
  PROVE  /\ Holds(s \o <<y>>, y)
         /\ Holds(s, x) => Holds(s \o <<y>>, x)
         /\ HasGoodbye(s) => HasGoodbye(s \o <<y>>)
         /\ y.priority = 0 => HasGoodbye(s \o <<y>>)
<1>1. Len(s) + 1 \in 1..Len(s \o <<y>>) /\ \A i \in 1..Len(s) : i \in 1..Len(s \o <<y>>)
  BY AddedParts
<1> QED BY <1>1, AddedParts, ZenonT(40) DEF Holds, HasGoodbye

LEMMA CoveredWhenAdded ==
  ASSUME NEW s \in Queues, NEW y \in Advertisements, NEW x, y.priority # 0,
         Covered(s, x) \/ y = x
  PROVE  Covered(s \o <<y>>, x)
<1> SUFFICES ASSUME NEW i \in 1..Len(s \o <<y>>), (s \o <<y>>)[i].priority = 0
             PROVE  \E j \in (i + 1)..Len(s \o <<y>>) : (s \o <<y>>)[j] = x
  BY DEF Covered
<1>1. i \in 1..Len(s) /\ s[i].priority = 0
  BY AddedParts
<1>2. CASE y = x
  <2>1. Len(s) + 1 \in (i + 1)..Len(s \o <<y>>)
    BY <1>1, AddedParts
  <2> QED BY <1>2, <2>1, AddedParts
<1>3. CASE Covered(s, x)
  <2>1. PICK j \in (i + 1)..Len(s) : s[j] = x
    BY <1>1, <1>3 DEF Covered
  <2>2. j \in (i + 1)..Len(s \o <<y>>) /\ j \in 1..Len(s)
    BY AddedParts
  <2> QED BY <2>1, <2>2, AddedParts
<1> QED BY <1>2, <1>3

-----------------------------------------------------------------------------
(* The ways in which a handler changes its router *)

OwnClaim(r) == IF primaryIp[r] = 0 THEN <<>> ELSE <<Advertisement(r, priority[r])>>

Patient(r, interval) ==
  /\ state'[r] = "Backup"
  /\ masterAdvertisementInterval'[r] = interval
  /\ masterDownTimer'[r] = Start(10 * masterDownInterval(priority[r], interval))
  /\ sent'[r] = <<>>

Hastens(r) ==
  /\ state'[r] = "Backup"
  /\ masterAdvertisementInterval'[r] = masterAdvertisementInterval[r]
  /\ masterDownTimer'[r] = Start(10 * skewTime(priority[r], masterAdvertisementInterval[r]))
  /\ sent'[r] = <<>>

Claims(r) ==
  /\ state'[r] = "Master"
  /\ advertisementTimer'[r] = 10 * advertisementInterval[r]
  /\ sent'[r] = OwnClaim(r)

Departs(r) ==
  /\ state'[r] \in {"Disabled", "LinkDown"}
  /\ \/ sent'[r] = <<>>
     \/ state[r] = "Master" /\ sent'[r] = <<Advertisement(r, 0)>>

Still(r) == Undisturbed(r) /\ sent'[r] = <<>>

LEMMA SendingWay ==
  ASSUME TypeOK, NEW r \in Routers
  PROVE  /\ sendAdvertisement(r, priority[r]) => sent'[r] = OwnClaim(r)
         /\ sendAdvertisement(r, 0) => sent'[r] = <<>> \/ sent'[r] = <<Advertisement(r, 0)>>
         /\ SendNothing(r) => sent'[r] = <<>>
BY DEF TypeOK, sendAdvertisement, SendNothing, OwnClaim

LEMMA BecomeMasterWay ==
  ASSUME TypeOK, NEW r \in Routers, BecomeMaster(r)
  PROVE  Claims(r)
<1>1. setState(r, "Master") /\ sendAdvertisement(r, priority[r]) /\ StartAdvertisement(r)
  BY DEF BecomeMaster
<1>2. state'[r] = "Master" /\ sent'[r] = OwnClaim(r)
  BY <1>1, SetStateOutcome, SendingWay
<1>3. advertisementTimer'[r] = 10 * advertisementInterval[r]
  BY <1>1, TimerType
<1> QED BY <1>2, <1>3 DEF Claims

LEMMA PatientWay ==
  ASSUME TypeOK, NEW r \in Routers, NEW i, StartMasterDown(r, i), SendNothing(r),
         masterAdvertisementInterval' = [masterAdvertisementInterval EXCEPT ![r] = i],
         state'[r] = "Backup"
  PROVE  Patient(r, i)
<1>1. masterAdvertisementInterval'[r] = i
  BY DEF TypeOK
<1>2. masterDownTimer'[r] = Start(10 * masterDownInterval(priority[r], i))
  BY DEF StartMasterDown, TypeOK
<1>3. sent'[r] = <<>>
  BY SendingWay
<1> QED BY <1>1, <1>2, <1>3 DEF Patient

LEMMA EnableWay ==
  ASSUME TypeOK, NEW r \in Routers, enable(r)
  PROVE  /\ state[r] = "Disabled"
         /\ \/ priority[r] # 255 /\ Patient(r, advertisementInterval[r])
            \/ priority[r] = 255 /\ Claims(r)
            \/ Departs(r)
<1>1. CASE startup(r)
  <2>1. CASE priority[r] = 255 /\ BecomeMaster(r)
    BY <2>1, BecomeMasterWay DEF enable
  <2>2. CASE /\ priority[r] # 255
             /\ masterAdvertisementInterval' =
                  [masterAdvertisementInterval EXCEPT ![r] = advertisementInterval[r]]
             /\ StartMasterDown(r, advertisementInterval[r])
             /\ setState(r, "Backup")
             /\ SendNothing(r)
    <3>1. state'[r] = "Backup"
      BY <2>2, SetStateOutcome
    <3> QED BY <2>2, <3>1, PatientWay DEF enable
  <2> QED BY <1>1, <2>1, <2>2 DEF startup
<1>2. CASE setState(r, "LinkDown") /\ SendNothing(r)
  <2>1. state'[r] = "LinkDown" /\ sent'[r] = <<>>
    BY <1>2, SetStateOutcome, SendingWay
  <2> QED BY <2>1 DEF enable, Departs
<1> QED BY <1>1, <1>2 DEF enable

LEMMA DisableWay ==
  ASSUME TypeOK, NEW r \in Routers, disable(r)
  PROVE  state[r] \in {"Backup", "Master"} /\ state'[r] = "Disabled" /\ Departs(r)
<1>1. shutdown(r, "Disabled")
  BY DEF disable
<1>2. state'[r] = "Disabled" /\ state[r] \in {"Backup", "Master"}
  BY <1>1, SetStateOutcome DEF shutdown
<1>3. SendNothing(r) \/ (state[r] = "Master" /\ sendAdvertisement(r, 0))
  BY <1>1 DEF shutdown
<1> QED BY <1>2, <1>3, SendingWay DEF Departs

LEMMA TimerWays ==
  ASSUME TypeOK, NEW r \in Routers
  PROVE  /\ MasterDownExpires(r) => state[r] = "Backup" /\ masterDownTimer[r] = 0 /\ Claims(r)
         /\ AdvertisementExpires(r) => state[r] = "Master" /\ Claims(r)
<1>1. MasterDownExpires(r) => state[r] = "Backup" /\ masterDownTimer[r] = 0 /\ Claims(r)
  BY BecomeMasterWay DEF MasterDownExpires, onMasterDownTimer
<1>2. ASSUME AdvertisementExpires(r) PROVE state[r] = "Master" /\ Claims(r)
  <2>1. /\ state[r] = "Master" /\ state' = state
        /\ sendAdvertisement(r, priority[r]) /\ StartAdvertisement(r)
    BY <1>2 DEF AdvertisementExpires, onAdvertisementTimer
  <2>2. sent'[r] = OwnClaim(r)
    BY <2>1, SendingWay
  <2>3. advertisementTimer'[r] = 10 * advertisementInterval[r]
    BY <2>1, TimerType
  <2> QED BY <2>1, <2>2, <2>3 DEF Claims
<1> QED BY <1>1, <1>2

PacketWay(r, pkt) ==
  \/ state[r] = "Backup" /\ pkt.priority = 0 /\ Hastens(r)
  \/ state[r] = "Backup" /\ pkt.priority # 0 /\ Patient(r, pkt.interval)
  \/ /\ pkt.priority # 0 /\ Still(r)
     /\ \/ state[r] = "Backup" /\ ~RightMaster(r, pkt)
        \/ state[r] = "Master" /\ ~BetterMaster(r, pkt)
  \/ state[r] = "Master" /\ pkt.priority = 0 /\ Claims(r)
  \/ /\ state[r] = "Master" /\ pkt.priority # 0 /\ BetterMaster(r, pkt)
     /\ Patient(r, pkt.interval)

LEMMA PacketWays ==
  ASSUME TypeOK, NEW r \in Routers, NEW pkt, onIncomingVrrpPacket(r, pkt)
  PROVE  PacketWay(r, pkt)
<1>1. CASE BackupHearsGoodbye(r, pkt)
  <2>1. sent'[r] = <<>>
    BY <1>1, SendingWay DEF BackupHearsGoodbye
  <2>2. masterDownTimer'[r] = Start(10 * skewTime(priority[r], masterAdvertisementInterval[r]))
    BY <1>1 DEF BackupHearsGoodbye, TypeOK
  <2> QED BY <1>1, <2>1, <2>2 DEF BackupHearsGoodbye, Hastens, masterVars, PacketWay
<1>2. CASE BackupHearsMaster(r, pkt)
  <2>1. state'[r] = "Backup" /\ state[r] = "Backup" /\ pkt.priority # 0
    BY <1>2 DEF BackupHearsMaster
  <2>2. Patient(r, pkt.interval)
    BY <1>2, <2>1, PatientWay DEF BackupHearsMaster
  <2> QED BY <2>1, <2>2 DEF PacketWay
<1>3. CASE IgnoresAdvertisement(r, pkt)
  <2>1. sent'[r] = <<>>
    BY <1>3, SendingWay DEF IgnoresAdvertisement
  <2>2. Undisturbed(r)
    BY <1>3 DEF IgnoresAdvertisement, SendNothing, Undisturbed, timerVars, masterVars
  <2> QED BY <1>3, <2>1, <2>2 DEF IgnoresAdvertisement, Still, PacketWay
<1>4. CASE MasterHearsGoodbye(r, pkt)
  <2>1. /\ state[r] = "Master" /\ state' = state /\ pkt.priority = 0
        /\ sendAdvertisement(r, priority[r]) /\ StartAdvertisement(r)
    BY <1>4 DEF MasterHearsGoodbye
  <2>2. sent'[r] = OwnClaim(r)
    BY <2>1, SendingWay
  <2>3. advertisementTimer'[r] = 10 * advertisementInterval[r]
    BY <2>1, TimerType
  <2> QED BY <2>1, <2>2, <2>3 DEF Claims, PacketWay
<1>5. CASE MasterYields(r, pkt)
  <2>1. state'[r] = "Backup"
    BY <1>5, SetStateOutcome DEF MasterYields
  <2>2. Patient(r, pkt.interval)
    BY <1>5, <2>1, PatientWay DEF MasterYields
  <2> QED BY <1>5, <2>2 DEF MasterYields, PacketWay
<1> QED BY <1>1, <1>2, <1>3, <1>4, <1>5 DEF onIncomingVrrpPacket

-----------------------------------------------------------------------------
(* Types *)

InboxType == inbox \in [Routers -> Queues]

\* sent holds one packet or none, and reaches the inboxes as Delivered says.
LEMMA SendKeeps ==
  ASSUME NEW queues \in [Routers -> Queues], NEW r \in Routers, TypeOK', Send(queues, r)
  PROVE  InboxType'
<1>1. PICK lost : inbox' = Delivered(queues, r, lost)
  BY DEF Send
<1>2. sent'[r] \in Queues
  BY DEF TypeOK, Queues
<1>3. \A q \in Routers : queues[q] \in Queues /\ queues[q] \o sent'[r] \in Queues
  BY <1>2 DEF Queues
<1> QED BY <1>1, <1>3 DEF Delivered, InboxType

LEMMA ReceivedType ==
  ASSUME InboxType, NEW r \in Routers, inbox[r] # <<>>
  PROVE  /\ Received(r) \in [Routers -> Queues]
         /\ Received(r)[r] = Tail(inbox[r])
         /\ \A q \in Routers \ {r} : Received(r)[q] = inbox[q]
         /\ Head(inbox[r]) \in Advertisements
<1>1. inbox[r] \in Queues
  BY DEF InboxType
<1>2. Tail(inbox[r]) \in Queues /\ Head(inbox[r]) \in Advertisements
  BY <1>1, TailParts
<1> QED BY <1>2 DEF Received, InboxType

LEMMA CrashType ==
  ASSUME ConfigAssumption, TypeOK, NEW r \in Routers, Crash(r)
  PROVE  TypeOK'
<1>1. UNCHANGED Outside
  BY DEF Crash, Outside
<1>2. state' \in [Routers -> States] /\ virtualUp' \in [Routers -> BOOLEAN]
  BY TypeParts DEF Crash, StateMachineTypeOK, States
<1>3. masterDownTimer' \in [Routers -> Timers] /\ advertisementTimer' \in [Routers -> Timers]
  BY TimerType DEF Crash
<1>4. ifAddrs' \in [Routers -> SUBSET Subnets] /\ fakeArp' \in [Routers -> SUBSET Entries]
  <2>1. ifAddrs' = [ifAddrs EXCEPT ![r] = IF outputInterface(r) = Physical THEN ifAddrs[r] ELSE {}]
    BY DEF Crash
  <2>2. fakeArp' = [fakeArp EXCEPT ![r] = {}]
    BY DEF Crash
  <2> QED BY <2>1, <2>2, TypeParts DEF StateMachineTypeOK
<1>5. /\ masterIp' \in [Routers -> Ips]
      /\ masterAdvertisementInterval' \in [Routers -> SentIntervals]
  <2>1. 0 \in Ips /\ DefaultInterval \in SentIntervals
    BY Ranges DEF Ips
  <2> QED BY <2>1, TypeParts DEF Crash, StateMachineTypeOK
<1>6. /\ sent' \in [Routers -> Seq(Advertisements)]
      /\ announced' \in [Routers -> IntervalRange \cup {0}]
  BY SendType DEF Crash
<1>7. script' \in [Routers -> Environments]
  BY TypeParts DEF Crash, StateMachineTypeOK
<1>8. StateMachineTypeOK'
  BY <1>2, <1>3, <1>4, <1>5, <1>6, <1>7 DEF StateMachineTypeOK
<1> QED BY <1>1, <1>8, StateMachineType

\* What an operator sets, and nothing in the cluster changes.
Settings == <<configVars, ipVars, listVars, macvlan>>

\* Each handler of the cluster is a step of the service, also when it is a packet
\* from an inbox that it handles.
Handler(r, queues) ==
  /\ Step(r)
  /\ UNCHANGED Settings
  /\ Send(queues, r)
  /\ Waited(0)

LEMMA HandlersOfCluster ==
  ASSUME TypeOK, InboxType, NEW r \in Routers
  PROVE  /\ Enable(r) \/ Disable(r) \/ MasterDown(r) \/ Advertise(r) => Handler(r, inbox)
         /\ Receive(r) => Handler(r, Received(r))
<1>1. Enable(r) => Handler(r, inbox)
  BY DEF Enable, enable, Handler, Step, Operate, Settings
<1>2. Disable(r) => Handler(r, inbox)
  BY DEF Disable, disable, Handler, Step, Operate, Settings
<1>3. MasterDown(r) => Handler(r, inbox)
  BY DEF MasterDown, MasterDownExpires, onMasterDownTimer, Handler, Step, React, Settings
<1>4. Advertise(r) => Handler(r, inbox)
  BY DEF Advertise, AdvertisementExpires, onAdvertisementTimer, Handler, Step, React, Settings
<1>5. Receive(r) => Handler(r, Received(r))
  <2>1. Receive(r) => Head(inbox[r]) \in Advertisements
    BY ReceivedType DEF Receive
  <2> QED BY <2>1 DEF Receive, onIncomingVrrpPacket, Handler, Step, Settings
<1> QED BY <1>1, <1>2, <1>3, <1>4, <1>5

LEMMA UnchangedType ==
  ASSUME ConfigAssumption, TypeOK, UNCHANGED vars
  PROVE  TypeOK'
BY NextType

LEMMA ClusterType ==
  ASSUME ConfigAssumption, TypeOK, InboxType, [ClusterNext]_clusterVars
  PROVE  TypeOK' /\ InboxType'
<1>1. ASSUME NEW r \in Routers, NEW queues \in [Routers -> Queues], Handler(r, queues)
      PROVE  TypeOK' /\ InboxType'
  <2>1. TypeOK'
    BY <1>1, StepType DEF Handler
  <2> QED BY <1>1, <2>1, SendKeeps DEF Handler
<1>2. ASSUME NEW r \in Routers,
             Enable(r) \/ Disable(r) \/ MasterDown(r) \/ Advertise(r) \/ Receive(r)
      PROVE  TypeOK' /\ InboxType'
  <2>1. inbox \in [Routers -> Queues]
    BY DEF InboxType
  <2>2. Receive(r) => Received(r) \in [Routers -> Queues]
    BY ReceivedType DEF Receive
  <2> QED BY <1>1, <1>2, <2>1, <2>2, HandlersOfCluster
<1>3. ASSUME NEW r \in Routers, Crash(r) PROVE TypeOK' /\ InboxType'
  <2>1. inbox' = [inbox EXCEPT ![r] = <<>>] /\ <<>> \in Queues
    BY <1>3 DEF Crash, Queues
  <2> QED BY <1>3, <2>1, CrashType DEF InboxType
<1>4. ASSUME NEW r \in Routers, Discard(r) PROVE TypeOK' /\ InboxType'
  BY <1>4, ReceivedType, UnchangedType DEF Discard, InboxType
<1>5. ASSUME NEW d \in TimeSteps, Tick(d) PROVE TypeOK' /\ InboxType'
  BY <1>5, ElapseType DEF Tick, InboxType
<1>6. CASE UNCHANGED clusterVars
  BY <1>6, UnchangedType DEF clusterVars, InboxType
<1> QED BY <1>2, <1>3, <1>4, <1>5, <1>6 DEF ClusterNext

\* The configuration stays as it is.
LEMMA ConfigurationKept ==
  ASSUME TypeOK, InboxType, [ClusterNext]_clusterVars
  PROVE  UNCHANGED Settings
<1>1. ASSUME NEW r \in Routers,
             Enable(r) \/ Disable(r) \/ MasterDown(r) \/ Advertise(r) \/ Receive(r)
      PROVE  UNCHANGED Settings
  BY <1>1, HandlersOfCluster DEF Handler
<1>2. ASSUME NEW r \in Routers, Crash(r) PROVE UNCHANGED Settings
  BY <1>2 DEF Crash, Settings
<1>3. ASSUME NEW r \in Routers, Discard(r) PROVE UNCHANGED Settings
  BY <1>3 DEF Discard, Settings, vars
<1>4. ASSUME NEW d \in TimeSteps, Tick(d) PROVE UNCHANGED Settings
  BY <1>4 DEF Tick, Elapse, Settings
<1>5. CASE UNCHANGED clusterVars
  BY <1>5 DEF clusterVars, vars, Settings
<1> QED BY <1>1, <1>2, <1>3, <1>4, <1>5 DEF ClusterNext

LEMMA CrashOthers ==
  ASSUME TypeOK, NEW r \in Routers, Crash(r)
  PROVE  OthersUndisturbed(r) /\ state'[r] = "Disabled"
<1>1. state' = [state EXCEPT ![r] = "Disabled"] /\ state \in [Routers -> States]
  BY DEF Crash, TypeOK
<1>2. /\ \A q \in Routers \ {r} : masterDownTimer'[q] = masterDownTimer[q]
      /\ \A q \in Routers \ {r} : advertisementTimer'[q] = advertisementTimer[q]
  BY TimerType DEF Crash
<1>3. \A q \in Routers \ {r} : masterAdvertisementInterval'[q] = masterAdvertisementInterval[q]
  BY DEF Crash, TypeOK
<1>4. announced' = announced
  BY DEF Crash, SendNothing
<1> QED BY <1>1, <1>2, <1>3, <1>4 DEF OthersUndisturbed, Undisturbed

LEMMA ClusterInitType ==
  ASSUME ConfigAssumption, ClusterInit
  PROVE  TypeOK /\ InboxType
<1>1. <<>> \in Queues
  BY DEF Queues
<1> QED BY <1>1, InitType DEF ClusterInit, InboxType

\* The inboxes after r's packet, if there is one, reached all the others but the lost.
Reaches(queues, r, lost) ==
  /\ losses' = losses + Cardinality(lost)
  /\ sent'[r] = <<>> => inbox' = queues
  /\ \A x \in Advertisements : sent'[r] = <<x>> =>
       inbox' = [p \in Routers |-> IF p = r \/ p \in lost THEN queues[p]
                                   ELSE queues[p] \o <<x>>]

\* What a handler sends reaches every queue but its own and those where it is lost.
LEMMA Delivery ==
  ASSUME NEW queues \in [Routers -> Queues], NEW r \in Routers, Send(queues, r)
  PROVE  \E lost \in SUBSET (Routers \ {r}) : Reaches(queues, r, lost)
<1>1. PICK lost \in SUBSET (Routers \ {r}) :
        losses' = losses + Cardinality(lost) /\ inbox' = Delivered(queues, r, lost)
  BY DEF Send
<1>2. ASSUME sent'[r] = <<>> PROVE inbox' = queues
  BY <1>1, <1>2, NothingAdded DEF Delivered
<1>3. ASSUME NEW x \in Advertisements, sent'[r] = <<x>>
      PROVE  inbox' = [p \in Routers |-> IF p = r \/ p \in lost THEN queues[p]
                                         ELSE queues[p] \o <<x>>]
  BY <1>1, <1>3 DEF Delivered
<1> QED BY <1>1, <1>2, <1>3 DEF Reaches

Added(s, x) == s \o <<x>>

LEMMA DeliveryTo ==
  ASSUME NEW queues \in [Routers -> Queues], NEW r \in Routers, NEW q \in Routers,
         Send(queues, r)
  PROVE  /\ q = r \/ sent'[r] = <<>> => inbox'[q] = queues[q]
         /\ \A x \in Advertisements : sent'[r] = <<x>> =>
              inbox'[q] = queues[q] \/ (q # r /\ inbox'[q] = Added(queues[q], x))
         /\ \A x \in Advertisements : losses \in Nat /\ losses' = 0 /\ q # r /\ sent'[r] = <<x>> =>
              inbox'[q] = Added(queues[q], x)
         /\ losses \in Nat => losses' \in Nat /\ losses <= losses'
<1>1. PICK lost \in SUBSET (Routers \ {r}) :
        /\ losses' = losses + Cardinality(lost)
        /\ sent'[r] = <<>> => inbox' = queues
        /\ \A x \in Advertisements : sent'[r] = <<x>> =>
             inbox' = [p \in Routers |-> IF p = r \/ p \in lost THEN queues[p]
                                         ELSE queues[p] \o <<x>>]
  BY Delivery DEF Reaches
<1>2. IsFiniteSet(lost) /\ Cardinality(lost) \in Nat
  <2>1. IsFiniteSet(Routers)
    BY ClusterAssumption
  <2>2. lost \in SUBSET Routers
    OBVIOUS
  <2>3. IsFiniteSet(lost)
    BY <2>1, <2>2, FS_Subset
  <2> QED BY <2>3, FS_CardinalityType
<1>3. losses \in Nat => losses' \in Nat /\ losses <= losses'
  BY <1>1, <1>2
<1>4. losses \in Nat /\ losses' = 0 => lost = {}
  <2>1. losses \in Nat /\ losses' = 0 => Cardinality(lost) = 0
    BY <1>1, <1>2
  <2> QED BY <1>2, <2>1, FS_EmptySet
<1>5. ASSUME NEW x \in Advertisements, sent'[r] = <<x>>
      PROVE  /\ q = r \/ q \in lost => inbox'[q] = queues[q]
             /\ q # r /\ q \notin lost => inbox'[q] = Added(queues[q], x)
  <2>1. inbox' = [p \in Routers |-> IF p = r \/ p \in lost THEN queues[p]
                                    ELSE queues[p] \o <<x>>]
    BY <1>1, <1>5
  <2> QED BY <2>1 DEF Added
<1>6. q = r => inbox'[q] = queues[q]
  BY DEF Send, Delivered
<1> QED BY <1>1, <1>3, <1>4, <1>5, <1>6

-----------------------------------------------------------------------------
(* The mapping to RedundancyGroup *)

ClaimOf(p) == <<p.priority, p.src>>

ClaimsIn(s) == {ClaimOf(s[i]) : i \in {j \in DOMAIN s : s[j].priority # 0}}

LEMMA ClaimsOfInbox ==
  /\ claimsOf = [r \in Routers |-> ClaimsIn(inbox[r])]
  /\ claimsOf' = [r \in Routers |-> ClaimsIn(inbox'[r])]
BY DEF claimsOf, ClaimsIn, ClaimOf

LEMMA ClaimsInParts ==
  ASSUME NEW s \in Queues, NEW c
  PROVE  c \in ClaimsIn(s) <=> \E i \in 1..Len(s) : s[i].priority # 0 /\ c = ClaimOf(s[i])
BY DEF ClaimsIn, Queues

LEMMA ClaimsInNothing == ClaimsIn(<<>>) = {}
BY DEF ClaimsIn

LEMMA ClaimsWhenAdded ==
  ASSUME NEW s \in Queues, NEW x \in Advertisements
  PROVE  /\ x.priority = 0 => ClaimsIn(s \o <<x>>) = ClaimsIn(s)
         /\ x.priority # 0 => ClaimsIn(s \o <<x>>) = ClaimsIn(s) \cup {ClaimOf(x)}
<1> DEFINE t == s \o <<x>>
<1>1. t \in Queues /\ Len(s) \in Nat /\ Len(t) = Len(s) + 1
  BY AddedParts
<1>2. /\ \A i \in 1..Len(s) : i \in 1..Len(t) /\ t[i] = s[i]
      /\ Len(t) \in 1..Len(t) /\ t[Len(t)] = x
      /\ \A i \in 1..Len(t) : i \in 1..Len(s) \/ i = Len(t)
  BY <1>1, AddedParts
<1> HIDE DEF t
<1>3. \A c : c \in ClaimsIn(t) <=> c \in ClaimsIn(s) \/ (x.priority # 0 /\ c = ClaimOf(x))
  BY <1>1, <1>2, ClaimsInParts
<1> QED BY <1>3 DEF t

LEMMA ClaimsOfTail ==
  ASSUME NEW s \in Queues, s # <<>>
  PROVE  /\ Head(s).priority = 0 => ClaimsIn(Tail(s)) = ClaimsIn(s)
         /\ Head(s).priority # 0 => ClaimsIn(s) = ClaimsIn(Tail(s)) \cup {ClaimOf(Head(s))}
<1> DEFINE t == Tail(s)
<1>1. /\ t \in Queues /\ Len(s) \in Nat \ {0} /\ Len(t) = Len(s) - 1 /\ Head(s) = s[1]
      /\ \A i \in 1..Len(t) : t[i] = s[i + 1]
  BY TailParts
<1> HIDE DEF t
<1>2. /\ \A i \in 1..Len(t) : i + 1 \in 1..Len(s) /\ t[i] = s[i + 1]
      /\ \A i \in 1..Len(s) : i = 1 \/ (i - 1 \in 1..Len(t) /\ t[i - 1] = s[i])
      /\ 1 \in 1..Len(s)
  <2>1. \A i \in 1..Len(s) : i = 1 \/ (i - 1 \in 1..Len(t) /\ (i - 1) + 1 = i)
    BY <1>1
  <2> QED BY <1>1, <2>1
<1>3. ASSUME NEW c \in ClaimsIn(t) PROVE c \in ClaimsIn(s)
  <2>1. PICK i \in 1..Len(t) : t[i].priority # 0 /\ c = ClaimOf(t[i])
    BY <1>1, ClaimsInParts
  <2> QED BY <1>2, <2>1, ClaimsInParts
<1>4. ASSUME NEW c \in ClaimsIn(s), Head(s).priority = 0 \/ c # ClaimOf(Head(s))
      PROVE  c \in ClaimsIn(t)
  <2>1. PICK i \in 1..Len(s) : s[i].priority # 0 /\ c = ClaimOf(s[i])
    BY ClaimsInParts
  <2>2. i - 1 \in 1..Len(t) /\ t[i - 1] = s[i]
    BY <1>1, <1>2, <1>4, <2>1
  <2> QED BY <1>1, <2>1, <2>2, ClaimsInParts
<1>5. Head(s).priority # 0 => ClaimOf(Head(s)) \in ClaimsIn(s)
  BY <1>1, <1>2, ClaimsInParts
<1> QED BY <1>3, <1>4, <1>5 DEF t

RoleIn(s) == IF s \in {"Backup", "Master"} THEN s ELSE "Off"

LEMMA RoleAfter ==
  ASSUME NEW r \in Routers, OthersUndisturbed(r)
  PROVE  roleOf' = [roleOf EXCEPT ![r] = RoleIn(state'[r])]
<1>1. \A q \in Routers \ {r} : state'[q] = state[q]
  BY DEF OthersUndisturbed, Undisturbed
<1> QED BY <1>1 DEF roleOf, RoleIn

LEMMA RoleUnchanged ==
  ASSUME NEW r \in Routers, OthersUndisturbed(r), state'[r] = state[r]
  PROVE  roleOf' = roleOf
<1>1. \A q \in Routers : state'[q] = state[q]
  BY DEF OthersUndisturbed, Undisturbed
<1> QED BY <1>1 DEF roleOf

LEMMA RankUnchanged ==
  ASSUME UNCHANGED Settings
  PROVE  rankOf' = rankOf /\ UNCHANGED <<priority, primaryIp, addresses, advertisementInterval>>
BY DEF rankOf, Settings, configVars, ipVars, listVars

\* disturbed is a flag that falls with the last claim.
Unsettled == disturbed \in BOOLEAN /\ (disturbed => ~Group!Calm(claimsOf))

LEMMA WhoLeaves ==
  ASSUME NEW r \in Routers, OthersUndisturbed(r)
  PROVE  MasterLeaves <=> state[r] = "Master" /\ state'[r] = "Disabled"
<1>1. \A q \in Routers \ {r} : state'[q] = state[q]
  BY DEF OthersUndisturbed, Undisturbed
<1> QED BY <1>1 DEF MasterLeaves, Masters

LEMMA DisturbedKept ==
  ASSUME Unsettled, Disturb, ~MasterLeaves, claimsOf' = claimsOf
  PROVE  disturbed' = disturbed
<1>1. disturbed' = (disturbed /\ ~Group!Calm(claimsOf))
  BY DEF Disturb
<1> QED BY <1>1 DEF Unsettled

LEMMA UnsettledKept == ASSUME Disturb PROVE Unsettled'
BY DEF Disturb, Unsettled

\* Nothing that the group sees.
LEMMA Unseen ==
  ASSUME roleOf' = roleOf, claimsOf' = claimsOf, rankOf' = rankOf, disturbed' = disturbed
  PROVE  UNCHANGED Group!vars
BY DEF Group!vars

-----------------------------------------------------------------------------
(* Each step of the cluster is one of the group, or none *)

\* A packet that is no claim changes no claims.
LEMMA ClaimsAfterSilence ==
  ASSUME NEW queues \in [Routers -> Queues], NEW r \in Routers, TypeOK, Send(queues, r),
         \A q \in Routers : ClaimsIn(queues[q]) = ClaimsIn(inbox[q]),
         sent'[r] = <<>> \/ sent'[r] = <<Advertisement(r, 0)>>
  PROVE  claimsOf' = claimsOf
<1>1. PICK lost \in SUBSET (Routers \ {r}) : Reaches(queues, r, lost)
  BY Delivery
<1>2. \A q \in Routers : ClaimsIn(inbox'[q]) = ClaimsIn(inbox[q])
  <2>1. CASE sent'[r] = <<>>
    BY <1>1, <2>1 DEF Reaches
  <2>2. CASE sent'[r] = <<Advertisement(r, 0)>>
    <3> DEFINE x == Advertisement(r, 0)
    <3>1. x \in Advertisements /\ x.priority = 0
      BY Ranges DEF Advertisement, Advertisements, TypeOK
    <3>2. \A q \in Routers : ClaimsIn(queues[q] \o <<x>>) = ClaimsIn(queues[q])
      BY <3>1, ClaimsWhenAdded
    <3> HIDE DEF x
    <3>3. inbox' = [q \in Routers |-> IF q = r \/ q \in lost THEN queues[q]
                                      ELSE queues[q] \o <<x>>]
      BY <1>1, <2>2, <3>1 DEF Reaches, x
    <3> QED BY <3>2, <3>3
  <2> QED BY <2>1, <2>2
<1> QED BY <1>2, ClaimsOfInbox

LEMMA OwnClaimType ==
  ASSUME TypeOK, NEW r \in Routers
  PROVE  /\ Advertisement(r, priority[r]) \in Advertisements
         /\ Advertisement(r, priority[r]).priority = priority[r]
         /\ priority[r] # 0
         /\ ClaimOf(Advertisement(r, priority[r])) = rankOf[r]
<1>1. priority[r] \in PriorityRange
  BY DEF TypeOK
<1>2. priority[r] \in SentPriorities /\ priority[r] # 0
  BY <1>1, Ranges
<1> QED BY <1>2, Ranges DEF TypeOK, Advertisement, Advertisements, ClaimOf, rankOf

LEMMA OwnPacketType ==
  ASSUME TypeOK, NEW r \in Routers
  PROVE  Advertisement(r, priority[r]) \in Advertisements /\ Advertisement(r, 0) \in Advertisements
<1>1. Advertisement(r, 0) \in Advertisements
  BY Ranges DEF TypeOK, Advertisement, Advertisements
<1> QED BY <1>1, OwnClaimType

LEMMA MapsToClaim ==
  ASSUME NEW queues \in [Routers -> Queues], NEW r \in Routers, TypeOK,
         Handler(r, queues), OthersUndisturbed(r), Claims(r), Disturb,
         \A q \in Routers : ClaimsIn(queues[q]) = ClaimsIn(inbox[q])
  PROVE  Group!Claim(r)
<1> DEFINE x == Advertisement(r, priority[r])
<1>1. PICK lost \in SUBSET (Routers \ {r}) : Reaches(queues, r, lost)
  BY Delivery DEF Handler
<1>2. x \in Advertisements /\ x.priority # 0 /\ ClaimOf(x) = rankOf[r]
  BY OwnClaimType
<1>3. \A q \in Routers : ClaimsIn(queues[q] \o <<x>>) = ClaimsIn(inbox[q]) \cup {rankOf[r]}
  BY <1>2, ClaimsWhenAdded
<1>4. sent'[r] = <<>> \/ sent'[r] = <<x>>
  BY DEF Claims, OwnClaim
<1> HIDE DEF x
<1>5. \E reached \in SUBSET (Routers \ {r}) :
        claimsOf' = [q \in Routers |-> IF q \in reached THEN claimsOf[q] \cup {rankOf[r]}
                                       ELSE claimsOf[q]]
  <2>1. CASE sent'[r] = <<>>
    <3>1. \A q \in Routers : ClaimsIn(inbox'[q]) = ClaimsIn(inbox[q])
      BY <1>1, <2>1 DEF Reaches
    <3> DEFINE reached == {}
    <3>2. claimsOf' = [q \in Routers |-> IF q \in reached THEN claimsOf[q] \cup {rankOf[r]}
                                         ELSE claimsOf[q]]
      BY <3>1, ClaimsOfInbox
    <3>3. reached \in SUBSET (Routers \ {r})
      OBVIOUS
    <3> HIDE DEF reached
    <3> QED BY <3>2, <3>3
  <2>2. CASE sent'[r] = <<x>>
    <3> DEFINE reached == (Routers \ {r}) \ lost
    <3>1. \A q \in Routers :
            ClaimsIn(inbox'[q]) = IF q \in reached THEN ClaimsIn(inbox[q]) \cup {rankOf[r]}
                                  ELSE ClaimsIn(inbox[q])
      <4>1. inbox' = [q \in Routers |-> IF q = r \/ q \in lost THEN queues[q]
                                        ELSE queues[q] \o <<x>>]
        BY <1>1, <1>2, <2>2 DEF Reaches
      <4>2. ASSUME NEW q \in reached
            PROVE  ClaimsIn(inbox'[q]) = ClaimsIn(inbox[q]) \cup {rankOf[r]}
        BY <1>3, <4>1
      <4>3. ASSUME NEW q \in Routers \ reached PROVE ClaimsIn(inbox'[q]) = ClaimsIn(inbox[q])
        BY <4>1
      <4> QED BY <4>2, <4>3
    <3>2. reached \in SUBSET (Routers \ {r})
      OBVIOUS
    <3> HIDE DEF reached
    <3>3. claimsOf' = [q \in Routers |-> IF q \in reached THEN claimsOf[q] \cup {rankOf[r]}
                                         ELSE claimsOf[q]]
      BY <3>1, ClaimsOfInbox
    <3> QED BY <3>2, <3>3
  <2> QED BY <1>4, <2>1, <2>2
<1>6. roleOf' = [roleOf EXCEPT ![r] = "Master"]
  BY RoleAfter DEF Claims, RoleIn
<1>7. disturbed' = (disturbed /\ ~Group!Calm(claimsOf'))
  BY WhoLeaves DEF Claims, Disturb
<1>8. rankOf' = rankOf
  BY RankUnchanged DEF Handler
<1> QED BY <1>5, <1>6, <1>7, <1>8 DEF Group!Claim, Group!Settles

\* Being heard, a claim leaves the queue, and its router yields to a better one.
LEMMA MapsToHear ==
  ASSUME TypeOK, InboxType, NEW r \in Routers, inbox[r] # <<>>, Head(inbox[r]).priority # 0,
         inbox' = Received(r), OthersUndisturbed(r), UNCHANGED Settings, Disturb,
         state[r] = "Master" /\ BetterMaster(r, Head(inbox[r])) => state'[r] = "Backup",
         ~(state[r] = "Master" /\ BetterMaster(r, Head(inbox[r]))) => state'[r] = state[r]
  PROVE  \E c \in claimsOf[r] : Group!Hear(r, c)
<1> DEFINE c == ClaimOf(Head(inbox[r]))
<1>1. inbox[r] \in Queues
  BY DEF InboxType
<1>2. ClaimsIn(inbox[r]) = ClaimsIn(Tail(inbox[r])) \cup {c}
  BY <1>1, ClaimsOfTail
<1>3. ClaimsIn(Tail(inbox[r])) \in {ClaimsIn(inbox[r]), ClaimsIn(inbox[r]) \ {c}}
  <2> HIDE DEF c
  <2> QED BY <1>2
<1>4. inbox'[r] = Tail(inbox[r]) /\ \A q \in Routers \ {r} : inbox'[q] = inbox[q]
  BY ReceivedType
<1>5. \E left \in {claimsOf[r], claimsOf[r] \ {c}} : claimsOf' = [claimsOf EXCEPT ![r] = left]
  <2> DEFINE left == ClaimsIn(Tail(inbox[r]))
  <2>1. claimsOf' = [claimsOf EXCEPT ![r] = left]
    BY <1>4, ClaimsOfInbox
  <2>2. left \in {claimsOf[r], claimsOf[r] \ {c}}
    BY <1>3, ClaimsOfInbox
  <2> HIDE DEF left, c
  <2> QED BY <2>1, <2>2
<1>6. c \in claimsOf[r]
  BY <1>2, ClaimsOfInbox
<1>7. BetterMaster(r, Head(inbox[r])) <=> Group!Better(c, rankOf[r])
  BY DEF BetterMaster, Group!Better, ClaimOf, rankOf
<1>8. roleOf' = IF roleOf[r] = "Master" /\ Group!Better(c, rankOf[r])
                THEN [roleOf EXCEPT ![r] = "Backup"] ELSE roleOf
  <2> HIDE DEF c
  <2>1. roleOf[r] = "Master" <=> state[r] = "Master"
    BY DEF roleOf
  <2>2. CASE state[r] = "Master" /\ BetterMaster(r, Head(inbox[r]))
    <3>1. roleOf' = [roleOf EXCEPT ![r] = "Backup"]
      BY <2>2, RoleAfter DEF RoleIn
    <3> QED BY <1>7, <2>1, <2>2, <3>1
  <2>3. CASE ~(state[r] = "Master" /\ BetterMaster(r, Head(inbox[r])))
    <3>1. roleOf' = roleOf
      BY <2>3, RoleUnchanged
    <3> QED BY <1>7, <2>1, <2>3, <3>1
  <2> QED BY <2>2, <2>3
<1>9. disturbed' = (disturbed /\ ~Group!Calm(claimsOf'))
  <2>1. ~MasterLeaves
    BY WhoLeaves
  <2> QED BY <2>1 DEF Disturb
<1>10. rankOf' = rankOf
  BY RankUnchanged
<1> HIDE DEF c
<1>11. Group!Hear(r, c)
  BY <1>5, <1>6, <1>8, <1>9, <1>10 DEF Group!Hear, Group!Settles
<1> QED BY <1>6, <1>11

\* A handler that sends no claim and takes none from a queue is seen, if at all, by
\* what it makes of its router.
LEMMA MapsToSilence ==
  ASSUME NEW queues \in [Routers -> Queues], NEW r \in Routers, TypeOK, Unsettled,
         Handler(r, queues), OthersUndisturbed(r), Disturb,
         \A q \in Routers : ClaimsIn(queues[q]) = ClaimsIn(inbox[q]),
         sent'[r] = <<>> \/ sent'[r] = <<Advertisement(r, 0)>>
  PROVE  /\ claimsOf' = claimsOf /\ rankOf' = rankOf
         /\ RoleIn(state'[r]) = RoleIn(state[r]) => UNCHANGED Group!vars
         /\ RoleIn(state[r]) = "Off" /\ state'[r] = "Backup" => Group!Join(r)
         /\ RoleIn(state[r]) # "Off" /\ state'[r] = "Disabled" => Group!Leave(r)
<1>1. claimsOf' = claimsOf
  BY ClaimsAfterSilence DEF Handler
<1>2. rankOf' = rankOf
  BY RankUnchanged DEF Handler
<1>3. roleOf' = [roleOf EXCEPT ![r] = RoleIn(state'[r])] /\ roleOf[r] = RoleIn(state[r])
  BY RoleAfter DEF roleOf, RoleIn
<1>4. RoleIn("Backup") = "Backup" /\ RoleIn("Disabled") = "Off" /\ RoleIn("Master") = "Master"
  BY DEF RoleIn
<1>5. RoleIn(state[r]) = "Master" <=> state[r] = "Master"
  BY DEF RoleIn
<1>6. ASSUME RoleIn(state'[r]) = RoleIn(state[r]) PROVE UNCHANGED Group!vars
  <2>1. roleOf' = roleOf
    <3>1. roleOf = [q \in Routers |-> RoleIn(state[q])]
      BY DEF roleOf, RoleIn
    <3> QED BY <1>3, <1>6, <3>1
  <2>2. ~MasterLeaves
    BY <1>4, <1>6, WhoLeaves
  <2>3. disturbed' = disturbed
    BY <1>1, <2>2, DisturbedKept
  <2> QED BY <1>1, <1>2, <2>1, <2>3, Unseen
<1>7. ASSUME RoleIn(state[r]) = "Off", state'[r] = "Backup" PROVE Group!Join(r)
  <2>1. ~MasterLeaves
    BY <1>7, WhoLeaves
  <2>2. disturbed' = disturbed
    BY <1>1, <2>1, DisturbedKept
  <2> QED BY <1>1, <1>2, <1>3, <1>4, <1>7, <2>2 DEF Group!Join
<1>8. ASSUME RoleIn(state[r]) # "Off", state'[r] = "Disabled" PROVE Group!Leave(r)
  <2>1. claimsOf' = [claimsOf EXCEPT ![r] = claimsOf[r]]
    BY <1>1, ClaimsOfInbox
  <2>2. disturbed' = ((disturbed \/ roleOf[r] = "Master") /\ ~Group!Calm(claimsOf'))
    BY <1>3, <1>5, <1>8, WhoLeaves DEF Disturb
  <2> QED BY <1>2, <1>3, <1>4, <1>8, <2>1, <2>2 DEF Group!Leave
<1> QED BY <1>1, <1>2, <1>6, <1>7, <1>8

GroupStep == (\E r \in Routers : \/ Group!Join(r) \/ Group!Claim(r) \/ Group!Leave(r)
                                  \/ \E c \in claimsOf[r] : Group!Hear(r, c))
             \/ UNCHANGED Group!vars

LEMMA MapsCommands ==
  ASSUME ConfigAssumption, TypeOK, InboxType, Unsettled, Disturb, NEW r \in Routers,
         Enable(r) \/ Disable(r) \/ MasterDown(r) \/ Advertise(r)
  PROVE  GroupStep
<1>1. Handler(r, inbox) /\ inbox \in [Routers -> Queues]
  BY HandlersOfCluster DEF InboxType
<1>2. OthersUndisturbed(r)
  BY <1>1, StepOthers DEF Handler
<1>3. ASSUME Claims(r) PROVE GroupStep
  BY <1>1, <1>2, <1>3, MapsToClaim DEF GroupStep
<1>4. /\ RoleIn("Disabled") = "Off" /\ RoleIn("LinkDown") = "Off"
      /\ RoleIn("Backup") = "Backup" /\ RoleIn("Master") = "Master"
  BY DEF RoleIn
<1>5. CASE Enable(r)
  <2>1. state[r] = "Disabled"
    BY <1>5, EnableWay DEF Enable
  <2>2. ASSUME Patient(r, advertisementInterval[r]) PROVE GroupStep
    <3>1. state'[r] = "Backup" /\ sent'[r] = <<>>
      BY <2>2 DEF Patient
    <3>2. Group!Join(r)
      BY <1>1, <1>2, <1>4, <2>1, <3>1, MapsToSilence
    <3> QED BY <3>2 DEF GroupStep
  <2>3. ASSUME Departs(r) PROVE GroupStep
    <3>1. state'[r] \in {"Disabled", "LinkDown"} /\ sent'[r] = <<>>
      BY <2>1, <2>3 DEF Departs
    <3>2. UNCHANGED Group!vars
      BY <1>1, <1>2, <1>4, <2>1, <3>1, MapsToSilence
    <3> QED BY <3>2 DEF GroupStep
  <2> QED BY <1>3, <1>5, <2>2, <2>3, EnableWay DEF Enable
<1>6. CASE Disable(r)
  <2>1. state[r] \in {"Backup", "Master"} /\ state'[r] = "Disabled" /\ Departs(r)
    BY <1>6, DisableWay DEF Disable
  <2>2. sent'[r] = <<>> \/ sent'[r] = <<Advertisement(r, 0)>>
    BY <2>1 DEF Departs
  <2>3. Group!Leave(r)
    BY <1>1, <1>2, <1>4, <2>1, <2>2, MapsToSilence
  <2> QED BY <2>3 DEF GroupStep
<1>7. CASE MasterDown(r) \/ Advertise(r)
  BY <1>3, <1>7, TimerWays DEF MasterDown, Advertise
<1> QED BY <1>5, <1>6, <1>7

LEMMA MapsReceive ==
  ASSUME ConfigAssumption, TypeOK, InboxType, Unsettled, Disturb, NEW r \in Routers,
         Receive(r)
  PROVE  GroupStep
<1> DEFINE pkt == Head(inbox[r])
<1>1. Handler(r, Received(r)) /\ inbox[r] # <<>> /\ onIncomingVrrpPacket(r, pkt)
  BY HandlersOfCluster DEF Receive
<1>2. OthersUndisturbed(r) /\ UNCHANGED Settings /\ Send(Received(r), r)
  BY <1>1, StepOthers DEF Handler
<1>3. /\ Received(r) \in [Routers -> Queues]
      /\ Received(r)[r] = Tail(inbox[r])
      /\ \A q \in Routers \ {r} : Received(r)[q] = inbox[q]
  BY <1>1, ReceivedType
<1>4. PacketWay(r, pkt)
  BY <1>1, PacketWays
<1>5. CASE pkt.priority = 0
  <2>1. ClaimsIn(Tail(inbox[r])) = ClaimsIn(inbox[r])
    BY <1>1, <1>5, ClaimsOfTail DEF InboxType
  <2>2. \A q \in Routers : ClaimsIn(Received(r)[q]) = ClaimsIn(inbox[q])
    <3>1. \A q \in Routers \ {r} : ClaimsIn(Received(r)[q]) = ClaimsIn(inbox[q])
      BY <1>3
    <3>2. ClaimsIn(Received(r)[r]) = ClaimsIn(inbox[r])
      BY <1>3, <2>1
    <3> QED BY <3>1, <3>2
  <2>3. CASE Hastens(r) /\ state[r] = "Backup"
    <3>1. state'[r] = state[r] /\ sent'[r] = <<>>
      BY <2>3 DEF Hastens
    <3>2. RoleIn(state'[r]) = RoleIn(state[r])
      BY <3>1
    <3>3. UNCHANGED Group!vars
      BY <1>1, <1>2, <1>3, <2>2, <3>1, <3>2, MapsToSilence
    <3> QED BY <3>3 DEF GroupStep
  <2>4. CASE Claims(r)
    <3>1. Group!Claim(r)
      BY <1>1, <1>2, <1>3, <2>2, <2>4, MapsToClaim
    <3> QED BY <3>1 DEF GroupStep
  <2> QED BY <1>4, <1>5, <2>3, <2>4 DEF PacketWay
<1>6. CASE pkt.priority # 0
  <2>1. /\ sent'[r] = <<>>
        /\ state[r] = "Master" /\ BetterMaster(r, pkt) => state'[r] = "Backup"
        /\ ~(state[r] = "Master" /\ BetterMaster(r, pkt)) => state'[r] = state[r]
    <3> HIDE DEF pkt
    <3> QED BY <1>4, <1>6 DEF PacketWay, Patient, Still, Undisturbed
  <2>2. inbox' = Received(r)
    BY <1>2, <1>3, <2>1, Delivery DEF Reaches
  <2>3. \E c \in claimsOf[r] : Group!Hear(r, c)
    BY <1>1, <1>2, <1>6, <2>1, <2>2, MapsToHear
  <2> QED BY <2>3 DEF GroupStep
<1> QED BY <1>5, <1>6

\* Whoever takes no part hears no claim, and what is in its queue is dropped.
LEMMA MapsDiscard ==
  ASSUME ConfigAssumption, TypeOK, InboxType, Unsettled, Disturb, NEW r \in Routers,
         Discard(r)
  PROVE  GroupStep
<1>1. /\ inbox[r] # <<>> /\ inbox' = Received(r) /\ state[r] # "Master" /\ state' = state
      /\ inbox[r] \in Queues
  BY DEF Discard, Running, vars, InboxType
<1>2. OthersUndisturbed(r) /\ UNCHANGED Settings
  BY DEF Discard, OthersUndisturbed, Undisturbed, vars, Settings, masterVars, timerVars, outVars
<1>3. CASE Head(inbox[r]).priority # 0
  <2>1. \E c \in claimsOf[r] : Group!Hear(r, c)
    BY <1>1, <1>2, <1>3, MapsToHear
  <2> QED BY <2>1 DEF GroupStep
<1>4. CASE Head(inbox[r]).priority = 0
  <2>1. ClaimsIn(Tail(inbox[r])) = ClaimsIn(inbox[r])
    BY <1>1, <1>4, ClaimsOfTail
  <2>2. \A q \in Routers : ClaimsIn(inbox'[q]) = ClaimsIn(inbox[q])
    BY <1>1, <2>1, ReceivedType
  <2>3. claimsOf' = claimsOf
    BY <2>2, ClaimsOfInbox
  <2>4. roleOf' = roleOf /\ ~MasterLeaves
    BY <1>1, <1>2, RoleUnchanged, WhoLeaves
  <2>5. rankOf' = rankOf /\ disturbed' = disturbed
    BY <1>2, <2>3, <2>4, RankUnchanged, DisturbedKept
  <2> QED BY <2>3, <2>4, <2>5, Unseen DEF GroupStep
<1> QED BY <1>3, <1>4

LEMMA MapsCrash ==
  ASSUME ConfigAssumption, TypeOK, InboxType, Unsettled, Disturb, NEW r \in Routers,
         Crash(r)
  PROVE  GroupStep
<1>1. /\ OthersUndisturbed(r) /\ state'[r] = "Disabled" /\ UNCHANGED Settings
      /\ state[r] \in {"Backup", "Master"}
  <2>1. UNCHANGED Settings /\ state[r] \in {"Backup", "Master"}
    BY DEF Crash, Settings, Running
  <2> QED BY <2>1, CrashOthers
<1> DEFINE none == {}
<1>2. claimsOf' = [claimsOf EXCEPT ![r] = none]
  <2>1. inbox' = [inbox EXCEPT ![r] = <<>>] /\ inbox \in [Routers -> Queues]
    BY DEF Crash, InboxType
  <2>2. ClaimsIn(inbox'[r]) = none /\ \A q \in Routers \ {r} : inbox'[q] = inbox[q]
    BY <2>1, ClaimsInNothing
  <2>3. \A q \in Routers \ {r} : ClaimsIn(inbox'[q]) = ClaimsIn(inbox[q])
    BY <2>2
  <2> HIDE DEF none
  <2> QED BY <2>2, <2>3, ClaimsOfInbox
<1>3. /\ roleOf' = [roleOf EXCEPT ![r] = "Off"] /\ roleOf[r] # "Off"
      /\ roleOf[r] = "Master" <=> state[r] = "Master"
  BY <1>1, RoleAfter DEF RoleIn, roleOf
<1>4. disturbed' = ((disturbed \/ roleOf[r] = "Master") /\ ~Group!Calm(claimsOf'))
  BY <1>1, <1>3, WhoLeaves DEF Disturb
<1>5. rankOf' = rankOf
  BY <1>1, RankUnchanged
<1>6. Group!Leave(r)
  BY <1>2, <1>3, <1>4, <1>5 DEF Group!Leave
<1> QED BY <1>6 DEF GroupStep

LEMMA MapsStep ==
  ASSUME ConfigAssumption, TypeOK, InboxType, Unsettled, [ClusterNext /\ Disturb]_refinedVars
  PROVE  GroupStep /\ Unsettled'
<1>1. CASE UNCHANGED refinedVars
  <2>1. claimsOf' = claimsOf /\ roleOf' = roleOf /\ rankOf' = rankOf /\ disturbed' = disturbed
    BY <1>1 DEF refinedVars, clusterVars, vars, configVars, ipVars, claimsOf, roleOf, rankOf
  <2>2. Unsettled'
    BY <2>1 DEF Unsettled, Group!Calm
  <2> QED BY <2>1, <2>2, Unseen DEF GroupStep
<1>2. CASE ClusterNext /\ Disturb
  <2>1. Unsettled'
    BY <1>2, UnsettledKept
  <2>2. ASSUME NEW d \in TimeSteps, Tick(d) PROVE GroupStep
    <3>1. claimsOf' = claimsOf /\ roleOf' = roleOf /\ rankOf' = rankOf
      BY <2>2 DEF Tick, Elapse, configVars, ipVars, claimsOf, roleOf, rankOf
    <3>2. ~MasterLeaves
      BY <2>2 DEF Tick, Elapse, MasterLeaves, Masters
    <3>3. disturbed' = disturbed
      BY <1>2, <3>1, <3>2, DisturbedKept
    <3> QED BY <3>1, <3>3, Unseen DEF GroupStep
  <2> QED BY <1>2, <2>1, <2>2, MapsCommands, MapsReceive, MapsDiscard, MapsCrash
          DEF ClusterNext
<1> QED BY <1>1, <1>2

\* In any LAN, whatever is lost, late or killed: each step of the routers is, seen
\* from the LAN, one that the group permits.
THEOREM RoutersImplementGroup == RefinedSpec => ImplementsGroup
<1>1. RefinedInit => TypeOK /\ InboxType /\ Unsettled /\ Group!Init
  <2> SUFFICES ASSUME RefinedInit PROVE TypeOK /\ InboxType /\ Unsettled /\ Group!Init
    OBVIOUS
  <2>1. TypeOK /\ InboxType
    BY ConfigAssumption, ClusterInitType DEF RefinedInit
  <2>2. Unsettled
    BY DEF RefinedInit, Unsettled
  <2>3. roleOf = [r \in Routers |-> "Off"]
    BY DEF RefinedInit, ClusterInit, Init, roleOf
  <2>4. claimsOf = [r \in Routers |-> {}]
    BY ClaimsOfInbox, ClaimsInNothing DEF RefinedInit, ClusterInit
  <2>5. rankOf \in [Routers -> Group!Ranks]
    <3>1. \A r \in Routers : priority[r] \in Nat /\ primaryIp[r] \in Nat
      BY <2>1, Ranges DEF TypeOK, Ips
    <3> QED BY <3>1 DEF rankOf, Group!Ranks
  <2> QED BY <2>1, <2>2, <2>3, <2>4, <2>5 DEF Group!Init, RefinedInit
<1>2. /\ TypeOK /\ InboxType /\ Unsettled /\ [ClusterNext /\ Disturb]_refinedVars
      => TypeOK' /\ InboxType' /\ Unsettled' /\ [Group!Next]_(Group!vars)
  <2> SUFFICES ASSUME TypeOK, InboxType, Unsettled, [ClusterNext /\ Disturb]_refinedVars
               PROVE  TypeOK' /\ InboxType' /\ Unsettled' /\ [Group!Next]_(Group!vars)
    OBVIOUS
  <2>1. [ClusterNext]_clusterVars
    BY DEF refinedVars
  <2>2. GroupStep /\ Unsettled'
    BY ConfigAssumption, MapsStep
  <2> QED BY <2>1, <2>2, ConfigAssumption, ClusterType DEF GroupStep, Group!Next
<1> QED BY <1>1, <1>2, PTL DEF RefinedSpec, ImplementsGroup, Group!Spec

GroupProofs == INSTANCE RedundancyGroup_proofs WITH
  role <- roleOf, rank <- rankOf, claims <- claimsOf, disturbed <- disturbed

\* On the LAN of the routers, too, yielding alone never takes the last Master.
THEOREM RoutersNeverAbandon == RefinedSpec => NeverAbandoned
<1>1. Group!Init <=> GroupProofs!Init
  BY DEF Group!Init, GroupProofs!Init, Group!Ranks, GroupProofs!Ranks
<1>2. [Group!Next]_(Group!vars) <=> [GroupProofs!Next]_(GroupProofs!vars)
  <2>1. Group!vars = GroupProofs!vars /\ (Group!vars)' = (GroupProofs!vars)'
    BY DEF Group!vars, GroupProofs!vars
  <2>2. ASSUME NEW r
        PROVE  /\ Group!Join(r) <=> GroupProofs!Join(r)
               /\ Group!Claim(r) <=> GroupProofs!Claim(r)
               /\ Group!Leave(r) <=> GroupProofs!Leave(r)
               /\ \A c : Group!Hear(r, c) <=> GroupProofs!Hear(r, c)
    BY DEF Group!Join, GroupProofs!Join, Group!Claim, GroupProofs!Claim,
           Group!Leave, GroupProofs!Leave, Group!Hear, GroupProofs!Hear,
           Group!Settles, GroupProofs!Settles, Group!Calm, GroupProofs!Calm,
           Group!Better, GroupProofs!Better
  <2> QED BY <2>1, <2>2 DEF Group!Next, GroupProofs!Next
<1>3. GroupProofs!Spec => GroupProofs!NeverAbandoned
  BY GroupProofs!GroupNeverAbandoned
<1>4. [~disturbed /\ GroupProofs!Masters # {} /\ (\A r \in GroupProofs!Masters : roleOf'[r] # "Off")
         => GroupProofs!Masters' # {}]_(GroupProofs!vars)
      => [~disturbed /\ Group!Masters # {} /\ (\A r \in Group!Masters : roleOf'[r] # "Off")
            => Group!Masters' # {}]_(Group!vars)
  BY DEF Group!vars, GroupProofs!vars, Group!Masters, GroupProofs!Masters
<1> QED BY <1>1, <1>2, <1>3, <1>4, RoutersImplementGroup, PTL
        DEF ImplementsGroup, NeverAbandoned, Group!Spec, GroupProofs!Spec,
            Group!NeverAbandoned, GroupProofs!NeverAbandoned

-----------------------------------------------------------------------------
(* What is in the queues, as long as the configuration stays as it is *)

ValidIntervals == {i \in Intervals : ValidInterval(i)}
Configurable == {p \in Priorities : ValidPriority(p)}

Configured ==
  /\ \A r \in Routers :
       /\ priority[r] \in Configurable
       /\ advertisementInterval[r] \in ValidIntervals
       /\ primaryIp[r] = InterfaceIp[r]
  /\ \A r, q \in Routers : priority[r] = 255 /\ priority[q] = 255 => r = q

LEMMA ValidIntervalsType == \A i \in ValidIntervals : i \in IntervalRange /\ i \in Nat \ {0}
<1>1. ASSUME NEW i \in ValidIntervals PROVE i \in IntervalRange
  BY DEF ValidIntervals, ValidInterval
<1> QED BY <1>1, Ranges

\* Each packet is what one of the other routers says of itself.
PacketsTo(q) ==
  {Advertisement(a, priority[a]) : a \in Routers \ {q}}
    \cup {Advertisement(a, 0) : a \in Routers \ {q}}

FromOthers(q, s) == s \in Seq(PacketsTo(q))

Genuine == \A q \in Routers : FromOthers(q, inbox[q])

\* A handler changes no queue but its own, and that only by taking the packet handled.
Dequeued(queues, r) ==
  /\ queues \in [Routers -> Queues]
  /\ \A q \in Routers \ {r} : queues[q] = inbox[q]
  /\ queues[r] = inbox[r] \/ (inbox[r] # <<>> /\ queues[r] = Tail(inbox[r]))

LEMMA NothingFromOthers == ASSUME NEW q PROVE FromOthers(q, <<>>)
BY DEF FromOthers

LEMMA TailFromOthers ==
  ASSUME NEW q, NEW s, FromOthers(q, s), s # <<>>
  PROVE  Head(s) \in PacketsTo(q) /\ FromOthers(q, Tail(s))
<1> DEFINE P == PacketsTo(q)
<1>1. s \in Seq(P)
  BY DEF FromOthers
<1> HIDE DEF P
<1>2. Head(s) \in P /\ Tail(s) \in Seq(P)
  BY <1>1
<1> QED BY <1>2 DEF FromOthers, P

LEMMA AddedFromOthers ==
  ASSUME NEW q, NEW s, FromOthers(q, s), NEW x \in PacketsTo(q)
  PROVE  FromOthers(q, Added(s, x))
<1> DEFINE P == PacketsTo(q)
<1>1. s \in Seq(P) /\ x \in P
  BY DEF FromOthers
<1> HIDE DEF P
<1>2. s \o <<x>> \in Seq(P)
  BY <1>1
<1> QED BY <1>2 DEF FromOthers, P, Added

LEMMA PacketsKept ==
  ASSUME UNCHANGED Settings
  PROVE  /\ \A q \in Routers : PacketsTo(q)' = PacketsTo(q)
         /\ \A a \in Routers, p \in SentPriorities : Advertisement(a, p)' = Advertisement(a, p)
         /\ Configured => Configured'
<1>1. UNCHANGED <<priority, primaryIp, addresses, advertisementInterval>>
  BY RankUnchanged
<1> QED BY <1>1 DEF PacketsTo, Advertisement, Configured

LEMMA HandlerQueues ==
  ASSUME TypeOK, InboxType, NEW r \in Routers
  PROVE  /\ Dequeued(inbox, r)
         /\ Receive(r) \/ Discard(r) => Dequeued(Received(r), r)
<1>1. Dequeued(inbox, r)
  BY DEF Dequeued, InboxType
<1>2. ASSUME Receive(r) \/ Discard(r) PROVE Dequeued(Received(r), r)
  <2>1. inbox[r] # <<>>
    BY <1>2 DEF Receive, Discard
  <2> QED BY <2>1, ReceivedType DEF Dequeued
<1> QED BY <1>1, <1>2

\* What a handler may do, as far as the LAN is concerned.
Says(r) ==
  \/ sent'[r] = <<>>
  \/ state'[r] = "Master" /\ sent'[r] = <<Advertisement(r, priority[r])>>
  \/ state[r] = "Master" /\ sent'[r] = <<Advertisement(r, 0)>>

LEMMA WaysSay ==
  ASSUME NEW r \in Routers
  PROVE  /\ Claims(r) => Says(r)
         /\ Departs(r) => Says(r)
         /\ \A i : Patient(r, i) => Says(r)
         /\ \A pkt : PacketWay(r, pkt) => Says(r)
BY DEF Claims, OwnClaim, Departs, Patient, Hastens, Still, PacketWay, Says

LEMMA HandlerSays ==
  ASSUME TypeOK, InboxType, NEW r \in Routers,
         Enable(r) \/ Disable(r) \/ MasterDown(r) \/ Advertise(r) \/ Receive(r)
  PROVE  /\ Says(r)
         /\ \E queues : Dequeued(queues, r) /\ Handler(r, queues)
<1>1. CASE Enable(r)
  <2>1. Says(r)
    BY <1>1, EnableWay, WaysSay DEF Enable
  <2> QED BY <1>1, <2>1, HandlerQueues, HandlersOfCluster
<1>2. CASE Disable(r)
  <2>1. Says(r)
    BY <1>2, DisableWay, WaysSay DEF Disable
  <2> QED BY <1>2, <2>1, HandlerQueues, HandlersOfCluster
<1>3. CASE MasterDown(r) \/ Advertise(r)
  <2>1. Says(r)
    BY <1>3, TimerWays, WaysSay DEF MasterDown, Advertise
  <2> QED BY <1>3, <2>1, HandlerQueues, HandlersOfCluster
<1>4. CASE Receive(r)
  <2>1. Says(r)
    BY <1>4, PacketWays, WaysSay DEF Receive
  <2> QED BY <1>4, <2>1, HandlerQueues, HandlersOfCluster
<1> QED BY <1>1, <1>2, <1>3, <1>4

LEMMA GenuineStep ==
  ASSUME ConfigAssumption, TypeOK, InboxType, Genuine, [ClusterNext]_clusterVars
  PROVE  Genuine'
<1>1. UNCHANGED Settings
  BY ConfigurationKept
<1>2. \A q \in Routers : PacketsTo(q)' = PacketsTo(q)
  BY <1>1, PacketsKept
<1> SUFFICES ASSUME NEW q \in Routers PROVE FromOthers(q, inbox'[q])
  BY <1>2 DEF Genuine, FromOthers
<1>3. FromOthers(q, inbox[q])
  BY DEF Genuine
<1>4. ASSUME NEW r \in Routers, NEW queues, Dequeued(queues, r) PROVE FromOthers(q, queues[q])
  <2>1. inbox[q] # <<>> => FromOthers(q, Tail(inbox[q]))
    BY <1>3, TailFromOthers
  <2>2. queues[q] = inbox[q] \/ (inbox[q] # <<>> /\ queues[q] = Tail(inbox[q]))
    BY <1>4 DEF Dequeued
  <2> QED BY <1>3, <2>1, <2>2
<1>5. ASSUME NEW r \in Routers,
             Enable(r) \/ Disable(r) \/ MasterDown(r) \/ Advertise(r) \/ Receive(r)
      PROVE  FromOthers(q, inbox'[q])
  <2>1. PICK queues : Dequeued(queues, r) /\ Handler(r, queues)
    BY <1>5, HandlerSays
  <2>2. queues \in [Routers -> Queues] /\ Send(queues, r)
    BY <2>1 DEF Handler, Dequeued
  <2>4. sent'[r] = <<>> \/ sent'[r] = <<Advertisement(r, priority[r])>>
          \/ sent'[r] = <<Advertisement(r, 0)>>
    BY <1>5, HandlerSays DEF Says
  <2>5. FromOthers(q, queues[q])
    BY <1>4, <2>1
  <2>6. ASSUME NEW x \in Advertisements, sent'[r] = <<x>>, q # r => x \in PacketsTo(q)
        PROVE  FromOthers(q, inbox'[q])
    <3>1. inbox'[q] = queues[q] \/ (q # r /\ inbox'[q] = Added(queues[q], x))
      BY <2>2, <2>6, DeliveryTo
    <3> QED BY <2>5, <2>6, <3>1, AddedFromOthers
  <2>3. sent'[r] = <<>> => inbox'[q] = queues[q]
    BY <2>2, DeliveryTo
  <2>7. q # r => Advertisement(r, priority[r]) \in PacketsTo(q) /\ Advertisement(r, 0) \in PacketsTo(q)
    BY DEF PacketsTo
  <2> QED BY <2>3, <2>4, <2>5, <2>6, <2>7, OwnPacketType
<1>6. ASSUME NEW r \in Routers, Crash(r) PROVE FromOthers(q, inbox'[q])
  <2>1. inbox' = [inbox EXCEPT ![r] = <<>>] /\ inbox \in [Routers -> Queues]
    BY <1>6 DEF Crash, InboxType
  <2>2. inbox'[q] = <<>> \/ inbox'[q] = inbox[q]
    BY <2>1
  <2> QED BY <1>3, <2>2, NothingFromOthers
<1>7. ASSUME NEW r \in Routers, Discard(r) PROVE FromOthers(q, inbox'[q])
  BY <1>4, <1>7, HandlerQueues DEF Discard
<1>8. ASSUME NEW d \in TimeSteps, Tick(d) PROVE FromOthers(q, inbox'[q])
  BY <1>3, <1>8 DEF Tick
<1>9. CASE UNCHANGED clusterVars
  BY <1>3, <1>9 DEF clusterVars
<1> QED BY <1>5, <1>6, <1>7, <1>8, <1>9 DEF ClusterNext

\* The packet at the head of a queue, which its router handles next.
LEMMA HeadIsGenuine ==
  ASSUME Genuine, NEW r \in Routers, inbox[r] # <<>>
  PROVE  \E a \in Routers \ {r} :
           /\ Head(inbox[r]).interval = advertisementInterval[a]
           /\ Head(inbox[r]).src = primaryIp[a]
           /\ \/ Head(inbox[r]) = Advertisement(a, priority[a])
              \/ Head(inbox[r]) = Advertisement(a, 0)
<1>1. Head(inbox[r]) \in PacketsTo(r)
  BY TailFromOthers DEF Genuine
<1>2. PICK a \in Routers \ {r} : \/ Head(inbox[r]) = Advertisement(a, priority[a])
                                 \/ Head(inbox[r]) = Advertisement(a, 0)
  BY <1>1 DEF PacketsTo
<1> QED BY <1>2 DEF Advertisement

ClusterBasics == TypeOK /\ InboxType /\ Configured /\ Genuine

LEMMA BasicsStep ==
  ClusterBasics /\ [ClusterNext]_clusterVars => ClusterBasics'
BY ConfigAssumption, ClusterType, ConfigurationKept, PacketsKept, GenuineStep DEF ClusterBasics

LEMMA BasicsInit == ClusterInit => ClusterBasics
<1> SUFFICES ASSUME ClusterInit PROVE ClusterBasics
  OBVIOUS
<1>1. TypeOK /\ InboxType
  BY ConfigAssumption, ClusterInitType
<1>2. Configured
  BY DEF ClusterInit, Init, Configured, Configurable, ValidIntervals
<1>3. Genuine
  <2>1. \A q \in Routers : inbox[q] = <<>>
    BY DEF ClusterInit
  <2> QED BY <2>1, NothingFromOthers DEF Genuine
<1> QED BY <1>1, <1>2, <1>3 DEF ClusterBasics

-----------------------------------------------------------------------------
(* A LAN without a Master *)

\* No skew time is rounded down to nothing.  (Where one is, a Backup that hears a
\* goodbye waits on a timer that never expires.)
SkewRuns == \A p \in Configurable \ {255}, i \in ValidIntervals : skewTime(p, i) # 0

LoneWait(q) ==
  /\ alone[q] \in Nat
  /\ state[q] # "Backup" => alone[q] = 0
  /\ state[q] = "Backup" =>
       /\ priority[q] # 255
       /\ masterAdvertisementInterval[q] \in ValidIntervals
       /\ masterDownTimer[q] \in Nat
       /\ alone[q] + masterDownTimer[q] < 40 * masterAdvertisementInterval[q]
  /\ Masters # {} \/ ~Quiet => alone[q] = 0

LEMMA OwnerIsBest ==
  ASSUME NEW r, NEW pkt, NEW p \in PriorityRange, pkt.priority = p,
         priority[r] = 255, BetterMaster(r, pkt)
  PROVE  p = 255
<1>1. pkt.priority > 255 \/ pkt.priority = 255
  BY DEF BetterMaster
<1>2. p > 255 \/ p = 255
  BY <1>1
<1> QED BY <1>2 DEF PriorityRange

LEMMA HandlerMakesBackup ==
  ASSUME ConfigAssumption, ClusterBasics, NEW r \in Routers,
         Enable(r) \/ Disable(r) \/ MasterDown(r) \/ Advertise(r) \/ Receive(r),
         state'[r] = "Backup", state[r] = "Backup" => priority[r] # 255
  PROVE  \/ /\ \E i \in ValidIntervals : Patient(r, i)
            /\ priority[r] # 255 /\ (state[r] # "Backup" \/ ~Quiet)
         \/ Hastens(r) /\ state[r] = "Backup" /\ ~Quiet
         \/ Still(r)
<1>1. TypeOK /\ advertisementInterval[r] \in ValidIntervals
  BY DEF ClusterBasics, Configured
<1>2. CASE Enable(r)
  <2>1. state[r] = "Disabled" /\ priority[r] # 255 /\ Patient(r, advertisementInterval[r])
    BY <1>1, <1>2, EnableWay DEF Enable, Claims, Departs
  <2> QED BY <1>1, <2>1
<1>3. CASE Disable(r)
  BY <1>1, <1>3, DisableWay DEF Disable
<1>4. CASE MasterDown(r) \/ Advertise(r)
  BY <1>1, <1>4, TimerWays DEF MasterDown, Advertise, Claims
<1>5. CASE Receive(r)
  <2> DEFINE pkt == Head(inbox[r])
  <2>1. PacketWay(r, pkt) /\ inbox[r] # <<>> /\ ~Quiet
    BY <1>1, <1>5, PacketWays DEF Receive, Quiet
  <2>2. PICK a \in Routers \ {r} :
          /\ pkt.interval = advertisementInterval[a]
          /\ pkt = Advertisement(a, priority[a]) \/ pkt = Advertisement(a, 0)
    BY <2>1, HeadIsGenuine DEF ClusterBasics
  <2>3. pkt.interval \in ValidIntervals
    BY <2>2 DEF ClusterBasics, Configured
  <2>4. pkt.priority # 0 => pkt.priority = priority[a]
    BY <2>2 DEF Advertisement
  <2> HIDE DEF pkt
  <2>5. ASSUME state[r] = "Master", pkt.priority # 0, BetterMaster(r, pkt) PROVE priority[r] # 255
    <3>1. pkt.priority = priority[a] /\ priority[a] \in PriorityRange
      BY <1>1, <2>4, <2>5 DEF TypeOK
    <3>2. priority[r] = 255 => priority[a] = 255
      BY <2>5, <3>1, OwnerIsBest
    <3>3. ~(priority[r] = 255 /\ priority[a] = 255)
      BY DEF ClusterBasics, Configured
    <3> QED BY <3>2, <3>3
  <2> QED BY <2>1, <2>3, <2>5 DEF PacketWay, Claims
<1> QED BY <1>2, <1>3, <1>4, <1>5

LEMMA WaitedParts ==
  ASSUME NEW d \in Nat, Waited(d), NEW q \in Routers, alone[q] \in Nat
  PROVE  /\ alone'[q] = 0 \/ alone'[q] = alone[q] + d
         /\ state'[q] # "Backup" => alone'[q] = 0
         /\ Masters' # {} => alone'[q] = 0
BY DEF Waited, Masters

\* Nothing is heard on a LAN that has waited: who sends is or was its Master.
LEMMA SilenceKept ==
  ASSUME ConfigAssumption, ClusterBasics, \A q \in Routers : LoneWait(q), NEW r \in Routers,
         Enable(r) \/ Disable(r) \/ MasterDown(r) \/ Advertise(r) \/ Receive(r),
         NEW q \in Routers, Masters' # {} \/ ~Quiet'
  PROVE  alone'[q] = 0
<1>1. alone[q] \in Nat /\ (Masters # {} \/ ~Quiet => alone[q] = 0)
  BY DEF LoneWait
<1>2. PICK queues : Dequeued(queues, r) /\ Handler(r, queues)
  BY HandlerSays DEF ClusterBasics
<1>3. Says(r)
  BY HandlerSays DEF ClusterBasics
<1>4. /\ alone'[q] = 0 \/ alone'[q] = alone[q] + 0
      /\ Masters' # {} => alone'[q] = 0
  BY <1>1, <1>2, WaitedParts DEF Handler
<1>5. CASE sent'[r] = <<>> /\ ~Quiet'
  <2>1. PICK p \in Routers : inbox'[p] # <<>>
    BY <1>5 DEF Quiet
  <2>2. inbox'[p] = queues[p]
    BY <1>2, <1>5, DeliveryTo DEF Handler, Dequeued
  <2>3. queues[p] = inbox[p] \/ inbox[p] # <<>>
    BY <1>2 DEF Dequeued
  <2>4. ~Quiet
    BY <2>1, <2>2, <2>3 DEF Quiet
  <2> QED BY <1>1, <1>4, <2>4
<1>6. CASE state'[r] = "Master"
  <2>1. Masters' # {}
    BY <1>6 DEF Masters
  <2> QED BY <1>4, <2>1
<1>7. CASE state[r] = "Master"
  <2>1. Masters # {}
    BY <1>7 DEF Masters
  <2> QED BY <1>1, <1>4, <2>1
<1> QED BY <1>3, <1>4, <1>5, <1>6, <1>7 DEF Says

\* What is left of a wait once it begins anew.
LEMMA FreshWait ==
  ASSUME NEW p \in PriorityRange, NEW i \in IntervalRange
  PROVE  /\ Start(10 * masterDownInterval(p, i)) \in Nat
         /\ 10 * i < Start(10 * masterDownInterval(p, i))
         /\ Start(10 * masterDownInterval(p, i)) < 40 * i
         /\ Start(10 * skewTime(p, i)) # 0
         /\ skewTime(p, i) # 0 => /\ Start(10 * skewTime(p, i)) \in Nat
                                  /\ Start(10 * skewTime(p, i)) < 40 * i
<1> DEFINE w == skewTime(p, i)
<1>1. w \in Nat /\ w < i /\ i \in Nat \ {0}
  BY SkewBounds, Ranges
<1> HIDE DEF w
<1>2. /\ Start(10 * (3 * i + w)) \in Nat
      /\ 10 * i < Start(10 * (3 * i + w)) /\ Start(10 * (3 * i + w)) < 40 * i
      /\ Start(10 * w) # 0
      /\ w # 0 => Start(10 * w) \in Nat /\ Start(10 * w) < 40 * i
  BY <1>1 DEF Start, Stalled
<1> QED BY <1>2 DEF masterDownInterval, w

LEMMA LoneHandler ==
  ASSUME ConfigAssumption, SkewRuns, ClusterBasics, \A q \in Routers : LoneWait(q),
         NEW r \in Routers,
         Enable(r) \/ Disable(r) \/ MasterDown(r) \/ Advertise(r) \/ Receive(r),
         NEW q \in Routers
  PROVE  LoneWait(q)'
<1>1. LoneWait(q) /\ TypeOK
  BY DEF ClusterBasics
<1>2. PICK queues : Dequeued(queues, r) /\ Handler(r, queues)
  BY HandlerSays DEF ClusterBasics
<1>3. OthersUndisturbed(r) /\ priority' = priority
  BY <1>1, <1>2, StepOthers, RankUnchanged DEF Handler
<1>4. /\ alone'[q] = 0 \/ alone'[q] = alone[q] + 0
      /\ state'[q] # "Backup" => alone'[q] = 0
  BY <1>1, <1>2, WaitedParts DEF Handler, LoneWait
<1>5. alone'[q] \in Nat /\ alone'[q] <= alone[q]
  BY <1>1, <1>4 DEF LoneWait
<1>6. Masters' # {} \/ ~Quiet' => alone'[q] = 0
  BY SilenceKept
<1> DEFINE i == masterAdvertisementInterval[q]
           j == masterAdvertisementInterval'[q]
           t == masterDownTimer'[q]
<1>7. ASSUME state'[q] = "Backup"
      PROVE  /\ priority[q] # 255 /\ j \in ValidIntervals
             /\ t \in Nat /\ alone'[q] + t < 40 * j
  <2>1. CASE Undisturbed(q)
    <3>1. /\ state[q] = "Backup" /\ t = masterDownTimer[q] /\ j = i
          /\ priority[q] # 255 /\ i \in ValidIntervals /\ masterDownTimer[q] \in Nat
          /\ alone[q] + masterDownTimer[q] < 40 * i /\ alone[q] \in Nat
      BY <1>1, <1>7, <2>1 DEF Undisturbed, LoneWait
    <3>2. i \in Nat
      BY <3>1, ValidIntervalsType
    <3> HIDE DEF i, j, t
    <3> QED BY <1>5, <3>1, <3>2
  <2>2. CASE q = r
    <3> DEFINE p == priority[q]
    <3>1. p \in PriorityRange /\ p \in Configurable
      BY <1>1 DEF ClusterBasics, Configured, TypeOK
    <3>2. \A k \in ValidIntervals : k \in IntervalRange
      BY DEF ValidIntervals, ValidInterval
    <3>3. \A k \in IntervalRange : k \in Nat
      BY DEF IntervalRange
    <3>4. state[q] # "Backup" \/ ~Quiet => alone[q] = 0
      BY <1>1 DEF LoneWait
    <3>5. CASE /\ \E k \in ValidIntervals : Patient(r, k)
               /\ p # 255 /\ (state[q] # "Backup" \/ ~Quiet)
      <4>1. PICK k \in ValidIntervals : Patient(r, k)
        BY <3>5
      <4>2. j = k /\ t = Start(10 * masterDownInterval(p, k))
        BY <2>2, <4>1 DEF Patient
      <4>3. t \in Nat /\ t < 40 * k
        BY <3>1, <3>2, <4>2, FreshWait
      <4>4. alone'[q] = 0
        BY <1>1, <1>5, <3>4, <3>5 DEF LoneWait
      <4> HIDE DEF j, t
      <4> QED BY <3>5, <4>2, <4>3, <4>4
    <3>6. CASE Hastens(r) /\ state[q] = "Backup" /\ ~Quiet
      <4>1. j = i /\ t = Start(10 * skewTime(p, i)) /\ p # 255 /\ i \in ValidIntervals
        BY <1>1, <2>2, <3>6 DEF Hastens, LoneWait
      <4>2. skewTime(p, i) # 0
        BY <3>1, <4>1 DEF SkewRuns
      <4>3. t \in Nat /\ t < 40 * i
        BY <3>1, <3>2, <4>1, <4>2, FreshWait
      <4>4. alone'[q] = 0
        BY <1>1, <1>5, <3>4, <3>6 DEF LoneWait
      <4> HIDE DEF i, j, t
      <4> QED BY <4>1, <4>3, <4>4
    <3>7. CASE Still(r)
      BY <2>1, <2>2, <3>7 DEF Still
    <3>8. state[r] = "Backup" => priority[r] # 255
      BY <1>1, <2>2 DEF LoneWait
    <3> QED BY <1>7, <2>2, <3>5, <3>6, <3>7, <3>8, HandlerMakesBackup
  <2> QED BY <1>3, <2>1, <2>2 DEF OthersUndisturbed
<1> QED BY <1>3, <1>4, <1>5, <1>6, <1>7 DEF LoneWait

LEMMA LoneTick ==
  ASSUME ConfigAssumption, ClusterBasics, NEW q \in Routers, LoneWait(q),
         NEW d \in TimeSteps, Tick(d)
  PROVE  LoneWait(q)'
<1> DEFINE i == masterAdvertisementInterval[q]
           m == masterDownTimer[q]
<1>1. d \in Nat \ {0} /\ d \in Nat
  BY DEF ConfigAssumption
<1>2. /\ Quiet /\ inbox' = inbox /\ state' = state /\ priority' = priority
      /\ masterAdvertisementInterval'[q] = i
      /\ masterDownTimer'[q] = Elapsed(m, d)
      /\ Waited(d)
      /\ m # 0 /\ (m >= d \/ m < 0)
  BY DEF Tick, Elapse, Due, RunsFor, masterVars, configVars
<1>3. alone[q] \in Nat
  BY DEF LoneWait
<1>4. /\ alone'[q] = 0 \/ alone'[q] = alone[q] + d
      /\ state'[q] # "Backup" => alone'[q] = 0
      /\ Masters' # {} => alone'[q] = 0
  BY <1>1, <1>2, <1>3, WaitedParts
<1>5. Quiet'
  BY <1>2 DEF Quiet
<1>6. alone'[q] \in Nat
  BY <1>1, <1>3, <1>4
<1>7. ASSUME state[q] = "Backup"
      PROVE  /\ priority[q] # 255 /\ i \in ValidIntervals
             /\ Elapsed(m, d) \in Nat /\ alone'[q] + Elapsed(m, d) < 40 * i
  <2>1. /\ priority[q] # 255 /\ i \in ValidIntervals
        /\ m \in Nat /\ alone[q] + m < 40 * i
    BY <1>7 DEF LoneWait
  <2>2. i \in Nat
    BY <2>1, ValidIntervalsType
  <2>3. m >= d
    BY <1>2, <2>1
  <2> HIDE DEF i, m
  <2>4. Elapsed(m, d) = m - d
    BY <1>1, <2>1, <2>3 DEF Elapsed
  <2> QED BY <1>1, <1>3, <1>4, <2>1, <2>2, <2>3, <2>4
<1> QED BY <1>2, <1>4, <1>5, <1>6, <1>7 DEF LoneWait

LEMMA LoneCrash ==
  ASSUME ConfigAssumption, ClusterBasics, \A q \in Routers : LoneWait(q),
         NEW r \in Routers, Crash(r), NEW q \in Routers
  PROVE  LoneWait(q)'
<1>1. OthersUndisturbed(r) /\ state'[r] = "Disabled"
  BY CrashOthers DEF ClusterBasics
<1>2. Waited(0) /\ inbox' = [inbox EXCEPT ![r] = <<>>] /\ priority' = priority
  BY DEF Crash, configVars
<1>3. LoneWait(q) /\ alone[q] \in Nat
  BY DEF LoneWait
<1>4. /\ alone'[q] = 0 \/ alone'[q] = alone[q] + 0
      /\ state'[q] # "Backup" => alone'[q] = 0
      /\ Masters' # {} => alone'[q] = 0
  BY <1>2, <1>3, WaitedParts
<1>5. ~Quiet' => ~Quiet
  <2>1. inbox \in [Routers -> Queues]
    BY DEF ClusterBasics, InboxType
  <2>2. \A p \in Routers : inbox[p] = <<>> => inbox'[p] = <<>>
    BY <1>2, <2>1
  <2> QED BY <2>2 DEF Quiet
<1>6. alone'[q] \in Nat /\ alone'[q] <= alone[q]
  BY <1>3, <1>4
<1>7. Masters' # {} \/ ~Quiet' => alone'[q] = 0
  BY <1>3, <1>4, <1>5, <1>6 DEF LoneWait
<1>8. ASSUME state'[q] = "Backup"
      PROVE  /\ priority[q] # 255 /\ masterAdvertisementInterval'[q] \in ValidIntervals
             /\ masterDownTimer'[q] \in Nat
             /\ alone'[q] + masterDownTimer'[q] < 40 * masterAdvertisementInterval'[q]
  <2>1. Undisturbed(q)
    BY <1>1, <1>8 DEF OthersUndisturbed
  <2> DEFINE i == masterAdvertisementInterval[q]
             m == masterDownTimer[q]
  <2>2. /\ priority[q] # 255 /\ i \in ValidIntervals /\ m \in Nat /\ alone[q] + m < 40 * i
        /\ masterAdvertisementInterval'[q] = i /\ masterDownTimer'[q] = m
    BY <1>3, <1>8, <2>1 DEF Undisturbed, LoneWait
  <2>3. i \in Nat
    BY <2>2, ValidIntervalsType
  <2> HIDE DEF i, m
  <2> QED BY <1>3, <1>6, <2>2, <2>3
<1> QED BY <1>2, <1>4, <1>6, <1>7, <1>8 DEF LoneWait

LEMMA LoneStep ==
  ASSUME ConfigAssumption, SkewRuns, ClusterBasics, \A q \in Routers : LoneWait(q),
         [ClusterNext]_clusterVars, NEW q \in Routers
  PROVE  LoneWait(q)'
<1>1. ASSUME NEW r \in Routers, Discard(r) PROVE LoneWait(q)'
  <2>1. alone' = alone /\ state' = state /\ priority' = priority
        /\ masterDownTimer' = masterDownTimer
        /\ masterAdvertisementInterval' = masterAdvertisementInterval
        /\ inbox[r] # <<>>
    BY <1>1 DEF Discard, vars, configVars, masterVars, timerVars
  <2>2. ~Quiet /\ LoneWait(q)
    BY <2>1 DEF Quiet
  <2> QED BY <2>1, <2>2 DEF LoneWait, Masters
<1>2. CASE UNCHANGED clusterVars
  <2>1. LoneWait(q)
    OBVIOUS
  <2> QED BY <1>2, <2>1 DEF LoneWait, Masters, Quiet, clusterVars, vars, configVars, masterVars,
                            timerVars
<1> QED BY <1>1, <1>2, LoneHandler, LoneTick, LoneCrash DEF ClusterNext

\* However many routers there are and however they are configured, crash and lose
\* packets: none waits four of its master's intervals on a LAN without a Master.
THEOREM AbandonedLanIsTakenOver ==
  ASSUME SkewRuns
  PROVE  ClusterSpec => []TakeoverBound
<1> DEFINE AllWait == \A q \in Routers : LoneWait(q)
<1>1. ClusterInit => ClusterBasics /\ AllWait
  <2>1. ASSUME ClusterInit, NEW q \in Routers PROVE LoneWait(q)
    BY <2>1 DEF ClusterInit, Init, LoneWait
  <2> QED BY <2>1, BasicsInit
<1>2. ClusterBasics /\ AllWait /\ [ClusterNext]_clusterVars => ClusterBasics' /\ AllWait'
  BY ConfigAssumption, BasicsStep, LoneStep
<1>3. AllWait => TakeoverBound
  <2> SUFFICES ASSUME AllWait, NEW q \in Routers, state[q] = "Backup"
               PROVE  alone[q] < 40 * masterAdvertisementInterval[q]
    BY DEF TakeoverBound
  <2>1. /\ alone[q] \in Nat /\ masterDownTimer[q] \in Nat
        /\ masterAdvertisementInterval[q] \in ValidIntervals
        /\ alone[q] + masterDownTimer[q] < 40 * masterAdvertisementInterval[q]
    BY DEF LoneWait
  <2>2. masterAdvertisementInterval[q] \in Nat
    BY <2>1, ValidIntervalsType
  <2> QED BY <2>1, <2>2
<1> QED BY <1>1, <1>2, <1>3, PTL DEF ClusterSpec

-----------------------------------------------------------------------------
(* The election *)

\* One interval for all, and an address of its own for each router.
SameIntervals == \A i, j \in ValidIntervals : i = j
DistinctIps ==
  \A r, q \in Routers : InterfaceIp[r] # 0 /\ (InterfaceIp[r] = InterfaceIp[q] => r = q)

Own(a) == Advertisement(a, priority[a])

Above(a, b) ==
  priority[a] > priority[b] \/ (priority[a] = priority[b] /\ primaryIp[a] > primaryIp[b])

\* What keeps b from being Master beside a better Master a: a's claim, still in its
\* queue, or its timer, which a will have started anew before it expires.  After a
\* goodbye, which all hear, it is the claim or the reminder that is to follow.
Yields(a, b) ==
  /\ state[b] = "Master" => Holds(inbox[b], Own(a))
  /\ state[b] = "Backup" =>
       \/ Holds(inbox[b], Own(a))
       \/ HasGoodbye(inbox[a]) /\ masterDownTimer[b] # 0
       \/ masterDownTimer[b] > advertisementTimer[a]
       \/ masterDownTimer[b] = Stalled

Reminded(a, b) == Covered(inbox[b], Own(a)) \/ HasGoodbye(inbox[a])

Elected(a, b) == (Above(a, b) => Yields(a, b)) /\ Reminded(a, b)

Beats(a) == state[a] = "Master" => advertisementTimer[a] \in 0..(10 * advertisementInterval[a])

Election ==
  /\ losses \in Nat
  /\ \A a \in Routers : Beats(a)
  /\ losses = 0 => \A a \in Masters : \A b \in Routers \ {a} : Elected(a, b)

LEMMA OwnKept ==
  ASSUME UNCHANGED Settings, NEW a \in Routers, NEW b \in Routers
  PROVE  Own(a)' = Own(a) /\ (Above(a, b)' <=> Above(a, b))
BY RankUnchanged DEF Own, Advertisement, Above

LEMMA OwnParts ==
  ASSUME TypeOK, NEW a \in Routers
  PROVE  Own(a) \in Advertisements /\ Own(a).priority # 0
BY OwnClaimType DEF Own

LEMMA AboveMeansBetter ==
  ASSUME TypeOK, NEW a \in Routers, NEW b \in Routers, Above(a, b)
  PROVE  BetterMaster(b, Own(a)) /\ RightMaster(b, Own(a))
<1>1. Own(a).priority = priority[a] /\ Own(a).src = primaryIp[a]
  BY DEF Own, Advertisement
<1>2. BetterMaster(b, Own(a))
  BY <1>1 DEF BetterMaster, Above
<1>3. priority[a] \in Nat /\ priority[b] \in Nat
  BY Ranges DEF TypeOK
<1>4. RightMaster(b, Own(a))
  BY <1>1, <1>3 DEF RightMaster, Above
<1> QED BY <1>2, <1>4

LEMMA OwnQueue ==
  ASSUME TypeOK, InboxType, NEW r \in Routers
  PROVE  /\ Enable(r) \/ Disable(r) \/ MasterDown(r) \/ Advertise(r) => inbox'[r] = inbox[r]
         /\ Receive(r) => inbox[r] # <<>> /\ inbox'[r] = Tail(inbox[r])
<1>1. ASSUME Enable(r) \/ Disable(r) \/ MasterDown(r) \/ Advertise(r) PROVE inbox'[r] = inbox[r]
  <2>1. Handler(r, inbox) /\ inbox \in [Routers -> Queues]
    BY <1>1, HandlersOfCluster DEF InboxType
  <2> QED BY <2>1, DeliveryTo DEF Handler
<1>2. ASSUME Receive(r) PROVE inbox[r] # <<>> /\ inbox'[r] = Tail(inbox[r])
  <2>1. Handler(r, Received(r)) /\ inbox[r] # <<>>
    BY <1>2, HandlersOfCluster DEF Receive
  <2>2. Received(r) \in [Routers -> Queues] /\ Received(r)[r] = Tail(inbox[r])
    BY <2>1, ReceivedType
  <2>3. inbox'[r] = Received(r)[r]
    BY <2>1, <2>2, DeliveryTo DEF Handler
  <2> QED BY <2>1, <2>2, <2>3
<1> QED BY <1>1, <1>2

\* As long as nothing is lost, what a handler sends ends every queue but its own.
LEMMA OthersQueue ==
  ASSUME TypeOK, InboxType, losses \in Nat, losses' = 0, NEW r \in Routers, NEW q \in Routers \ {r},
         Enable(r) \/ Disable(r) \/ MasterDown(r) \/ Advertise(r) \/ Receive(r),
         NEW x
  PROVE  /\ losses = 0
         /\ Holds(inbox[q], x) => Holds(inbox'[q], x)
         /\ HasGoodbye(inbox[q]) => HasGoodbye(inbox'[q])
         /\ sent'[r] = <<Own(r)>> => Holds(inbox'[q], Own(r)) /\ Covered(inbox'[q], Own(r))
         /\ sent'[r] = <<Advertisement(r, 0)>> => HasGoodbye(inbox'[q])
         /\ sent'[r] # <<Advertisement(r, 0)>> /\ Covered(inbox[q], x) => Covered(inbox'[q], x)
         /\ sent'[r] = <<>> => inbox'[q] = inbox[q]
<1>1. PICK queues : Dequeued(queues, r) /\ Handler(r, queues)
  BY HandlerSays
<1>2. queues \in [Routers -> Queues] /\ queues[q] = inbox[q] /\ Send(queues, r) /\ inbox[q] \in Queues
  BY <1>1 DEF Handler, Dequeued, InboxType
<1>3. losses = 0
  BY <1>2, DeliveryTo
<1>4. sent'[r] = <<>> => inbox'[q] = inbox[q]
  BY <1>2, DeliveryTo
<1>5. \A y \in Advertisements : sent'[r] = <<y>> => inbox'[q] = Added(inbox[q], y)
  BY <1>2, DeliveryTo
<1>6. sent'[r] = <<>> \/ sent'[r] = <<Own(r)>> \/ sent'[r] = <<Advertisement(r, 0)>>
  BY HandlerSays DEF Says, Own
<1>7. /\ Own(r) \in Advertisements /\ Own(r).priority # 0
      /\ Advertisement(r, 0) \in Advertisements /\ Advertisement(r, 0).priority = 0
  BY OwnParts, OwnPacketType DEF Advertisement
<1> DEFINE g == Advertisement(r, 0)
           o == Own(r)
<1>8. o # g
  BY <1>7
<1>9. ASSUME NEW y \in Advertisements, sent'[r] = <<y>>
      PROVE  /\ Holds(inbox'[q], y)
             /\ Holds(inbox[q], x) => Holds(inbox'[q], x)
             /\ HasGoodbye(inbox[q]) => HasGoodbye(inbox'[q])
             /\ y.priority = 0 => HasGoodbye(inbox'[q])
             /\ y.priority # 0 => Covered(inbox'[q], y)
             /\ y.priority # 0 /\ Covered(inbox[q], x) => Covered(inbox'[q], x)
  <2> DEFINE t == inbox[q] \o <<y>>
  <2>1. inbox'[q] = t
    BY <1>5, <1>9 DEF Added
  <2>2. /\ Holds(t, y)
        /\ Holds(inbox[q], x) => Holds(t, x)
        /\ HasGoodbye(inbox[q]) => HasGoodbye(t)
        /\ y.priority = 0 => HasGoodbye(t)
    BY <1>2, HeldWhenAdded
  <2>3. y.priority # 0 => Covered(t, y)
    BY <1>2, CoveredWhenAdded
  <2>4. y.priority # 0 /\ Covered(inbox[q], x) => Covered(t, x)
    BY <1>2, CoveredWhenAdded
  <2> HIDE DEF t
  <2> QED BY <2>1, <2>2, <2>3, <2>4
<1>10. CASE sent'[r] = <<>>
  BY <1>3, <1>4, <1>10
<1>11. CASE sent'[r] = <<o>>
  <2>1. sent'[r] # <<g>> /\ sent'[r] # <<>>
    BY <1>8, <1>11
  <2> QED BY <1>3, <1>7, <1>9, <1>11, <2>1
<1>12. CASE sent'[r] = <<g>>
  <2>1. sent'[r] # <<o>> /\ sent'[r] # <<>>
    BY <1>8, <1>12
  <2> QED BY <1>3, <1>7, <1>9, <1>12, <2>1
<1> QED BY <1>6, <1>10, <1>11, <1>12

LEMMA ClaimsSpeak ==
  ASSUME Configured, DistinctIps, NEW r \in Routers, Claims(r)
  PROVE  sent'[r] = <<Own(r)>> /\ advertisementTimer'[r] = 10 * advertisementInterval[r]
<1>1. primaryIp[r] # 0
  BY DEF Configured, DistinctIps
<1> QED BY <1>1 DEF Claims, OwnClaim, Own

\* A router is Master after its handler: it has just said so, or ignored a rival.
IgnoresRival(r) ==
  /\ Still(r) /\ state[r] = "Master"
  /\ Head(inbox[r]).priority # 0 /\ ~BetterMaster(r, Head(inbox[r]))

LEMMA MasterAfter ==
  ASSUME ClusterBasics, DistinctIps, NEW r \in Routers,
         Enable(r) \/ Disable(r) \/ MasterDown(r) \/ Advertise(r) \/ Receive(r),
         state'[r] = "Master"
  PROVE  /\ Claims(r) \/ (Receive(r) /\ IgnoresRival(r))
         /\ \/ state[r] = "Disabled" /\ priority[r] = 255
            \/ state[r] = "Backup" /\ masterDownTimer[r] = 0 /\ inbox'[r] = inbox[r]
            \/ state[r] = "Master" /\ inbox'[r] = inbox[r]
            \/ /\ state[r] = "Master" /\ inbox[r] # <<>> /\ inbox'[r] = Tail(inbox[r])
               /\ Head(inbox[r]).priority = 0 \/ ~BetterMaster(r, Head(inbox[r]))
<1>1. TypeOK /\ InboxType
  BY DEF ClusterBasics
<1>2. CASE Enable(r)
  BY <1>1, <1>2, EnableWay DEF Enable, Patient, Departs
<1>3. CASE Disable(r)
  BY <1>1, <1>3, DisableWay DEF Disable
<1>4. CASE MasterDown(r)
  BY <1>1, <1>4, TimerWays, OwnQueue DEF MasterDown
<1>5. CASE Advertise(r)
  BY <1>1, <1>5, TimerWays, OwnQueue DEF Advertise
<1>6. CASE Receive(r)
  <2> DEFINE pkt == Head(inbox[r])
  <2>1. PacketWay(r, pkt)
    BY <1>1, <1>6, PacketWays DEF Receive
  <2>2. inbox[r] # <<>> /\ inbox'[r] = Tail(inbox[r])
    BY <1>1, <1>6, OwnQueue
  <2> HIDE DEF pkt
  <2>3. \/ state[r] = "Master" /\ pkt.priority = 0 /\ Claims(r)
        \/ Still(r) /\ state[r] = "Master" /\ pkt.priority # 0 /\ ~BetterMaster(r, pkt)
    BY <2>1 DEF PacketWay, Hastens, Patient, Still, Undisturbed
  <2> QED BY <1>6, <2>2, <2>3 DEF IgnoresRival, pkt
<1> QED BY <1>2, <1>3, <1>4, <1>5, <1>6

LEMMA BackupAfter ==
  ASSUME ConfigAssumption, ClusterBasics, NEW r \in Routers,
         Enable(r) \/ Disable(r) \/ MasterDown(r) \/ Advertise(r) \/ Receive(r),
         state'[r] = "Backup"
  PROVE  \/ \E i \in ValidIntervals : Patient(r, i)
         \/ /\ state[r] = "Backup" /\ inbox[r] # <<>> /\ inbox'[r] = Tail(inbox[r])
            /\ \/ Hastens(r) /\ Head(inbox[r]).priority = 0
               \/ /\ Still(r) /\ Head(inbox[r]).priority # 0
                  /\ ~RightMaster(r, Head(inbox[r]))
<1>1. TypeOK /\ InboxType /\ advertisementInterval[r] \in ValidIntervals
  BY DEF ClusterBasics, Configured
<1>2. CASE Enable(r)
  BY <1>1, <1>2, EnableWay DEF Enable, Claims, Departs
<1>3. CASE Disable(r)
  BY <1>1, <1>3, DisableWay DEF Disable
<1>4. CASE MasterDown(r) \/ Advertise(r)
  BY <1>1, <1>4, TimerWays DEF MasterDown, Advertise, Claims
<1>5. CASE Receive(r)
  <2> DEFINE pkt == Head(inbox[r])
  <2>1. PacketWay(r, pkt)
    BY <1>1, <1>5, PacketWays DEF Receive
  <2>2. inbox[r] # <<>> /\ inbox'[r] = Tail(inbox[r])
    BY <1>1, <1>5, OwnQueue
  <2>3. pkt.interval \in ValidIntervals
    BY <2>2, HeadIsGenuine DEF ClusterBasics, Configured
  <2> HIDE DEF pkt
  <2>4. \/ Patient(r, pkt.interval)
        \/ state[r] = "Backup" /\ pkt.priority = 0 /\ Hastens(r)
        \/ Still(r) /\ state[r] = "Backup" /\ pkt.priority # 0 /\ ~RightMaster(r, pkt)
    BY <2>1 DEF PacketWay, Claims, Still, Undisturbed
  <2> QED BY <2>2, <2>3, <2>4 DEF pkt
<1> QED BY <1>2, <1>3, <1>4, <1>5

\* Whoever says that it is Master reaches every other router.
LEMMA SpeakerIsElected ==
  ASSUME ClusterBasics, DistinctIps, losses \in Nat, losses' = 0,
         NEW a \in Routers, NEW b \in Routers \ {a},
         Enable(a) \/ Disable(a) \/ MasterDown(a) \/ Advertise(a) \/ Receive(a),
         UNCHANGED Settings, Claims(a)
  PROVE  Elected(a, b)'
<1>1. sent'[a] = <<Own(a)>>
  BY ClaimsSpeak DEF ClusterBasics
<1>2. Holds(inbox'[b], Own(a)) /\ Covered(inbox'[b], Own(a))
  BY <1>1, OthersQueue DEF ClusterBasics
<1>3. Own(a)' = Own(a)
  BY OwnKept
<1> QED BY <1>2, <1>3 DEF Elected, Yields, Reminded

\* Whoever ignores a rival stays what it was for the others.
LEMMA ListenerStaysElected ==
  ASSUME ClusterBasics, losses \in Nat, losses' = 0,
         NEW a \in Routers, NEW b \in Routers \ {a}, Elected(a, b),
         Receive(a), IgnoresRival(a), UNCHANGED Settings, OthersUndisturbed(a)
  PROVE  Elected(a, b)'
<1>1. Undisturbed(a) /\ Undisturbed(b) /\ sent'[a] = <<>> /\ Head(inbox[a]).priority # 0
  BY DEF IgnoresRival, Still, OthersUndisturbed
<1>2. inbox'[b] = inbox[b]
  BY <1>1, OthersQueue DEF ClusterBasics
<1>3. HasGoodbye(inbox[a]) => HasGoodbye(inbox'[a])
  <2>1. inbox[a] # <<>> /\ inbox'[a] = Tail(inbox[a]) /\ inbox[a] \in Queues
    BY OwnQueue DEF ClusterBasics, InboxType
  <2> QED BY <1>1, <2>1, GoodbyeInTail
<1>4. Own(a)' = Own(a) /\ (Above(a, b)' <=> Above(a, b))
  BY OwnKept
<1> QED BY <1>1, <1>2, <1>3, <1>4 DEF Elected, Yields, Reminded, Undisturbed

\* Neither of the two handles anything: their queues only grow.
LEMMA BystandersStayElected ==
  ASSUME ClusterBasics, losses \in Nat, losses' = 0,
         NEW a \in Routers, NEW b \in Routers \ {a}, Elected(a, b),
         NEW r \in Routers \ {a, b}, UNCHANGED Settings, OthersUndisturbed(r),
         Enable(r) \/ Disable(r) \/ MasterDown(r) \/ Advertise(r) \/ Receive(r)
  PROVE  Elected(a, b)'
<1>1. Undisturbed(a) /\ Undisturbed(b)
  BY DEF OthersUndisturbed
<1>2. /\ Holds(inbox[b], Own(a)) => Holds(inbox'[b], Own(a))
      /\ HasGoodbye(inbox[a]) => HasGoodbye(inbox'[a])
      /\ \/ HasGoodbye(inbox'[a])
         \/ Covered(inbox[b], Own(a)) => Covered(inbox'[b], Own(a))
  BY OthersQueue DEF ClusterBasics
<1>3. Own(a)' = Own(a) /\ (Above(a, b)' <=> Above(a, b))
  BY OwnKept
<1>4. Reminded(a, b)'
  BY <1>2, <1>3 DEF Elected, Reminded
<1>5. Above(a, b) => Yields(a, b)'
  BY <1>1, <1>2, <1>3 DEF Elected, Yields, Undisturbed
<1> QED BY <1>3, <1>4, <1>5 DEF Elected

\* A better Master's claim stays in the queue of a router that handles another packet.
LEMMA ClaimStays ==
  ASSUME ClusterBasics, NEW a \in Routers, NEW b \in Routers \ {a}, inbox[b] # <<>>,
         inbox'[b] = Tail(inbox[b]), Holds(inbox[b], Own(a)), Above(a, b),
         \/ Head(inbox[b]).priority = 0
         \/ ~BetterMaster(b, Head(inbox[b]))
         \/ ~RightMaster(b, Head(inbox[b]))
  PROVE  Holds(inbox'[b], Own(a))
<1>1. BetterMaster(b, Own(a)) /\ RightMaster(b, Own(a)) /\ Own(a).priority # 0
  BY AboveMeansBetter, OwnParts DEF ClusterBasics
<1>2. Head(inbox[b]) # Own(a)
  BY <1>1
<1>3. inbox[b] \in Queues
  BY DEF ClusterBasics, InboxType
<1> QED BY <1>2, <1>3, HeldInTail

LEMMA HandlerStaysElected ==
  ASSUME ConfigAssumption, SameIntervals, DistinctIps, ClusterBasics,
         losses \in Nat, losses' = 0,
         NEW a \in Routers, NEW b \in Routers \ {a}, Elected(a, b), Beats(a), state[a] = "Master",
         UNCHANGED Settings, OthersUndisturbed(b),
         Enable(b) \/ Disable(b) \/ MasterDown(b) \/ Advertise(b) \/ Receive(b)
  PROVE  Elected(a, b)'
<1>1. Undisturbed(a) /\ TypeOK /\ InboxType
  BY DEF OthersUndisturbed, ClusterBasics
<1>2. Own(a)' = Own(a) /\ (Above(a, b)' <=> Above(a, b))
  BY OwnKept
<1>3. HasGoodbye(inbox[a]) => HasGoodbye(inbox'[a])
  BY OthersQueue DEF ClusterBasics
<1>4. inbox'[b] = inbox[b] \/ (inbox[b] # <<>> /\ inbox'[b] = Tail(inbox[b]))
  BY <1>1, OwnQueue
<1>5. inbox[b] \in Queues
  BY <1>1 DEF InboxType
<1>6. Reminded(a, b)'
  <2>1. Covered(inbox[b], Own(a)) => Covered(inbox'[b], Own(a))
    BY <1>4, <1>5, CoveredInTail
  <2> QED BY <1>2, <1>3, <2>1 DEF Elected, Reminded
<1>7. /\ advertisementTimer'[a] = advertisementTimer[a]
      /\ advertisementTimer[a] \in 0..(10 * advertisementInterval[a])
      /\ advertisementInterval[a] \in ValidIntervals
  BY <1>1 DEF Undisturbed, Beats, ClusterBasics, Configured
<1>8. ASSUME Above(a, b), state'[b] = "Master" PROVE Holds(inbox'[b], Own(a))
  <2>1. Yields(a, b)
    BY <1>8 DEF Elected
  <2>2. CASE state[b] = "Disabled" /\ priority[b] = 255
    <3>1. priority[a] \in 1..255 /\ ~(priority[a] = 255 /\ priority[b] = 255)
      BY <1>1 DEF TypeOK, PriorityRange, ClusterBasics, Configured
    <3>2. priority[a] > priority[b] \/ priority[a] = priority[b]
      BY <1>8 DEF Above
    <3> QED BY <2>2, <3>1, <3>2
  <2>3. CASE state[b] = "Backup" /\ masterDownTimer[b] = 0 /\ inbox'[b] = inbox[b]
    <3>1. ~(masterDownTimer[b] > advertisementTimer[a]) /\ masterDownTimer[b] # Stalled
      BY <1>7, <2>3 DEF Stalled
    <3> QED BY <2>1, <2>3, <3>1 DEF Yields
  <2>4. CASE state[b] = "Master" /\ inbox'[b] = inbox[b]
    BY <2>1, <2>4 DEF Yields
  <2>5. CASE /\ state[b] = "Master" /\ inbox[b] # <<>> /\ inbox'[b] = Tail(inbox[b])
             /\ Head(inbox[b]).priority = 0 \/ ~BetterMaster(b, Head(inbox[b]))
    <3>1. Holds(inbox[b], Own(a))
      BY <2>1, <2>5 DEF Yields
    <3> QED BY <1>8, <2>5, <3>1, ClaimStays
  <2> QED BY <1>8, <2>2, <2>3, <2>4, <2>5, MasterAfter
<1>9. ASSUME Above(a, b), state'[b] = "Backup"
      PROVE  \/ Holds(inbox'[b], Own(a))
             \/ HasGoodbye(inbox'[a]) /\ masterDownTimer'[b] # 0
             \/ masterDownTimer'[b] > advertisementTimer'[a]
             \/ masterDownTimer'[b] = Stalled
  <2> DEFINE p == priority[b]
             n == advertisementInterval[a]
  <2>1. Yields(a, b)
    BY <1>9 DEF Elected
  <2>2. p \in PriorityRange
    BY <1>1 DEF TypeOK
  <2>3. CASE \E i \in ValidIntervals : Patient(b, i)
    <3>1. Patient(b, n)
      BY <1>7, <2>3 DEF SameIntervals
    <3>2. n \in IntervalRange /\ n \in Nat
      BY <1>7, ValidIntervalsType
    <3>3. masterDownTimer'[b] = Start(10 * masterDownInterval(p, n))
      BY <3>1 DEF Patient
    <3>4. masterDownTimer'[b] \in Nat /\ 10 * n < masterDownTimer'[b]
      BY <2>2, <3>2, <3>3, FreshWait
    <3> HIDE DEF n
    <3>5. advertisementTimer'[a] \in 0..(10 * n)
      BY <1>7 DEF n
    <3>6. masterDownTimer'[b] > advertisementTimer'[a]
      BY <3>2, <3>4, <3>5
    <3> QED BY <3>6
  <2>4. CASE /\ state[b] = "Backup" /\ inbox[b] # <<>> /\ inbox'[b] = Tail(inbox[b])
             /\ Hastens(b) /\ Head(inbox[b]).priority = 0
    <3>1. CASE Covered(inbox[b], Own(a))
      BY <1>5, <2>4, <3>1, CoveredInTail
    <3>2. CASE HasGoodbye(inbox[a])
      <4> DEFINE i == masterAdvertisementInterval[b]
      <4>1. masterDownTimer'[b] = Start(10 * skewTime(p, i)) /\ i \in SentIntervals
        BY <1>1, <2>4 DEF Hastens, TypeOK
      <4>2. skewTime(p, i) \in Nat
        BY <2>2, <4>1, ReceivedBounds
      <4>3. masterDownTimer'[b] # 0
        BY <4>1, <4>2 DEF Start, Stalled
      <4> QED BY <1>3, <3>2, <4>3
    <3> QED BY <3>1, <3>2 DEF Elected, Reminded
  <2>5. CASE /\ state[b] = "Backup" /\ inbox[b] # <<>> /\ inbox'[b] = Tail(inbox[b])
             /\ Still(b) /\ Head(inbox[b]).priority # 0
             /\ ~RightMaster(b, Head(inbox[b]))
    <3>1. Holds(inbox[b], Own(a)) => Holds(inbox'[b], Own(a))
      BY <1>9, <2>5, ClaimStays
    <3>2. masterDownTimer'[b] = masterDownTimer[b]
      BY <2>5 DEF Still, Undisturbed
    <3>3. \/ Holds(inbox[b], Own(a))
          \/ HasGoodbye(inbox[a]) /\ masterDownTimer[b] # 0
          \/ masterDownTimer[b] > advertisementTimer[a]
          \/ masterDownTimer[b] = Stalled
      BY <2>1, <2>5 DEF Yields
    <3> QED BY <1>3, <1>7, <3>1, <3>2, <3>3
  <2> QED BY <1>9, <2>3, <2>4, <2>5, BackupAfter, SMTT(40)
<1> QED BY <1>2, <1>6, <1>8, <1>9 DEF Elected, Yields

LEMMA ElectionHandler ==
  ASSUME ConfigAssumption, SameIntervals, DistinctIps, ClusterBasics, Election,
         NEW r \in Routers,
         Enable(r) \/ Disable(r) \/ MasterDown(r) \/ Advertise(r) \/ Receive(r)
  PROVE  Election'
<1>1. PICK queues : Dequeued(queues, r) /\ Handler(r, queues)
  BY HandlerSays DEF ClusterBasics
<1>2. UNCHANGED Settings /\ OthersUndisturbed(r) /\ TypeOK
  BY <1>1, StepOthers DEF Handler, ClusterBasics
<1>3. losses \in Nat /\ losses' \in Nat /\ losses <= losses'
  BY <1>1, DeliveryTo DEF Election, Handler, Dequeued
<1>4. ASSUME NEW a \in Routers PROVE Beats(a)'
  <2>1. Beats(a) /\ advertisementInterval' = advertisementInterval
    BY <1>2, RankUnchanged DEF Election
  <2>2. CASE Undisturbed(a)
    BY <2>1, <2>2 DEF Undisturbed, Beats
  <2>3. CASE a = r /\ state'[r] = "Master"
    <3>1. CASE Claims(r)
      <4>1. advertisementTimer'[a] = 10 * advertisementInterval[a]
        BY <2>3, <3>1 DEF Claims
      <4>2. advertisementInterval[a] \in Nat
        BY Ranges DEF ClusterBasics, TypeOK
      <4> QED BY <2>1, <4>1, <4>2 DEF Beats
    <3>2. CASE IgnoresRival(r)
      BY <2>2, <2>3, <3>2 DEF IgnoresRival, Still
    <3> QED BY <2>3, <3>1, <3>2, MasterAfter
  <2>4. CASE a = r /\ state'[r] # "Master"
    BY <2>4 DEF Beats
  <2> QED BY <1>2, <2>2, <2>3, <2>4 DEF OthersUndisturbed
<1>5. ASSUME losses' = 0, NEW a \in Routers, state'[a] = "Master", NEW b \in Routers \ {a}
      PROVE  Elected(a, b)'
  <2>1. losses = 0
    BY <1>3, <1>5
  <2>2. state[a] = "Master" => Elected(a, b) /\ Beats(a)
    BY <2>1 DEF Election, Masters
  <2>3. CASE a = r
    <3>1. CASE Claims(r)
      BY <1>2, <1>3, <1>5, <2>3, <3>1, SpeakerIsElected
    <3>2. CASE Receive(r) /\ IgnoresRival(r)
      <4>1. state[a] = "Master"
        BY <2>3, <3>2 DEF IgnoresRival
      <4> QED BY <1>2, <1>3, <1>5, <2>2, <2>3, <3>2, <4>1, ListenerStaysElected
    <3> QED BY <1>5, <2>3, <3>1, <3>2, MasterAfter
  <2>4. CASE a # r
    <3>1. state[a] = "Master"
      BY <1>2, <1>5, <2>4 DEF OthersUndisturbed, Undisturbed
    <3>2. CASE b = r
      BY <1>2, <1>3, <1>5, <2>2, <3>1, <3>2, HandlerStaysElected
    <3>3. CASE b # r
      BY <1>2, <1>3, <1>5, <2>2, <2>4, <3>1, <3>3, BystandersStayElected
    <3> QED BY <3>2, <3>3
  <2> QED BY <2>3, <2>4
<1> QED BY <1>3, <1>4, <1>5 DEF Election, Masters

LEMMA ElectionCrash ==
  ASSUME ConfigAssumption, ClusterBasics, Election, NEW r \in Routers, Crash(r)
  PROVE  Election'
<1>1. OthersUndisturbed(r) /\ state'[r] = "Disabled" /\ TypeOK /\ InboxType
  BY CrashOthers DEF ClusterBasics
<1>2. losses' = losses /\ inbox' = [inbox EXCEPT ![r] = <<>>] /\ UNCHANGED Settings
  BY DEF Crash, Settings
<1>3. inbox'[r] = <<>> /\ \A q \in Routers \ {r} : inbox'[q] = inbox[q]
  BY <1>1, <1>2 DEF InboxType
<1>4. advertisementInterval' = advertisementInterval
  BY <1>2, RankUnchanged
<1>5. ASSUME NEW a \in Routers PROVE Beats(a)'
  <2>1. CASE a = r
    BY <1>1, <2>1 DEF Beats
  <2>2. CASE a # r
    BY <1>1, <1>4, <2>2 DEF OthersUndisturbed, Undisturbed, Beats, Election
  <2> QED BY <2>1, <2>2
<1>6. ASSUME losses = 0, NEW a \in Routers, state'[a] = "Master", NEW b \in Routers \ {a}
      PROVE  Elected(a, b)'
  <2>1. a # r /\ Undisturbed(a) /\ inbox'[a] = inbox[a] /\ state[a] = "Master"
    BY <1>1, <1>3, <1>6 DEF OthersUndisturbed, Undisturbed
  <2>2. Elected(a, b)
    BY <1>6, <2>1 DEF Election, Masters
  <2>3. Own(a)' = Own(a) /\ (Above(a, b)' <=> Above(a, b))
    BY <1>2, OwnKept
  <2>4. CASE b = r
    <3>1. Covered(<<>>, Own(a))
      BY DEF Covered
    <3>2. Covered(inbox'[b], Own(a))
      BY <1>3, <2>4, <3>1
    <3> QED BY <1>1, <2>3, <2>4, <3>2 DEF Elected, Yields, Reminded
  <2>5. CASE b # r
    <3>1. Undisturbed(b) /\ inbox'[b] = inbox[b]
      BY <1>1, <1>3, <2>5 DEF OthersUndisturbed
    <3> QED BY <2>1, <2>2, <2>3, <3>1 DEF Elected, Yields, Reminded, Undisturbed
  <2> QED BY <2>4, <2>5
<1> QED BY <1>2, <1>5, <1>6 DEF Election, Masters

LEMMA ElectionTick ==
  ASSUME ConfigAssumption, ClusterBasics, Election, NEW d \in TimeSteps, Tick(d)
  PROVE  Election'
<1>1. /\ d \in Nat \ {0} /\ Quiet /\ inbox' = inbox /\ state' = state /\ losses' = losses
      /\ UNCHANGED Settings
  <2>1. d \in Nat \ {0}
    BY DEF ConfigAssumption
  <2>2. UNCHANGED Settings
    BY DEF Tick, Elapse, Settings
  <2>3. Quiet /\ inbox' = inbox /\ state' = state /\ losses' = losses
    BY DEF Tick, Elapse
  <2> QED BY <2>1, <2>2, <2>3
<1>2. ASSUME NEW q \in Routers
      PROVE  /\ masterDownTimer'[q] = Elapsed(masterDownTimer[q], d)
             /\ advertisementTimer'[q] = Elapsed(advertisementTimer[q], d)
             /\ masterDownTimer[q] \in Timers /\ advertisementTimer[q] \in Timers
             /\ masterDownTimer[q] # 0 /\ (masterDownTimer[q] >= d \/ masterDownTimer[q] < 0)
             /\ advertisementTimer[q] # 0 /\ (advertisementTimer[q] >= d \/ advertisementTimer[q] < 0)
  BY DEF Tick, Elapse, Due, RunsFor, ClusterBasics, TypeOK
<1>3. \A t \in Timers : t >= d => Elapsed(t, d) = t - d
  BY <1>1 DEF Elapsed, Timers, Idle, Stalled
<1>4. Elapsed(Stalled, d) = Stalled
  BY <1>1 DEF Elapsed, Stalled
<1>5. advertisementInterval' = advertisementInterval
  BY <1>1, RankUnchanged
<1>6. ASSUME NEW a \in Routers, state[a] = "Master"
      PROVE  /\ advertisementTimer[a] \in Nat
             /\ advertisementTimer'[a] = advertisementTimer[a] - d
             /\ advertisementTimer[a] - d \in 0..(10 * advertisementInterval[a])
  <2> DEFINE t == advertisementTimer[a]
             n == advertisementInterval[a]
  <2>1. t \in 0..(10 * n) /\ n \in Nat
    BY <1>6, Ranges DEF Election, Beats, ClusterBasics, TypeOK
  <2>2. t \in Nat /\ t >= d
    <3>1. t >= d \/ t < 0
      BY <1>2
    <3> HIDE DEF t, n
    <3> QED BY <1>1, <2>1, <3>1
  <2>3. advertisementTimer'[a] = t - d
    BY <1>2, <1>3, <2>2
  <2>4. t - d \in 0..(10 * n)
    <3> HIDE DEF t, n
    <3> QED BY <1>1, <2>1, <2>2
  <2> QED BY <2>2, <2>3, <2>4
<1>7. ASSUME NEW a \in Routers PROVE Beats(a)'
  BY <1>1, <1>5, <1>6 DEF Beats
<1>8. ASSUME losses = 0, NEW a \in Routers, state[a] = "Master", NEW b \in Routers \ {a}
      PROVE  Elected(a, b)'
  <2>1. Elected(a, b)
    BY <1>8 DEF Election, Masters
  <2>2. Own(a)' = Own(a) /\ (Above(a, b)' <=> Above(a, b))
    BY <1>1, OwnKept
  <2>3. ~HasGoodbye(inbox[a]) /\ ~Holds(inbox[b], Own(a))
    BY <1>1 DEF Quiet, HasGoodbye, Holds
  <2>4. ASSUME Above(a, b), state[b] = "Backup"
        PROVE  \/ masterDownTimer'[b] > advertisementTimer'[a]
               \/ masterDownTimer'[b] = Stalled
    <3> DEFINE m == masterDownTimer[b]
               t == advertisementTimer[a]
    <3>1. m > t \/ m = Stalled
      BY <2>1, <2>3, <2>4 DEF Elected, Yields
    <3>2. CASE m = Stalled
      BY <1>2, <1>4, <3>2
    <3>3. CASE m > t
      <4>1. t \in Nat /\ m \in Timers /\ (m >= d \/ m < 0) /\ advertisementTimer'[a] = t - d
        BY <1>2, <1>6, <1>8
      <4>2. masterDownTimer'[b] = Elapsed(m, d)
        BY <1>2
      <4> HIDE DEF m, t
      <4>3. m >= d /\ m \in Nat
        BY <3>3, <4>1 DEF Timers, Idle, Stalled
      <4>4. masterDownTimer'[b] = m - d
        BY <1>3, <4>1, <4>2, <4>3
      <4>5. m - d > t - d
        BY <1>1, <3>3, <4>1, <4>3
      <4> QED BY <4>1, <4>4, <4>5
    <3> QED BY <3>1, <3>2, <3>3
  <2>5. Reminded(a, b)'
    BY <1>1, <2>1, <2>2 DEF Elected, Reminded
  <2>6. ~(Above(a, b) /\ state[b] = "Master")
    BY <2>1, <2>3 DEF Elected, Yields
  <2> QED BY <1>1, <2>2, <2>4, <2>5, <2>6 DEF Elected, Yields
<1> QED BY <1>1, <1>7, <1>8 DEF Election, Masters

LEMMA ElectionStep ==
  ASSUME ConfigAssumption, SameIntervals, DistinctIps, ClusterBasics, Election,
         [ClusterNext]_clusterVars
  PROVE  Election'
<1>1. ASSUME NEW r \in Routers, Discard(r) PROVE Election'
  <2>1. /\ UNCHANGED vars /\ losses' = losses /\ inbox' = Received(r) /\ inbox[r] # <<>>
        /\ state[r] \notin {"Backup", "Master"}
    BY <1>1 DEF Discard, Running
  <2>2. /\ inbox[r] \in Queues /\ inbox'[r] = Tail(inbox[r])
        /\ \A q \in Routers \ {r} : inbox'[q] = inbox[q]
    BY <2>1, ReceivedType DEF ClusterBasics, InboxType
  <2>3. UNCHANGED <<state, masterDownTimer, advertisementTimer, advertisementInterval, Settings>>
    BY <2>1 DEF vars, timerVars, configVars, Settings
  <2>4. \A a \in Routers : Beats(a)'
    BY <2>3 DEF Beats, Election
  <2>5. ASSUME losses = 0, NEW a \in Masters, NEW b \in Routers \ {a} PROVE Elected(a, b)'
    <3>1. Elected(a, b) /\ a \in Routers \ {r} /\ inbox'[a] = inbox[a]
      BY <2>1, <2>2, <2>5 DEF Election, Masters
    <3>2. Own(a)' = Own(a) /\ (Above(a, b)' <=> Above(a, b))
      BY <2>3, <3>1, OwnKept
    <3>3. CASE b = r
      <4>1. Covered(inbox[b], Own(a)) => Covered(inbox'[b], Own(a))
        BY <2>1, <2>2, <3>3, CoveredInTail
      <4> QED BY <2>1, <2>3, <3>1, <3>2, <3>3, <4>1 DEF Elected, Yields, Reminded
    <3>4. CASE b # r
      BY <2>2, <2>3, <3>1, <3>2, <3>4 DEF Elected, Yields, Reminded
    <3> QED BY <3>3, <3>4
  <2> QED BY <2>1, <2>3, <2>4, <2>5 DEF Election, Masters
<1>2. CASE UNCHANGED clusterVars
  <2>1. UNCHANGED <<state, masterDownTimer, advertisementTimer, advertisementInterval, losses,
                    inbox, Settings>>
    BY <1>2 DEF clusterVars, vars, timerVars, configVars, Settings
  <2>2. ASSUME NEW a \in Routers, NEW b \in Routers, Elected(a, b) PROVE Elected(a, b)'
    <3>1. Own(a)' = Own(a) /\ (Above(a, b)' <=> Above(a, b))
      BY <2>1, OwnKept
    <3> QED BY <2>1, <2>2, <3>1 DEF Elected, Yields, Reminded
  <2>3. \A a \in Routers : Beats(a)'
    BY <2>1 DEF Beats, Election
  <2> QED BY <2>1, <2>2, <2>3 DEF Election, Masters
<1> QED BY <1>1, <1>2, ElectionHandler, ElectionCrash, ElectionTick DEF ClusterNext

\* In any LAN of routers with one interval and different addresses: as long as no
\* packet is lost two Masters coexist only while one that ends it is under way,
\* whatever the routers' priorities and modes and whoever is disabled or killed.
THEOREM ElectionLeavesOneMaster ==
  ASSUME SameIntervals, DistinctIps
  PROVE  ClusterSpec => []OneMasterWhenQuiet
<1>1. ClusterInit => ClusterBasics /\ Election
  <2> SUFFICES ASSUME ClusterInit PROVE Election
    BY BasicsInit
  <2>1. \A a \in Routers : state[a] = "Disabled"
    BY DEF ClusterInit, Init
  <2> QED BY <2>1 DEF ClusterInit, Election, Beats, Masters
<1>2. ClusterBasics /\ Election /\ [ClusterNext]_clusterVars => ClusterBasics' /\ Election'
  BY ConfigAssumption, BasicsStep, ElectionStep
<1>3. ClusterBasics /\ Election => OneMasterWhenQuiet
  <2> SUFFICES ASSUME ClusterBasics, Election, losses = 0, Quiet
               PROVE  Cardinality(Masters) <= 1
    BY DEF OneMasterWhenQuiet
  <2>1. ASSUME NEW a \in Masters, NEW b \in Masters, a # b PROVE ~Above(a, b)
    <3>1. Elected(a, b) /\ state[b] = "Master" /\ inbox[b] = <<>>
      BY <2>1 DEF Election, Masters, Quiet
    <3>2. ~Holds(inbox[b], Own(a))
      BY <3>1 DEF Holds
    <3> QED BY <3>1, <3>2 DEF Elected, Yields
  <2>2. ASSUME NEW a \in Masters, NEW b \in Masters PROVE a = b
    <3>1. a \in Routers /\ b \in Routers
      BY DEF Masters
    <3>2. /\ priority[a] \in Nat /\ priority[b] \in Nat
          /\ primaryIp[a] \in Nat /\ primaryIp[b] \in Nat
      BY <3>1, Ranges DEF ClusterBasics, TypeOK, Ips
    <3>3. a # b => primaryIp[a] # primaryIp[b]
      BY <3>1 DEF ClusterBasics, Configured, DistinctIps
    <3>4. a # b => Above(a, b) \/ Above(b, a)
      BY <3>2, <3>3 DEF Above
    <3> QED BY <2>1, <3>4
  <2>3. CASE Masters = {}
    BY <2>3, FS_EmptySet
  <2>4. CASE Masters # {}
    <3>1. PICK a \in Masters : TRUE
      BY <2>4
    <3>2. Masters = {a}
      BY <2>2, <3>1
    <3>3. Cardinality(Masters) = 1
      BY <3>2, FS_Singleton
    <3> QED BY <3>3
  <2> QED BY <2>3, <2>4
<1> QED BY <1>1, <1>2, <1>3, PTL DEF ClusterSpec

===============================================================================
