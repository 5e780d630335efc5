------------------------ MODULE VrrpService_proofs ------------------------
(***************************************************************************)
(* Proofs about VrrpService, for every configuration of it.                *)
(***************************************************************************)
EXTENDS VrrpService, SequenceTheorems, TLAPS

(* Timers and intervals *)

\* Stated once and cited with the ranges left folded.
LEMMA Ranges ==
  /\ \A i \in IntervalRange : i \in Nat \ {0} /\ i \in SentIntervals
  /\ \A p \in PriorityRange : p \in Nat \ {0} /\ p \in SentPriorities
  /\ 0 \in SentPriorities
  /\ DefaultInterval \in IntervalRange
  /\ \A i \in SentIntervals : i \in Nat
<1>1. \A i \in IntervalRange : i \in Nat \ {0} /\ i \in SentIntervals
  BY DEF IntervalRange, SentIntervals
<1>2. /\ \A p \in PriorityRange : p \in Nat \ {0} /\ p \in SentPriorities
      /\ 0 \in SentPriorities
  BY DEF PriorityRange, SentPriorities
<1>3. DefaultInterval \in IntervalRange
  BY DEF IntervalRange, DefaultInterval
<1>4. \A i \in SentIntervals : i \in Nat
  BY DEF SentIntervals
<1> QED
  BY <1>1, <1>2, <1>3, <1>4

\* The variables that only operator commands and the link write.
Outside == <<configVars, ipVars, listVars, macvlan, linkVars>>

StateMachineTypeOK ==
  /\ state \in [Routers -> States]
  /\ masterAdvertisementInterval \in [Routers -> SentIntervals]
  /\ masterIp \in [Routers -> Ips]
  /\ masterDownTimer \in [Routers -> Timers]
  /\ advertisementTimer \in [Routers -> Timers]
  /\ virtualUp \in [Routers -> BOOLEAN]
  /\ ifAddrs \in [Routers -> SUBSET Subnets]
  /\ fakeArp \in [Routers -> SUBSET Entries]
  /\ sent \in [Routers -> Seq(Advertisements)]
  /\ announced \in [Routers -> IntervalRange \cup {0}]
  /\ script \in [Routers -> Environments]

ConfigTypeOK ==
  /\ priority \in [Routers -> PriorityRange]
  /\ preemptMode \in [Routers -> BOOLEAN]
  /\ acceptMode \in [Routers -> BOOLEAN]
  /\ advertisementInterval \in [Routers -> IntervalRange]
  /\ primaryIp \in [Routers -> Ips]
  /\ autoPrimaryIp \in [Routers -> BOOLEAN]
  /\ subnets \in [Routers -> SUBSET Subnets]
  /\ addresses \in [Routers -> SUBSET Addresses]
  /\ macvlan \in [Routers -> BOOLEAN]

LinkTypeOK ==
  /\ link \in [Routers -> [admin : BOOLEAN, oper : BOOLEAN]]
  /\ linkEvents \in [Routers -> Seq(Flags)]
  /\ misled \subseteq Routers

OutsideTypeOK == ConfigTypeOK /\ LinkTypeOK

\* A step that leaves a part alone keeps that part's types.
LEMMA TypeParts == TypeOK <=> StateMachineTypeOK /\ OutsideTypeOK
BY DEF TypeOK, StateMachineTypeOK, OutsideTypeOK, ConfigTypeOK, LinkTypeOK

LEMMA TypePartsNext == TypeOK' <=> StateMachineTypeOK' /\ OutsideTypeOK'
BY DEF TypeOK, StateMachineTypeOK, OutsideTypeOK, ConfigTypeOK, LinkTypeOK

\* The skew time is a number below the interval it is computed from.
LEMMA SkewBounds ==
  ASSUME NEW p \in PriorityRange, NEW i \in IntervalRange
  PROVE  /\ skewTime(p, i) \in Nat
         /\ skewTime(p, i) < i
<1> DEFINE n == (256 - p) * i
<1> USE DEF PriorityRange, IntervalRange
<1>1. n \in Nat
  OBVIOUS
<1>2. n < 256 * i
  <2>1. p * i > 0
    OBVIOUS
  <2>2. n = 256 * i - p * i
    OBVIOUS
  <2> QED
    BY <2>1, <2>2, <1>1
<1> HIDE DEF n
<1>3. n \div 256 \in Nat /\ n \div 256 < i
  BY <1>1, <1>2
<1> QED
  BY <1>3 DEF skewTime, n

\* The wait for a silent master is positive and below four intervals.
LEMMA MasterDownBounds ==
  ASSUME NEW p \in PriorityRange, NEW i \in IntervalRange
  PROVE  /\ masterDownInterval(p, i) \in Nat \ {0}
         /\ masterDownInterval(p, i) < 4 * i
<1>1. skewTime(p, i) \in Nat /\ skewTime(p, i) < i
  BY SkewBounds
<1> QED
  BY <1>1 DEF masterDownInterval, IntervalRange

\* Of the intervals that may be received, zero among them: where the skew time vanishes,
\* the interval is below 256.
LEMMA ReceivedBounds ==
  ASSUME NEW p \in PriorityRange, NEW i \in SentIntervals
  PROVE  /\ skewTime(p, i) \in Nat /\ masterDownInterval(p, i) \in Nat
         /\ i # 0 => skewTime(p, i) < i /\ masterDownInterval(p, i) < 4 * i
         /\ i = 0 => skewTime(p, i) = 0 /\ masterDownInterval(p, i) = 0
         /\ skewTime(p, i) = 0 \/ masterDownInterval(p, i) = 0 => i < 256
<1>1. CASE i = 0
  <2>1. skewTime(p, i) = 0
    BY <1>1 DEF skewTime, PriorityRange
  <2> QED
    BY <1>1, <2>1 DEF masterDownInterval
<1>2. CASE i # 0
  <2>1. i \in IntervalRange /\ i \in Nat
    BY <1>2 DEF SentIntervals, IntervalRange
  <2>2. /\ skewTime(p, i) \in Nat /\ skewTime(p, i) < i
        /\ masterDownInterval(p, i) \in Nat \ {0} /\ masterDownInterval(p, i) < 4 * i
    BY <2>1, SkewBounds, MasterDownBounds
  <2>3. skewTime(p, i) = 0 => i < 256
    <3> DEFINE n == (256 - p) * i
    <3>1. n \in Nat /\ i <= n
      <4>1. 256 - p \in Nat \ {0}
        BY DEF PriorityRange
      <4> QED
        BY <2>1, <4>1
    <3> HIDE DEF n
    <3>2. n \div 256 = 0 => n < 256
      BY <3>1
    <3> QED
      BY <2>1, <3>1, <3>2 DEF skewTime, n
  <2> QED
    BY <1>2, <2>2, <2>3
<1> QED
  BY <1>1, <1>2

\* A wait that ends within four intervals, or never.
InTime(t, i) ==
  \/ t \in 0 .. (40 * i - 1)
  \/ t = Stalled /\ i < 256

LEMMA StartInTime ==
  ASSUME NEW i \in SentIntervals, NEW w \in Nat,
         i # 0 => w < 4 * i, i = 0 => w = 0, w = 0 => i < 256
  PROVE  Start(10 * w) \in Timers /\ Armed(Start(10 * w)) /\ InTime(Start(10 * w), i)
<1>1. i \in Nat
  BY DEF SentIntervals
<1>2. CASE w = 0
  BY <1>2 DEF Start, Timers, Armed, Idle, Stalled, InTime
<1>3. CASE w # 0
  <2>1. Start(10 * w) = 10 * w /\ 10 * w \in Nat /\ w < 4 * i
    BY <1>3 DEF Start
  <2>2. 10 * w \in 0 .. (40 * i - 1)
    BY <1>1, <2>1
  <2> QED
    BY <2>1, <2>2 DEF Timers, Armed, Idle, InTime
<1> QED
  BY <1>2, <1>3

LEMMA InTimeArmed ==
  ASSUME NEW t, NEW i, InTime(t, i)
  PROVE  Armed(t)
BY DEF InTime, Armed, Idle, Stalled

LEMMA StartType ==
  ASSUME NEW msec \in Nat
  PROVE  Start(msec) \in Timers /\ Armed(Start(msec)) /\ Start(msec) <= msec
BY DEF Start, Timers, Armed, Idle, Stalled

LEMMA ElapsedType ==
  ASSUME NEW t \in Timers, NEW d \in Nat \ {0}
  PROVE  Elapsed(t, d) \in Timers /\ Elapsed(t, d) <= t /\ (Armed(Elapsed(t, d)) <=> Armed(t))
BY DEF Elapsed, Timers, Armed, Idle, Stalled

-----------------------------------------------------------------------------
(* Types: what each part of a handler leaves in the variables it writes.     *)

LEMMA OutputType ==
  ASSUME NEW r \in Routers
  PROVE  outputInterface(r) \in {Physical, Macvlan, Vlan}
BY DEF outputInterface

LEMMA ArpEntriesType ==
  ASSUME ConfigAssumption, TypeOK, NEW r \in Routers, NEW s \in Subnets,
         NEW iface \in {Physical, Macvlan, Vlan}
  PROVE  /\ AddressOf[s] \in Addresses
         /\ <<iface, AddressOf[s]>> \in Entries
         /\ ArpEntries(r, iface) \subseteq Entries
<1>1. subnets[r] \subseteq Subnets
  BY DEF TypeOK
<1> QED
  BY <1>1 DEF ArpEntries, Addresses, Entries

LEMMA MoveType ==
  ASSUME ConfigAssumption, TypeOK, NEW r \in Routers,
         \/ MoveToInterface(r) \/ MoveToArpService(r)
         \/ addIpAddresses(r) \/ removeIpAddresses(r)
         \/ UNCHANGED <<ifAddrs, fakeArp>>
  PROVE  /\ ifAddrs' \in [Routers -> SUBSET Subnets]
         /\ fakeArp' \in [Routers -> SUBSET Entries]
<1>1. subnets[r] \subseteq Subnets
  BY DEF TypeOK
<1>2. /\ ifAddrs \in [Routers -> SUBSET Subnets]
      /\ fakeArp \in [Routers -> SUBSET Entries]
  BY TypeParts DEF StateMachineTypeOK
<1>3. ArpEntries(r, Physical) \subseteq Entries
  BY <1>1 DEF ArpEntries, Addresses, Entries
<1> DEFINE A == ArpEntries(r, Physical)
<1> HIDE DEF A
<1>4. /\ ifAddrs' \in {ifAddrs, [ifAddrs EXCEPT ![r] = @ \cup subnets[r]],
                       [ifAddrs EXCEPT ![r] = @ \ subnets[r]]}
      /\ fakeArp' \in {fakeArp, [fakeArp EXCEPT ![r] = @ \cup A], [fakeArp EXCEPT ![r] = @ \ A]}
  BY DEF MoveToInterface, MoveToArpService, addIpAddresses, removeIpAddresses, A
<1>5. ifAddrs' \in [Routers -> SUBSET Subnets]
  BY <1>1, <1>2, <1>4
<1>6. fakeArp' \in [Routers -> SUBSET Entries]
  BY <1>2, <1>3, <1>4 DEF A
<1> QED
  BY <1>5, <1>6

LEMMA SetStateType ==
  ASSUME ConfigAssumption, TypeOK, NEW r \in Routers, NEW new \in States, setState(r, new)
  PROVE  /\ state' \in [Routers -> States]
         /\ virtualUp' \in [Routers -> BOOLEAN]
         /\ ifAddrs' \in [Routers -> SUBSET Subnets]
         /\ fakeArp' \in [Routers -> SUBSET Entries]
         /\ script' \in [Routers -> Environments]
<1>1. \/ addIpAddresses(r) \/ removeIpAddresses(r) \/ UNCHANGED <<ifAddrs, fakeArp>>
  BY DEF setState
<1>2. /\ ifAddrs' \in [Routers -> SUBSET Subnets]
      /\ fakeArp' \in [Routers -> SUBSET Entries]
  BY <1>1, MoveType
<1>3. /\ state' \in [Routers -> States]
      /\ virtualUp' \in [Routers -> BOOLEAN]
  <2>1. /\ state' = [state EXCEPT ![r] = new]
        /\ virtualUp' = [virtualUp EXCEPT ![r] = new = "Master"]
    BY DEF setState
  <2>2. /\ state \in [Routers -> States]
        /\ virtualUp \in [Routers -> BOOLEAN]
    BY DEF TypeOK
  <2>3. state' \in [Routers -> States]
    BY <2>1, <2>2
  <2>4. virtualUp' \in [Routers -> BOOLEAN]
    BY <2>1, <2>2
  <2> QED
    BY <2>3, <2>4
<1>4. script' \in [Routers -> Environments]
  <2>1. CASE UNCHANGED script
    BY <2>1 DEF TypeOK
  <2>2. CASE executeScript(r, new)
    BY <2>2 DEF executeScript, TypeOK, Environments
  <2> QED
    BY <2>1, <2>2 DEF setState
<1> QED
  BY <1>2, <1>3, <1>4

LEMMA SendType ==
  ASSUME TypeOK, NEW r \in Routers,
         \/ SendNothing(r)
         \/ \E p \in SentPriorities : sendAdvertisement(r, p)
  PROVE  /\ sent' \in [Routers -> Seq(Advertisements)]
         /\ announced' \in [Routers -> IntervalRange \cup {0}]
<1>1. CASE SendNothing(r)
  BY <1>1 DEF SendNothing, TypeOK
<1>2. ASSUME NEW p \in SentPriorities, sendAdvertisement(r, p)
      PROVE  /\ sent' \in [Routers -> Seq(Advertisements)]
             /\ announced' \in [Routers -> IntervalRange \cup {0}]
  <2>0. /\ primaryIp[r] \in Ips /\ addresses[r] \in SUBSET Addresses
        /\ advertisementInterval[r] \in SentIntervals
    BY Ranges, SMTT(30) DEF TypeOK
  <2>1. Advertisement(r, p) \in Advertisements
    BY <2>0 DEF Advertisement, Advertisements
  <2>2. <<Advertisement(r, p)>> \in Seq(Advertisements) /\ <<>> \in Seq(Advertisements)
    BY <2>1
  <2>3. sent' \in [Routers -> Seq(Advertisements)]
    BY <1>2, <2>2 DEF sendAdvertisement, TypeOK
  <2>4. announced' \in [Routers -> IntervalRange \cup {0}]
    BY <1>2 DEF sendAdvertisement, TypeOK
  <2> QED
    BY <2>3, <2>4
<1> QED
  BY <1>1, <1>2

LEMMA TimerType ==
  ASSUME TypeOK, NEW r \in Routers
  PROVE  /\ \A i \in SentIntervals : StartMasterDown(r, i) =>
              /\ masterDownTimer' \in [Routers -> Timers]
              /\ Armed(masterDownTimer'[r])
              /\ InTime(masterDownTimer'[r], i)
              /\ \A q \in Routers \ {r} : masterDownTimer'[q] = masterDownTimer[q]
         /\ StartAdvertisement(r) =>
              /\ advertisementTimer' \in [Routers -> Timers]
              /\ advertisementTimer'[r] = 10 * advertisementInterval[r]
              /\ \A q \in Routers \ {r} : advertisementTimer'[q] = advertisementTimer[q]
         /\ StopMasterDown(r) =>
              /\ masterDownTimer' \in [Routers -> Timers]
              /\ masterDownTimer'[r] = Idle
              /\ \A q \in Routers \ {r} : masterDownTimer'[q] = masterDownTimer[q]
         /\ StopAdvertisement(r) =>
              /\ advertisementTimer' \in [Routers -> Timers]
              /\ advertisementTimer'[r] = Idle
              /\ \A q \in Routers \ {r} : advertisementTimer'[q] = advertisementTimer[q]
<1>1. ASSUME NEW i \in SentIntervals, StartMasterDown(r, i)
      PROVE  /\ masterDownTimer' \in [Routers -> Timers]
             /\ Armed(masterDownTimer'[r])
             /\ InTime(masterDownTimer'[r], i)
             /\ \A q \in Routers \ {r} : masterDownTimer'[q] = masterDownTimer[q]
  <2> DEFINE m == masterDownInterval(priority[r], i)
  <2>1. /\ m \in Nat /\ (m = 0 => i < 256)
        /\ i # 0 => m < 4 * i
        /\ i = 0 => m = 0
    <3>1. priority[r] \in PriorityRange
      BY DEF TypeOK
    <3> QED
      BY <3>1, ReceivedBounds
  <2>2. masterDownTimer' = [masterDownTimer EXCEPT ![r] = Start(10 * m)]
    BY <1>1 DEF StartMasterDown
  <2> HIDE DEF m
  <2>3. /\ Start(10 * m) \in Timers
        /\ Armed(Start(10 * m))
        /\ InTime(Start(10 * m), i)
    BY <2>1, StartInTime
  <2> QED
    BY <2>2, <2>3 DEF TypeOK
<1>2. ASSUME StartAdvertisement(r)
      PROVE  /\ advertisementTimer' \in [Routers -> Timers]
             /\ advertisementTimer'[r] = 10 * advertisementInterval[r]
             /\ \A q \in Routers \ {r} : advertisementTimer'[q] = advertisementTimer[q]
  <2>1. advertisementInterval[r] \in Nat \ {0}
    <3>1. advertisementInterval[r] \in IntervalRange
      BY DEF TypeOK
    <3> QED
      BY <3>1, Ranges
  <2>2. /\ Start(10 * advertisementInterval[r]) = 10 * advertisementInterval[r]
        /\ Start(10 * advertisementInterval[r]) \in Timers
    BY <2>1 DEF Start, Timers
  <2> QED
    BY <1>2, <2>2 DEF StartAdvertisement, TypeOK
<1>3. ASSUME StopMasterDown(r)
      PROVE  /\ masterDownTimer' \in [Routers -> Timers]
             /\ masterDownTimer'[r] = Idle
             /\ \A q \in Routers \ {r} : masterDownTimer'[q] = masterDownTimer[q]
  BY <1>3 DEF StopMasterDown, TypeOK, Timers
<1>4. ASSUME StopAdvertisement(r)
      PROVE  /\ advertisementTimer' \in [Routers -> Timers]
             /\ advertisementTimer'[r] = Idle
             /\ \A q \in Routers \ {r} : advertisementTimer'[q] = advertisementTimer[q]
  BY <1>4 DEF StopAdvertisement, TypeOK, Timers
<1> QED
  BY <1>1, <1>2, <1>3, <1>4

-----------------------------------------------------------------------------
(* The type invariant                                                        *)

\* What the handlers share: the variables of the state machine keep their types.
LEMMA BecomeMasterType ==
  ASSUME ConfigAssumption, TypeOK, NEW r \in Routers, BecomeMaster(r)
  PROVE  /\ state' \in [Routers -> States]
         /\ virtualUp' \in [Routers -> BOOLEAN]
         /\ ifAddrs' \in [Routers -> SUBSET Subnets]
         /\ fakeArp' \in [Routers -> SUBSET Entries]
         /\ script' \in [Routers -> Environments]
         /\ sent' \in [Routers -> Seq(Advertisements)]
         /\ announced' \in [Routers -> IntervalRange \cup {0}]
         /\ advertisementTimer' \in [Routers -> Timers]
         /\ masterIp' \in [Routers -> Ips]
<1>1. "Master" \in States
  BY DEF States
<1>2. priority[r] \in SentPriorities
  <2>1. priority[r] \in PriorityRange
    BY DEF TypeOK
  <2> QED
    BY <2>1, Ranges
<1>3. /\ setState(r, "Master")
      /\ sendAdvertisement(r, priority[r])
      /\ StartAdvertisement(r)
      /\ masterIp' = [masterIp EXCEPT ![r] = primaryIp[r]]
  BY DEF BecomeMaster
<1>4. masterIp' \in [Routers -> Ips]
  BY <1>3 DEF TypeOK
<1>5. /\ sent' \in [Routers -> Seq(Advertisements)]
      /\ announced' \in [Routers -> IntervalRange \cup {0}]
  BY <1>2, <1>3, SendType
<1>6. advertisementTimer' \in [Routers -> Timers]
  BY <1>3, TimerType
<1> QED
  BY <1>1, <1>3, <1>4, <1>5, <1>6, SetStateType

LEMMA OutsideUnchanged ==
  ASSUME OutsideTypeOK, UNCHANGED Outside
  PROVE  OutsideTypeOK'
<1>1. ConfigTypeOK'
  BY DEF OutsideTypeOK, ConfigTypeOK, Outside, configVars, ipVars, listVars
<1>2. LinkTypeOK'
  BY DEF OutsideTypeOK, LinkTypeOK, Outside, linkVars
<1> QED
  BY <1>1, <1>2 DEF OutsideTypeOK

LEMMA StateMachineType ==
  ASSUME TypeOK, StateMachineTypeOK', UNCHANGED Outside
  PROVE  TypeOK'
BY TypeParts, TypePartsNext, OutsideUnchanged

LEMMA StartupType ==
  ASSUME ConfigAssumption, TypeOK, NEW r \in Routers, startup(r)
  PROVE  StateMachineTypeOK'
<1>1. CASE /\ BecomeMaster(r)
           /\ UNCHANGED <<masterDownTimer, masterAdvertisementInterval>>
  <2>1. /\ masterDownTimer' \in [Routers -> Timers]
        /\ masterAdvertisementInterval' \in [Routers -> SentIntervals]
    BY <1>1 DEF TypeOK
  <2> QED
    BY <1>1, <2>1, BecomeMasterType DEF StateMachineTypeOK
<1>2. CASE /\ masterAdvertisementInterval' =
                [masterAdvertisementInterval EXCEPT ![r] = advertisementInterval[r]]
           /\ StartMasterDown(r, advertisementInterval[r])
           /\ setState(r, "Backup")
           /\ SendNothing(r)
           /\ UNCHANGED <<advertisementTimer, masterIp>>
  <2>1. "Backup" \in States
    BY DEF States
  <2>2. /\ advertisementTimer' \in [Routers -> Timers]
        /\ masterIp' \in [Routers -> Ips]
    BY <1>2, TypeParts DEF StateMachineTypeOK
  <2>5. /\ advertisementInterval[r] \in SentIntervals
        /\ masterAdvertisementInterval \in [Routers -> SentIntervals]
    BY Ranges DEF TypeOK
  <2>6. masterAdvertisementInterval' \in [Routers -> SentIntervals]
    BY <1>2, <2>5
  <2>3. masterDownTimer' \in [Routers -> Timers]
    BY <1>2, <2>5, TimerType
  <2>4. /\ sent' \in [Routers -> Seq(Advertisements)]
        /\ announced' \in [Routers -> IntervalRange \cup {0}]
    BY <1>2, SendType
  <2> QED
    BY <1>2, <2>1, <2>2, <2>3, <2>4, <2>6, SetStateType DEF StateMachineTypeOK
<1> QED
  BY <1>1, <1>2 DEF startup

LEMMA ShutdownType ==
  ASSUME ConfigAssumption, TypeOK, NEW r \in Routers, NEW new \in States, shutdown(r, new)
  PROVE  StateMachineTypeOK'
<1>1. /\ masterAdvertisementInterval' \in [Routers -> SentIntervals]
      /\ masterIp' \in [Routers -> Ips]
  BY DEF shutdown, TypeOK, masterVars
<1>2. setState(r, new)
  BY DEF shutdown
<1>3. /\ masterDownTimer' \in [Routers -> Timers]
      /\ advertisementTimer' \in [Routers -> Timers]
  <2>1. /\ StopMasterDown(r) \/ masterDownTimer' = masterDownTimer
        /\ StopAdvertisement(r) \/ advertisementTimer' = advertisementTimer
    BY DEF shutdown
  <2>2. /\ masterDownTimer \in [Routers -> Timers]
        /\ advertisementTimer \in [Routers -> Timers]
    BY DEF TypeOK
  <2> QED
    BY <2>1, <2>2, TimerType
<1>4. /\ sent' \in [Routers -> Seq(Advertisements)]
      /\ announced' \in [Routers -> IntervalRange \cup {0}]
  <2>1. SendNothing(r) \/ sendAdvertisement(r, 0)
    BY DEF shutdown
  <2> QED
    BY <2>1, SendType, Ranges
<1> QED
  BY <1>1, <1>2, <1>3, <1>4, SetStateType DEF StateMachineTypeOK

LEMMA PacketType ==
  ASSUME ConfigAssumption, TypeOK, NEW r \in Routers, NEW pkt \in Advertisements,
         onIncomingVrrpPacket(r, pkt)
  PROVE  StateMachineTypeOK'
<1>0. /\ masterDownTimer \in [Routers -> Timers]
      /\ advertisementTimer \in [Routers -> Timers]
      /\ masterAdvertisementInterval \in [Routers -> SentIntervals]
      /\ masterIp \in [Routers -> Ips]
      /\ priority[r] \in PriorityRange
      /\ masterAdvertisementInterval[r] \in SentIntervals
  BY TypeParts DEF StateMachineTypeOK, OutsideTypeOK, ConfigTypeOK
<1>b. priority[r] \in SentPriorities
  BY <1>0, Ranges
<1>a. "Backup" \in States /\ "LinkDown" \in States
  BY DEF States
<1>1. pkt.interval \in SentIntervals /\ pkt.src \in Ips
  BY DEF Advertisements
<1>2. CASE BackupHearsGoodbye(r, pkt)
  <2>1. Start(10 * skewTime(priority[r], masterAdvertisementInterval[r])) \in Timers
    <3>1. skewTime(priority[r], masterAdvertisementInterval[r]) \in Nat
      BY <1>0, ReceivedBounds
    <3> QED
      BY <3>1, StartType
  <2>2. masterDownTimer' \in [Routers -> Timers]
    BY <1>0, <1>2, <2>1 DEF BackupHearsGoodbye
  <2>3. /\ sent' \in [Routers -> Seq(Advertisements)]
        /\ announced' \in [Routers -> IntervalRange \cup {0}]
    BY <1>2, SendType DEF BackupHearsGoodbye
  <2> QED
    BY <1>2, <2>2, <2>3, TypeParts
    DEF BackupHearsGoodbye, StateMachineTypeOK, masterVars, placeVars
<1>3. CASE BackupHearsMaster(r, pkt)
  <2>1. masterDownTimer' \in [Routers -> Timers]
    BY <1>1, <1>3, TimerType DEF BackupHearsMaster
  <2>2. masterAdvertisementInterval' \in [Routers -> SentIntervals]
    BY <1>0, <1>1, <1>3 DEF BackupHearsMaster
  <2>3. masterIp' \in [Routers -> Ips]
    BY <1>0, <1>1, <1>3 DEF BackupHearsMaster
  <2>4. /\ sent' \in [Routers -> Seq(Advertisements)]
        /\ announced' \in [Routers -> IntervalRange \cup {0}]
    BY <1>3, SendType DEF BackupHearsMaster
  <2>5. UNCHANGED <<state, advertisementTimer, placeVars, script>>
    BY <1>3 DEF BackupHearsMaster
  <2> QED
    BY <2>1, <2>2, <2>3, <2>4, <2>5, TypeParts DEF StateMachineTypeOK, placeVars
<1>4. CASE IgnoresAdvertisement(r, pkt)
  <2>1. /\ sent' \in [Routers -> Seq(Advertisements)]
        /\ announced' \in [Routers -> IntervalRange \cup {0}]
    BY <1>4, SendType DEF IgnoresAdvertisement
  <2> QED
    BY <1>4, <2>1, TypeParts
    DEF IgnoresAdvertisement, StateMachineTypeOK, masterVars, timerVars, placeVars
<1>5. CASE MasterHearsGoodbye(r, pkt)
  <2>1. advertisementTimer' \in [Routers -> Timers]
    BY <1>5, TimerType DEF MasterHearsGoodbye
  <2>2. /\ sent' \in [Routers -> Seq(Advertisements)]
        /\ announced' \in [Routers -> IntervalRange \cup {0}]
    BY <1>b, <1>5, SendType DEF MasterHearsGoodbye
  <2> QED
    BY <1>5, <2>1, <2>2, TypeParts
    DEF MasterHearsGoodbye, StateMachineTypeOK, masterVars, placeVars
<1>6. CASE MasterYields(r, pkt)
  <2>1. /\ masterDownTimer' \in [Routers -> Timers]
        /\ advertisementTimer' \in [Routers -> Timers]
    BY <1>1, <1>6, TimerType DEF MasterYields
  <2>2. masterAdvertisementInterval' \in [Routers -> SentIntervals]
    BY <1>0, <1>1, <1>6 DEF MasterYields
  <2>3. /\ sent' \in [Routers -> Seq(Advertisements)]
        /\ announced' \in [Routers -> IntervalRange \cup {0}]
    BY <1>6, SendType DEF MasterYields
  <2>4. setState(r, "Backup") /\ masterIp' = masterIp
    BY <1>6 DEF MasterYields
  <2>5. /\ state' \in [Routers -> States]
        /\ virtualUp' \in [Routers -> BOOLEAN]
        /\ ifAddrs' \in [Routers -> SUBSET Subnets]
        /\ fakeArp' \in [Routers -> SUBSET Entries]
        /\ script' \in [Routers -> Environments]
    BY <1>a, <2>4, SetStateType
  <2>6. masterIp' \in [Routers -> Ips]
    BY <1>0, <2>4
  <2> QED BY <2>1, <2>2, <2>3, <2>5, <2>6 DEF StateMachineTypeOK
<1> QED
  BY <1>2, <1>3, <1>4, <1>5, <1>6 DEF onIncomingVrrpPacket

LEMMA MasterDownType ==
  ASSUME ConfigAssumption, TypeOK, NEW r \in Routers, onMasterDownTimer(r)
  PROVE  TypeOK'
<1>0. masterAdvertisementInterval \in [Routers -> SentIntervals]
  BY DEF TypeOK
<1>1. /\ StopMasterDown(r)
      /\ BecomeMaster(r)
      /\ masterAdvertisementInterval' = masterAdvertisementInterval
      /\ UNCHANGED Outside
  BY DEF onMasterDownTimer, Outside
<1>2. masterDownTimer' \in [Routers -> Timers]
  BY <1>1, TimerType
<1>3. StateMachineTypeOK'
  BY <1>0, <1>1, <1>2, BecomeMasterType DEF StateMachineTypeOK
<1> QED
  BY <1>1, <1>3, StateMachineType

LEMMA AdvertisementType ==
  ASSUME ConfigAssumption, TypeOK, NEW r \in Routers, onAdvertisementTimer(r)
  PROVE  TypeOK'
<1>0. priority[r] \in SentPriorities
  <2>1. priority[r] \in PriorityRange
    BY DEF TypeOK
  <2> QED
    BY <2>1, Ranges
<1>1. /\ sendAdvertisement(r, priority[r])
      /\ StartAdvertisement(r)
      /\ UNCHANGED Outside
  BY DEF onAdvertisementTimer, Outside
<1>2. advertisementTimer' \in [Routers -> Timers]
  BY <1>1, TimerType
<1>3. /\ sent' \in [Routers -> Seq(Advertisements)]
      /\ announced' \in [Routers -> IntervalRange \cup {0}]
  BY <1>0, <1>1, SendType
<1>4. /\ state' = state /\ masterDownTimer' = masterDownTimer /\ script' = script
      /\ masterAdvertisementInterval' = masterAdvertisementInterval /\ masterIp' = masterIp
      /\ virtualUp' = virtualUp /\ ifAddrs' = ifAddrs /\ fakeArp' = fakeArp
  BY DEF onAdvertisementTimer, masterVars, placeVars
<1>5. /\ state' \in [Routers -> States]
      /\ masterDownTimer' \in [Routers -> Timers]
      /\ script' \in [Routers -> Environments]
  BY <1>4 DEF TypeOK
<1>6. /\ masterAdvertisementInterval' \in [Routers -> SentIntervals]
      /\ masterIp' \in [Routers -> Ips]
  BY <1>4 DEF TypeOK
<1>7. /\ virtualUp' \in [Routers -> BOOLEAN]
      /\ ifAddrs' \in [Routers -> SUBSET Subnets]
      /\ fakeArp' \in [Routers -> SUBSET Entries]
  BY <1>4, TypeParts DEF StateMachineTypeOK
<1>8. StateMachineTypeOK'
  BY <1>2, <1>3, <1>5, <1>6, <1>7 DEF StateMachineTypeOK
<1> QED
  BY <1>1, <1>8, StateMachineType

LEMMA ReactType ==
  ASSUME ConfigAssumption, TypeOK, NEW r \in Routers, React(r)
  PROVE  TypeOK'
<1>a. "Backup" \in States /\ "LinkDown" \in States
  BY DEF States
<1>1. CASE MasterDownExpires(r)
  BY <1>1, MasterDownType DEF MasterDownExpires
<1>2. CASE AdvertisementExpires(r)
  BY <1>2, AdvertisementType DEF AdvertisementExpires
<1>3. ASSUME NEW pkt \in Packets, onIncomingVrrpPacket(r, pkt)
      PROVE  TypeOK'
  <2>1. UNCHANGED Outside
    BY <1>3 DEF onIncomingVrrpPacket, Outside
  <2>2. pkt \in Advertisements
    BY DEF ConfigAssumption
  <2> QED
    BY <1>3, <2>1, <2>2, PacketType, StateMachineType
<1>4. CASE interfaceCallback(r)
  <2>1. StateMachineTypeOK'
    <3>1. CASE startup(r)
      BY <3>1, StartupType
    <3>2. CASE shutdown(r, "LinkDown")
      BY <1>a, <3>2, ShutdownType
    <3>3. CASE /\ SendNothing(r)
               /\ UNCHANGED <<state, timerVars, masterVars, placeVars, script>>
      <4>1. /\ sent' \in [Routers -> Seq(Advertisements)]
            /\ announced' \in [Routers -> IntervalRange \cup {0}]
        BY <3>3, SendType
      <4> QED
        BY <3>3, <4>1, TypeParts
        DEF StateMachineTypeOK, masterVars, timerVars, placeVars
    <3> QED
      BY <1>4, <3>1, <3>2, <3>3 DEF interfaceCallback
  <2>2. ConfigTypeOK'
    <3>1. ConfigTypeOK
      BY TypeParts DEF OutsideTypeOK
    <3>2. UNCHANGED <<configVars, ipVars, listVars, macvlan>>
      BY <1>4 DEF interfaceCallback
    <3> QED
      BY <3>1, <3>2 DEF ConfigTypeOK, configVars, ipVars, listVars
  <2>3. LinkTypeOK'
    <3>1. /\ linkEvents \in [Routers -> Seq(Flags)]
          /\ link \in [Routers -> [admin : BOOLEAN, oper : BOOLEAN]]
          /\ misled \subseteq Routers
      BY TypeParts DEF OutsideTypeOK, LinkTypeOK
    <3>2. /\ linkEvents[r] # <<>>
          /\ linkEvents' = [linkEvents EXCEPT ![r] = Tail(linkEvents[r])]
          /\ link' = link
          /\ misled' = misled \ {r}
      BY <1>4 DEF interfaceCallback
    <3>3. Tail(linkEvents[r]) \in Seq(Flags)
      BY <3>1, <3>2
    <3> QED
      BY <3>1, <3>2, <3>3 DEF LinkTypeOK
  <2> QED
    BY <2>1, <2>2, <2>3, TypePartsNext DEF OutsideTypeOK
<1> QED
  BY <1>1, <1>2, <1>3, <1>4 DEF React

\* An operator's command writes the configuration and places the addresses.
LEMMA CommandType ==
  ASSUME ConfigAssumption, TypeOK, NEW r \in Routers,
         \/ \E p \in Priorities : setPriority(r, p)
         \/ \E i \in Intervals : setAdvertisementInterval(r, i)
         \/ \E m \in PreemptModes : setPreemptMode(r, m)
         \/ \E m \in AcceptModes : setAcceptMode(r, m)
         \/ \E ip \in PrimaryIps : setPrimaryIpAddress(r, ip)
         \/ unsetPrimaryIpAddress(r)
         \/ \E s \in Subnets : addIpAddress(r, s) \/ removeIpAddress(r, s)
  PROVE  TypeOK'
<1> DEFINE Quiet == UNCHANGED <<state, masterVars, timerVars, virtualUp, script>>
           Fixed == UNCHANGED <<macvlan, linkVars>>
<1>1. ASSUME SendNothing(r), Quiet,
             ifAddrs' \in [Routers -> SUBSET Subnets],
             fakeArp' \in [Routers -> SUBSET Entries]
      PROVE  StateMachineTypeOK'
  <2>1. /\ sent' \in [Routers -> Seq(Advertisements)]
        /\ announced' \in [Routers -> IntervalRange \cup {0}]
    BY <1>1, SendType
  <2>2. StateMachineTypeOK
    BY TypeParts
  <2> QED
    BY <1>1, <2>1, <2>2 DEF StateMachineTypeOK, masterVars, timerVars
<1>2. ASSUME SendNothing(r), Quiet, UNCHANGED <<ifAddrs, fakeArp>>
      PROVE  StateMachineTypeOK'
  BY <1>1, <1>2, MoveType
<1> HIDE DEF Quiet, Fixed
<1>3. /\ preemptMode \in [Routers -> BOOLEAN]
      /\ acceptMode \in [Routers -> BOOLEAN]
      /\ priority \in [Routers -> PriorityRange]
      /\ advertisementInterval \in [Routers -> IntervalRange]
  BY TypeParts DEF OutsideTypeOK, ConfigTypeOK
<1>a. /\ primaryIp \in [Routers -> Ips]
      /\ autoPrimaryIp \in [Routers -> BOOLEAN]
      /\ subnets \in [Routers -> SUBSET Subnets]
      /\ addresses \in [Routers -> SUBSET Addresses]
  BY TypeParts DEF StateMachineTypeOK, OutsideTypeOK, ConfigTypeOK
<1>b. ConfigTypeOK
  BY TypeParts DEF OutsideTypeOK
<1>c. ASSUME StateMachineTypeOK', ConfigTypeOK', Fixed
      PROVE  TypeOK'
  <2>1. LinkTypeOK'
    BY <1>c, TypeParts DEF OutsideTypeOK, LinkTypeOK, linkVars, Fixed
  <2> QED
    BY <1>c, <2>1, TypePartsNext DEF OutsideTypeOK
<1>4. ASSUME NEW p \in Priorities, setPriority(r, p)
      PROVE  TypeOK'
  <2>1. p \in PriorityRange
    BY <1>4 DEF setPriority, ValidPriority, ConfigAssumption, SentPriorities
  <2>2. priority' \in [Routers -> PriorityRange]
    BY <1>3, <1>4, <2>1 DEF setPriority
  <2>3. /\ SendNothing(r) /\ Quiet /\ Fixed
        /\ UNCHANGED <<preemptMode, acceptMode, advertisementInterval, ipVars, listVars>>
    BY <1>4 DEF setPriority, Quiet, Fixed
  <2>4. MoveToInterface(r) \/ MoveToArpService(r) \/ UNCHANGED <<ifAddrs, fakeArp>>
    BY <1>4 DEF setPriority
  <2>5. StateMachineTypeOK'
    BY <1>1, <2>3, <2>4, MoveType
  <2>6. ConfigTypeOK'
    BY <2>2, <2>3, <1>b DEF ConfigTypeOK, ipVars, listVars, Fixed
  <2> QED
    BY <1>c, <2>3, <2>5, <2>6
<1>5. ASSUME NEW i \in Intervals, setAdvertisementInterval(r, i)
      PROVE  TypeOK'
  <2>1. advertisementInterval' \in [Routers -> IntervalRange]
    BY <1>3, <1>5 DEF setAdvertisementInterval, ValidInterval
  <2>2. /\ SendNothing(r) /\ Quiet /\ Fixed /\ UNCHANGED <<ifAddrs, fakeArp>>
        /\ UNCHANGED <<priority, preemptMode, acceptMode, ipVars, listVars>>
    BY <1>5 DEF setAdvertisementInterval, Quiet, Fixed, placeVars
  <2>3. StateMachineTypeOK'
    BY <1>2, <2>2
  <2>4. ConfigTypeOK'
    BY <2>1, <2>2, <1>b DEF ConfigTypeOK, ipVars, listVars, Fixed
  <2> QED
    BY <1>c, <2>2, <2>3, <2>4
<1>6. ASSUME NEW m \in PreemptModes, setPreemptMode(r, m)
      PROVE  TypeOK'
  <2>1. m \in BOOLEAN
    BY DEF ConfigAssumption
  <2>2. preemptMode' \in [Routers -> BOOLEAN]
    BY <1>3, <1>6, <2>1 DEF setPreemptMode
  <2>3. /\ SendNothing(r) /\ Quiet /\ Fixed /\ UNCHANGED <<ifAddrs, fakeArp>>
        /\ UNCHANGED <<priority, acceptMode, advertisementInterval, ipVars, listVars>>
    BY <1>6 DEF setPreemptMode, Quiet, Fixed, placeVars
  <2>4. StateMachineTypeOK'
    BY <1>2, <2>3
  <2>5. ConfigTypeOK'
    BY <2>2, <2>3, <1>b DEF ConfigTypeOK, ipVars, listVars, Fixed
  <2> QED
    BY <1>c, <2>3, <2>4, <2>5
<1>7. ASSUME NEW m \in AcceptModes, setAcceptMode(r, m)
      PROVE  TypeOK'
  <2>1. m \in BOOLEAN
    BY DEF ConfigAssumption
  <2>2. acceptMode' \in [Routers -> BOOLEAN]
    BY <1>3, <1>7, <2>1 DEF setAcceptMode
  <2>3. /\ SendNothing(r) /\ Quiet /\ Fixed
        /\ UNCHANGED <<priority, preemptMode, advertisementInterval, ipVars, listVars>>
    BY <1>7 DEF setAcceptMode, Quiet, Fixed
  <2>4. MoveToInterface(r) \/ MoveToArpService(r) \/ UNCHANGED <<ifAddrs, fakeArp>>
    BY <1>7 DEF setAcceptMode
  <2>5. StateMachineTypeOK'
    BY <1>1, <2>3, <2>4, MoveType
  <2>6. ConfigTypeOK'
    BY <2>2, <2>3, <1>b DEF ConfigTypeOK, ipVars, listVars, Fixed
  <2> QED
    BY <1>c, <2>3, <2>5, <2>6
<1>8. ASSUME NEW ip \in PrimaryIps, setPrimaryIpAddress(r, ip)
      PROVE  TypeOK'
  <2>1. ip \in Ips
    BY DEF ConfigAssumption
  <2>2. primaryIp' \in [Routers -> Ips] /\ autoPrimaryIp' \in [Routers -> BOOLEAN]
    BY <1>a, <1>8, <2>1 DEF setPrimaryIpAddress
  <2>3. /\ SendNothing(r) /\ Quiet /\ Fixed /\ UNCHANGED <<ifAddrs, fakeArp>>
        /\ UNCHANGED <<configVars, listVars>>
    BY <1>8 DEF setPrimaryIpAddress, Quiet, Fixed, placeVars
  <2>4. StateMachineTypeOK'
    BY <1>2, <2>3
  <2>5. ConfigTypeOK'
    BY <2>2, <2>3, <1>b DEF ConfigTypeOK, configVars, listVars, Fixed
  <2> QED
    BY <1>c, <2>3, <2>4, <2>5
<1>9. CASE unsetPrimaryIpAddress(r)
  <2>1. InterfaceIp[r] \in Ips
    BY DEF ConfigAssumption
  <2>2. primaryIp' \in [Routers -> Ips]
    BY <1>a, <1>9, <2>1 DEF unsetPrimaryIpAddress
  <2>3. /\ SendNothing(r) /\ Quiet /\ Fixed /\ UNCHANGED <<ifAddrs, fakeArp>>
        /\ UNCHANGED <<configVars, autoPrimaryIp, listVars>>
    BY <1>9 DEF unsetPrimaryIpAddress, Quiet, Fixed, placeVars
  <2>4. StateMachineTypeOK'
    BY <1>2, <2>3
  <2>5. ConfigTypeOK'
    BY <2>2, <2>3, <1>b DEF ConfigTypeOK, configVars, listVars, Fixed
  <2> QED
    BY <1>c, <2>3, <2>4, <2>5
<1>10. ASSUME NEW s \in Subnets, addIpAddress(r, s) \/ removeIpAddress(r, s)
       PROVE  TypeOK'
  <2> DEFINE e == <<outputInterface(r), AddressOf[s]>>
  <2>1. AddressOf[s] \in Addresses /\ e \in Entries
    <3>1. outputInterface(r) \in {Physical, Macvlan, Vlan}
      BY OutputType
    <3> HIDE DEF e
    <3>2. AddressOf[s] \in Addresses
      BY DEF Addresses
    <3> QED
      BY <3>1, <3>2 DEF Entries, e
  <2> HIDE DEF e
  <2>2. subnets' \in [Routers -> SUBSET Subnets]
    BY <1>a, <1>10, SMTT(40) DEF addIpAddress, removeIpAddress
  <2>3. addresses' \in [Routers -> SUBSET Addresses]
    BY <1>a, <1>10, <2>1 DEF addIpAddress, removeIpAddress
  <2>4. /\ ifAddrs' \in {ifAddrs, [ifAddrs EXCEPT ![r] = @ \cup {s}],
                         [ifAddrs EXCEPT ![r] = @ \ {s}]}
        /\ fakeArp' \in {fakeArp, [fakeArp EXCEPT ![r] = @ \cup {e}],
                         [fakeArp EXCEPT ![r] = @ \ {e}]}
    BY <1>10, SMTT(40) DEF addIpAddress, removeIpAddress, e
  <2>5. /\ ifAddrs \in [Routers -> SUBSET Subnets]
        /\ fakeArp \in [Routers -> SUBSET Entries]
    BY TypeParts DEF StateMachineTypeOK
  <2>6. ifAddrs' \in [Routers -> SUBSET Subnets]
    BY <2>4, <2>5
  <2>7. fakeArp' \in [Routers -> SUBSET Entries]
    BY <2>1, <2>4, <2>5
  <2>8. /\ SendNothing(r) /\ Quiet /\ Fixed
        /\ UNCHANGED <<configVars, ipVars>>
    BY <1>10, SMTT(40) DEF addIpAddress, removeIpAddress, Quiet, Fixed
  <2>9. StateMachineTypeOK'
    BY <1>1, <2>6, <2>7, <2>8
  <2>10. ConfigTypeOK'
    BY <2>2, <2>3, <2>8, <1>b DEF ConfigTypeOK, configVars, ipVars, Fixed
  <2> QED
    BY <1>c, <2>8, <2>9, <2>10
<1> QED
  BY <1>4, <1>5, <1>6, <1>7, <1>8, <1>9, <1>10

LEMMA LifeCycleType ==
  ASSUME ConfigAssumption, TypeOK, NEW r \in Routers, enable(r) \/ disable(r)
  PROVE  TypeOK'
<1>1. ASSUME enable(r), StateMachineTypeOK'
      PROVE  TypeOK'
  <2>1. misled' = misled \ {r} \/ misled' = misled \cup {r}
    BY <1>1 DEF enable
  <2>2. UNCHANGED <<configVars, ipVars, listVars, macvlan, link, linkEvents>>
    BY <1>1 DEF enable
  <2>3. ConfigTypeOK /\ LinkTypeOK
    BY TypeParts DEF OutsideTypeOK
  <2>4. ConfigTypeOK'
    BY <2>2, <2>3 DEF ConfigTypeOK, configVars, ipVars, listVars
  <2>5. misled' \subseteq Routers
    BY <2>1, <2>3 DEF LinkTypeOK
  <2>6. LinkTypeOK'
    BY <2>2, <2>3, <2>5 DEF LinkTypeOK
  <2> QED
    BY <1>1, <2>4, <2>6, TypePartsNext DEF OutsideTypeOK
<1>2. CASE enable(r)
  <2>1. CASE startup(r)
    BY <1>1, <1>2, <2>1, StartupType
  <2>2. CASE /\ setState(r, "LinkDown")
             /\ SendNothing(r)
             /\ UNCHANGED <<timerVars, masterVars>>
    <3>1. "LinkDown" \in States
      BY DEF States
    <3>2. /\ sent' \in [Routers -> Seq(Advertisements)]
          /\ announced' \in [Routers -> IntervalRange \cup {0}]
      BY <2>2, SendType
    <3>4. /\ state' \in [Routers -> States]
          /\ virtualUp' \in [Routers -> BOOLEAN]
          /\ ifAddrs' \in [Routers -> SUBSET Subnets]
          /\ fakeArp' \in [Routers -> SUBSET Entries]
          /\ script' \in [Routers -> Environments]
      BY <2>2, <3>1, SetStateType
    <3>5. StateMachineTypeOK
      BY TypeParts
    <3>3. StateMachineTypeOK'
      BY <2>2, <3>2, <3>4, <3>5 DEF StateMachineTypeOK, timerVars, masterVars
    <3> QED
      BY <1>1, <1>2, <3>3
  <2> QED
    BY <1>2, <2>1, <2>2 DEF enable
<1>3. CASE disable(r)
  <2>1. "Disabled" \in States /\ UNCHANGED Outside
    BY <1>3 DEF States, disable, Outside
  <2> QED
    BY <1>3, <2>1, ShutdownType, StateMachineType DEF disable
<1> QED
  BY <1>2, <1>3

LEMMA LinkChangeType ==
  ASSUME TypeOK, NEW r \in Routers, LinkChange(r)
  PROVE  TypeOK'
<1>1. PICK new \in [admin : BOOLEAN, oper : BOOLEAN] :
        /\ link' = [link EXCEPT ![r] = new]
        /\ linkEvents' = [linkEvents EXCEPT ![r] = Append(linkEvents[r], Flag(new.admin))]
  BY DEF LinkChange
<1>2. /\ link \in [Routers -> [admin : BOOLEAN, oper : BOOLEAN]]
      /\ linkEvents \in [Routers -> Seq(Flags)]
  BY DEF TypeOK
<1>3. link' \in [Routers -> [admin : BOOLEAN, oper : BOOLEAN]]
  BY <1>1, <1>2
<1>4. linkEvents' \in [Routers -> Seq(Flags)]
  <2>1. Append(linkEvents[r], Flag(new.admin)) \in Seq(Flags)
    BY <1>2 DEF Flag, Flags
  <2> QED
    BY <1>1, <1>2, <2>1
<1>5. UNCHANGED <<state, configVars, ipVars, masterVars, listVars, macvlan,
                  timerVars, placeVars, sent, outVars, misled>>
  BY DEF LinkChange
<1>6. StateMachineTypeOK'
  BY <1>5, TypeParts DEF StateMachineTypeOK, masterVars, timerVars, placeVars, outVars
<1>7. ConfigTypeOK'
  BY <1>5, TypeParts DEF OutsideTypeOK, ConfigTypeOK, configVars, ipVars, listVars
<1>8. LinkTypeOK'
  BY <1>3, <1>4, <1>5, TypeParts DEF OutsideTypeOK, LinkTypeOK
<1> QED
  BY <1>6, <1>7, <1>8, TypePartsNext DEF OutsideTypeOK

LEMMA ElapseType ==
  ASSUME ConfigAssumption, TypeOK, NEW d \in TimeSteps, Elapse(d)
  PROVE  TypeOK'
<1>1. d \in Nat \ {0}
  BY DEF ConfigAssumption
<1>2. /\ masterDownTimer' = [r \in Routers |-> Elapsed(masterDownTimer[r], d)]
      /\ advertisementTimer' = [r \in Routers |-> Elapsed(advertisementTimer[r], d)]
  BY DEF Elapse
<1>3. \A r \in Routers : masterDownTimer[r] \in Timers /\ advertisementTimer[r] \in Timers
  BY DEF TypeOK
<1>4. \A r \in Routers : /\ Elapsed(masterDownTimer[r], d) \in Timers
                         /\ Elapsed(advertisementTimer[r], d) \in Timers
  BY <1>1, <1>3, ElapsedType
<1>5. /\ masterDownTimer' \in [Routers -> Timers]
      /\ advertisementTimer' \in [Routers -> Timers]
  BY <1>2, <1>4
<1>6. UNCHANGED <<state, masterVars, placeVars, sent, outVars>> /\ UNCHANGED Outside
  BY DEF Elapse, Outside
<1>7. StateMachineTypeOK'
  BY <1>5, <1>6, TypeParts DEF StateMachineTypeOK, masterVars, placeVars, outVars
<1> QED
  BY <1>6, <1>7, StateMachineType

LEMMA InitType ==
  ASSUME ConfigAssumption, Init
  PROVE  TypeOK
<1>1. ASSUME NEW p \in Priorities, ValidPriority(p)
      PROVE  p \in PriorityRange
  BY <1>1 DEF ConfigAssumption, ValidPriority, SentPriorities
<1>2. /\ priority \in [Routers -> PriorityRange]
      /\ advertisementInterval \in [Routers -> IntervalRange]
  BY <1>1 DEF Init, ValidInterval
<1>3. OutsideTypeOK
  <2>1. preemptMode \in [Routers -> BOOLEAN] /\ acceptMode \in [Routers -> BOOLEAN]
    <3>1. PreemptModes \subseteq BOOLEAN
      BY DEF ConfigAssumption
    <3>2. InitialAcceptModes \subseteq BOOLEAN
      BY DEF InitialAcceptModes
    <3>3. preemptMode \in [Routers -> PreemptModes] /\ acceptMode \in [Routers -> InitialAcceptModes]
      BY DEF Init
    <3>4. preemptMode \in [Routers -> BOOLEAN]
      BY <3>1, <3>3
    <3>5. acceptMode \in [Routers -> BOOLEAN]
      BY <3>2, <3>3
    <3> QED
      BY <3>4, <3>5
  <2>2. primaryIp \in [Routers -> Ips] /\ autoPrimaryIp \in [Routers -> BOOLEAN]
    BY DEF Init, ConfigAssumption
  <2>3. subnets \in [Routers -> SUBSET Subnets] /\ addresses \in [Routers -> SUBSET Addresses]
    BY DEF Init, ConfigAssumption, Addresses
  <2>4. macvlan \in [Routers -> BOOLEAN]
    BY DEF Init, ConfigAssumption
  <2>5. /\ link \in [Routers -> [admin : BOOLEAN, oper : BOOLEAN]]
        /\ linkEvents \in [Routers -> Seq(Flags)]
        /\ misled \subseteq Routers
    BY DEF Init
  <2> QED
    BY <1>2, <2>1, <2>2, <2>3, <2>4, <2>5 DEF OutsideTypeOK, ConfigTypeOK, LinkTypeOK
<1>4. StateMachineTypeOK
  <2>1. /\ "Disabled" \in States /\ Idle \in Timers /\ 0 \in Ips
        /\ <<>> \in Seq(Advertisements) /\ 0 \in IntervalRange \cup {0}
        /\ [role |-> "Disabled", masterIp |-> 0, primaryIp |-> 0] \in Environments
    BY DEF States, Timers, Ips, Environments
  <2>2. masterAdvertisementInterval \in [Routers -> SentIntervals]
    BY Ranges DEF Init
  <2>3. /\ state \in [Routers -> States]
        /\ masterIp \in [Routers -> Ips]
        /\ masterDownTimer \in [Routers -> Timers]
        /\ advertisementTimer \in [Routers -> Timers]
    BY <2>1 DEF Init
  <2>4. /\ virtualUp \in [Routers -> BOOLEAN]
        /\ ifAddrs \in [Routers -> SUBSET Subnets]
        /\ fakeArp \in [Routers -> SUBSET Entries]
    BY DEF Init
  <2>5. /\ sent \in [Routers -> Seq(Advertisements)]
        /\ announced \in [Routers -> IntervalRange \cup {0}]
        /\ script \in [Routers -> Environments]
    BY <2>1 DEF Init
  <2> QED
    BY <2>2, <2>3, <2>4, <2>5 DEF StateMachineTypeOK
<1> QED
  BY <1>3, <1>4, TypeParts

LEMMA NextType ==
  ASSUME ConfigAssumption, TypeOK, [Next]_vars
  PROVE  TypeOK'
<1>1. ASSUME NEW r \in Routers, Operate(r)
      PROVE  TypeOK'
  BY <1>1, LifeCycleType, CommandType DEF Operate
<1>2. ASSUME NEW r \in Routers, React(r)
      PROVE  TypeOK'
  BY <1>2, ReactType
<1>3. ASSUME NEW r \in Routers, LinkChange(r)
      PROVE  TypeOK'
  BY <1>3, LinkChangeType
<1>4. ASSUME NEW d \in TimeSteps, Elapse(d)
      PROVE  TypeOK'
  BY <1>4, ElapseType
<1>5. CASE UNCHANGED vars
  <2>1. /\ UNCHANGED Outside
        /\ UNCHANGED <<state, masterVars, timerVars, placeVars, sent, outVars>>
    BY <1>5 DEF vars, Outside
  <2>2. StateMachineTypeOK'
    BY <2>1, TypeParts
    DEF StateMachineTypeOK, masterVars, timerVars, placeVars, outVars
  <2> QED
    BY <2>1, <2>2, StateMachineType
<1> QED
  BY <1>1, <1>2, <1>3, <1>4, <1>5 DEF Next

\* Every variable keeps its type: no handler writes a priority, an interval or a
\* timer that is out of range, for every set of routers, packets and commands.
THEOREM TypeCorrect == Spec => []TypeOK
<1>1. Init => TypeOK
  BY ConfigAssumption, InitType
<1>2. TypeOK /\ [Next]_vars => TypeOK'
  BY ConfigAssumption, NextType
<1> QED
  BY <1>1, <1>2, PTL DEF Spec

-----------------------------------------------------------------------------
(* The timers: every step of a router leaves its state and timers in one   *)
(* of four ways; each timer invariant follows from the four, and from the  *)
(* passage of time, without a look at the handlers.                        *)

\* The packet heard may be any, not only one of Packets, and a timer be served early.
Step(r) ==
  \/ Operate(r) \/ React(r) \/ LinkChange(r)
  \/ onMasterDownTimer(r) \/ onAdvertisementTimer(r)
  \/ \E pkt \in Advertisements : onIncomingVrrpPacket(r, pkt)

LEMMA StepType ==
  ASSUME ConfigAssumption, TypeOK, NEW r \in Routers, Step(r)
  PROVE  TypeOK'
<1>1. CASE Operate(r)
  BY <1>1, LifeCycleType, CommandType DEF Operate
<1>2. ASSUME NEW pkt \in Advertisements, onIncomingVrrpPacket(r, pkt)
      PROVE  TypeOK'
  <2>1. UNCHANGED Outside
    BY <1>2 DEF onIncomingVrrpPacket, Outside
  <2> QED
    BY <1>2, <2>1, PacketType, StateMachineType
<1> QED
  BY <1>1, <1>2, ReactType, MasterDownType, AdvertisementType, LinkChangeType DEF Step

Undisturbed(r) ==
  /\ state'[r] = state[r]
  /\ masterDownTimer'[r] = masterDownTimer[r]
  /\ advertisementTimer'[r] = advertisementTimer[r]
  /\ masterAdvertisementInterval'[r] = masterAdvertisementInterval[r]
  /\ announced'[r] = announced[r]

Waits(r) ==
  /\ state'[r] = "Backup"
  /\ InTime(masterDownTimer'[r], masterAdvertisementInterval'[r])
  /\ \/ advertisementTimer'[r] = Idle
     \/ advertisementTimer'[r] = advertisementTimer[r] /\ state[r] # "Master"

Advertises(r) ==
  /\ state'[r] = "Master"
  /\ announced'[r] \in Nat
  /\ advertisementTimer'[r] = 10 * announced'[r]
  /\ \/ masterDownTimer'[r] = Idle
     \/ masterDownTimer'[r] = masterDownTimer[r] /\ state[r] # "Backup"

Rests(r) ==
  /\ state'[r] \in {"Disabled", "LinkDown"}
  /\ \/ advertisementTimer'[r] = Idle
     \/ advertisementTimer'[r] = advertisementTimer[r] /\ state[r] # "Master"
  /\ \/ masterDownTimer'[r] = Idle
     \/ masterDownTimer'[r] = masterDownTimer[r] /\ state[r] # "Backup"

Outcome(r) == Undisturbed(r) \/ Waits(r) \/ Advertises(r) \/ Rests(r)

-----------------------------------------------------------------------------

LEMMA SetStateOutcome ==
  ASSUME TypeOK, NEW r \in Routers, NEW new, setState(r, new)
  PROVE  state'[r] = new
BY DEF setState, TypeOK

LEMMA BecomeMasterOutcome ==
  ASSUME TypeOK, NEW r \in Routers, BecomeMaster(r),
         \/ masterDownTimer'[r] = Idle
         \/ masterDownTimer'[r] = masterDownTimer[r] /\ state[r] # "Backup"
  PROVE  Advertises(r)
<1>1. state'[r] = "Master"
  BY SetStateOutcome DEF BecomeMaster
<1>2. advertisementTimer'[r] = 10 * advertisementInterval[r]
  BY TimerType DEF BecomeMaster
<1>3. announced'[r] = advertisementInterval[r]
  BY DEF BecomeMaster, sendAdvertisement, TypeOK
<1>4. advertisementInterval[r] \in Nat
  <2>1. advertisementInterval[r] \in IntervalRange
    BY DEF TypeOK
  <2> QED
    BY <2>1, Ranges
<1> QED
  BY <1>1, <1>2, <1>3, <1>4 DEF Advertises

LEMMA StartupOutcome ==
  ASSUME TypeOK, NEW r \in Routers, state[r] \in {"Disabled", "LinkDown"}, startup(r)
  PROVE  Waits(r) \/ Advertises(r)
<1>1. CASE BecomeMaster(r) /\ masterDownTimer' = masterDownTimer
  BY <1>1, BecomeMasterOutcome
<1>2. CASE /\ masterAdvertisementInterval' =
                [masterAdvertisementInterval EXCEPT ![r] = advertisementInterval[r]]
           /\ StartMasterDown(r, advertisementInterval[r])
           /\ setState(r, "Backup")
           /\ advertisementTimer' = advertisementTimer
  <2>1. advertisementInterval[r] \in SentIntervals
    BY Ranges DEF TypeOK
  <2>2. InTime(masterDownTimer'[r], advertisementInterval[r])
    BY <1>2, <2>1, TimerType
  <2>3. masterAdvertisementInterval'[r] = advertisementInterval[r]
    BY <1>2 DEF TypeOK
  <2>4. state'[r] = "Backup"
    BY <1>2, SetStateOutcome
  <2> QED
    BY <1>2, <2>2, <2>3, <2>4 DEF Waits
<1> QED
  BY <1>1, <1>2 DEF startup

LEMMA ShutdownOutcome ==
  ASSUME TypeOK, NEW r \in Routers, NEW new \in {"Disabled", "LinkDown"}, shutdown(r, new)
  PROVE  Rests(r)
<1>1. state'[r] = new
  BY SetStateOutcome DEF shutdown
<1>2. CASE StopMasterDown(r) /\ state[r] = "Backup" /\ advertisementTimer' = advertisementTimer
  BY <1>1, <1>2, TimerType DEF Rests
<1>3. CASE StopAdvertisement(r) /\ state[r] = "Master" /\ masterDownTimer' = masterDownTimer
  BY <1>1, <1>3, TimerType DEF Rests
<1> QED
  BY <1>2, <1>3 DEF shutdown

LEMMA PacketOutcome ==
  ASSUME ConfigAssumption, TypeOK, NEW r \in Routers, NEW pkt \in Advertisements,
         onIncomingVrrpPacket(r, pkt)
  PROVE  Outcome(r)
<1>1. pkt.interval \in SentIntervals
  BY DEF Advertisements
<1>2. CASE BackupHearsGoodbye(r, pkt)
  <2> DEFINE i == masterAdvertisementInterval[r]
             w == skewTime(priority[r], i)
  <2>1. i \in SentIntervals /\ priority[r] \in PriorityRange
    BY DEF TypeOK
  <2>2. /\ w \in Nat /\ (w = 0 => i < 256)
        /\ i # 0 => w < i
        /\ i = 0 => w = 0
    BY <2>1, ReceivedBounds
  <2>3. /\ masterDownTimer'[r] = Start(10 * w)
        /\ state'[r] = "Backup" /\ state[r] = "Backup"
        /\ advertisementTimer'[r] = advertisementTimer[r]
        /\ masterAdvertisementInterval'[r] = i
    BY <1>2 DEF BackupHearsGoodbye, masterVars, TypeOK
  <2> HIDE DEF i, w
  <2>4. InTime(Start(10 * w), i)
    <3>1. i # 0 => w < 4 * i
      BY <2>1, <2>2 DEF SentIntervals
    <3> QED
      BY <2>1, <2>2, <3>1, StartInTime
  <2> QED
    BY <2>3, <2>4 DEF Outcome, Waits
<1>3. CASE BackupHearsMaster(r, pkt)
  <2>1. /\ InTime(masterDownTimer'[r], pkt.interval)
    BY <1>1, <1>3, TimerType DEF BackupHearsMaster
  <2>2. /\ masterAdvertisementInterval'[r] = pkt.interval
        /\ state'[r] = "Backup" /\ state[r] = "Backup"
        /\ advertisementTimer'[r] = advertisementTimer[r]
    BY <1>3 DEF BackupHearsMaster, TypeOK
  <2> QED
    BY <2>1, <2>2 DEF Outcome, Waits
<1>4. CASE IgnoresAdvertisement(r, pkt)
  BY <1>4 DEF IgnoresAdvertisement, SendNothing, timerVars, masterVars, Outcome, Undisturbed
<1>5. CASE MasterHearsGoodbye(r, pkt)
  <2>1. state'[r] = "Master" /\ state[r] = "Master" /\ masterDownTimer'[r] = masterDownTimer[r]
    BY <1>5 DEF MasterHearsGoodbye
  <2>2. advertisementTimer'[r] = 10 * advertisementInterval[r]
    BY <1>5, TimerType DEF MasterHearsGoodbye
  <2>3. announced'[r] = advertisementInterval[r]
    BY <1>5 DEF MasterHearsGoodbye, sendAdvertisement, TypeOK
  <2>4. advertisementInterval[r] \in Nat
    <3>1. advertisementInterval[r] \in IntervalRange
      BY DEF TypeOK
    <3> QED
      BY <3>1, Ranges
  <2> QED
    BY <2>1, <2>2, <2>3, <2>4 DEF Outcome, Advertises
<1>6. CASE MasterYields(r, pkt)
  <2>1. /\ InTime(masterDownTimer'[r], pkt.interval)
        /\ advertisementTimer'[r] = Idle
    BY <1>1, <1>6, TimerType DEF MasterYields
  <2>2. masterAdvertisementInterval'[r] = pkt.interval
    BY <1>6 DEF MasterYields, TypeOK
  <2>3. state'[r] = "Backup"
    BY <1>6, SetStateOutcome DEF MasterYields
  <2> QED
    BY <2>1, <2>2, <2>3 DEF Outcome, Waits
<1> QED
  BY <1>2, <1>3, <1>4, <1>5, <1>6 DEF onIncomingVrrpPacket

LEMMA StepOutcome ==
  ASSUME ConfigAssumption, TypeOK, NEW r \in Routers, Step(r)
  PROVE  Outcome(r)
<1>1. ASSUME SendNothing(r), UNCHANGED <<state, masterVars, timerVars>>
      PROVE  Outcome(r)
  BY <1>1 DEF SendNothing, masterVars, timerVars, Outcome, Undisturbed
<1>2. CASE enable(r)
  <2>1. CASE startup(r)
    <3>1. state[r] \in {"Disabled", "LinkDown"}
      BY <1>2 DEF enable
    <3> QED
      BY <2>1, <3>1, StartupOutcome DEF Outcome
  <2>2. CASE setState(r, "LinkDown") /\ UNCHANGED timerVars
    <3>1. state'[r] = "LinkDown" /\ state[r] = "Disabled"
      BY <1>2, <2>2, SetStateOutcome DEF enable
    <3> QED
      BY <2>2, <3>1 DEF Outcome, Rests, timerVars
  <2> QED
    BY <1>2, <2>1, <2>2 DEF enable
<1>3. CASE disable(r)
  BY <1>3, ShutdownOutcome DEF disable, Outcome
<1>4. ASSUME NEW p \in Priorities, setPriority(r, p)
      PROVE  Outcome(r)
  BY <1>1, <1>4 DEF setPriority
<1>5. ASSUME NEW i \in Intervals, setAdvertisementInterval(r, i)
      PROVE  Outcome(r)
  BY <1>1, <1>5 DEF setAdvertisementInterval
<1>6. ASSUME NEW m, setPreemptMode(r, m) \/ setAcceptMode(r, m)
      PROVE  Outcome(r)
  BY <1>1, <1>6 DEF setPreemptMode, setAcceptMode
<1>7. ASSUME NEW ip, setPrimaryIpAddress(r, ip) \/ unsetPrimaryIpAddress(r)
      PROVE  Outcome(r)
  BY <1>1, <1>7 DEF setPrimaryIpAddress, unsetPrimaryIpAddress
<1>8. ASSUME NEW s, addIpAddress(r, s) \/ removeIpAddress(r, s)
      PROVE  Outcome(r)
  BY <1>1, <1>8 DEF addIpAddress, removeIpAddress
<1>9. CASE onMasterDownTimer(r)
  <2>1. masterDownTimer'[r] = Idle
    BY <1>9, TimerType DEF onMasterDownTimer
  <2> QED
    BY <1>9, <2>1, BecomeMasterOutcome DEF onMasterDownTimer, Outcome
<1>10. CASE onAdvertisementTimer(r)
  <2>1. state'[r] = "Master" /\ state[r] = "Master" /\ masterDownTimer'[r] = masterDownTimer[r]
    BY <1>10 DEF onAdvertisementTimer
  <2>2. advertisementTimer'[r] = 10 * advertisementInterval[r]
    BY <1>10, TimerType DEF onAdvertisementTimer
  <2>3. announced'[r] = advertisementInterval[r]
    BY <1>10 DEF onAdvertisementTimer, sendAdvertisement, TypeOK
  <2>4. advertisementInterval[r] \in Nat
    <3>1. advertisementInterval[r] \in IntervalRange
      BY DEF TypeOK
    <3> QED
      BY <3>1, Ranges
  <2> QED
    BY <2>1, <2>2, <2>3, <2>4 DEF Outcome, Advertises
<1>11. CASE interfaceCallback(r)
  <2>1. CASE ComesUp(r) /\ startup(r)
    <3>1. state[r] = "LinkDown"
      BY <2>1 DEF ComesUp
    <3> QED
      BY <2>1, <3>1, StartupOutcome DEF Outcome
  <2>2. CASE shutdown(r, "LinkDown")
    BY <2>2, ShutdownOutcome DEF Outcome
  <2>3. CASE SendNothing(r) /\ UNCHANGED <<state, masterVars, timerVars>>
    BY <1>1, <2>3
  <2> QED
    BY <1>11, <2>1, <2>2, <2>3 DEF interfaceCallback
<1>12. CASE LinkChange(r)
  BY <1>12 DEF LinkChange, masterVars, timerVars, outVars, Outcome, Undisturbed
<1>13. CASE Operate(r)
  BY <1>2, <1>3, <1>4, <1>5, <1>6, <1>7, <1>8, <1>13 DEF Operate
<1>14. CASE React(r)
  <2>1. Packets \subseteq Advertisements
    BY DEF ConfigAssumption
  <2> QED
    BY <1>9, <1>10, <1>11, <1>14, <2>1, PacketOutcome
    DEF React, MasterDownExpires, AdvertisementExpires
<1> QED
  BY <1>9, <1>10, <1>12, <1>13, <1>14, PacketOutcome DEF Step

-----------------------------------------------------------------------------
(* A step of one router leaves the other routers undisturbed.                *)

OthersUndisturbed(r) ==  \A q \in Routers \ {r} : Undisturbed(q)

LEMMA StepOthers ==
  ASSUME ConfigAssumption, TypeOK, NEW r \in Routers, Step(r)
  PROVE  OthersUndisturbed(r)
<1> SUFFICES ASSUME NEW q \in Routers, q # r
             PROVE  Undisturbed(q)
  BY DEF OthersUndisturbed
<1>1. /\ state \in [Routers -> States]
      /\ masterDownTimer \in [Routers -> Timers]
      /\ advertisementTimer \in [Routers -> Timers]
  BY DEF TypeOK
<1>2. /\ masterAdvertisementInterval \in [Routers -> SentIntervals]
      /\ announced \in [Routers -> IntervalRange \cup {0}]
  BY TypeParts DEF StateMachineTypeOK
<1>a. ASSUME NEW new, setState(r, new)
      PROVE  state'[q] = state[q]
  BY <1>1, <1>a DEF setState
<1>b. ASSUME NEW p, sendAdvertisement(r, p) \/ SendNothing(r)
      PROVE  announced'[q] = announced[q]
  BY <1>2, <1>b DEF sendAdvertisement, SendNothing
<1>c. ASSUME \E i : StartMasterDown(r, i) \/ StopMasterDown(r)
      PROVE  masterDownTimer'[q] = masterDownTimer[q]
  BY <1>1, <1>c DEF StartMasterDown, StopMasterDown
<1>d. ASSUME StartAdvertisement(r) \/ StopAdvertisement(r)
      PROVE  advertisementTimer'[q] = advertisementTimer[q]
  BY <1>1, <1>d DEF StartAdvertisement, StopAdvertisement
<1>e. ASSUME BecomeMaster(r)
      PROVE  /\ state'[q] = state[q]
             /\ advertisementTimer'[q] = advertisementTimer[q]
             /\ announced'[q] = announced[q]
  BY <1>a, <1>b, <1>d, <1>e DEF BecomeMaster
<1>f. ASSUME SendNothing(r), UNCHANGED <<state, masterVars, timerVars>>
      PROVE  Undisturbed(q)
  BY <1>f DEF SendNothing, masterVars, timerVars, Undisturbed
<1>3. ASSUME startup(r)
      PROVE  Undisturbed(q)
  <2>1. CASE BecomeMaster(r) /\ UNCHANGED <<masterDownTimer, masterAdvertisementInterval>>
    BY <1>e, <2>1 DEF Undisturbed
  <2>2. CASE /\ masterAdvertisementInterval' =
                  [masterAdvertisementInterval EXCEPT ![r] = advertisementInterval[r]]
             /\ StartMasterDown(r, advertisementInterval[r])
             /\ setState(r, "Backup")
             /\ SendNothing(r)
             /\ UNCHANGED <<advertisementTimer, masterIp>>
    <3>1. masterAdvertisementInterval'[q] = masterAdvertisementInterval[q]
      BY <1>2, <2>2
    <3> QED
      BY <1>a, <1>b, <1>c, <2>2, <3>1 DEF Undisturbed
  <2> QED
    BY <1>3, <2>1, <2>2 DEF startup
<1>4. ASSUME NEW new, shutdown(r, new)
      PROVE  Undisturbed(q)
  <2>1. state'[q] = state[q] /\ announced'[q] = announced[q]
    BY <1>4, <1>a, <1>b DEF shutdown
  <2>2. /\ masterDownTimer'[q] = masterDownTimer[q]
        /\ advertisementTimer'[q] = advertisementTimer[q]
    BY <1>4, <1>c, <1>d DEF shutdown
  <2>3. masterAdvertisementInterval' = masterAdvertisementInterval
    BY <1>4 DEF shutdown, masterVars
  <2> QED
    BY <2>1, <2>2, <2>3 DEF Undisturbed
<1>5. CASE enable(r)
  <2>1. CASE setState(r, "LinkDown") /\ SendNothing(r) /\ UNCHANGED <<timerVars, masterVars>>
    BY <1>a, <1>b, <2>1 DEF timerVars, masterVars, Undisturbed
  <2> QED
    BY <1>3, <1>5, <2>1 DEF enable
<1>6. CASE disable(r)
  BY <1>4, <1>6 DEF disable
<1>7. ASSUME NEW p \in Priorities, setPriority(r, p)
      PROVE  Undisturbed(q)
  BY <1>f, <1>7 DEF setPriority
<1>8. ASSUME NEW i \in Intervals, setAdvertisementInterval(r, i)
      PROVE  Undisturbed(q)
  BY <1>f, <1>8 DEF setAdvertisementInterval
<1>9. ASSUME NEW m, setPreemptMode(r, m) \/ setAcceptMode(r, m)
      PROVE  Undisturbed(q)
  BY <1>f, <1>9 DEF setPreemptMode, setAcceptMode
<1>10. ASSUME NEW ip, setPrimaryIpAddress(r, ip) \/ unsetPrimaryIpAddress(r)
      PROVE  Undisturbed(q)
  BY <1>f, <1>10 DEF setPrimaryIpAddress, unsetPrimaryIpAddress
<1>11. ASSUME NEW s, addIpAddress(r, s) \/ removeIpAddress(r, s)
       PROVE  Undisturbed(q)
  BY <1>f, <1>11 DEF addIpAddress, removeIpAddress
<1>12. CASE onMasterDownTimer(r)
  BY <1>c, <1>e, <1>12 DEF onMasterDownTimer, Undisturbed
<1>13. CASE onAdvertisementTimer(r)
  BY <1>b, <1>d, <1>13
  DEF onAdvertisementTimer, masterVars, Undisturbed
<1>14. ASSUME NEW pkt, onIncomingVrrpPacket(r, pkt)
       PROVE  Undisturbed(q)
  <2>1. CASE BackupHearsGoodbye(r, pkt)
    <3>1. masterDownTimer'[q] = masterDownTimer[q]
      BY <1>1, <2>1 DEF BackupHearsGoodbye
    <3> QED
      BY <1>b, <2>1, <3>1 DEF BackupHearsGoodbye, masterVars, Undisturbed
  <2>2. CASE BackupHearsMaster(r, pkt)
    <3>1. masterAdvertisementInterval'[q] = masterAdvertisementInterval[q]
      BY <1>2, <2>2 DEF BackupHearsMaster
    <3> QED
      BY <1>b, <1>c, <2>2, <3>1 DEF BackupHearsMaster, Undisturbed
  <2>3. CASE IgnoresAdvertisement(r, pkt)
    BY <1>f, <2>3 DEF IgnoresAdvertisement
  <2>4. CASE MasterHearsGoodbye(r, pkt)
    BY <1>b, <1>d, <2>4 DEF MasterHearsGoodbye, masterVars, Undisturbed
  <2>5. CASE MasterYields(r, pkt)
    <3>1. masterAdvertisementInterval'[q] = masterAdvertisementInterval[q]
      BY <1>2, <2>5 DEF MasterYields
    <3> QED
      BY <1>a, <1>b, <1>c, <1>d, <2>5, <3>1 DEF MasterYields, Undisturbed
  <2> QED
    BY <1>14, <2>1, <2>2, <2>3, <2>4, <2>5 DEF onIncomingVrrpPacket
<1>15. CASE interfaceCallback(r)
  BY <1>3, <1>4, <1>f, <1>15 DEF interfaceCallback
<1>16. CASE LinkChange(r)
  BY <1>16 DEF LinkChange, masterVars, timerVars, outVars, Undisturbed
<1>17. CASE Operate(r)
  BY <1>5, <1>6, <1>7, <1>8, <1>9, <1>10, <1>11, <1>17 DEF Operate
<1>18. CASE React(r)
  BY <1>12, <1>13, <1>14, <1>15, <1>18 DEF React, MasterDownExpires, AdvertisementExpires
<1> QED
  BY <1>12, <1>13, <1>14, <1>16, <1>17, <1>18 DEF Step

-----------------------------------------------------------------------------
(* The invariants, router by router.                                         *)

TimerInvariant(r) ==
  /\ Armed(masterDownTimer[r]) <=> state[r] = "Backup"
  /\ Armed(advertisementTimer[r]) <=> state[r] = "Master"
  /\ state[r] = "Backup" => InTime(masterDownTimer[r], masterAdvertisementInterval[r])
  /\ state[r] = "Master" => advertisementTimer[r] \in 0..(10 * announced[r])

LEMMA OutcomeKeeps ==
  ASSUME TypeOK, NEW r \in Routers, TimerInvariant(r), Outcome(r)
  PROVE  TimerInvariant(r)'
<1>1. CASE Undisturbed(r)
  BY <1>1 DEF Undisturbed, TimerInvariant
<1>2. CASE Waits(r)
  <2>1. ~Armed(advertisementTimer'[r])
    BY <1>2 DEF Waits, Armed, TimerInvariant
  <2> QED
    BY <1>2, <2>1, InTimeArmed DEF Waits, TimerInvariant
<1>3. CASE Advertises(r)
  <2>1. ~Armed(masterDownTimer'[r])
    BY <1>3 DEF Advertises, Armed, TimerInvariant
  <2>2. /\ Armed(advertisementTimer'[r])
        /\ advertisementTimer'[r] \in 0..(10 * announced'[r])
    BY <1>3 DEF Advertises, Armed, Idle
  <2> QED
    BY <1>3, <2>1, <2>2 DEF Advertises, TimerInvariant
<1>4. CASE Rests(r)
  <2>1. ~Armed(advertisementTimer'[r]) /\ ~Armed(masterDownTimer'[r])
    BY <1>4 DEF Rests, Armed, TimerInvariant
  <2> QED
    BY <1>4, <2>1 DEF Rests, TimerInvariant
<1> QED
  BY <1>1, <1>2, <1>3, <1>4 DEF Outcome

LEMMA ElapseKeeps ==
  ASSUME ConfigAssumption, TypeOK, NEW d \in TimeSteps, Elapse(d),
         NEW r \in Routers, TimerInvariant(r)
  PROVE  TimerInvariant(r)'
<1> DEFINE m == masterDownTimer[r]
           a == advertisementTimer[r]
           i == masterAdvertisementInterval[r]
           n == announced[r]
<1>1. d \in Nat \ {0}
  BY DEF ConfigAssumption
<1>2. m \in Timers /\ a \in Timers /\ i \in SentIntervals /\ n \in IntervalRange \cup {0}
  BY DEF TypeOK
<1>3. i \in Nat /\ n \in Nat
  BY <1>2, Ranges
<1>4. /\ masterDownTimer'[r] = Elapsed(m, d)
      /\ advertisementTimer'[r] = Elapsed(a, d)
      /\ state'[r] = state[r]
      /\ masterAdvertisementInterval'[r] = i
      /\ announced'[r] = n
  BY DEF Elapse, masterVars, outVars
<1>5. /\ Armed(m) <=> state[r] = "Backup"
      /\ Armed(a) <=> state[r] = "Master"
      /\ state[r] = "Backup" => InTime(m, i)
      /\ state[r] = "Master" => a \in 0..(10 * n)
  BY DEF TimerInvariant
<1> HIDE DEF m, a, i, n
<1>6. /\ Armed(Elapsed(m, d)) <=> Armed(m)
      /\ Armed(Elapsed(a, d)) <=> Armed(a)
      /\ Elapsed(m, d) <= m
      /\ Elapsed(m, d) \in Timers
  BY <1>1, <1>2, ElapsedType
<1>7. state[r] = "Backup" => InTime(Elapsed(m, d), i)
  BY <1>1, <1>3, <1>5 DEF Elapsed, InTime, Stalled
<1>8. state[r] = "Master" => Elapsed(a, d) \in 0..(10 * n)
  BY <1>1, <1>3, <1>5 DEF Elapsed
<1> QED
  BY <1>4, <1>5, <1>6, <1>7, <1>8 DEF TimerInvariant

LEMMA TimerStep ==
  ASSUME ConfigAssumption, TypeOK, \A q \in Routers : TimerInvariant(q), [Next]_vars
  PROVE  \A q \in Routers : TimerInvariant(q)'
<1> SUFFICES ASSUME NEW q \in Routers
             PROVE  TimerInvariant(q)'
  OBVIOUS
<1>1. ASSUME NEW r \in Routers, Step(r)
      PROVE  TimerInvariant(q)'
  <2>1. Outcome(q)
    BY <1>1, StepOutcome, StepOthers DEF OthersUndisturbed, Outcome
  <2> QED
    BY <2>1, OutcomeKeeps
<1>2. ASSUME NEW d \in TimeSteps, Elapse(d)
      PROVE  TimerInvariant(q)'
  BY <1>2, ElapseKeeps
<1>3. CASE UNCHANGED vars
  <2>1. Undisturbed(q)
    BY <1>3 DEF vars, masterVars, timerVars, outVars, Undisturbed
  <2> QED
    BY <2>1, OutcomeKeeps DEF Outcome
<1> QED
  BY <1>1, <1>2, <1>3 DEF Next, Step

LEMMA TimersAlways == Spec => [](TypeOK /\ \A q \in Routers : TimerInvariant(q))
<1>1. Init => TypeOK /\ \A q \in Routers : TimerInvariant(q)
  <2>1. ASSUME Init, NEW q \in Routers
        PROVE  TimerInvariant(q)
    BY <2>1 DEF Init, TimerInvariant, Armed
  <2> QED
    BY <2>1, ConfigAssumption, InitType
<1>2. TypeOK /\ (\A q \in Routers : TimerInvariant(q)) /\ [Next]_vars
        => TypeOK' /\ (\A q \in Routers : TimerInvariant(q))'
  BY ConfigAssumption, NextType, TimerStep
<1> QED
  BY <1>1, <1>2, PTL DEF Spec

\* Exactly a Backup waits for its master, exactly a Master advertises by timer.
THEOREM TimersFollowState == Spec => []TimerDiscipline
<1>1. (\A q \in Routers : TimerInvariant(q)) => TimerDiscipline
  BY DEF TimerInvariant, TimerDiscipline
<1> QED
  BY <1>1, TimersAlways, PTL

\* A Backup's wait ends within four of its master's intervals, or it never ends, which
\* takes an interval below 256 (onIncomingVrrpPacket, startup, Timer::start).
THEOREM TakeoverIsBounded == Spec => []BoundedTakeover
<1>1. (\A q \in Routers : TimerInvariant(q)) => BoundedTakeover
  BY DEF TimerInvariant, InTime, BoundedTakeover
<1> QED
  BY <1>1, TimersAlways, PTL

\* A Master's next advertisement is due within the interval it announced last.
THEOREM AnnouncedIntervalIsKept == Spec => []KeepsAnnouncedInterval
<1>1. (\A q \in Routers : TimerInvariant(q)) => KeepsAnnouncedInterval
  BY DEF TimerInvariant, KeepsAnnouncedInterval
<1> QED
  BY <1>1, TimersAlways, PTL

=============================================================================
