----------------------- MODULE TelnetSession_proofs -----------------------
(***************************************************************************)
(* Proofs about the sessions of operators, for every buffer size and any   *)
(* lines.  While an operator waits for the prompt, what is in the buffer   *)
(* and what is still to come are the line that is owed, so the newline     *)
(* that is found is the last cell of both: the loop over the lines of a    *)
(* read has one turn, and moves nothing.                                   *)
(***************************************************************************)
EXTENDS TelnetSession, SequenceTheorems, FiniteSetTheorems, TLAPS

\* Induction over numbers, without an operator for a parameter: a set of natural
\* numbers has a least element, since strict inclusion of finite sets is well founded.
LEMMA LeastNatural ==
  ASSUME NEW S \in SUBSET Nat, S # {}
  PROVE  \E n \in S : \A m \in S : n <= m
<1> DEFINE T == {0..n : n \in S}
<1>1. T \subseteq FiniteSubsetsOf(Nat) /\ T # {}
  <2>1. ASSUME NEW n \in S PROVE 0..n \in FiniteSubsetsOf(Nat)
    <3>1. IsFiniteSet(0..n)
      BY FS_Interval
    <3> QED BY <3>1 DEF FiniteSubsetsOf
  <2> QED BY <2>1
<1>2. PICK x \in T : \A y \in T : ~(<<y, x>> \in StrictSubsetOrdering(Nat))
  BY <1>1, FS_StrictSubsetOrderingWellFounded, WFMin
<1>3. PICK n \in S : x = 0..n
  OBVIOUS
<1>4. ASSUME NEW m \in S, m < n PROVE FALSE
  <2>1. 0..m \in T /\ 0..m \in SUBSET Nat /\ x \in SUBSET Nat
    BY <1>3
  <2>2. 0..m \subseteq x /\ n \in x /\ n \notin 0..m
    BY <1>3, <1>4
  <2>3. <<0..m, x>> \in StrictSubsetOrdering(Nat)
    BY <2>1, <2>2 DEF StrictSubsetOrdering
  <2> QED BY <1>2, <2>1, <2>3
<1> QED BY <1>4

\* The first newline is one, and where it is looked for.
LEMMA FirstNewlineFound ==
  ASSUME NEW b, NEW first \in Nat, NEW last \in Nat
  PROVE  LET p == FirstNewline(b, first, last)
         IN  \/ p = 0 /\ \A i \in first..last : b[i] # NL
             \/ p \in first..last /\ b[p] = NL
<1> DEFINE S == {i \in first..last : b[i] = NL}
<1>1. CASE S = {}
  BY <1>1 DEF FirstNewline
<1>2. CASE S # {}
  <2>1. S \in SUBSET Nat
    OBVIOUS
  <2>2. PICK n \in S : \A m \in S : n <= m
    BY <1>2, <2>1, LeastNatural
  <2>3. n \in first..last /\ b[n] = NL /\ \A j \in first..(n - 1) : b[j] # NL
    BY <2>2
  <2> DEFINE p == CHOOSE i \in first..last : b[i] = NL /\ \A j \in first..(i - 1) : b[j] # NL
  <2>4. p \in first..last /\ b[p] = NL
    BY <2>3
  <2>5. FirstNewline(b, first, last) = p
    BY <2>3 DEF FirstNewline
  <2> QED BY <2>4, <2>5
<1> QED BY <1>1, <1>2

-----------------------------------------------------------------------------
(* What a line asks for *)

\* The calls of the commands: a method's name, and for a new router its key and VLAN.
IsCall(c) ==
  /\ c[1] \in Methods \/ c \in {Refused, Ends, Undefined}
  /\ c[1] = "getService" => c[2] \in Keys /\ c[3] \in Int

LEMMA MethodNames ==
  /\ "getService" \in Methods /\ "removeService" \in Methods /\ "enable" \in Methods
  /\ "disable" \in Methods /\ "addIpAddress" \in Methods /\ "removeIpAddress" \in Methods
  /\ "setPrimaryIpAddress" \in Methods /\ "setPriority" \in Methods
  /\ "setAdvertisementInterval" \in Methods /\ "setAcceptMode" \in Methods
  /\ "setPreemptMode" \in Methods /\ "setMasterCommand" \in Methods
  /\ "setBackupCommand" \in Methods /\ "writeConfiguration" \in Methods
  /\ "showRouter" \in Methods /\ "showStats" \in Methods
BY DEF Methods

LEMMA ValidKey ==
  ASSUME NEW argv, ValidTarget(argv), NEW create
  PROVE  KeyOf(argv, create) \in Keys /\ VlanOf(argv, create) \in Int
<1>1. FamilyNamed(argv, create) \in Families
  BY DEF FamilyNamed, Families
<1>2. Atoi(argv[6]) \in Int
  BY CommandAssumption DEF Atoi
<1> QED BY <1>1, <1>2 DEF ValidTarget, KeyOf, VlanOf, Keys

LEMMA PlainCall ==
  ASSUME NEW name \in Methods, name # "getService", NEW key, NEW value
  PROVE  IsCall(<<name, key, value>>)
BY DEF IsCall

LEMMA AnswerIsCall == IsCall(Refused) /\ IsCall(Ends) /\ IsCall(Undefined)
<1>1. Refused[1] = "refused" /\ Ends[1] = "exit" /\ Undefined[1] = "undefined"
  BY DEF Refused, Ends, Undefined
<1> QED BY <1>1 DEF IsCall

LEMMA ForServiceCall ==
  ASSUME NEW argv, NEW known, NEW name \in Methods, name # "getService", NEW value
  PROVE  IsCall(ForService(argv, known, name, value))
<1>1. IsCall(<<name, KeyOf(argv, FALSE), value>>)
  BY PlainCall, MethodNames
<1> QED BY <1>1, AnswerIsCall DEF ForService

LEMMA SettingIsCall ==
  ASSUME NEW argv, NEW key, NEW o
  PROVE  IsCall(SettingCall(argv, key, o))
<1>1. \A value : /\ IsCall(<<"setPrimaryIpAddress", key, value>>)
                 /\ IsCall(<<"setPriority", key, value>>)
                 /\ IsCall(<<"setAdvertisementInterval", key, value>>)
                 /\ IsCall(<<"setAcceptMode", key, value>>)
                 /\ IsCall(<<"setPreemptMode", key, value>>)
                 /\ IsCall(<<"setMasterCommand", key, value>>)
                 /\ IsCall(<<"setBackupCommand", key, value>>)
  BY PlainCall, MethodNames
<1> QED BY <1>1, AnswerIsCall DEF SettingCall

LEMMA AddRouterIsCall ==
  ASSUME NEW argv PROVE IsCall(onAddRouterCommand(argv))
<1>1. ASSUME ValidTarget(argv)
      PROVE  IsCall(<<"getService", KeyOf(argv, TRUE), VlanOf(argv, TRUE)>>)
  <2>1. KeyOf(argv, TRUE) \in Keys /\ VlanOf(argv, TRUE) \in Int
    BY <1>1, ValidKey
  <2> QED BY <2>1, MethodNames DEF IsCall
<1> QED BY <1>1, AnswerIsCall DEF onAddRouterCommand

LEMMA SetRouterIsCall ==
  ASSUME NEW argv, NEW known PROVE IsCall(onSetRouterCommand(argv, known))
BY SettingIsCall, AnswerIsCall DEF onSetRouterCommand

LEMMA ShowIsCall ==
  ASSUME NEW argv, NEW known PROVE IsCall(onShowCommand(argv, known))
<1>1. \A shown : IsCall(<<"showRouter", shown, "">>) /\ IsCall(<<"showStats", shown, "">>)
  BY PlainCall, MethodNames
<1>2. IsCall(onShowRouterCommand(argv, known))
  BY <1>1, AnswerIsCall DEF onShowRouterCommand
<1>3. IsCall(onShowStatsCommand)
  BY <1>1 DEF onShowStatsCommand
<1> QED BY <1>2, <1>3, AnswerIsCall DEF onShowCommand

LEMMA CommandIsCall ==
  ASSUME NEW argv, NEW known
  PROVE  IsCall(onCommand(argv, known))
<1>1. IsCall(onAddCommand(argv, known))
  <2>1. IsCall(ForSubnet(argv, known, "addIpAddress"))
    BY ForServiceCall, MethodNames, AnswerIsCall DEF ForSubnet
  <2> QED BY <2>1, AddRouterIsCall, AnswerIsCall DEF onAddCommand, onAddAddressCommand
<1>2. IsCall(onRemoveCommand(argv, known))
  <2>1. IsCall(ForSubnet(argv, known, "removeIpAddress"))
    BY ForServiceCall, MethodNames, AnswerIsCall DEF ForSubnet
  <2>2. IsCall(ForService(argv, known, "removeService", ""))
    BY ForServiceCall, MethodNames
  <2> QED BY <2>1, <2>2, AnswerIsCall
          DEF onRemoveCommand, onRemoveAddressCommand, onRemoveRouterCommand
<1>3. IsCall(onSetCommand(argv, known))
  BY SetRouterIsCall, AnswerIsCall DEF onSetCommand
<1>4. IsCall(onEnableCommand(argv, known)) /\ IsCall(onDisableCommand(argv, known))
  <2>1. /\ IsCall(ForService(argv, known, "enable", ""))
        /\ IsCall(ForService(argv, known, "disable", ""))
    BY ForServiceCall, MethodNames
  <2> QED BY <2>1, AnswerIsCall DEF onEnableCommand, onDisableCommand
<1>5. IsCall(onSaveCommand(argv))
  BY PlainCall, MethodNames DEF onSaveCommand
<1> QED BY <1>1, <1>2, <1>3, <1>4, <1>5, ShowIsCall, AnswerIsCall DEF onCommand

-----------------------------------------------------------------------------
(* Lines, cells and reads *)

\* The newline of a line is its last cell.
LEMMA LineCells ==
  ASSUME NEW line \in Lines
  PROVE  /\ line \in Seq(Words) /\ Len(line) \in Nat
         /\ Text(line) \in Seq(Words \cup {NL})
         /\ Len(Text(line)) = Len(line) + 1
         /\ \A i \in 1..(Len(line) + 1) : Text(line)[i] = NL <=> i = Len(line) + 1
<1>1. line \in Seq(STRING \ {NL, NUL, Junk})
  BY SessionAssumption
<1>2. \A i \in 1..Len(line) : line[i] \in Words /\ line[i] # NL
  BY <1>1 DEF Words
<1>3. line \in Seq(Words) /\ Len(line) \in Nat
  BY <1>1, <1>2
<1>4. line \in Seq(Words \cup {NL}) /\ <<NL>> \in Seq(Words \cup {NL})
  BY <1>3, SeqMonotonic
<1>5. /\ Text(line) \in Seq(Words \cup {NL})
      /\ Len(Text(line)) = Len(line) + 1
      /\ \A i \in 1..(Len(line) + 1) :
           Text(line)[i] = IF i <= Len(line) THEN line[i] ELSE <<NL>>[i - Len(line)]
  BY <1>4, ConcatProperties DEF Text
<1> QED BY <1>2, <1>3, <1>5

\* The buffer filled by a read of n cells.
FilledBy(b, k, w, n) ==
  [i \in Cells |-> IF i \in (k + 1)..(k + n) THEN w[i - k] ELSE b[i]]

\* A read moves the front of what is to come to the end of what is there.
LEMMA ReadKeepsText ==
  ASSUME NEW b \in [Cells -> Contents], NEW k \in 0..BufferSize,
         NEW w \in Seq(Contents), NEW n \in 1..Len(w), k + n <= BufferSize
  PROVE  /\ FilledBy(b, k, w, n) \in [Cells -> Contents]
         /\ SubSeq(w, n + 1, Len(w)) \in Seq(Contents)
         /\ Len(SubSeq(w, n + 1, Len(w))) = Len(w) - n
         /\ SubSeq(FilledBy(b, k, w, n), 1, k + n) \o SubSeq(w, n + 1, Len(w))
              = SubSeq(b, 1, k) \o w
<1> DEFINE c == FilledBy(b, k, w, n)
           head == SubSeq(c, 1, k + n)
           rest == SubSeq(w, n + 1, Len(w))
           front == SubSeq(b, 1, k)
<1>1. BufferSize \in Nat
  BY SessionAssumption
<1>2. c \in [Cells -> Contents]
  BY <1>1 DEF FilledBy, Cells
<1>3. \A i \in 1..k : c[i] = b[i]
  BY <1>1 DEF FilledBy, Cells
<1>4. \A i \in (k + 1)..(k + n) : c[i] = w[i - k]
  BY <1>1 DEF FilledBy, Cells
<1> HIDE DEF c
<1>5. head \in Seq(Contents) /\ Len(head) = k + n /\ \A i \in 1..(k + n) : head[i] = c[i]
  <2>1. \A i \in 1..(k + n) : c[i] \in Contents
    BY <1>1, <1>2 DEF Cells
  <2> QED BY <2>1, SubSeqProperties
<1>6. /\ rest \in Seq(Contents) /\ Len(rest) = Len(w) - n
      /\ \A i \in 1..(Len(w) - n) : rest[i] = w[n + i]
  <2>1. \A i \in (n + 1)..Len(w) : w[i] \in Contents
    OBVIOUS
  <2> QED BY <2>1, SubSeqProperties
<1>7. front \in Seq(Contents) /\ Len(front) = k /\ \A i \in 1..k : front[i] = b[i]
  <2>1. \A i \in 1..k : b[i] \in Contents
    BY <1>1 DEF Cells
  <2> QED BY <2>1, SubSeqProperties
<1> HIDE DEF head, rest, front
<1>8. /\ head \o rest \in Seq(Contents) /\ Len(head \o rest) = k + Len(w)
      /\ \A i \in 1..(k + Len(w)) :
           (head \o rest)[i] = IF i <= k + n THEN head[i] ELSE rest[i - (k + n)]
  <2>1. /\ head \o rest \in Seq(Contents) /\ Len(head \o rest) = Len(head) + Len(rest)
        /\ \A i \in 1..(Len(head) + Len(rest)) :
             (head \o rest)[i] = IF i <= Len(head) THEN head[i] ELSE rest[i - Len(head)]
    BY <1>5, <1>6, ConcatProperties
  <2>2. Len(head) + Len(rest) = k + Len(w)
    BY <1>5, <1>6
  <2> QED BY <1>5, <2>1, <2>2
<1>9. /\ front \o w \in Seq(Contents) /\ Len(front \o w) = k + Len(w)
      /\ \A i \in 1..(k + Len(w)) : (front \o w)[i] = IF i <= k THEN front[i] ELSE w[i - k]
  BY <1>7, ConcatProperties
<1>10. ASSUME NEW i \in 1..(k + Len(w)) PROVE (head \o rest)[i] = (front \o w)[i]
  <2>1. CASE i <= k
    <3>1. (head \o rest)[i] = c[i] /\ c[i] = b[i] /\ (front \o w)[i] = b[i]
      BY <2>1, <1>3, <1>5, <1>7, <1>8, <1>9
    <3> QED BY <3>1
  <2>2. CASE k < i /\ i <= k + n
    <3>1. (head \o rest)[i] = c[i] /\ c[i] = w[i - k] /\ (front \o w)[i] = w[i - k]
      BY <2>2, <1>4, <1>5, <1>8, <1>9
    <3> QED BY <3>1
  <2>3. CASE k + n < i
    <3>1. (head \o rest)[i] = rest[i - (k + n)] /\ (front \o w)[i] = w[i - k]
      <4>1. ~(i <= k + n) /\ ~(i <= k)
        BY <2>3
      <4> QED BY <4>1, <1>8, <1>9
    <3>2. i - (k + n) \in 1..(Len(w) - n) /\ n + (i - (k + n)) = i - k
      BY <2>3
    <3>3. rest[i - (k + n)] = w[n + (i - (k + n))]
      BY <3>2, <1>6
    <3> QED BY <3>1, <3>2, <3>3
  <2>4. i <= k \/ (k < i /\ i <= k + n) \/ k + n < i
    OBVIOUS
  <2> QED BY <2>1, <2>2, <2>3, <2>4
<1>11. head \o rest = front \o w
  BY <1>8, <1>9, <1>10, SeqEqual
<1> QED BY <1>2, <1>6, <1>11 DEF head, rest, front, c

-----------------------------------------------------------------------------
(* The invariant *)

\* A newline is being served in a session that has one, and no line is too long then;
\* for an operator who waits it is the last cell of all that he has typed.
SessionInvariant ==
  /\ TelnetTypeOK
  /\ nl # 0 => open /\ ~overflow
  /\ open => daemon = "running"
  /\ open /\ overflow => bufferSize = BufferSize
  /\ nl # 0 /\ ahead = 0 => nl = bufferSize /\ wire = <<>>
  /\ LineStaysWhole
  /\ OnlyHasteKills

LEMMA EmptiedType == Emptied \in [Cells -> Contents] /\ BufferSize \in Nat
BY SessionAssumption DEF Emptied, Contents

LEMMA ServicesNone == DOMAIN NoServices = {}
BY DEF NoServices

LEMMA InitSession == Init => SessionInvariant
<1> SUFFICES ASSUME Init PROVE SessionInvariant
  OBVIOUS
<1>1. TelnetTypeOK
  <2>1. wire \in Seq(Words \cup {NL})
    BY DEF Init
  <2>2. 0 \in 0..MaxAhead
    BY SessionAssumption
  <2>3. SessionTypeOK
    <3>1. bufferSize \in 0..BufferSize /\ size \in 0..BufferSize /\ nl \in 0..bufferSize
      BY EmptiedType DEF Init
    <3>2. /\ open \in BOOLEAN /\ hungUp \in BOOLEAN /\ overflow \in BOOLEAN /\ ahead \in 0..MaxAhead
          /\ buffer \in [Cells -> Contents] /\ owed = <<>>
      BY <2>2, EmptiedType DEF Init
    <3> QED BY <2>1, <3>1, <3>2 DEF SessionTypeOK
  <2>4. DaemonTypeOK
    BY ServicesNone DEF Init, DaemonTypeOK
  <2> QED BY <2>3, <2>4 DEF TelnetTypeOK
<1> QED BY <1>1 DEF Init, SessionInvariant, LineStaysWhole, OnlyHasteKills

\* Nothing is left of a session that was closed.
LEMMA CloseType ==
  ASSUME TelnetTypeOK, Close
  PROVE  /\ SessionTypeOK'
         /\ open' = FALSE /\ nl' = 0 /\ ahead' = ahead
<1>1. wire' \in Seq(Words \cup {NL}) /\ buffer' \in [Cells -> Contents]
  BY EmptiedType DEF Close
<1>2. bufferSize' \in 0..BufferSize /\ nl' \in 0..bufferSize' /\ owed' = <<>>
  BY EmptiedType DEF Close
<1>3. /\ open' = FALSE /\ nl' = 0 /\ ahead' = ahead /\ overflow' = overflow
      /\ size' = size /\ hungUp' = hungUp
  BY DEF Close
<1>4. SessionTypeOK
  BY DEF TelnetTypeOK
<1> QED BY <1>1, <1>2, <1>3, <1>4 DEF SessionTypeOK

LEMMA NoNewlineInNothing ==
  ASSUME NEW b, NEW w \in Seq(Words \cup {NL})
  PROVE  SubSeq(b, 1, 0) \o w = w /\ SubSeq(b, 1, 0) = <<>>
<1>1. SubSeq(b, 1, 0) = <<>>
  BY SubSeqEmpty
<1> QED BY <1>1, ConcatEmptySeq

\* What an operator who waits has typed is nothing, or one line.
LEMMA TextLength ==
  ASSUME TelnetTypeOK
  PROVE  Len(SubSeq(buffer, 1, bufferSize) \o wire) = bufferSize + Len(wire)
<1>1. wire \in Seq(Contents)
  <2>1. Words \cup {NL} \subseteq Contents
    BY DEF Contents
  <2>2. wire \in Seq(Words \cup {NL})
    BY DEF TelnetTypeOK, SessionTypeOK
  <2> QED BY <2>1, <2>2, SeqMonotonic
<1>2. SubSeq(buffer, 1, bufferSize) \in Seq(Contents) /\ Len(SubSeq(buffer, 1, bufferSize)) = bufferSize
  <2>1. \A i \in 1..bufferSize : buffer[i] \in Contents
    BY EmptiedType DEF TelnetTypeOK, SessionTypeOK, Cells
  <2>2. bufferSize \in Nat
    BY EmptiedType DEF TelnetTypeOK, SessionTypeOK
  <2> QED BY <2>1, <2>2, SubSeqProperties
<1> QED BY <1>1, <1>2, ConcatProperties

LEMMA TypeStep ==
  ASSUME SessionInvariant, NEW line \in Lines, Type(line)
  PROVE  SessionInvariant'
<1>1. /\ Text(line) \in Seq(Words \cup {NL})
      /\ wire' = wire \o Text(line) /\ wire' \in Seq(Words \cup {NL})
  <2>1. wire \in Seq(Words \cup {NL})
    BY DEF SessionInvariant, TelnetTypeOK, SessionTypeOK
  <2>2. wire' = wire \o Text(line)
    BY DEF Type
  <2> QED BY <2>1, <2>2, LineCells, ConcatProperties
<1>2. TelnetTypeOK'
  <2>1. ahead' \in 0..MaxAhead /\ (owed' = <<>> \/ owed' = <<line>>)
    BY SessionAssumption DEF Type, SessionInvariant, TelnetTypeOK, SessionTypeOK
  <2>2. UNCHANGED <<services, call, daemon, session, hungUp>>
    BY DEF Type
  <2> QED BY <1>1, <2>1, <2>2 DEF SessionInvariant, TelnetTypeOK, DaemonTypeOK, SessionTypeOK, session
<1>3. CASE ahead' = 0
  <2>1. ahead = 0 /\ owed = <<>> /\ owed' = <<line>>
    BY <1>3, SessionAssumption DEF Type, SessionInvariant, TelnetTypeOK, SessionTypeOK
  <2>2. SubSeq(buffer, 1, bufferSize) \o wire = <<>>
    BY <2>1 DEF SessionInvariant, LineStaysWhole, Type
  <2>3. bufferSize = 0 /\ wire = <<>> /\ nl = 0
    <3>1. bufferSize + Len(wire) = 0
      BY <2>2, TextLength DEF SessionInvariant
    <3>2. bufferSize \in Nat /\ Len(wire) \in Nat /\ nl \in 0..bufferSize /\ wire \in Seq(Words \cup {NL})
      BY EmptiedType DEF SessionInvariant, TelnetTypeOK, SessionTypeOK
    <3> QED BY <3>1, <3>2
  <2>4. wire' = Text(line)
    BY <1>1, <2>3, ConcatEmptySeq
  <2>5. LineStaysWhole'
    <3>1. bufferSize' = 0 /\ owed'[1] = line /\ owed' # <<>>
      BY <2>1, <2>3 DEF Type, session
    <3> QED BY <1>1, <2>4, <3>1, NoNewlineInNothing DEF LineStaysWhole
  <2> QED BY <1>2, <2>3, <2>5 DEF SessionInvariant, OnlyHasteKills, Type, session
<1>4. CASE ahead' # 0
  <2>1. ahead' > 0
    BY <1>2, <1>4, SessionAssumption DEF TelnetTypeOK, SessionTypeOK
  <2> QED BY <1>2, <1>4, <2>1
          DEF SessionInvariant, LineStaysWhole, OnlyHasteKills, Type, session
<1> QED BY <1>3, <1>4

LEMMA HangUpStep ==
  ASSUME SessionInvariant, HangUp
  PROVE  SessionInvariant'
BY DEF SessionInvariant, TelnetTypeOK, DaemonTypeOK, SessionTypeOK, LineStaysWhole,
       OnlyHasteKills, HangUp, session

LEMMA ConnectionStep ==
  ASSUME SessionInvariant, onIncomingConnection
  PROVE  SessionInvariant'
<1>1. TelnetTypeOK'
  <2>1. wire' \in Seq(Words \cup {NL})
    BY DEF onIncomingConnection
  <2>2. 0 \in 0..MaxAhead
    BY SessionAssumption
  <2>3. SessionTypeOK'
    <3>1. bufferSize' \in 0..BufferSize /\ size' \in 0..BufferSize /\ nl' \in 0..bufferSize'
      BY EmptiedType DEF onIncomingConnection
    <3>2. /\ open' \in BOOLEAN /\ hungUp' \in BOOLEAN /\ overflow' \in BOOLEAN
          /\ ahead' \in 0..MaxAhead /\ buffer' \in [Cells -> Contents] /\ owed' = <<>>
      BY <2>2, EmptiedType DEF onIncomingConnection
    <3> QED BY <2>1, <3>1, <3>2 DEF SessionTypeOK
  <2> QED BY <2>3 DEF SessionInvariant, TelnetTypeOK, DaemonTypeOK, onIncomingConnection
<1>2. LineStaysWhole'
  <2>1. wire' = <<>> /\ bufferSize' = 0 /\ owed' = <<>>
    BY DEF onIncomingConnection
  <2> QED BY <2>1, <1>1, NoNewlineInNothing DEF LineStaysWhole, TelnetTypeOK, SessionTypeOK
<1> QED BY <1>1, <1>2 DEF SessionInvariant, OnlyHasteKills, onIncomingConnection

LEMMA StopStep ==
  ASSUME SessionInvariant, stop
  PROVE  SessionInvariant'
<1>1. Close /\ services' = NoServices /\ daemon' = "stopped" /\ call' = call
  BY DEF stop
<1>2. TelnetTypeOK'
  <2>1. DaemonTypeOK'
    BY <1>1, ServicesNone DEF SessionInvariant, TelnetTypeOK, DaemonTypeOK
  <2> QED BY <2>1, <1>1, CloseType DEF SessionInvariant, TelnetTypeOK
<1> QED BY <1>1, <1>2, CloseType
        DEF SessionInvariant, LineStaysWhole, OnlyHasteKills

LEMMA StartStep ==
  ASSUME SessionInvariant, start
  PROVE  SessionInvariant'
<1>1. DOMAIN services' \subseteq Keys /\ \A k \in DOMAIN services' : services'[k] \in Int
  BY SessionAssumption DEF start, Keys
<1>2. TelnetTypeOK'
  <2>1. DaemonTypeOK'
    BY <1>1 DEF DaemonTypeOK, start
  <2>2. SessionTypeOK'
    BY DEF SessionInvariant, TelnetTypeOK, SessionTypeOK, start, session, client
  <2> QED BY <2>1, <2>2 DEF TelnetTypeOK
<1>3. ~open
  BY DEF SessionInvariant, start
<1> QED BY <1>2, <1>3
        DEF SessionInvariant, LineStaysWhole, OnlyHasteKills, start, session, client

-----------------------------------------------------------------------------
(* receiveChunk *)

LEMMA EndOfFileStep ==
  ASSUME SessionInvariant, daemon = "running", EndOfFile
  PROVE  SessionInvariant'
<1>1. Close /\ services' = services /\ daemon' = daemon /\ call' = call
  BY DEF EndOfFile
<1>2. TelnetTypeOK'
  <2>1. DaemonTypeOK'
    BY <1>1 DEF SessionInvariant, TelnetTypeOK, DaemonTypeOK
  <2> QED BY <2>1, <1>1, CloseType DEF SessionInvariant, TelnetTypeOK
<1> QED BY <1>1, <1>2, CloseType
        DEF SessionInvariant, LineStaysWhole, OnlyHasteKills

LEMMA ChunkStep ==
  ASSUME SessionInvariant, daemon = "running", open, nl = 0, NEW n \in 1..Len(wire), Chunk(n)
  PROVE  SessionInvariant'
<1> DEFINE filled == bufferSize + n
           after == FilledBy(buffer, bufferSize, wire, n)
           rest == SubSeq(wire, n + 1, Len(wire))
<1>1. /\ n <= Remaining /\ buffer' = after /\ size' = n /\ wire' = rest
      /\ nl' = FirstNewline(after, bufferSize + 1, filled)
      /\ nl' # 0 => bufferSize' = filled /\ overflow' = overflow
      /\ nl' = 0 => /\ bufferSize' = FillAfter(filled)
                    /\ overflow' = (overflow \/ filled = BufferSize)
      /\ call' = Refused /\ UNCHANGED <<services, daemon, open, hungUp, owed, ahead>>
  BY DEF Chunk, FilledBy
<1>2. /\ BufferSize \in Nat /\ bufferSize \in 0..BufferSize /\ n \in Nat
      /\ wire \in Seq(Words \cup {NL}) /\ wire \in Seq(Contents) /\ buffer \in [Cells -> Contents]
  <2>1. wire \in Seq(Words \cup {NL}) /\ buffer \in [Cells -> Contents] /\ bufferSize \in 0..BufferSize
    BY DEF SessionInvariant, TelnetTypeOK, SessionTypeOK
  <2>2. Words \cup {NL} \subseteq Contents
    BY DEF Contents
  <2> QED BY <2>1, <2>2, SeqMonotonic, EmptiedType
<1>3. filled \in 1..BufferSize /\ ~overflow
  BY <1>1, <1>2 DEF Remaining, SessionInvariant
<1>4. /\ after \in [Cells -> Contents] /\ rest \in Seq(Words \cup {NL})
      /\ Len(rest) = Len(wire) - n
      /\ SubSeq(after, 1, filled) \o rest = SubSeq(buffer, 1, bufferSize) \o wire
  <2>1. \A i \in (n + 1)..Len(wire) : wire[i] \in Words \cup {NL}
    BY <1>2
  <2>2. rest \in Seq(Words \cup {NL})
    BY <1>2, <2>1, SubSeqProperties
  <2>3. bufferSize + n <= BufferSize
    BY <1>3
  <2>4. /\ after \in [Cells -> Contents] /\ Len(rest) = Len(wire) - n
        /\ SubSeq(after, 1, filled) \o rest = SubSeq(buffer, 1, bufferSize) \o wire
    <3>1. /\ buffer \in [Cells -> Contents] /\ bufferSize \in 0..BufferSize
          /\ wire \in Seq(Contents) /\ n \in 1..Len(wire) /\ bufferSize + n <= BufferSize
      BY <1>2, <2>3
    <3>2. FilledBy(buffer, bufferSize, wire, n) \in [Cells -> Contents]
      BY <3>1, ReadKeepsText
    <3>3. Len(SubSeq(wire, n + 1, Len(wire))) = Len(wire) - n
      BY <3>1, ReadKeepsText
    <3>4. SubSeq(FilledBy(buffer, bufferSize, wire, n), 1, bufferSize + n)
            \o SubSeq(wire, n + 1, Len(wire)) = SubSeq(buffer, 1, bufferSize) \o wire
      BY <3>1, ReadKeepsText
    <3> QED BY <3>2, <3>3, <3>4
  <2> QED BY <2>2, <2>4
<1> HIDE DEF after, rest
<1>5. \/ nl' = 0
      \/ nl' \in (bufferSize + 1)..filled /\ after[nl'] = NL
  BY <1>1, <1>2, FirstNewlineFound
<1>6. bufferSize' = filled /\ nl' \in 0..filled
  BY <1>1, <1>2, <1>3, <1>5 DEF FillAfter
<1>7. TelnetTypeOK'
  <2>1. n \in 0..BufferSize
    BY <1>2, <1>3
  <2>2. overflow' \in BOOLEAN
    BY <1>1 DEF SessionInvariant, TelnetTypeOK, SessionTypeOK
  <2>3. DaemonTypeOK'
    BY <1>1 DEF SessionInvariant, TelnetTypeOK, DaemonTypeOK
  <2>4. SessionTypeOK'
    BY <1>1, <1>3, <1>4, <1>6, <2>1, <2>2 DEF SessionInvariant, TelnetTypeOK, SessionTypeOK
  <2> QED BY <2>3, <2>4 DEF TelnetTypeOK
<1>8. LineStaysWhole'
  BY <1>1, <1>4, <1>6 DEF SessionInvariant, LineStaysWhole
<1>9. ASSUME nl' # 0, ahead' = 0
      PROVE  nl' = bufferSize' /\ wire' = <<>>
  <2>1. SubSeq(after, 1, filled) \o rest = IF owed = <<>> THEN <<>> ELSE Text(owed[1])
    BY <1>1, <1>4, <1>9 DEF SessionInvariant, LineStaysWhole
  <2>2. /\ SubSeq(after, 1, filled) \in Seq(Contents) /\ Len(SubSeq(after, 1, filled)) = filled
        /\ \A i \in 1..filled : SubSeq(after, 1, filled)[i] = after[i]
    <3>1. \A i \in 1..filled : after[i] \in Contents
      BY <1>2, <1>3, <1>4 DEF Cells
    <3> QED BY <1>3, <3>1, SubSeqProperties
  <2>3. rest \in Seq(Contents) /\ Len(rest) \in Nat
    BY <1>4, SeqMonotonic DEF Contents
  <2>4. /\ Len(SubSeq(after, 1, filled) \o rest) = filled + Len(rest)
        /\ (SubSeq(after, 1, filled) \o rest)[nl'] = NL
    BY <1>2, <1>3, <1>5, <1>9, <2>2, <2>3, ConcatProperties
  <2>5. PICK line \in Lines : SubSeq(after, 1, filled) \o rest = Text(line)
    <3>1. owed # <<>>
      BY <1>3, <2>1, <2>3, <2>4
    <3>2. PICK line \in Lines : owed = <<line>>
      BY <3>1 DEF SessionInvariant, TelnetTypeOK, SessionTypeOK
    <3> QED BY <2>1, <3>1, <3>2
  <2>6. nl' = Len(line) + 1 /\ Len(line) + 1 = filled + Len(rest)
    <3>1. /\ Len(line) \in Nat /\ Len(Text(line)) = Len(line) + 1
          /\ \A i \in 1..(Len(line) + 1) : Text(line)[i] = NL <=> i = Len(line) + 1
      BY LineCells
    <3>2. Len(line) + 1 = filled + Len(rest) /\ Text(line)[nl'] = NL
      BY <2>4, <2>5, <3>1
    <3>3. nl' \in 1..(Len(line) + 1)
      BY <1>2, <1>3, <1>6, <1>9, <2>3, <3>1, <3>2
    <3> QED BY <3>1, <3>2, <3>3
  <2>7. Len(rest) = 0 /\ nl' = filled
    BY <1>3, <1>6, <2>3, <2>6
  <2> QED BY <1>1, <1>4, <1>6, <2>7
<1>10. nl' # 0 => open' /\ ~overflow'
  BY <1>1, <1>3
<1>11. open' /\ overflow' => bufferSize' = BufferSize
  BY <1>1, <1>3, <1>6, <1>10
<1> QED BY <1>1, <1>7, <1>8, <1>9, <1>10, <1>11 DEF SessionInvariant, OnlyHasteKills

-----------------------------------------------------------------------------
(* One turn of the loop over the lines *)

LEMMA AskedIsCall ==
  ASSUME NEW c \in Outcomes(Asked)
  PROVE  IsCall(c)
<1>1. IsCall(Asked)
  BY CommandIsCall, AnswerIsCall DEF Asked
<1>2. c = Asked \/ c = Refused
  BY DEF Outcomes
<1> QED BY <1>1, <1>2, AnswerIsCall

LEMMA ServicesStep ==
  ASSUME DaemonTypeOK, NEW c, IsCall(c)
  PROVE  /\ DOMAIN ServicesAfter(c) \subseteq Keys
         /\ \A k \in DOMAIN ServicesAfter(c) : ServicesAfter(c)[k] \in Int
<1>1. CASE c[1] = "getService"
  <2>1. ServicesAfter(c) = [k \in DOMAIN services \cup {c[2]} |->
                             IF k \in DOMAIN services THEN services[k] ELSE c[3]]
    BY <1>1 DEF ServicesAfter
  <2> QED BY <1>1, <2>1 DEF DaemonTypeOK, IsCall
<1>2. CASE c[1] = "removeService"
  <2>1. ServicesAfter(c) = [k \in DOMAIN services \ {c[2]} |-> services[k]]
    BY <1>2 DEF ServicesAfter
  <2> QED BY <2>1 DEF DaemonTypeOK
<1>3. CASE c[1] \notin {"getService", "removeService"}
  <2>1. ServicesAfter(c) = services
    BY <1>3 DEF ServicesAfter
  <2> QED BY <2>1 DEF DaemonTypeOK
<1> QED BY <1>1, <1>2, <1>3

\* The next line is looked for in a buffer of what may be in a buffer.
LEMMA NextLineType ==
  ASSUME SessionTypeOK, nl # 0, NEW c, NextLine(Answered(c))
  PROVE  SessionTypeOK' /\ (nl' # 0 => MoreThanTheLine)
<1>1. /\ BufferSize \in Nat /\ bufferSize \in 0..BufferSize /\ nl \in Nat /\ size \in Nat
      /\ buffer \in [Cells -> Contents]
  BY EmptiedType DEF SessionTypeOK
<1>2. Answered(c) \in [Cells -> Contents]
  <2>1. Terminated \in [Cells -> Contents]
    BY <1>1 DEF Terminated, Contents
  <2>2. \A i \in Cells : i <= Len(Reply) => Reply[i] \in Contents
    <3>1. Len(Reply) = 4 /\ DOMAIN Reply = 1..4
      BY DEF Reply
    <3> QED BY <3>1, <1>1 DEF Cells, Contents
  <2> QED BY <2>1, <2>2 DEF Answered
<1>3. Moved(Answered(c)) \in [Cells -> Contents]
  <2>1. Junk \in Contents
    BY DEF Contents
  <2>2. ASSUME NEW i \in Cells, nl + i <= BufferSize PROVE nl + i \in Cells
    BY <1>1, <2>2 DEF Cells
  <2>3. \A i \in Cells : nl + i <= BufferSize => Answered(c)[nl + i] \in Contents
    BY <1>2, <2>2
  <2> QED BY <1>2, <2>1, <2>3 DEF Moved
<1>4. CASE MoreThanTheLine
  <2>1. /\ buffer' = Moved(Answered(c)) /\ bufferSize' = bufferSize
        /\ nl' = FirstNewline(Moved(Answered(c)), 1, bufferSize)
        /\ overflow' = FALSE /\ owed' = <<>> /\ UNCHANGED <<open, size, hungUp, wire, ahead>>
    BY <1>4 DEF NextLine
  <2>2. nl' \in 0..bufferSize'
    <3>1. 1 \in Nat /\ bufferSize \in Nat
      BY <1>1
    <3>2. \/ FirstNewline(Moved(Answered(c)), 1, bufferSize) = 0
          \/ FirstNewline(Moved(Answered(c)), 1, bufferSize) \in 1..bufferSize
      BY <3>1, FirstNewlineFound
    <3> QED BY <2>1, <3>1, <3>2
  <2>3. buffer' \in [Cells -> Contents]
    BY <1>3, <2>1
  <2> QED BY <1>4, <2>1, <2>2, <2>3 DEF SessionTypeOK
<1>5. CASE ~MoreThanTheLine
  <2>1. /\ buffer' = Emptied /\ bufferSize' = 0 /\ nl' = 0
        /\ overflow' = FALSE /\ owed' = <<>> /\ UNCHANGED <<open, size, hungUp, wire, ahead>>
    BY <1>5 DEF NextLine
  <2>2. nl' \in 0..bufferSize' /\ bufferSize' \in 0..BufferSize /\ buffer' \in [Cells -> Contents]
    BY <1>1, <2>1, EmptiedType
  <2> QED BY <2>1, <2>2 DEF SessionTypeOK
<1> QED BY <1>4, <1>5

LEMMA ServeLineStep ==
  ASSUME SessionInvariant, ServeLine
  PROVE  SessionInvariant'
<1> PICK c \in Outcomes(Asked), dies \in BOOLEAN :
      /\ dies => Overruns(c) \/ MayDie(c)
      /\ call' = c
      /\ services' = IF dies THEN NoServices ELSE ServicesAfter(c)
      /\ daemon' = IF dies THEN "crashed" ELSE daemon
      /\ IF dies \/ c = Ends THEN Close ELSE NextLine(Answered(c))
  BY DEF ServeLine
<1>1. TelnetTypeOK /\ DaemonTypeOK /\ SessionTypeOK /\ nl # 0 /\ open /\ daemon = "running"
  BY DEF SessionInvariant, TelnetTypeOK, ServeLine
<1>2. call' = c /\ IsCall(c)
  BY AskedIsCall
<1>3. ahead = 0 => ~MoreThanTheLine /\ ~MovesTooMuch /\ wire = <<>>
  <2>1. bufferSize \in Nat
    BY <1>1, EmptiedType DEF SessionTypeOK
  <2> QED BY <1>1, <2>1 DEF SessionInvariant, MoreThanTheLine, MovesTooMuch
<1>4. CASE dies
  <2>1. services' = NoServices /\ daemon' = "crashed" /\ Close
    BY <1>4
  <2>2. DaemonTypeOK'
    BY <1>2, <2>1, ServicesNone DEF DaemonTypeOK, IsCall
  <2>3. SessionTypeOK' /\ open' = FALSE /\ nl' = 0 /\ ahead' = ahead
    BY <1>1, <2>1, CloseType
  <2>4. OnlyHasteKills'
    <3>1. ahead = 0 => c = Undefined \/ hungUp \/ c[1] \in KernelCalls
      BY <1>3, <1>4 DEF Overruns, MayDie
    <3>2. ahead \in Nat /\ hungUp' = hungUp
      BY <1>1, <2>1, SessionAssumption DEF SessionTypeOK, Close
    <3> QED BY <1>2, <2>3, <3>1, <3>2 DEF OnlyHasteKills
  <2> QED BY <2>2, <2>3, <2>4 DEF SessionInvariant, TelnetTypeOK, LineStaysWhole
<1>5. CASE ~dies
  <2>1. services' = ServicesAfter(c) /\ daemon' = daemon
    BY <1>5
  <2>2. DaemonTypeOK'
    <3>1. /\ DOMAIN services' \subseteq Keys
          /\ \A k \in DOMAIN services' : services'[k] \in Int
      BY <1>1, <1>2, <2>1, ServicesStep
    <3>2. call'[1] \in Methods \/ call' \in {Refused, Ends, Undefined}
      BY <1>2 DEF IsCall
    <3>3. daemon' \in {"running", "stopped", "crashed"}
      BY <1>1, <2>1
    <3> QED BY <3>1, <3>2, <3>3 DEF DaemonTypeOK
  <2>3. OnlyHasteKills'
    BY <1>1, <2>1 DEF OnlyHasteKills
  <2>4. CASE c = Ends
    <3>1. Close
      BY <1>5, <2>4
    <3>2. SessionTypeOK' /\ open' = FALSE /\ nl' = 0 /\ ahead' = ahead
      BY <1>1, <3>1, CloseType
    <3> QED BY <2>2, <2>3, <3>2 DEF SessionInvariant, TelnetTypeOK, LineStaysWhole
  <2>5. CASE c # Ends
    <3>1. NextLine(Answered(c))
      BY <1>5, <2>5
    <3>2. SessionTypeOK' /\ (nl' # 0 => MoreThanTheLine)
      BY <1>1, <3>1, NextLineType
    <3>3. overflow' = FALSE /\ open' = open /\ ahead' = ahead /\ owed' = <<>> /\ wire' = wire
      BY <3>1 DEF NextLine
    <3>4. ahead = 0 => nl' = 0 /\ bufferSize' = 0 /\ wire' = <<>>
      BY <1>3, <3>1 DEF NextLine
    <3>5. LineStaysWhole'
      BY <3>2, <3>3, <3>4, NoNewlineInNothing DEF LineStaysWhole, SessionTypeOK
    <3> QED BY <1>1, <2>1, <2>2, <2>3, <3>2, <3>3, <3>4, <3>5 DEF SessionInvariant, TelnetTypeOK
  <2> QED BY <2>4, <2>5
<1> QED BY <1>4, <1>5

-----------------------------------------------------------------------------
(* The theorems *)

LEMMA SessionStep == SessionInvariant /\ [Next]_vars => SessionInvariant'
<1> SUFFICES ASSUME SessionInvariant, [Next]_vars PROVE SessionInvariant'
  OBVIOUS
<1>1. CASE \E line \in Lines : Type(line)
  BY <1>1, TypeStep
<1>2. CASE receiveChunk
  BY <1>2, EndOfFileStep, ChunkStep DEF receiveChunk
<1>3. CASE UNCHANGED vars
  BY <1>3 DEF vars, session, client, SessionInvariant, TelnetTypeOK, DaemonTypeOK,
              SessionTypeOK, LineStaysWhole, OnlyHasteKills
<1> QED
  BY <1>1, <1>2, <1>3, HangUpStep, ConnectionStep, ServeLineStep, StopStep, StartStep DEF Next

LEMMA SessionAlways == Spec => []SessionInvariant
BY InitSession, SessionStep, PTL DEF Spec

\* The fill, the newline and what the last read returned stay within the buffer, and the
\* routers are ones that an operator can name (TelnetSession::receiveChunk).
THEOREM SessionTypes == Spec => []TelnetTypeOK
<1>1. SessionInvariant => TelnetTypeOK
  BY DEF SessionInvariant
<1> QED BY <1>1, SessionAlways, PTL

\* However the network cuts a line and whatever the size of the buffer, an operator who
\* waits for the prompt has his line whole, and nothing of another (receiveChunk).
THEOREM LinesStayWhole == Spec => []LineStaysWhole
<1>1. SessionInvariant => LineStaysWhole
  BY DEF SessionInvariant
<1> QED BY <1>1, SessionAlways, PTL

\* An operator who waits for the prompt and the answer kills the daemon by words that are
\* not there or by a call that the kernel may refuse, and by no other line, whatever lines
\* there are (receiveChunk, onSetRouterCommand, SEND_RESP, Netlink::addInterface).
THEOREM OnlyHasteIsFatal == Spec => []OnlyHasteKills
<1>1. SessionInvariant => OnlyHasteKills
  BY DEF SessionInvariant
<1> QED BY <1>1, SessionAlways, PTL

-----------------------------------------------------------------------------
(* What the usage messages say *)

\* The words name the router k = <<i, Numbers[n], f>>, where no VLAN may stand.
NamesRouter(argv, i, n, f) ==
  /\ argv[3] = i /\ argv[4] = n /\ Len(argv) \in Nat /\ Len(argv) >= 4
  /\ f = "IPv6" => Len(argv) >= 5 /\ argv[5] = "ipv6"
  /\ f = "IPv4" => Len(argv) = 4 \/ argv[5] # "ipv6"

LEMMA RouterNamed ==
  ASSUME NEW argv, NEW i \in Interfaces, NEW n \in RouterIds, NEW f \in Families,
         NamesRouter(argv, i, n, f)
  PROVE  /\ ValidTarget(argv)
         /\ KeyOf(argv, FALSE) = <<i, Numbers[n], f>>
         /\ Atoi(argv[4]) = Numbers[n]
<1>1. Atoi(argv[4]) = Numbers[n] /\ Numbers[n] \in 1..255
  BY DEF NamesRouter, RouterIds, Atoi
<1>2. FamilyNamed(argv, FALSE) = f
  BY DEF NamesRouter, FamilyNamed, NamesVlan, Has, Families
<1> QED BY <1>1, <1>2 DEF ValidTarget, KeyOf, NamesRouter

LEMMA ServiceNamed ==
  ASSUME NEW argv, NEW i \in Interfaces, NEW n \in RouterIds, NEW f \in Families,
         NamesRouter(argv, i, n, f), NEW known, NEW name, NEW value
  PROVE  ForService(argv, known, name, value)
           = IF <<i, Numbers[n], f>> \in known THEN <<name, <<i, Numbers[n], f>>, value>>
                                               ELSE Refused
BY RouterNamed DEF ForService

\* The words of a command for a router.
RouterLine(argv, first, i, n, f) ==
  /\ argv[1] = first /\ argv[2] = "router" /\ argv[3] = i /\ argv[4] = n
  /\ Len(argv) = IF f = "IPv6" THEN 5 ELSE 4
  /\ f = "IPv6" => argv[5] = "ipv6"

LEMMA RouterWords ==
  ASSUME NEW first, NEW i \in Interfaces, NEW n \in RouterIds, NEW f \in Families,
         NEW argv, argv = <<first>> \o (<<"router", i, n>> \o Suffix(<<i, Numbers[n], f>>))
  PROVE  RouterLine(argv, first, i, n, f)
<1>1. CASE f = "IPv4"
  <2>1. argv = <<first>> \o (<<"router", i, n>> \o <<>>)
    BY <1>1 DEF Suffix
  <2>2. /\ Len(<<first>> \o (<<"router", i, n>> \o <<>>)) = 4
        /\ (<<first>> \o (<<"router", i, n>> \o <<>>))[1] = first
        /\ (<<first>> \o (<<"router", i, n>> \o <<>>))[2] = "router"
        /\ (<<first>> \o (<<"router", i, n>> \o <<>>))[3] = i
        /\ (<<first>> \o (<<"router", i, n>> \o <<>>))[4] = n
    OBVIOUS
  <2>3. /\ Len(argv) = 4 /\ argv[1] = first /\ argv[2] = "router" /\ argv[3] = i /\ argv[4] = n
    BY <2>1, <2>2, Zenon
  <2> QED BY <1>1, <2>3 DEF RouterLine
<1>2. CASE f = "IPv6"
  <2>1. argv = <<first>> \o (<<"router", i, n>> \o <<"ipv6">>)
    BY <1>2 DEF Suffix
  <2>2. /\ Len(<<first>> \o (<<"router", i, n>> \o <<"ipv6">>)) = 5
        /\ (<<first>> \o (<<"router", i, n>> \o <<"ipv6">>))[1] = first
        /\ (<<first>> \o (<<"router", i, n>> \o <<"ipv6">>))[2] = "router"
        /\ (<<first>> \o (<<"router", i, n>> \o <<"ipv6">>))[3] = i
        /\ (<<first>> \o (<<"router", i, n>> \o <<"ipv6">>))[4] = n
        /\ (<<first>> \o (<<"router", i, n>> \o <<"ipv6">>))[5] = "ipv6"
    OBVIOUS
  <2>3. /\ Len(argv) = 5 /\ argv[1] = first /\ argv[2] = "router" /\ argv[3] = i /\ argv[4] = n
        /\ argv[5] = "ipv6"
    BY <2>1, <2>2, Zenon
  <2> QED BY <1>2, <2>3 DEF RouterLine
<1> QED BY <1>1, <1>2 DEF Families

LEMMA RouterLineNames ==
  ASSUME NEW first, NEW i \in Interfaces, NEW n \in RouterIds, NEW f \in Families, NEW argv,
         RouterLine(argv, first, i, n, f)
  PROVE  /\ NamesRouter(argv, i, n, f)
         /\ argv[1] = first /\ argv[2] = "router"
         /\ Len(argv) = IF Has(argv, 5, "ipv6") THEN 5 ELSE 4
<1>1. Len(argv) = IF Has(argv, 5, "ipv6") THEN 5 ELSE 4
  BY DEF RouterLine, Has, Families
<1>2. NamesRouter(argv, i, n, f)
  BY DEF RouterLine, NamesRouter, Families
<1> QED BY <1>1, <1>2 DEF RouterLine

LEMMA AddRouterUnderstood ==
  ASSUME NEW known, NEW i \in Interfaces, NEW n \in RouterIds, NEW f \in Families
  PROVE  onCommand(<<"add">> \o (<<"router", i, n>> \o Suffix(<<i, Numbers[n], f>>)), known)
           = <<"getService", <<i, Numbers[n], f>>, 0>>
<1> DEFINE argv == <<"add">> \o (<<"router", i, n>> \o Suffix(<<i, Numbers[n], f>>))
<1>0. RouterLine(argv, "add", i, n, f)
  BY RouterWords
<1> HIDE DEF argv
<1>1. /\ argv[1] = "add" /\ argv[2] = "router" /\ argv[3] = i /\ argv[4] = n
      /\ Len(argv) = IF f = "IPv6" THEN 5 ELSE 4
      /\ f = "IPv6" => argv[5] = "ipv6"
      /\ NamesRouter(argv, i, n, f)
  BY <1>0, RouterLineNames DEF RouterLine
<1>2. ValidTarget(argv) /\ Atoi(argv[4]) = Numbers[n]
  BY <1>1, RouterNamed
<1>3. KeyOf(argv, TRUE) = <<i, Numbers[n], f>> /\ VlanOf(argv, TRUE) = 0
  BY <1>1, <1>2 DEF KeyOf, VlanOf, FamilyNamed, NamesVlan, Has, Families
<1>4. onAddRouterCommand(argv) = <<"getService", <<i, Numbers[n], f>>, 0>>
  BY <1>1, <1>2, <1>3 DEF onAddRouterCommand, Families
<1>5. onCommand(argv, known) = onAddRouterCommand(argv)
  BY <1>1 DEF onCommand, onAddCommand, Has, Families
<1> QED BY <1>4, <1>5 DEF argv

LEMMA AddOnVlanUnderstood ==
  ASSUME NEW known, NEW i \in Interfaces, NEW n \in RouterIds, NEW f \in Families,
         NEW v \in DOMAIN Numbers
  PROVE  onCommand(<<"add", "router", i, n, "vlan", v>> \o Suffix(<<i, Numbers[n], f>>), known)
           = <<"getService", <<i, Numbers[n], f>>, Numbers[v]>>
<1> DEFINE argv == <<"add", "router", i, n, "vlan", v>> \o Suffix(<<i, Numbers[n], f>>)
<1>1. /\ argv[1] = "add" /\ argv[2] = "router" /\ argv[3] = i /\ argv[4] = n
      /\ argv[5] = "vlan" /\ argv[6] = v
      /\ Len(argv) = IF f = "IPv6" THEN 7 ELSE 6
      /\ f = "IPv6" => argv[7] = "ipv6"
  <2>1. CASE f = "IPv4"
    <3>1. argv = <<"add", "router", i, n, "vlan", v>> \o <<>>
      BY <2>1 DEF Suffix
    <3> HIDE DEF argv
    <3>2. Len(argv) = 6
      BY <3>1
    <3>3. /\ argv[1] = "add" /\ argv[2] = "router" /\ argv[3] = i /\ argv[4] = n
          /\ argv[5] = "vlan" /\ argv[6] = v
      BY <3>1
    <3> QED BY <2>1, <3>2, <3>3
  <2>2. CASE f = "IPv6"
    <3>1. argv = <<"add", "router", i, n, "vlan", v>> \o <<"ipv6">>
      BY <2>2 DEF Suffix
    <3> HIDE DEF argv
    <3>2. Len(argv) = 7
      BY <3>1
    <3>3. /\ argv[1] = "add" /\ argv[2] = "router" /\ argv[3] = i /\ argv[4] = n
          /\ argv[5] = "vlan" /\ argv[6] = v /\ argv[7] = "ipv6"
      BY <3>1
    <3> QED BY <2>2, <3>2, <3>3
  <2> QED BY <2>1, <2>2 DEF Families
<1> HIDE DEF argv
<1>2. ValidTarget(argv) /\ Atoi(argv[4]) = Numbers[n] /\ Atoi(argv[6]) = Numbers[v]
  BY <1>1 DEF ValidTarget, Atoi, RouterIds
<1>3. KeyOf(argv, TRUE) = <<i, Numbers[n], f>> /\ VlanOf(argv, TRUE) = Numbers[v]
  BY <1>1, <1>2 DEF KeyOf, VlanOf, FamilyNamed, NamesVlan, Has, Families
<1>4. onAddRouterCommand(argv) = <<"getService", <<i, Numbers[n], f>>, Numbers[v]>>
  BY <1>1, <1>2, <1>3 DEF onAddRouterCommand, Families
<1>5. onCommand(argv, known) = onAddRouterCommand(argv)
  BY <1>1 DEF onCommand, onAddCommand, Has, Families
<1> QED BY <1>4, <1>5 DEF argv

\* What a command that looks up the router is to answer.
Understood(line, known, name, key, value) ==
  onCommand(line, known) = IF key \in known THEN <<name, key, value>> ELSE Refused

LEMMA RouterLookedUp ==
  ASSUME NEW known, NEW i \in Interfaces, NEW n \in RouterIds, NEW f \in Families,
         NEW name, NEW value, NEW argv, NamesRouter(argv, i, n, f),
         onCommand(argv, known) = ForService(argv, known, name, value)
  PROVE  Understood(argv, known, name, <<i, Numbers[n], f>>, value)
BY ServiceNamed DEF Understood

\* remove, enable and disable look up the router that is named.
LEMMA PlainUnderstood ==
  ASSUME NEW known, NEW argv, argv[2] = "router",
         Len(argv) = IF Has(argv, 5, "ipv6") THEN 5 ELSE 4
  PROVE  /\ argv[1] = "remove" =>
              onCommand(argv, known) = ForService(argv, known, "removeService", "")
         /\ argv[1] = "enable" => onCommand(argv, known) = ForService(argv, known, "enable", "")
         /\ argv[1] = "disable" => onCommand(argv, known) = ForService(argv, known, "disable", "")
<1>1. Len(argv) >= 4 /\ ~(Len(argv) < 4) /\ Has(argv, 2, "router")
  BY DEF Has
<1>2. CASE argv[1] = "remove"
  <2>1. onCommand(argv, known) = onRemoveCommand(argv, known)
    BY <1>2 DEF onCommand
  <2>2. onRemoveCommand(argv, known) = onRemoveRouterCommand(argv, known)
    BY <1>1 DEF onRemoveCommand, Has
  <2> QED BY <1>2, <2>1, <2>2, Zenon DEF onRemoveRouterCommand
<1>3. CASE argv[1] = "enable"
  <2>1. onCommand(argv, known) = onEnableCommand(argv, known)
    BY <1>3 DEF onCommand
  <2> QED BY <1>1, <1>3, <2>1, Zenon DEF onEnableCommand
<1>4. CASE argv[1] = "disable"
  <2>1. onCommand(argv, known) = onDisableCommand(argv, known)
    BY <1>4 DEF onCommand
  <2> QED BY <1>1, <1>4, <2>1, Zenon DEF onDisableCommand
<1> QED BY <1>2, <1>3, <1>4, Zenon

\* The words of a command that sets the router: w, v and what follows v.
SetLine(argv, i, n, f, w, v, m) ==
  /\ argv[1] = "set" /\ argv[2] = "router" /\ argv[3] = i /\ argv[4] = n
  /\ f = "IPv6" => argv[5] = "ipv6" /\ argv[6] = w /\ argv[7] = v /\ Len(argv) = 5 + m
  /\ f = "IPv4" => argv[5] = w /\ argv[6] = v /\ Len(argv) = 4 + m

LEMMA TwoWords ==
  ASSUME NEW i \in Interfaces, NEW n \in RouterIds, NEW f \in Families, NEW w, NEW v,
         NEW argv,
         argv = <<"set">> \o (<<"router", i, n>> \o Suffix(<<i, Numbers[n], f>>)) \o <<w, v>>
  PROVE  SetLine(argv, i, n, f, w, v, 2)
<1>1. CASE f = "IPv4"
  <2>1. argv = <<"set">> \o (<<"router", i, n>> \o <<>>) \o <<w, v>>
    BY <1>1 DEF Suffix
  <2>2. /\ Len(<<"set">> \o (<<"router", i, n>> \o <<>>) \o <<w, v>>) = 6
        /\ (<<"set">> \o (<<"router", i, n>> \o <<>>) \o <<w, v>>)[1] = "set"
        /\ (<<"set">> \o (<<"router", i, n>> \o <<>>) \o <<w, v>>)[2] = "router"
        /\ (<<"set">> \o (<<"router", i, n>> \o <<>>) \o <<w, v>>)[3] = i
        /\ (<<"set">> \o (<<"router", i, n>> \o <<>>) \o <<w, v>>)[4] = n
        /\ (<<"set">> \o (<<"router", i, n>> \o <<>>) \o <<w, v>>)[5] = w
        /\ (<<"set">> \o (<<"router", i, n>> \o <<>>) \o <<w, v>>)[6] = v
    OBVIOUS
  <2>3. /\ Len(argv) = 6 /\ argv[1] = "set" /\ argv[2] = "router" /\ argv[3] = i /\ argv[4] = n
        /\ argv[5] = w /\ argv[6] = v
    BY <2>1, <2>2, Zenon
  <2> QED BY <1>1, <2>3 DEF SetLine
<1>2. CASE f = "IPv6"
  <2>1. argv = <<"set">> \o (<<"router", i, n>> \o <<"ipv6">>) \o <<w, v>>
    BY <1>2 DEF Suffix
  <2>2. /\ Len(<<"set">> \o (<<"router", i, n>> \o <<"ipv6">>) \o <<w, v>>) = 7
        /\ (<<"set">> \o (<<"router", i, n>> \o <<"ipv6">>) \o <<w, v>>)[1] = "set"
        /\ (<<"set">> \o (<<"router", i, n>> \o <<"ipv6">>) \o <<w, v>>)[2] = "router"
        /\ (<<"set">> \o (<<"router", i, n>> \o <<"ipv6">>) \o <<w, v>>)[3] = i
        /\ (<<"set">> \o (<<"router", i, n>> \o <<"ipv6">>) \o <<w, v>>)[4] = n
        /\ (<<"set">> \o (<<"router", i, n>> \o <<"ipv6">>) \o <<w, v>>)[5] = "ipv6"
        /\ (<<"set">> \o (<<"router", i, n>> \o <<"ipv6">>) \o <<w, v>>)[6] = w
        /\ (<<"set">> \o (<<"router", i, n>> \o <<"ipv6">>) \o <<w, v>>)[7] = v
    OBVIOUS
  <2>3. /\ Len(argv) = 7 /\ argv[1] = "set" /\ argv[2] = "router" /\ argv[3] = i /\ argv[4] = n
        /\ argv[5] = "ipv6" /\ argv[6] = w /\ argv[7] = v
    BY <2>1, <2>2, Zenon
  <2> QED BY <1>2, <2>3 DEF SetLine
<1> QED BY <1>1, <1>2 DEF Families

\* The setter is looked for at w, which is where the words for the router end.
ReachesSetter(argv, known, key, w, v, m) ==
  /\ onCommand(argv, known)
       = IF key \in known THEN SettingCall(argv, key, OffsetOf(key)) ELSE Refused
  /\ argv[OffsetOf(key)] = w /\ Word(argv, OffsetOf(key) + 1) = v
  /\ OffsetOf(key) \in Nat /\ Len(argv) = OffsetOf(key) + m - 1

LEMMA SetReachesSetter ==
  ASSUME NEW known, NEW i \in Interfaces, NEW n \in RouterIds, NEW f \in Families, NEW w, NEW v,
         w # "ipv6", NEW m \in {2, 3}, NEW argv, SetLine(argv, i, n, f, w, v, m)
  PROVE  ReachesSetter(argv, known, <<i, Numbers[n], f>>, w, v, m)
<1> DEFINE key == <<i, Numbers[n], f>>
<1>1. /\ OffsetOf(key) = IF f = "IPv6" THEN 6 ELSE 5
      /\ OffsetOf(key) \in Nat /\ Len(argv) = OffsetOf(key) + m - 1
      /\ argv[OffsetOf(key)] = w
      /\ argv[OffsetOf(key) + 1] = v
      /\ Len(argv) >= OffsetOf(key) + 1
  BY DEF OffsetOf, SetLine, Families
<1>2. Word(argv, OffsetOf(key) + 1) = v
  BY <1>1, Zenon DEF Word
<1>3. NamesRouter(argv, i, n, f)
  BY DEF SetLine, NamesRouter, Families
<1>4. ValidTarget(argv) /\ KeyOf(argv, FALSE) = key
  BY <1>3, RouterNamed
<1>5. onCommand(argv, known) = onSetRouterCommand(argv, known)
  BY <1>1 DEF onCommand, onSetCommand, Has, SetLine
<1>6. ~(Len(argv) < 4) /\ Len(argv) >= OffsetOf(key)
  BY <1>1
<1> HIDE DEF key
<1>7. onSetRouterCommand(argv, known)
        = IF key \in known THEN SettingCall(argv, key, OffsetOf(key)) ELSE Refused
  BY <1>4, <1>6 DEF onSetRouterCommand
<1> QED BY <1>1, <1>2, <1>5, <1>7 DEF ReachesSetter, key

\* The same with a third word, which is all that SubSeq leaves of the line.
CommandLine(argv, i, n, f, w, v, x) ==
  /\ SetLine(argv, i, n, f, w, v, 3)
  /\ argv[Len(argv)] = x
  /\ \E S : argv \in Seq(S)

LEMMA ThreeWords ==
  ASSUME NEW i \in Interfaces, NEW n \in RouterIds, NEW f \in Families, NEW w, NEW v, NEW x,
         NEW argv,
         argv = <<"set">> \o (<<"router", i, n>> \o Suffix(<<i, Numbers[n], f>>)) \o <<w, v, x>>
  PROVE  CommandLine(argv, i, n, f, w, v, x)
<1> DEFINE S == {"set", "router", "ipv6"} \cup {i, n} \cup {w, v, x}
<1>0. "set" \in S /\ "router" \in S /\ "ipv6" \in S /\ i \in S /\ n \in S /\ w \in S /\ v \in S /\ x \in S
  BY Zenon
<1> HIDE DEF S
<1>1. CASE f = "IPv4"
  <2>1. argv = <<"set">> \o (<<"router", i, n>> \o <<>>) \o <<w, v, x>>
    BY <1>1 DEF Suffix
  <2>2. /\ Len(<<"set">> \o (<<"router", i, n>> \o <<>>) \o <<w, v, x>>) = 7
        /\ (<<"set">> \o (<<"router", i, n>> \o <<>>) \o <<w, v, x>>)[1] = "set"
        /\ (<<"set">> \o (<<"router", i, n>> \o <<>>) \o <<w, v, x>>)[2] = "router"
        /\ (<<"set">> \o (<<"router", i, n>> \o <<>>) \o <<w, v, x>>)[3] = i
        /\ (<<"set">> \o (<<"router", i, n>> \o <<>>) \o <<w, v, x>>)[4] = n
        /\ (<<"set">> \o (<<"router", i, n>> \o <<>>) \o <<w, v, x>>)[5] = w
        /\ (<<"set">> \o (<<"router", i, n>> \o <<>>) \o <<w, v, x>>)[6] = v
        /\ (<<"set">> \o (<<"router", i, n>> \o <<>>) \o <<w, v, x>>)[7] = x
    OBVIOUS
  <2>3. /\ Len(argv) = 7 /\ argv[1] = "set" /\ argv[2] = "router" /\ argv[3] = i /\ argv[4] = n
        /\ argv[5] = w /\ argv[6] = v /\ argv[7] = x
    BY <2>1, <2>2, Zenon
  <2>4. <<"set">> \o (<<"router", i, n>> \o <<>>) \o <<w, v, x>> \in Seq(S)
    BY <1>0
  <2>5. SetLine(argv, i, n, f, w, v, 3) /\ argv[Len(argv)] = x
    BY <1>1, <2>3 DEF SetLine
  <2>6. argv \in Seq(S)
    BY <2>1, <2>4, Zenon
  <2> QED BY <2>5, <2>6, Zenon DEF CommandLine
<1>2. CASE f = "IPv6"
  <2>1. argv = <<"set">> \o (<<"router", i, n>> \o <<"ipv6">>) \o <<w, v, x>>
    BY <1>2 DEF Suffix
  <2>2. /\ Len(<<"set">> \o (<<"router", i, n>> \o <<"ipv6">>) \o <<w, v, x>>) = 8
        /\ (<<"set">> \o (<<"router", i, n>> \o <<"ipv6">>) \o <<w, v, x>>)[1] = "set"
        /\ (<<"set">> \o (<<"router", i, n>> \o <<"ipv6">>) \o <<w, v, x>>)[2] = "router"
        /\ (<<"set">> \o (<<"router", i, n>> \o <<"ipv6">>) \o <<w, v, x>>)[3] = i
        /\ (<<"set">> \o (<<"router", i, n>> \o <<"ipv6">>) \o <<w, v, x>>)[4] = n
        /\ (<<"set">> \o (<<"router", i, n>> \o <<"ipv6">>) \o <<w, v, x>>)[5] = "ipv6"
        /\ (<<"set">> \o (<<"router", i, n>> \o <<"ipv6">>) \o <<w, v, x>>)[6] = w
        /\ (<<"set">> \o (<<"router", i, n>> \o <<"ipv6">>) \o <<w, v, x>>)[7] = v
        /\ (<<"set">> \o (<<"router", i, n>> \o <<"ipv6">>) \o <<w, v, x>>)[8] = x
    OBVIOUS
  <2>3. /\ Len(argv) = 8 /\ argv[1] = "set" /\ argv[2] = "router" /\ argv[3] = i /\ argv[4] = n
        /\ argv[5] = "ipv6" /\ argv[6] = w /\ argv[7] = v /\ argv[8] = x
    BY <2>1, <2>2, Zenon
  <2>4. <<"set">> \o (<<"router", i, n>> \o <<"ipv6">>) \o <<w, v, x>> \in Seq(S)
    BY <1>0
  <2>5. SetLine(argv, i, n, f, w, v, 3) /\ argv[Len(argv)] = x
    BY <1>2, <2>3 DEF SetLine
  <2>6. argv \in Seq(S)
    BY <2>1, <2>4, Zenon
  <2> QED BY <2>5, <2>6, Zenon DEF CommandLine
<1> QED BY <1>1, <1>2 DEF Families

LEMMA LastWord ==
  ASSUME NEW S, NEW argv \in Seq(S), NEW k \in 1..Len(argv)
  PROVE  SubSeq(argv, k, k) = <<argv[k]>>
<1> DEFINE s == SubSeq(argv, k, k)
           t == <<argv[k]>>
<1>1. s \in Seq(S) /\ Len(s) = 1 /\ s[1] = argv[k]
  BY SubSeqProperties
<1>2. t \in Seq(S) /\ Len(t) = 1 /\ t[1] = argv[k]
  BY ElementOfSeq
<1> HIDE DEF s, t
<1>3. \A j \in 1..Len(s) : s[j] = t[j]
  BY <1>1, <1>2
<1>4. s = t
  BY <1>1, <1>2, <1>3, SeqEqual
<1> QED BY <1>4 DEF s, t

\* What a word sets is the word after it, or all that comes after "command".
LEMMA SettingUnderstood ==
  ASSUME NEW argv, NEW key, NEW o, NEW v, Word(argv, o + 1) = v
  PROVE  /\ argv[o] = "primary" /\ ParsedFamily(v) = key[3] =>
              SettingCall(argv, key, o) = <<"setPrimaryIpAddress", key, v>>
         /\ argv[o] = "accept" /\ v \in TrueValues \cup FalseValues =>
              SettingCall(argv, key, o) = <<"setAcceptMode", key, IsTrue(v)>>
         /\ argv[o] = "preempt" /\ v \in TrueValues \cup FalseValues =>
              SettingCall(argv, key, o) = <<"setPreemptMode", key, IsTrue(v)>>
         /\ argv[o] = "master" /\ v = "command" =>
              SettingCall(argv, key, o) = <<"setMasterCommand", key, SubSeq(argv, o + 2, Len(argv))>>
         /\ argv[o] = "backup" /\ v = "command" =>
              SettingCall(argv, key, o) = <<"setBackupCommand", key, SubSeq(argv, o + 2, Len(argv))>>
<1>1. argv[o] = "primary" /\ ParsedFamily(v) = key[3] =>
        SettingCall(argv, key, o) = <<"setPrimaryIpAddress", key, v>>
  BY DEF SettingCall
<1>2. argv[o] = "accept" /\ v \in TrueValues \cup FalseValues =>
        SettingCall(argv, key, o) = <<"setAcceptMode", key, IsTrue(v)>>
  BY DEF SettingCall
<1>3. argv[o] = "preempt" /\ v \in TrueValues \cup FalseValues =>
        SettingCall(argv, key, o) = <<"setPreemptMode", key, IsTrue(v)>>
  BY DEF SettingCall
<1>4. argv[o] = "master" /\ v = "command" =>
        SettingCall(argv, key, o) = <<"setMasterCommand", key, SubSeq(argv, o + 2, Len(argv))>>
  BY DEF SettingCall
<1>5. argv[o] = "backup" /\ v = "command" =>
        SettingCall(argv, key, o) = <<"setBackupCommand", key, SubSeq(argv, o + 2, Len(argv))>>
  BY DEF SettingCall
<1> QED BY <1>1, <1>2, <1>3, <1>4, <1>5, Zenon

LEMMA PrioritySetting ==
  ASSUME NEW key, NEW w, NEW p, Atoi(w) = p, Atoi(w) \in 1..255
  PROVE  \A argv, o : argv[o] = "priority" /\ Word(argv, o + 1) = w =>
           SettingCall(argv, key, o) = <<"setPriority", key, p>>
BY DEF SettingCall

LEMMA IntervalSetting ==
  ASSUME NEW key, NEW w, NEW p, Atoi(w) = p, ValidInterval(Atoi(w))
  PROVE  \A argv, o : argv[o] = "interval" /\ Word(argv, o + 1) = w =>
           SettingCall(argv, key, o) = <<"setAdvertisementInterval", key, p \div 10>>
BY DEF SettingCall

\* A set command with two words, and the two with three.
LEMMA TwoWordSetting ==
  ASSUME NEW known, NEW i \in Interfaces, NEW n \in RouterIds, NEW f \in Families,
         NEW w, NEW v, w # "ipv6", NEW name, NEW value, NEW argv,
         SetLine(argv, i, n, f, w, v, 2),
         \A line, o : line[o] = w /\ Word(line, o + 1) = v =>
           SettingCall(line, <<i, Numbers[n], f>>, o) = <<name, <<i, Numbers[n], f>>, value>>
  PROVE  Understood(argv, known, name, <<i, Numbers[n], f>>, value)
<1> DEFINE key == <<i, Numbers[n], f>>
<1>0. ReachesSetter(argv, known, key, w, v, 2)
  BY SetReachesSetter
<1>1. /\ onCommand(argv, known)
            = IF key \in known THEN SettingCall(argv, key, OffsetOf(key)) ELSE Refused
      /\ argv[OffsetOf(key)] = w /\ Word(argv, OffsetOf(key) + 1) = v
  BY <1>0 DEF ReachesSetter
<1>2. SettingCall(argv, key, OffsetOf(key)) = <<name, key, value>>
  BY <1>1
<1> QED BY <1>1, <1>2 DEF Understood

LEMMA CommandSetting ==
  ASSUME NEW known, NEW i \in Interfaces, NEW n \in RouterIds, NEW f \in Families,
         NEW w, NEW v, w # "ipv6", NEW name, NEW x, NEW argv,
         CommandLine(argv, i, n, f, w, v, x),
         \A line, o : line[o] = w /\ Word(line, o + 1) = v =>
           SettingCall(line, <<i, Numbers[n], f>>, o)
             = <<name, <<i, Numbers[n], f>>, SubSeq(line, o + 2, Len(line))>>
  PROVE  Understood(argv, known, name, <<i, Numbers[n], f>>, <<x>>)
<1> DEFINE key == <<i, Numbers[n], f>>
           o   == OffsetOf(key)
<1>0. ReachesSetter(argv, known, key, w, v, 3)
  BY SetReachesSetter DEF CommandLine
<1>1. /\ onCommand(argv, known)
            = IF key \in known THEN SettingCall(argv, key, OffsetOf(key)) ELSE Refused
      /\ argv[OffsetOf(key)] = w /\ Word(argv, OffsetOf(key) + 1) = v
      /\ OffsetOf(key) \in Nat /\ Len(argv) = OffsetOf(key) + 2
  BY <1>0 DEF ReachesSetter
<1>2. PICK S : argv \in Seq(S)
  BY DEF CommandLine
<1>3. Len(argv) \in 1..Len(argv) /\ o + 2 = Len(argv)
  BY <1>1
<1>4. SubSeq(argv, Len(argv), Len(argv)) = <<x>>
  BY <1>2, <1>3, LastWord DEF CommandLine
<1>5. SubSeq(argv, o + 2, Len(argv)) = <<x>>
  BY <1>3, <1>4
<1>6. SettingCall(argv, key, o) = <<name, key, SubSeq(argv, o + 2, Len(argv))>>
  BY <1>1
<1>7. SettingCall(argv, key, o) = <<name, key, <<x>>>>
  BY <1>5, <1>6
<1> QED BY <1>1, <1>7 DEF Understood

\* Every setting of the manual.
LEMMA SettingsUnderstood ==
  ASSUME NEW known, NEW i \in Interfaces, NEW n \in RouterIds, NEW f \in Families,
         NEW s \in Settings(f), NEW argv,
         argv = <<"set">> \o (<<"router", i, n>> \o Suffix(<<i, Numbers[n], f>>)) \o s[1]
  PROVE  Understood(argv, known, s[2], <<i, Numbers[n], f>>, s[3])
<1> DEFINE key == <<i, Numbers[n], f>>
<1>1. ASSUME NEW a \in DOMAIN FamilyOf, FamilyOf[a] = f, s = <<<<"primary", a>>, "setPrimaryIpAddress", a>>
      PROVE  Understood(argv, known, "setPrimaryIpAddress", key, a)
  <2>1. SetLine(argv, i, n, f, "primary", a, 2)
    BY <1>1, TwoWords
  <2>2. ParsedFamily(a) = key[3]
    BY <1>1 DEF ParsedFamily
  <2> QED BY <2>1, <2>2, SettingUnderstood, TwoWordSetting
<1>2. ASSUME NEW w \in RouterIds, s = <<<<"priority", w>>, "setPriority", Numbers[w]>>
      PROVE  Understood(argv, known, "setPriority", key, Numbers[w])
  <2>1. SetLine(argv, i, n, f, "priority", w, 2)
    BY <1>2, TwoWords
  <2>2. Atoi(w) = Numbers[w] /\ Atoi(w) \in 1..255
    BY DEF Atoi, RouterIds
  <2>3. \A words, o : words[o] = "priority" /\ Word(words, o + 1) = w =>
          SettingCall(words, key, o) = <<"setPriority", key, Numbers[w]>>
    BY <2>2, PrioritySetting
  <2> QED BY <2>1, <2>3, TwoWordSetting
<1>3. ASSUME NEW b \in TrueValues \cup FalseValues, s = <<<<"accept", b>>, "setAcceptMode", IsTrue(b)>>
      PROVE  Understood(argv, known, "setAcceptMode", key, IsTrue(b))
  <2>1. SetLine(argv, i, n, f, "accept", b, 2)
    BY <1>3, TwoWords
  <2> QED BY <2>1, SettingUnderstood, TwoWordSetting
<1>4. ASSUME NEW b \in TrueValues \cup FalseValues, s = <<<<"preempt", b>>, "setPreemptMode", IsTrue(b)>>
      PROVE  Understood(argv, known, "setPreemptMode", key, IsTrue(b))
  <2>1. SetLine(argv, i, n, f, "preempt", b, 2)
    BY <1>4, TwoWords
  <2> QED BY <2>1, SettingUnderstood, TwoWordSetting
<1>5. ASSUME NEW w \in RouterIds, s = <<<<"master", "command", w>>, "setMasterCommand", <<w>>>>
      PROVE  Understood(argv, known, "setMasterCommand", key, <<w>>)
  <2>1. CommandLine(argv, i, n, f, "master", "command", w)
    BY <1>5, ThreeWords
  <2>2. \A words, o : words[o] = "master" /\ Word(words, o + 1) = "command" =>
          SettingCall(words, key, o) = <<"setMasterCommand", key, SubSeq(words, o + 2, Len(words))>>
    BY SettingUnderstood
  <2> QED BY <2>1, <2>2, CommandSetting
<1>6. ASSUME NEW w \in RouterIds, s = <<<<"backup", "command", w>>, "setBackupCommand", <<w>>>>
      PROVE  Understood(argv, known, "setBackupCommand", key, <<w>>)
  <2>1. CommandLine(argv, i, n, f, "backup", "command", w)
    BY <1>6, ThreeWords
  <2>2. \A words, o : words[o] = "backup" /\ Word(words, o + 1) = "command" =>
          SettingCall(words, key, o) = <<"setBackupCommand", key, SubSeq(words, o + 2, Len(words))>>
    BY SettingUnderstood
  <2> QED BY <2>1, <2>2, CommandSetting
<1>7. ASSUME NEW w \in DOMAIN Numbers, ValidInterval(Numbers[w]),
              s = <<<<"interval", w>>, "setAdvertisementInterval", Numbers[w] \div 10>>
       PROVE  Understood(argv, known, "setAdvertisementInterval", key, Numbers[w] \div 10)
  <2>1. SetLine(argv, i, n, f, "interval", w, 2)
    BY <1>7, TwoWords
  <2>2. Atoi(w) = Numbers[w] /\ ValidInterval(Atoi(w))
    BY <1>7 DEF Atoi
  <2>3. \A words, o : words[o] = "interval" /\ Word(words, o + 1) = w =>
          SettingCall(words, key, o) = <<"setAdvertisementInterval", key, Numbers[w] \div 10>>
    BY <2>2, IntervalSetting
  <2> QED BY <2>1, <2>3, TwoWordSetting
<1>8. \/ \E a \in DOMAIN FamilyOf :
           FamilyOf[a] = f /\ s = <<<<"primary", a>>, "setPrimaryIpAddress", a>>
      \/ \E w \in RouterIds : s = <<<<"priority", w>>, "setPriority", Numbers[w]>>
      \/ \E w \in DOMAIN Numbers :
           /\ ValidInterval(Numbers[w])
           /\ s = <<<<"interval", w>>, "setAdvertisementInterval", Numbers[w] \div 10>>
      \/ \E b \in TrueValues \cup FalseValues : s = <<<<"accept", b>>, "setAcceptMode", IsTrue(b)>>
      \/ \E b \in TrueValues \cup FalseValues : s = <<<<"preempt", b>>, "setPreemptMode", IsTrue(b)>>
      \/ \E w \in RouterIds : s = <<<<"master", "command", w>>, "setMasterCommand", <<w>>>>
      \/ \E w \in RouterIds : s = <<<<"backup", "command", w>>, "setBackupCommand", <<w>>>>
  BY Zenon DEF Settings
<1>9. CASE \E a \in DOMAIN FamilyOf :
             FamilyOf[a] = f /\ s = <<<<"primary", a>>, "setPrimaryIpAddress", a>>
  <2>1. PICK a \in DOMAIN FamilyOf : FamilyOf[a] = f /\ s = <<<<"primary", a>>, "setPrimaryIpAddress", a>>
    BY <1>9
  <2>2. s[2] = "setPrimaryIpAddress" /\ s[3] = a
    BY <2>1
  <2>3. Understood(argv, known, "setPrimaryIpAddress", key, a)
    BY <1>1, <2>1
  <2> QED BY <2>2, <2>3
<1>10. CASE \E w \in RouterIds : s = <<<<"priority", w>>, "setPriority", Numbers[w]>>
  <2>1. PICK w \in RouterIds : s = <<<<"priority", w>>, "setPriority", Numbers[w]>>
    BY <1>10
  <2>2. s[2] = "setPriority" /\ s[3] = Numbers[w]
    BY <2>1
  <2>3. Understood(argv, known, "setPriority", key, Numbers[w])
    BY <1>2, <2>1
  <2> QED BY <2>2, <2>3
<1>11. CASE \E b \in TrueValues \cup FalseValues : s = <<<<"accept", b>>, "setAcceptMode", IsTrue(b)>>
  <2>1. PICK b \in TrueValues \cup FalseValues : s = <<<<"accept", b>>, "setAcceptMode", IsTrue(b)>>
    BY <1>11
  <2>2. s[2] = "setAcceptMode" /\ s[3] = IsTrue(b)
    BY <2>1
  <2>3. Understood(argv, known, "setAcceptMode", key, IsTrue(b))
    BY <1>3, <2>1
  <2> QED BY <2>2, <2>3
<1>12. CASE \E b \in TrueValues \cup FalseValues : s = <<<<"preempt", b>>, "setPreemptMode", IsTrue(b)>>
  <2>1. PICK b \in TrueValues \cup FalseValues : s = <<<<"preempt", b>>, "setPreemptMode", IsTrue(b)>>
    BY <1>12
  <2>2. s[2] = "setPreemptMode" /\ s[3] = IsTrue(b)
    BY <2>1
  <2>3. Understood(argv, known, "setPreemptMode", key, IsTrue(b))
    BY <1>4, <2>1
  <2> QED BY <2>2, <2>3
<1>13. CASE \E w \in RouterIds : s = <<<<"master", "command", w>>, "setMasterCommand", <<w>>>>
  <2>1. PICK w \in RouterIds : s = <<<<"master", "command", w>>, "setMasterCommand", <<w>>>>
    BY <1>13
  <2>2. s[2] = "setMasterCommand" /\ s[3] = <<w>>
    BY <2>1
  <2>3. Understood(argv, known, "setMasterCommand", key, <<w>>)
    BY <1>5, <2>1
  <2> QED BY <2>2, <2>3
<1>14. CASE \E w \in RouterIds : s = <<<<"backup", "command", w>>, "setBackupCommand", <<w>>>>
  <2>1. PICK w \in RouterIds : s = <<<<"backup", "command", w>>, "setBackupCommand", <<w>>>>
    BY <1>14
  <2>2. s[2] = "setBackupCommand" /\ s[3] = <<w>>
    BY <2>1
  <2>3. Understood(argv, known, "setBackupCommand", key, <<w>>)
    BY <1>6, <2>1
  <2> QED BY <2>2, <2>3
<1>15. CASE \E w \in DOMAIN Numbers :
              /\ ValidInterval(Numbers[w])
              /\ s = <<<<"interval", w>>, "setAdvertisementInterval", Numbers[w] \div 10>>
  <2>1. PICK w \in DOMAIN Numbers :
               /\ ValidInterval(Numbers[w])
               /\ s = <<<<"interval", w>>, "setAdvertisementInterval", Numbers[w] \div 10>>
    BY <1>15
  <2>2. s[2] = "setAdvertisementInterval" /\ s[3] = Numbers[w] \div 10
    BY <2>1
  <2>3. Understood(argv, known, "setAdvertisementInterval", key, Numbers[w] \div 10)
    BY <1>7, <2>1
  <2> QED BY <2>2, <2>3
<1> QED BY <1>8, <1>9, <1>10, <1>11, <1>12, <1>13, <1>14, <1>15, Zenon

-----------------------------------------------------------------------------
\* The words of a command for an address.
AddressLine(argv, first, i, n, f, a) ==
  /\ argv[1] = first /\ argv[2] = "address" /\ argv[3] = i /\ argv[4] = n
  /\ f = "IPv6" => argv[5] = "ipv6" /\ argv[6] = a /\ Len(argv) = 6
  /\ f = "IPv4" => argv[5] = a /\ Len(argv) = 5

LEMMA AddressWords ==
  ASSUME NEW first, NEW i \in Interfaces, NEW n \in RouterIds, NEW f \in Families, NEW a,
         NEW argv, argv = <<first, "address", i, n>> \o Suffix(<<i, Numbers[n], f>>) \o <<a>>
  PROVE  AddressLine(argv, first, i, n, f, a)
<1>1. CASE f = "IPv4"
  <2>1. argv = <<first, "address", i, n>> \o <<>> \o <<a>>
    BY <1>1 DEF Suffix
  <2>2. /\ Len(<<first, "address", i, n>> \o <<>> \o <<a>>) = 5
        /\ (<<first, "address", i, n>> \o <<>> \o <<a>>)[1] = first
        /\ (<<first, "address", i, n>> \o <<>> \o <<a>>)[2] = "address"
        /\ (<<first, "address", i, n>> \o <<>> \o <<a>>)[3] = i
        /\ (<<first, "address", i, n>> \o <<>> \o <<a>>)[4] = n
        /\ (<<first, "address", i, n>> \o <<>> \o <<a>>)[5] = a
    OBVIOUS
  <2>3. Len(argv) = 5 /\ argv[1] = first /\ argv[2] = "address" /\ argv[3] = i /\ argv[4] = n /\ argv[5] = a
    BY <2>1, <2>2, Zenon
  <2> QED BY <1>1, <2>3 DEF AddressLine
<1>2. CASE f = "IPv6"
  <2>1. argv = <<first, "address", i, n>> \o <<"ipv6">> \o <<a>>
    BY <1>2 DEF Suffix
  <2>2. /\ Len(<<first, "address", i, n>> \o <<"ipv6">> \o <<a>>) = 6
        /\ (<<first, "address", i, n>> \o <<"ipv6">> \o <<a>>)[1] = first
        /\ (<<first, "address", i, n>> \o <<"ipv6">> \o <<a>>)[2] = "address"
        /\ (<<first, "address", i, n>> \o <<"ipv6">> \o <<a>>)[3] = i
        /\ (<<first, "address", i, n>> \o <<"ipv6">> \o <<a>>)[4] = n
        /\ (<<first, "address", i, n>> \o <<"ipv6">> \o <<a>>)[5] = "ipv6"
        /\ (<<first, "address", i, n>> \o <<"ipv6">> \o <<a>>)[6] = a
    OBVIOUS
  <2>3. Len(argv) = 6 /\ argv[1] = first /\ argv[2] = "address" /\ argv[3] = i /\ argv[4] = n /\ argv[5] = "ipv6" /\ argv[6] = a
    BY <2>1, <2>2, Zenon
  <2> QED BY <1>2, <2>3 DEF AddressLine
<1> QED BY <1>1, <1>2 DEF Families

\* The family is not a word of its own for IPv4: no address is "ipv6".
LEMMA SubnetNamed ==
  ASSUME NEW known, NEW i \in Interfaces, NEW n \in RouterIds, NEW f \in Families,
         NEW a \in DOMAIN FamilyOf, FamilyOf[a] = f, NEW first, NEW name, NEW argv,
         AddressLine(argv, first, i, n, f, a),
         onCommand(argv, known) = ForSubnet(argv, known, name)
  PROVE  Understood(argv, known, name, <<i, Numbers[n], f>>, a)
<1>1. a # "ipv6"
  BY CommandAssumption
<1>2. NamesRouter(argv, i, n, f)
  BY <1>1 DEF AddressLine, NamesRouter, Families
<1>3. ParsedFamily(a) = f
  BY DEF ParsedFamily
<1>4. /\ Has(argv, 5, "ipv6") <=> f = "IPv6"
      /\ Len(argv) = (IF f = "IPv6" THEN 6 ELSE 5)
      /\ argv[IF f = "IPv6" THEN 6 ELSE 5] = a
  BY <1>1 DEF Has, AddressLine, Families
<1>5. ForSubnet(argv, known, name) = ForService(argv, known, name, a)
  BY <1>3, <1>4 DEF ForSubnet, Families
<1> QED BY <1>2, <1>5, RouterLookedUp

LEMMA AddressCommands ==
  ASSUME NEW known, NEW argv, argv[2] = "address", Len(argv) \in {5, 6}
  PROVE  /\ argv[1] = "add" =>
              onCommand(argv, known) = ForSubnet(argv, known, "addIpAddress")
         /\ argv[1] = "remove" =>
              onCommand(argv, known) = ForSubnet(argv, known, "removeIpAddress")
<1>1. Has(argv, 2, "address") /\ ~Has(argv, 2, "router")
  BY DEF Has
<1>2. CASE argv[1] = "add"
  <2>1. onCommand(argv, known) = onAddCommand(argv, known)
    BY <1>2 DEF onCommand
  <2>2. onAddCommand(argv, known) = onAddAddressCommand(argv, known)
    BY <1>1 DEF onAddCommand
  <2> QED BY <1>2, <2>1, <2>2, Zenon DEF onAddAddressCommand
<1>3. CASE argv[1] = "remove"
  <2>1. onCommand(argv, known) = onRemoveCommand(argv, known)
    BY <1>3 DEF onCommand
  <2>2. onRemoveCommand(argv, known) = onRemoveAddressCommand(argv, known)
    BY <1>1 DEF onRemoveCommand
  <2> QED BY <1>3, <2>1, <2>2, Zenon DEF onRemoveAddressCommand
<1> QED BY <1>2, <1>3, Zenon

-----------------------------------------------------------------------------
LEMMA Manual == ManualIsUnderstood
<1> SUFFICES ASSUME NEW i \in Interfaces, NEW n \in RouterIds, NEW f \in Families
    PROVE  LET k == <<i, Numbers[n], f>>
               router == <<"router", i, n>> \o Suffix(k)
               Reaches(line, name, value) ==
                 onCommand(line, DOMAIN services)
                   = IF k \in DOMAIN services THEN <<name, k, value>> ELSE Refused
           IN /\ onCommand(<<"add">> \o router, DOMAIN services) = <<"getService", k, 0>>
              /\ \A v \in DOMAIN Numbers :
                   onCommand(<<"add", "router", i, n, "vlan", v>> \o Suffix(k), DOMAIN services)
                     = <<"getService", k, Numbers[v]>>
              /\ Reaches(<<"remove">> \o router, "removeService", "")
              /\ Reaches(<<"enable">> \o router, "enable", "")
              /\ Reaches(<<"disable">> \o router, "disable", "")
              /\ \A s \in Settings(f) : Reaches(<<"set">> \o router \o s[1], s[2], s[3])
              /\ \A a \in {w \in DOMAIN FamilyOf : FamilyOf[w] = f} :
                   /\ Reaches(<<"add", "address", i, n>> \o Suffix(k) \o <<a>>, "addIpAddress", a)
                   /\ Reaches(<<"remove", "address", i, n>> \o Suffix(k) \o <<a>>, "removeIpAddress", a)
  BY DEF ManualIsUnderstood
<1> DEFINE k == <<i, Numbers[n], f>>
           router == <<"router", i, n>> \o Suffix(k)
           known == DOMAIN services
<1>1. onCommand(<<"add">> \o router, known) = <<"getService", k, 0>>
  BY AddRouterUnderstood
<1>2. \A v \in DOMAIN Numbers :
        onCommand(<<"add", "router", i, n, "vlan", v>> \o Suffix(k), known)
          = <<"getService", k, Numbers[v]>>
  BY AddOnVlanUnderstood
<1>3. ASSUME NEW first, NEW name, NEW value, NEW argv, argv = <<first>> \o router,
             argv[1] = first /\ argv[2] = "router"
               /\ Len(argv) = (IF Has(argv, 5, "ipv6") THEN 5 ELSE 4)
               => onCommand(argv, known) = ForService(argv, known, name, value)
      PROVE  Understood(argv, known, name, k, value)
  <2>1. RouterLine(argv, first, i, n, f)
    BY <1>3, RouterWords
  <2>2. NamesRouter(argv, i, n, f)
    BY <2>1, RouterLineNames
  <2>3. argv[1] = first /\ argv[2] = "router"
    BY <2>1 DEF RouterLine
  <2>4. Len(argv) = IF Has(argv, 5, "ipv6") THEN 5 ELSE 4
    BY <2>1, RouterLineNames
  <2> QED BY <1>3, <2>2, <2>3, <2>4, RouterLookedUp
<1>4. Understood(<<"remove">> \o router, known, "removeService", k, "")
  BY <1>3, PlainUnderstood, Zenon
<1>5. Understood(<<"enable">> \o router, known, "enable", k, "")
  BY <1>3, PlainUnderstood, Zenon
<1>6. Understood(<<"disable">> \o router, known, "disable", k, "")
  BY <1>3, PlainUnderstood, Zenon
<1>7. \A s \in Settings(f) : Understood(<<"set">> \o router \o s[1], known, s[2], k, s[3])
  BY SettingsUnderstood
<1>8. ASSUME NEW a \in DOMAIN FamilyOf, FamilyOf[a] = f
      PROVE  /\ Understood(<<"add", "address", i, n>> \o Suffix(k) \o <<a>>, known, "addIpAddress", k, a)
             /\ Understood(<<"remove", "address", i, n>> \o Suffix(k) \o <<a>>, known, "removeIpAddress", k, a)
  <2>1. ASSUME NEW first, NEW name, NEW argv,
               argv = <<first, "address", i, n>> \o Suffix(k) \o <<a>>,
               argv[1] = first /\ argv[2] = "address" /\ Len(argv) \in {5, 6}
                 => onCommand(argv, known) = ForSubnet(argv, known, name)
        PROVE  Understood(argv, known, name, k, a)
    <3>1. AddressLine(argv, first, i, n, f, a)
      BY <2>1, AddressWords
    <3>2. argv[1] = first /\ argv[2] = "address" /\ Len(argv) \in {5, 6}
      BY <3>1 DEF AddressLine, Families
    <3> QED BY <1>8, <2>1, <3>1, <3>2, SubnetNamed
  <2>2. Understood(<<"add", "address", i, n>> \o Suffix(k) \o <<a>>, known, "addIpAddress", k, a)
    BY <2>1, AddressCommands, Zenon
  <2>3. Understood(<<"remove", "address", i, n>> \o Suffix(k) \o <<a>>, known, "removeIpAddress", k, a)
    BY <2>1, AddressCommands, Zenon
  <2> QED BY <2>2, <2>3
<1> HIDE DEF k
<1> QED BY <1>1, <1>2, <1>4, <1>5, <1>6, <1>7, <1>8, Zenon DEF Understood, k

\* Whatever words name the interfaces, the routers and the addresses: a form in which the
\* usage messages add, remove, set (but "status"), enable or disable is understood as what
\* it says, for the router that it names (onCommand and the handlers that it calls).
THEOREM ManualHolds == Spec => []ManualIsUnderstood
BY Manual, PTL

=============================================================================
