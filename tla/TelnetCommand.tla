---------------------------- MODULE TelnetCommand ----------------------------
(***************************************************************************)
(* What TelnetSession makes of one line, split into words: the call that   *)
(* the words ask for.  A command is a sequence of words; argv[i] of the    *)
(* code is argv[i + 1] here.                                               *)
(*                                                                         *)
(* A call is a tuple of the method's name, the router it is for and an     *)
(* argument.  What is written back is left out.                            *)
(***************************************************************************)
EXTENDS Integers, Sequences, SequencesExt

CONSTANTS
  Interfaces,  \* the words that if_nametoindex knows
  Numbers,     \* what atoi makes of the words that start with a number
  FamilyOf     \* the family of the words that are addresses or subnets

Families == {"IPv4", "IPv6"}

\* atoi returns an integer, and inet_pton does not take the word "ipv6" for an address.
ASSUME CommandAssumption ==
  /\ \A w \in DOMAIN FamilyOf : FamilyOf[w] \in Families
  /\ \A w \in DOMAIN Numbers : Numbers[w] \in Int
  /\ "ipv6" \notin DOMAIN FamilyOf

Atoi(w)         == IF w \in DOMAIN Numbers THEN Numbers[w] ELSE 0
ParsedFamily(w) == IF w \in DOMAIN FamilyOf THEN FamilyOf[w] ELSE "Unspec"

TrueValues  == {"true", "on", "1", "enabled"}
FalseValues == {"false", "off", "0", "disabled"}
IsTrue(w)   == w \in TrueValues

\* Nothing but an answer; the end of the session; a vector read past its end.
Refused   == <<"refused">>
Ends      == <<"exit">>
Undefined == <<"undefined">>

Has(argv, i, word) == Len(argv) >= i /\ argv[i] = word
Word(argv, i)      == IF Len(argv) >= i THEN argv[i] ELSE ""

-----------------------------------------------------------------------------
(* getService *)

NamesVlan(argv, create) == create /\ Len(argv) >= 6 /\ argv[5] = "vlan"

FamilyNamed_FifthWord(argv, create) == IF Has(argv, 5, "ipv6") THEN "IPv6" ELSE "IPv4"

FamilyNamed(argv, create) ==
  IF Has(argv, IF NamesVlan(argv, create) THEN 7 ELSE 5, "ipv6") THEN "IPv6" ELSE "IPv4"

KeyOf(argv, create)  == <<argv[3], Atoi(argv[4]), FamilyNamed(argv, create)>>
VlanOf(argv, create) == IF NamesVlan(argv, create) THEN Atoi(argv[6]) ELSE 0

ValidTarget_OffByOne(argv) == argv[3] \in Interfaces /\ Atoi(argv[4]) \in 1..256

ValidTarget(argv) == argv[3] \in Interfaces /\ Atoi(argv[4]) \in 1..255

\* The call for the router that the command names, if there is one.
ForService(argv, known, name, value) ==
  IF ValidTarget(argv) /\ KeyOf(argv, FALSE) \in known
  THEN <<name, KeyOf(argv, FALSE), value>>
  ELSE Refused

-----------------------------------------------------------------------------
(* The commands *)

onAddRouterCommand(argv) ==
  IF /\ \/ Len(argv) = 4
        \/ Len(argv) = 5 /\ argv[5] = "ipv6"
        \/ Len(argv) = 6 /\ argv[5] = "vlan"
        \/ Len(argv) = 7 /\ argv[5] = "vlan" /\ argv[7] = "ipv6"
     /\ ValidTarget(argv)
  THEN <<"getService", KeyOf(argv, TRUE), VlanOf(argv, TRUE)>>
  ELSE Refused

onRemoveRouterCommand(argv, known) ==
  IF Len(argv) = (IF Has(argv, 5, "ipv6") THEN 5 ELSE 4)
  THEN ForService(argv, known, "removeService", "")
  ELSE Refused

\* The subnet is the last word, and of the family that the words name.
ForSubnet(argv, known, name) ==
  LET last   == IF Has(argv, 5, "ipv6") THEN 6 ELSE 5
      family == IF Has(argv, 5, "ipv6") THEN "IPv6" ELSE "IPv4"
  IN IF Len(argv) = last /\ ParsedFamily(argv[last]) = family
     THEN ForService(argv, known, name, argv[last])
     ELSE Refused

onAddAddressCommand(argv, known)    == ForSubnet(argv, known, "addIpAddress")
onRemoveAddressCommand(argv, known) == ForSubnet(argv, known, "removeIpAddress")

\* In milliseconds; the packet has a multiple of ten of them.
ValidInterval(interval) == interval # 0 /\ interval % 10 = 0 /\ interval <= 40950

OffsetOf(key) == IF key[3] = "IPv6" THEN 6 ELSE 5

\* The setter for the word at o.  "status" is answered like a word not known.
SettingCall(argv, key, o) ==
  LET word == argv[o]
      v    == Word(argv, o + 1)
  IN CASE word = "primary" /\ ParsedFamily(v) = key[3] ->
            <<"setPrimaryIpAddress", key, v>>
       [] word = "priority" /\ Atoi(v) \in 1..255 ->
            <<"setPriority", key, Atoi(v)>>
       [] word = "interval" /\ ValidInterval(Atoi(v)) ->
            <<"setAdvertisementInterval", key, Atoi(v) \div 10>>
       [] word = "accept" /\ v \in TrueValues \cup FalseValues ->
            <<"setAcceptMode", key, IsTrue(v)>>
       [] word = "preempt" /\ v \in TrueValues \cup FalseValues ->
            <<"setPreemptMode", key, IsTrue(v)>>
       [] word = "master" /\ v = "command" ->
            <<"setMasterCommand", key, SubSeq(argv, o + 2, Len(argv))>>
       [] word = "backup" /\ v = "command" ->
            <<"setBackupCommand", key, SubSeq(argv, o + 2, Len(argv))>>
       [] OTHER -> Refused

\* Unlike the others, this command does not look how many words there are before
\* getService reads the third and the fourth.
onSetRouterCommand(argv, known) ==
  IF Len(argv) < 4
  THEN Undefined
  ELSE LET key == KeyOf(argv, FALSE)
       IN IF ValidTarget(argv) /\ key \in known /\ Len(argv) >= OffsetOf(key)
          THEN SettingCall(argv, key, OffsetOf(key))
          ELSE Refused

\* The second word is not looked at.
onEnableCommand(argv, known) ==
  IF Len(argv) < 4 THEN Refused ELSE ForService(argv, known, "enable", "")

onDisableCommand(argv, known) ==
  IF Len(argv) < 4 THEN Refused ELSE ForService(argv, known, "disable", "")

\* The words after "show router", one by one: "stats" ends them, a number is the id,
\* the first other word is the interface, unless an id came before it.  ("ipv6" is
\* not recognised: the family it is compared with is never AF_UNSPEC.)
ShowWord(asked, word) ==
  IF asked.over THEN asked
  ELSE CASE word = "stats" -> [asked EXCEPT !.over = TRUE]
         [] word # "stats" /\ asked.vrid = 0 /\ word \in DOMAIN Numbers ->
              [asked EXCEPT !.vrid = Atoi(word), !.named = TRUE,
                            !.over = Atoi(word) \notin 1..255,
                            !.refused = Atoi(word) \notin 1..255]
         [] word # "stats" /\ ~(asked.vrid = 0 /\ word \in DOMAIN Numbers) /\ ~asked.named ->
              [asked EXCEPT !.interface = word, !.named = TRUE,
                            !.over = word \notin Interfaces,
                            !.refused = word \notin Interfaces]
         [] OTHER -> asked

onShowRouterCommand(argv, known) ==
  LET asked == FoldLeft(ShowWord,
                 [interface |-> "", named |-> FALSE, vrid |-> 0, over |-> FALSE, refused |-> FALSE],
                 SubSeq(argv, 3, Len(argv)))
  IN IF asked.refused
     THEN Refused
     ELSE <<"showRouter", {k \in known : /\ asked.interface \in {"", k[1]}
                                         /\ asked.vrid \in {0, k[2]}}, "">>

onShowStatsCommand == <<"showStats", {}, "">>

onShowCommand(argv, known) ==
  CASE Has(argv, 2, "router") -> onShowRouterCommand(argv, known)
    [] Has(argv, 2, "stats")  -> onShowStatsCommand
    [] OTHER -> Refused

\* Without a name the configuration file is written.
onSaveCommand(argv) ==
  <<"writeConfiguration", {}, IF Len(argv) > 1 THEN argv[2] ELSE "configuration.dat">>

onAddCommand(argv, known) ==
  CASE Has(argv, 2, "router")  -> onAddRouterCommand(argv)
    [] Has(argv, 2, "address") -> onAddAddressCommand(argv, known)
    [] OTHER -> Refused

onRemoveCommand(argv, known) ==
  CASE Has(argv, 2, "router")  -> onRemoveRouterCommand(argv, known)
    [] Has(argv, 2, "address") -> onRemoveAddressCommand(argv, known)
    [] OTHER -> Refused

onSetCommand(argv, known) ==
  IF Has(argv, 2, "router") THEN onSetRouterCommand(argv, known) ELSE Refused

onCommand(argv, known) ==
  CASE argv[1] = "add"     -> onAddCommand(argv, known)
    [] argv[1] = "remove"  -> onRemoveCommand(argv, known)
    [] argv[1] = "set"     -> onSetCommand(argv, known)
    [] argv[1] = "enable"  -> onEnableCommand(argv, known)
    [] argv[1] = "disable" -> onDisableCommand(argv, known)
    [] argv[1] = "show"    -> onShowCommand(argv, known)
    [] argv[1] = "exit"    -> Ends
    [] argv[1] = "save"    -> onSaveCommand(argv)
    [] OTHER -> Refused

=============================================================================
