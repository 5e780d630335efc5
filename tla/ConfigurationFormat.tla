------------------------- MODULE ConfigurationFormat -------------------------
(***************************************************************************)
(* The configuration file as Configurator writes and reads it: a sequence  *)
(* of fields [kind, value], of which the reader takes one after the other  *)
(* until one cannot be read.  A router is a record as an operator sets it, *)
(* with the name of its interface.                                         *)
(*                                                                         *)
(* The reader uses readsome, which returns no more than is left in the     *)
(* buffer of the stream: a field that crosses the end of the buffer is     *)
(* read short, like one at the end of the file.                            *)
(***************************************************************************)
EXTENDS Integers, Sequences, FiniteSets, SequencesExt

CONSTANTS
  Addresses,   \* a set of records [family, ip]
  Size,        \* the length of each string
  Shortened,   \* what is left of a string cut to 255 bytes
  StreamBuffer \* bytes in the buffer of an ifstream

AutoPrimary == [family |-> "Unspec", ip |-> 0]
NoCommand   == ""
Families    == {"inet", "inet6"}
LongestString == 255

ASSUME FormatAssumption ==
  /\ StreamBuffer \in Nat \ {0}
  /\ AutoPrimary \notin Addresses /\ \A a \in Addresses : a.family \in Families
  /\ Shortened \in [DOMAIN Size -> DOMAIN Size] /\ NoCommand \in DOMAIN Size
  /\ \A s \in DOMAIN Size : Size[s] \in Nat /\ Size[Shortened[s]] <= LongestString

FamilySize(family) == CASE family = "inet" -> 4 [] family = "inet6" -> 16 [] OTHER -> 0

Field(kind, value) == [kind |-> kind, value |-> value]

Width(field) ==
  CASE field.kind = "int"   -> 4
    [] field.kind = "bool"  -> 1
    [] field.kind = "size"  -> 1
    [] field.kind = "chars" -> Size[field.value]
    [] field.kind = "bytes" -> FamilySize(field.value.family)

-----------------------------------------------------------------------------
(* Writing *)

Kept(s) == IF Size[s] > LongestString THEN Shortened[s] ELSE s

writeString(s) == <<Field("size", Size[Kept(s)]), Field("chars", Kept(s))>>

writeIp(a) == <<Field("int", a.family), Field("bytes", a)>>

writeSubnet(n) == writeIp(n.address) \o <<Field("int", n.cidr)>>

\* What every entry has, of three fields that only some have, and the subnets.
Settings(r) ==
  <<Field("int", r.vrid), Field("int", r.family), Field("int", r.priority),
    Field("int", r.interval * 10), Field("bool", r.accept), Field("bool", r.preempt),
    Field("bool", r.enabled), Field("int", IF r.primary = AutoPrimary THEN 0 ELSE 1)>>

Primary(r) == IF r.primary = AutoPrimary THEN <<>> ELSE writeIp(r.primary)

Commands(version, r) ==
  IF version > 1 THEN writeString(r.master) \o writeString(r.backup) ELSE <<>>

Vlan(version, r) == IF version > 2 THEN <<Field("int", r.vlanId)>> ELSE <<>>

Subnets(r) ==
  [i \in 1..3 * Cardinality(r.subnets) |->
     writeSubnet(SetToSeq(r.subnets)[(i + 2) \div 3])[((i - 1) % 3) + 1]]

\* One entry, of the format of a version: the first had no commands, the second no
\* VLAN.
Entry(version, r) ==
  writeString(r.interface) \o Settings(r) \o Primary(r) \o Commands(version, r)
    \o Vlan(version, r) \o <<Field("int", Cardinality(r.subnets))>> \o Subnets(r)

Image(version, routers) ==
  LET Written[i \in 0..Len(routers)] ==
        IF i = 0
        THEN <<Field("int", version), Field("int", Len(routers))>>
        ELSE Written[i - 1] \o Entry(version, routers[i])
  IN Written[Len(routers)]

-----------------------------------------------------------------------------
(* Reading *)

Comes_Strictly(at, field) == (at % StreamBuffer) + Width(field) < StreamBuffer
Comes(at, field) == (at % StreamBuffer) + Width(field) <= StreamBuffer

\* The length of a file in bytes, and how many of its fields come before the first
\* that is read short.
Extent(file) ==
  LET Walk[i \in 0..Len(file)] ==
        IF i = 0
        THEN [bytes |-> 0, fields |-> 0]
        ELSE LET before == Walk[i - 1]
             IN [bytes  |-> before.bytes + Width(file[i]),
                 fields |-> before.fields + (IF /\ before.fields = i - 1
                                                /\ Comes(before.bytes, file[i]) THEN 1 ELSE 0)]
  IN Walk[Len(file)]

\* Where the parts of the entry at p are, as its flags and the version tell.
ValueAt(file, i) == IF i <= Len(file) THEN file[i].value ELSE 0

HasPrimary(file, p) == ValueAt(file, p + 9) = 1
CommandsAt(file, p) == p + 10 + (IF HasPrimary(file, p) THEN 2 ELSE 0)
VlanAt(file, p)     == CommandsAt(file, p) + (IF file[1].value > 1 THEN 4 ELSE 0)
CountAt(file, p)    == VlanAt(file, p) + (IF file[1].value > 2 THEN 1 ELSE 0)

\* All of an entry with its subnets could be read.
Whole_ToTheCount(countAt, count, last) == countAt <= last
Whole(countAt, count, last) == countAt + 3 * count <= last

\* What the entry at p is read as.  vlan is what the variable of the VLAN holds before
\* it is read, and after when it is not.
readEntry(file, p, vlan) ==
  LET version    == file[1].value
      value(i)   == ValueAt(file, i)
      commands   == CommandsAt(file, p)
      countAt    == CountAt(file, p)
  IN [interface |-> value(p + 1), vrid |-> value(p + 2), family |-> value(p + 3),
      priority |-> value(p + 4), interval |-> value(p + 5),
      accept |-> value(p + 6), preempt |-> value(p + 7), enabled |-> value(p + 8),
      primary |-> IF HasPrimary(file, p) THEN value(p + 11) ELSE AutoPrimary,
      master |-> IF version > 1 THEN value(commands + 1) ELSE NoCommand,
      backup |-> IF version > 1 THEN value(commands + 3) ELSE NoCommand,
      vlanId |-> IF version > 2 THEN value(VlanAt(file, p)) ELSE vlan,
      subnets |-> {[address |-> value(countAt + 3 * j - 1), cidr |-> value(countAt + 3 * j)] :
                     j \in 1..value(countAt)}]

\* The entries up to the first that cannot be read, before any is looked at: the
\* fields from 1 to last come whole.  at is where the next entry begins, and 0 after
\* one that was cut short.
readEntries(file, vlan) ==
  LET last == Extent(file).fields
      Read[i \in 0..ValueAt(file, 2)] ==
        IF i = 0
        THEN [routers |-> <<>>, at |-> 3]
        ELSE LET before  == Read[i - 1]
                 countAt == CountAt(file, before.at)
                 count   == IF countAt <= last THEN ValueAt(file, countAt) ELSE 0
             IN IF before.at # 0 /\ Whole(countAt, count, last)
                THEN [routers |-> Append(before.routers, readEntry(file, before.at, vlan)),
                      at      |-> countAt + 1 + 3 * count]
                ELSE [before EXCEPT !.at = 0]
  IN IF last >= 2 /\ ValueAt(file, 1) \in {1, 2, 3}
     THEN Read[ValueAt(file, 2)].routers
     ELSE <<>>

\* An entry is skipped unless it passes.
Vrids            == 1..255
Priorities       == 1..255
WrittenIntervals == 10..40950

Sane_Priority(r) ==
  /\ r.vrid \in Vrids
  /\ r.priority \in 1..254
  /\ r.family \in Families
  /\ r.interval % 10 = 0 /\ r.interval \in WrittenIntervals

Sane(r) ==
  /\ r.vrid \in Vrids
  /\ r.priority \in Priorities
  /\ r.family \in Families
  /\ r.interval % 10 = 0 /\ r.interval \in WrittenIntervals

=============================================================================
