------------------------- MODULE Configurator_proofs -------------------------
(***************************************************************************)
(* Proofs about what Configurator restores.                                *)
(*                                                                         *)
(* The invariant: the file is the beginning of an image of the routers it  *)
(* was meant to hold, in a version that the reader knows; and those of an  *)
(* image of the current version differ from one another in their keys, as  *)
(* the services do that they were, unless the name of one was lost.        *)
(*                                                                         *)
(* The rest is about data.  Written, Walk, Read and Apply are functions    *)
(* that are defined by their values before; each is described by a         *)
(* predicate (Writes, Walks, Reads, Applies) that says so of any function, *)
(* and what they compute is shown by induction on the numbers up to a      *)
(* bound (UpToLast).  An image is entries one behind the other; the reader *)
(* finds in each the fields at the places where the writer put them; so    *)
(* what it reads are the first routers of the image (ReadBack), and a file *)
(* that comes whole gives them all.                                        *)
(*                                                                         *)
(* Fields of a record that change together, and functions that change at   *)
(* one place, have operators of their own (WithFour, Extended): the        *)
(* provers do not find an EXCEPT or a function that is written out in the  *)
(* conclusion of a lemma.                                                  *)
(***************************************************************************)
EXTENDS Configurator, SequenceTheorems, FiniteSetTheorems, TLAPS

-----------------------------------------------------------------------------
(* Induction *)

\* Induction, without an operator for a parameter: a set of natural numbers has a
\* least element, since strict inclusion of finite sets is well founded.
LEMMA LeastNumber ==
  ASSUME NEW S \in SUBSET Nat, S # {}
  PROVE  \E n \in S : \A m \in S : n <= m
<1> DEFINE T == {0..n : n \in S}
<1>1. T \subseteq FiniteSubsetsOf(Nat) /\ T # {}
  <2>1. ASSUME NEW n \in S PROVE 0..n \in FiniteSubsetsOf(Nat)
    <3>1. IsFiniteSet(0..n)
      BY FS_Interval
    <3> QED BY <3>1 DEF FiniteSubsetsOf
  <2> QED BY <2>1
<1>2. PICK x \in T : \A y \in T : ~(<<y, x>> \in StrictSubsetOrdering(Nat))
  BY <1>1, FS_StrictSubsetOrderingWellFounded, WFMin
<1>3. PICK n \in S : x = 0..n
  OBVIOUS
<1>4. ASSUME NEW m \in S, m < n PROVE FALSE
  <2>1. 0..m \in T /\ 0..m \in SUBSET Nat /\ x \in SUBSET Nat
    BY <1>3
  <2>2. 0..m \subseteq x /\ n \in x /\ n \notin 0..m
    BY <1>3, <1>4
  <2>3. <<0..m, x>> \in StrictSubsetOrdering(Nat)
    BY <2>1, <2>2 DEF StrictSubsetOrdering
  <2> QED BY <1>2, <2>1, <2>3
<1> QED BY <1>4

\* A set that has 0, and with each number below N the next one, has all up to N.
LEMMA UpToLast ==
  ASSUME NEW N \in Nat, NEW S, 0 \in S, \A n \in 1..N : n - 1 \in S => n \in S
  PROVE  0..N \subseteq S
<1> SUFFICES ASSUME (0..N) \ S # {} PROVE FALSE
  OBVIOUS
<1> DEFINE Missing == (0..N) \ S
<1>0. Missing \in SUBSET Nat /\ Missing # {}
  OBVIOUS
<1> HIDE DEF Missing
<1>1. PICK n \in Missing : \A m \in Missing : n <= m
  BY <1>0, LeastNumber
<1> USE DEF Missing
<1>2. n \in 1..N /\ n - 1 \in 0..N
  BY <1>1
<1> QED BY <1>1, <1>2

-----------------------------------------------------------------------------
(* Fields *)

Values == Int \cup BOOLEAN \cup Families

Plain == {"int", "bool", "size"}

Fields ==
  {Field(kind, value) : kind \in Plain, value \in Values}
    \cup {Field("chars", s) : s \in DOMAIN Size}
    \cup {Field("bytes", a) : a \in Addresses}

LEMMA PlainIs ==
  ASSUME NEW kind \in Plain, NEW value \in Values
  PROVE  Field(kind, value) \in Fields
BY DEF Fields

LEMMA CharsIs == ASSUME NEW s \in DOMAIN Size PROVE Field("chars", s) \in Fields
BY DEF Fields

LEMMA BytesIs == ASSUME NEW a \in Addresses PROVE Field("bytes", a) \in Fields
BY DEF Fields

LEMMA FieldIs ==
  ASSUME NEW kind, NEW value
  PROVE  Field(kind, value).kind = kind /\ Field(kind, value).value = value
BY DEF Field

LEMMA WidthIsNumber ==
  ASSUME NEW field \in Fields
  PROVE  Width(field) \in Nat
<1>1. ASSUME NEW kind \in Plain, NEW value \in Values
      PROVE  Width(Field(kind, value)) \in Nat
  BY FieldIs DEF Width, Plain
<1>2. ASSUME NEW s \in DOMAIN Size
      PROVE  Width(Field("chars", s)) \in Nat
  BY FieldIs, FormatAssumption DEF Width
<1>3. ASSUME NEW a \in Addresses
      PROVE  Width(Field("bytes", a)) \in Nat
  <2>1. FamilySize(a.family) \in Nat
    BY DEF FamilySize
  <2> QED BY <2>1, FieldIs DEF Width
<1> QED BY <1>1, <1>2, <1>3 DEF Fields

-----------------------------------------------------------------------------
(* How much of a file comes *)

\* What Walk computes in Extent.
Further(before, i, field) ==
  [bytes  |-> before.bytes + Width(field),
   fields |-> before.fields + (IF before.fields = i - 1 /\ Comes(before.bytes, field)
                               THEN 1 ELSE 0)]

NoExtent == [bytes |-> 0, fields |-> 0]

Walks(text, n, f) ==
  /\ f = [i \in 0..n |-> f[i]]
  /\ f[0] = NoExtent
  /\ \A i \in 1..n : f[i] = Further(f[i - 1], i, text[i])

LEMMA WalksExist ==
  ASSUME NEW text, NEW N \in Nat
  PROVE  \E f : Walks(text, N, f)
<1> DEFINE S == {n \in 0..N : \E f : Walks(text, n, f)}
<1>1. 0 \in S
  <2> DEFINE g == [i \in 0..0 |-> NoExtent]
  <2>1. g = [i \in 0..0 |-> g[i]] /\ g[0] = NoExtent
    OBVIOUS
  <2>2. Walks(text, 0, g)
    BY <2>1 DEF Walks
  <2> QED BY <2>2
<1>2. ASSUME NEW n \in 1..N, n - 1 \in S PROVE n \in S
  <2>1. PICK f : Walks(text, n - 1, f)
    BY <1>2
  <2> DEFINE last == Further(f[n - 1], n, text[n])
             g == [i \in 0..n |-> IF i = n THEN last ELSE f[i]]
  <2> HIDE DEF last
  <2>a. g = [i \in 0..n |-> g[i]]
    OBVIOUS
  <2>2. /\ \A i \in 0..(n - 1) : g[i] = f[i]
        /\ g[n] = last
    OBVIOUS
  <2> HIDE DEF g
  <2>3. g[0] = NoExtent
    BY <2>1, <2>2 DEF Walks
  <2>4. ASSUME NEW i \in 1..n
        PROVE  g[i] = Further(g[i - 1], i, text[i])
    <3>1. CASE i = n
      <4>1. g[n - 1] = f[n - 1]
        BY <2>2
      <4> QED BY <2>2, <3>1, <4>1 DEF last
    <3>2. CASE i < n
      <4>1. g[i - 1] = f[i - 1] /\ g[i] = f[i] /\ i \in 1..(n - 1)
        BY <2>2, <3>2
      <4> QED BY <2>1, <4>1 DEF Walks
    <3> QED BY <3>1, <3>2
  <2>5. Walks(text, n, g)
    BY <2>a, <2>3, <2>4 DEF Walks
  <2> QED BY <2>5
<1> HIDE DEF S
<1>3. 0..N \subseteq S
  BY <1>1, <1>2, UpToLast
<1> QED BY <1>3 DEF S

LEMMA ExtentIs ==
  ASSUME NEW text, Len(text) \in Nat
  PROVE  \E f : Walks(text, Len(text), f) /\ Extent(text) = f[Len(text)]
<1> DEFINE Walk(f) ==
      f = [i \in 0..Len(text) |-> IF i = 0 THEN NoExtent ELSE Further(f[i - 1], i, text[i])]
<1>1. Extent(text) = (CHOOSE f : Walk(f))[Len(text)]
  BY DEF Extent, NoExtent, Further
<1>2. ASSUME NEW f PROVE Walks(text, Len(text), f) <=> Walk(f)
  BY DEF Walks
<1>3. PICK f : Walk(f)
  BY <1>2, WalksExist
<1> HIDE DEF Walk
<1>4. Walk(CHOOSE g : Walk(g))
  BY <1>3
<1> QED BY <1>1, <1>2, <1>4

\* How many bytes a file has, and how many of its fields come whole.
LEMMA ExtentType ==
  ASSUME NEW text \in Seq(Fields)
  PROVE  /\ Extent(text).bytes \in Nat
         /\ Extent(text).fields \in 0..Len(text)
<1>1. PICK f : Walks(text, Len(text), f) /\ Extent(text) = f[Len(text)]
  BY ExtentIs
<1> DEFINE S == {n \in 0..Len(text) : f[n].bytes \in Nat /\ f[n].fields \in 0..n}
<1>2. 0 \in S
  BY <1>1 DEF Walks, NoExtent
<1>3. ASSUME NEW n \in 1..Len(text), n - 1 \in S PROVE n \in S
  <2>1. Width(text[n]) \in Nat
    BY WidthIsNumber
  <2>2. f[n] = Further(f[n - 1], n, text[n])
    BY <1>1 DEF Walks
  <2>3. f[n].bytes = f[n - 1].bytes + Width(text[n])
    BY <2>2 DEF Further
  <2>4. f[n].fields = f[n - 1].fields \/ f[n].fields = f[n - 1].fields + 1
    BY <1>3, <2>2 DEF Further
  <2>5. n \in 0..Len(text) /\ f[n - 1].bytes \in Nat /\ f[n - 1].fields \in 0..(n - 1)
    BY <1>3
  <2> HIDE DEF S
  <2>6. f[n].bytes \in Nat
    BY <2>1, <2>3, <2>5
  <2>7. f[n].fields \in 0..n
    BY <2>4, <2>5
  <2> QED BY <2>5, <2>6, <2>7 DEF S
<1> HIDE DEF S
<1>4. Len(text) \in S
  <2>1. Len(text) \in Nat
    OBVIOUS
  <2>2. 0..Len(text) \subseteq S
    BY <1>2, <1>3, <2>1, UpToLast
  <2> QED BY <2>1, <2>2
<1> QED BY <1>1, <1>4 DEF S

\* A file that is not longer than the stream's buffer comes to its end.
LEMMA ShortFileComes ==
  ASSUME NEW text \in Seq(Fields), Extent(text).bytes <= StreamBuffer
  PROVE  Extent(text).fields = Len(text)
<1>1. PICK f : Walks(text, Len(text), f) /\ Extent(text) = f[Len(text)]
  BY ExtentIs
<1>2. StreamBuffer \in Nat \ {0}
  BY FormatAssumption
<1> DEFINE S == {n \in 0..Len(text) :
                   f[n].bytes \in Nat /\ (f[n].bytes <= StreamBuffer => f[n].fields = n)}
<1>3. 0 \in S
  BY <1>1 DEF Walks, NoExtent
<1>4. ASSUME NEW n \in 1..Len(text), n - 1 \in S PROVE n \in S
  <2>1. Width(text[n]) \in Nat
    BY WidthIsNumber
  <2>2. f[n] = Further(f[n - 1], n, text[n])
    BY <1>1 DEF Walks
  <2>3. f[n].bytes = f[n - 1].bytes + Width(text[n])
    BY <2>2 DEF Further
  <2>4. ASSUME f[n].bytes <= StreamBuffer PROVE f[n].fields = n
    <3>1. f[n - 1].bytes <= StreamBuffer /\ f[n - 1].fields = n - 1
      BY <1>2, <1>4, <2>1, <2>3, <2>4
    <3>2. Comes(f[n - 1].bytes, text[n])
      <4> DEFINE at == f[n - 1].bytes
      <4>1. at \in Nat /\ at + Width(text[n]) <= StreamBuffer /\ at <= StreamBuffer
        BY <1>4, <2>3, <2>4, <3>1
      <4> HIDE DEF at
      <4>2. CASE at < StreamBuffer
        <5>1. at % StreamBuffer = at
          BY <1>2, <4>1, <4>2
        <5> QED BY <4>1, <5>1 DEF Comes, at
      <4>3. CASE at = StreamBuffer
        <5>1. at % StreamBuffer = 0
          BY <1>2, <4>3
        <5>2. 0 + Width(text[n]) <= StreamBuffer
          BY <1>2, <2>1, <4>1, <4>3
        <5> QED BY <5>1, <5>2 DEF Comes, at
      <4> QED BY <1>2, <4>1, <4>2, <4>3
    <3>3. f[n].fields = f[n - 1].fields + 1
      BY <2>2, <3>1, <3>2 DEF Further
    <3> QED BY <3>1, <3>3
  <2> QED BY <1>4, <2>1, <2>3, <2>4
<1> HIDE DEF S
<1>5. Len(text) \in S
  <2>1. Len(text) \in Nat
    OBVIOUS
  <2>2. 0..Len(text) \subseteq S
    BY <1>3, <1>4, <2>1, UpToLast
  <2> QED BY <2>1, <2>2
<1> QED BY <1>1, <1>5 DEF S

-----------------------------------------------------------------------------
(* Entries *)

LEMMA KeptIs ==
  ASSUME NEW s \in DOMAIN Size
  PROVE  /\ Kept(s) \in DOMAIN Size
         /\ Size[Kept(s)] \in Nat
         /\ Size[s] <= LongestString => Kept(s) = s
<1>1. Kept(s) \in DOMAIN Size
  BY FormatAssumption DEF Kept
<1>2. LongestString \in Nat /\ Size[s] \in Nat
  BY FormatAssumption DEF LongestString
<1> QED BY <1>1, <1>2, FormatAssumption DEF Kept

\* A sequence of n fields.
AreFields(s, n) == s \in Seq(Fields) /\ Len(s) = n

\* Hidden, concatenation is known by the next three lemmas only.
Join(s, t) == s \o t

LEMMA JoinIs ==
  ASSUME NEW m \in Nat, NEW n \in Nat, NEW s, NEW t, AreFields(s, m), AreFields(t, n)
  PROVE  /\ Join(s, t) \in Seq(Fields)
         /\ Len(Join(s, t)) = m + n
         /\ \A i \in 1..(m + n) : Join(s, t)[i] = IF i <= m THEN s[i] ELSE t[i - m]
BY ConcatProperties DEF AreFields, Join

LEMMA JoinedAre ==
  ASSUME NEW m \in Nat, NEW n \in Nat, NEW s, NEW t, AreFields(s, m), AreFields(t, n)
  PROVE  AreFields(Join(s, t), m + n)
BY JoinIs DEF AreFields

LEMMA InFirst ==
  ASSUME NEW m \in Nat, NEW n \in Nat, NEW s, NEW t, AreFields(s, m), AreFields(t, n),
         NEW i \in 1..m
  PROVE  Join(s, t)[i] = s[i]
<1>1. \A k \in 1..(m + n) : Join(s, t)[k] = IF k <= m THEN s[k] ELSE t[k - m]
  BY JoinIs
<1>2. i \in 1..(m + n) /\ i <= m
  OBVIOUS
<1> QED BY <1>1, <1>2

LEMMA InSecond ==
  ASSUME NEW m \in Nat, NEW n \in Nat, NEW s, NEW t, AreFields(s, m), AreFields(t, n),
         NEW i \in 1..n
  PROVE  Join(s, t)[m + i] = t[i]
<1>1. \A k \in 1..(m + n) : Join(s, t)[k] = IF k <= m THEN s[k] ELSE t[k - m]
  BY JoinIs
<1>2. m + i \in 1..(m + n) /\ ~(m + i <= m) /\ (m + i) - m = i
  OBVIOUS
<1> QED BY <1>1, <1>2

LEMMA OneIs ==
  ASSUME NEW f \in Fields
  PROVE  AreFields(<<f>>, 1) /\ <<f>>[1] = f
BY DEF AreFields

LEMMA TwoAre ==
  ASSUME NEW f \in Fields, NEW g \in Fields
  PROVE  AreFields(<<f, g>>, 2) /\ <<f, g>>[1] = f /\ <<f, g>>[2] = g
BY DEF AreFields

LEMMA NoneIs == AreFields(<<>>, 0)
BY DEF AreFields

LEMMA StringIs ==
  ASSUME NEW s \in DOMAIN Size
  PROVE  AreFields(writeString(s), 2) /\ writeString(s)[2].value = Kept(s)
<1>1. Field("size", Size[Kept(s)]) \in Fields
  BY KeptIs, PlainIs DEF Plain, Values
<1>2. Field("chars", Kept(s)) \in Fields
  BY KeptIs, CharsIs
<1> QED BY <1>1, <1>2, TwoAre, FieldIs DEF writeString

LEMMA IpIs ==
  ASSUME NEW a \in Addresses
  PROVE  AreFields(writeIp(a), 2) /\ writeIp(a)[2].value = a
<1>1. Field("int", a.family) \in Fields
  BY FormatAssumption, PlainIs DEF Plain, Values
<1>2. Field("bytes", a) \in Fields
  BY BytesIs
<1> QED BY <1>1, <1>2, TwoAre, FieldIs DEF writeIp

AllSubnets == [address : Addresses, cidr : Nat]

LEMMA SubnetIs ==
  ASSUME NEW n \in AllSubnets
  PROVE  /\ AreFields(writeSubnet(n), 3)
         /\ writeSubnet(n)[2].value = n.address
         /\ writeSubnet(n)[3].value = n.cidr
<1>1. n.address \in Addresses /\ n.cidr \in Nat
  BY DEF AllSubnets
<1> DEFINE ip == writeIp(n.address)
           rest == <<Field("int", n.cidr)>>
<1>2. AreFields(ip, 2) /\ ip[2].value = n.address
  BY <1>1, IpIs
<1>3. AreFields(rest, 1) /\ rest[1] = Field("int", n.cidr)
  <2>1. Field("int", n.cidr) \in Fields
    BY <1>1, PlainIs DEF Plain, Values
  <2> QED BY <2>1, OneIs
<1>4. writeSubnet(n) = Join(ip, rest)
  BY DEF writeSubnet, Join
<1> HIDE DEF ip, rest
<1>5. 1 \in Nat /\ 2 \in Nat /\ 2 \in 1..2 /\ 1 \in 1..1 /\ 2 + 1 = 3
  OBVIOUS
<1>6. AreFields(Join(ip, rest), 2 + 1)
  BY <1>2, <1>3, <1>5, JoinedAre
<1>7. Join(ip, rest)[2] = ip[2]
  BY <1>2, <1>3, <1>5, InFirst
<1>8. Join(ip, rest)[2 + 1] = rest[1]
  BY <1>2, <1>3, <1>5, InSecond
<1> QED BY <1>2, <1>3, <1>4, <1>5, <1>6, <1>7, <1>8, FieldIs

LEMMA SetToSeqIs ==
  ASSUME NEW S, IsFiniteSet(S)
  PROVE  /\ Cardinality(S) \in Nat
         /\ SetToSeq(S) \in [1..Cardinality(S) -> S]
         /\ \A x \in S : \E i \in 1..Cardinality(S) : SetToSeq(S)[i] = x
<1> DEFINE n == Cardinality(S)
<1>1. n \in Nat /\ ExistsBijection(1..n, S)
  BY FS_CardinalityType
<1>2. PICK b : b \in Bijection(1..n, S)
  BY <1>1 DEF ExistsBijection
<1>3. b \in [1..n -> S] /\ IsInjective(b)
  BY <1>2 DEF Bijection, Injection, IsInjective
<1> DEFINE f == SetToSeq(S)
<1>4. f \in [1..n -> S] /\ IsInjective(f)
  BY <1>3 DEF SetToSeq
<1> HIDE DEF f
<1>5. f \in Injection(1..n, S)
  BY <1>4 DEF Injection, IsInjective
<1>6. IsFiniteSet(1..n) /\ Cardinality(1..n) = n
  BY <1>1, FS_Interval
<1>7. f \in Surjection(1..n, S)
  BY <1>5, <1>6, FS_Injection
<1> HIDE DEF n
<1> QED BY <1>1, <1>4, <1>7 DEF Surjection, f, n

LEMMA SubnetsAre ==
  ASSUME NEW r, IsRouter(r)
  PROVE  /\ AreFields(Subnets(r), 3 * Cardinality(r.subnets))
         /\ \A j \in 1..Cardinality(r.subnets) :
              /\ Subnets(r)[3 * j - 1].value = SetToSeq(r.subnets)[j].address
              /\ Subnets(r)[3 * j].value = SetToSeq(r.subnets)[j].cidr
<1> DEFINE n == Cardinality(r.subnets)
           f == SetToSeq(r.subnets)
<1>1. r.subnets \subseteq AllSubnets /\ IsFiniteSet(r.subnets)
  BY DEF IsRouter, RouterRecords, AllSubnets
<1>2. n \in Nat /\ f \in [1..n -> r.subnets]
  BY <1>1, SetToSeqIs
<1> HIDE DEF n, f
<1>3. Subnets(r) = [i \in 1..3 * n |-> writeSubnet(f[(i + 2) \div 3])[((i - 1) % 3) + 1]]
  BY DEF Subnets, n, f
<1>4. ASSUME NEW i \in 1..3 * n
      PROVE  writeSubnet(f[(i + 2) \div 3])[((i - 1) % 3) + 1] \in Fields
  <2>1. (i + 2) \div 3 \in 1..n /\ ((i - 1) % 3) + 1 \in 1..3
    BY <1>2
  <2>2. f[(i + 2) \div 3] \in AllSubnets
    BY <1>1, <1>2, <2>1
  <2>3. AreFields(writeSubnet(f[(i + 2) \div 3]), 3)
    BY <2>2, SubnetIs
  <2> QED BY <2>1, <2>3 DEF AreFields
<1>5. AreFields(Subnets(r), 3 * n)
  <2>1. Subnets(r) \in [1..3 * n -> Fields]
    BY <1>3, <1>4, Zenon
  <2>2. 3 * n \in Nat
    BY <1>2
  <2> HIDE DEF n
  <2> QED BY <2>1, <2>2, LenProperties, SeqDef DEF AreFields
<1>6. ASSUME NEW j \in 1..n
      PROVE  /\ Subnets(r)[3 * j - 1].value = f[j].address
             /\ Subnets(r)[3 * j].value = f[j].cidr
  <2>1. /\ 3 * j - 1 \in 1..3 * n /\ ((3 * j - 1) + 2) \div 3 = j /\ (((3 * j - 1) - 1) % 3) + 1 = 2
        /\ 3 * j \in 1..3 * n /\ (3 * j + 2) \div 3 = j /\ ((3 * j - 1) % 3) + 1 = 3
    BY <1>2
  <2>2. Subnets(r)[3 * j - 1] = writeSubnet(f[j])[2] /\ Subnets(r)[3 * j] = writeSubnet(f[j])[3]
    BY <1>3, <2>1
  <2>3. f[j] \in AllSubnets
    BY <1>1, <1>2
  <2> QED BY <2>2, <2>3, SubnetIs
<1> QED BY <1>5, <1>6 DEF n, f

LEMMA RangesAre ==
  /\ \A n \in Vrids : n \in Nat
  /\ \A n \in Priorities : n \in Nat
  /\ \A n \in Intervals : n \in Nat /\ n * 10 \in Nat
BY SMT DEF Vrids, Priorities, Intervals

LEMMA SettingsAre ==
  ASSUME NEW r, IsRouter(r)
  PROVE  AreFields(Settings(r), 8)
<1>1. /\ r.vrid \in Values /\ r.family \in Values /\ r.priority \in Values /\ r.interval * 10 \in Values
      /\ r.accept \in Values /\ r.preempt \in Values /\ r.enabled \in Values
      /\ (IF r.primary = AutoPrimary THEN 0 ELSE 1) \in Values
  <2>1. /\ r.vrid \in Vrids /\ r.family \in Families /\ r.priority \in Priorities
        /\ r.interval \in Intervals
        /\ r.accept \in BOOLEAN /\ r.preempt \in BOOLEAN /\ r.enabled \in BOOLEAN
    BY DEF IsRouter, RouterRecords
  <2>2. r.vrid \in Int /\ r.priority \in Int /\ r.interval * 10 \in Int
    <3>1. \A n \in Nat : n \in Int
      OBVIOUS
    <3> QED BY <2>1, <3>1, RangesAre, Zenon
  <2>3. (IF r.primary = AutoPrimary THEN 0 ELSE 1) \in Int
    OBVIOUS
  <2> QED BY <2>1, <2>2, <2>3, Zenon DEF Values
<1>2. "int" \in Plain /\ "bool" \in Plain
  BY DEF Plain
<1>3. /\ Field("int", r.vrid) \in Fields /\ Field("int", r.family) \in Fields
      /\ Field("int", r.priority) \in Fields /\ Field("int", r.interval * 10) \in Fields
      /\ Field("bool", r.accept) \in Fields /\ Field("bool", r.preempt) \in Fields
      /\ Field("bool", r.enabled) \in Fields
      /\ Field("int", IF r.primary = AutoPrimary THEN 0 ELSE 1) \in Fields
  BY <1>1, <1>2, PlainIs, Zenon
<1> QED BY <1>3 DEF AreFields, Settings

LEMMA PrimaryIs ==
  ASSUME NEW r, IsRouter(r)
  PROVE  /\ r.primary = AutoPrimary => AreFields(Primary(r), 0)
         /\ r.primary # AutoPrimary => AreFields(Primary(r), 2) /\ Primary(r)[2].value = r.primary
<1>1. r.primary \in Addresses \cup {AutoPrimary}
  BY DEF IsRouter, RouterRecords
<1> QED BY <1>1, NoneIs, IpIs DEF Primary

LEMMA CommandsAre ==
  ASSUME NEW r, IsRouter(r), NEW v \in {1, 2, 3}
  PROVE  /\ v = 1 => AreFields(Commands(v, r), 0)
         /\ v > 1 => /\ AreFields(Commands(v, r), 4)
                     /\ Commands(v, r)[2].value = Kept(r.master)
                     /\ Commands(v, r)[4].value = Kept(r.backup)
<1>1. CASE v = 1
  BY <1>1, NoneIs DEF Commands
<1>2. CASE v > 1
  <2> DEFINE s == writeString(r.master)
             t == writeString(r.backup)
  <2>1. r.master \in DOMAIN Size /\ r.backup \in DOMAIN Size
    BY DEF IsRouter, RouterRecords
  <2>2. AreFields(s, 2) /\ s[2].value = Kept(r.master) /\ AreFields(t, 2) /\ t[2].value = Kept(r.backup)
    BY <2>1, StringIs
  <2>3. Commands(v, r) = Join(s, t)
    BY <1>2 DEF Commands, Join
  <2> HIDE DEF s, t
  <2>4. 2 \in Nat /\ 2 \in 1..2 /\ 2 + 2 = 4
    OBVIOUS
  <2>5. AreFields(Join(s, t), 2 + 2)
    BY <2>2, <2>4, JoinedAre
  <2>6. Join(s, t)[2] = s[2]
    BY <2>2, <2>4, InFirst
  <2>7. Join(s, t)[2 + 2] = t[2]
    BY <2>2, <2>4, InSecond
  <2> QED BY <1>2, <2>2, <2>3, <2>4, <2>5, <2>6, <2>7
<1> QED BY <1>1, <1>2

LEMMA VlanIs ==
  ASSUME NEW r, IsRouter(r), NEW v \in {1, 2, 3}
  PROVE  /\ v <= 2 => AreFields(Vlan(v, r), 0)
         /\ v > 2 => AreFields(Vlan(v, r), 1) /\ Vlan(v, r)[1].value = r.vlanId
<1>1. CASE v <= 2
  BY <1>1, NoneIs DEF Vlan
<1>2. CASE v > 2
  <2>1. Field("int", r.vlanId) \in Fields
    <3>1. r.vlanId \in Int
      BY DEF IsRouter, RouterRecords
    <3> QED BY <3>1, PlainIs DEF Plain, Values
  <2>2. Vlan(v, r) = <<Field("int", r.vlanId)>>
    BY <1>2 DEF Vlan
  <2> QED BY <1>2, <2>1, <2>2, OneIs, FieldIs
<1> QED BY <1>1, <1>2

\* Where the parts of an entry are in it.
CommandsIn(r) == IF r.primary = AutoPrimary THEN 10 ELSE 12
VlanIn(v, r)  == CommandsIn(r) + (IF v > 1 THEN 4 ELSE 0)
CountIn(v, r) == VlanIn(v, r) + (IF v > 2 THEN 2 ELSE 1)
EntryLen(v, r) == CountIn(v, r) + 3 * Cardinality(r.subnets)

\* The subnets of r, at the end of e.
EndsWithSubnets(e, at, r) ==
  \A j \in 1..Cardinality(r.subnets) :
    /\ e[at + (3 * j - 1)].value = SetToSeq(r.subnets)[j].address
    /\ e[at + 3 * j].value = SetToSeq(r.subnets)[j].cidr

IsEntry(v, r, e) ==
  /\ AreFields(e, EntryLen(v, r))
  /\ e[2].value = r.interface
  /\ \A i \in 1..8 : e[2 + i] = Settings(r)[i]
  /\ r.primary # AutoPrimary => e[12].value = r.primary
  /\ v > 1 => /\ e[CommandsIn(r) + 2].value = Kept(r.master)
              /\ e[CommandsIn(r) + 4].value = Kept(r.backup)
  /\ v > 2 => e[VlanIn(v, r) + 1].value = r.vlanId
  /\ e[CountIn(v, r)].value = Cardinality(r.subnets)
  /\ EndsWithSubnets(e, CountIn(v, r), r)

LEMMA PositionsAre ==
  ASSUME NEW r, NEW v \in {1, 2, 3}, Cardinality(r.subnets) \in Nat
  PROVE  /\ CommandsIn(r) \in Nat /\ CommandsIn(r) >= 10
         /\ VlanIn(v, r) \in Nat /\ VlanIn(v, r) >= 10
         /\ CountIn(v, r) \in Nat /\ CountIn(v, r) >= 11
         /\ EntryLen(v, r) \in Nat /\ EntryLen(v, r) >= 11
BY DEF CommandsIn, VlanIn, CountIn, EntryLen

LEMMA EntryIs ==
  ASSUME NEW r, IsRouter(r), NEW v \in {1, 2, 3}
  PROVE  IsEntry(v, r, Entry(v, r))
<1> DEFINE name == writeString(r.interface)
           settings == Settings(r)
           primary == Primary(r)
           commands == Commands(v, r)
           vlan == Vlan(v, r)
           count == <<Field("int", Cardinality(r.subnets))>>
           subnets == Subnets(r)
           n == Cardinality(r.subnets)
           a == CommandsIn(r)
           b == VlanIn(v, r)
           c == CountIn(v, r)
           e1 == Join(name, settings)
           e2 == Join(e1, primary)
           e3 == Join(e2, commands)
           e4 == Join(e3, vlan)
           e5 == Join(e4, count)
           e6 == Join(e5, subnets)
<1>1. Entry(v, r) = e6
  BY DEF Entry, Join
<1>2. n \in Nat
  BY SetToSeqIs DEF IsRouter
<1>3. AreFields(name, 2) /\ name[2].value = r.interface
  <2>1. r.interface \in DOMAIN Size /\ Size[r.interface] <= LongestString
    BY ConfiguratorAssumption DEF IsRouter, RouterRecords
  <2> QED BY <2>1, StringIs, KeptIs
<1>4. AreFields(settings, 8)
  BY SettingsAre
<1>5. AreFields(primary, a - 10) /\ (r.primary # AutoPrimary => a - 10 = 2 /\ primary[2].value = r.primary)
  BY PrimaryIs DEF CommandsIn
<1>6. /\ AreFields(commands, b - a)
      /\ v > 1 => b - a = 4 /\ commands[2].value = Kept(r.master) /\ commands[4].value = Kept(r.backup)
  <2>1. a \in Nat
    BY DEF CommandsIn
  <2> HIDE DEF a
  <2>2. v > 1 => b - a = 4
    BY <2>1 DEF VlanIn, a
  <2>3. v = 1 => b - a = 0
    BY <2>1 DEF VlanIn, a
  <2> QED BY <2>2, <2>3, CommandsAre
<1>7. /\ AreFields(vlan, (c - 1) - b)
      /\ v > 2 => (c - 1) - b = 1 /\ vlan[1].value = r.vlanId
  <2>1. b \in Nat
    BY DEF CommandsIn, VlanIn
  <2> HIDE DEF b
  <2>2. v > 2 => (c - 1) - b = 1
    BY <2>1 DEF CountIn, b
  <2>3. v <= 2 => (c - 1) - b = 0
    BY <2>1 DEF CountIn, b
  <2> QED BY <2>2, <2>3, VlanIs
<1>8. AreFields(count, 1) /\ count[1].value = n
  <2>1. Field("int", n) \in Fields
    BY <1>2, PlainIs DEF Plain, Values
  <2> QED BY <2>1, OneIs, FieldIs
<1>9. /\ AreFields(subnets, 3 * n)
      /\ \A j \in 1..n : /\ subnets[3 * j - 1].value = SetToSeq(r.subnets)[j].address
                         /\ subnets[3 * j].value = SetToSeq(r.subnets)[j].cidr
  BY SubnetsAre
<1>10. /\ a \in Nat /\ b \in Nat /\ c \in Nat /\ a >= 10 /\ b >= a /\ c - 1 >= b
       /\ EntryLen(v, r) = c + 3 * n
  BY <1>2 DEF CommandsIn, VlanIn, CountIn, EntryLen
<1> HIDE DEF name, settings, primary, commands, vlan, count, subnets, n, a, b, c
<1>11. /\ 2 \in Nat /\ 8 \in Nat /\ 10 \in Nat /\ 1 \in Nat /\ a - 10 \in Nat /\ b - a \in Nat
       /\ (c - 1) - b \in Nat /\ c - 1 \in Nat /\ 3 * n \in Nat
       /\ 2 + 8 = 10 /\ 10 + (a - 10) = a /\ a + (b - a) = b /\ b + ((c - 1) - b) = c - 1
       /\ (c - 1) + 1 = c
  BY <1>2, <1>10
<1>12. AreFields(e1, 10)
  <2>1. AreFields(e1, 2 + 8)
    BY <1>3, <1>4, <1>11, JoinedAre
  <2> QED BY <1>11, <2>1
<1> HIDE DEF e1
<1>13. AreFields(e2, a)
  <2>1. AreFields(e2, 10 + (a - 10))
    BY <1>5, <1>11, <1>12, JoinedAre
  <2> QED BY <1>11, <2>1
<1> HIDE DEF e2
<1>14. AreFields(e3, b)
  <2>1. AreFields(e3, a + (b - a))
    BY <1>6, <1>10, <1>11, <1>13, JoinedAre
  <2> QED BY <1>11, <2>1
<1> HIDE DEF e3
<1>15. AreFields(e4, c - 1)
  <2>1. AreFields(e4, b + ((c - 1) - b))
    BY <1>7, <1>10, <1>11, <1>14, JoinedAre
  <2> QED BY <1>11, <2>1
<1> HIDE DEF e4
<1>16. AreFields(e5, c)
  <2>1. AreFields(e5, (c - 1) + 1)
    BY <1>8, <1>10, <1>11, <1>15, JoinedAre
  <2> QED BY <1>11, <2>1
<1> HIDE DEF e5
<1>17. AreFields(e6, EntryLen(v, r))
  BY <1>9, <1>10, <1>11, <1>16, JoinedAre
<1>18. \A i \in 1..c : e6[i] = e5[i]
  BY <1>9, <1>10, <1>11, <1>16, InFirst
<1>19. \A i \in 1..(3 * n) : e6[c + i] = subnets[i]
  BY <1>9, <1>10, <1>11, <1>16, InSecond
<1> HIDE DEF e6
<1>20. \A i \in 1..(c - 1) : e5[i] = e4[i]
  BY <1>8, <1>11, <1>15, InFirst DEF e5
<1>21. e5[c] = count[1]
  <2>1. 1 \in 1..1
    OBVIOUS
  <2>2. e5[(c - 1) + 1] = count[1]
    BY <1>8, <1>11, <1>15, <2>1, InSecond DEF e5
  <2> QED BY <1>11, <2>2
<1>22. \A i \in 1..b : e4[i] = e3[i]
  BY <1>7, <1>10, <1>11, <1>14, InFirst DEF e4
<1>23. \A i \in 1..((c - 1) - b) : e4[b + i] = vlan[i]
  BY <1>7, <1>10, <1>11, <1>14, InSecond DEF e4
<1>24. \A i \in 1..a : e3[i] = e2[i]
  BY <1>6, <1>10, <1>11, <1>13, InFirst DEF e3
<1>25. \A i \in 1..(b - a) : e3[a + i] = commands[i]
  BY <1>6, <1>10, <1>11, <1>13, InSecond DEF e3
<1>26. \A i \in 1..10 : e2[i] = e1[i]
  BY <1>5, <1>11, <1>12, InFirst DEF e2
<1>27. \A i \in 1..(a - 10) : e2[10 + i] = primary[i]
  BY <1>5, <1>11, <1>12, InSecond DEF e2
<1>28. \A i \in 1..2 : e1[i] = name[i]
  BY <1>3, <1>4, <1>11, InFirst DEF e1
<1>29. \A i \in 1..8 : e1[2 + i] = settings[i]
  BY <1>3, <1>4, <1>11, InSecond DEF e1
<1>30. \A i \in 1..b : e6[i] = e3[i]
  BY <1>10, <1>18, <1>20, <1>22
<1>31. \A i \in 1..a : e6[i] = e2[i]
  BY <1>10, <1>24, <1>30
<1>32. e6[2].value = r.interface
  BY <1>3, <1>10, <1>26, <1>28, <1>31
<1>33. \A i \in 1..8 : e6[2 + i] = settings[i]
  <2>1. \A i \in 1..10 : e6[i] = e1[i]
    BY <1>10, <1>26, <1>31
  <2>2. \A i \in 1..8 : 2 + i \in 1..10
    OBVIOUS
  <2> QED BY <1>29, <2>1, <2>2
<1>34. ASSUME r.primary # AutoPrimary PROVE e6[12].value = r.primary
  <2>1. a = 12 /\ 2 \in 1..(a - 10) /\ 10 + 2 = 12 /\ 12 \in 1..a
    BY <1>5, <1>10, <1>34
  <2> QED BY <1>5, <1>27, <1>31, <1>34, <2>1
<1>35. ASSUME v > 1
       PROVE  e6[a + 2].value = Kept(r.master) /\ e6[a + 4].value = Kept(r.backup)
  <2>1. 2 \in 1..(b - a) /\ 4 \in 1..(b - a) /\ a + 2 \in 1..b /\ a + 4 \in 1..b
    BY <1>6, <1>10, <1>35
  <2> QED BY <1>6, <1>25, <1>30, <1>35, <2>1
<1>36. ASSUME v > 2 PROVE e6[b + 1].value = r.vlanId
  <2>1. 1 \in 1..((c - 1) - b) /\ b + 1 \in 1..(c - 1) /\ b + 1 \in 1..c
    BY <1>7, <1>10, <1>36
  <2> QED BY <1>7, <1>18, <1>20, <1>23, <1>36, <2>1
<1>37. e6[c].value = n
  BY <1>8, <1>10, <1>18, <1>21
<1>38. EndsWithSubnets(e6, c, r)
  <2>1. ASSUME NEW j \in 1..n
        PROVE  /\ e6[c + (3 * j - 1)].value = SetToSeq(r.subnets)[j].address
               /\ e6[c + 3 * j].value = SetToSeq(r.subnets)[j].cidr
    <3>1. 3 * j - 1 \in 1..(3 * n) /\ 3 * j \in 1..(3 * n)
      BY <1>2
    <3> QED BY <1>9, <1>19, <3>1
  <2> QED BY <2>1 DEF EndsWithSubnets, n
<1>39. IsEntry(v, r, e6)
  BY <1>17, <1>32, <1>33, <1>34, <1>35, <1>36, <1>37, <1>38, Zenon DEF IsEntry, settings, a, b, c, n
<1> QED BY <1>1, <1>39

-----------------------------------------------------------------------------
(* Images *)

Header(v, routers) == <<Field("int", v), Field("int", Len(routers))>>

\* What Written computes in Image.
Writes(v, routers, n, f) ==
  /\ f = [i \in 0..n |-> f[i]]
  /\ f[0] = Header(v, routers)
  /\ \A i \in 1..n : f[i] = Join(f[i - 1], Entry(v, routers[i]))

LEMMA WritesExist ==
  ASSUME NEW v, NEW routers, NEW N \in Nat
  PROVE  \E f : Writes(v, routers, N, f)
<1> DEFINE S == {n \in 0..N : \E f : Writes(v, routers, n, f)}
<1>1. 0 \in S
  <2> DEFINE g == [i \in 0..0 |-> Header(v, routers)]
  <2>1. g = [i \in 0..0 |-> g[i]] /\ g[0] = Header(v, routers)
    OBVIOUS
  <2>2. Writes(v, routers, 0, g)
    BY <2>1 DEF Writes
  <2> QED BY <2>2
<1>2. ASSUME NEW n \in 1..N, n - 1 \in S PROVE n \in S
  <2>1. PICK f : Writes(v, routers, n - 1, f)
    BY <1>2
  <2> DEFINE last == Join(f[n - 1], Entry(v, routers[n]))
             g == [i \in 0..n |-> IF i = n THEN last ELSE f[i]]
  <2> HIDE DEF last
  <2>2. g = [i \in 0..n |-> g[i]]
    OBVIOUS
  <2>3. /\ \A i \in 0..(n - 1) : g[i] = f[i]
        /\ g[n] = last
    OBVIOUS
  <2> HIDE DEF g
  <2>4. g[0] = Header(v, routers)
    BY <2>1, <2>3 DEF Writes
  <2>5. ASSUME NEW i \in 1..n
        PROVE  g[i] = Join(g[i - 1], Entry(v, routers[i]))
    <3>1. CASE i = n
      <4>1. g[n - 1] = f[n - 1]
        BY <2>3
      <4> QED BY <2>3, <3>1, <4>1 DEF last
    <3>2. CASE i < n
      <4>1. g[i - 1] = f[i - 1] /\ g[i] = f[i] /\ i \in 1..(n - 1)
        BY <2>3, <3>2
      <4> QED BY <2>1, <4>1 DEF Writes
    <3> QED BY <3>1, <3>2
  <2>6. Writes(v, routers, n, g)
    BY <2>2, <2>4, <2>5 DEF Writes
  <2> QED BY <2>6
<1> HIDE DEF S
<1>3. 0..N \subseteq S
  BY <1>1, <1>2, UpToLast
<1> QED BY <1>3 DEF S

LEMMA ImageIs ==
  ASSUME NEW v, NEW routers, Len(routers) \in Nat
  PROVE  \E f : Writes(v, routers, Len(routers), f) /\ Image(v, routers) = f[Len(routers)]
<1> DEFINE Written(f) ==
      f = [i \in 0..Len(routers) |->
             IF i = 0 THEN Header(v, routers) ELSE Join(f[i - 1], Entry(v, routers[i]))]
<1>1. Image(v, routers) = (CHOOSE f : Written(f))[Len(routers)]
  BY DEF Image, Header, Join
<1>2. ASSUME NEW f PROVE Writes(v, routers, Len(routers), f) <=> Written(f)
  BY DEF Writes
<1>3. PICK f : Written(f)
  BY <1>2, WritesExist
<1> HIDE DEF Written
<1>4. Written(CHOOSE g : Written(g))
  BY <1>3
<1> QED BY <1>1, <1>2, <1>4

Routable(routers) ==
  routers \in Seq(RouterRecords) /\ \A i \in DOMAIN routers : IsRouter(routers[i])

Versions == {1, 2, 3}

\* The entries of a file, from the first to the n-th, begin where at says.
Holds(v, routers, n, at, e) ==
  /\ AreFields(e, at[n] - 1)
  /\ e[1].value = v
  /\ e[2].value = Len(routers)
  /\ \A i \in 1..n : at[i] <= at[n]
  /\ \A i \in 1..n : \A k \in 1..EntryLen(v, routers[i]) :
       e[(at[i - 1] - 1) + k] = Entry(v, routers[i])[k]

Begins(v, routers, at) ==
  /\ at \in [0..Len(routers) -> Nat]
  /\ at[0] = 3
  /\ \A i \in 1..Len(routers) : at[i] = at[i - 1] + EntryLen(v, routers[i])

LEMMA EntriesAre ==
  ASSUME NEW v \in Versions, NEW routers, Routable(routers)
  PROVE  /\ Len(routers) \in Nat
         /\ \A i \in 1..Len(routers) : /\ IsRouter(routers[i])
                                       /\ IsEntry(v, routers[i], Entry(v, routers[i]))
                                       /\ EntryLen(v, routers[i]) \in Nat
                                       /\ EntryLen(v, routers[i]) >= 11
<1>1. Len(routers) \in Nat /\ \A i \in 1..Len(routers) : IsRouter(routers[i])
  BY DEF Routable
<1>2. \A i \in 1..Len(routers) : IsEntry(v, routers[i], Entry(v, routers[i]))
  BY <1>1, EntryIs DEF Versions
<1>3. \A i \in 1..Len(routers) : Cardinality(routers[i].subnets) \in Nat
  BY <1>1, SetToSeqIs DEF IsRouter
<1> QED BY <1>1, <1>2, <1>3, PositionsAre DEF Versions

LEMMA ImageHolds ==
  ASSUME NEW v \in Versions, NEW routers, Routable(routers)
  PROVE  \E at : Begins(v, routers, at) /\ Holds(v, routers, Len(routers), at, Image(v, routers))
<1> DEFINE N == Len(routers)
           len == [i \in 1..N |-> EntryLen(v, routers[i])]
<1>1. N \in Nat /\ len \in [1..N -> Nat]
  BY EntriesAre
<1>2. \A i \in 1..N : AreFields(Entry(v, routers[i]), len[i])
  BY EntriesAre DEF IsEntry
<1>a. \A i \in 1..N : len[i] = EntryLen(v, routers[i])
  OBVIOUS
<1> HIDE DEF len
<1>3. PICK f : Writes(v, routers, N, f) /\ Image(v, routers) = f[N]
  BY <1>1, ImageIs
<1>4. AreFields(f[0], 2) /\ f[0][1].value = v /\ f[0][2].value = N
  <2>1. v \in Int
    BY DEF Versions
  <2>2. Field("int", v) \in Fields /\ Field("int", N) \in Fields
    BY <1>1, <2>1, PlainIs DEF Plain, Values
  <2>3. f[0] = <<Field("int", v), Field("int", N)>>
    BY <1>3 DEF Writes, Header
  <2> QED BY <2>2, <2>3, TwoAre, FieldIs
<1> HIDE DEF N
<1> DEFINE at == [i \in 0..N |-> Len(f[i]) + 1]
           S == {n \in 0..N : at[n] \in Nat /\ at[n] >= 3 /\ AreFields(f[n], at[n] - 1)}
<1>5. 0 \in S /\ at[0] = 3
  <2>1. at[0] = Len(f[0]) + 1
    BY <1>1
  <2> HIDE DEF at
  <2>2. at[0] = 3 /\ at[0] - 1 = 2
    BY <1>4, <2>1 DEF AreFields
  <2> QED BY <1>1, <1>4, <2>2
<1>6. ASSUME NEW n \in 1..N, n - 1 \in S PROVE n \in S /\ at[n] = at[n - 1] + len[n]
  <2>1. f[n] = Join(f[n - 1], Entry(v, routers[n]))
    BY <1>3 DEF Writes
  <2>2. /\ at[n - 1] \in Nat /\ at[n - 1] - 1 \in Nat /\ at[n - 1] >= 3
        /\ AreFields(f[n - 1], at[n - 1] - 1) /\ len[n] \in Nat
    BY <1>1, <1>6 DEF AreFields
  <2>3. AreFields(f[n], (at[n - 1] - 1) + len[n])
    BY <1>2, <2>1, <2>2, JoinedAre
  <2>4. at[n] = Len(f[n]) + 1
    BY <1>1
  <2> HIDE DEF at
  <2>5. at[n] = at[n - 1] + len[n] /\ at[n] - 1 = (at[n - 1] - 1) + len[n]
    <3>1. Len(f[n]) = (at[n - 1] - 1) + len[n]
      BY <2>3 DEF AreFields
    <3> QED BY <2>2, <2>4, <3>1
  <2>6. at[n] \in Nat /\ at[n] >= 3 /\ AreFields(f[n], at[n] - 1)
    BY <2>2, <2>3, <2>5
  <2> QED BY <2>5, <2>6
<1> HIDE DEF S
<1>7. 0..N \subseteq S
  BY <1>1, <1>5, <1>6, UpToLast
<1>8. \A n \in 1..N : at[n] = at[n - 1] + len[n]
  <2>1. ASSUME NEW n \in 1..N PROVE n - 1 \in 0..N
    BY <1>1
  <2> QED BY <1>6, <1>7, <2>1
<1>9. \A n \in 0..N : at[n] \in Nat /\ at[n] >= 3 /\ AreFields(f[n], at[n] - 1)
  BY <1>7 DEF S
<1>b. at \in [0..N -> Nat]
  BY <1>9
<1> HIDE DEF at
<1>10. Begins(v, routers, at)
  BY <1>5, <1>8, <1>b, <1>a DEF Begins, N
<1> DEFINE T == {n \in 0..N : Holds(v, routers, n, at, f[n])}
<1>11. 0 \in T
  BY <1>1, <1>4, <1>5, <1>9 DEF Holds, N
<1>12. ASSUME NEW n \in 1..N, n - 1 \in T PROVE n \in T
  <2> DEFINE m == at[n - 1] - 1
             e == Entry(v, routers[n])
  <2>1. Holds(v, routers, n - 1, at, f[n - 1]) /\ n - 1 \in 0..N
    BY <1>12
  <2>2. at[n - 1] \in Nat /\ m \in Nat /\ m >= 2 /\ AreFields(f[n - 1], m) /\ len[n] \in Nat
    BY <1>1, <1>9, <2>1
  <2>3. f[n] = Join(f[n - 1], e) /\ AreFields(e, len[n])
    BY <1>2, <1>3 DEF Writes
  <2>4. at[n] - 1 = m + len[n] /\ at[n - 1] <= at[n]
    BY <1>8, <2>2
  <2> HIDE DEF m, e
  <2>5. AreFields(f[n], at[n] - 1)
    BY <1>9
  <2>6. \A i \in 1..m : f[n][i] = f[n - 1][i]
    <3>1. f[n] = Join(f[n - 1], e) /\ AreFields(e, len[n]) /\ AreFields(f[n - 1], m)
          /\ m \in Nat /\ len[n] \in Nat
      BY <2>2, <2>3
    <3> QED BY <3>1, InFirst
  <2>7. \A i \in 1..len[n] : f[n][m + i] = e[i]
    BY <2>2, <2>3, InSecond
  <2>8. f[n][1].value = v /\ f[n][2].value = N
    <3>1. 1 \in 1..m /\ 2 \in 1..m
      BY <2>2
    <3> QED BY <2>1, <2>6, <3>1 DEF Holds, N
  <2>9. \A i \in 1..n : at[i] <= at[n]
    <3>1. ASSUME NEW i \in 1..(n - 1) PROVE at[i] <= at[n]
      <4>1. at[i] <= at[n - 1]
        BY <2>1 DEF Holds
      <4>2. i \in 0..N /\ n \in 0..N
        BY <1>1
      <4>3. at[i] \in Nat /\ at[n] \in Nat /\ at[n - 1] \in Nat
        BY <1>9, <2>1, <4>2
      <4> QED BY <2>4, <4>1, <4>3
    <3>2. at[n] <= at[n]
      <4>1. n \in 0..N
        BY <1>1
      <4>2. at[n] \in Nat
        BY <1>9, <4>1
      <4> QED BY <4>2
    <3> QED BY <3>1, <3>2
  <2>10. ASSUME NEW i \in 1..n, NEW k \in 1..EntryLen(v, routers[i])
         PROVE  f[n][(at[i - 1] - 1) + k] = Entry(v, routers[i])[k]
    <3>1. CASE i = n
      <4>1. k \in 1..len[n]
        BY <1>a, <3>1
      <4> QED BY <2>7, <3>1, <4>1 DEF m, e
    <3>2. CASE i # n
      <4>1. i \in 1..(n - 1) /\ i \in 1..N /\ i - 1 \in 0..N /\ i \in 0..N
        BY <1>1, <3>2
      <4>2. f[n - 1][(at[i - 1] - 1) + k] = Entry(v, routers[i])[k]
        BY <2>1, <4>1 DEF Holds
      <4>3. k \in 1..len[i]
        BY <1>a, <4>1
      <4>4. at[i] = at[i - 1] + len[i] /\ at[i] <= at[n - 1]
        BY <1>8, <2>1, <4>1 DEF Holds
      <4>5. at[i - 1] \in Nat /\ at[i - 1] >= 3 /\ len[i] \in Nat
        BY <1>1, <1>9, <4>1
      <4>6. (at[i - 1] - 1) + k \in 1..m
        <5>1. m = at[n - 1] - 1
          BY DEF m
        <5> QED BY <2>2, <4>3, <4>4, <4>5, <5>1
      <4> QED BY <2>6, <4>2, <4>6
    <3> QED BY <3>1, <3>2
  <2>11. Holds(v, routers, n, at, f[n])
    BY <2>5, <2>8, <2>9, <2>10 DEF Holds, N
  <2> QED BY <2>11
<1> HIDE DEF T
<1>13. 0..N \subseteq T
  BY <1>1, <1>11, <1>12, UpToLast
<1>14. Holds(v, routers, N, at, f[N])
  <2>1. N \in 0..N
    BY <1>1
  <2> QED BY <1>13, <2>1 DEF T
<1> QED BY <1>3, <1>10, <1>14 DEF N

-----------------------------------------------------------------------------
(* Reading one entry *)

\* A file that may be cut short has r's entry at p.
HasEntry(text, p, v, r) ==
  /\ Len(text) \in Nat /\ p \in Nat /\ p >= 3
  /\ text[1].value = v
  /\ \A k \in 1..EntryLen(v, r) : (p - 1) + k <= Len(text) => text[(p - 1) + k] = Entry(v, r)[k]

\* What an entry is read as.
ReadAs(v, r, vlan) ==
  [interface |-> r.interface, vrid |-> r.vrid, family |-> r.family,
   priority |-> r.priority, interval |-> r.interval * 10,
   accept |-> r.accept, preempt |-> r.preempt, enabled |-> r.enabled,
   primary |-> r.primary,
   master |-> IF v > 1 THEN Kept(r.master) ELSE NoCommand,
   backup |-> IF v > 1 THEN Kept(r.backup) ELSE NoCommand,
   vlanId |-> IF v > 2 THEN r.vlanId ELSE vlan,
   subnets |-> r.subnets]

CountRead(text, p, last) == IF CountAt(text, p) <= last THEN ValueAt(text, CountAt(text, p)) ELSE 0

IsWhole(text, p, last) == Whole(CountAt(text, p), CountRead(text, p, last), last)

LEMMA ValueIs ==
  ASSUME NEW text, NEW p, NEW v \in Versions, NEW r, HasEntry(text, p, v, r),
         NEW k \in 1..EntryLen(v, r), (p - 1) + k <= Len(text)
  PROVE  ValueAt(text, (p - 1) + k) = Entry(v, r)[k].value
BY DEF HasEntry, ValueAt

LEMMA NumbersOf ==
  ASSUME NEW v \in Versions, NEW r, IsRouter(r)
  PROVE  /\ Cardinality(r.subnets) \in Nat
         /\ CommandsIn(r) \in Nat /\ CommandsIn(r) >= 10
         /\ VlanIn(v, r) \in Nat /\ VlanIn(v, r) >= CommandsIn(r)
         /\ CountIn(v, r) \in Nat /\ CountIn(v, r) >= VlanIn(v, r) + 1
         /\ EntryLen(v, r) = CountIn(v, r) + 3 * Cardinality(r.subnets)
<1>1. Cardinality(r.subnets) \in Nat
  BY SetToSeqIs DEF IsRouter
<1> QED BY <1>1 DEF CommandsIn, VlanIn, CountIn, EntryLen

\* Where the count is looked for, once the flags could be read.
LEMMA HasPrimaryIs ==
  ASSUME NEW text, NEW p, NEW v \in Versions, NEW r, IsRouter(r), HasEntry(text, p, v, r),
         p + 9 <= Len(text)
  PROVE  HasPrimary(text, p) <=> r.primary # AutoPrimary
<1>1. Entry(v, r)[10].value = IF r.primary = AutoPrimary THEN 0 ELSE 1
  <2>1. IsEntry(v, r, Entry(v, r))
    BY EntryIs DEF Versions
  <2>2. 8 \in 1..8 /\ 2 + 8 = 10
    OBVIOUS
  <2>3. Entry(v, r)[10] = Settings(r)[8]
    BY <2>1, <2>2 DEF IsEntry
  <2>4. Settings(r)[8] = Field("int", IF r.primary = AutoPrimary THEN 0 ELSE 1)
    BY DEF Settings
  <2> QED BY <2>3, <2>4, FieldIs
<1>2. ValueAt(text, p + 9) = Entry(v, r)[10].value
  <2>1. p \in Nat /\ (p - 1) + 10 = p + 9
    BY DEF HasEntry
  <2>2. 10 \in 1..EntryLen(v, r)
    BY NumbersOf
  <2>3. (p - 1) + 10 <= Len(text)
    BY <2>1
  <2>4. text[(p - 1) + 10] = Entry(v, r)[10]
    BY <2>2, <2>3 DEF HasEntry
  <2> QED BY <2>1, <2>3, <2>4 DEF ValueAt
<1>3. HasPrimary(text, p) <=> r.primary # AutoPrimary
  BY <1>1, <1>2 DEF HasPrimary
<1> QED BY <1>3

LEMMA CommandsAtIs ==
  ASSUME NEW text, NEW p, NEW v \in Versions, NEW r, IsRouter(r), HasEntry(text, p, v, r),
         p + 9 <= Len(text)
  PROVE  CommandsAt(text, p) = p + CommandsIn(r)
<1>1. p \in Nat
  BY DEF HasEntry
<1>2. HasPrimary(text, p) <=> r.primary # AutoPrimary
  BY HasPrimaryIs
<1> QED BY <1>1, <1>2 DEF CommandsAt, CommandsIn

LEMMA VlanAtIs ==
  ASSUME NEW text, NEW p, NEW v \in Versions, NEW r, IsRouter(r), HasEntry(text, p, v, r),
         p + 9 <= Len(text)
  PROVE  VlanAt(text, p) = p + VlanIn(v, r)
<1>1. p \in Nat /\ text[1].value = v
  BY DEF HasEntry
<1>2. CommandsAt(text, p) = p + CommandsIn(r)
  BY CommandsAtIs
<1>3. CommandsIn(r) \in Nat
  BY NumbersOf
<1> QED BY <1>1, <1>2, <1>3 DEF VlanAt, VlanIn

LEMMA CountAtIs ==
  ASSUME NEW text, NEW p, NEW v \in Versions, NEW r, IsRouter(r), HasEntry(text, p, v, r),
         p + 9 <= Len(text)
  PROVE  CountAt(text, p) = (p - 1) + CountIn(v, r)
<1>1. p \in Nat /\ text[1].value = v
  BY DEF HasEntry
<1>2. VlanAt(text, p) = p + VlanIn(v, r)
  BY VlanAtIs
<1>3. VlanIn(v, r) \in Nat
  BY NumbersOf
<1> QED BY <1>1, <1>2, <1>3 DEF CountAt, CountIn

\* Whatever is read of an entry, the count is behind its flags.
LEMMA CountIsBehind ==
  ASSUME NEW text, NEW p \in Nat
  PROVE  CountAt(text, p) \in Nat /\ CountAt(text, p) >= p + 10
BY DEF CountAt, VlanAt, CommandsAt

LEMMA WholeIs ==
  ASSUME NEW text, NEW p, NEW v \in Versions, NEW r, IsRouter(r), HasEntry(text, p, v, r),
         NEW last \in 0..Len(text), IsWhole(text, p, last)
  PROVE  /\ p + 9 <= Len(text)
         /\ CountRead(text, p, last) = Cardinality(r.subnets)
         /\ (p - 1) + EntryLen(v, r) <= last
<1>1. p \in Nat /\ Len(text) \in Nat
  BY DEF HasEntry
<1>2. CountAt(text, p) <= last
  <2>1. ASSUME ~(CountAt(text, p) <= last) PROVE FALSE
    <3>1. CountRead(text, p, last) = 0
      BY <2>1 DEF CountRead
    <3>2. CountAt(text, p) + 3 * 0 <= last
      BY <3>1 DEF IsWhole, Whole
    <3> QED BY <1>1, <2>1, <3>2, CountIsBehind
  <2> QED BY <2>1
<1>3. p + 9 <= Len(text)
  BY <1>1, <1>2, CountIsBehind
<1>4. CountAt(text, p) = (p - 1) + CountIn(v, r)
  BY <1>3, CountAtIs
<1>5. CountRead(text, p, last) = Cardinality(r.subnets)
  <2>1. CountRead(text, p, last) = ValueAt(text, (p - 1) + CountIn(v, r))
    BY <1>2, <1>4 DEF CountRead
  <2>2. CountIn(v, r) \in 1..EntryLen(v, r)
    BY NumbersOf
  <2>3. (p - 1) + CountIn(v, r) <= Len(text)
    BY <1>1, <1>2, <1>4, CountIsBehind
  <2>4. Entry(v, r)[CountIn(v, r)].value = Cardinality(r.subnets)
    BY EntryIs DEF Versions, IsEntry
  <2> QED BY <2>1, <2>2, <2>3, <2>4, ValueIs
<1>6. (p - 1) + EntryLen(v, r) <= last
  <2>1. ((p - 1) + CountIn(v, r)) + 3 * Cardinality(r.subnets) <= last
    BY <1>4, <1>5 DEF IsWhole, Whole
  <2> QED BY <1>1, <2>1, NumbersOf
<1> QED BY <1>3, <1>5, <1>6

LEMMA FlagsCome ==
  ASSUME NEW text, NEW p, NEW v \in Versions, NEW r, IsRouter(r), HasEntry(text, p, v, r),
         NEW last \in 0..Len(text), IsWhole(text, p, last)
  PROVE  p + 9 <= Len(text)
BY WholeIs

LEMMA CountReadIs ==
  ASSUME NEW text, NEW p, NEW v \in Versions, NEW r, IsRouter(r), HasEntry(text, p, v, r),
         NEW last \in 0..Len(text), IsWhole(text, p, last)
  PROVE  CountRead(text, p, last) = Cardinality(r.subnets)
BY WholeIs

LEMMA AllComes ==
  ASSUME NEW text, NEW p, NEW v \in Versions, NEW r, IsRouter(r), HasEntry(text, p, v, r),
         NEW last \in 0..Len(text), IsWhole(text, p, last)
  PROVE  (p - 1) + EntryLen(v, r) <= last
BY WholeIs

LEMMA WholeComes ==
  ASSUME NEW text, NEW p, NEW v \in Versions, NEW r, IsRouter(r), HasEntry(text, p, v, r),
         NEW last \in 0..Len(text), (p - 1) + EntryLen(v, r) <= last
  PROVE  IsWhole(text, p, last)
<1>1. p \in Nat /\ Len(text) \in Nat
  BY DEF HasEntry
<1>2. p + 9 <= Len(text) /\ (p - 1) + CountIn(v, r) <= last /\ (p - 1) + CountIn(v, r) <= Len(text)
  BY <1>1, NumbersOf
<1>3. CountAt(text, p) = (p - 1) + CountIn(v, r)
  BY <1>2, CountAtIs
<1>4. CountRead(text, p, last) = Cardinality(r.subnets)
  <2>1. CountRead(text, p, last) = ValueAt(text, (p - 1) + CountIn(v, r))
    BY <1>2, <1>3 DEF CountRead
  <2>2. CountIn(v, r) \in 1..EntryLen(v, r)
    BY NumbersOf
  <2>3. Entry(v, r)[CountIn(v, r)].value = Cardinality(r.subnets)
    BY EntryIs DEF Versions, IsEntry
  <2> QED BY <1>2, <2>1, <2>2, <2>3, ValueIs
<1>5. ((p - 1) + CountIn(v, r)) + 3 * Cardinality(r.subnets) <= last
  BY <1>1, NumbersOf
<1> QED BY <1>3, <1>4, <1>5 DEF IsWhole, Whole

\* Where the next entry is.
LEMMA NextIs ==
  ASSUME NEW text, NEW p, NEW v \in Versions, NEW r, IsRouter(r), HasEntry(text, p, v, r),
         NEW last \in 0..Len(text), IsWhole(text, p, last)
  PROVE  CountAt(text, p) + 1 + 3 * CountRead(text, p, last) = p + EntryLen(v, r)
<1>1. p \in Nat
  BY DEF HasEntry
<1>2. p + 9 <= Len(text)
  BY FlagsCome
<1>3. CountAt(text, p) = (p - 1) + CountIn(v, r)
  BY <1>2, CountAtIs
<1>4. CountRead(text, p, last) = Cardinality(r.subnets)
  BY CountReadIs
<1>5. CountIn(v, r) \in Nat /\ Cardinality(r.subnets) \in Nat
  BY NumbersOf
<1>6. EntryLen(v, r) = CountIn(v, r) + 3 * Cardinality(r.subnets)
  BY NumbersOf
<1> QED BY <1>1, <1>3, <1>4, <1>5, <1>6

\* Field by field.
LEMMA ValuesRead ==
  ASSUME NEW text, NEW p, NEW v \in Versions, NEW r, IsRouter(r), HasEntry(text, p, v, r),
         NEW last \in 0..Len(text), IsWhole(text, p, last),
         NEW k \in 1..EntryLen(v, r)
  PROVE  ValueAt(text, (p - 1) + k) = Entry(v, r)[k].value
<1>1. p \in Nat /\ Len(text) \in Nat
  BY DEF HasEntry
<1>2. EntryLen(v, r) \in Nat
  BY NumbersOf
<1>3. (p - 1) + EntryLen(v, r) <= last
  BY AllComes
<1>4. (p - 1) + k <= Len(text)
  BY <1>1, <1>2, <1>3
<1> QED BY <1>4, ValueIs

LEMMA SettingsRead ==
  ASSUME NEW text, NEW p, NEW v \in Versions, NEW r, IsRouter(r), HasEntry(text, p, v, r),
         NEW last \in 0..Len(text), IsWhole(text, p, last)
  PROVE  /\ ValueAt(text, p + 1) = r.interface
         /\ ValueAt(text, p + 2) = r.vrid
         /\ ValueAt(text, p + 3) = r.family
         /\ ValueAt(text, p + 4) = r.priority
         /\ ValueAt(text, p + 5) = r.interval * 10
         /\ ValueAt(text, p + 6) = r.accept
         /\ ValueAt(text, p + 7) = r.preempt
         /\ ValueAt(text, p + 8) = r.enabled
<1> DEFINE e == Entry(v, r)
<1>1. p \in Nat
  BY DEF HasEntry
<1>2. EntryLen(v, r) \in Nat /\ EntryLen(v, r) >= 11
  BY NumbersOf
<1>3. e[2].value = r.interface /\ \A i \in 1..8 : e[2 + i] = Settings(r)[i]
  BY EntryIs DEF IsEntry, Versions
<1> HIDE DEF e
<1>4. \A k \in 1..EntryLen(v, r) : ValueAt(text, (p - 1) + k) = e[k].value
  BY ValuesRead DEF e
<1>5. ValueAt(text, p + 1) = r.interface
  <2>1. 2 \in 1..EntryLen(v, r) /\ (p - 1) + 2 = p + 1
    BY <1>1, <1>2
  <2> QED BY <1>3, <1>4, <2>1
<1>6. ASSUME NEW i \in 1..7
      PROVE  ValueAt(text, (p + 1) + i) = Settings(r)[i].value
  <2>1. 2 + i \in 1..EntryLen(v, r) /\ (p - 1) + (2 + i) = (p + 1) + i /\ i \in 1..8
    BY <1>1, <1>2
  <2> QED BY <1>3, <1>4, <2>1
<1>7. /\ Settings(r)[1].value = r.vrid
      /\ Settings(r)[2].value = r.family
      /\ Settings(r)[3].value = r.priority
      /\ Settings(r)[4].value = r.interval * 10
      /\ Settings(r)[5].value = r.accept
      /\ Settings(r)[6].value = r.preempt
      /\ Settings(r)[7].value = r.enabled
  BY FieldIs DEF Settings
<1>8. /\ (p + 1) + 1 = p + 2 /\ (p + 1) + 2 = p + 3 /\ (p + 1) + 3 = p + 4 /\ (p + 1) + 4 = p + 5
      /\ (p + 1) + 5 = p + 6 /\ (p + 1) + 6 = p + 7 /\ (p + 1) + 7 = p + 8
  BY <1>1
<1>9. 1 \in 1..7 /\ 2 \in 1..7 /\ 3 \in 1..7 /\ 4 \in 1..7 /\ 5 \in 1..7 /\ 6 \in 1..7 /\ 7 \in 1..7
  OBVIOUS
<1> QED BY <1>5, <1>6, <1>7, <1>8, <1>9, Zenon

LEMMA PrimaryRead ==
  ASSUME NEW text, NEW p, NEW v \in Versions, NEW r, IsRouter(r), HasEntry(text, p, v, r),
         NEW last \in 0..Len(text), IsWhole(text, p, last)
  PROVE  (IF HasPrimary(text, p) THEN ValueAt(text, p + 11) ELSE AutoPrimary) = r.primary
<1>1. HasPrimary(text, p) <=> r.primary # AutoPrimary
  <2>1. p + 9 <= Len(text)
    BY FlagsCome
  <2> QED BY <2>1, HasPrimaryIs
<1>2. ASSUME r.primary # AutoPrimary PROVE ValueAt(text, p + 11) = r.primary
  <2>1. p \in Nat /\ (p - 1) + 12 = p + 11
    BY DEF HasEntry
  <2>2. 12 \in 1..EntryLen(v, r)
    <3>1. CommandsIn(r) = 12
      BY <1>2 DEF CommandsIn
    <3> QED BY <3>1, NumbersOf
  <2>3. Entry(v, r)[12].value = r.primary
    BY <1>2, EntryIs DEF IsEntry, Versions
  <2>4. ValueAt(text, (p - 1) + 12) = Entry(v, r)[12].value
    BY <2>2, ValuesRead
  <2> QED BY <2>1, <2>3, <2>4
<1> QED BY <1>1, <1>2

LEMMA CommandsRead ==
  ASSUME NEW text, NEW p, NEW v \in Versions, NEW r, IsRouter(r), HasEntry(text, p, v, r),
         NEW last \in 0..Len(text), IsWhole(text, p, last), v > 1
  PROVE  /\ ValueAt(text, CommandsAt(text, p) + 1) = Kept(r.master)
         /\ ValueAt(text, CommandsAt(text, p) + 3) = Kept(r.backup)
<1> DEFINE c == CommandsIn(r)
<1>1. p \in Nat /\ c \in Nat
  BY NumbersOf DEF HasEntry
<1>2. CommandsAt(text, p) = p + c
  <2>1. p + 9 <= Len(text)
    BY FlagsCome
  <2> QED BY <2>1, CommandsAtIs
<1>3. c + 2 \in 1..EntryLen(v, r) /\ c + 4 \in 1..EntryLen(v, r)
  <2>1. VlanIn(v, r) = c + 4
    BY DEF VlanIn
  <2> QED BY <2>1, NumbersOf
<1>4. Entry(v, r)[c + 2].value = Kept(r.master) /\ Entry(v, r)[c + 4].value = Kept(r.backup)
  BY EntryIs DEF IsEntry, Versions
<1> HIDE DEF c
<1>5. (p - 1) + (c + 2) = (p + c) + 1 /\ (p - 1) + (c + 4) = (p + c) + 3
  BY <1>1
<1>6. ValueAt(text, (p - 1) + (c + 2)) = Entry(v, r)[c + 2].value
  BY <1>3, ValuesRead
<1>7. ValueAt(text, (p - 1) + (c + 4)) = Entry(v, r)[c + 4].value
  BY <1>3, ValuesRead
<1> QED BY <1>2, <1>4, <1>5, <1>6, <1>7

LEMMA VlanRead ==
  ASSUME NEW text, NEW p, NEW v \in Versions, NEW r, IsRouter(r), HasEntry(text, p, v, r),
         NEW last \in 0..Len(text), IsWhole(text, p, last), v > 2
  PROVE  ValueAt(text, VlanAt(text, p)) = r.vlanId
<1> DEFINE c == VlanIn(v, r)
<1>1. p \in Nat /\ c \in Nat
  BY NumbersOf DEF HasEntry
<1>2. VlanAt(text, p) = p + c
  <2>1. p + 9 <= Len(text)
    BY FlagsCome
  <2> QED BY <2>1, VlanAtIs
<1>3. c + 1 \in 1..EntryLen(v, r)
  BY NumbersOf
<1>4. Entry(v, r)[c + 1].value = r.vlanId
  BY EntryIs DEF IsEntry, Versions
<1> HIDE DEF c
<1>5. (p - 1) + (c + 1) = p + c
  BY <1>1
<1>6. ValueAt(text, (p - 1) + (c + 1)) = Entry(v, r)[c + 1].value
  BY <1>3, ValuesRead
<1> QED BY <1>2, <1>4, <1>5, <1>6

LEMMA SubnetsRead ==
  ASSUME NEW text, NEW p, NEW v \in Versions, NEW r, IsRouter(r), HasEntry(text, p, v, r),
         NEW last \in 0..Len(text), IsWhole(text, p, last)
  PROVE  LET c == CountAt(text, p)
         IN {[address |-> ValueAt(text, c + 3 * j - 1), cidr |-> ValueAt(text, c + 3 * j)] :
               j \in 1..ValueAt(text, c)} = r.subnets
<1> DEFINE n == Cardinality(r.subnets)
           c == CountIn(v, r)
           f == SetToSeq(r.subnets)
           at == CountAt(text, p)
<1>1. p \in Nat /\ c \in Nat /\ n \in Nat /\ EntryLen(v, r) = c + 3 * n
  BY NumbersOf DEF HasEntry
<1>2. at = (p - 1) + c
  <2>1. p + 9 <= Len(text)
    BY FlagsCome
  <2> QED BY <2>1, CountAtIs
<1>3. ValueAt(text, at) = n
  <2>1. c \in 1..EntryLen(v, r)
    BY NumbersOf
  <2>2. Entry(v, r)[c].value = n
    BY EntryIs DEF IsEntry, Versions
  <2>3. ValueAt(text, (p - 1) + c) = Entry(v, r)[c].value
    BY <2>1, ValuesRead
  <2> HIDE DEF c, n, at
  <2> QED BY <1>2, <2>2, <2>3
<1>4. /\ f \in [1..n -> r.subnets]
      /\ \A s \in r.subnets : \E i \in 1..n : f[i] = s
      /\ r.subnets \subseteq AllSubnets
  BY SetToSeqIs DEF IsRouter, RouterRecords, AllSubnets
<1>5. EndsWithSubnets(Entry(v, r), c, r)
  BY EntryIs DEF IsEntry, Versions
<1>6. \A j \in 1..n : /\ Entry(v, r)[c + (3 * j - 1)].value = f[j].address
                      /\ Entry(v, r)[c + 3 * j].value = f[j].cidr
  BY <1>5 DEF EndsWithSubnets
<1> HIDE DEF n, c, f, at
<1>7. ASSUME NEW j \in 1..n
      PROVE  [address |-> ValueAt(text, at + 3 * j - 1), cidr |-> ValueAt(text, at + 3 * j)] = f[j]
  <2>1. /\ c + (3 * j - 1) \in 1..EntryLen(v, r) /\ c + 3 * j \in 1..EntryLen(v, r)
        /\ (p - 1) + (c + (3 * j - 1)) = at + 3 * j - 1 /\ (p - 1) + (c + 3 * j) = at + 3 * j
    BY <1>1, <1>2
  <2>2. ValueAt(text, (p - 1) + (c + (3 * j - 1))) = Entry(v, r)[c + (3 * j - 1)].value
    BY <2>1, ValuesRead
  <2>3. ValueAt(text, (p - 1) + (c + 3 * j)) = Entry(v, r)[c + 3 * j].value
    BY <2>1, ValuesRead
  <2>4. ValueAt(text, at + 3 * j - 1) = f[j].address /\ ValueAt(text, at + 3 * j) = f[j].cidr
    BY <1>6, <2>1, <2>2, <2>3
  <2>5. f[j] \in AllSubnets
    BY <1>4
  <2>6. f[j] = [address |-> f[j].address, cidr |-> f[j].cidr]
    BY <2>5 DEF AllSubnets
  <2> QED BY <2>4, <2>6
<1>8. {[address |-> ValueAt(text, at + 3 * j - 1), cidr |-> ValueAt(text, at + 3 * j)] : j \in 1..n}
        = {f[j] : j \in 1..n}
  BY <1>7, Zenon
<1>9. {f[j] : j \in 1..n} = r.subnets
  BY <1>4
<1> QED BY <1>3, <1>8, <1>9, Zenon DEF at

\* An entry that comes whole is read as it was written.
LEMMA EntryRead ==
  ASSUME NEW text, NEW p, NEW v \in Versions, NEW r, IsRouter(r), HasEntry(text, p, v, r),
         NEW last \in 0..Len(text), IsWhole(text, p, last), NEW vlan
  PROVE  readEntry(text, p, vlan) = ReadAs(v, r, vlan)
<1> DEFINE c == CountAt(text, p)
           subnets == {[address |-> ValueAt(text, c + 3 * j - 1), cidr |-> ValueAt(text, c + 3 * j)] :
                         j \in 1..ValueAt(text, c)}
<1>1. subnets = r.subnets
  BY SubnetsRead
<1>2. text[1].value = v
  BY DEF HasEntry
<1>3. readEntry(text, p, vlan) =
        [interface |-> ValueAt(text, p + 1), vrid |-> ValueAt(text, p + 2), family |-> ValueAt(text, p + 3),
         priority |-> ValueAt(text, p + 4), interval |-> ValueAt(text, p + 5),
         accept |-> ValueAt(text, p + 6), preempt |-> ValueAt(text, p + 7), enabled |-> ValueAt(text, p + 8),
         primary |-> IF HasPrimary(text, p) THEN ValueAt(text, p + 11) ELSE AutoPrimary,
         master |-> IF text[1].value > 1 THEN ValueAt(text, CommandsAt(text, p) + 1) ELSE NoCommand,
         backup |-> IF text[1].value > 1 THEN ValueAt(text, CommandsAt(text, p) + 3) ELSE NoCommand,
         vlanId |-> IF text[1].value > 2 THEN ValueAt(text, VlanAt(text, p)) ELSE vlan,
         subnets |-> subnets]
  BY Zenon DEF readEntry
<1> HIDE DEF c, subnets
<1>4. /\ (IF text[1].value > 1 THEN ValueAt(text, CommandsAt(text, p) + 1) ELSE NoCommand)
           = (IF v > 1 THEN Kept(r.master) ELSE NoCommand)
      /\ (IF text[1].value > 1 THEN ValueAt(text, CommandsAt(text, p) + 3) ELSE NoCommand)
           = (IF v > 1 THEN Kept(r.backup) ELSE NoCommand)
  BY <1>2, CommandsRead
<1>5. (IF text[1].value > 2 THEN ValueAt(text, VlanAt(text, p)) ELSE vlan)
        = (IF v > 2 THEN r.vlanId ELSE vlan)
  BY <1>2, VlanRead
<1>6. (IF HasPrimary(text, p) THEN ValueAt(text, p + 11) ELSE AutoPrimary) = r.primary
  BY PrimaryRead
<1>7. /\ ValueAt(text, p + 1) = r.interface
      /\ ValueAt(text, p + 2) = r.vrid
      /\ ValueAt(text, p + 3) = r.family
      /\ ValueAt(text, p + 4) = r.priority
      /\ ValueAt(text, p + 5) = r.interval * 10
      /\ ValueAt(text, p + 6) = r.accept
      /\ ValueAt(text, p + 7) = r.preempt
      /\ ValueAt(text, p + 8) = r.enabled
  BY SettingsRead
<1> QED BY <1>1, <1>3, <1>4, <1>5, <1>6, <1>7, Zenon DEF ReadAs

-----------------------------------------------------------------------------
(* Reading a file *)

\* What Read computes in readEntries.
Following(text, last, vlan, before) ==
  IF before.at # 0 /\ IsWhole(text, before.at, last)
  THEN [routers |-> Append(before.routers, readEntry(text, before.at, vlan)),
        at      |-> CountAt(text, before.at) + 1 + 3 * CountRead(text, before.at, last)]
  ELSE [before EXCEPT !.at = 0]

NothingRead == [routers |-> <<>>, at |-> 3]

Reads(text, last, vlan, n, f) ==
  /\ f = [i \in 0..n |-> f[i]]
  /\ f[0] = NothingRead
  /\ \A i \in 1..n : f[i] = Following(text, last, vlan, f[i - 1])

LEMMA ReadsExist ==
  ASSUME NEW text, NEW last, NEW vlan, NEW N \in Nat
  PROVE  \E f : Reads(text, last, vlan, N, f)
<1> DEFINE S == {n \in 0..N : \E f : Reads(text, last, vlan, n, f)}
<1>1. 0 \in S
  <2> DEFINE g == [i \in 0..0 |-> NothingRead]
  <2>1. g = [i \in 0..0 |-> g[i]] /\ g[0] = NothingRead
    OBVIOUS
  <2>2. Reads(text, last, vlan, 0, g)
    BY <2>1 DEF Reads
  <2> QED BY <2>2
<1>2. ASSUME NEW n \in 1..N, n - 1 \in S PROVE n \in S
  <2>1. PICK f : Reads(text, last, vlan, n - 1, f)
    BY <1>2
  <2> DEFINE end == Following(text, last, vlan, f[n - 1])
             g == [i \in 0..n |-> IF i = n THEN end ELSE f[i]]
  <2> HIDE DEF end
  <2>2. g = [i \in 0..n |-> g[i]]
    OBVIOUS
  <2>3. /\ \A i \in 0..(n - 1) : g[i] = f[i]
        /\ g[n] = end
    OBVIOUS
  <2> HIDE DEF g
  <2>4. g[0] = NothingRead
    BY <2>1, <2>3 DEF Reads
  <2>5. ASSUME NEW i \in 1..n
        PROVE  g[i] = Following(text, last, vlan, g[i - 1])
    <3>1. CASE i = n
      <4>1. g[n - 1] = f[n - 1]
        BY <2>3
      <4> QED BY <2>3, <3>1, <4>1 DEF end
    <3>2. CASE i < n
      <4>1. g[i - 1] = f[i - 1] /\ g[i] = f[i] /\ i \in 1..(n - 1)
        BY <2>3, <3>2
      <4> QED BY <2>1, <4>1 DEF Reads
    <3> QED BY <3>1, <3>2
  <2>6. Reads(text, last, vlan, n, g)
    BY <2>2, <2>4, <2>5 DEF Reads
  <2> QED BY <2>6
<1> HIDE DEF S
<1>3. 0..N \subseteq S
  BY <1>1, <1>2, UpToLast
<1> QED BY <1>3 DEF S

LEMMA ReadEntriesIs ==
  ASSUME NEW text, NEW vlan, Extent(text).fields >= 2,
         ValueAt(text, 1) \in Versions, ValueAt(text, 2) \in Nat
  PROVE  \E f : /\ Reads(text, Extent(text).fields, vlan, ValueAt(text, 2), f)
                /\ readEntries(text, vlan) = f[ValueAt(text, 2)].routers
<1> DEFINE last == Extent(text).fields
           N == ValueAt(text, 2)
           Is(f) == f = [i \in 0..N |->
                           IF i = 0 THEN NothingRead ELSE Following(text, last, vlan, f[i - 1])]
<1>1. readEntries(text, vlan) = (CHOOSE f : Is(f))[N].routers
  BY Zenon DEF readEntries, NothingRead, Following, IsWhole, CountRead, Versions
<1> HIDE DEF last
<1>2. ASSUME NEW f PROVE Reads(text, last, vlan, N, f) <=> Is(f)
  BY DEF Reads
<1>3. PICK f : Is(f)
  BY <1>2, ReadsExist
<1> HIDE DEF Is
<1>4. Is(CHOOSE g : Is(g))
  BY <1>3
<1> QED BY <1>1, <1>2, <1>4 DEF last

\* A save, or the beginning of one.
Saves(text, v, routers) ==
  \E end \in 0..Len(Image(v, routers)) : text = SubSeq(Image(v, routers), 1, end)

LEMMA SavesAre ==
  ASSUME NEW v \in Versions, NEW routers, Routable(routers), NEW text, Saves(text, v, routers)
  PROVE  /\ text \in Seq(Fields)
         /\ Len(text) <= Len(Image(v, routers))
         /\ \A i \in 1..Len(text) : text[i] = Image(v, routers)[i]
<1> DEFINE image == Image(v, routers)
<1>1. image \in Seq(Fields)
  BY ImageHolds DEF Holds, AreFields
<1> HIDE DEF image
<1>2. PICK end \in 0..Len(image) : text = SubSeq(image, 1, end)
  BY DEF Saves, image
<1>3. \A i \in 1..end : image[i] \in Fields
  BY <1>1, <1>2
<1> QED BY <1>1, <1>2, <1>3 DEF image

\* What is read of a file are the first n of its routers.
FirstRead(entries, v, routers, vlan, n) ==
  /\ entries \in Seq({ReadAs(v, routers[i], vlan) : i \in 1..Len(routers)})
  /\ Len(entries) = n
  /\ \A i \in 1..n : entries[i] = ReadAs(v, routers[i], vlan)

Complete(text, v, routers) ==
  Extent(text).fields = Len(text) /\ Len(text) = Len(Image(v, routers))

LEMMA ReadBack ==
  ASSUME NEW v \in Versions, NEW routers, Routable(routers), NEW text, Saves(text, v, routers),
         NEW vlan
  PROVE  \E n \in 0..Len(routers) :
           /\ FirstRead(readEntries(text, vlan), v, routers, vlan, n)
           /\ n > 0 => Len(text) >= 1 /\ text[1].value = v
           /\ Complete(text, v, routers) => n = Len(routers)
<1> DEFINE N == Len(routers)
           image == Image(v, routers)
           last == Extent(text).fields
           es == readEntries(text, vlan)
           R == {ReadAs(v, routers[i], vlan) : i \in 1..N}
<1>1. N \in Nat /\ \A i \in 1..N : /\ IsRouter(routers[i])
                                   /\ EntryLen(v, routers[i]) \in Nat
                                   /\ EntryLen(v, routers[i]) >= 11
  BY EntriesAre
<1>2. PICK at : Begins(v, routers, at) /\ Holds(v, routers, N, at, image)
  BY ImageHolds
<1>3. text \in Seq(Fields) /\ Len(text) <= Len(image) /\ \A i \in 1..Len(text) : text[i] = image[i]
  BY SavesAre
<1>4. last \in 0..Len(text)
  BY <1>3, ExtentType
<1>5. /\ image \in Seq(Fields) /\ Len(image) = at[N] - 1
      /\ image[1].value = v /\ image[2].value = N
  BY <1>2 DEF Holds, AreFields
<1>6. at[0] = 3 /\ at \in [0..N -> Nat] /\ \A i \in 1..N : at[i] = at[i - 1] + EntryLen(v, routers[i])
  BY <1>2 DEF Begins
<1>7. \A i \in 1..N : at[i] <= at[N]
  BY <1>2 DEF Holds
<1>8. \A i \in 1..N : \A k \in 1..EntryLen(v, routers[i]) :
        image[(at[i - 1] - 1) + k] = Entry(v, routers[i])[k]
  BY <1>2 DEF Holds
<1> DEFINE A == {i \in 0..N : at[i] >= 3}
<1>9. \A i \in 0..N : at[i] \in Nat /\ at[i] >= 3
  <2>1. 0 \in A
    BY <1>1, <1>6
  <2>2. ASSUME NEW i \in 1..N, i - 1 \in A PROVE i \in A
    <3>1. i - 1 \in 0..N /\ i \in 0..N /\ at[i - 1] >= 3
      BY <1>1, <2>2
    <3>2. at[i] = at[i - 1] + EntryLen(v, routers[i]) /\ EntryLen(v, routers[i]) \in Nat
      BY <1>1, <1>6
    <3>3. at[i - 1] \in Nat
      BY <1>6, <3>1
    <3>4. at[i] >= 3
      <4> HIDE DEF A, N
      <4> QED BY <3>1, <3>2, <3>3
    <3> QED BY <3>1, <3>4
  <2> HIDE DEF A, N
  <2>3. 0..N \subseteq A
    BY <1>1, <2>1, <2>2, UpToLast
  <2> QED BY <1>6, <2>3 DEF A
<1> HIDE DEF A, N, image, last, es, R
<1>10. CASE last < 2
  <2>1. es = <<>>
    BY <1>4, <1>10 DEF es, last, readEntries
  <2>2. FirstRead(es, v, routers, vlan, 0)
    BY <2>1 DEF FirstRead
  <2>3. ~Complete(text, v, routers)
    <3>1. Len(image) >= 2
      <4>1. N \in 0..N
        BY <1>1
      <4> QED BY <1>5, <1>9, <4>1
    <3> QED BY <1>3, <1>4, <1>10, <3>1 DEF Complete, last, image
  <2>4. 0 \in 0..N
    BY <1>1
  <2>5. ~(0 > 0)
    OBVIOUS
  <2> QED BY <2>2, <2>3, <2>4, <2>5 DEF es, N
<1>11. CASE last >= 2
  <2>1. Len(text) >= 2 /\ Len(text) \in Nat
    BY <1>3, <1>4, <1>11
  <2>2. text[1].value = v /\ ValueAt(text, 1) = v /\ ValueAt(text, 2) = N
    <3>1. 1 \in 1..Len(text) /\ 2 \in 1..Len(text) /\ 1 <= Len(text) /\ 2 <= Len(text)
      BY <2>1
    <3>2. text[1] = image[1] /\ text[2] = image[2]
      BY <1>3, <3>1
    <3> QED BY <1>5, <3>1, <3>2 DEF ValueAt
  <2>3. PICK f : Reads(text, last, vlan, N, f) /\ es = f[N].routers
    BY <1>1, <1>11, <2>2, ReadEntriesIs DEF last, es
  <2>4. ASSUME NEW i \in 1..N PROVE HasEntry(text, at[i - 1], v, routers[i])
    <3> DEFINE p == at[i - 1]
    <3>1. i - 1 \in 0..N
      BY <1>1
    <3>2. p \in Nat /\ p >= 3
      BY <1>9, <3>1
    <3>3. ASSUME NEW k \in 1..EntryLen(v, routers[i]), (p - 1) + k <= Len(text)
          PROVE  text[(p - 1) + k] = Entry(v, routers[i])[k]
      <4>1. image[(p - 1) + k] = Entry(v, routers[i])[k]
        BY <1>8
      <4> HIDE DEF p
      <4>2. (p - 1) + k \in 1..Len(text)
        BY <1>1, <2>1, <3>2, <3>3
      <4> QED BY <1>3, <4>1, <4>2
    <3> QED BY <2>1, <2>2, <3>2, <3>3 DEF HasEntry
  <2> DEFINE S == {i \in 0..N : \E n \in 0..i :
                     /\ FirstRead(f[i].routers, v, routers, vlan, n)
                     /\ f[i] = [routers |-> f[i].routers, at |-> f[i].at]
                     /\ f[i].at # 0 => n = i /\ f[i].at = at[i]
                     /\ Complete(text, v, routers) => f[i].at # 0}
  <2>5. 0 \in S
    <3>1. f[0] = NothingRead
      BY <2>3 DEF Reads
    <3>2. f[0].routers = <<>> /\ f[0].at = 3 /\ f[0] = [routers |-> f[0].routers, at |-> f[0].at]
      BY <3>1 DEF NothingRead
    <3>3. FirstRead(f[0].routers, v, routers, vlan, 0)
      BY <3>2 DEF FirstRead
    <3>4. 0 \in 0..0 /\ 3 # 0 /\ 0 \in 0..N
      BY <1>1
    <3> QED BY <1>6, <3>2, <3>3, <3>4
  <2>6. ASSUME NEW i \in 1..N, i - 1 \in S PROVE i \in S
    <3>1. PICK n \in 0..(i - 1) :
            /\ FirstRead(f[i - 1].routers, v, routers, vlan, n)
            /\ f[i - 1] = [routers |-> f[i - 1].routers, at |-> f[i - 1].at]
            /\ f[i - 1].at # 0 => n = i - 1 /\ f[i - 1].at = at[i - 1]
            /\ Complete(text, v, routers) => f[i - 1].at # 0
      BY <2>6
    <3> DEFINE before == f[i - 1]
               p == before.at
    <3>2. f[i] = Following(text, last, vlan, before)
      BY <2>3 DEF Reads
    <3> HIDE DEF before
    <3>3. CASE p # 0 /\ IsWhole(text, p, last)
      <4>1. n = i - 1 /\ p = at[i - 1]
        BY <3>1, <3>3 DEF before
      <4>2. HasEntry(text, p, v, routers[i]) /\ IsRouter(routers[i])
        BY <1>1, <2>4, <4>1
      <4>3. readEntry(text, p, vlan) = ReadAs(v, routers[i], vlan)
        BY <1>4, <3>3, <4>2, EntryRead
      <4>4. CountAt(text, p) + 1 + 3 * CountRead(text, p, last) = p + EntryLen(v, routers[i])
        BY <1>4, <3>3, <4>2, NextIs
      <4>5. f[i] = [routers |-> Append(before.routers, ReadAs(v, routers[i], vlan)),
                    at |-> p + EntryLen(v, routers[i])]
        BY <3>2, <3>3, <4>3, <4>4 DEF Following
      <4>6. /\ f[i].routers = Append(before.routers, ReadAs(v, routers[i], vlan))
            /\ f[i].at = at[i]
            /\ f[i] = [routers |-> f[i].routers, at |-> f[i].at]
        BY <1>6, <4>1, <4>5
      <4>7. at[i] # 0
        BY <1>1, <1>9
      <4>8. FirstRead(Append(before.routers, ReadAs(v, routers[i], vlan)), v, routers, vlan, i)
        <5> DEFINE x == ReadAs(v, routers[i], vlan)
                   s == before.routers
        <5>1. s \in Seq(R) /\ Len(s) = i - 1 /\ \A k \in 1..(i - 1) : s[k] = ReadAs(v, routers[k], vlan)
          BY <3>1, <4>1 DEF FirstRead, before, R, N
        <5>2. x \in R
          BY DEF R
        <5> HIDE DEF s
        <5>3. /\ Append(s, x) \in Seq(R) /\ Len(Append(s, x)) = (i - 1) + 1
              /\ \A k \in 1..(i - 1) : Append(s, x)[k] = s[k]
              /\ Append(s, x)[(i - 1) + 1] = x
          <6> HIDE DEF x
          <6> QED BY <5>1, <5>2, AppendProperties
        <5>4. (i - 1) + 1 = i
          OBVIOUS
        <5>5. ASSUME NEW k \in 1..i PROVE Append(s, x)[k] = ReadAs(v, routers[k], vlan)
          <6>1. CASE k = i
            BY <5>3, <5>4, <6>1
          <6>2. CASE k # i
            <7>1. k \in 1..(i - 1)
              BY <6>2
            <7> QED BY <5>1, <5>3, <7>1
          <6> QED BY <6>1, <6>2
        <5> QED BY <5>3, <5>4, <5>5 DEF FirstRead, s, R, N
      <4>9. i \in 0..i /\ i \in 0..N
        BY <1>1
      <4> QED BY <4>6, <4>7, <4>8, <4>9
    <3>4. CASE ~(p # 0 /\ IsWhole(text, p, last))
      <4>1. f[i] = [before EXCEPT !.at = 0]
        BY <3>2, <3>4 DEF Following
      <4>2. f[i] = [routers |-> before.routers, at |-> 0]
        <5>1. before = [routers |-> before.routers, at |-> before.at]
          BY <3>1 DEF before
        <5> QED BY <4>1, <5>1
      <4>3. f[i].routers = before.routers /\ f[i].at = 0
            /\ f[i] = [routers |-> f[i].routers, at |-> f[i].at]
        BY <4>2
      <4>4. ASSUME Complete(text, v, routers) PROVE FALSE
        <5>1. p # 0 /\ p = at[i - 1]
          BY <3>1, <4>4 DEF before
        <5>2. HasEntry(text, p, v, routers[i]) /\ IsRouter(routers[i])
          BY <1>1, <2>4, <5>1
        <5>3. (p - 1) + EntryLen(v, routers[i]) <= last
          <6>1. at[i] = p + EntryLen(v, routers[i]) /\ at[i] <= at[N] /\ last = at[N] - 1
            BY <1>5, <1>6, <1>7, <4>4, <5>1 DEF Complete, last, image
          <6>2. i \in 0..N /\ i - 1 \in 0..N /\ N \in 0..N
            BY <1>1
          <6>3. p \in Nat /\ at[i] \in Nat /\ at[N] \in Nat /\ EntryLen(v, routers[i]) \in Nat
            BY <1>1, <1>9, <5>1, <6>2
          <6> QED BY <6>1, <6>3
        <5>4. IsWhole(text, p, last)
          BY <1>4, <5>2, <5>3, WholeComes
        <5> QED BY <3>4, <5>1, <5>4
      <4>5. FirstRead(f[i].routers, v, routers, vlan, n)
        BY <3>1, <4>3 DEF before
      <4>6. n \in 0..i /\ i \in 0..N
        BY <1>1
      <4> QED BY <4>3, <4>4, <4>5, <4>6
    <3> QED BY <3>3, <3>4
  <2> HIDE DEF S
  <2>7. N \in S
    <3>1. 0..N \subseteq S
      BY <1>1, <2>5, <2>6, UpToLast
    <3>2. N \in 0..N
      BY <1>1
    <3> QED BY <3>1, <3>2
  <2>8. PICK n \in 0..N : /\ FirstRead(es, v, routers, vlan, n)
                          /\ f[N].at # 0 => n = N
                          /\ Complete(text, v, routers) => f[N].at # 0
    BY <2>3, <2>7 DEF S
  <2>9. Len(text) >= 1
    BY <2>1
  <2> QED BY <2>2, <2>8, <2>9 DEF es, N
<1>12. last < 2 \/ last >= 2
  BY <1>3, <1>4
<1> QED BY <1>10, <1>11, <1>12

-----------------------------------------------------------------------------
(* Routers *)

Record(i, v, f, l, p, n, a, e, b, y, m, c, s) ==
  [interface |-> i, vrid |-> v, family |-> f, vlanId |-> l, priority |-> p,
   interval |-> n, accept |-> a, preempt |-> e, enabled |-> b, primary |-> y,
   master |-> m, backup |-> c, subnets |-> s]

\* An EXCEPT of several fields is beyond the provers; these are its steps.
LEMMA SetInterface ==
  ASSUME NEW i, NEW v, NEW f, NEW l, NEW p, NEW n, NEW a, NEW e, NEW b, NEW y, NEW m, NEW c, NEW s, NEW x
  PROVE  [Record(i, v, f, l, p, n, a, e, b, y, m, c, s) EXCEPT !.interface = x]
           = Record(x, v, f, l, p, n, a, e, b, y, m, c, s)
BY DEF Record

LEMMA SetVlanId ==
  ASSUME NEW i, NEW v, NEW f, NEW l, NEW p, NEW n, NEW a, NEW e, NEW b, NEW y, NEW m, NEW c, NEW s, NEW x
  PROVE  [Record(i, v, f, l, p, n, a, e, b, y, m, c, s) EXCEPT !.vlanId = x]
           = Record(i, v, f, x, p, n, a, e, b, y, m, c, s)
BY DEF Record

LEMMA SetInterval ==
  ASSUME NEW i, NEW v, NEW f, NEW l, NEW p, NEW n, NEW a, NEW e, NEW b, NEW y, NEW m, NEW c, NEW s, NEW x
  PROVE  [Record(i, v, f, l, p, n, a, e, b, y, m, c, s) EXCEPT !.interval = x]
           = Record(i, v, f, l, p, x, a, e, b, y, m, c, s)
BY DEF Record

LEMMA SetPrimary ==
  ASSUME NEW i, NEW v, NEW f, NEW l, NEW p, NEW n, NEW a, NEW e, NEW b, NEW y, NEW m, NEW c, NEW s, NEW x
  PROVE  [Record(i, v, f, l, p, n, a, e, b, y, m, c, s) EXCEPT !.primary = x]
           = Record(i, v, f, l, p, n, a, e, b, x, m, c, s)
BY DEF Record

LEMMA SetMaster ==
  ASSUME NEW i, NEW v, NEW f, NEW l, NEW p, NEW n, NEW a, NEW e, NEW b, NEW y, NEW m, NEW c, NEW s, NEW x
  PROVE  [Record(i, v, f, l, p, n, a, e, b, y, m, c, s) EXCEPT !.master = x]
           = Record(i, v, f, l, p, n, a, e, b, y, x, c, s)
BY DEF Record

LEMMA SetBackup ==
  ASSUME NEW i, NEW v, NEW f, NEW l, NEW p, NEW n, NEW a, NEW e, NEW b, NEW y, NEW m, NEW c, NEW s, NEW x
  PROVE  [Record(i, v, f, l, p, n, a, e, b, y, m, c, s) EXCEPT !.backup = x]
           = Record(i, v, f, l, p, n, a, e, b, y, m, x, s)
BY DEF Record

LEMMA SetSubnets ==
  ASSUME NEW i, NEW v, NEW f, NEW l, NEW p, NEW n, NEW a, NEW e, NEW b, NEW y, NEW m, NEW c, NEW s, NEW x
  PROVE  [Record(i, v, f, l, p, n, a, e, b, y, m, c, s) EXCEPT !.subnets = x]
           = Record(i, v, f, l, p, n, a, e, b, y, m, c, x)
BY DEF Record

LEMMA RecordIs ==
  ASSUME NEW r \in RouterRecords
  PROVE  r = Record(r.interface, r.vrid, r.family, r.vlanId, r.priority, r.interval, r.accept, r.preempt, r.enabled, r.primary, r.master, r.backup, r.subnets)
BY DEF RouterRecords, Record

LEMMA FieldsAre ==
  ASSUME NEW i, NEW v, NEW f, NEW l, NEW p, NEW n, NEW a, NEW e, NEW b, NEW y, NEW m, NEW c, NEW s
  PROVE  /\ Record(i, v, f, l, p, n, a, e, b, y, m, c, s).interface = i
         /\ Record(i, v, f, l, p, n, a, e, b, y, m, c, s).vrid = v
         /\ Record(i, v, f, l, p, n, a, e, b, y, m, c, s).family = f
         /\ Record(i, v, f, l, p, n, a, e, b, y, m, c, s).vlanId = l
         /\ Record(i, v, f, l, p, n, a, e, b, y, m, c, s).priority = p
         /\ Record(i, v, f, l, p, n, a, e, b, y, m, c, s).interval = n
         /\ Record(i, v, f, l, p, n, a, e, b, y, m, c, s).accept = a
         /\ Record(i, v, f, l, p, n, a, e, b, y, m, c, s).preempt = e
         /\ Record(i, v, f, l, p, n, a, e, b, y, m, c, s).enabled = b
         /\ Record(i, v, f, l, p, n, a, e, b, y, m, c, s).primary = y
         /\ Record(i, v, f, l, p, n, a, e, b, y, m, c, s).master = m
         /\ Record(i, v, f, l, p, n, a, e, b, y, m, c, s).backup = c
         /\ Record(i, v, f, l, p, n, a, e, b, y, m, c, s).subnets = s
BY DEF Record

LEMMA ReadIsRecord ==
  ASSUME NEW v, NEW r, NEW vlan
  PROVE  ReadAs(v, r, vlan) =
           Record(r.interface, r.vrid, r.family, IF v > 2 THEN r.vlanId ELSE vlan, r.priority,
                  r.interval * 10, r.accept, r.preempt, r.enabled, r.primary,
                  IF v > 1 THEN Kept(r.master) ELSE NoCommand,
                  IF v > 1 THEN Kept(r.backup) ELSE NoCommand, r.subnets)
BY Zenon DEF ReadAs, Record

\* The settings that a router has after it was read.
HeldAs(v, r, vlan) ==
  Record(r.interface, r.vrid, r.family, IF v > 2 THEN r.vlanId ELSE vlan, r.priority,
         r.interval, r.accept, r.preempt, r.enabled, r.primary,
         IF v > 1 THEN Kept(r.master) ELSE NoCommand,
         IF v > 1 THEN Kept(r.backup) ELSE NoCommand, r.subnets)

WithFour(r, i, m, b, l) == [r EXCEPT !.interval = i, !.master = m, !.backup = b, !.vlanId = l]

LEMMA FourFieldsSet ==
  ASSUME NEW r \in RouterRecords, NEW i, NEW m, NEW b, NEW l
  PROVE  WithFour(r, i, m, b, l) =
           Record(r.interface, r.vrid, r.family, l, r.priority, i, r.accept, r.preempt,
                  r.enabled, r.primary, m, b, r.subnets)
<1>1. [r EXCEPT !.interval = i, !.master = m, !.backup = b, !.vlanId = l] =
        [[[[r EXCEPT !.interval = i] EXCEPT !.master = m] EXCEPT !.backup = b] EXCEPT !.vlanId = l]
  OBVIOUS
<1>2. r = Record(r.interface, r.vrid, r.family, r.vlanId, r.priority, r.interval, r.accept,
                 r.preempt, r.enabled, r.primary, r.master, r.backup, r.subnets)
  BY RecordIs
<1>3. [r EXCEPT !.interval = i] =
        Record(r.interface, r.vrid, r.family, r.vlanId, r.priority, i, r.accept,
               r.preempt, r.enabled, r.primary, r.master, r.backup, r.subnets)
  BY <1>2, SetInterval
<1> DEFINE r1 == [r EXCEPT !.interval = i]
<1> HIDE DEF r1
<1>4. [r1 EXCEPT !.master = m] =
        Record(r.interface, r.vrid, r.family, r.vlanId, r.priority, i, r.accept,
               r.preempt, r.enabled, r.primary, m, r.backup, r.subnets)
  <2>1. r1 = Record(r.interface, r.vrid, r.family, r.vlanId, r.priority, i, r.accept,
               r.preempt, r.enabled, r.primary, r.master, r.backup, r.subnets)
    BY <1>3 DEF r1
  <2> QED BY <2>1, SetMaster
<1> DEFINE r2 == [r1 EXCEPT !.master = m]
<1> HIDE DEF r2
<1>5. [r2 EXCEPT !.backup = b] =
        Record(r.interface, r.vrid, r.family, r.vlanId, r.priority, i, r.accept,
               r.preempt, r.enabled, r.primary, m, b, r.subnets)
  <2>1. r2 = Record(r.interface, r.vrid, r.family, r.vlanId, r.priority, i, r.accept,
               r.preempt, r.enabled, r.primary, m, r.backup, r.subnets)
    BY <1>4 DEF r2
  <2> QED BY <2>1, SetBackup
<1> DEFINE r3 == [r2 EXCEPT !.backup = b]
<1> HIDE DEF r3
<1>6. [r3 EXCEPT !.vlanId = l] =
        Record(r.interface, r.vrid, r.family, l, r.priority, i, r.accept,
               r.preempt, r.enabled, r.primary, m, b, r.subnets)
  <2>1. r3 = Record(r.interface, r.vrid, r.family, r.vlanId, r.priority, i, r.accept,
               r.preempt, r.enabled, r.primary, m, b, r.subnets)
    BY <1>5 DEF r3
  <2> QED BY <2>1, SetVlanId
<1> QED BY <1>1, <1>6, Zenon DEF r1, r2, r3, WithFour

\* The words of the property for what an entry is read as.
LEMMA ReadComesBack ==
  ASSUME NEW v \in Versions, NEW r, IsRouter(r), NEW vlan
  PROVE  ComesBack(v, r, ReadAs(v, r, vlan))
<1> DEFINE i == r.interval * 10
           m == IF v > 1 THEN Kept(r.master) ELSE NoCommand
           b == IF v > 1 THEN Kept(r.backup) ELSE NoCommand
           l == IF v > 2 THEN r.vlanId ELSE vlan
           read == ReadAs(v, r, vlan)
<1>1. r \in RouterRecords
  BY DEF IsRouter
<1>2. read.vlanId = l
  BY DEF ReadAs
<1>3. WithFour(r, i, m, b, l) = read
  <2> HIDE DEF i, m, b, l
  <2>1. read = Record(r.interface, r.vrid, r.family, l, r.priority, i, r.accept, r.preempt,
                      r.enabled, r.primary, m, b, r.subnets)
    BY ReadIsRecord, Zenon DEF i, m, b, l
  <2>2. WithFour(r, i, m, b, l) =
          Record(r.interface, r.vrid, r.family, l, r.priority, i, r.accept, r.preempt,
                 r.enabled, r.primary, m, b, r.subnets)
    <3> HIDE DEF read
    <3> QED BY <1>1, FourFieldsSet
  <2> QED BY <2>1, <2>2, Zenon
<1>4. [r EXCEPT !.interval = @ * 10,
                !.master = IF v > 1 THEN Kept(@) ELSE NoCommand,
                !.backup = IF v > 1 THEN Kept(@) ELSE NoCommand,
                !.vlanId = IF v > 2 THEN @ ELSE read.vlanId]
        = [r EXCEPT !.interval = i, !.master = m, !.backup = b, !.vlanId = l]
  <2>1. (IF v > 2 THEN r.vlanId ELSE read.vlanId) = l
    BY <1>2
  <2> QED BY <2>1, Zenon
<1> QED BY <1>3, <1>4, Zenon DEF ComesBack, WithFour

LEMMA CommandIs ==
  ASSUME NEW v, NEW s \in DOMAIN Size
  PROVE  (IF v > 1 THEN Kept(s) ELSE NoCommand) \in DOMAIN Size
BY KeptIs, FormatAssumption

LEMMA HeldIs ==
  ASSUME NEW v \in Versions, NEW r, IsRouter(r), NEW vlan
  PROVE  [ReadAs(v, r, vlan) EXCEPT !.interval = HeldInterval(ReadAs(v, r, vlan))]
           = HeldAs(v, r, vlan)
<1>1. HeldInterval(ReadAs(v, r, vlan)) = r.interval
  <2>1. r.interval \in Nat
    BY RangesAre DEF IsRouter, RouterRecords
  <2>2. ReadAs(v, r, vlan).interval = r.interval * 10
    BY DEF ReadAs
  <2>3. (r.interval * 10) \div 10 = r.interval
    BY <2>1
  <2> QED BY <2>2, <2>3 DEF HeldInterval
<1> DEFINE i == r.interval * 10
           j == r.interval
<1>2. ReadAs(v, r, vlan) =
           Record(r.interface, r.vrid, r.family, IF v > 2 THEN r.vlanId ELSE vlan, r.priority,
                  i, r.accept, r.preempt, r.enabled, r.primary,
                  IF v > 1 THEN Kept(r.master) ELSE NoCommand,
                  IF v > 1 THEN Kept(r.backup) ELSE NoCommand, r.subnets)
  BY ReadIsRecord, Zenon
<1> HIDE DEF i
<1> QED BY <1>1, <1>2, SetInterval DEF HeldAs

LEMMA RouterType ==
  ASSUME NEW r, IsRouter(r)
  PROVE  /\ r.interface \in Names \cup {Garbage} /\ r.vrid \in Vrids /\ r.family \in Families
         /\ r.vlanId \in Int /\ r.priority \in Priorities /\ r.interval \in Intervals
         /\ r.accept \in BOOLEAN /\ r.preempt \in BOOLEAN /\ r.enabled \in BOOLEAN
         /\ r.primary \in Addresses \cup {AutoPrimary} /\ r.master \in DOMAIN Size
         /\ r.backup \in DOMAIN Size /\ r.subnets \in SUBSET AllSubnets /\ IsFiniteSet(r.subnets)
BY DEF IsRouter, RouterRecords, AllSubnets

LEMMA HeldIsRouter ==
  ASSUME NEW v, NEW r, IsRouter(r), NEW vlan \in Int
  PROVE  IsRouter(HeldAs(v, r, vlan))
<1> DEFINE l == IF v > 2 THEN r.vlanId ELSE vlan
           m == IF v > 1 THEN Kept(r.master) ELSE NoCommand
           c == IF v > 1 THEN Kept(r.backup) ELSE NoCommand
<1>1. l \in Int /\ m \in DOMAIN Size /\ c \in DOMAIN Size
  BY RouterType, CommandIs
<1> HIDE DEF l, m, c
<1>2. HeldAs(v, r, vlan) =
        Record(r.interface, r.vrid, r.family, l, r.priority, r.interval, r.accept, r.preempt,
               r.enabled, r.primary, m, c, r.subnets)
  BY Zenon DEF HeldAs, l, m, c
<1>3. /\ r.interface \in Names \cup {Garbage} /\ r.vrid \in Vrids /\ r.family \in Families
      /\ r.priority \in Priorities /\ r.interval \in Intervals
      /\ r.accept \in BOOLEAN /\ r.preempt \in BOOLEAN /\ r.enabled \in BOOLEAN
      /\ r.primary \in Addresses \cup {AutoPrimary}
      /\ r.subnets \in SUBSET AllSubnets /\ IsFiniteSet(r.subnets)
  BY RouterType
<1> DEFINE q == Record(r.interface, r.vrid, r.family, l, r.priority, r.interval, r.accept,
                       r.preempt, r.enabled, r.primary, m, c, r.subnets)
<1>4. q \in RouterRecords
  BY <1>1, <1>3, Zenon DEF Record, RouterRecords, AllSubnets
<1>5. q.subnets = r.subnets
  BY DEF Record
<1>6. IsRouter(q)
  BY <1>3, <1>4, <1>5, Zenon DEF IsRouter
<1> QED BY <1>2, <1>6, Zenon

WithThree(r, l, s, y) == [r EXCEPT !.vlanId = l, !.subnets = s, !.primary = y]

LEMMA ThreeFieldsSet ==
  ASSUME NEW r \in RouterRecords, NEW l, NEW s, NEW y
  PROVE  WithThree(r, l, s, y) =
           Record(r.interface, r.vrid, r.family, l, r.priority, r.interval, r.accept, r.preempt,
                  r.enabled, y, r.master, r.backup, s)
<1>1. [r EXCEPT !.vlanId = l, !.subnets = s, !.primary = y] =
        [[[r EXCEPT !.vlanId = l] EXCEPT !.subnets = s] EXCEPT !.primary = y]
  OBVIOUS
<1>2. r = Record(r.interface, r.vrid, r.family, r.vlanId, r.priority, r.interval, r.accept,
                 r.preempt, r.enabled, r.primary, r.master, r.backup, r.subnets)
  BY RecordIs
<1> DEFINE r1 == [r EXCEPT !.vlanId = l]
<1>3. r1 = Record(r.interface, r.vrid, r.family, l, r.priority, r.interval, r.accept,
                  r.preempt, r.enabled, r.primary, r.master, r.backup, r.subnets)
  BY <1>2, SetVlanId
<1> DEFINE r2 == [r1 EXCEPT !.subnets = s]
<1> HIDE DEF r1
<1>4. r2 = Record(r.interface, r.vrid, r.family, l, r.priority, r.interval, r.accept,
                  r.preempt, r.enabled, r.primary, r.master, r.backup, s)
  BY <1>3, SetSubnets
<1> HIDE DEF r2
<1>5. [r2 EXCEPT !.primary = y] =
        Record(r.interface, r.vrid, r.family, l, r.priority, r.interval, r.accept, r.preempt,
               r.enabled, y, r.master, r.backup, s)
  BY <1>4, SetPrimary
<1> QED BY <1>1, <1>5, Zenon DEF r1, r2, WithThree

\* A router keeps what an entry leaves out.
LEMMA ThreeIsRouter ==
  ASSUME NEW r, IsRouter(r), NEW q, IsRouter(q), NEW y \in Addresses \cup {AutoPrimary}
  PROVE  /\ IsRouter(WithThree(r, q.vlanId, r.subnets \cup q.subnets, y))
         /\ WithThree(r, q.vlanId, r.subnets \cup q.subnets, y).vrid = r.vrid
         /\ WithThree(r, q.vlanId, r.subnets \cup q.subnets, y).family = r.family
<1> DEFINE s == r.subnets \cup q.subnets
           l == q.vlanId
<1>1. s \in SUBSET AllSubnets /\ IsFiniteSet(s) /\ l \in Int
  BY RouterType, FS_Union
<1> HIDE DEF s, l
<1>2. WithThree(r, l, s, y) =
        Record(r.interface, r.vrid, r.family, l, r.priority, r.interval, r.accept, r.preempt,
               r.enabled, y, r.master, r.backup, s)
  BY ThreeFieldsSet DEF IsRouter
<1>3. IsRouter(Record(r.interface, r.vrid, r.family, l, r.priority, r.interval, r.accept, r.preempt,
               r.enabled, y, r.master, r.backup, s))
  <2> DEFINE w == Record(r.interface, r.vrid, r.family, l, r.priority, r.interval, r.accept,
                         r.preempt, r.enabled, y, r.master, r.backup, s)
  <2>1. /\ r.interface \in Names \cup {Garbage} /\ r.vrid \in Vrids /\ r.family \in Families
        /\ r.priority \in Priorities /\ r.interval \in Intervals
        /\ r.accept \in BOOLEAN /\ r.preempt \in BOOLEAN /\ r.enabled \in BOOLEAN
        /\ r.master \in DOMAIN Size /\ r.backup \in DOMAIN Size
    BY RouterType
  <2>2. w \in RouterRecords
    BY <1>1, <2>1, Zenon DEF Record, RouterRecords, AllSubnets
  <2>3. w.subnets = s
    BY DEF Record
  <2> QED BY <1>1, <2>2, <2>3, Zenon DEF IsRouter
<1>4. /\ WithThree(r, l, s, y).vrid = r.vrid
      /\ WithThree(r, l, s, y).family = r.family
  BY <1>2 DEF Record
<1> QED BY <1>2, <1>3, <1>4 DEF s, l

-----------------------------------------------------------------------------
(* The order of the services *)

Keys == (1..MaxIndex) \X Vrids \X Families

LEMMA KeyType ==
  ASSUME NEW k \in Keys
  PROVE  /\ k = <<k[1], k[2], k[3]>>
         /\ k[1] \in Nat /\ k[2] \in Nat /\ k[2] \in Vrids
         /\ (k[3] = "inet" \/ k[3] = "inet6")
<1>1. k \in (1..MaxIndex) \X Vrids \X Families
  BY DEF Keys
<1>2. k = <<k[1], k[2], k[3]>> /\ k[1] \in 1..MaxIndex /\ k[2] \in Vrids /\ k[3] \in Families
  BY <1>1
<1>3. k[1] \in Nat
  BY <1>2, ConfiguratorAssumption
<1> QED BY <1>2, <1>3, RangesAre DEF Families

LEMMA KeysFinite ==
  ASSUME NEW K \in SUBSET Keys
  PROVE  IsFiniteSet(K)
<1>1. IsFiniteSet(1..MaxIndex)
  BY ConfiguratorAssumption, FS_Interval
<1>2. IsFiniteSet(Vrids)
  <2>1. 1 \in Int /\ 255 \in Int
    BY SMT
  <2>2. IsFiniteSet(1..255)
    BY <2>1, FS_Interval
  <2> QED BY <2>2 DEF Vrids
<1>3. IsFiniteSet(Families)
  <2>1. IsFiniteSet({"inet"})
    BY FS_Singleton
  <2>2. IsFiniteSet({"inet"} \cup {"inet6"})
    BY <2>1, FS_AddElement
  <2>3. Families = {"inet"} \cup {"inet6"}
    BY DEF Families
  <2> QED BY <2>2, <2>3
<1>4. IsFiniteSet(Vrids \X Families)
  BY <1>2, <1>3, FS_Product
<1> DEFINE T == (1..MaxIndex) \X (Vrids \X Families)
           flat == [t \in T |-> <<t[1], t[2][1], t[2][2]>>]
<1>5. IsFiniteSet(T)
  BY <1>1, <1>4, FS_Product
<1>6. flat \in [T -> Keys]
  BY DEF Keys
<1>7. \A k \in Keys : \E t \in T : flat[t] = k
  <2>1. ASSUME NEW k \in Keys PROVE \E t \in T : flat[t] = k
    <3> DEFINE t == <<k[1], <<k[2], k[3]>>>>
    <3>1. k = <<k[1], k[2], k[3]>> /\ k[1] \in 1..MaxIndex /\ k[2] \in Vrids /\ k[3] \in Families
      BY DEF Keys
    <3>2. t \in T
      BY <3>1
    <3>3. flat[t] = k
      BY <3>1, <3>2
    <3> QED BY <3>2, <3>3
  <2> QED BY <2>1
<1>8. IsFiniteSet(Keys)
  <2> HIDE DEF T, flat
  <2>1. flat \in Surjection(T, Keys)
    BY <1>6, <1>7 DEF Surjection
  <2> QED BY <1>5, <2>1, FS_Surjection
<1> QED BY <1>8, FS_Subset

LEMMA BeforeIsOrder ==
  ASSUME NEW k \in Keys, NEW l \in Keys
  PROVE  /\ ~Before(k, k)
         /\ Before(k, l) \/ Before(l, k) \/ k = l
<1>1. /\ k = <<k[1], k[2], k[3]>> /\ k[1] \in Nat /\ k[2] \in Nat /\ (k[3] = "inet" \/ k[3] = "inet6")
      /\ l = <<l[1], l[2], l[3]>> /\ l[1] \in Nat /\ l[2] \in Nat /\ (l[3] = "inet" \/ l[3] = "inet6")
  BY KeyType
<1>2. ~Before(k, k)
  BY <1>1 DEF Before
<1>3. ASSUME ~Before(k, l), ~Before(l, k) PROVE k[1] = l[1] /\ k[2] = l[2] /\ k[3] = l[3]
  BY <1>1, <1>3 DEF Before
<1> QED BY <1>1, <1>2, <1>3, Zenon

LEMMA BeforeIsTransitive ==
  ASSUME NEW k \in Keys, NEW l \in Keys, NEW m \in Keys, Before(k, l), Before(l, m)
  PROVE  Before(k, m)
<1>1. /\ k[1] \in Nat /\ k[2] \in Nat /\ (k[3] = "inet" \/ k[3] = "inet6")
      /\ l[1] \in Nat /\ l[2] \in Nat /\ (l[3] = "inet" \/ l[3] = "inet6")
      /\ m[1] \in Nat /\ m[2] \in Nat /\ (m[3] = "inet" \/ m[3] = "inet6")
  BY KeyType
<1> QED BY <1>1 DEF Before

\* Each service is written once.
LEMMA OrderedIs ==
  ASSUME DOMAIN services \subseteq Keys
  PROVE  /\ Cardinality(DOMAIN services) \in Nat
         /\ Ordered \in [1..Cardinality(DOMAIN services) -> DOMAIN services]
         /\ \A i, j \in 1..Cardinality(DOMAIN services) : Ordered[i] = Ordered[j] => i = j
<1> DEFINE K == DOMAIN services
           n == Cardinality(K)
           below == [k \in K |-> {l \in K : Before(l, k)}]
           rank == [k \in K |-> Rank(k)]
<1>1. IsFiniteSet(K) /\ n \in Nat
  BY KeysFinite, FS_CardinalityType
<1>2. \A k \in K : rank[k] = Cardinality(below[k])
  BY DEF Rank
<1>3. K \subseteq Keys
  OBVIOUS
<1>a. \A i \in 1..n : Ordered[i] = CHOOSE k \in K : rank[k] = i - 1
  BY DEF Ordered
<1>b. Ordered = [i \in 1..n |-> Ordered[i]]
  BY DEF Ordered
<1>c. \A k \in K : \A l \in K : l \in below[k] <=> Before(l, k)
  OBVIOUS
<1>d. \A k \in K : below[k] \in SUBSET K
  OBVIOUS
<1>e. rank = [k \in K |-> rank[k]]
  OBVIOUS
<1> HIDE DEF K, n, below, rank
<1>4. ASSUME NEW k \in K PROVE IsFiniteSet(below[k]) /\ rank[k] \in 0..(n - 1)
  <2>1. IsFiniteSet(below[k]) /\ Cardinality(below[k]) <= n /\ (Cardinality(below[k]) = n => below[k] = K)
    BY <1>1, <1>d, FS_Subset DEF n
  <2>2. k \notin below[k]
    BY <1>3, <1>c, BeforeIsOrder
  <2>3. Cardinality(below[k]) \in Nat
    BY <2>1, FS_CardinalityType
  <2> QED BY <1>1, <1>2, <2>1, <2>2, <2>3
<1>5. ASSUME NEW k \in K, NEW l \in K, Before(k, l) PROVE rank[k] < rank[l]
  <2>1. below[k] \in SUBSET below[l]
    <3>1. ASSUME NEW m \in below[k] PROVE m \in below[l]
      <4>1. m \in K /\ Before(m, k)
        BY <1>c, <1>d
      <4>2. Before(m, l)
        BY <1>3, <1>5, <4>1, BeforeIsTransitive
      <4> QED BY <1>c, <4>1, <4>2
    <3> QED BY <3>1
  <2>2. k \in below[l] /\ k \notin below[k]
    BY <1>3, <1>5, <1>c, BeforeIsOrder
  <2>3. Cardinality(below[k]) <= Cardinality(below[l]) /\ (Cardinality(below[l]) = Cardinality(below[k]) => below[l] = below[k])
    BY <1>4, <2>1, FS_Subset
  <2>4. Cardinality(below[k]) \in Nat /\ Cardinality(below[l]) \in Nat
    BY <1>4, FS_CardinalityType
  <2> QED BY <1>2, <2>2, <2>3, <2>4
<1>6. ASSUME NEW k \in K, NEW l \in K, rank[k] = rank[l] PROVE k = l
  <2>1. rank[k] \in 0..(n - 1)
    BY <1>4
  <2>2. ~Before(k, l) /\ ~Before(l, k)
    BY <1>1, <1>5, <1>6, <2>1
  <2> QED BY <1>3, <2>2, BeforeIsOrder
<1>7. IsFiniteSet(0..(n - 1)) /\ Cardinality(0..(n - 1)) = n
  BY <1>1, FS_Interval
<1>8. rank \in Injection(K, 0..(n - 1))
  <2>1. rank \in [K -> 0..(n - 1)]
    BY <1>4, <1>e
  <2>2. IsInjective(rank)
    BY <1>6, <2>1 DEF IsInjective
  <2> QED BY <2>1, <2>2 DEF Injection
<1>9. rank \in Surjection(K, 0..(n - 1))
  BY <1>1, <1>7, <1>8, FS_Injection DEF n
<1>10. ASSUME NEW i \in 1..n PROVE Ordered[i] \in K /\ rank[Ordered[i]] = i - 1
  <2>1. i - 1 \in 0..(n - 1)
    BY <1>1
  <2>2. \E k \in K : rank[k] = i - 1
    BY <1>9, <2>1 DEF Surjection
  <2> QED BY <1>a, <2>2
<1>11. ASSUME NEW i \in 1..n, NEW j \in 1..n, Ordered[i] = Ordered[j] PROVE i = j
  <2>1. i - 1 = j - 1
    BY <1>10, <1>11
  <2> QED BY <1>1, <2>1
<1>12. Ordered \in [1..n -> K]
  BY <1>10, <1>b
<1> QED BY <1>1, <1>11, <1>12 DEF K, n

-----------------------------------------------------------------------------
(* Restoring *)

NamesType ==
  /\ lastIndex \in 0..MaxIndex
  /\ DOMAIN names \subseteq 1..lastIndex
  /\ \A i \in DOMAIN names : names[i] \in Names
  /\ \A i, j \in DOMAIN names : names[i] = names[j] => i = j

AreServices(s) ==
  /\ DOMAIN s \subseteq Keys
  /\ \A k \in DOMAIN s : IsRouter(s[k]) /\ s[k].vrid = k[2] /\ s[k].family = k[3]

LEMMA HomeIs ==
  ASSUME NamesType, NEW r, r.vrid \in Vrids, r.family \in Families, IndexOf(r.interface) # {}
  PROVE  /\ HomeOf(r) \in Keys
         /\ HomeOf(r)[1] \in DOMAIN names /\ names[HomeOf(r)[1]] = r.interface
         /\ HomeOf(r)[2] = r.vrid /\ HomeOf(r)[3] = r.family
<1> DEFINE i == CHOOSE j \in IndexOf(r.interface) : TRUE
<1>1. i \in IndexOf(r.interface)
  OBVIOUS
<1> HIDE DEF i
<1>2. i \in DOMAIN names /\ names[i] = r.interface
  BY <1>1 DEF IndexOf
<1>3. i \in 1..MaxIndex
  BY <1>2, ConfiguratorAssumption DEF NamesType
<1>4. HomeOf(r) = <<i, r.vrid, r.family>>
  BY DEF HomeOf, KeyOf, i
<1> QED BY <1>2, <1>3, <1>4 DEF Keys

\* Functions on keys that change at one of them.
Extended(s, k, h) == [l \in DOMAIN s \cup {k} |-> IF l = k THEN h ELSE s[l]]
Replaced(s, k, w) == [s EXCEPT ![k] = w]

LEMMA RestoredNew ==
  ASSUME NEW s, NEW k, k \notin DOMAIN s, NEW v \in Versions, NEW q, IsRouter(q), NEW vlan
  PROVE  Restored(s, k, ReadAs(v, q, vlan)) = Extended(s, k, HeldAs(v, q, vlan))
BY HeldIs, Zenon DEF Restored, Extended

LEMMA RestoredAgain ==
  ASSUME NEW s, NEW k, k \in DOMAIN s, NEW v \in Versions, NEW q, IsRouter(q), NEW vlan
  PROVE  Restored(s, k, ReadAs(v, q, vlan)) =
           Replaced(s, k, WithThree(HeldAs(v, q, vlan), s[k].vlanId,
                                    HeldAs(v, q, vlan).subnets \cup s[k].subnets,
                                    IF ReadAs(v, q, vlan).primary = AutoPrimary THEN s[k].primary
                                    ELSE HeldAs(v, q, vlan).primary))
<1> DEFINE r == ReadAs(v, q, vlan)
           held == [r EXCEPT !.interval = HeldInterval(r)]
<1>1. held = HeldAs(v, q, vlan)
  BY HeldIs
<1>2. Restored(s, k, r) =
        [s EXCEPT ![k] = [held EXCEPT !.vlanId = s[k].vlanId,
                                      !.subnets = @ \cup s[k].subnets,
                                      !.primary = IF r.primary = AutoPrimary THEN s[k].primary ELSE @]]
  BY Zenon DEF Restored
<1> HIDE DEF held, r
<1>3. [held EXCEPT !.vlanId = s[k].vlanId,
                   !.subnets = @ \cup s[k].subnets,
                   !.primary = IF r.primary = AutoPrimary THEN s[k].primary ELSE @]
      = WithThree(held, s[k].vlanId, held.subnets \cup s[k].subnets,
                  IF r.primary = AutoPrimary THEN s[k].primary ELSE held.primary)
  BY DEF WithThree
<1>4. Restored(s, k, r) =
        Replaced(s, k, WithThree(held, s[k].vlanId, held.subnets \cup s[k].subnets,
                                 IF r.primary = AutoPrimary THEN s[k].primary ELSE held.primary))
  BY <1>2, <1>3, Zenon DEF Replaced
<1> QED BY <1>1, <1>4, Zenon DEF r

LEMMA RestoredType ==
  ASSUME NEW s, AreServices(s), NEW k \in Keys, NEW v \in Versions, NEW q, IsRouter(q),
         NEW vlan \in Int, k[2] = q.vrid, k[3] = q.family
  PROVE  AreServices(Restored(s, k, ReadAs(v, q, vlan)))
<1> DEFINE h == HeldAs(v, q, vlan)
           new == Restored(s, k, ReadAs(v, q, vlan))
<1>1. IsRouter(h) /\ h.vrid = q.vrid /\ h.family = q.family
  BY HeldIsRouter DEF HeldAs, Record
<1>2. CASE k \notin DOMAIN s
  <2>1. new = Extended(s, k, h)
    BY <1>2, RestoredNew
  <2> HIDE DEF h, new
  <2>2. DOMAIN new = DOMAIN s \cup {k} /\ new[k] = h /\ \A l \in DOMAIN s : new[l] = s[l]
    BY <1>2, <2>1 DEF Extended
  <2> QED BY <1>1, <2>2 DEF AreServices, new
<1>3. CASE k \in DOMAIN s
  <2> DEFINE y == IF ReadAs(v, q, vlan).primary = AutoPrimary THEN s[k].primary ELSE h.primary
             w == WithThree(h, s[k].vlanId, h.subnets \cup s[k].subnets, y)
  <2>1. new = Replaced(s, k, w)
    BY <1>3, RestoredAgain
  <2>2. IsRouter(s[k])
    BY <1>3 DEF AreServices
  <2> HIDE DEF h, new
  <2>3. y \in Addresses \cup {AutoPrimary}
    BY <1>1, <2>2, RouterType
  <2> HIDE DEF y
  <2>4. IsRouter(w)
    BY <1>1, <2>2, <2>3, ThreeIsRouter
  <2>5. w.vrid = h.vrid
    BY <1>1, <2>2, <2>3, ThreeIsRouter
  <2>6. w.family = h.family
    BY <1>1, <2>2, <2>3, ThreeIsRouter
  <2> HIDE DEF w
  <2>7. DOMAIN new = DOMAIN s /\ new[k] = w /\ \A l \in DOMAIN s : l # k => new[l] = s[l]
    BY <1>3, <2>1 DEF Replaced
  <2> QED BY <1>1, <1>3, <2>4, <2>5, <2>6, <2>7 DEF AreServices, new
<1> QED BY <1>2, <1>3

\* What Apply computes in Services.
Applied(s, r, skip) ==
  IF Sane(r) /\ IndexOf(r.interface) # {} /\ (~skip \/ HomeOf(r) \in DOMAIN s)
  THEN Restored(s, HomeOf(r), r)
  ELSE s

Applies(entries, skipped, n, f) ==
  /\ f = [i \in 0..n |-> f[i]]
  /\ f[0] = None
  /\ \A i \in 1..n : f[i] = Applied(f[i - 1], entries[i], i \in skipped)

LEMMA AppliesExist ==
  ASSUME NEW entries, NEW skipped, NEW N \in Nat
  PROVE  \E f : Applies(entries, skipped, N, f)
<1> DEFINE S == {n \in 0..N : \E f : Applies(entries, skipped, n, f)}
<1>1. 0 \in S
  <2> DEFINE g == [i \in 0..0 |-> None]
  <2>1. g = [i \in 0..0 |-> g[i]] /\ g[0] = None
    OBVIOUS
  <2>2. Applies(entries, skipped, 0, g)
    BY <2>1 DEF Applies
  <2> QED BY <2>2
<1>2. ASSUME NEW n \in 1..N, n - 1 \in S PROVE n \in S
  <2>1. PICK f : Applies(entries, skipped, n - 1, f)
    BY <1>2
  <2> DEFINE end == Applied(f[n - 1], entries[n], n \in skipped)
             g == [i \in 0..n |-> IF i = n THEN end ELSE f[i]]
  <2> HIDE DEF end
  <2>2. g = [i \in 0..n |-> g[i]]
    OBVIOUS
  <2>3. /\ \A i \in 0..(n - 1) : g[i] = f[i]
        /\ g[n] = end
    OBVIOUS
  <2> HIDE DEF g
  <2>4. g[0] = None
    BY <2>1, <2>3 DEF Applies
  <2>5. ASSUME NEW i \in 1..n
        PROVE  g[i] = Applied(g[i - 1], entries[i], i \in skipped)
    <3>1. CASE i = n
      <4>1. g[n - 1] = f[n - 1]
        BY <2>3
      <4> QED BY <2>3, <3>1, <4>1 DEF end
    <3>2. CASE i < n
      <4>1. g[i - 1] = f[i - 1] /\ g[i] = f[i] /\ i \in 1..(n - 1)
        BY <2>3, <3>2
      <4> QED BY <2>1, <4>1 DEF Applies
    <3> QED BY <3>1, <3>2
  <2>6. Applies(entries, skipped, n, g)
    BY <2>2, <2>4, <2>5 DEF Applies
  <2> QED BY <2>6
<1> HIDE DEF S
<1>3. 0..N \subseteq S
  BY <1>1, <1>2, UpToLast
<1> QED BY <1>3 DEF S

LEMMA ServicesIs ==
  ASSUME NEW entries, NEW skipped, Len(entries) \in Nat
  PROVE  \E f : /\ Applies(entries, skipped, Len(entries), f)
                /\ Services(entries, skipped) = f[Len(entries)]
<1> DEFINE N == Len(entries)
           Is(f) == f = [i \in 0..N |-> IF i = 0 THEN None ELSE Applied(f[i - 1], entries[i], i \in skipped)]
<1>1. Services(entries, skipped) = (CHOOSE f : Is(f))[N]
  BY Zenon DEF Services, Applied
<1>2. ASSUME NEW f PROVE Applies(entries, skipped, N, f) <=> Is(f)
  BY DEF Applies
<1>3. PICK f : Is(f)
  BY <1>2, AppliesExist
<1> HIDE DEF Is
<1>4. Is(CHOOSE g : Is(g))
  BY <1>3
<1> QED BY <1>1, <1>2, <1>4

LEMMA NoServices == AreServices(None) /\ DOMAIN None = {}
BY DEF AreServices, None

LEMMA ReadFields ==
  ASSUME NEW v, NEW r, NEW vlan
  PROVE  /\ ReadAs(v, r, vlan).interface = r.interface
         /\ ReadAs(v, r, vlan).vrid = r.vrid
         /\ ReadAs(v, r, vlan).family = r.family
         /\ ReadAs(v, r, vlan).priority = r.priority
         /\ ReadAs(v, r, vlan).interval = r.interval * 10
BY DEF ReadAs

\* Whatever is refused and whichever interfaces are gone.
LEMMA ServicesType ==
  ASSUME NamesType, NEW v \in Versions, NEW routers, Routable(routers), NEW vlan \in Int,
         NEW n \in 0..Len(routers), NEW entries, FirstRead(entries, v, routers, vlan, n),
         NEW skipped
  PROVE  AreServices(Services(entries, skipped))
<1>1. Len(entries) = n /\ n \in Nat
  BY EntriesAre DEF FirstRead
<1>2. PICK f : Applies(entries, skipped, n, f) /\ Services(entries, skipped) = f[n]
  BY <1>1, ServicesIs
<1> DEFINE S == {i \in 0..n : AreServices(f[i])}
<1>3. 0 \in S
  BY <1>1, <1>2, NoServices DEF Applies
<1>4. ASSUME NEW i \in 1..n, i - 1 \in S PROVE i \in S
  <2> DEFINE q == routers[i]
             r == entries[i]
  <2>1. i \in 1..Len(routers)
    BY EntriesAre
  <2>2. r = ReadAs(v, q, vlan)
    BY DEF FirstRead
  <2>3. IsRouter(q)
    BY <2>1, EntriesAre
  <2>4. r.vrid = q.vrid /\ r.family = q.family /\ q.vrid \in Vrids /\ q.family \in Families
    BY <2>2, <2>3, ReadFields, RouterType
  <2>5. f[i] = Applied(f[i - 1], r, i \in skipped) /\ AreServices(f[i - 1])
    BY <1>2, <1>4 DEF Applies
  <2> HIDE DEF q, r
  <2>6. ASSUME IndexOf(r.interface) # {}
        PROVE  AreServices(Restored(f[i - 1], HomeOf(r), r))
    <3> DEFINE k == HomeOf(r)
    <3>1. k \in Keys /\ k[2] = q.vrid /\ k[3] = q.family
      BY <2>4, <2>6, HomeIs
    <3> HIDE DEF k
    <3>2. AreServices(Restored(f[i - 1], k, ReadAs(v, q, vlan)))
      BY <2>3, <2>5, <3>1, RestoredType
    <3> QED BY <2>2, <3>2 DEF k
  <2>7. AreServices(f[i])
    BY <2>5, <2>6 DEF Applied
  <2> QED BY <1>1, <2>7
<1> HIDE DEF S
<1>5. 0..n \subseteq S
  BY <1>1, <1>3, <1>4, UpToLast
<1>6. n \in 0..n
  BY <1>1
<1> QED BY <1>2, <1>5, <1>6 DEF S

\* The last three fields to be compared.
Distinct(routers) ==
  \A i, j \in 1..Len(routers) :
    (/\ routers[i].interface = routers[j].interface
     /\ routers[i].vrid = routers[j].vrid
     /\ routers[i].family = routers[j].family)
    => i = j

LEMMA ReadIsSane ==
  ASSUME NEW v, NEW r, IsRouter(r), NEW vlan
  PROVE  Sane(ReadAs(v, r, vlan))
<1>1. \A n \in Intervals : (n * 10) % 10 = 0 /\ n * 10 \in WrittenIntervals
  BY SMTT(30) DEF Intervals, WrittenIntervals
<1>2. r.vrid \in Vrids /\ r.priority \in Priorities /\ r.family \in Families /\ r.interval \in Intervals
  BY RouterType
<1> QED BY <1>1, <1>2, ReadFields DEF Sane

\* Different routers, none of whose interfaces is gone, are restored each for itself.
LEMMA ServicesRestored ==
  ASSUME NamesType, NEW v \in Versions, NEW routers, Routable(routers), Distinct(routers),
         NEW vlan \in Int,
         NEW entries, FirstRead(entries, v, routers, vlan, Len(routers)), NEW skipped,
         \A i \in 1..Len(routers) : IndexOf(routers[i].interface) # {}
  PROVE  \A i \in 1..Len(routers) :
           IF HomeOf(routers[i]) \in DOMAIN Services(entries, skipped)
           THEN Services(entries, skipped)[HomeOf(routers[i])] = HeldAs(v, routers[i], vlan)
           ELSE i \in skipped
<1> DEFINE N == Len(routers)
           home == [i \in 1..N |-> HomeOf(routers[i])]
<1>1. N \in Nat /\ \A i \in 1..N : IsRouter(routers[i])
  BY EntriesAre
<1>2. PICK f : Applies(entries, skipped, N, f) /\ Services(entries, skipped) = f[N]
  BY <1>1, ServicesIs DEF FirstRead
<1>3. ASSUME NEW i \in 1..N, NEW j \in 1..N, home[i] = home[j] PROVE i = j
  <2> DEFINE q == routers[i]
             r == routers[j]
  <2>1. q.vrid \in Vrids /\ q.family \in Families /\ r.vrid \in Vrids /\ r.family \in Families
    BY <1>1, RouterType
  <2>2. IndexOf(q.interface) # {} /\ IndexOf(r.interface) # {}
    OBVIOUS
  <2>3. HomeOf(q) = HomeOf(r)
    BY <1>3
  <2> HIDE DEF q, r
  <2>4. names[HomeOf(q)[1]] = q.interface /\ HomeOf(q)[2] = q.vrid /\ HomeOf(q)[3] = q.family
    BY <2>1, <2>2, HomeIs
  <2>5. names[HomeOf(r)[1]] = r.interface /\ HomeOf(r)[2] = r.vrid /\ HomeOf(r)[3] = r.family
    BY <2>1, <2>2, HomeIs
  <2>6. q.interface = r.interface /\ q.vrid = r.vrid /\ q.family = r.family
    BY <2>3, <2>4, <2>5
  <2> QED BY <2>6 DEF Distinct, q, r
<1>4. ASSUME NEW i \in 1..N
      PROVE  entries[i] = ReadAs(v, routers[i], vlan) /\ HomeOf(entries[i]) = home[i]
  <2>1. entries[i] = ReadAs(v, routers[i], vlan)
    BY DEF FirstRead
  <2> QED BY <2>1, ReadFields DEF HomeOf, KeyOf
<1> HIDE DEF home, N
<1> DEFINE S == {n \in 0..N :
                   /\ \A k \in DOMAIN f[n] : \E i \in 1..n : k = home[i]
                   /\ \A i \in 1..n : IF home[i] \in DOMAIN f[n]
                                      THEN f[n][home[i]] = HeldAs(v, routers[i], vlan)
                                      ELSE i \in skipped}
<1>5. 0 \in S
  <2>1. DOMAIN f[0] = {} /\ 0 \in 0..N /\ 1..0 = {}
    BY <1>1, <1>2, NoServices DEF Applies
  <2> QED BY <2>1
<1>6. ASSUME NEW n \in 1..N, n - 1 \in S PROVE n \in S
  <2> DEFINE s == f[n - 1]
             q == routers[n]
             k == home[n]
             h == HeldAs(v, q, vlan)
  <2>1. /\ \A l \in DOMAIN s : \E i \in 1..(n - 1) : l = home[i]
        /\ \A i \in 1..(n - 1) : IF home[i] \in DOMAIN s
                                 THEN s[home[i]] = HeldAs(v, routers[i], vlan)
                                 ELSE i \in skipped
    BY <1>6
  <2>2. \A i \in 1..(n - 1) : home[i] # k
    BY <1>1, <1>3
  <2>3. k \notin DOMAIN s
    BY <2>1, <2>2
  <2>4. IsRouter(q) /\ IndexOf(q.interface) # {} /\ entries[n] = ReadAs(v, q, vlan) /\ HomeOf(entries[n]) = k
    BY <1>1, <1>4 DEF N
  <2>5. Sane(entries[n]) /\ IndexOf(entries[n].interface) # {}
    BY <2>4, ReadIsSane, ReadFields
  <2>6. f[n] = Applied(s, entries[n], n \in skipped)
    BY <1>2 DEF Applies
  <2> HIDE DEF s, q, k, h
  <2>7. n \in 0..N
    BY <1>1
  <2>8. CASE n \in skipped
    <3>1. f[n] = s
      BY <2>3, <2>4, <2>6, <2>8 DEF Applied
    <3>2. \A l \in DOMAIN s : \E i \in 1..n : l = home[i]
      <4>1. 1..(n - 1) \subseteq 1..n
        OBVIOUS
      <4> QED BY <2>1, <4>1
    <3>3. ASSUME NEW i \in 1..n
          PROVE  IF home[i] \in DOMAIN s
                 THEN s[home[i]] = HeldAs(v, routers[i], vlan)
                 ELSE i \in skipped
      <4>1. CASE i = n
        BY <2>3, <2>8, <4>1 DEF k
      <4>2. CASE i # n
        <5>1. i \in 1..(n - 1)
          BY <4>2
        <5> QED BY <2>1, <5>1
      <4> QED BY <4>1, <4>2
    <3> QED BY <2>7, <3>1, <3>2, <3>3
  <2>9. CASE n \notin skipped
    <3>1. f[n] = Extended(s, k, h)
      <4>1. f[n] = Restored(s, k, ReadAs(v, q, vlan))
        BY <2>4, <2>5, <2>6, <2>9 DEF Applied
      <4> QED BY <2>3, <2>4, <4>1, RestoredNew DEF h
    <3> DEFINE t == f[n]
    <3>2. DOMAIN t = DOMAIN s \cup {k} /\ t[k] = h /\ \A l \in DOMAIN s : t[l] = s[l]
      BY <2>3, <3>1 DEF Extended
    <3> HIDE DEF t
    <3>3. ASSUME NEW l \in DOMAIN t PROVE \E i \in 1..n : l = home[i]
      <4>1. CASE l = k
        <5>1. n \in 1..n
          BY <1>1
        <5> QED BY <4>1, <5>1 DEF k
      <4>2. CASE l \in DOMAIN s
        <5>1. 1..(n - 1) \subseteq 1..n
          OBVIOUS
        <5> QED BY <2>1, <4>2, <5>1
      <4> QED BY <3>2, <4>1, <4>2
    <3>4. ASSUME NEW i \in 1..n
          PROVE  IF home[i] \in DOMAIN t
                 THEN t[home[i]] = HeldAs(v, routers[i], vlan)
                 ELSE i \in skipped
      <4>1. CASE i = n
        BY <3>2, <4>1 DEF k, h, q
      <4>2. CASE i # n
        <5>1. i \in 1..(n - 1)
          BY <4>2
        <5>2. home[i] # k
          BY <2>2, <5>1
        <5>3. home[i] \in DOMAIN t <=> home[i] \in DOMAIN s
          BY <3>2, <5>2
        <5>4. home[i] \in DOMAIN s => t[home[i]] = s[home[i]]
          BY <3>2
        <5> QED BY <2>1, <5>1, <5>3, <5>4
      <4> QED BY <4>1, <4>2
    <3> QED BY <2>7, <3>3, <3>4 DEF t
  <2> QED BY <2>8, <2>9
<1> HIDE DEF S
<1>7. 0..N \subseteq S
  BY <1>1, <1>5, <1>6, UpToLast
<1>8. N \in S
  <2>1. N \in 0..N
    BY <1>1
  <2> QED BY <1>7, <2>1
<1>9. \A i \in 1..N : IF home[i] \in DOMAIN f[N]
                      THEN f[N][home[i]] = HeldAs(v, routers[i], vlan)
                      ELSE i \in skipped
  BY <1>8 DEF S
<1> QED BY <1>2, <1>9 DEF home, N

-----------------------------------------------------------------------------
(* Saving *)

Named(r, x) == [r EXCEPT !.interface = x]

LEMMA NamedIsRecord ==
  ASSUME NEW r, IsRouter(r), NEW x
  PROVE  Named(r, x) =
           Record(x, r.vrid, r.family, r.vlanId, r.priority, r.interval, r.accept, r.preempt,
                  r.enabled, r.primary, r.master, r.backup, r.subnets)
<1>1. r = Record(r.interface, r.vrid, r.family, r.vlanId, r.priority, r.interval, r.accept,
                 r.preempt, r.enabled, r.primary, r.master, r.backup, r.subnets)
  BY RecordIs DEF IsRouter
<1>2. [r EXCEPT !.interface = x] =
        Record(x, r.vrid, r.family, r.vlanId, r.priority, r.interval, r.accept, r.preempt,
               r.enabled, r.primary, r.master, r.backup, r.subnets)
  BY <1>1, SetInterface
<1> QED BY <1>2, Zenon DEF Named

LEMMA NamedIsRouter ==
  ASSUME NEW r, IsRouter(r), NEW x \in Names \cup {Garbage}
  PROVE  IsRouter(Named(r, x))
<1>1. IsRouter(Record(x, r.vrid, r.family, r.vlanId, r.priority, r.interval, r.accept, r.preempt,
                      r.enabled, r.primary, r.master, r.backup, r.subnets))
  <2>1. /\ r.vrid \in Vrids /\ r.family \in Families /\ r.vlanId \in Int
        /\ r.priority \in Priorities /\ r.interval \in Intervals
        /\ r.accept \in BOOLEAN /\ r.preempt \in BOOLEAN /\ r.enabled \in BOOLEAN
        /\ r.primary \in Addresses \cup {AutoPrimary} /\ r.master \in DOMAIN Size
        /\ r.backup \in DOMAIN Size /\ r.subnets \in SUBSET AllSubnets /\ IsFiniteSet(r.subnets)
    BY RouterType
  <2>2. Record(x, r.vrid, r.family, r.vlanId, r.priority, r.interval, r.accept, r.preempt,
               r.enabled, r.primary, r.master, r.backup, r.subnets) \in RouterRecords
    BY <2>1, Zenon DEF Record, RouterRecords, AllSubnets
  <2>3. Record(x, r.vrid, r.family, r.vlanId, r.priority, r.interval, r.accept, r.preempt,
               r.enabled, r.primary, r.master, r.backup, r.subnets).subnets = r.subnets
    BY DEF Record
  <2> QED BY <2>1, <2>2, <2>3, Zenon DEF IsRouter
<1> QED BY <1>1, NamedIsRecord

LEMMA NamedIs ==
  ASSUME NEW r, IsRouter(r), NEW x
  PROVE  Named(r, x).interface = x /\ Named(r, x).vrid = r.vrid /\ Named(r, x).family = r.family
<1> DEFINE q == Named(r, x)
<1>1. q = Record(x, r.vrid, r.family, r.vlanId, r.priority, r.interval, r.accept, r.preempt,
                 r.enabled, r.primary, r.master, r.backup, r.subnets)
  BY NamedIsRecord
<1> HIDE DEF q
<1>2. q.interface = x /\ q.vrid = r.vrid /\ q.family = r.family
  BY <1>1 DEF Record
<1> QED BY <1>2 DEF q

\* What is written are routers; and different ones, when each has its interface's name.
LEMMA ToSaveIs ==
  ASSUME NamesType, AreServices(services), NEW written \in Ifname
  PROVE  /\ Routable(ToSave(written))
         /\ (\A k \in DOMAIN services : k[1] \in DOMAIN names) => Distinct(ToSave(written))
<1> DEFINE n == Cardinality(DOMAIN services)
           order == Ordered
           routers == ToSave(written)
<1>1. /\ n \in Nat
      /\ order \in [1..n -> DOMAIN services]
      /\ \A i, j \in 1..n : order[i] = order[j] => i = j
  BY OrderedIs DEF AreServices
<1>2. /\ written \in [DOMAIN order -> Names \cup {Garbage}]
      /\ \A i \in DOMAIN order : order[i][1] \in DOMAIN names => written[i] = names[order[i][1]]
  BY DEF Ifname
<1>3. routers = [i \in DOMAIN order |-> Named(services[order[i]], written[i])]
  BY Zenon DEF ToSave, Named
<1> HIDE DEF n, order, routers
<1>4. DOMAIN order = 1..n
  BY <1>1
<1>5. ASSUME NEW i \in 1..n
      PROVE  /\ order[i] \in DOMAIN services /\ order[i] \in Keys
             /\ IsRouter(services[order[i]])
             /\ services[order[i]].vrid = order[i][2]
             /\ services[order[i]].family = order[i][3]
             /\ written[i] \in Names \cup {Garbage}
             /\ routers[i] = Named(services[order[i]], written[i])
  <2>1. order[i] \in DOMAIN services /\ routers[i] = Named(services[order[i]], written[i])
    BY <1>1, <1>3, <1>4
  <2>2. written[i] \in Names \cup {Garbage}
    BY <1>2, <1>4
  <2> QED BY <2>1, <2>2 DEF AreServices
<1>6. ASSUME NEW i \in 1..n
      PROVE  /\ IsRouter(routers[i])
             /\ routers[i].interface = written[i]
             /\ routers[i].vrid = order[i][2]
             /\ routers[i].family = order[i][3]
  <2> DEFINE q == services[order[i]]
  <2>1. IsRouter(q) /\ q.vrid = order[i][2] /\ q.family = order[i][3]
    BY <1>5
  <2>2. routers[i] = Named(q, written[i]) /\ written[i] \in Names \cup {Garbage}
    BY <1>5
  <2> HIDE DEF q
  <2> QED BY <2>1, <2>2, NamedIs, NamedIsRouter
<1>7. DOMAIN routers = 1..n
  BY <1>3, <1>4
<1>8. routers \in Seq(RouterRecords) /\ Len(routers) = n
  <2>1. routers = [i \in 1..n |-> routers[i]]
    BY <1>3, <1>4
  <2>2. \A i \in 1..n : routers[i] \in RouterRecords
    BY <1>6 DEF IsRouter
  <2> QED BY <1>1, <2>1, <2>2
<1>9. Routable(routers)
  BY <1>6, <1>7, <1>8 DEF Routable
<1>10. ASSUME \A k \in DOMAIN services : k[1] \in DOMAIN names,
              NEW i \in 1..n, NEW j \in 1..n,
              routers[i].interface = routers[j].interface,
              routers[i].vrid = routers[j].vrid,
              routers[i].family = routers[j].family
       PROVE  i = j
  <2>1. /\ order[i][1] \in DOMAIN names /\ order[j][1] \in DOMAIN names
        /\ names[order[i][1]] = names[order[j][1]]
    BY <1>2, <1>4, <1>5, <1>6, <1>10
  <2>2. order[i][1] = order[j][1]
    BY <2>1 DEF NamesType
  <2>3. order[i][2] = order[j][2] /\ order[i][3] = order[j][3]
    BY <1>6, <1>10
  <2>4. /\ order[i] = <<order[i][1], order[i][2], order[i][3]>>
        /\ order[j] = <<order[j][1], order[j][2], order[j][3]>>
    BY <1>5, KeyType
  <2>5. order[i] = order[j]
    BY <2>2, <2>3, <2>4, Zenon
  <2> QED BY <1>1, <2>5
<1>11. (\A k \in DOMAIN services : k[1] \in DOMAIN names) => Distinct(routers)
  BY <1>8, <1>10, Zenon DEF Distinct
<1> QED BY <1>9, <1>11 DEF routers

-----------------------------------------------------------------------------
(* The invariant *)

FileType ==
  /\ Routable(saved)
  /\ \E v \in Versions : Saves(file, v, saved) /\ (v = 3 => nameless \/ Distinct(saved))

ConfiguratorInvariant ==
  /\ up \in BOOLEAN /\ nameless \in BOOLEAN /\ refused \subseteq Nat
  /\ NamesType
  /\ AreServices(services)
  /\ FileType

LEMMA WholeIsSave ==
  ASSUME NEW v \in Versions, NEW routers, Routable(routers)
  PROVE  Saves(Image(v, routers), v, routers)
<1> DEFINE image == Image(v, routers)
<1>1. image \in Seq(Fields)
  BY ImageHolds DEF Holds, AreFields
<1> HIDE DEF image
<1>2. Len(image) \in 0..Len(image) /\ image = SubSeq(image, 1, Len(image))
  BY <1>1
<1> QED BY <1>2 DEF Saves, image

LEMMA FirstState == Init => ConfiguratorInvariant
<1> SUFFICES ASSUME Init PROVE ConfiguratorInvariant
  OBVIOUS
<1>1. up \in BOOLEAN /\ nameless \in BOOLEAN /\ refused \subseteq Nat
  BY DEF Init
<1>2. NamesType
  <2>1. names = Interfaces /\ lastIndex = Len(Interfaces)
    BY DEF Init
  <2> QED BY <2>1, ConfiguratorAssumption DEF NamesType
<1>3. AreServices(services)
  BY NoServices DEF Init
<1>4. FileType
  <2>1. PICK old \in OldFiles : file = Image(old.version, old.routers) /\ saved = old.routers
    BY DEF Init
  <2>2. Routable(saved) /\ old.version \in Versions /\ old.version # 3
    BY <2>1, ConfiguratorAssumption DEF Routable, Versions
  <2> DEFINE v == old.version
  <2>3. Saves(file, v, saved)
    BY <2>1, <2>2, WholeIsSave
  <2> QED BY <2>2, <2>3 DEF FileType
<1> QED BY <1>1, <1>2, <1>3, <1>4 DEF ConfiguratorInvariant

LEMMA SaveStep ==
  ASSUME ConfiguratorInvariant, Save
  PROVE  FileType'
<1>a. PICK written \in Ifname :
        \E end \in {Len(Image(3, ToSave(written)))} \cup
                     {n \in Cuts : n < Len(Image(3, ToSave(written)))} :
          /\ file' = SubSeq(Image(3, ToSave(written)), 1, end)
          /\ saved' = ToSave(written)
          /\ nameless' = \E k \in DOMAIN services : k[1] \notin DOMAIN names
  BY Zenon DEF Save, writeConfiguration
<1>1. PICK end \in {Len(Image(3, ToSave(written)))} \cup
                    {n \in Cuts : n < Len(Image(3, ToSave(written)))} :
        /\ file' = SubSeq(Image(3, ToSave(written)), 1, end)
        /\ saved' = ToSave(written)
        /\ nameless' = \E k \in DOMAIN services : k[1] \notin DOMAIN names
  BY <1>a
<1> DEFINE routers == ToSave(written)
           image == Image(3, routers)
<1>2. /\ Routable(routers)
      /\ (\A k \in DOMAIN services : k[1] \in DOMAIN names) => Distinct(routers)
  BY ToSaveIs DEF ConfiguratorInvariant
<1>3. 3 \in Versions
  BY DEF Versions
<1> HIDE DEF routers
<1>4. image \in Seq(Fields)
  BY <1>2, <1>3, ImageHolds DEF Holds, AreFields
<1>5. file' = SubSeq(image, 1, end) /\ saved' = routers
      /\ (end = Len(image) \/ (end \in Cuts /\ end < Len(image)))
  BY <1>1 DEF routers
<1> HIDE DEF image
<1>6. end \in 0..Len(image)
  <2>1. Len(image) \in Nat
    BY <1>4
  <2>2. end \in Cuts => end \in Nat
    BY ConfiguratorAssumption
  <2> QED BY <1>5, <2>1, <2>2
<1>7. Saves(file', 3, routers)
  BY <1>5, <1>6 DEF Saves, image
<1>8. nameless' \/ Distinct(routers)
  BY <1>1, <1>2
<1>9. Routable(saved') /\ Saves(file', 3, saved') /\ (nameless' \/ Distinct(saved'))
  BY <1>2, <1>5, <1>7, <1>8
<1> QED BY <1>3, <1>9 DEF FileType, Routable, Saves, Distinct

LEMMA StartStep ==
  ASSUME ConfiguratorInvariant, Start
  PROVE  AreServices(services') /\ refused' \subseteq Nat
<1>a. PICK vlan \in VlanValues :
        \E skipped \in SUBSET DOMAIN readEntries(file, vlan) :
          /\ services' = Services(readEntries(file, vlan), skipped)
          /\ refused' = skipped
  BY Zenon DEF Start, readConfiguration
<1>1. PICK skipped \in SUBSET DOMAIN readEntries(file, vlan) :
        /\ services' = Services(readEntries(file, vlan), skipped)
        /\ refused' = skipped
  BY <1>a
<1>2. PICK v \in Versions : Saves(file, v, saved)
  BY DEF ConfiguratorInvariant, FileType
<1> DEFINE entries == readEntries(file, vlan)
<1>3. PICK n \in 0..Len(saved) : FirstRead(entries, v, saved, vlan, n)
  BY <1>2, ReadBack DEF ConfiguratorInvariant, FileType
<1>4. vlan \in Int /\ NamesType /\ Routable(saved)
  BY ConfiguratorAssumption DEF ConfiguratorInvariant, FileType
<1> HIDE DEF entries
<1>5. AreServices(Services(entries, skipped))
  BY <1>3, <1>4, ServicesType
<1>6. skipped \subseteq Nat
  <2>1. Len(entries) \in Nat /\ DOMAIN entries = 1..Len(entries)
    BY <1>3, EntriesAre DEF FirstRead
  <2> QED BY <1>1, <2>1 DEF entries
<1> QED BY <1>1, <1>5, <1>6 DEF entries

LEMMA InvariantStep == ConfiguratorInvariant /\ [Next]_vars => ConfiguratorInvariant'
<1> SUFFICES ASSUME ConfiguratorInvariant, [Next]_vars PROVE ConfiguratorInvariant'
  OBVIOUS
<1> USE DEF ConfiguratorInvariant
<1>1. ASSUME UNCHANGED <<names, lastIndex>> PROVE NamesType'
  BY <1>1 DEF NamesType
<1>2. ASSUME UNCHANGED services PROVE AreServices(services')
  BY <1>2
<1>3. ASSUME UNCHANGED <<file, saved, nameless>> PROVE FileType'
  BY <1>3 DEF FileType
<1>4. CASE Save
  <2>1. up' \in BOOLEAN /\ nameless' \in BOOLEAN /\ refused' \subseteq Nat
    BY <1>4 DEF Save, writeConfiguration
  <2>2. UNCHANGED <<names, lastIndex, services>>
    BY <1>4 DEF Save
  <2>3. FileType'
    BY <1>4, SaveStep
  <2> QED BY <1>1, <1>2, <2>1, <2>2, <2>3
<1>5. CASE Start
  <2>1. up' \in BOOLEAN /\ UNCHANGED <<names, lastIndex, file, saved, nameless>>
    BY <1>5 DEF Start
  <2>2. AreServices(services') /\ refused' \subseteq Nat
    BY <1>5, StartStep
  <2> QED BY <1>1, <1>3, <2>1, <2>2
<1>6. CASE Ends
  <2>1. /\ up' \in BOOLEAN /\ UNCHANGED <<names, lastIndex, file, saved, nameless>> /\ services' = None
        /\ refused' = {}
    BY <1>6 DEF Ends
  <2> QED BY <1>1, <1>3, <2>1, NoServices
<1>7. ASSUME NEW r \in Routers, SetRouter(r) PROVE ConfiguratorInvariant'
  <2>1. UNCHANGED <<up, names, lastIndex, file, saved, nameless>> /\ refused' = {}
    BY <1>7 DEF SetRouter
  <2>2. PICK i \in IndexOf(r.interface) :
          services' = [l \in DOMAIN services \cup {KeyOf(i, r)} |->
                         IF l = KeyOf(i, r) THEN r ELSE services[l]]
    BY <1>7, Zenon DEF SetRouter
  <2> DEFINE k == KeyOf(i, r)
  <2>3. IsRouter(r)
    BY ConfiguratorAssumption
  <2>4. k \in Keys /\ k[2] = r.vrid /\ k[3] = r.family
    <3>1. i \in 1..MaxIndex
      BY <2>2, ConfiguratorAssumption DEF IndexOf, NamesType
    <3> QED BY <2>3, <3>1, RouterType DEF KeyOf, Keys
  <2>5. services' = [l \in DOMAIN services \cup {k} |-> IF l = k THEN r ELSE services[l]]
    BY <2>2
  <2> HIDE DEF k
  <2>6. /\ DOMAIN services' = DOMAIN services \cup {k} /\ services'[k] = r
        /\ \A l \in DOMAIN services : l # k => services'[l] = services[l]
    BY <2>5
  <2>7. AreServices(services')
    BY <2>3, <2>4, <2>6 DEF AreServices
  <2> QED BY <1>1, <1>3, <2>1, <2>7
<1>8. ASSUME NEW k \in DOMAIN services, RemoveRouter(k) PROVE ConfiguratorInvariant'
  <2>1. UNCHANGED <<up, names, lastIndex, file, saved, nameless>> /\ refused' = {}
    BY <1>8 DEF RemoveRouter
  <2>2. services' = [l \in DOMAIN services \ {k} |-> services[l]]
    BY <1>8 DEF RemoveRouter
  <2>3. AreServices(services')
    BY <2>2 DEF AreServices
  <2> QED BY <1>1, <1>3, <2>1, <2>3
<1>9. ASSUME NEW i \in DOMAIN names, InterfaceGoes(i) PROVE ConfiguratorInvariant'
  <2>1. UNCHANGED <<up, services, lastIndex, file, saved, nameless>> /\ refused' = {}
    BY <1>9 DEF InterfaceGoes
  <2>2. names' = [j \in DOMAIN names \ {i} |-> names[j]]
    BY <1>9 DEF InterfaceGoes
  <2>3. NamesType'
    BY <2>1, <2>2 DEF NamesType
  <2> QED BY <1>2, <1>3, <2>1, <2>3
<1>10. ASSUME NEW name \in Names, InterfaceComes(name) PROVE ConfiguratorInvariant'
  <2>1. /\ UNCHANGED <<up, services, file, saved, nameless>> /\ refused' = {}
        /\ lastIndex < MaxIndex /\ lastIndex' = lastIndex + 1
        /\ \A j \in DOMAIN names : names[j] # name
    BY <1>10 DEF InterfaceComes, IndexOf
  <2>2. names' = [j \in DOMAIN names \cup {lastIndex'} |-> IF j = lastIndex' THEN name ELSE names[j]]
    BY <1>10 DEF InterfaceComes
  <2>3. /\ lastIndex \in Nat /\ lastIndex' \in 0..MaxIndex
        /\ lastIndex' \in 1..lastIndex' /\ lastIndex' \notin DOMAIN names
        /\ DOMAIN names \subseteq 1..lastIndex'
    BY <2>1, ConfiguratorAssumption DEF NamesType
  <2>4. /\ DOMAIN names' = DOMAIN names \cup {lastIndex'} /\ names'[lastIndex'] = name
        /\ \A j \in DOMAIN names : names'[j] = names[j]
    BY <2>2, <2>3
  <2>5. NamesType'
    BY <2>1, <2>3, <2>4 DEF NamesType
  <2> QED BY <1>2, <1>3, <2>1, <2>5
<1>11. CASE UNCHANGED vars
  BY <1>1, <1>2, <1>3, <1>11 DEF vars
<1> QED BY <1>4, <1>5, <1>6, <1>7, <1>8, <1>9, <1>10, <1>11 DEF Next

\* Whatever the operator sets, whichever interfaces go and come, and wherever a save
\* is cut off: the file is the beginning of a save of the routers it was meant to
\* hold, in a version that the reader knows, and routers of version 3 differ from
\* one another unless one was written without its interface's name.
THEOREM Invariance == Spec => []ConfiguratorInvariant
<1> QED BY FirstState, InvariantStep, PTL DEF Spec

-----------------------------------------------------------------------------
(* The properties *)

\* What the daemon holds after a start is in the ranges that the operator's commands
\* keep to, as readConfiguration sets routers without asking them again.
THEOREM TypeCorrect == Spec => []ConfiguratorTypeOK
<1>1. ConfiguratorInvariant => ConfiguratorTypeOK
  <2> SUFFICES ASSUME ConfiguratorInvariant PROVE ConfiguratorTypeOK
    OBVIOUS
  <2> USE DEF ConfiguratorInvariant
  <2>1. ASSUME NEW k \in DOMAIN services
        PROVE  /\ k \in (1..MaxIndex) \X Vrids \X Families
               /\ services[k].interval \in Intervals
               /\ services[k].priority \in Priorities
               /\ services[k].subnets \subseteq [address : Addresses, cidr : Nat]
               /\ services[k].primary \in Addresses \cup {AutoPrimary}
    <3>1. k \in Keys /\ IsRouter(services[k])
      BY DEF AreServices
    <3> QED BY <3>1, RouterType DEF Keys, AllSubnets
  <2>2. /\ DOMAIN names \subseteq 1..lastIndex
        /\ \A i \in DOMAIN names : names[i] \in Names
        /\ lastIndex \in 0..MaxIndex
    BY DEF NamesType
  <2> QED BY <2>1, <2>2, Zenon DEF ConfiguratorTypeOK
<1> QED BY <1>1, Invariance, PTL

\* A file that is cut short, or that the stream's buffer ends in, gives back the first
\* routers of the save and their settings: readConfiguration adds no router of which
\* it has read only a part.
THEOREM NothingHalfRead == Spec => []NoneHalfRestored
<1>1. ConfiguratorInvariant => NoneHalfRestored
  <2> SUFFICES ASSUME ConfiguratorInvariant, NEW vlan \in VlanValues
               PROVE  /\ Len(readEntries(file, vlan)) <= Len(saved)
                      /\ \A i \in DOMAIN readEntries(file, vlan) :
                           ComesBack(file[1].value, saved[i], readEntries(file, vlan)[i])
    BY Zenon DEF NoneHalfRestored
  <2> DEFINE entries == readEntries(file, vlan)
  <2>1. PICK v \in Versions : Routable(saved) /\ Saves(file, v, saved)
    BY DEF ConfiguratorInvariant, FileType
  <2>2. PICK n \in 0..Len(saved) :
          /\ FirstRead(entries, v, saved, vlan, n)
          /\ n > 0 => file[1].value = v
    BY <2>1, ReadBack
  <2> HIDE DEF entries
  <2>3. Len(saved) \in Nat /\ \A i \in 1..Len(saved) : IsRouter(saved[i])
    BY <2>1, EntriesAre
  <2>4. Len(entries) = n /\ DOMAIN entries = 1..n
    BY <2>2 DEF FirstRead
  <2>5. ASSUME NEW i \in 1..n PROVE ComesBack(file[1].value, saved[i], entries[i])
    <3>1. i \in 1..Len(saved) /\ n > 0
      BY <2>3
    <3>2. file[1].value = v /\ entries[i] = ReadAs(v, saved[i], vlan) /\ IsRouter(saved[i])
      BY <2>2, <2>3, <3>1 DEF FirstRead
    <3>3. ComesBack(v, saved[i], ReadAs(v, saved[i], vlan))
      BY <3>2, ReadComesBack
    <3> QED BY <3>2, <3>3, Zenon
  <2>6. Len(entries) <= Len(saved)
    BY <2>3, <2>4
  <2> QED BY <2>4, <2>5, <2>6 DEF entries
<1> QED BY <1>1, Invariance, PTL

\* The version that a whole file begins with.
LEMMA VersionIs ==
  ASSUME NEW v \in Versions, NEW routers, Routable(routers), NEW f, Saves(f, v, routers),
         f # <<>>
  PROVE  f[1].value = v
<1>1. f \in Seq(Fields) /\ \A i \in 1..Len(f) : f[i] = Image(v, routers)[i]
  BY SavesAre
<1>2. Len(f) >= 1
  BY <1>1
<1>3. Image(v, routers)[1].value = v
  BY ImageHolds DEF Holds
<1> QED BY <1>1, <1>2, <1>3

LEMMA WholeComesBack ==
  ASSUME NEW v \in Versions, NEW routers, Routable(routers),
         Extent(Image(v, routers)).bytes <= StreamBuffer, NEW vlan
  PROVE  FirstRead(readEntries(Image(v, routers), vlan), v, routers, vlan, Len(routers))
<1> DEFINE image == Image(v, routers)
<1>1. image \in Seq(Fields)
  BY ImageHolds DEF Holds, AreFields
<1>2. Saves(image, v, routers)
  BY WholeIsSave
<1>3. Complete(image, v, routers)
  BY <1>1, ShortFileComes DEF Complete
<1> QED BY <1>2, <1>3, ReadBack

\* A save that is written to its end and fits the buffer of the stream is read to its
\* last router: nothing in what writeConfiguration writes stops readConfiguration.
THEOREM SavesComeBack == Spec => []SaveIsRestored
<1>1. ConfiguratorInvariant => SaveIsRestored
  <2> SUFFICES ASSUME ConfiguratorInvariant, file # <<>>,
                      file = Image(file[1].value, saved), Extent(file).bytes <= StreamBuffer,
                      NEW vlan \in VlanValues
               PROVE  Len(readEntries(file, vlan)) = Len(saved)
    BY Zenon DEF SaveIsRestored
  <2>1. PICK v \in Versions : Routable(saved) /\ Saves(file, v, saved)
    BY DEF ConfiguratorInvariant, FileType
  <2>2. file[1].value = v
    BY <2>1, VersionIs
  <2>3. file = Image(v, saved)
    BY <2>2, Zenon
  <2>4. FirstRead(readEntries(file, vlan), v, saved, vlan, Len(saved))
    BY <2>1, <2>3, WholeComesBack
  <2> QED BY <2>4 DEF FirstRead
<1> QED BY <1>1, Invariance, PTL

LEMMA ImageHasVersion ==
  ASSUME NEW v \in Versions, NEW routers, Routable(routers)
  PROVE  Image(v, routers) # <<>>
<1> DEFINE image == Image(v, routers)
           N == Len(routers)
<1>1. PICK at : Begins(v, routers, at) /\ Holds(v, routers, N, at, image)
  BY ImageHolds
<1> HIDE DEF image
<1>2. N \in Nat /\ \A i \in 1..N : EntryLen(v, routers[i]) \in Nat
  BY EntriesAre
<1>3. at[0] = 3 /\ Len(image) = at[N] - 1
  BY <1>1 DEF Begins, Holds, AreFields
<1>4. CASE N = 0
  <2>1. Len(image) = 2
    BY <1>3, <1>4
  <2> QED BY <2>1 DEF image
<1>5. CASE N > 0
  <2>1. 1 \in 1..N
    BY <1>2, <1>5
  <2>2. at[1] = at[1 - 1] + EntryLen(v, routers[1]) /\ at[1] <= at[N]
    BY <1>1, <2>1 DEF Begins, Holds
  <2>3. at[1] >= 3 /\ at[1] \in Nat /\ at[N] \in Nat
    <3>1. EntryLen(v, routers[1]) \in Nat
      BY <1>2, <2>1
    <3>2. at[N] \in Nat
      BY <1>1, <1>2 DEF Begins
    <3> QED BY <1>3, <2>2, <3>1, <3>2
  <2>4. Len(image) >= 2
    BY <1>3, <2>2, <2>3
  <2> QED BY <2>4 DEF image
<1> QED BY <1>2, <1>4, <1>5

WithCommands(r, m, b) == [r EXCEPT !.master = m, !.backup = b]

LEMMA CommandsSet ==
  ASSUME NEW r \in RouterRecords, NEW m, NEW b
  PROVE  WithCommands(r, m, b) =
           Record(r.interface, r.vrid, r.family, r.vlanId, r.priority, r.interval, r.accept,
                  r.preempt, r.enabled, r.primary, m, b, r.subnets)
<1>1. [r EXCEPT !.master = m, !.backup = b] = [[r EXCEPT !.master = m] EXCEPT !.backup = b]
  OBVIOUS
<1>2. r = Record(r.interface, r.vrid, r.family, r.vlanId, r.priority, r.interval, r.accept,
                 r.preempt, r.enabled, r.primary, r.master, r.backup, r.subnets)
  BY RecordIs
<1> DEFINE r1 == [r EXCEPT !.master = m]
<1>3. r1 = Record(r.interface, r.vrid, r.family, r.vlanId, r.priority, r.interval, r.accept,
                  r.preempt, r.enabled, r.primary, m, r.backup, r.subnets)
  BY <1>2, SetMaster
<1> HIDE DEF r1
<1>4. [r1 EXCEPT !.backup = b] =
        Record(r.interface, r.vrid, r.family, r.vlanId, r.priority, r.interval, r.accept,
               r.preempt, r.enabled, r.primary, m, b, r.subnets)
  BY <1>3, SetBackup
<1> QED BY <1>1, <1>4, Zenon DEF r1, WithCommands

\* What the daemon holds after reading an entry of its own release.
LEMMA HeldAgain ==
  ASSUME NEW r, IsRouter(r), NEW vlan
  PROVE  HeldAs(3, r, vlan) = [r EXCEPT !.master = Kept(@), !.backup = Kept(@)]
<1> DEFINE m == Kept(r.master)
           b == Kept(r.backup)
<1>1. WithCommands(r, m, b) =
        Record(r.interface, r.vrid, r.family, r.vlanId, r.priority, r.interval, r.accept,
               r.preempt, r.enabled, r.primary, m, b, r.subnets)
  <2> HIDE DEF m, b
  <2> QED BY CommandsSet DEF IsRouter
<1>2. /\ (IF 3 > 2 THEN r.vlanId ELSE vlan) = r.vlanId
      /\ (IF 3 > 1 THEN m ELSE NoCommand) = m
      /\ (IF 3 > 1 THEN b ELSE NoCommand) = b
  OBVIOUS
<1>3. HeldAs(3, r, vlan) =
        Record(r.interface, r.vrid, r.family, r.vlanId, r.priority, r.interval, r.accept,
               r.preempt, r.enabled, r.primary, m, b, r.subnets)
  BY <1>2, Zenon DEF HeldAs
<1>4. [r EXCEPT !.master = Kept(@), !.backup = Kept(@)] = WithCommands(r, m, b)
  BY Zenon DEF WithCommands
<1> QED BY <1>1, <1>3, <1>4, Zenon

\* A daemon that saves all its routers and starts again, with the interfaces it had,
\* has the routers it had, whatever was done to it before the save; those alone may be
\* missing that the kernel refuses.
THEOREM RestartKeeps == Spec => RestartChangesNothing
<1>1. ConfiguratorInvariant /\ [Next]_vars
        => [PlainStart => \A i \in DOMAIN saved \ refused' : AsSaved(saved[i])]_vars
  <2> SUFFICES ASSUME ConfiguratorInvariant, [Next]_vars, ~UNCHANGED vars, PlainStart,
                      NEW i \in DOMAIN saved, i \notin refused'
               PROVE  AsSaved(saved[i])
    OBVIOUS
  <2>1. Start
    <3>1. ~up /\ up'
      BY DEF PlainStart
    <3>2. Next
      OBVIOUS
    <3> QED BY <3>1, <3>2 DEF Next, Save, Ends, SetRouter, RemoveRouter, InterfaceGoes, InterfaceComes
  <2>2. /\ Routable(saved) /\ NamesType
        /\ \A j \in DOMAIN saved : IndexOf(saved[j].interface) # {}
        /\ file = Image(3, saved) /\ Extent(file).bytes <= StreamBuffer
    BY DEF PlainStart, ConfiguratorInvariant, FileType
  <2>3. Distinct(saved)
    <3>1. PICK v \in Versions : Saves(file, v, saved) /\ (v = 3 => nameless \/ Distinct(saved))
      BY DEF ConfiguratorInvariant, FileType
    <3>3. file # <<>>
      BY <2>2, ImageHasVersion DEF Versions
    <3>4. 3 \in Versions /\ Saves(file, 3, saved)
      BY <2>2, WholeIsSave DEF Versions
    <3>5. file[1].value = v
      BY <2>2, <3>1, <3>3, VersionIs
    <3>6. file[1].value = 3
      BY <2>2, <3>3, <3>4, VersionIs
    <3> QED BY <3>1, <3>5, <3>6 DEF PlainStart
  <2>12. PICK vlan \in VlanValues :
          \E skipped \in SUBSET DOMAIN readEntries(file, vlan) :
            /\ services' = Services(readEntries(file, vlan), skipped)
            /\ refused' = skipped
    BY <2>1, Zenon DEF Start, readConfiguration
  <2>4. PICK skipped \in SUBSET DOMAIN readEntries(file, vlan) :
          /\ services' = Services(readEntries(file, vlan), skipped)
          /\ refused' = skipped
    BY <2>12
  <2> DEFINE entries == readEntries(file, vlan)
             r == saved[i]
  <2>5. FirstRead(entries, 3, saved, vlan, Len(saved))
    <3>1. 3 \in Versions
      BY DEF Versions
    <3>2. Extent(Image(3, saved)).bytes <= StreamBuffer
      BY <2>2
    <3> QED BY <2>2, <3>1, <3>2, WholeComesBack
  <2>6. DOMAIN saved = 1..Len(saved) /\ i \in 1..Len(saved) /\ IsRouter(r)
    BY <2>2 DEF Routable
  <2> HIDE DEF entries
  <2>7. IF HomeOf(r) \in DOMAIN Services(entries, skipped)
        THEN Services(entries, skipped)[HomeOf(r)] = HeldAs(3, r, vlan)
        ELSE i \in skipped
    <3>1. 3 \in Versions /\ vlan \in Int
      BY ConfiguratorAssumption DEF Versions
    <3> QED BY <2>2, <2>3, <2>5, <2>6, <3>1, ServicesRestored
  <2>8. i \notin skipped
    BY <2>4
  <2>9. HeldAs(3, r, vlan) = [r EXCEPT !.master = Kept(@), !.backup = Kept(@)]
    BY <2>6, HeldAgain
  <2> HIDE DEF r
  <2>10. services' = Services(entries, skipped)
    BY <2>4 DEF entries
  <2>11. AsSaved(r)
    BY <2>7, <2>8, <2>9, <2>10, Zenon DEF AsSaved
  <2> QED BY <2>11 DEF r
<1> QED BY <1>1, Invariance, PTL DEF Spec, RestartChangesNothing

=============================================================================
