-------------------------- MODULE VrrpPacket_proofs --------------------------
(***************************************************************************)
(* Proofs about packets: what sendPacket composes passes the checks of     *)
(* onSocketPacket and is read as it was sent, and with one bit flipped it  *)
(* does not.                                                               *)
(*                                                                         *)
(* Both rest on what the checksum is modulo 2^16 - 1.  Its two recursive   *)
(* functions are shown to exist, and their values found, by looking at the *)
(* least number for which there would be no such value.                    *)
(***************************************************************************)
EXTENDS VrrpPacket, SequenceTheorems, FiniteSetTheorems, TLAPS

-----------------------------------------------------------------------------
(* Recursion over numbers *)

\* Induction, without an operator for a parameter: a set of natural numbers has a
\* least element, since strict inclusion of finite sets is well founded.
LEMMA LeastNumber ==
  ASSUME NEW S \in SUBSET Nat, S # {}
  PROVE  \E n \in S : \A m \in S : n <= m
<1> DEFINE T == {0..n : n \in S}
<1>1. T \subseteq FiniteSubsetsOf(Nat) /\ T # {}
  <2>1. ASSUME NEW n \in S PROVE 0..n \in FiniteSubsetsOf(Nat)
    <3>1. IsFiniteSet(0..n)
      BY FS_Interval
    <3> QED BY <3>1 DEF FiniteSubsetsOf
  <2> QED BY <2>1
<1>2. PICK x \in T : \A y \in T : ~(<<y, x>> \in StrictSubsetOrdering(Nat))
  BY <1>1, FS_StrictSubsetOrderingWellFounded, WFMin
<1>3. PICK n \in S : x = 0..n
  OBVIOUS
<1>4. ASSUME NEW m \in S, m < n PROVE FALSE
  <2>1. 0..m \in T /\ 0..m \in SUBSET Nat /\ x \in SUBSET Nat
    BY <1>3
  <2>2. 0..m \subseteq x /\ n \in x /\ n \notin 0..m
    BY <1>3, <1>4
  <2>3. <<0..m, x>> \in StrictSubsetOrdering(Nat)
    BY <2>1, <2>2 DEF StrictSubsetOrdering
  <2> QED BY <1>2, <2>1, <2>3
<1> QED BY <1>4

\* A set that has 0, and with each number below N the next one, has all up to N.
LEMMA UpToLast ==
  ASSUME NEW N \in Nat, NEW S, 0 \in S, \A n \in 1..N : n - 1 \in S => n \in S
  PROVE  0..N \subseteq S
<1> SUFFICES ASSUME (0..N) \ S # {} PROVE FALSE
  OBVIOUS
<1> DEFINE Missing == (0..N) \ S
<1>0. Missing \in SUBSET Nat /\ Missing # {}
  OBVIOUS
<1> HIDE DEF Missing
<1>1. PICK n \in Missing : \A m \in Missing : n <= m
  BY <1>0, LeastNumber
<1> USE DEF Missing
<1>2. n \in 1..N /\ n - 1 \in 0..N
  BY <1>1
<1> QED BY <1>1, <1>2

-----------------------------------------------------------------------------
(* The sum of words *)

Sums(words, n, f) ==
  /\ f \in [0..n -> Nat]
  /\ f[0] = 0
  /\ \A k \in 1..n : f[k] = f[k - 1] + words[k]

LEMMA SumsExist ==
  ASSUME NEW words \in Seq(Nat)
  PROVE  \E f : Sums(words, Len(words), f)
<1> DEFINE S == {n \in 0..Len(words) : \E f : Sums(words, n, f)}
<1>1. 0 \in S
  <2>1. Sums(words, 0, [k \in 0..0 |-> 0])
    BY DEF Sums
  <2> QED BY <2>1
<1>2. ASSUME NEW n \in 1..Len(words), n - 1 \in S PROVE n \in S
  <2>1. PICK f : Sums(words, n - 1, f)
    BY <1>2
  <2> DEFINE g == [k \in 0..n |-> IF k = n THEN f[n - 1] + words[n] ELSE f[k]]
  <2>2. words[n] \in Nat /\ f[n - 1] \in Nat
    BY <2>1 DEF Sums
  <2>3. g \in [0..n -> Nat] /\ g[0] = 0
    BY <2>1, <2>2 DEF Sums
  <2>4. ASSUME NEW k \in 1..n PROVE g[k] = g[k - 1] + words[k]
    BY <2>1 DEF Sums
  <2> HIDE DEF g
  <2>5. Sums(words, n, g)
    BY <2>3, <2>4 DEF Sums
  <2> QED BY <2>5
<1> HIDE DEF S
<1>3. Len(words) \in Nat
  OBVIOUS
<1>4. 0..Len(words) \subseteq S
  BY <1>1, <1>2, <1>3, UpToLast
<1> QED BY <1>3, <1>4 DEF S

LEMMA SumIs ==
  ASSUME NEW words \in Seq(Nat)
  PROVE  \E f : Sums(words, Len(words), f) /\ Sum(words) = f[Len(words)]
<1> DEFINE Partial(f) == f = [n \in 0..Len(words) |-> IF n = 0 THEN 0 ELSE f[n - 1] + words[n]]
<1>1. Sum(words) = (CHOOSE f : Partial(f))[Len(words)]
  BY DEF Sum
<1>2. ASSUME NEW f PROVE Sums(words, Len(words), f) <=> Partial(f)
  <2>1. ASSUME Sums(words, Len(words), f) PROVE Partial(f)
    BY <2>1 DEF Sums
  <2>2. ASSUME Partial(f) PROVE Sums(words, Len(words), f)
    <3>1. Len(words) \in Nat
      OBVIOUS
    <3> DEFINE S == {n \in 0..Len(words) : f[n] \in Nat}
    <3>2. f[0] = 0 /\ \A n \in 1..Len(words) : f[n] = f[n - 1] + words[n]
      BY <2>2, <3>1
    <3>3. 0 \in S
      BY <3>1, <3>2
    <3>4. \A n \in 1..Len(words) : n - 1 \in S => n \in S
      BY <3>1, <3>2
    <3> HIDE DEF S
    <3>5. 0..Len(words) \subseteq S
      BY <3>1, <3>3, <3>4, UpToLast
    <3>6. \A n \in 0..Len(words) : f[n] \in Nat
      BY <3>5 DEF S
    <3>7. f \in [0..Len(words) -> Nat]
      BY <2>2, <3>6
    <3> QED BY <3>2, <3>7 DEF Sums
  <2> QED BY <2>1, <2>2
<1>3. PICK f : Partial(f)
  BY <1>2, SumsExist
<1> HIDE DEF Partial
<1>4. Partial(CHOOSE g : Partial(g))
  BY <1>3
<1> QED BY <1>1, <1>2, <1>4

LEMMA SumType ==
  ASSUME NEW words \in Seq(Nat)
  PROVE  Sum(words) \in Nat
<1>1. PICK f : Sums(words, Len(words), f) /\ Sum(words) = f[Len(words)]
  BY SumIs
<1> QED BY <1>1 DEF Sums

\* Another word in one place changes the sum by the difference.
LEMMA SumChanged ==
  ASSUME NEW words \in Seq(Nat), NEW i \in 1..Len(words), NEW w \in Nat
  PROVE  Sum([words EXCEPT ![i] = w]) = Sum(words) + w - words[i]
<1> DEFINE changed == [words EXCEPT ![i] = w]
<1>1. /\ changed \in Seq(Nat) /\ Len(changed) = Len(words)
      /\ \A k \in 1..Len(words) : changed[k] = IF k = i THEN w ELSE words[k]
      /\ words[i] \in Nat /\ Len(words) \in Nat
  OBVIOUS
<1> HIDE DEF changed
<1>2. PICK f : Sums(words, Len(words), f) /\ Sum(words) = f[Len(words)]
  BY SumIs
<1>3. PICK g : Sums(changed, Len(words), g) /\ Sum(changed) = g[Len(words)]
  BY <1>1, SumIs
<1> DEFINE Moved == [n \in 0..Len(words) |-> IF n < i THEN 0 ELSE w - words[i]]
           S == {n \in 0..Len(words) : g[n] = f[n] + Moved[n]}
<1>4. 0 \in S
  BY <1>1, <1>2, <1>3 DEF Sums
<1>5. ASSUME NEW n \in 1..Len(words), n - 1 \in S PROVE n \in S
  <2> HIDE DEF Moved
  <2>1. f[n] = f[n - 1] + words[n] /\ g[n] = g[n - 1] + changed[n]
    BY <1>2, <1>3 DEF Sums
  <2>2. f[n] \in Nat /\ f[n - 1] \in Nat /\ words[n] \in Nat
    <3>1. n \in 0..Len(words) /\ n - 1 \in 0..Len(words)
      BY <1>1
    <3>2. f \in [0..Len(words) -> Nat]
      BY <1>2 DEF Sums
    <3>3. f[n] \in Nat /\ f[n - 1] \in Nat
      BY <3>1, <3>2
    <3>4. words[n] \in Nat
      OBVIOUS
    <3> QED BY <3>3, <3>4
  <2>3. g[n - 1] = f[n - 1] + Moved[n - 1]
    BY <1>5
  <2>4. changed[n] + Moved[n - 1] = words[n] + Moved[n] /\ Moved[n] \in Int /\ Moved[n - 1] \in Int
    <3>1. CASE n < i
      BY <1>1, <3>1 DEF Moved
    <3>2. CASE n = i
      BY <1>1, <3>2 DEF Moved
    <3>3. CASE n > i
      <4>1. changed[n] = words[n] /\ Moved[n - 1] = w - words[i] /\ Moved[n] = w - words[i]
        BY <1>1, <3>3 DEF Moved
      <4>2. w - words[i] \in Int
        BY <1>1
      <4> QED BY <4>1, <4>2, Zenon
    <3> QED BY <3>1, <3>2, <3>3
  <2>5. changed[n] \in Nat
    BY <1>1, <2>2
  <2>6. g[n] = f[n] + Moved[n]
    <3>1. ASSUME NEW a \in Int, NEW b \in Int, NEW c \in Int, NEW d \in Int, NEW e \in Int,
                 f[n - 1] = a, Moved[n - 1] = b, changed[n] = c, words[n] = d, Moved[n] = e
          PROVE  (f[n - 1] + Moved[n - 1]) + changed[n] = (f[n - 1] + words[n]) + Moved[n]
      <4>1. c + b = d + e => (a + b) + c = (a + d) + e
        OBVIOUS
      <4> QED BY <2>4, <3>1, <4>1, Zenon
    <3>2. (f[n - 1] + Moved[n - 1]) + changed[n] = (f[n - 1] + words[n]) + Moved[n]
      <4>1. f[n - 1] \in Int /\ words[n] \in Int /\ changed[n] \in Int
        BY <2>2, <2>5
      <4> QED BY <2>4, <3>1, <4>1, Zenon
    <3> QED BY <2>1, <2>3, <3>2, Zenon
  <2> QED BY <2>6
<1> HIDE DEF S
<1>6. 0..Len(words) \subseteq S
  BY <1>1, <1>4, <1>5, UpToLast
<1>7. g[Len(words)] = f[Len(words)] + (w - words[i])
  <2>1. Len(words) \in 0..Len(words) /\ ~(Len(words) < i)
    BY <1>1
  <2> QED BY <1>6, <2>1 DEF S
<1>8. f[Len(words)] \in Nat
  BY <1>2, SumType
<1> QED BY <1>1, <1>2, <1>3, <1>7, <1>8 DEF changed

-----------------------------------------------------------------------------
(* Folding *)

\* The checksum is right modulo this number.
Modulus == Word - 1

\* What Folded computes, without recursion.
Residue(s) == IF s = 0 THEN 0 ELSE 1 + ((s - 1) % Modulus)

LEMMA WordIs == Word = 65536 /\ Byte = 256 /\ Modulus = 65535
BY SMT DEF Word, Byte, Modulus

LEMMA WordsAre == \A w : w \in Words <=> w \in Nat /\ w < Word
<1>1. Word \in Nat
  BY WordIs, SMT
<1> QED BY <1>1, SMT DEF Words

LEMMA ResidueFolds ==
  ASSUME NEW s \in Nat
  PROVE  /\ s < Word => Residue(s) = s
         /\ s >= Word => LET t == (s % Word) + (s \div Word)
                          IN t \in Nat /\ t < s /\ Residue(s) = Residue(t)
<1>1. ASSUME s < Word PROVE Residue(s) = s
  BY <1>1, WordIs, SMT DEF Residue
<1> DEFINE t == (s % Word) + (s \div Word)
<1>2. ASSUME s >= Word PROVE t \in Nat /\ t < s /\ Residue(s) = Residue(t)
  <2> DEFINE q == s \div Word
             r == s % Word
  <2>1. q \in Nat /\ q >= 1 /\ r \in Nat /\ s = Word * q + r
    BY <1>2, WordIs, SMT
  <2> HIDE DEF q, r
  <2>2. t = r + q
    BY DEF q, r
  <2> HIDE DEF t
  <2>3. t \in Nat /\ s - 1 = (t - 1) + Modulus * q /\ t - 1 \in Nat /\ t < s
    BY <2>1, <2>2, WordIs, SMT
  <2>4. (s - 1) % Modulus = (t - 1) % Modulus
    BY <2>1, <2>3, WordIs, SMT
  <2> QED BY <1>2, <2>3, <2>4, WordIs, SMT DEF Residue
<1> QED BY <1>1, <1>2

LEMMA FoldedIsResidue ==
  ASSUME NEW s \in Nat
  PROVE  Folded[s] = Residue(s)
<1> DEFINE Fold(f) ==
      f = [n \in Nat |-> IF n < Word THEN n ELSE f[(n % Word) + (n \div Word)]]
<1>1. Folded = CHOOSE f : Fold(f)
  BY DEF Folded
<1>2. Fold([n \in Nat |-> Residue(n)])
  <2>1. ASSUME NEW n \in Nat
        PROVE  Residue(n) = IF n < Word THEN n
                            ELSE [m \in Nat |-> Residue(m)][(n % Word) + (n \div Word)]
    BY ResidueFolds, WordIs
  <2> QED BY <2>1
<1>3. Fold(Folded)
  BY <1>1, <1>2
<1> DEFINE Wrong == {n \in Nat : Folded[n] # Residue(n)}
<1> SUFFICES ASSUME Wrong # {} PROVE FALSE
  OBVIOUS
<1>4. Wrong \in SUBSET Nat
  OBVIOUS
<1> HIDE DEF Wrong
<1>5. PICK n \in Wrong : \A m \in Wrong : n <= m
  BY <1>4, LeastNumber
<1> USE DEF Wrong
<1>6. n \in Nat /\ Folded[n] = IF n < Word THEN n ELSE Folded[(n % Word) + (n \div Word)]
  BY <1>3
<1>7. CASE n < Word
  BY <1>5, <1>6, <1>7, WordIs, ResidueFolds
<1>8. CASE n >= Word
  <2> DEFINE t == (n % Word) + (n \div Word)
  <2>1. t \in Nat /\ t < n /\ Residue(n) = Residue(t)
    BY <1>6, <1>8, ResidueFolds, WordIs, SMT
  <2>2. Folded[n] = Folded[t]
    BY <1>6, <1>8, WordIs
  <2> HIDE DEF t
  <2>3. t \notin Wrong
    BY <1>5, <1>6, <2>1
  <2> QED BY <1>5, <2>1, <2>2, <2>3
<1> QED BY <1>6, <1>7, <1>8, WordIs, SMT

\* A sum is complemented to 0 when it is a multiple of 2^16 - 1.
LEMMA ComplementIs ==
  ASSUME NEW s \in Nat, s > 0
  PROVE  /\ Word - 1 - Folded[s] \in Words
         /\ (s + (Word - 1 - Folded[s])) % Modulus = 0
         /\ Word - 1 - Folded[s] = 0 <=> s % Modulus = 0
<1> DEFINE q == (s - 1) \div Modulus
           r == (s - 1) % Modulus
           c == Word - 1 - Folded[s]
<1>1. q \in Nat /\ r \in Nat /\ r < Modulus /\ s = Modulus * q + r + 1
  BY WordIs, SMT
<1>2. c = (Modulus - 1) - r
  BY FoldedIsResidue, WordIs, SMT DEF Residue
<1> HIDE DEF q, r, c
<1>3. (s + c) % Modulus = 0
  BY <1>1, <1>2, WordIs, SMT
<1>4. c = 0 <=> s % Modulus = 0
  BY <1>1, <1>2, WordIs, SMT
<1>5. c \in Nat /\ c < Word
  BY <1>1, <1>2, WordIs, SMT
<1>6. c \in Words
  BY <1>5, WordsAre, Zenon
<1> QED BY <1>3, <1>4, <1>6, WordIs, SMT DEF c

-----------------------------------------------------------------------------
(* The checksum *)

\* What the checksum is over.
Total(words, source) ==
  Sum(source) + Sum(MulticastAddress) + Protocol + 2 * Len(words) + Sum(words)

LEMMA ChecksumIs ==
  ASSUME NEW words, NEW source
  PROVE  checksum(words, source, MulticastAddress) = Word - 1 - Folded[Total(words, source)]
BY DEF checksum, Total

LEMMA MulticastType == MulticastAddress \in Seq(Nat)
<1>1. 224 * Byte \in Nat
  BY WordIs, SMT
<1> QED BY <1>1 DEF MulticastAddress

LEMMA TotalType ==
  ASSUME NEW words \in Seq(Nat), NEW source \in Seq(Nat)
  PROVE  Total(words, source) \in Nat /\ Total(words, source) > 0
<1>2. Sum(words) \in Nat /\ Sum(source) \in Nat /\ Sum(MulticastAddress) \in Nat
  BY MulticastType, SumType
<1>3. Len(words) \in Nat
  OBVIOUS
<1> QED BY <1>2, <1>3, WordIs, SMT DEF Total, Protocol

LEMMA WordsAreNumbers ==
  ASSUME NEW words \in Seq(Words)
  PROVE  words \in Seq(Nat)
<1>1. Words \subseteq Nat
  BY WordsAre
<1> QED BY <1>1, SeqMonotonic

\* When a checksum is right.
LEMMA RightChecksum ==
  ASSUME NEW words \in Seq(Nat), NEW source \in Seq(Nat)
  PROVE  checksum(words, source, MulticastAddress) = 0 <=> Total(words, source) % Modulus = 0
<1> DEFINE total == Total(words, source)
<1>1. total \in Nat /\ total > 0
  BY TotalType, Zenon
<1>2. checksum(words, source, MulticastAddress) = Word - 1 - Folded[total]
  BY ChecksumIs, Zenon
<1> HIDE DEF total
<1>3. Word - 1 - Folded[total] = 0 <=> total % Modulus = 0
  BY <1>1, ComplementIs, WordIs, SMT
<1> QED BY <1>2, <1>3, WordIs, SMT DEF total

\* What is sealed has the right checksum.
LEMMA SealedIs ==
  ASSUME NEW words \in Seq(Words), Len(words) >= 4, NEW source \in Seq(Nat)
  PROVE  /\ Sealed(words, source) \in Seq(Words)
         /\ Len(Sealed(words, source)) = Len(words)
         /\ \A k \in 1..Len(words) : k # 4 => Sealed(words, source)[k] = words[k]
         /\ checksum(Sealed(words, source), source, MulticastAddress) = 0
<1> DEFINE zeroed == [words EXCEPT ![4] = 0]
           c      == checksum(zeroed, source, MulticastAddress)
           sealed == [zeroed EXCEPT ![4] = c]
           total  == Total(zeroed, source)
<1>1. 4 \in 1..Len(words) /\ 0 \in Words
  <2>1. 0 \in Nat /\ 0 < Word
    BY WordIs, SMT
  <2> QED BY <2>1, WordsAre
<1>2. zeroed \in Seq(Words) /\ Len(zeroed) = Len(words) /\ zeroed[4] = 0
      /\ \A k \in 1..Len(words) : k # 4 => zeroed[k] = words[k]
  BY <1>1, ExceptSeq
<1> HIDE DEF zeroed
<1>3. zeroed \in Seq(Nat)
  BY <1>2, WordsAreNumbers
<1>4. total \in Nat /\ total > 0
  BY <1>3, TotalType
<1>5. c = Word - 1 - Folded[total]
  BY ChecksumIs
<1> HIDE DEF c, total
<1>6. c \in Words /\ (total + c) % Modulus = 0
  BY <1>4, <1>5, ComplementIs, WordIs, SMT
<1>7. c \in Nat
  BY <1>6, WordsAre
<1>8. /\ sealed \in Seq(Words) /\ Len(sealed) = Len(words)
      /\ \A k \in 1..Len(words) : k # 4 => sealed[k] = words[k]
  BY <1>1, <1>2, <1>6, ExceptSeq
<1>9. Sum(sealed) = Sum(zeroed) + c - zeroed[4]
  <2>1. 4 \in 1..Len(zeroed)
    BY <1>1, <1>2
  <2> QED BY <1>3, <1>7, <2>1, SumChanged
<1>10. Sealed(words, source) = sealed
  <2> DEFINE direct == [words EXCEPT ![4] = c]
  <2>1. direct \in Seq(Words) /\ Len(direct) = Len(words)
        /\ \A k \in 1..Len(words) : direct[k] = IF k = 4 THEN c ELSE words[k]
    BY <1>1, <1>6, ExceptSeq
  <2>2. 4 \in 1..Len(zeroed)
    BY <1>1, <1>2
  <2>3. \A k \in 1..Len(words) : sealed[k] = IF k = 4 THEN c ELSE zeroed[k]
    BY <1>2, <1>6, <2>2, ExceptSeq
  <2> HIDE DEF direct, sealed
  <2>4. \A k \in 1..Len(words) : direct[k] = sealed[k]
    BY <1>2, <2>1, <2>3
  <2>5. direct = sealed
    BY <1>8, <2>1, <2>4, SeqEqual
  <2> QED BY <2>5 DEF Sealed, direct, c, zeroed
<1> HIDE DEF sealed
<1>11. sealed \in Seq(Nat)
  BY <1>8, WordsAreNumbers
<1>12. Total(sealed, source) = total + c
  <2> DEFINE rest == Sum(source) + Sum(MulticastAddress) + Protocol + 2 * Len(words)
  <2>1. total = rest + Sum(zeroed) /\ Total(sealed, source) = rest + Sum(sealed)
    BY <1>2, <1>8, Zenon DEF Total, total
  <2>2. Sum(source) \in Nat /\ Sum(MulticastAddress) \in Nat /\ Len(words) \in Nat
    BY SumType, MulticastType
  <2>3. rest \in Nat
    BY <2>2, WordIs, SMT DEF Protocol
  <2> HIDE DEF rest
  <2>4. Sum(sealed) = Sum(zeroed) + c - 0 /\ Sum(zeroed) \in Nat
    BY <1>2, <1>3, <1>9, SumType
  <2> QED BY <1>7, <2>1, <2>3, <2>4, WordIs, SMT
<1>13. checksum(sealed, source, MulticastAddress) = 0
  <2>1. Total(sealed, source) % Modulus = 0
    BY <1>6, <1>12, WordIs, SMT
  <2> QED BY <1>11, <2>1, RightChecksum, WordIs, SMT
<1> QED BY <1>8, <1>10, <1>13, Zenon


-----------------------------------------------------------------------------
(* A flipped bit *)

Powers == {1, 2, 4, 8, 16, 32, 64, 128, 256, 512, 1024, 2048, 4096, 8192, 16384, 32768}

LEMMA PowersAre ==
  ASSUME NEW b \in 0..15
  PROVE  2^b \in Powers
<1>1. /\ 2^0 \in Powers /\ 2^1 \in Powers /\ 2^2 \in Powers /\ 2^3 \in Powers
      /\ 2^4 \in Powers /\ 2^5 \in Powers /\ 2^6 \in Powers /\ 2^7 \in Powers
      /\ 2^8 \in Powers /\ 2^9 \in Powers /\ 2^10 \in Powers /\ 2^11 \in Powers
      /\ 2^12 \in Powers /\ 2^13 \in Powers /\ 2^14 \in Powers /\ 2^15 \in Powers
  BY WordIs, SMT DEF Powers
<1>2. b \in {0, 1, 2, 3, 4, 5, 6, 7, 8, 9, 10, 11, 12, 13, 14, 15}
  BY WordIs, SMT
<1> QED BY <1>1, <1>2, Zenon

LEMMA FlippedIs ==
  ASSUME NEW w \in Words, NEW b \in 0..15
  PROVE  /\ Flipped(w, b) \in Words
         /\ Flipped(w, b) - w < Modulus /\ w - Flipped(w, b) < Modulus /\ Flipped(w, b) # w
<1> DEFINE p == 2^b
<1>1. p \in Powers
  BY PowersAre
<1>2. w \in Nat /\ w < Word
  BY WordsAre, WordIs, SMT
<1>3. Flipped(w, b) = IF (w \div p) % 2 = 0 THEN w + p ELSE w - p
  BY DEF Flipped
<1> HIDE DEF p
<1>4. Flipped(w, b) \in Nat /\ Flipped(w, b) < Word
      /\ Flipped(w, b) - w < Modulus /\ w - Flipped(w, b) < Modulus /\ Flipped(w, b) # w
  BY <1>1, <1>2, <1>3, WordIs, SMTT(60) DEF Powers
<1> QED BY <1>4, WordsAre, WordIs, SMT


LEMMA OtherTotal ==
  ASSUME NEW total \in Nat, total % Modulus = 0, NEW w \in Nat, NEW v \in Nat,
         v - w < Modulus, w - v < Modulus, v # w, total + v - w \in Nat
  PROVE  (total + v - w) % Modulus # 0
<1> DEFINE d == v - w
<1>1. d \in Int /\ d < Modulus /\ -d < Modulus /\ d # 0 /\ total + v - w = total + d
  BY WordIs, SMT
<1> HIDE DEF d
<1>2. (total + d) % Modulus # 0
  <2>1. PICK q \in Nat : total = Modulus * q
    <3>1. total \div Modulus \in Nat /\ total = Modulus * (total \div Modulus)
      BY WordIs, SMT
    <3> QED BY <3>1, WordIs, SMT
  <2> QED BY <1>1, <2>1, WordIs, SMT
<1> QED BY <1>1, <1>2, WordIs, SMT

\* With one word other than it was when the checksum was right, it is not right, if
\* they differ by less than 2^16 - 1.
LEMMA WordChanged ==
  ASSUME NEW words \in Seq(Nat), NEW source \in Seq(Nat),
         checksum(words, source, MulticastAddress) = 0,
         NEW i \in 1..Len(words), NEW v \in Nat,
         v - words[i] < Modulus, words[i] - v < Modulus, v # words[i]
  PROVE  checksum([words EXCEPT ![i] = v], source, MulticastAddress) # 0
<1> DEFINE changed == [words EXCEPT ![i] = v]
           w       == words[i]
           total   == Total(words, source)
           after   == Total(changed, source)
<1>1. changed \in Seq(Nat) /\ Len(changed) = Len(words) /\ w \in Nat
  OBVIOUS
<1>2. Sum(changed) = Sum(words) + v - w
  BY SumChanged
<1>3. v - w < Modulus /\ w - v < Modulus /\ v # w
  OBVIOUS
<1> HIDE DEF changed, w
<1>4. total = Sum(source) + Sum(MulticastAddress) + Protocol + 2 * Len(words) + Sum(words)
  BY DEF Total
<1>5. after = Sum(source) + Sum(MulticastAddress) + Protocol + 2 * Len(words) + Sum(changed)
  BY <1>1, Zenon DEF Total
<1>6. total \in Nat /\ total % Modulus = 0
  BY TotalType, RightChecksum, WordIs, SMT
<1>7. after \in Nat
  BY <1>1, TotalType
<1>8. checksum(changed, source, MulticastAddress) = 0 <=> after % Modulus = 0
  BY <1>1, RightChecksum, WordIs, SMT
<1> HIDE DEF total, after
<1>9. after = total + v - w
  <2> DEFINE s == Sum(source)
             m == Sum(MulticastAddress)
             l == Len(words)
             x == Sum(words)
             y == Sum(changed)
  <2>1. s \in Nat /\ m \in Nat /\ l \in Nat /\ x \in Nat /\ y \in Nat
    BY <1>1, SumType, MulticastType
  <2>2. /\ total = s + m + 112 + 2 * l + x
        /\ after = s + m + 112 + 2 * l + y
        /\ y = x + v - w
    BY <1>2, <1>4, <1>5, WordIs, SMT DEF Protocol
  <2> HIDE DEF s, m, l, x, y
  <2> QED BY <1>1, <2>1, <2>2, WordIs, SMT
<1>10. (total + v - w) % Modulus # 0
  <2>1. total + v - w \in Nat
    BY <1>7, <1>9, Zenon
  <2> QED BY <1>1, <1>3, <1>6, <2>1, OtherTotal, Zenon
<1> QED BY <1>8, <1>9, <1>10, WordIs, SMT DEF changed

\* So it is with a word of the source.
LEMMA SourceChanged ==
  ASSUME NEW words \in Seq(Nat), NEW source \in Seq(Nat),
         checksum(words, source, MulticastAddress) = 0,
         NEW i \in 1..Len(source), NEW v \in Nat,
         v - source[i] < Modulus, source[i] - v < Modulus, v # source[i]
  PROVE  checksum(words, [source EXCEPT ![i] = v], MulticastAddress) # 0
<1> DEFINE changed == [source EXCEPT ![i] = v]
           w       == source[i]
           total   == Total(words, source)
           after   == Total(words, changed)
<1>1. changed \in Seq(Nat) /\ Len(changed) = Len(source) /\ w \in Nat
  OBVIOUS
<1>2. Sum(changed) = Sum(source) + v - w
  BY SumChanged
<1>3. v - w < Modulus /\ w - v < Modulus /\ v # w
  OBVIOUS
<1> HIDE DEF changed, w
<1>4. total = Sum(source) + Sum(MulticastAddress) + Protocol + 2 * Len(words) + Sum(words)
  BY DEF Total
<1>5. after = Sum(changed) + Sum(MulticastAddress) + Protocol + 2 * Len(words) + Sum(words)
  BY <1>1, Zenon DEF Total
<1>6. total \in Nat /\ total % Modulus = 0
  BY TotalType, RightChecksum, WordIs, SMT
<1>7. after \in Nat
  BY <1>1, TotalType
<1>8. checksum(words, changed, MulticastAddress) = 0 <=> after % Modulus = 0
  BY <1>1, RightChecksum, WordIs, SMT
<1> HIDE DEF total, after
<1>9. after = total + v - w
  <2> DEFINE s == Sum(source)
             m == Sum(MulticastAddress)
             l == Len(words)
             x == Sum(words)
             y == Sum(changed)
  <2>1. s \in Nat /\ m \in Nat /\ l \in Nat /\ x \in Nat /\ y \in Nat
    BY <1>1, SumType, MulticastType
  <2>2. /\ total = s + m + 112 + 2 * l + x
        /\ after = y + m + 112 + 2 * l + x
        /\ y = s + v - w
    BY <1>2, <1>4, <1>5, WordIs, SMT DEF Protocol
  <2> HIDE DEF s, m, l, x, y
  <2> QED BY <1>1, <2>1, <2>2, WordIs, SMT
<1>10. (total + v - w) % Modulus # 0
  <2>1. total + v - w \in Nat
    BY <1>7, <1>9, Zenon
  <2> QED BY <1>1, <1>3, <1>6, <2>1, OtherTotal, Zenon
<1> QED BY <1>8, <1>9, <1>10, WordIs, SMT DEF changed

-----------------------------------------------------------------------------
(* What is composed *)

VridRange     == 1..255
PriorityRange == 0..255
IntervalRange == 1..4095

LEMMA RangesAre ==
  /\ \A v \in VridRange : v \in Nat /\ 1 <= v /\ v <= 255
  /\ \A p \in PriorityRange : p \in Nat /\ p <= 255
  /\ \A i \in IntervalRange : i \in Nat /\ 1 <= i /\ i <= 4095
BY SMT DEF VridRange, PriorityRange, IntervalRange

LEMMA RangesAssumption ==
  /\ Vrids \subseteq VridRange /\ Priorities \subseteq PriorityRange
  /\ Intervals \subseteq IntervalRange
  /\ Sources \subseteq Addresses /\ AddressLists \subseteq Seq(Addresses)
  /\ Foreign \subseteq Seq(Words) /\ Bits \subseteq 0..15
BY PacketAssumption DEF VridRange, PriorityRange, IntervalRange

LEMMA AdvertisementIs ==
  ASSUME NEW a \in Advertisements
  PROVE  /\ a.interface \in Interfaces /\ a.vrid \in Vrids
         /\ a.vrid \in VridRange /\ a.priority \in PriorityRange /\ a.interval \in IntervalRange
         /\ a.source \in Addresses /\ a.addresses \in Seq(Addresses)
         /\ a.addresses \in AddressLists
<1>1. /\ a.interface \in Interfaces /\ a.vrid \in Vrids /\ a.priority \in Priorities
      /\ a.interval \in Intervals /\ a.source \in Sources /\ a.addresses \in AddressLists
  BY DEF Advertisements
<1> QED BY <1>1, RangesAssumption

LEMMA AddressIs ==
  ASSUME NEW address \in Addresses
  PROVE  /\ address[1] \in Words /\ address[2] \in Words /\ address = <<address[1], address[2]>>
         /\ address \in Seq(Words) /\ address \in Seq(Nat) /\ Len(address) = 2
<1>1. address[1] \in Words /\ address[2] \in Words /\ address = <<address[1], address[2]>>
  BY DEF Addresses
<1>2. <<address[1], address[2]>> \in Seq(Words) /\ Len(<<address[1], address[2]>>) = 2
  BY <1>1
<1>3. address \in Seq(Words) /\ Len(address) = 2
  BY <1>1, <1>2, Zenon
<1>4. address \in Seq(Nat)
  BY <1>3, WordsAreNumbers
<1> QED BY <1>1, <1>3, <1>4

LEMMA BodyIs ==
  ASSUME NEW addresses \in Seq(Addresses)
  PROVE  /\ Body(addresses) \in Seq(Words)
         /\ Len(Body(addresses)) = 2 * Len(addresses)
         /\ \A n \in 1..Len(addresses) : /\ Body(addresses)[2 * n - 1] = addresses[n][1]
                                         /\ Body(addresses)[2 * n] = addresses[n][2]
<1> DEFINE L == Len(addresses)
<1>1. L \in Nat /\ 2 * L \in Nat
  OBVIOUS
<1>2. \A n \in 1..L : addresses[n][1] \in Words /\ addresses[n][2] \in Words
  BY ElementOfSeq, AddressIs
<1>3. \A k \in 1 .. 2 * L : (k + 1) \div 2 \in 1..L
  BY <1>1, SMT
<1>4. Body(addresses) = [k \in 1 .. 2 * L |-> addresses[(k + 1) \div 2][IF k % 2 = 1 THEN 1 ELSE 2]]
  BY DEF Body
<1>5. \A k \in 1 .. 2 * L : Body(addresses)[k] \in Words
  BY <1>2, <1>3, <1>4
<1>6. Body(addresses) \in [1 .. 2 * L -> Words]
  BY <1>4, <1>5
<1>7. Body(addresses) \in Seq(Words) /\ Len(Body(addresses)) = 2 * L
  BY <1>1, <1>6
<1>8. ASSUME NEW n \in 1..L
      PROVE  Body(addresses)[2 * n - 1] = addresses[n][1] /\ Body(addresses)[2 * n] = addresses[n][2]
  <2>1. /\ 2 * n - 1 \in 1 .. 2 * L /\ 2 * n \in 1 .. 2 * L
        /\ ((2 * n - 1) + 1) \div 2 = n /\ (2 * n + 1) \div 2 = n
        /\ (2 * n - 1) % 2 = 1 /\ (2 * n) % 2 = 0
    BY <1>1, SMT
  <2> QED BY <1>4, <2>1
<1> QED BY <1>7, <1>8

LEMMA HeaderIs ==
  ASSUME NEW vrid \in VridRange, NEW priority \in PriorityRange, NEW count \in Nat,
         NEW interval \in IntervalRange
  PROVE  Header(vrid, priority, count, interval) \in Seq(Words)
<1>0. /\ vrid \in Nat /\ vrid <= 255 /\ priority \in Nat /\ priority <= 255 /\ interval \in Nat
  BY RangesAre
<1>1. /\ 49 * Byte + vrid \in Nat /\ 49 * Byte + vrid < Word
      /\ priority * Byte + (count % Byte) \in Nat /\ priority * Byte + (count % Byte) < Word
      /\ interval % 4096 \in Nat /\ interval % 4096 < Word
      /\ 0 \in Nat /\ 0 < Word
  BY <1>0, WordIs, SMT
<1>2. 49 * Byte + vrid \in Words /\ priority * Byte + (count % Byte) \in Words
      /\ interval % 4096 \in Words /\ 0 \in Words
  BY <1>1, WordsAre, SMT
<1> QED BY <1>2 DEF Header


\* What the words of an advertisement are.
Carries(words, a) ==
  /\ words \in Seq(Words)
  /\ Len(words) = 4 + 2 * Len(a.addresses)
  /\ words[1] = 49 * Byte + a.vrid
  /\ words[2] = a.priority * Byte + (Len(a.addresses) % Byte)
  /\ words[3] = a.interval % 4096
  /\ \A n \in 1..Len(a.addresses) : /\ words[3 + 2 * n] = a.addresses[n][1]
                                    /\ words[4 + 2 * n] = a.addresses[n][2]

LEMMA ComposedIs ==
  ASSUME NEW a \in Advertisements
  PROVE  /\ Carries(Composed(a).words, a)
         /\ checksum(Composed(a).words, a.source, MulticastAddress) = 0
<1> DEFINE header == Header(a.vrid, a.priority, Len(a.addresses), a.interval)
           body   == Body(a.addresses)
           words  == header \o body
           L      == Len(a.addresses)
<1>1. L \in Nat /\ a.source \in Seq(Nat)
  BY AdvertisementIs, AddressIs
<1>2. header \in Seq(Words)
  BY <1>1, AdvertisementIs, HeaderIs
<1>3. /\ Len(header) = 4 /\ header[1] = 49 * Byte + a.vrid
      /\ header[2] = a.priority * Byte + (L % Byte) /\ header[3] = a.interval % 4096
  BY DEF Header
<1>4. /\ body \in Seq(Words) /\ Len(body) = 2 * L
      /\ \A n \in 1..L : body[2 * n - 1] = a.addresses[n][1] /\ body[2 * n] = a.addresses[n][2]
  BY AdvertisementIs, BodyIs
<1>5. Composed(a).words = Sealed(words, a.source)
  BY DEF Composed
<1> HIDE DEF header, body
<1>6. /\ words \in Seq(Words) /\ Len(words) = 4 + 2 * L
      /\ \A k \in 1 .. 4 + 2 * L : words[k] = IF k <= 4 THEN header[k] ELSE body[k - 4]
  <2>1. /\ words \in Seq(Words) /\ Len(words) = Len(header) + Len(body)
        /\ \A k \in 1 .. Len(header) + Len(body) :
             words[k] = IF k <= Len(header) THEN header[k] ELSE body[k - Len(header)]
    BY <1>2, <1>4, ConcatProperties
  <2> QED BY <1>3, <1>4, <2>1
<1> HIDE DEF words, L
<1> DEFINE sealed == Sealed(words, a.source)
<1>7. /\ sealed \in Seq(Words) /\ Len(sealed) = Len(words)
      /\ \A k \in 1..Len(words) : k # 4 => sealed[k] = words[k]
      /\ checksum(sealed, a.source, MulticastAddress) = 0
  <2>1. Len(words) >= 4
    BY <1>1, <1>6
  <2> QED BY <1>1, <1>6, <2>1, SealedIs
<1> HIDE DEF sealed
<1>8. /\ sealed[1] = 49 * Byte + a.vrid
      /\ sealed[2] = a.priority * Byte + (L % Byte) /\ sealed[3] = a.interval % 4096
  <2>1. 1 \in 1 .. 4 + 2 * L /\ 2 \in 1 .. 4 + 2 * L /\ 3 \in 1 .. 4 + 2 * L
    BY <1>1
  <2>2. sealed[1] = header[1] /\ sealed[2] = header[2] /\ sealed[3] = header[3]
    BY <1>6, <1>7, <2>1
  <2> QED BY <1>3, <2>2
<1>9. ASSUME NEW n \in 1..L
      PROVE  sealed[3 + 2 * n] = a.addresses[n][1] /\ sealed[4 + 2 * n] = a.addresses[n][2]
  <2>1. /\ 3 + 2 * n \in 1 .. 4 + 2 * L /\ 4 + 2 * n \in 1 .. 4 + 2 * L
        /\ ~(3 + 2 * n <= 4) /\ ~(4 + 2 * n <= 4)
        /\ (3 + 2 * n) - 4 = 2 * n - 1 /\ (4 + 2 * n) - 4 = 2 * n
    BY <1>1
  <2>2. words[3 + 2 * n] = body[2 * n - 1] /\ words[4 + 2 * n] = body[2 * n]
    BY <1>6, <2>1
  <2>3. sealed[3 + 2 * n] = words[3 + 2 * n] /\ sealed[4 + 2 * n] = words[4 + 2 * n]
    BY <1>6, <1>7, <2>1
  <2> QED BY <1>4, <2>2, <2>3
<1>10. Composed(a).words = sealed
  BY <1>5 DEF sealed
<1>11. sealed \in Seq(Words) /\ Len(sealed) = 4 + 2 * L
  BY <1>6, <1>7
<1>12. Carries(sealed, a)
  BY <1>8, <1>9, <1>11 DEF Carries, L
<1> QED BY <1>7, <1>10, <1>12, Zenon


-----------------------------------------------------------------------------
(* What is read *)

\* Addresses are counted in a byte.
CountsFit == \A list \in AddressLists : Len(list) < Byte

\* What the reader makes of the words of an advertisement.
LEMMA DecodedIs ==
  ASSUME CountsFit, NEW a \in Advertisements
  PROVE  LET m == Composed(a)
         IN /\ Version(m) = 3 /\ Type(m) = 1 /\ VridOf(m) = a.vrid
            /\ Len(m.words) >= 4 /\ ~Incomplete(m)
            /\ Decoded(m) = a
<1> DEFINE m == Composed(a)
           words == Composed(a).words
           L == Len(a.addresses)
           v == a.vrid
           p == a.priority
           i == a.interval
<1>1. L \in Nat /\ L < Byte
  BY AdvertisementIs DEF CountsFit
<1>2. /\ v \in Nat /\ v <= 255 /\ p \in Nat /\ p <= 255 /\ i \in Nat /\ i <= 4095
  BY AdvertisementIs, RangesAre
<1>3. Carries(words, a)
  BY ComposedIs
<1>4. words[1] = 49 * Byte + v /\ words[2] = p * Byte + (L % Byte) /\ words[3] = i % 4096
      /\ Len(words) = 4 + 2 * L
  BY <1>3 DEF Carries
<1>5. \A n \in 1..L : words[3 + 2 * n] = a.addresses[n][1] /\ words[4 + 2 * n] = a.addresses[n][2]
  BY <1>3 DEF Carries
<1>6. m.words = words /\ m.interface = a.interface /\ m.source = a.source
  BY DEF Composed
<1> HIDE DEF m, words, v, p, i, L
<1>7. Version(m) = 3 /\ Type(m) = 1 /\ VridOf(m) = v
  <2>1. (49 * Byte + v) \div (16 * Byte) = 3 /\ ((49 * Byte + v) \div Byte) % 16 = 1
        /\ (49 * Byte + v) % Byte = v
    BY <1>2, WordIs, SMT
  <2> QED BY <1>4, <1>6, <2>1 DEF Version, Type, VridOf
<1>8. PriorityOf(m) = p /\ CountOf(m) = L
  <2>1. L % Byte = L
    BY <1>1, WordIs, SMT
  <2>2. (p * Byte + L) \div Byte = p /\ (p * Byte + L) % Byte = L
    BY <1>1, <1>2, WordIs, SMT
  <2> QED BY <1>4, <1>6, <2>1, <2>2 DEF PriorityOf, CountOf
<1>9. IntervalOf(m) = i
  <2>1. i % 4096 = i
    BY <1>2, SMT
  <2> QED BY <1>4, <1>6, <2>1 DEF IntervalOf
<1>10. AddressesOf(m) = a.addresses
  <2>1. a.addresses \in Seq(Addresses)
    BY AdvertisementIs
  <2>2. a.addresses = [n \in 1..L |-> a.addresses[n]]
    BY <2>1 DEF L
  <2>3. \A n \in 1..L : a.addresses[n] = <<a.addresses[n][1], a.addresses[n][2]>>
    BY <2>1, ElementOfSeq, AddressIs DEF L
  <2>4. \A n \in 1..L : <<m.words[3 + 2 * n], m.words[4 + 2 * n]>> = a.addresses[n]
    BY <1>5, <1>6, <2>3
  <2>5. AddressesOf(m) = [n \in 1..L |-> <<m.words[3 + 2 * n], m.words[4 + 2 * n]>>]
    BY <1>8 DEF AddressesOf
  <2> QED BY <2>2, <2>4, <2>5
<1>11. Decoded(m) = a
  <2>1. a = [interface |-> a.interface, vrid |-> a.vrid, source |-> a.source, priority |-> a.priority,
             interval |-> a.interval, addresses |-> a.addresses]
    BY DEF Advertisements
  <2>2. Decoded(m) =
          [interface |-> a.interface, vrid |-> a.vrid, source |-> a.source, priority |-> a.priority,
           interval |-> a.interval, addresses |-> a.addresses]
    BY <1>6, <1>7, <1>8, <1>9, <1>10, Zenon DEF Decoded, v, p, i
  <2> QED BY <2>1, <2>2, Zenon
<1>12. Len(m.words) >= 4 /\ ~Incomplete(m)
  BY <1>1, <1>4, <1>6, <1>8 DEF Incomplete
<1> QED BY <1>7, <1>11, <1>12 DEF m, v


-----------------------------------------------------------------------------
(* The checks *)

\* A check a packet fails, when it passes those before it; or none.
LEMMA VerdictIs ==
  ASSUME NEW m
  PROVE  \/ Verdict(m) = "none" /\ \A n \in 1..8 : ~Fails(Checks[n], m)
         \/ \E n \in 1..8 : /\ Verdict(m) = Checks[n] /\ Fails(Checks[n], m)
                            /\ \A k \in 1..8 : k < n => ~Fails(Checks[k], m)
<1> DEFINE failed == {n \in 1..Len(Checks) : Fails(Checks[n], m)}
           first  == IF failed # {} THEN Min(failed) ELSE 0
<1>1. Verdict(m) = IF first = 0 THEN "none" ELSE Checks[first]
  BY DEF Verdict, SelectInSeq
<1>2. Len(Checks) = 8
  BY DEF Checks
<1>3. CASE failed = {}
  BY <1>1, <1>2, <1>3
<1>4. CASE failed # {}
  <2>1. failed \in SUBSET Nat
    BY <1>2
  <2> HIDE DEF failed
  <2>2. PICK n \in failed : \A k \in failed : n <= k
    BY <1>4, <2>1, LeastNumber
  <2>3. first \in failed /\ \A k \in failed : first <= k
    BY <1>4, <2>2 DEF Min
  <2> USE DEF failed
  <2> HIDE DEF first
  <2>4. first \in 1..8 /\ Fails(Checks[first], m) /\ Verdict(m) = Checks[first]
    BY <1>1, <1>2, <2>3
  <2>5. \A k \in 1..8 : k < first => ~Fails(Checks[k], m)
    BY <1>2, <2>1, <2>3, <2>4
  <2> QED BY <2>4, <2>5
<1> QED BY <1>3, <1>4

LEMMA ChecksAre ==
  /\ Checks[1] = "nobody" /\ Checks[2] = "short" /\ Checks[3] = "version" /\ Checks[4] = "checksum"
  /\ Checks[5] = "type" /\ Checks[6] = "vrid" /\ Checks[7] = "ttl" /\ Checks[8] = "incomplete"
BY DEF Checks

LEMMA FailsAre ==
  ASSUME NEW m
  PROVE  /\ Fails(Checks[1], m) <=> OnInterface(m) = {}
         /\ Fails(Checks[2], m) <=> Len(m.words) < 4
         /\ Fails(Checks[3], m) <=> Version(m) # 3
         /\ Fails(Checks[4], m) <=> checksum(m.words, m.source, m.destination) # 0
         /\ Fails(Checks[5], m) <=> Type(m) # 1
         /\ Fails(Checks[6], m) <=> Addressee(m) = {}
         /\ Fails(Checks[7], m) <=> m.ttl # 255
         /\ Fails(Checks[8], m) <=> Incomplete(m)
BY ChecksAre DEF Fails

\* A packet that passes.
LEMMA VerdictNone ==
  ASSUME NEW m
  PROVE  Verdict(m) = "none" <=>
           /\ OnInterface(m) # {} /\ ~(Len(m.words) < 4) /\ Version(m) = 3
           /\ checksum(m.words, m.source, m.destination) = 0 /\ Type(m) = 1
           /\ Addressee(m) # {} /\ m.ttl = 255 /\ ~Incomplete(m)
<1>1. \A n \in 1..8 : n = 1 \/ n = 2 \/ n = 3 \/ n = 4 \/ n = 5 \/ n = 6 \/ n = 7 \/ n = 8
  OBVIOUS
<1>2. \A n \in 1..8 : Checks[n] # "none"
  BY <1>1, ChecksAre
<1>3. Verdict(m) = "none" <=> \A n \in 1..8 : ~Fails(Checks[n], m)
  BY <1>2, VerdictIs, Zenon
<1>4. (\A n \in 1..8 : ~Fails(Checks[n], m)) <=>
        /\ ~Fails(Checks[1], m) /\ ~Fails(Checks[2], m) /\ ~Fails(Checks[3], m)
        /\ ~Fails(Checks[4], m) /\ ~Fails(Checks[5], m) /\ ~Fails(Checks[6], m)
        /\ ~Fails(Checks[7], m) /\ ~Fails(Checks[8], m)
  <2>1. 1 \in 1..8 /\ 2 \in 1..8 /\ 3 \in 1..8 /\ 4 \in 1..8
        /\ 5 \in 1..8 /\ 6 \in 1..8 /\ 7 \in 1..8 /\ 8 \in 1..8
    OBVIOUS
  <2> QED BY <1>1, <2>1, Zenon
<1> QED BY <1>3, <1>4, FailsAre

\* A packet whose checksum is wrong goes no further than that.
LEMMA VerdictOfNoise ==
  ASSUME NEW m, ~(Len(m.words) < 4), checksum(m.words, m.source, m.destination) # 0
  PROVE  Verdict(m) \in {"nobody", "version", "checksum"}
<1>1. Fails(Checks[4], m) /\ ~Fails(Checks[2], m)
  BY FailsAre
<1>2. 4 \in 1..8 /\ 2 \in 1..8
  OBVIOUS
<1>3. PICK n \in 1..8 : /\ Verdict(m) = Checks[n] /\ Fails(Checks[n], m)
                        /\ \A k \in 1..8 : k < n => ~Fails(Checks[k], m)
  BY <1>1, <1>2, VerdictIs, Zenon
<1>4. n # 2 /\ ~(4 < n)
  BY <1>1, <1>2, <1>3
<1>5. n = 1 \/ n = 3 \/ n = 4
  BY <1>4
<1> QED BY <1>3, <1>5, ChecksAre


-----------------------------------------------------------------------------
(* Packets on their way *)

PacketRecords ==
  [interface : Interfaces, source : Addresses, destination : {MulticastAddress}, ttl : {254, 255},
   words : Seq(Words), sent : Advertisements \cup {Nothing}, garbled : BOOLEAN]

\* What flipped bits leave, the checksum tells; what was not touched is what was
\* composed.
Travelled(m) ==
  /\ m.garbled => /\ ~(Len(m.words) < 4)
                  /\ checksum(m.words, m.source, m.destination) # 0
  /\ m.sent # Nothing /\ ~m.garbled /\ m.ttl = 255 =>
       m.sent \in Advertisements /\ m = Composed(m.sent)

Packets == {m \in PacketRecords : Travelled(m)}

\* Packets by their fields, and what becomes of them when a bit is flipped.
Yes == TRUE
No  == FALSE

Untouched(i, s, t, words, sent) ==
  [interface |-> i, source |-> s, destination |-> MulticastAddress, ttl |-> t,
   words |-> words, sent |-> sent, garbled |-> No]

Touched(i, s, words, sent) ==
  [interface |-> i, source |-> s, destination |-> MulticastAddress, ttl |-> 255,
   words |-> words, sent |-> sent, garbled |-> Yes]

WordFlipped(m, n, b)   == [m EXCEPT !.words[n] = Flipped(@, b), !.garbled = TRUE]
SourceFlipped(m, n, b) == [m EXCEPT !.source[n] = Flipped(@, b), !.garbled = TRUE]
PassedOn(m)            == [m EXCEPT !.ttl = 254]

LEMMA PacketRecord ==
  ASSUME NEW i \in Interfaces, NEW s \in Addresses, NEW words \in Seq(Words),
         NEW sent \in Advertisements \cup {Nothing}
  PROVE  /\ Untouched(i, s, 255, words, sent) \in PacketRecords
         /\ Untouched(i, s, 254, words, sent) \in PacketRecords
         /\ Touched(i, s, words, sent) \in PacketRecords
BY DEF Untouched, Touched, PacketRecords, Yes, No

LEMMA UntouchedWord ==
  ASSUME NEW i, NEW s, NEW words, NEW sent, NEW n, NEW b
  PROVE  WordFlipped(Untouched(i, s, 255, words, sent), n, b)
           = Touched(i, s, [words EXCEPT ![n] = Flipped(words[n], b)], sent)
<1> DEFINE p == Untouched(i, s, 255, words, sent)
           q == Untouched(i, s, 255, [words EXCEPT ![n] = Flipped(words[n], b)], sent)
<1>1. [p EXCEPT !.words[n] = Flipped(@, b)] = q
  BY DEF Untouched
<1>2. [q EXCEPT !.garbled = Yes] = Touched(i, s, [words EXCEPT ![n] = Flipped(words[n], b)], sent)
  BY DEF Untouched, Touched
<1> HIDE DEF p, q
<1>3. [p EXCEPT !.words[n] = Flipped(@, b), !.garbled = Yes]
        = [[p EXCEPT !.words[n] = Flipped(@, b)] EXCEPT !.garbled = Yes]
  OBVIOUS
<1> QED BY <1>1, <1>2, <1>3, Zenon DEF p, WordFlipped, Yes

LEMMA UntouchedSource ==
  ASSUME NEW i, NEW s, NEW words, NEW sent, NEW n, NEW b
  PROVE  SourceFlipped(Untouched(i, s, 255, words, sent), n, b)
           = Touched(i, [s EXCEPT ![n] = Flipped(s[n], b)], words, sent)
<1> DEFINE p == Untouched(i, s, 255, words, sent)
           q == Untouched(i, [s EXCEPT ![n] = Flipped(s[n], b)], 255, words, sent)
<1>1. [p EXCEPT !.source[n] = Flipped(@, b)] = q
  BY DEF Untouched
<1>2. [q EXCEPT !.garbled = Yes] = Touched(i, [s EXCEPT ![n] = Flipped(s[n], b)], words, sent)
  BY DEF Untouched, Touched
<1> HIDE DEF p, q
<1>3. [p EXCEPT !.source[n] = Flipped(@, b), !.garbled = Yes]
        = [[p EXCEPT !.source[n] = Flipped(@, b)] EXCEPT !.garbled = Yes]
  OBVIOUS
<1> QED BY <1>1, <1>2, <1>3, Zenon DEF p, SourceFlipped, Yes

LEMMA UntouchedPassedOn ==
  ASSUME NEW i, NEW s, NEW words, NEW sent
  PROVE  PassedOn(Untouched(i, s, 255, words, sent)) = Untouched(i, s, 254, words, sent)
BY DEF PassedOn, Untouched

LEMMA ComposedRecord ==
  ASSUME NEW a \in Advertisements
  PROVE  /\ Composed(a) \in PacketRecords
         /\ Composed(a) = Untouched(a.interface, a.source, 255, Composed(a).words, a)
         /\ Composed(a).words \in Seq(Words)
         /\ Len(Composed(a).words) = 4 + 2 * Len(a.addresses)
         /\ checksum(Composed(a).words, a.source, MulticastAddress) = 0
<1>1. Composed(a).words \in Seq(Words) /\ Len(Composed(a).words) = 4 + 2 * Len(a.addresses)
  BY ComposedIs DEF Carries
<1>2. Composed(a) = Untouched(a.interface, a.source, 255, Composed(a).words, a)
  BY DEF Composed, Untouched, No
<1>3. Untouched(a.interface, a.source, 255, Composed(a).words, a) \in PacketRecords
  <2>1. a.interface \in Interfaces /\ a.source \in Addresses /\ a \in Advertisements \cup {Nothing}
    BY AdvertisementIs
  <2> QED BY <1>1, <2>1, PacketRecord
<1>4. Composed(a) \in PacketRecords
  BY <1>2, <1>3, Zenon
<1> QED BY <1>1, <1>2, <1>4, ComposedIs

LEMMA SentTravels ==
  ASSUME NEW a \in Advertisements
  PROVE  Composed(a) \in Packets /\ PassedOn(Composed(a)) \in Packets
<1>1. Composed(a) \in Packets
  <2>1. Untouched(a.interface, a.source, 255, Composed(a).words, a).sent = a
        /\ ~Untouched(a.interface, a.source, 255, Composed(a).words, a).garbled
    BY DEF Untouched, No
  <2>2. Composed(a).sent = a /\ ~Composed(a).garbled
    BY <2>1, ComposedRecord, Zenon
  <2> QED BY <2>2, ComposedRecord, Zenon DEF Packets, Travelled
<1> DEFINE m == PassedOn(Composed(a))
<1>2. m \in PacketRecords /\ ~m.garbled /\ m.ttl = 254
  <2> DEFINE words == Composed(a).words
  <2>1. Composed(a) = Untouched(a.interface, a.source, 255, words, a) /\ words \in Seq(Words)
    BY ComposedRecord
  <2> HIDE DEF words
  <2>2. m = Untouched(a.interface, a.source, 254, words, a)
    <3>1. PassedOn(Untouched(a.interface, a.source, 255, words, a))
            = Untouched(a.interface, a.source, 254, words, a)
      BY UntouchedPassedOn
    <3> QED BY <2>1, <3>1, Zenon
  <2>3. m \in PacketRecords
    <3>1. a.interface \in Interfaces /\ a.source \in Addresses /\ a \in Advertisements \cup {Nothing}
      BY AdvertisementIs
    <3>2. Untouched(a.interface, a.source, 254, words, a) \in PacketRecords
      BY <2>1, <3>1, PacketRecord
    <3> QED BY <2>2, <3>2, Zenon
  <2> QED BY <2>2, <2>3 DEF Untouched, No
<1> HIDE DEF m
<1>3. m \in Packets
  BY <1>2 DEF Packets, Travelled
<1> QED BY <1>1, <1>3 DEF m

LEMMA GarbledTravels ==
  ASSUME NEW a \in Advertisements, NEW n \in 1 .. 4 + 2 * Len(a.addresses), NEW b \in 0..15
  PROVE  WordFlipped(Composed(a), n, b) \in Packets
<1> DEFINE words == Composed(a).words
           flipped == Flipped(words[n], b)
           changed == [words EXCEPT ![n] = flipped]
           m == WordFlipped(Composed(a), n, b)
<1>1. words \in Seq(Words) /\ n \in 1..Len(words) /\ Len(words) >= 4
      /\ checksum(words, a.source, MulticastAddress) = 0
  <2>1. Len(a.addresses) \in Nat
    BY AdvertisementIs
  <2> QED BY <2>1, ComposedIs, ComposedRecord DEF Carries
<1>2. words \in Seq(Nat) /\ a.source \in Seq(Nat)
  BY <1>1, WordsAreNumbers, AdvertisementIs, AddressIs
<1>3. m = Touched(a.interface, a.source, changed, a)
  <2>1. Composed(a) = Untouched(a.interface, a.source, 255, words, a)
    BY ComposedRecord
  <2> HIDE DEF words
  <2>2. WordFlipped(Untouched(a.interface, a.source, 255, words, a), n, b)
          = Touched(a.interface, a.source, [words EXCEPT ![n] = Flipped(words[n], b)], a)
    BY UntouchedWord
  <2> QED BY <2>1, <2>2, Zenon
<1> HIDE DEF m, words
<1>4. words[n] \in Words
  BY <1>1
<1>5. /\ flipped \in Words /\ flipped - words[n] < Modulus /\ words[n] - flipped < Modulus
      /\ flipped # words[n]
  BY <1>4, FlippedIs
<1> HIDE DEF flipped
<1>6. changed \in Seq(Words) /\ Len(changed) = Len(words)
  BY <1>1, <1>5, ExceptSeq
<1>7. checksum(changed, a.source, MulticastAddress) # 0
  <2>1. flipped \in Nat
    BY <1>5, WordsAre
  <2> QED BY <1>1, <1>2, <1>5, <2>1, WordChanged
<1> HIDE DEF changed
<1>8. m \in PacketRecords
  <2>1. a.interface \in Interfaces /\ a.source \in Addresses /\ a \in Advertisements \cup {Nothing}
    BY AdvertisementIs
  <2>2. Touched(a.interface, a.source, changed, a) \in PacketRecords
    BY <1>6, <2>1, PacketRecord
  <2> QED BY <1>3, <2>2, Zenon
<1>9. Travelled(m)
  BY <1>1, <1>3, <1>6, <1>7 DEF Travelled, Touched, Yes
<1> QED BY <1>8, <1>9 DEF Packets, m

LEMMA SourceGarbledTravels ==
  ASSUME NEW a \in Advertisements, NEW n \in 1..2, NEW b \in 0..15
  PROVE  SourceFlipped(Composed(a), n, b) \in Packets
<1> DEFINE words == Composed(a).words
           flipped == Flipped(a.source[n], b)
           changed == [a.source EXCEPT ![n] = flipped]
           m == SourceFlipped(Composed(a), n, b)
<1>1. words \in Seq(Words) /\ ~(Len(words) < 4)
      /\ checksum(words, a.source, MulticastAddress) = 0
  <2>1. Len(a.addresses) \in Nat
    BY AdvertisementIs
  <2> QED BY <2>1, ComposedIs, ComposedRecord DEF Carries
<1>2. words \in Seq(Nat) /\ a.source \in Seq(Nat) /\ Len(a.source) = 2
      /\ a.source = <<a.source[1], a.source[2]>> /\ a.source[1] \in Words /\ a.source[2] \in Words
  BY <1>1, WordsAreNumbers, AdvertisementIs, AddressIs
<1>3. m = Touched(a.interface, changed, words, a)
  <2>1. Composed(a) = Untouched(a.interface, a.source, 255, words, a)
    BY ComposedRecord
  <2> HIDE DEF words
  <2>2. SourceFlipped(Untouched(a.interface, a.source, 255, words, a), n, b)
          = Touched(a.interface, [a.source EXCEPT ![n] = Flipped(a.source[n], b)], words, a)
    BY UntouchedSource
  <2> QED BY <2>1, <2>2, Zenon
<1> HIDE DEF m, words
<1>4. a.source[n] \in Words /\ n \in 1..Len(a.source)
  <2>1. n = 1 \/ n = 2
    OBVIOUS
  <2> QED BY <1>2, <2>1
<1>5. /\ flipped \in Words /\ flipped - a.source[n] < Modulus /\ a.source[n] - flipped < Modulus
      /\ flipped # a.source[n]
  BY <1>4, FlippedIs
<1> HIDE DEF flipped
<1>6. changed \in Addresses
  <2>1. n = 1 \/ n = 2
    OBVIOUS
  <2>2. CASE n = 1
    <3>1. changed = <<flipped, a.source[2]>>
      BY <1>2, <2>2
    <3> QED BY <1>2, <1>5, <3>1 DEF Addresses
  <2>3. CASE n = 2
    <3>1. changed = <<a.source[1], flipped>>
      BY <1>2, <2>3
    <3> QED BY <1>2, <1>5, <3>1 DEF Addresses
  <2> QED BY <2>1, <2>2, <2>3
<1>7. checksum(words, changed, MulticastAddress) # 0
  <2>1. flipped \in Nat
    BY <1>5, WordsAre
  <2> DEFINE source == a.source
  <2>2. source \in Seq(Nat) /\ n \in 1..Len(source) /\ checksum(words, source, MulticastAddress) = 0
        /\ flipped - source[n] < Modulus /\ source[n] - flipped < Modulus /\ flipped # source[n]
    BY <1>1, <1>2, <1>4, <1>5, Zenon
  <2> HIDE DEF source
  <2>3. checksum(words, [source EXCEPT ![n] = flipped], MulticastAddress) # 0
    BY <1>2, <2>1, <2>2, SourceChanged
  <2> QED BY <2>3, Zenon DEF source
<1> HIDE DEF changed
<1>8. m \in PacketRecords
  <2>1. a.interface \in Interfaces /\ a \in Advertisements \cup {Nothing}
    BY AdvertisementIs
  <2>2. Touched(a.interface, changed, words, a) \in PacketRecords
    BY <1>1, <1>6, <2>1, PacketRecord
  <2> QED BY <1>3, <2>2, Zenon
<1>9. Travelled(m)
  BY <1>1, <1>3, <1>7 DEF Travelled, Touched, Yes
<1> QED BY <1>8, <1>9 DEF Packets, m

LEMMA ForeignTravels ==
  ASSUME NEW i \in Interfaces, NEW s \in Sources, NEW words \in Foreign
  PROVE  FromAnother(i, s, words) \in Packets
<1> DEFINE m == FromAnother(i, s, words)
<1>1. words \in Seq(Words) /\ s \in Addresses /\ s \in Seq(Nat)
  BY RangesAssumption, AddressIs
<1>2. m.words \in Seq(Words)
  <2>1. CASE Len(words) < 4
    BY <1>1, <2>1 DEF FromAnother
  <2>2. CASE ~(Len(words) < 4)
    <3>1. Len(words) >= 4
      BY <1>1, <2>2
    <3>2. Sealed(words, s) \in Seq(Words)
      BY <1>1, <3>1, SealedIs
    <3> QED BY <2>2, <3>2 DEF FromAnother
  <2> QED BY <2>1, <2>2
<1> DEFINE given == m.words
<1>3. m = Untouched(i, s, 255, given, Nothing)
  BY DEF FromAnother, Untouched, No
<1> HIDE DEF m, given
<1>4. given \in Seq(Words)
  BY <1>2 DEF given
<1>5. Untouched(i, s, 255, given, Nothing) \in PacketRecords
  <2>1. Nothing \in Advertisements \cup {Nothing}
    OBVIOUS
  <2> QED BY <1>1, <1>4, <2>1, PacketRecord
<1>6. Travelled(Untouched(i, s, 255, given, Nothing))
  <2> DEFINE u == Untouched(i, s, 255, given, Nothing)
  <2>1. ~u.garbled /\ u.sent = Nothing
    BY DEF Untouched, No
  <2> HIDE DEF u
  <2>2. Travelled(u)
    BY <2>1 DEF Travelled
  <2> QED BY <2>2 DEF u
<1> QED BY <1>3, <1>5, <1>6, Zenon DEF Packets, m


-----------------------------------------------------------------------------
(* The invariant *)

PacketInvariant ==
  /\ queue \in Seq(Packets)
  /\ listeners \subseteq Routers
  /\ {c.to : c \in calls} \subseteq listeners
  /\ \A e \in DOMAIN errors : errors[e] \in 0..MaxCount

LEMMA InvariantInit == Init => PacketInvariant
<1> SUFFICES ASSUME Init PROVE PacketInvariant
  OBVIOUS
<1>1. queue \in Seq(Packets) /\ listeners \subseteq Routers /\ {c.to : c \in calls} \subseteq listeners
  BY DEF Init
<1>2. \A e \in DOMAIN errors : errors[e] = 0
  BY DEF Init
<1>3. 0 \in 0..MaxCount
  BY PacketAssumption
<1> QED BY <1>1, <1>2, <1>3 DEF PacketInvariant

\* Whoever is told of a packet listens on the interface it came in at.
LEMMA ToldListens ==
  ASSUME NEW m
  PROVE  Told(m) \subseteq OnInterface(m) /\ Addressee(m) \subseteq OnInterface(m)
         /\ OnInterface(m) \subseteq listeners
<1>1. Addressee(m) \subseteq OnInterface(m) /\ OnInterface(m) \subseteq listeners
  BY DEF Addressee, OnInterface
<1>2. Told(m) = OnInterface(m) \/ Told(m) = Addressee(m) \/ Told(m) = {}
  BY DEF Told
<1> QED BY <1>1, <1>2

\* A step is the reception of a packet, a change of who listens, or an arrival.
LEMMA StepIs ==
  ASSUME [Next]_vars
  PROVE  \/ onSocketPacket
         \/ \E l \in Routers : addEventListener(l) \/ removeEventListener(l)
         \/ \E m \in Packets : Arrives(m)
         \/ UNCHANGED vars
<1>1. ASSUME NEW a \in Advertisements, sendPacket(a)
      PROVE  \E m \in Packets : Arrives(m)
  BY <1>1, SentTravels DEF sendPacket
<1>2. ASSUME NEW a \in Advertisements, Forwarded(a)
      PROVE  \E m \in Packets : Arrives(m)
  BY <1>2, SentTravels, Zenon DEF Forwarded, PassedOn
<1>3. ASSUME NEW a \in Advertisements, NEW n \in 1 .. 4 + 2 * Len(a.addresses), NEW b \in Bits,
             Garbled(a, n, b)
      PROVE  \E m \in Packets : Arrives(m)
  <2>1. b \in 0..15
    BY RangesAssumption
  <2>2. WordFlipped(Composed(a), n, b) \in Packets
    BY <2>1, GarbledTravels
  <2>3. Arrives(WordFlipped(Composed(a), n, b))
    BY <1>3, Zenon DEF Garbled, WordFlipped
  <2> QED BY <2>2, <2>3
<1>4. ASSUME NEW a \in Advertisements, NEW n \in 1..2, NEW b \in Bits, SourceGarbled(a, n, b)
      PROVE  \E m \in Packets : Arrives(m)
  <2>1. b \in 0..15
    BY RangesAssumption
  <2>2. SourceFlipped(Composed(a), n, b) \in Packets
    BY <2>1, SourceGarbledTravels
  <2>3. Arrives(SourceFlipped(Composed(a), n, b))
    BY <1>4, Zenon DEF SourceGarbled, SourceFlipped
  <2> QED BY <2>2, <2>3
<1>5. ASSUME NEW i \in Interfaces, NEW s \in Sources, NEW words \in Foreign,
             Arrives(FromAnother(i, s, words))
      PROVE  \E m \in Packets : Arrives(m)
  BY <1>5, ForeignTravels
<1> QED BY <1>1, <1>2, <1>3, <1>4, <1>5, Zenon DEF Next

LEMMA Appended ==
  ASSUME queue \in Seq(Packets), NEW m \in Packets, Arrives(m)
  PROVE  queue' \in Seq(Packets) /\ Len(queue') = Len(queue) + 1
BY AppendProperties DEF Arrives

\* What a packet brings about.
LEMMA Handled ==
  ASSUME PacketInvariant, NEW m, Handles(m), [Next]_vars
  PROVE  /\ m \in Packets
         /\ calls' = IF Verdict(m) = "none"
                     THEN {onIncomingVrrpPacket(l, m) : l \in Addressee(m)}
                     ELSE {onIncomingVrrpError(l, m) : l \in Told(m)}
<1>1. queue \in Seq(Packets) /\ queue # <<>> /\ m = Head(queue) /\ queue' = Tail(queue)
  BY DEF PacketInvariant, Handles
<1>2. m \in Packets /\ Len(Tail(queue)) = Len(queue) - 1 /\ Len(queue) \in Nat
  BY <1>1, HeadTailProperties
<1>3. Len(queue') # Len(queue) /\ Len(queue') # Len(queue) + 1
  <2>1. \A l \in Nat : l - 1 # l /\ l - 1 # l + 1
    OBVIOUS
  <2>2. Len(queue') = Len(queue) - 1
    BY <1>1, <1>2, Zenon
  <2> QED BY <1>2, <2>1, <2>2, Zenon
<1>4. ~(queue' = queue)
  BY <1>3
<1>5. ASSUME NEW p \in Packets, Arrives(p) PROVE FALSE
  BY <1>1, <1>3, <1>5, Appended
<1>6. onSocketPacket
  BY <1>4, <1>5, StepIs DEF addEventListener, removeEventListener, vars
<1> QED BY <1>1, <1>2, <1>6 DEF onSocketPacket

LEMMA InvariantStep == PacketInvariant /\ [Next]_vars => PacketInvariant'
<1> SUFFICES ASSUME PacketInvariant, [Next]_vars PROVE PacketInvariant'
  OBVIOUS
<1> USE DEF PacketInvariant
<1>1. CASE onSocketPacket
  <2> DEFINE m == Head(queue)
  <2>1. queue' \in Seq(Packets)
    BY <1>1, HeadTailProperties DEF onSocketPacket
  <2>2. listeners' = listeners
    BY <1>1 DEF onSocketPacket
  <2>3. {c.to : c \in calls'} \subseteq listeners
    <3>1. calls' = IF Verdict(m) = "none"
                   THEN {onIncomingVrrpPacket(l, m) : l \in Addressee(m)}
                   ELSE {onIncomingVrrpError(l, m) : l \in Told(m)}
      BY <1>1 DEF onSocketPacket
    <3> HIDE DEF m
    <3>2. \A l : onIncomingVrrpPacket(l, m).to = l /\ onIncomingVrrpError(l, m).to = l
      BY DEF onIncomingVrrpPacket, onIncomingVrrpError
    <3>3. ASSUME NEW c \in calls' PROVE c.to \in listeners
      <4>1. \E l \in Addressee(m) \cup Told(m) :
              c = onIncomingVrrpPacket(l, m) \/ c = onIncomingVrrpError(l, m)
        BY <3>1
      <4> QED BY <3>2, <4>1, ToldListens
    <3> QED BY <3>3
  <2>4. \A e \in DOMAIN errors' : errors'[e] \in 0..MaxCount
    <3>1. errors' = [e \in DOMAIN errors |->
                       IF e = Verdict(m) /\ errors[e] < MaxCount THEN errors[e] + 1 ELSE errors[e]]
      BY <1>1 DEF onSocketPacket
    <3>2. ASSUME NEW e \in DOMAIN errors
          PROVE  (IF e = Verdict(m) /\ errors[e] < MaxCount THEN errors[e] + 1 ELSE errors[e])
                   \in 0..MaxCount
      BY PacketAssumption, SMTT(40)
    <3> HIDE DEF m
    <3> QED BY <3>1, <3>2
  <2> QED BY <2>1, <2>2, <2>3, <2>4
<1>2. ASSUME NEW l \in Routers, addEventListener(l) \/ removeEventListener(l)
      PROVE  PacketInvariant'
  BY <1>2 DEF addEventListener, removeEventListener
<1>3. ASSUME NEW m \in Packets, Arrives(m) PROVE PacketInvariant'
  BY <1>3, Appended DEF Arrives
<1>4. CASE UNCHANGED vars
  BY <1>4 DEF vars
<1> QED BY <1>1, <1>2, <1>3, <1>4, StepIs, Zenon


THEOREM Invariance == Spec => []PacketInvariant
<1>1. Init => PacketInvariant
  BY InvariantInit
<1>2. PacketInvariant /\ [Next]_vars => PacketInvariant'
  BY InvariantStep
<1> QED BY <1>1, <1>2, PTL DEF Spec

\* Every word on its way has 16 bits, the checksums and the flipped ones included;
\* onSocketPacket calls listeners only, and counts errors to their bound.
THEOREM TypeCorrect == Spec => []PacketTypeOK
<1>1. PacketInvariant => PacketTypeOK
  <2> SUFFICES ASSUME PacketInvariant PROVE PacketTypeOK
    OBVIOUS
  <2>1. ASSUME NEW n \in 1..Len(queue) PROVE ToSet(queue[n].words) \subseteq Words
    <3>1. queue[n] \in Packets
      BY ElementOfSeq DEF PacketInvariant
    <3>2. queue[n].words \in Seq(Words)
      BY <3>1 DEF Packets, PacketRecords
    <3> QED BY <3>2 DEF ToSet
  <2> QED BY <2>1 DEF PacketInvariant, PacketTypeOK
<1> QED BY <1>1, Invariance, PTL

-----------------------------------------------------------------------------
(* Delivery *)

\* What passes the checks has not been touched, and is what it was composed as.
LEMMA PassedIs ==
  ASSUME CountsFit, NEW m \in Packets, Verdict(m) = "none"
  PROVE  ~m.garbled /\ m.ttl = 255 /\ (m.sent # Nothing => Decoded(m) = m.sent)
<1>1. /\ checksum(m.words, m.source, m.destination) = 0 /\ m.ttl = 255
  BY VerdictNone
<1>2. ~m.garbled
  BY <1>1 DEF Packets, Travelled
<1>3. ASSUME m.sent # Nothing PROVE Decoded(m) = m.sent
  <2>1. m.sent \in Advertisements /\ m = Composed(m.sent)
    BY <1>1, <1>2, <1>3 DEF Packets, Travelled
  <2> DEFINE a == m.sent
  <2>2. a \in Advertisements /\ m = Composed(a)
    BY <2>1
  <2> HIDE DEF a
  <2>3. Decoded(Composed(a)) = a
    BY <2>2, DecodedIs
  <2>4. Decoded(m) = a
    BY <2>2, <2>3, Zenon
  <2> QED BY <2>4 DEF a
<1> QED BY <1>1, <1>2, <1>3

\* Whatever a listener is handed was sent, as it is handed over, by a router of its
\* id on its LAN, if no router has more than 255 addresses.
THEOREM WhatWasSent ==
  ASSUME CountsFit
  PROVE  Spec => DeliversWhatWasSent
<1> DEFINE Right(m) ==
      Handles(m) =>
        \A c \in calls' :
          c.error = "none" =>
            /\ ~m.garbled /\ m.ttl = 255
            /\ c.advertisement.interface = c.to.interface /\ c.advertisement.vrid = c.to.vrid
            /\ m.sent # Nothing => c.advertisement = m.sent
<1>1. PacketInvariant /\ [Next]_vars => \A m \in ToSet(queue) : Right(m)
  <2> SUFFICES ASSUME PacketInvariant, [Next]_vars, NEW m, Handles(m),
                      NEW c \in calls', c.error = "none"
               PROVE  /\ ~m.garbled /\ m.ttl = 255
                      /\ c.advertisement.interface = c.to.interface
                      /\ c.advertisement.vrid = c.to.vrid
                      /\ m.sent # Nothing => c.advertisement = m.sent
    OBVIOUS
  <2>1. m \in Packets
        /\ calls' = IF Verdict(m) = "none"
                    THEN {onIncomingVrrpPacket(l, m) : l \in Addressee(m)}
                    ELSE {onIncomingVrrpError(l, m) : l \in Told(m)}
    BY Handled
  <2>2. Verdict(m) = "none"
    <3>1. ASSUME Verdict(m) # "none" PROVE FALSE
      <4>1. PICK l \in Told(m) : c = onIncomingVrrpError(l, m)
        BY <2>1, <3>1
      <4>2. c.error = Verdict(m)
        BY <4>1 DEF onIncomingVrrpError
      <4> QED BY <3>1, <4>2
    <3> QED BY <3>1
  <2>3. PICK l \in Addressee(m) : c = onIncomingVrrpPacket(l, m)
    BY <2>1, <2>2
  <2>4. c.to = l /\ c.advertisement = Decoded(m)
    BY <2>3 DEF onIncomingVrrpPacket
  <2>5. Decoded(m).interface = l.interface /\ Decoded(m).vrid = l.vrid
    BY DEF Decoded, Addressee, OnInterface
  <2>6. ~m.garbled /\ m.ttl = 255 /\ (m.sent # Nothing => Decoded(m) = m.sent)
    BY <2>1, <2>2, PassedIs
  <2> QED BY <2>4, <2>5, <2>6
<1> QED BY <1>1, Invariance, PTL DEF Spec, DeliversWhatWasSent

\* A packet that was not touched on its way is handed to its router and no other,
\* with the values its sender gave it.
THEOREM Intact ==
  ASSUME CountsFit
  PROVE  Spec => IntactIsDelivered
<1> DEFINE Given(l, m) ==
      (/\ Handles(m) /\ m.sent # Nothing /\ ~m.garbled /\ m.ttl = 255
       /\ l.interface = m.interface /\ l.vrid = m.sent.vrid)
      => calls' = {[to |-> l, error |-> "none", advertisement |-> m.sent]}
<1>1. PacketInvariant /\ [Next]_vars => \A l \in listeners, m \in ToSet(queue) : Given(l, m)
  <2> SUFFICES ASSUME PacketInvariant, [Next]_vars, NEW l \in listeners, NEW m, Handles(m),
                      m.sent # Nothing, ~m.garbled, m.ttl = 255,
                      l.interface = m.interface, l.vrid = m.sent.vrid
               PROVE  calls' = {[to |-> l, error |-> "none", advertisement |-> m.sent]}
    OBVIOUS
  <2>1. m \in Packets
        /\ calls' = IF Verdict(m) = "none"
                    THEN {onIncomingVrrpPacket(k, m) : k \in Addressee(m)}
                    ELSE {onIncomingVrrpError(k, m) : k \in Told(m)}
    BY Handled
  <2> DEFINE a == m.sent
  <2>2. a \in Advertisements /\ m = Composed(a)
    BY <2>1 DEF Packets, Travelled
  <2> HIDE DEF a
  <2>3. /\ Version(m) = 3 /\ Type(m) = 1 /\ VridOf(m) = a.vrid
        /\ Len(m.words) >= 4 /\ ~Incomplete(m) /\ Decoded(m) = a
    BY <2>2, DecodedIs, ZenonT(40)
  <2>4. checksum(m.words, m.source, m.destination) = 0
    <3>1. checksum(Composed(a).words, a.source, MulticastAddress) = 0
      BY <2>2, ComposedRecord
    <3>2. Composed(a).source = a.source /\ Composed(a).destination = MulticastAddress
      BY DEF Composed
    <3> QED BY <2>2, <3>1, <3>2, Zenon
  <2>5. Addressee(m) = {l}
    <3>1. l \in Addressee(m)
      BY <2>3 DEF Addressee, OnInterface, a
    <3>2. ASSUME NEW k \in Addressee(m) PROVE k = l
      <4>1. k \in Routers /\ l \in Routers
        BY DEF PacketInvariant, Addressee, OnInterface
      <4>2. k.interface = l.interface /\ k.vrid = l.vrid
        BY <2>3 DEF Addressee, OnInterface, a
      <4> QED BY <4>1, <4>2 DEF Routers
    <3> QED BY <3>1, <3>2
  <2>6. Verdict(m) = "none"
    <3>1. OnInterface(m) # {} /\ Addressee(m) # {}
      BY <2>5, ToldListens
    <3>2. Len(m.words) \in Nat
      BY <2>1 DEF Packets, PacketRecords
    <3>3. ~(Len(m.words) < 4)
      BY <2>3, <3>2
    <3> QED BY <2>3, <2>4, <3>1, <3>3, VerdictNone
  <2>7. calls' = {onIncomingVrrpPacket(l, m)}
    BY <2>1, <2>5, <2>6
  <2> QED BY <2>3, <2>7, Zenon DEF onIncomingVrrpPacket, a
<1> QED BY <1>1, Invariance, PTL DEF Spec, IntactIsDelivered

\* No listener is told of an error of a type, id, hop limit or length that noise
\* brought about, and none of another interface is told anything.
THEOREM Noise == Spec => NoiseIsNotBlamed
<1> DEFINE Fair(m) ==
      Handles(m) =>
        /\ m.garbled => \A c \in calls' : c.error = "version"
        /\ \A c \in calls' : c.to.interface = m.interface
<1>1. PacketInvariant /\ [Next]_vars => \A m \in ToSet(queue) : Fair(m)
  <2> SUFFICES ASSUME PacketInvariant, [Next]_vars, NEW m, Handles(m), NEW c \in calls'
               PROVE  (m.garbled => c.error = "version") /\ c.to.interface = m.interface
    OBVIOUS
  <2>1. m \in Packets
        /\ calls' = IF Verdict(m) = "none"
                    THEN {onIncomingVrrpPacket(k, m) : k \in Addressee(m)}
                    ELSE {onIncomingVrrpError(k, m) : k \in Told(m)}
    BY Handled
  <2>2. c.to.interface = m.interface
    <3>1. PICK l \in Addressee(m) \cup Told(m) :
            c = onIncomingVrrpPacket(l, m) \/ c = onIncomingVrrpError(l, m)
      BY <2>1
    <3>2. c.to = l
      BY <3>1 DEF onIncomingVrrpPacket, onIncomingVrrpError
    <3>3. l \in OnInterface(m)
      BY ToldListens
    <3> QED BY <3>2, <3>3 DEF OnInterface
  <2>3. ASSUME m.garbled PROVE c.error = "version"
    <3>1. Verdict(m) \in {"nobody", "version", "checksum"}
      BY <2>1, <2>3, VerdictOfNoise DEF Packets, Travelled
    <3>2. PICK l \in Told(m) : c = onIncomingVrrpError(l, m)
      BY <2>1, <3>1
    <3>3. c.error = Verdict(m)
      BY <3>2 DEF onIncomingVrrpError
    <3>4. Verdict(m) \in {"nobody", "checksum"} => Told(m) = {}
      BY DEF Told
    <3> QED BY <3>1, <3>2, <3>3, <3>4
  <2> QED BY <2>2, <2>3
<1> QED BY <1>1, Invariance, PTL DEF Spec, NoiseIsNotBlamed


=============================================================================
