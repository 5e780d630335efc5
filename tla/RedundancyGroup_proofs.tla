------------------------ MODULE RedundancyGroup_proofs ------------------------
(***************************************************************************)
(* The promise of the group for any set of routers and ranks: behind every *)
(* claim stands a Master at least as good, so that routers which yield to  *)
(* each other never leave the LAN without one.                             *)
(***************************************************************************)
EXTENDS RedundancyGroup, TLAPS

\* Ranks are ordered: what is no better than a worse rank is no better itself.
LEMMA BetterIsTransitive ==
  ASSUME NEW a \in Ranks, NEW b \in Ranks, NEW c \in Ranks, ~Better(a, b), ~Better(b, c)
  PROVE  ~Better(a, c)
BY DEF Better, Ranks

LEMMA BetterIsStrict ==
  ASSUME NEW a \in Ranks, NEW b \in Ranks, Better(a, b)
  PROVE  ~Better(b, a)
BY DEF Better, Ranks

LEMMA NotBetterThanItself ==
  ASSUME NEW a \in Ranks
  PROVE  ~Better(a, a)
BY DEF Better, Ranks

-----------------------------------------------------------------------------
(* Types *)

\* Each step keeps roles, ranks, claims and the flag in their types.
LEMMA TypeStep == GroupTypeOK /\ [Next]_vars => GroupTypeOK'
<1> SUFFICES ASSUME GroupTypeOK, [Next]_vars PROVE GroupTypeOK'
  OBVIOUS
<1>1. ASSUME NEW r \in Routers, Join(r) PROVE GroupTypeOK'
  BY <1>1 DEF GroupTypeOK, Join, Roles
<1>2. ASSUME NEW r \in Routers, Claim(r) PROVE GroupTypeOK'
  <2>1. PICK reached \in SUBSET (Routers \ {r}) :
          claims' = [q \in Routers |-> IF q \in reached THEN claims[q] \cup {rank[r]} ELSE claims[q]]
    BY <1>2 DEF Claim
  <2>2. claims' \in [Routers -> SUBSET Ranks]
    BY <2>1 DEF GroupTypeOK
  <2>3. role' \in [Routers -> Roles]
    BY <1>2 DEF Claim, GroupTypeOK, Roles
  <2>4. disturbed' \in BOOLEAN
    BY <1>2 DEF Claim, GroupTypeOK, Settles, Calm
  <2> QED BY <1>2, <2>2, <2>3, <2>4 DEF GroupTypeOK, Claim
<1>3. ASSUME NEW r \in Routers, Leave(r) PROVE GroupTypeOK'
  <2>1. PICK left \in {claims[r], {}} : claims' = [claims EXCEPT ![r] = left]
    BY <1>3 DEF Leave
  <2>2. claims' \in [Routers -> SUBSET Ranks]
    BY <2>1 DEF GroupTypeOK
  <2>3. role' \in [Routers -> Roles]
    BY <1>3 DEF Leave, GroupTypeOK, Roles
  <2>4. disturbed' \in BOOLEAN
    BY <1>3 DEF Leave, GroupTypeOK, Calm
  <2> QED BY <1>3, <2>2, <2>3, <2>4 DEF GroupTypeOK, Leave
<1>4. ASSUME NEW r \in Routers, NEW c \in claims[r], Hear(r, c) PROVE GroupTypeOK'
  <2>1. PICK left \in {claims[r], claims[r] \ {c}} : claims' = [claims EXCEPT ![r] = left]
    BY <1>4 DEF Hear
  <2>2. claims' \in [Routers -> SUBSET Ranks]
    BY <2>1 DEF GroupTypeOK
  <2>3. role' \in [Routers -> Roles]
    BY <1>4 DEF Hear, GroupTypeOK, Roles
  <2>4. disturbed' \in BOOLEAN
    BY <1>4 DEF Hear, GroupTypeOK, Settles, Calm
  <2> QED BY <1>4, <2>2, <2>3, <2>4 DEF GroupTypeOK, Hear
<1>5. CASE UNCHANGED vars
  BY <1>5 DEF GroupTypeOK, vars
<1> QED BY <1>1, <1>2, <1>3, <1>4, <1>5 DEF Next

THEOREM GroupTypeCorrect == Spec => []GroupTypeOK
<1>1. Init => GroupTypeOK
  BY DEF Init, GroupTypeOK, Roles
<1> QED BY <1>1, TypeStep, PTL DEF Spec

-----------------------------------------------------------------------------
(* Claims are backed *)

\* A router that yields leaves behind a Master at least as good as any that it
\* was itself as good as: the one behind the claim that it heard.
LEMMA YieldIsBacked ==
  ASSUME GroupTypeOK, ClaimsBacked, ~disturbed,
         NEW r \in Routers, NEW c \in claims[r], Hear(r, c),
         NEW a \in Ranks, NEW m \in Masters, ~Better(a, rank[m])
  PROVE  \E n \in Masters' : ~Better(a, rank'[n])
<1>1. rank' = rank /\ c \in Ranks /\ rank \in [Routers -> Ranks]
  BY DEF Hear, GroupTypeOK
<1>2. CASE role[r] = "Master" /\ Better(c, rank[r])
  <2>1. PICK n \in Masters : ~Better(c, rank[n])
    BY DEF ClaimsBacked
  <2>2. n # r
    BY <1>2, <2>1
  <2>3. n \in Masters'
    BY <1>2, <2>1, <2>2 DEF Hear, Masters, GroupTypeOK
  <2>4. CASE m = r
    <3>1. ~Better(rank[r], c)
      BY <1>1, <1>2, BetterIsStrict
    <3>2. ~Better(a, c)
      BY <1>1, <2>4, <3>1, BetterIsTransitive
    <3>3. ~Better(a, rank[n])
      BY <1>1, <2>1, <3>2, BetterIsTransitive DEF Masters
    <3> QED BY <1>1, <2>3, <3>3
  <2>5. CASE m # r
    BY <1>1, <1>2, <2>5 DEF Hear, Masters, GroupTypeOK
  <2> QED BY <2>4, <2>5
<1>3. CASE ~(role[r] = "Master" /\ Better(c, rank[r]))
  BY <1>1, <1>3 DEF Hear, Masters
<1> QED BY <1>2, <1>3

LEMMA BackedStep == GroupTypeOK /\ ClaimsBacked /\ [Next]_vars => ClaimsBacked'
<1> SUFFICES ASSUME GroupTypeOK, ClaimsBacked, [Next]_vars, ~disturbed',
                    NEW q \in Routers, NEW a \in claims'[q]
             PROVE  \E m \in Masters' : ~Better(a, rank'[m])
  BY DEF ClaimsBacked
<1> USE DEF GroupTypeOK
<1>1. ASSUME NEW r \in Routers, Join(r) PROVE \E m \in Masters' : ~Better(a, rank'[m])
  <2>1. PICK m \in Masters : ~Better(a, rank[m])
    BY <1>1 DEF Join, ClaimsBacked
  <2>2. m \in Masters'
    BY <1>1, <2>1 DEF Join, Masters
  <2> QED BY <1>1, <2>1, <2>2 DEF Join
<1>2. ASSUME NEW r \in Routers, Claim(r) PROVE \E m \in Masters' : ~Better(a, rank'[m])
  <2>1. PICK reached \in SUBSET (Routers \ {r}) :
          claims' = [p \in Routers |-> IF p \in reached THEN claims[p] \cup {rank[r]} ELSE claims[p]]
    BY <1>2 DEF Claim
  <2>2. rank' = rank /\ r \in Masters'
    BY <1>2 DEF Claim, Masters
  <2>3. CASE a = rank[r]
    BY <2>2, <2>3, NotBetterThanItself
  <2>4. CASE a # rank[r]
    <3>1. a \in claims[q]
      BY <2>1, <2>4
    <3>2. ~disturbed
      BY <1>2, <3>1, <2>1 DEF Claim, Settles, Calm
    <3>3. PICK m \in Masters : ~Better(a, rank[m])
      BY <3>1, <3>2 DEF ClaimsBacked
    <3>4. m \in Masters'
      BY <1>2, <3>3 DEF Claim, Masters
    <3> QED BY <2>2, <3>3, <3>4
  <2> QED BY <2>3, <2>4
<1>3. ASSUME NEW r \in Routers, Leave(r) PROVE \E m \in Masters' : ~Better(a, rank'[m])
  <2>1. ~Calm(claims')
    BY DEF Calm
  <2>2. ~disturbed /\ role[r] # "Master"
    BY <1>3, <2>1 DEF Leave
  <2>3. PICK left \in {claims[r], {}} : claims' = [claims EXCEPT ![r] = left]
    BY <1>3 DEF Leave
  <2>4. a \in claims[q]
    BY <2>3
  <2>5. PICK m \in Masters : ~Better(a, rank[m])
    BY <2>2, <2>4 DEF ClaimsBacked
  <2>6. m \in Masters' /\ rank' = rank
    BY <1>3, <2>2, <2>5 DEF Leave, Masters
  <2> QED BY <2>5, <2>6
<1>4. ASSUME NEW r \in Routers, NEW c \in claims[r], Hear(r, c)
      PROVE  \E m \in Masters' : ~Better(a, rank'[m])
  <2>1. PICK left \in {claims[r], claims[r] \ {c}} : claims' = [claims EXCEPT ![r] = left]
    BY <1>4 DEF Hear
  <2>2. a \in claims[q] /\ a \in Ranks
    BY <2>1
  <2>3. ~disturbed
    BY <1>4 DEF Hear, Settles, Calm
  <2>4. PICK m \in Masters : ~Better(a, rank[m])
    BY <2>2, <2>3 DEF ClaimsBacked
  <2> QED BY <1>4, <2>2, <2>3, <2>4, YieldIsBacked
<1>5. CASE UNCHANGED vars
  BY <1>5 DEF vars, ClaimsBacked, Masters
<1> QED BY <1>1, <1>2, <1>3, <1>4, <1>5 DEF Next

\* Behind every claim that may still be heard stands a Master at least as good, in
\* every group and every order of hearing.
THEOREM EveryClaimIsBacked == Spec => []ClaimsBacked
<1>1. Init => ClaimsBacked
  BY DEF Init, ClaimsBacked
<1> QED BY <1>1, BackedStep, GroupTypeCorrect, PTL DEF Spec

-----------------------------------------------------------------------------
(* The LAN is not abandoned *)

LEMMA MastersRemain ==
  ASSUME GroupTypeOK, ClaimsBacked, [Next]_vars, ~disturbed, Masters # {},
         \A r \in Masters : role'[r] # "Off"
  PROVE  Masters' # {}
<1> USE DEF GroupTypeOK
<1> PICK m \in Masters : TRUE
  OBVIOUS
<1>1. ASSUME NEW r \in Routers, Join(r) PROVE Masters' # {}
  BY <1>1 DEF Join, Masters
<1>2. ASSUME NEW r \in Routers, Claim(r) PROVE Masters' # {}
  BY <1>2 DEF Claim, Masters
<1>3. ASSUME NEW r \in Routers, Leave(r) PROVE Masters' # {}
  BY <1>3 DEF Leave, Masters
<1>4. ASSUME NEW r \in Routers, NEW c \in claims[r], Hear(r, c) PROVE Masters' # {}
  <2>1. PICK n \in Masters : ~Better(c, rank[n])
    BY DEF ClaimsBacked
  <2>2. c \in Ranks
    OBVIOUS
  <2>3. \E k \in Masters' : ~Better(c, rank'[k])
    BY <1>4, <2>1, <2>2, YieldIsBacked
  <2> QED BY <2>3
<1>5. CASE UNCHANGED vars
  BY <1>5 DEF vars, Masters
<1> QED BY <1>1, <1>2, <1>3, <1>4, <1>5 DEF Next

\* Yielding alone never takes the last Master from the LAN: for any number of
\* routers, ties by priority included, and whatever claims are lost or late.
THEOREM GroupNeverAbandoned == Spec => NeverAbandoned
<1>1. GroupTypeOK /\ ClaimsBacked /\ [Next]_vars =>
        [~disturbed /\ Masters # {} /\ (\A r \in Masters : role'[r] # "Off") => Masters' # {}]_vars
  BY MastersRemain
<1> QED BY <1>1, GroupTypeCorrect, EveryClaimIsBacked, PTL DEF Spec, NeverAbandoned

=============================================================================
