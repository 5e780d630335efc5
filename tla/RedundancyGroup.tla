--------------------------- MODULE RedundancyGroup ---------------------------
(***************************************************************************)
(* What a virtual router promises to its LAN, without timers, packets or   *)
(* modes: the routers of a group claim mastership, hear of each other's    *)
(* claims late or never, and give way to better ones only.                 *)
(*                                                                         *)
(* VrrpCluster implements this specification (VrrpClusterRefinement).      *)
(***************************************************************************)
EXTENDS Integers

CONSTANT Routers

Roles == {"Off", "Backup", "Master"}

\* A router's rank: its priority and, between equal ones, its address.
Ranks == Nat \X Nat

VARIABLES
  role,      \* what each router takes itself for
  rank,      \* the rank of each router, which does not change
  claims,    \* the claims, told by their ranks, that a router may still hear of
  disturbed  \* a Master has left, and claims of before may still be heard

vars == <<role, rank, claims, disturbed>>

Masters == {r \in Routers : role[r] = "Master"}

Better(a, b) == a[1] > b[1] \/ (a[1] = b[1] /\ a[2] > b[2])

\* Every claim has been heard or is lost.
Calm(c) == \A r \in Routers : c[r] = {}

Settles == disturbed' = (disturbed /\ ~Calm(claims'))

-----------------------------------------------------------------------------

Join(r) ==
  /\ role[r] = "Off"
  /\ role' = [role EXCEPT ![r] = "Backup"]
  /\ UNCHANGED <<rank, claims, disturbed>>

\* Take over or, as Master already, remind the others.  The claim may get lost.
Claim(r) ==
  /\ role' = [role EXCEPT ![r] = "Master"]
  /\ \E reached \in SUBSET (Routers \ {r}) :
       claims' = [q \in Routers |-> IF q \in reached THEN claims[q] \cup {rank[r]} ELSE claims[q]]
  /\ Settles
  /\ UNCHANGED rank

\* A Master gives way to a better claim at once, and to no other.  The same claim
\* may be heard again, when it was made more than once.
Hear(r, c) ==
  /\ c \in claims[r]
  /\ role' = IF role[r] = "Master" /\ Better(c, rank[r])
             THEN [role EXCEPT ![r] = "Backup"]
             ELSE role
  /\ \E left \in {claims[r], claims[r] \ {c}} : claims' = [claims EXCEPT ![r] = left]
  /\ Settles
  /\ UNCHANGED rank

\* Disabled, or killed with what it has not heard yet.
Leave(r) ==
  /\ role[r] # "Off"
  /\ role' = [role EXCEPT ![r] = "Off"]
  /\ \E left \in {claims[r], {}} : claims' = [claims EXCEPT ![r] = left]
  /\ disturbed' = ((disturbed \/ role[r] = "Master") /\ ~Calm(claims'))
  /\ UNCHANGED rank

Init ==
  /\ role = [r \in Routers |-> "Off"]
  /\ rank \in [Routers -> Ranks]
  /\ claims = [r \in Routers |-> {}]
  /\ disturbed = FALSE

Next ==
  \E r \in Routers :
    \/ Join(r) \/ Claim(r) \/ Leave(r)
    \/ \E c \in claims[r] : Hear(r, c)

Spec == Init /\ [][Next]_vars

-----------------------------------------------------------------------------
(* What the group promises *)

GroupTypeOK ==
  /\ role \in [Routers -> Roles]
  /\ rank \in [Routers -> Ranks]
  /\ claims \in [Routers -> SUBSET Ranks]
  /\ disturbed \in BOOLEAN

\* Behind every claim that may still be heard stands a Master at least as good,
\* unless one has left meanwhile: whoever gives way gives way to somebody.
ClaimsBacked ==
  ~disturbed =>
    \A r \in Routers : \A c \in claims[r] : \E m \in Masters : ~Better(c, rank[m])

\* The LAN loses its last Master only when a Master leaves: yielding alone, in
\* whatever order claims are heard, never leaves it without.
NeverAbandoned ==
  [][~disturbed /\ Masters # {} /\ (\A r \in Masters : role'[r] # "Off") => Masters' # {}]_vars

=============================================================================
