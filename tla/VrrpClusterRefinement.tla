------------------------ MODULE VrrpClusterRefinement ------------------------
(***************************************************************************)
(* VrrpCluster implements RedundancyGroup.  A router's rank is what it     *)
(* announces of itself, the claims it may still hear are the packets in    *)
(* its socket's queue that are no goodbyes.  disturbed is a history        *)
(* variable: it reads the cluster and nothing in the cluster reads it.     *)
(***************************************************************************)
EXTENDS VrrpCluster

VARIABLE disturbed

refinedVars == <<clusterVars, disturbed>>

roleOf ==
  [r \in Routers |-> IF state[r] \in {"Backup", "Master"} THEN state[r] ELSE "Off"]

rankOf == [r \in Routers |-> <<priority[r], primaryIp[r]>>]

claimsOf ==
  [r \in Routers |->
     {<<inbox[r][i].priority, inbox[r][i].src>> :
        i \in {j \in DOMAIN inbox[r] : inbox[r][j].priority # 0}}]

Group == INSTANCE RedundancyGroup WITH
  role <- roleOf, rank <- rankOf, claims <- claimsOf, disturbed <- disturbed

MasterLeaves == \E r \in Masters : state'[r] = "Disabled"

Disturb == disturbed' = ((disturbed \/ MasterLeaves) /\ ~Group!Calm(claimsOf'))

RefinedInit == ClusterInit /\ disturbed = FALSE

RefinedSpec ==
  /\ RefinedInit
  /\ [][ClusterNext /\ Disturb]_refinedVars
  /\ ClusterFairness

-----------------------------------------------------------------------------
(* Properties *)

\* Whatever the routers do by timer, packet, command or crash is, seen from the
\* LAN, a step of the group: a Master yields on hearing a better claim, at once,
\* and for no other reason.
ImplementsGroup == Group!Spec

\* The LAN is not left without a Master by routers that yield to each other, only
\* by one that is disabled or killed.
NeverAbandoned == Group!NeverAbandoned

=============================================================================
