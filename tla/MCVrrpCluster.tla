--------------------------- MODULE MCVrrpCluster ---------------------------
(* Values for checking VrrpCluster with two and three routers.             *)
EXTENDS VrrpClusterRefinement, TLC

CONSTANTS r1, r2, r3

TwoRouters == {r1, r2}
ThreeRouters == {r1, r2, r3}

AddressOfNone == [s \in {} |-> "a"]
NoAddresses == {{}}

Ip2 == (r1 :> 5) @@ (r2 :> 7)
Ip3 == Ip2 @@ (r3 :> 9)

\* Addresses decide between equal priorities only: routers with other priorities are
\* these, renamed.
Sorted == \A r, q \in Routers : InterfaceIp[r] < InterfaceIp[q] => priority[r] <= priority[q]

SortedInit == RefinedInit /\ Sorted

SortedSpec ==
  /\ SortedInit
  /\ [][ClusterNext /\ Disturb]_refinedVars
  /\ ClusterFairness

=============================================================================
