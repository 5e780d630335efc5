--------------------------- MODULE MCVrrpOperator ---------------------------
(* Values for checking VrrpOperator with one router.                       *)
EXTENDS VrrpOperator

CONSTANTS r1

OneRouter == {r1}
AddressOfNone == [s \in {} |-> "a"]
NoAddresses == {{}}
Ip1 == [r \in OneRouter |-> 5]
=============================================================================
