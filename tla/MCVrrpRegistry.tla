--------------------------- MODULE MCVrrpRegistry ---------------------------
(* Values for checking VrrpRegistry: two routers of one interface, one of  *)
(* the same id on another, and one of the same id in the other family.     *)
(* One of them may be on a VLAN; it and its namesake may be in the file.   *)
EXTENDS VrrpRegistry

CONSTANTS e1, e2

Router(i, v, f, vlan) == [key |-> [interface |-> i, vrid |-> v, family |-> f], vlanId |-> vlan]

FourRouters ==
  {Router(e1, 1, "inet", 0), Router(e1, 1, "inet", 7), Router(e1, 2, "inet", 0),
   Router(e2, 1, "inet", 0), Router(e1, 1, "inet6", 0)}

Namesakes == {Router(e1, 1, "inet", 7), Router(e2, 1, "inet", 0)}

=============================================================================
