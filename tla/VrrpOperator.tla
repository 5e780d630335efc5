--------------------------- MODULE VrrpOperator ---------------------------
(***************************************************************************)
(* What the operator last ordered, next to what VrrpService made of it.    *)
(* The commands "enable" and "disable" are accepted in every state; where  *)
(* VrrpService has no step for one, the call returns without effect.       *)
(***************************************************************************)
EXTENDS VrrpService

VARIABLE ordered  \* [Routers -> BOOLEAN], the last of the two commands was enable

operatorVars == <<vars, ordered>>

Order(r, enabled) == ordered' = [ordered EXCEPT ![r] = enabled]

OrderEnable(r) ==
  /\ Order(r, TRUE)
  /\ \/ enable(r)
     \/ state[r] # "Disabled" /\ UNCHANGED vars

\* In LinkDown disable calls shutdown, which does nothing there.
OrderDisable(r) ==
  /\ Order(r, FALSE)
  /\ \/ disable(r)
     \/ state[r] \in {"Disabled", "LinkDown"} /\ UNCHANGED vars

OperatorInit == Init /\ ordered = [r \in Routers |-> FALSE]

OperatorNext ==
  \/ \E r \in Routers :
       \/ OrderEnable(r)
       \/ OrderDisable(r)
       \/ (React(r) \/ LinkChange(r)) /\ UNCHANGED ordered
  \/ \E d \in TimeSteps : Elapse(d) /\ UNCHANGED ordered

OperatorSpec == OperatorInit /\ [][OperatorNext]_operatorVars

\* A disabled router takes no part until it is enabled again: disable() is to "Disable
\* router" (vrrpservice.h:311).
DisabledStays == \A r \in Routers : ~ordered[r] => state[r] \notin {"Backup", "Master"}

=============================================================================
