------------------------- MODULE VrrpServiceClaims -------------------------
(***************************************************************************)
(* What the comments, the header and the changelog of the repository say   *)
(* of one router, stated of VrrpService.  The runs that check them show    *)
(* where the code does something else.                                     *)
(***************************************************************************)
EXTENDS VrrpService

\* A Backup always waits for something that ends: after a goodbye it will "wait
\* skew time before transitioning to master" (vrrpservice.cpp:547).
BackupTimerRuns ==
  \A r \in Routers : state[r] = "Backup" => masterDownTimer[r] # Stalled

=============================================================================
