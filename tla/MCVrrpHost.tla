------------------------------ MODULE MCVrrpHost ------------------------------
(* Values for checking VrrpHost: a router that is given two addresses, and *)
(* another on the same interface that is given one of them.                *)
EXTENDS VrrpHost, TLC

CONSTANTS r1, r2, a24, b24

TwoRouters == {r1, r2}

TwoSubnets == {a24, b24}
AddressOfTwo == (a24 :> "a") @@ (b24 :> "b")
FirstHasBoth == (r1 :> TwoSubnets) @@ (r2 :> {b24})
StartsEmpty == {{}}

\* The interface has no address of its own: nothing is sent, and what is placed is the
\* same.
Ip == [r \in TwoRouters |-> 0]

=============================================================================
