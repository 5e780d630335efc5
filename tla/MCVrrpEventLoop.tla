-------------------------- MODULE MCVrrpEventLoop --------------------------
(* Values for checking VrrpEventLoop with one router.                      *)
EXTENDS VrrpEventLoop

CONSTANTS r1

OneRouter == {r1}
AddressOfNone == [s \in {} |-> "a"]
NoAddresses == {{}}
Ip1 == [r \in OneRouter |-> 5]

Advert(p) == [src |-> 9, priority |-> p, interval |-> 100, addresses |-> {}]
Rivals == {Advert(p) : p \in {0, 200}}
RightMasterOnly == {Advert(200)}
=============================================================================
