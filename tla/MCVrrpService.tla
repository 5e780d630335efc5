--------------------------- MODULE MCVrrpService ---------------------------
(* Values for checking VrrpService on small instances.                     *)
EXTENDS VrrpServiceClaims

CONSTANT r1

Both == BOOLEAN

OneRouter == {r1}

StartsEmpty == {{}}
NoSubnets == {}
AddressOfNone == [s \in {} |-> "a"]

\* The other address is below that of a rival, the first one above it.
Ip1 == [r \in OneRouter |-> 5]
OtherIp == {2}

Advert(src, p, i) == [src |-> src, priority |-> p, interval |-> i, addresses |-> {}]

\* Intervals so short that every step of 10 msec counts, priorities on both sides of
\* a skew time of zero.
ShortIntervals == {1, 2}
TimerPriorities == {1, 200, 255}
TimerPackets ==
  {Advert(9, 0, 1), Advert(9, 200, 2), Advert(3, 200, 1)}
TenMsec == {10}

\* And masters that announce an interval of zero.
AnyIntervalPackets == TimerPackets \cup {Advert(9, 200, 0)}

=============================================================================
