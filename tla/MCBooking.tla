----------------------------- MODULE MCBooking -----------------------------
(* Small instances of Booking: one Advisor, with a Service of two slots and *)
(* for the daily limits a second one of one slot.                          *)
EXTENDS Booking, TLC

CONSTANTS s1, s2, s3, b1, b2, b3, bob, ann, advice, review

MCOwnerOf == [service \in Services |-> bob]
MCDuration == [service \in Services |-> IF service = advice THEN 2 ELSE 1]
NoServiceLimit == [service \in Services |-> None]
\* One session of `advice' a day, any number of `review'.
AdviceOnce == [service \in Services |-> IF service = advice THEN 2 ELSE None]

\* [1,3) and [3,5) fit beside each other, unless a buffer lies between them.
Apart == [service \in Services |-> {1, 3}]
\* `review' is offered after the first `advice' only.
AfterAdvice == [service \in Services |-> IF service = advice THEN {1, 3} ELSE {3}]
\* [1,3) and [2,4) overlap.
Overlapping == [service \in Services |-> {1, 2}]

Plain == [notice |-> 1, buffer |-> 0, limit |-> None]
\* A day holds one session of `advice' and one of `review'.
Limited == [notice |-> 1, buffer |-> 0, limit |-> 3]
Buffered == [notice |-> 0, buffer |-> 1, limit |-> 3]

OnePolicy == {Plain}
LimitedPolicy == {Limited}
\* The Advisor may ask for a buffer, or for notice.
TwoPolicies == {Limited, Buffered}

Symmetry == Permutations(Sessions) \cup Permutations(Bookings)
=============================================================================
