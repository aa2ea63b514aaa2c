------------------------------- MODULE MCCases -------------------------------
(* Three requests, two at a time: two admins with a profile and one without. *)
EXTENDS Cases, TLC
CONSTANTS s1, s2, r1, r2, r3, p1, q1, f1, ann, bob, cyd, one, five
Symmetry == Permutations(Sessions) \cup Permutations(Refunds) \cup Permutations(Profiled)
=============================================================================
