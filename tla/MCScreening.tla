---------------------------- MODULE MCScreening ----------------------------
(* One Service, its Advisor, and the people who answer its questions.      *)
EXTENDS Screening, TLC
CONSTANTS s1, s2, r1, r2, r3, q1, q2, q3, ann, ben
Symmetry == Permutations(Sessions) \cup Permutations(Requests)
            \cup Permutations(Questions) \cup Permutations(Advisees)
=============================================================================
