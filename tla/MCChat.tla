------------------------------- MODULE MCChat -------------------------------
(* A booking's room: two people, two requests at once. *)
EXTENDS Chat, TLC
CONSTANTS s1, s2, ann, bob, m1, m2
Symmetry == Permutations(Sends) \cup Permutations(Messages) \cup Permutations(Members)
=============================================================================
