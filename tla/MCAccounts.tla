----------------------------- MODULE MCAccounts -----------------------------
(* Two requests of one person at a time, three documents, one fault. *)
EXTENDS Accounts, TLC
CONSTANTS s1, s2, k1, k2, k3
Symmetry == Permutations(Sessions) \cup Permutations(Keys)
=============================================================================
