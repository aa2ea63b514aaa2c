------------------------------- MODULE Docket -------------------------------
(***************************************************************************)
(* What every moderation queue promises: a matter is put on the docket     *)
(* once, one person rules on it once, and the ruling stands.  Reads,       *)
(* answers and losing rulings do not appear here.                          *)
(***************************************************************************)
CONSTANTS Matters, Judges, Verdicts

VARIABLE docket   \* per matter: Unknown, Filed or who ruled and how

Unknown == <<"unknown">>
Filed == <<"open">>

File(m) ==
  /\ docket[m] = Unknown
  /\ docket' = [docket EXCEPT ![m] = Filed]

Rule(m, j, o) ==
  /\ docket[m] = Filed
  /\ docket' = [docket EXCEPT ![m] = <<j, o>>]

Init == docket \in [Matters -> {Unknown, Filed}]

Next ==
  \E m \in Matters : File(m) \/ \E j \in Judges, o \in Verdicts : Rule(m, j, o)

Spec == Init /\ [][Next]_docket
=============================================================================
