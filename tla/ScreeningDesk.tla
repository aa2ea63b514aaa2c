---------------------------- MODULE ScreeningDesk ----------------------------
(***************************************************************************)
(* What screening promises, seen from the desk of one Service: an Advisee  *)
(* has at most one request waiting; a request is ruled on once, and an     *)
(* acceptance lasts until the questions change; each submission rings the  *)
(* Advisor's bell once and each ruling the Advisee's.  A change takes      *)
(* time: the acceptances that stand when it begins lapse when it is done,  *)
(* one given in between is for the new questions.  No request of the API,  *)
(* transaction or stale read appears here.                                 *)
(***************************************************************************)
EXTENDS Naturals

CONSTANTS Advisees, Requests, Questions, Changes

VARIABLES
  standing,  \* per request: whose, and its status
  asked,     \* every question that was ever asked
  rung,      \* bells rung per request
  due        \* per change of the questions: what lapses with it, if under way

dvars == <<standing, asked, rung, due>>

Absent == <<"none", "none">>

Waiting(a) == \E r \in Requests : standing[r] = <<a, "PENDING">>

Ask(r, a) ==
  /\ standing[r] = Absent
  /\ ~Waiting(a)
  /\ standing' = [standing EXCEPT ![r] = <<a, "PENDING">>]
  /\ rung' = [rung EXCEPT ![r].advisor = @ + 1]
  /\ UNCHANGED <<asked, due>>

Rule(r, a, ruling) ==
  /\ standing[r] = <<a, "PENDING">>
  /\ standing' = [standing EXCEPT ![r] = <<a, ruling>>]
  /\ rung' = [rung EXCEPT ![r].advisee = @ + 1]
  /\ UNCHANGED <<asked, due>>

Accepted == {r \in Requests : standing[r][2] = "ACCEPTED"}

BeginChange(c) ==
  /\ due[c] = {}
  /\ due' = [due EXCEPT ![c] = {Accepted}]
  /\ UNCHANGED <<standing, asked, rung>>

AbandonChange(c) ==
  /\ due[c] # {}
  /\ due' = [due EXCEPT ![c] = {}]
  /\ UNCHANGED <<standing, asked, rung>>

\* The questions change, and every acceptance that was due lapses with them.
FinishChange(c) ==
  \E lapsing \in due[c] :
    /\ due' = [due EXCEPT ![c] = {}]
    /\ asked' # asked /\ asked \subseteq asked' /\ asked' \subseteq Questions
    /\ standing' = [r \in Requests |->
         IF r \in lapsing \cap Accepted THEN <<standing[r][1], "EXPIRED">> ELSE standing[r]]
    /\ UNCHANGED rung

Init ==
  /\ asked = {}
  /\ standing = [r \in Requests |-> Absent]
  /\ rung = [r \in Requests |-> [advisor |-> 0, advisee |-> 0]]
  /\ due = [c \in Changes |-> {}]

Next ==
  \/ \E r \in Requests, a \in Advisees :
       \/ Ask(r, a)
       \/ \E ruling \in {"ACCEPTED", "DECLINED"} : Rule(r, a, ruling)
  \/ \E c \in Changes : BeginChange(c) \/ AbandonChange(c) \/ FinishChange(c)

Spec == Init /\ [][Next]_dvars
=============================================================================
