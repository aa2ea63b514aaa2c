--------------------------- MODULE ScreeningProofs ---------------------------
(***************************************************************************)
(* Theorems about Screening: any number of requests of the API in flight,  *)
(* of Advisees, screening requests and questions.                          *)
(***************************************************************************)
EXTENDS Screening, FiniteSetTheorems, TLAPS

USE DEF Replacing

----------------------------------------------------------------------------
(* The inductive invariant.                                                 *)

Steps == {"idle", "latest", "list", "store", "replace", "commit", "rule", "gate"}
Carried == SubmitRequest \cup ReplaceRequest \cup DecideRequest \cup Visit \cup {None}

\* What a request of the API carries at each of its steps.
Shape(step, q) ==
  \/ step = "idle" /\ q = None
  \/ step \in {"latest", "list", "store"} /\ q \in SubmitRequest
  \/ step \in Replacing /\ q \in ReplaceRequest
  \/ step = "rule" /\ q \in DecideRequest
  \/ step = "gate" /\ q \in Visit

TablesOK ==
  /\ screened \in BOOLEAN
  /\ questions \in [Questions -> Question \cup {None}]
  /\ requests \in [Requests -> Request \cup {None}]
  /\ rung \in [Requests -> [advisor : 0..1, advisee : 0..1]]
  /\ admitted \subseteq Visit
  /\ lists \subseteq SUBSET Questions

TypeInv ==
  /\ TablesOK
  /\ pc \in [Sessions -> Steps] /\ req \in [Sessions -> Carried]
  /\ \A s \in Sessions : Shape(pc[s], req[s])

\* A bell has not been rung before what it tells of.
BellsOK ==
  \A r \in Requests :
    /\ requests[r] = None => rung[r].advisor = 0 /\ rung[r].advisee = 0
    /\ requests[r] # None /\ requests[r].status = "PENDING" => rung[r].advisee = 0

\* The list that is asked now could be read, and every list that could be read
\* is of questions that were asked.
ListsOK ==
  /\ ActiveQuestions \in lists
  /\ \A list \in lists : list \subseteq EverAsked

\* The answers were checked against a list that could be read.
Fits(answers) ==
  \E list \in lists : answers \subseteq list /\ RequiredOf(list) \subseteq answers

\* What the checks of a request of the API have shown stays true until it writes.
\* New questions are nobody else's until they are committed.
VisitOK(s) ==
  /\ pc[s] = "store" => Fits(req[s].answers)
  /\ pc[s] \in Replacing =>
       /\ req[s].new # {} /\ req[s].new \cap EverAsked = {}
       /\ req[s].seen \subseteq EverAsked
       /\ \A t \in Sessions \ {s} : pc[t] \in Replacing => req[t].new \cap req[s].new = {}

AnswersOK == \A r \in Submitted : Fits(requests[r].answers)

IInv ==
  /\ TypeInv /\ BellsOK /\ ListsOK /\ AnswersOK /\ AdmittedWereAccepted
  /\ \A s \in Sessions : VisitOK(s)

----------------------------------------------------------------------------
(* How the tables and the requests of the API move.                         *)

\* A session goes to a step and carries `q' there.
Moves(s, step, q) == pc' = [pc EXCEPT ![s] = step] /\ req' = [req EXCEPT ![s] = q]

Elsewhere(s) == \A t \in Sessions \ {s} : pc'[t] = pc[t] /\ req'[t] = req[t]

LEMMA Moved ==
  ASSUME TypeInv, NEW s \in Sessions, NEW step, NEW q, Moves(s, step, q),
         Shape(step, q), TablesOK'
  PROVE  TypeInv' /\ pc'[s] = step /\ req'[s] = q /\ Elsewhere(s)
<1>1. step \in Steps /\ q \in Carried
  BY DEF Shape, Steps, Carried
<1>2. /\ pc' \in [Sessions -> Steps] /\ req' \in [Sessions -> Carried]
      /\ pc'[s] = step /\ req'[s] = q /\ Elsewhere(s)
  BY <1>1 DEF TypeInv, Moves, Elsewhere
<1>3. \A t \in Sessions : Shape(pc'[t], req'[t])
  BY <1>2 DEF TypeInv, Elsewhere
<1> QED
  BY <1>2, <1>3 DEF TypeInv

\* Questions are added and marked as deleted, never taken back or reworded, and
\* what could be read once stays in the history.
AsksOn ==
  /\ lists \subseteq lists'
  /\ \A q \in Questions : questions[q] # None =>
       questions'[q] # None /\ questions'[q].required = questions[q].required

LEMMA FitsOn ==
  ASSUME TypeInv, ListsOK, AsksOn, NEW answers, Fits(answers)
  PROVE  Fits(answers)'
<1>1. PICK list \in lists : answers \subseteq list /\ RequiredOf(list) \subseteq answers
  BY DEF Fits
<1>2. list \subseteq EverAsked /\ EverAsked \subseteq Questions
  BY DEF ListsOK, EverAsked
<1>3. {q \in list : questions'[q].required} \subseteq answers
  BY <1>1, <1>2 DEF AsksOn, RequiredOf, EverAsked
<1> QED
  BY <1>1, <1>3 DEF Fits, RequiredOf, AsksOn

\* The sessions a step does not move.
LEMMA OthersOn ==
  ASSUME IInv, NEW s \in Sessions, Elsewhere(s), AsksOn,
         pc'[s] \in Replacing =>
           \A t \in Sessions \ {s} : pc[t] \in Replacing => req[t].new \cap req'[s].new = {},
         \A t \in Sessions \ {s} : pc[t] \in Replacing => req[t].new \cap EverAsked' = {},
         NEW t \in Sessions \ {s}
  PROVE  VisitOK(t)'
<1>1. pc'[t] = pc[t] /\ req'[t] = req[t] /\ VisitOK(t)
  BY DEF IInv, Elsewhere
<1>2. ASSUME pc[t] = "store" PROVE Fits(req[t].answers)'
  <2>1. PICK answers : answers = req[t].answers /\ Fits(answers)
    BY <1>1, <1>2 DEF VisitOK
  <2>2. Fits(answers)'
    BY <2>1, FitsOn DEF IInv
  <2> QED
    BY <1>1, <2>1, <2>2 DEF Fits
<1>3. ASSUME pc[t] \in Replacing
      PROVE  /\ req'[t].new # {} /\ req'[t].new \cap EverAsked' = {}
             /\ req'[t].seen \subseteq EverAsked'
             /\ \A x \in Sessions \ {t} : pc'[x] \in Replacing => req'[x].new \cap req'[t].new = {}
  <2>1. EverAsked \subseteq EverAsked'
    BY DEF EverAsked, AsksOn
  <2> QED
    BY <1>1, <1>3, <2>1 DEF VisitOK, Elsewhere
<1> QED
  BY <1>1, <1>2, <1>3 DEF VisitOK, Fits

LEMMA AnswersOn ==
  ASSUME IInv, AsksOn, NEW r \in Submitted, requests'[r] # None,
         requests'[r].answers = requests[r].answers
  PROVE  Fits(requests[r].answers)'
<1>1. PICK answers : answers = requests[r].answers /\ Fits(answers)
  BY DEF IInv, AnswersOK
<1>2. Fits(answers)'
  BY <1>1, FitsOn DEF IInv
<1> QED
  BY <1>1, <1>2 DEF Fits

\* No acceptance is undone but by lapsing.
AcceptsOn ==
  \A r \in Requests :
    requests[r] # None /\ requests[r].status \in {"ACCEPTED", "EXPIRED"} =>
      /\ requests'[r] # None /\ requests'[r].advisee = requests[r].advisee
      /\ requests'[r].status \in {"ACCEPTED", "EXPIRED"}

LEMMA AdmittedOn ==
  ASSUME AdmittedWereAccepted, AcceptsOn, UNCHANGED admitted
  PROVE  AdmittedWereAccepted'
BY DEF AdmittedWereAccepted, AcceptsOn, Of, Submitted

\* The tables but `screened' and the gate's history are as they were.
LEMMA TablesKept ==
  ASSUME IInv, UNCHANGED <<questions, requests, rung, lists>>
  PROVE  BellsOK' /\ ListsOK' /\ AnswersOK' /\ AsksOn /\ AcceptsOn /\ EverAsked' = EverAsked
BY DEF IInv, BellsOK, ListsOK, AnswersOK, AsksOn, AcceptsOn, EverAsked, ActiveQuestions, Fits,
   RequiredOf, Submitted

\* A session moves and writes nothing.
LEMMA OnlyMoves ==
  ASSUME IInv, NEW s \in Sessions, NEW step, NEW q, Moves(s, step, q), Shape(step, q),
         UNCHANGED tables,
         step = "store" => Fits(q.answers),
         step \in Replacing =>
           /\ q.new # {} /\ q.new \cap EverAsked = {} /\ q.seen \subseteq EverAsked
           /\ \A t \in Sessions \ {s} : pc[t] \in Replacing => req[t].new \cap q.new = {}
  PROVE  IInv'
<1>1. /\ BellsOK' /\ ListsOK' /\ AnswersOK' /\ AsksOn /\ AcceptsOn /\ EverAsked' = EverAsked
      /\ AdmittedWereAccepted'
  BY TablesKept, AdmittedOn DEF IInv, tables
<1>2. TypeInv' /\ pc'[s] = step /\ req'[s] = q /\ Elsewhere(s)
  BY Moved DEF IInv, TypeInv, TablesOK, tables
<1>3. \A t \in Sessions \ {s} : VisitOK(t)'
  <2>1. \A t \in Sessions \ {s} : pc[t] \in Replacing => req[t].new \cap EverAsked' = {}
    BY <1>1 DEF IInv, VisitOK
  <2> QED
    BY <1>1, <1>2, <2>1, OthersOn
<1>4. VisitOK(s)'
  <2>1. step = "store" => Fits(q.answers)'
    BY DEF Fits, RequiredOf, tables
  <2>2. pc'[s] = "store" => Fits(req[s].answers)'
    BY <1>2, <2>1 DEF Fits, RequiredOf
  <2> QED
    BY <1>1, <1>2, <2>2 DEF VisitOK, Elsewhere
<1> QED
  BY <1>1, <1>2, <1>3, <1>4 DEF IInv

LEMMA RefuseStep ==
  ASSUME IInv, NEW s \in Sessions, Answer(s), UNCHANGED tables
  PROVE  IInv'
BY OnlyMoves DEF Answer, Moves, Shape

----------------------------------------------------------------------------
(* submit().                                                                *)

LEMMA SubmitStep ==
  ASSUME IInv, NEW s \in Sessions, NEW a \in Advisees, NEW answers \in SUBSET Questions,
         Submit(s, a, answers)
  PROVE  IInv'
<1> DEFINE q == [advisee |-> a, answers |-> answers]
<1>1. Moves(s, "latest", q) /\ UNCHANGED tables
  BY DEF Submit, Begin, Go, Moves
<1>2. Shape("latest", q)
  BY DEF Shape, SubmitRequest
<1> HIDE DEF q
<1> QED
  BY <1>1, <1>2, OnlyMoves

LEMMA Waits ==
  ASSUME TypeInv, NEW s \in Sessions
  PROVE  /\ pc[s] \in {"latest", "list", "store"} => req[s] \in SubmitRequest
         /\ pc[s] \in Replacing => req[s] \in ReplaceRequest
         /\ pc[s] = "rule" => req[s] \in DecideRequest
         /\ pc[s] = "gate" => req[s] \in Visit
         /\ req = [req EXCEPT ![s] = req[s]]
<1>1. Shape(pc[s], req[s])
  BY DEF TypeInv
<1> QED
  BY <1>1 DEF TypeInv, Shape

LEMMA ReadStep ==
  ASSUME IInv, NEW s \in Sessions, ReadLatest(s) \/ ReadQuestions(s)
  PROVE  IInv'
<1>1. /\ pc[s] \in {"latest", "list"} /\ UNCHANGED tables
      /\ req[s] \in SubmitRequest /\ req = [req EXCEPT ![s] = req[s]]
  BY Waits DEF ReadLatest, ReadQuestions, IInv
<1>2. CASE Answer(s)
  BY <1>1, <1>2, RefuseStep
<1>3. CASE ReadLatest(s) /\ ~Answer(s)
  <2>1. Moves(s, "list", req[s])
    BY <1>1, <1>3 DEF ReadLatest, Go, Moves
  <2>2. Shape("list", req[s])
    BY <1>1 DEF Shape
  <2> QED
    BY <1>1, <2>1, <2>2, OnlyMoves
<1>4. CASE ReadQuestions(s) /\ ~Answer(s)
  <2>1. Moves(s, "store", req[s]) /\ MatchAnswers(ActiveQuestions, req[s].answers)
    BY <1>1, <1>4 DEF ReadQuestions, Go, Moves
  <2>2. Fits(req[s].answers)
    BY <2>1 DEF Fits, MatchAnswers, IInv, ListsOK
  <2>3. Shape("store", req[s])
    BY <1>1 DEF Shape
  <2> QED
    BY <1>1, <2>1, <2>2, <2>3, OnlyMoves
<1> QED
  BY <1>2, <1>3, <1>4

\* The ordinal of a new row is within bounds.
LEMMA NextAge ==
  ASSUME NEW r \in Requests, requests[r] = None
  PROVE  Cardinality(Submitted) + 1 \in 1..Cardinality(Requests)
<1>1. IsFiniteSet(Requests) /\ Submitted \subseteq Requests /\ Submitted # Requests
  BY ScreeningAssumption DEF Submitted
<1>2. /\ Cardinality(Submitted) \in Nat /\ Cardinality(Requests) \in Nat
      /\ Cardinality(Submitted) <= Cardinality(Requests)
      /\ Cardinality(Submitted) # Cardinality(Requests)
  BY <1>1, FS_Subset, FS_CardinalityType
<1> QED
  BY <1>2

LEMMA CreateStep ==
  ASSUME IInv, NEW s \in Sessions, NEW r \in Requests, CreateWithAnswers(s, r)
  PROVE  IInv'
<1>1. CASE PendingKeyTaken(req[s].advisee)
  BY <1>1, RefuseStep DEF CreateWithAnswers, Refuse
<1>2. CASE ~PendingKeyTaken(req[s].advisee)
  <2> DEFINE row == [advisee |-> req[s].advisee, status |-> "PENDING",
                     answers |-> req[s].answers,
                     age |-> Cardinality(Submitted) + 1, viewed |-> FALSE]
  <2>1. /\ pc[s] = "store" /\ requests[r] = None
        /\ requests' = [requests EXCEPT ![r] = row]
        /\ rung' = [rung EXCEPT ![r].advisor = @ + 1]
        /\ Answer(s) /\ UNCHANGED <<screened, questions, admitted, lists>>
    BY <1>2 DEF CreateWithAnswers
  <2>2. req[s] \in SubmitRequest
    BY <2>1, Waits DEF IInv
  <2>3. row \in Request /\ row # None
    <3>1. /\ Cardinality(Submitted) + 1 \in 1..Cardinality(Requests)
          /\ req[s].advisee \in Advisees /\ req[s].answers \in SUBSET Questions
      BY <2>1, <2>2, NextAge DEF SubmitRequest
    <3>2. row \in Request
      BY <3>1 DEF Request, Statuses
    <3> QED
      BY <3>2, ScreeningAssumption
  <2>4. row.answers = req[s].answers /\ row.status = "PENDING"
    OBVIOUS
  <2> HIDE DEF row
  <2>5. /\ requests' \in [Requests -> Request \cup {None}] /\ requests'[r] = row
        /\ \A x \in Requests \ {r} : requests'[x] = requests[x]
    BY <2>1, <2>3 DEF IInv, TypeInv, TablesOK
  <2>6. /\ rung' \in [Requests -> [advisor : 0..1, advisee : 0..1]]
        /\ rung'[r].advisee = 0 /\ \A x \in Requests \ {r} : rung'[x] = rung[x]
    <3>1. /\ rung \in [Requests -> [advisor : 0..1, advisee : 0..1]]
          /\ rung[r].advisor = 0 /\ rung[r].advisee = 0
      BY <2>1 DEF IInv, TypeInv, TablesOK, BellsOK
    <3> QED
      BY <2>1, <3>1
  <2>7. TypeInv' /\ pc'[s] = "idle" /\ Elsewhere(s)
    <3>1. Moves(s, "idle", None) /\ Shape("idle", None)
      BY <2>1 DEF Answer, Moves, Shape
    <3>2. TablesOK'
      BY <2>1, <2>5, <2>6 DEF IInv, TypeInv, TablesOK
    <3> QED
      BY <3>1, <3>2, Moved DEF IInv
  <2>8. AsksOn /\ AcceptsOn /\ EverAsked' = EverAsked
    BY <2>1, <2>5 DEF AsksOn, AcceptsOn, EverAsked
  <2>9. BellsOK' /\ ListsOK' /\ AdmittedWereAccepted'
    BY <2>1, <2>3, <2>4, <2>5, <2>6, <2>8, AdmittedOn DEF IInv, BellsOK, ListsOK, ActiveQuestions
  <2>10. AnswersOK'
    <3>1. Fits(req[s].answers)
      BY <2>1 DEF IInv, VisitOK
    <3> QED
      BY <2>1, <2>4, <2>5, <3>1 DEF IInv, AnswersOK, Submitted, Fits, RequiredOf
  <2>11. \A t \in Sessions : VisitOK(t)'
    <3>1. \A t \in Sessions \ {s} : pc[t] \in Replacing => req[t].new \cap EverAsked' = {}
      BY <2>8 DEF IInv, VisitOK
    <3>2. VisitOK(s)'
      BY <2>7 DEF VisitOK
    <3> QED
      BY <2>7, <2>8, <3>1, <3>2, OthersOn
  <2> QED
    BY <2>7, <2>9, <2>10, <2>11 DEF IInv
<1> QED
  BY <1>1, <1>2

----------------------------------------------------------------------------
(* replaceQuestions().                                                      *)

LEMMA ReplaceStep ==
  ASSUME IInv, NEW s \in Sessions, NEW new \in SUBSET Questions,
         NEW required \in SUBSET Questions, ReplaceQuestions(s, new, required)
  PROVE  IInv'
<1> DEFINE q == [seen |-> ActiveQuestions, new |-> new, required |-> required,
                 lapsing |-> {}]
<1>1. Moves(s, "replace", q) /\ UNCHANGED tables
  BY DEF ReplaceQuestions, Begin, Go, Moves
<1>2. q \in ReplaceRequest
  BY DEF ReplaceRequest, ActiveQuestions
<1>3. Shape("replace", q)
  BY <1>2 DEF Shape
<1>4. /\ new # {} /\ new \cap EverAsked = {} /\ ActiveQuestions \subseteq EverAsked
      /\ \A t \in Sessions \ {s} : pc[t] \in Replacing => req[t].new \cap new = {}
  BY DEF ReplaceQuestions, EverAsked, ActiveQuestions
<1>5. q.new = new /\ q.seen = ActiveQuestions
  OBVIOUS
<1> HIDE DEF q
<1> QED
  BY <1>1, <1>3, <1>4, <1>5, OnlyMoves

\* What the committed replacement does to the questions.
LEMMA Replaced ==
  ASSUME IInv, NEW s \in Sessions, CommitQuestions(s)
  PROVE  /\ questions' \in [Questions -> Question \cup {None}]
         /\ AsksOn /\ EverAsked' = EverAsked \cup req[s].new
         /\ ActiveQuestions' = (ActiveQuestions \ req[s].seen) \cup req[s].new
         /\ req[s].new \subseteq Questions /\ req[s].new # {}
         /\ req[s].new \cap EverAsked = {}
<1>1. PICK new, seen, required : new = req[s].new /\ seen = req[s].seen
                                 /\ required = req[s].required
  OBVIOUS
<1>2. /\ new \subseteq Questions /\ seen \subseteq Questions /\ new # {}
      /\ new \cap EverAsked = {} /\ seen \subseteq EverAsked
  <2>1. req[s] \in ReplaceRequest /\ pc[s] \in Replacing
    BY Waits DEF CommitQuestions, IInv
  <2> QED
    BY <1>1, <2>1 DEF IInv, VisitOK, ReplaceRequest
<1>3. /\ questions' = [q \in Questions |->
           IF q \in new THEN [required |-> q \in required, deleted |-> FALSE]
           ELSE IF q \in seen THEN [questions[q] EXCEPT !.deleted = TRUE]
           ELSE questions[q]]
      /\ lists' = lists \cup {(ActiveQuestions \ seen) \cup new}
  BY <1>1 DEF CommitQuestions
<1>4. questions \in [Questions -> Question \cup {None}]
  BY DEF IInv, TypeInv, TablesOK
<1>5. ASSUME NEW q \in new
      PROVE  questions'[q] \in Question /\ questions'[q] # None /\ ~questions'[q].deleted
  <2>1. PICK asked \in BOOLEAN : questions'[q] = [required |-> asked, deleted |-> FALSE]
    <3>1. q \in Questions
      BY <1>2
    <3>2. questions'[q] = [required |-> q \in required, deleted |-> FALSE]
      BY <1>3, <3>1, Zenon
    <3>3. (q \in required) \in BOOLEAN
      OBVIOUS
    <3> QED
      BY <3>2, <3>3, Zenon
  <2>2. questions'[q] \in Question /\ ~questions'[q].deleted
    BY <2>1 DEF Question
  <2> QED
    BY <2>1, <2>2, ScreeningAssumption
<1>6. ASSUME NEW q \in seen
      PROVE  /\ questions'[q] \in Question /\ questions'[q] # None /\ questions'[q].deleted
             /\ questions'[q].required = questions[q].required
  <2>1. questions[q] \in Question /\ q \notin new
    BY <1>2, <1>4 DEF EverAsked
  <2>2. questions'[q] = [questions[q] EXCEPT !.deleted = TRUE]
    BY <1>2, <1>3, <2>1
  <2>3. questions'[q] \in Question /\ questions'[q].deleted
        /\ questions'[q].required = questions[q].required
    BY <2>1, <2>2 DEF Question
  <2> QED
    BY <2>3, ScreeningAssumption
<1>7. \A q \in Questions \ (new \cup seen) : questions'[q] = questions[q]
  BY <1>3
<1>8. questions' \in [Questions -> Question \cup {None}]
  BY <1>3, <1>4, <1>5, <1>6, <1>7
<1>9. AsksOn
  BY <1>2, <1>3, <1>6, <1>7 DEF AsksOn, EverAsked
<1>10. EverAsked' = EverAsked \cup new
  BY <1>2, <1>5, <1>6, <1>7 DEF EverAsked
<1>11. ActiveQuestions' = (ActiveQuestions \ seen) \cup new
  BY <1>2, <1>5, <1>6, <1>7 DEF ActiveQuestions
<1> QED
  BY <1>1, <1>2, <1>8, <1>9, <1>10, <1>11

\* The acceptances have been found: a session moves and nothing is written.
LEMMA LapseStep ==
  ASSUME IInv, NEW s \in Sessions, LapseAccepted(s)
  PROVE  IInv'
<1> DEFINE q == [req[s] EXCEPT !.lapsing = Accepted]
<1>1. Moves(s, "commit", q) /\ UNCHANGED tables /\ pc[s] = "replace"
  BY DEF LapseAccepted, Go, Moves
<1>2. /\ q \in ReplaceRequest
      /\ q.new = req[s].new /\ q.seen = req[s].seen
  BY <1>1, Waits DEF ReplaceRequest, IInv, Accepted, Submitted
<1> HIDE DEF q
<1>3. Shape("commit", q)
  BY <1>2 DEF Shape
<1>4. /\ q.new # {} /\ q.new \cap EverAsked = {} /\ q.seen \subseteq EverAsked
      /\ \A t \in Sessions \ {s} : pc[t] \in Replacing => req[t].new \cap q.new = {}
  BY <1>1, <1>2 DEF IInv, VisitOK
<1> QED
  BY <1>1, <1>3, <1>4, OnlyMoves

\* What the questions' change does to the requests.
LEMMA Lapsed ==
  ASSUME IInv, NEW s \in Sessions, CommitQuestions(s)
  PROVE  /\ requests' \in [Requests -> Request \cup {None}]
         /\ \A r \in Requests : requests'[r] = None <=> requests[r] = None
         /\ \A r \in Submitted :
              /\ requests'[r].advisee = requests[r].advisee
              /\ requests'[r].answers = requests[r].answers
              /\ requests'[r].status = IF r \in req[s].lapsing \cap Accepted THEN "EXPIRED"
                                       ELSE requests[r].status
<1> DEFINE lapsing == req[s].lapsing \cap Accepted
<1>1. /\ requests \in [Requests -> Request \cup {None}]
      /\ requests' = [r \in Requests |->
           IF r \in lapsing THEN [requests[r] EXCEPT !.status = "EXPIRED"] ELSE requests[r]]
  BY DEF IInv, TypeInv, TablesOK, CommitQuestions
<1>2. lapsing \subseteq Submitted /\ Submitted \subseteq Requests
  BY DEF Accepted, Submitted
<1> HIDE DEF lapsing
<1>3. ASSUME NEW r \in lapsing
      PROVE  /\ requests'[r] \in Request /\ requests'[r] # None
             /\ requests'[r].advisee = requests[r].advisee
             /\ requests'[r].answers = requests[r].answers
             /\ requests'[r].status = "EXPIRED"
  <2>1. requests[r] \in Request /\ r \in Requests
    BY <1>1, <1>2 DEF Submitted
  <2>2. requests'[r] = [requests[r] EXCEPT !.status = "EXPIRED"]
    BY <1>1, <2>1
  <2>3. /\ requests'[r] \in Request /\ requests'[r].advisee = requests[r].advisee
        /\ requests'[r].answers = requests[r].answers
        /\ requests'[r].status = "EXPIRED"
    BY <2>1, <2>2 DEF Request, Statuses
  <2> QED
    BY <2>3, ScreeningAssumption
<1>4. \A r \in Requests \ lapsing : requests'[r] = requests[r]
  BY <1>1
<1>5. \A r \in Requests : requests'[r] \in Request \cup {None}
  BY <1>1, <1>3, <1>4
<1>6. requests' \in [Requests -> Request \cup {None}]
  BY <1>1, <1>5
<1>7. \A r \in Submitted :
        /\ requests'[r].advisee = requests[r].advisee
        /\ requests'[r].answers = requests[r].answers
        /\ requests'[r].status = IF r \in lapsing THEN "EXPIRED" ELSE requests[r].status
  BY <1>2, <1>3, <1>4
<1>8. \A r \in Requests : requests'[r] = None <=> requests[r] = None
  BY <1>2, <1>3, <1>4 DEF Submitted
<1> QED
  BY <1>6, <1>7, <1>8 DEF lapsing

LEMMA CommitStep ==
  ASSUME IInv, NEW s \in Sessions, CommitQuestions(s)
  PROVE  IInv'
<1>1. PICK new, seen : new = req[s].new /\ seen = req[s].seen
  OBVIOUS
<1>2. /\ pc[s] = "commit"
      /\ lists' = lists \cup {(ActiveQuestions \ seen) \cup new}
      /\ Answer(s) /\ UNCHANGED <<screened, rung, admitted>>
  BY <1>1 DEF CommitQuestions
<1>3. /\ questions' \in [Questions -> Question \cup {None}]
      /\ AsksOn /\ EverAsked' = EverAsked \cup new
      /\ ActiveQuestions' = (ActiveQuestions \ seen) \cup new
      /\ new \subseteq Questions
  BY <1>1, Replaced
<1>4. /\ requests' \in [Requests -> Request \cup {None}]
      /\ \A r \in Requests : requests'[r] = None <=> requests[r] = None
      /\ \A r \in Submitted :
           /\ requests'[r].advisee = requests[r].advisee
           /\ requests'[r].answers = requests[r].answers
           /\ requests'[r].status = IF r \in req[s].lapsing \cap Accepted THEN "EXPIRED"
                                    ELSE requests[r].status
  BY Lapsed
<1>5. ActiveQuestions \subseteq EverAsked /\ EverAsked \subseteq Questions
  BY DEF ActiveQuestions, EverAsked
<1>6. TypeInv' /\ pc'[s] = "idle" /\ Elsewhere(s)
  <2>1. Moves(s, "idle", None) /\ Shape("idle", None)
    BY <1>2 DEF Answer, Moves, Shape
  <2>2. TablesOK'
    BY <1>2, <1>3, <1>4, <1>5 DEF IInv, TypeInv, TablesOK
  <2> QED
    BY <2>1, <2>2, Moved DEF IInv
<1>7. ListsOK'
  BY <1>2, <1>3, <1>5 DEF IInv, ListsOK
<1>8. AcceptsOn /\ AdmittedWereAccepted'
  <2>1. AcceptsOn
    BY <1>4 DEF AcceptsOn, Submitted, Accepted
  <2> QED
    BY <1>2, <2>1, AdmittedOn DEF IInv
<1>9. BellsOK'
  BY <1>2, <1>4 DEF IInv, BellsOK, Submitted, Accepted
<1>10. AnswersOK'
  <2> SUFFICES ASSUME NEW r \in Requests, requests'[r] # None
               PROVE  Fits(requests[r].answers)'
    BY DEF AnswersOK, Submitted
  <2>1. r \in Submitted /\ requests'[r].answers = requests[r].answers
    BY <1>4 DEF Submitted
  <2> QED
    BY <1>3, <2>1, AnswersOn
<1>11. \A t \in Sessions : VisitOK(t)'
  <2>1. \A t \in Sessions \ {s} : pc[t] \in Replacing => req[t].new \cap EverAsked' = {}
    BY <1>1, <1>2, <1>3 DEF IInv, VisitOK
  <2>2. VisitOK(s)'
    BY <1>6 DEF VisitOK
  <2> QED
    BY <1>3, <1>6, <2>1, <2>2, OthersOn
<1> QED
  BY <1>6, <1>7, <1>8, <1>9, <1>10, <1>11 DEF IInv

----------------------------------------------------------------------------
(* The desk and the gate.                                                   *)

\* A row is written in which nobody's answers or acceptance is at stake.
LEMMA RowWritten ==
  ASSUME IInv, NEW r \in Submitted, UNCHANGED <<screened, questions, lists, admitted>>,
         requests'[r] \in Request, requests' = [requests EXCEPT ![r] = requests'[r]],
         requests'[r].advisee = requests[r].advisee,
         requests'[r].answers = requests[r].answers,
         requests[r].status \in {"ACCEPTED", "EXPIRED"} => requests'[r].status = requests[r].status,
         rung' \in [Requests -> [advisor : 0..1, advisee : 0..1]],
         \A x \in Requests \ {r} : rung'[x] = rung[x],
         requests'[r].status = "PENDING" => rung'[r].advisee = 0
  PROVE  /\ TablesOK' /\ BellsOK' /\ ListsOK' /\ AnswersOK' /\ AdmittedWereAccepted'
         /\ AsksOn /\ EverAsked' = EverAsked
<1>1. r \in Requests /\ requests'[r] # None
  BY ScreeningAssumption DEF Submitted
<1>2. /\ requests' \in [Requests -> Request \cup {None}]
      /\ \A x \in Requests \ {r} : requests'[x] = requests[x]
  BY <1>1 DEF IInv, TypeInv, TablesOK
<1>3. TablesOK' /\ BellsOK'
  BY <1>1, <1>2 DEF IInv, TypeInv, TablesOK, BellsOK
<1>4. AsksOn /\ EverAsked' = EverAsked /\ ListsOK'
  BY DEF IInv, AsksOn, ListsOK, EverAsked, ActiveQuestions
<1>5. AnswersOK'
  <2> SUFFICES ASSUME NEW x \in Requests, requests'[x] # None
               PROVE  Fits(requests[x].answers)'
    BY DEF AnswersOK, Submitted
  <2>1. x \in Submitted /\ requests'[x].answers = requests[x].answers
    BY <1>2 DEF Submitted
  <2> QED
    BY <1>4, <2>1, AnswersOn
<1>6. AcceptsOn
  BY <1>1, <1>2 DEF AcceptsOn
<1> QED
  BY <1>3, <1>4, <1>5, <1>6, AdmittedOn DEF IInv

LEMMA ViewStep ==
  ASSUME IInv, NEW r \in Requests, MarkViewed(r)
  PROVE  IInv'
<1>1. /\ r \in Submitted /\ requests' = [requests EXCEPT ![r].viewed = TRUE]
      /\ UNCHANGED <<screened, questions, rung, admitted, lists, pc, req>>
  BY DEF MarkViewed
<1>2. /\ requests \in [Requests -> Request \cup {None}] /\ requests[r] \in Request
      /\ rung \in [Requests -> [advisor : 0..1, advisee : 0..1]]
  BY <1>1 DEF IInv, TypeInv, TablesOK, Submitted
<1>3. /\ requests'[r] = [requests[r] EXCEPT !.viewed = TRUE]
      /\ requests' = [requests EXCEPT ![r] = requests'[r]]
  BY <1>1, <1>2
<1>4. /\ requests'[r] \in Request /\ requests'[r].advisee = requests[r].advisee
      /\ requests'[r].answers = requests[r].answers
      /\ requests'[r].status = requests[r].status
  BY <1>2, <1>3 DEF Request
<1>5. requests[r].status = "PENDING" => rung[r].advisee = 0
  BY <1>1 DEF IInv, BellsOK, Submitted
<1>6. /\ TablesOK' /\ BellsOK' /\ ListsOK' /\ AnswersOK' /\ AdmittedWereAccepted'
      /\ AsksOn /\ EverAsked' = EverAsked
  BY <1>1, <1>2, <1>3, <1>4, <1>5, RowWritten
<1>7. TypeInv'
  BY <1>1, <1>6 DEF IInv, TypeInv
<1>8. \A t \in Sessions : VisitOK(t)'
  BY <1>1, <1>6 DEF IInv, VisitOK, Fits, RequiredOf
<1> QED
  BY <1>6, <1>7, <1>8 DEF IInv

LEMMA DecideStep ==
  ASSUME IInv, NEW s \in Sessions, NEW r \in Requests, NEW ruling \in {"ACCEPTED", "DECLINED"},
         Decide(s, r, ruling)
  PROVE  IInv'
<1> DEFINE q == [row |-> r, ruling |-> ruling]
<1>1. Moves(s, "rule", q) /\ UNCHANGED tables
  BY DEF Decide, Begin, Go, Moves
<1>2. Shape("rule", q)
  BY DEF Shape, DecideRequest
<1> HIDE DEF q
<1> QED
  BY <1>1, <1>2, OnlyMoves

LEMMA RulingStep ==
  ASSUME IInv, NEW s \in Sessions, DecidePending(s)
  PROVE  IInv'
<1>1. PICK r, ruling : r = req[s].row /\ ruling = req[s].ruling
  OBVIOUS
<1>2. CASE ~StillPending(r)
  BY <1>1, <1>2, RefuseStep DEF DecidePending, Refuse
<1>3. CASE StillPending(r)
  <2>1. /\ pc[s] = "rule" /\ r \in Submitted /\ requests[r].status = "PENDING"
        /\ requests' = [requests EXCEPT ![r].status = ruling]
        /\ rung' = [rung EXCEPT ![r].advisee = @ + 1]
        /\ Answer(s) /\ UNCHANGED <<screened, questions, admitted, lists>>
    BY <1>1, <1>3 DEF DecidePending, StillPending
  <2>2. ruling \in {"ACCEPTED", "DECLINED"} /\ r \in Requests
    BY <1>1, <2>1, Waits DEF IInv, DecideRequest
  <2>3. /\ requests \in [Requests -> Request \cup {None}] /\ requests[r] \in Request
        /\ rung \in [Requests -> [advisor : 0..1, advisee : 0..1]] /\ rung[r].advisee = 0
    BY <2>1 DEF IInv, TypeInv, TablesOK, Submitted, BellsOK
  <2>4. /\ requests'[r] = [requests[r] EXCEPT !.status = ruling]
        /\ requests' = [requests EXCEPT ![r] = requests'[r]]
    BY <2>1, <2>2, <2>3
  <2>5. /\ requests'[r] \in Request /\ requests'[r].advisee = requests[r].advisee
        /\ requests'[r].answers = requests[r].answers /\ requests'[r].status = ruling
    BY <2>2, <2>3, <2>4 DEF Request, Statuses
  <2>6. /\ rung' \in [Requests -> [advisor : 0..1, advisee : 0..1]]
        /\ \A x \in Requests \ {r} : rung'[x] = rung[x]
    BY <2>1, <2>2, <2>3
  <2>7. /\ TablesOK' /\ BellsOK' /\ ListsOK' /\ AnswersOK' /\ AdmittedWereAccepted'
        /\ AsksOn /\ EverAsked' = EverAsked
    BY <2>1, <2>2, <2>4, <2>5, <2>6, RowWritten
  <2>8. TypeInv' /\ pc'[s] = "idle" /\ Elsewhere(s)
    <3>1. Moves(s, "idle", None) /\ Shape("idle", None)
      BY <2>1 DEF Answer, Moves, Shape
    <3> QED
      BY <2>7, <3>1, Moved DEF IInv
  <2>9. \A t \in Sessions : VisitOK(t)'
    <3>1. \A t \in Sessions \ {s} : pc[t] \in Replacing => req[t].new \cap EverAsked' = {}
      BY <2>7 DEF IInv, VisitOK
    <3>2. VisitOK(s)'
      BY <2>8 DEF VisitOK
    <3> QED
      BY <2>7, <2>8, <3>1, <3>2, OthersOn
  <2> QED
    BY <2>7, <2>8, <2>9 DEF IInv
<1> QED
  BY <1>2, <1>3

LEMMA VisitStep ==
  ASSUME IInv, NEW s \in Sessions, NEW a \in Advisees, FindSlots(s, a)
  PROVE  IInv'
<1> DEFINE q == [advisee |-> a, screened |-> screened]
<1>1. Moves(s, "gate", q) /\ UNCHANGED tables
  BY DEF FindSlots, Begin, Go, Moves
<1>2. Shape("gate", q)
  BY DEF Shape, Visit, IInv, TypeInv, TablesOK
<1> HIDE DEF q
<1> QED
  BY <1>1, <1>2, OnlyMoves

\* The gate asks for the acceptance after it has read whether one is needed.
LEMMA GateStep ==
  ASSUME IInv, NEW s \in Sessions, AssertCanViewSlots(s)
  PROVE  IInv'
<1>1. PICK visit : visit = req[s]
  OBVIOUS
<1>2. /\ pc[s] = "gate" /\ visit \in Visit
      /\ admitted' = IF MayPass(visit) THEN admitted \cup {visit} ELSE admitted
      /\ Answer(s) /\ UNCHANGED <<screened, questions, requests, rung, lists>>
  BY <1>1, Waits DEF AssertCanViewSlots, IInv
<1>3. BellsOK' /\ ListsOK' /\ AnswersOK' /\ AsksOn /\ EverAsked' = EverAsked
  BY <1>2, TablesKept
<1>4. TypeInv' /\ pc'[s] = "idle" /\ Elsewhere(s)
  <2>1. Moves(s, "idle", None) /\ Shape("idle", None)
    BY <1>2 DEF Answer, Moves, Shape
  <2>2. TablesOK'
    BY <1>2 DEF IInv, TypeInv, TablesOK
  <2> QED
    BY <2>1, <2>2, Moved DEF IInv
<1>5. AdmittedWereAccepted'
  BY <1>2 DEF IInv, AdmittedWereAccepted, MayPass, HasAccepted, Of, Submitted
<1>6. \A t \in Sessions : VisitOK(t)'
  <2>1. \A t \in Sessions \ {s} : pc[t] \in Replacing => req[t].new \cap EverAsked' = {}
    BY <1>3 DEF IInv, VisitOK
  <2>2. VisitOK(s)'
    BY <1>4 DEF VisitOK
  <2> QED
    BY <1>3, <1>4, <2>1, <2>2, OthersOn
<1> QED
  BY <1>3, <1>4, <1>5, <1>6 DEF IInv

LEMMA EditStep ==
  ASSUME IInv, EditService \/ UNCHANGED vars
  PROVE  IInv'
<1>1. /\ screened' \in BOOLEAN
      /\ UNCHANGED <<questions, requests, rung, admitted, lists, pc, req>>
  BY DEF EditService, vars, tables, IInv, TypeInv, TablesOK
<1>2. BellsOK' /\ ListsOK' /\ AnswersOK' /\ AcceptsOn
  BY <1>1, TablesKept
<1>3. TypeInv'
  BY <1>1 DEF IInv, TypeInv, TablesOK
<1>4. AdmittedWereAccepted'
  BY <1>1, <1>2, AdmittedOn DEF IInv
<1>5. \A t \in Sessions : VisitOK(t)'
  BY <1>1 DEF IInv, VisitOK, Fits, RequiredOf, EverAsked
<1> QED
  BY <1>2, <1>3, <1>4, <1>5 DEF IInv

----------------------------------------------------------------------------
LEMMA InvariantStep == IInv /\ [Next]_vars => IInv'
<1> SUFFICES ASSUME IInv, [Next]_vars PROVE IInv'
  OBVIOUS
<1>1. ASSUME NEW s \in Sessions, Arrive(s) PROVE IInv'
  BY <1>1, SubmitStep, ReplaceStep, DecideStep, VisitStep DEF Arrive
<1>2. ASSUME NEW s \in Sessions, Step(s) PROVE IInv'
  <2>1. CASE Fail(s)
    BY <2>1, RefuseStep DEF Fail, Refuse
  <2> QED
    BY <1>2, <2>1, ReadStep, CreateStep, LapseStep, CommitStep, RulingStep, GateStep DEF Step
<1>3. CASE \E r \in Requests : MarkViewed(r)
  BY <1>3, ViewStep
<1>4. CASE EditService \/ UNCHANGED vars
  BY <1>4, EditStep
<1> QED
  BY <1>1, <1>2, <1>3, <1>4 DEF Next

LEMMA InitHolds == Init => IInv
<1> SUFFICES ASSUME Init PROVE IInv
  OBVIOUS
<1>1. /\ screened = TRUE /\ questions = [q \in Questions |-> None]
      /\ requests = [r \in Requests |-> None]
      /\ rung = [r \in Requests |-> [advisor |-> 0, advisee |-> 0]]
      /\ admitted = {} /\ lists = {{}}
      /\ pc = [s \in Sessions |-> "idle"] /\ req = [s \in Sessions |-> None]
  BY DEF Init
<1>2. TypeInv
  BY <1>1 DEF TypeInv, TablesOK, Steps, Carried, Shape
<1>3. BellsOK /\ ListsOK /\ AnswersOK /\ AdmittedWereAccepted
  BY <1>1 DEF BellsOK, ListsOK, ActiveQuestions, AnswersOK, Submitted, AdmittedWereAccepted
<1>4. \A s \in Sessions : VisitOK(s)
  BY <1>1 DEF VisitOK
<1> QED
  BY <1>2, <1>3, <1>4 DEF IInv

----------------------------------------------------------------------------
(* What holds of every behaviour.                                           *)

\* What a request of the API has checked stays as true as its later writes need
\* it to be, though every read is a statement of its own.
THEOREM Inductive == Spec => []IInv
BY InitHolds, InvariantStep, PTL DEF Spec

\* matchAnswers(): whatever the Advisor replaces meanwhile, the answers kept with a
\* request cover the required questions of a list that was shown, and no other.
THEOREM KeptAnswersFit == Spec => []AnswersFitOneList
<1>1. IInv => AnswersFitOneList
  BY DEF IInv, AnswersOK, Fits, RequiredOf, AnswersFitOneList
<1> QED
  BY <1>1, Inductive, PTL

\* assertCanViewSlots(): nobody sees the slots of a Service they found screened
\* without an acceptance, however the rulings and replacements interleave.
THEOREM GateHolds == Spec => []AdmittedWereAccepted
BY Inductive, PTL DEF IInv

----------------------------------------------------------------------------
(* Screening implements its desk.                                           *)

LEMMA StandingOf ==
  ASSUME NEW r \in Requests
  PROVE  /\ Standing[r] = IF requests[r] = None THEN <<"none", "none">>
                          ELSE <<requests[r].advisee, requests[r].status>>
         /\ Standing'[r] = IF requests'[r] = None THEN <<"none", "none">>
                           ELSE <<requests'[r].advisee, requests'[r].status>>
BY DEF Standing

LEMMA Stands ==
  ASSUME NEW r \in Requests, NEW a, Standing[r] = <<a, "PENDING">>
  PROVE  requests[r] # None /\ requests[r].advisee = a /\ requests[r].status = "PENDING"
<1>1. CASE requests[r] = None
  <2>1. Standing[r] = <<"none", "none">>
    BY <1>1 DEF Standing
  <2>2. Standing[r][2] = "none" /\ Standing[r][2] = "PENDING"
    <3>1. Standing[r][2] = "none"
      BY ONLY <2>1
    <3>2. Standing[r][2] = "PENDING"
      BY ONLY Standing[r] = <<a, "PENDING">>
    <3> QED
      BY ONLY <3>1, <3>2
  <2> QED
    BY ONLY <2>2
<1>2. CASE requests[r] # None
  <2>1. PICK b, status : b = requests[r].advisee /\ status = requests[r].status
    OBVIOUS
  <2>2. <<b, status>> = <<a, "PENDING">>
    BY <1>2, <2>1 DEF Standing
  <2> QED
    BY <1>2, <2>1, <2>2
<1> QED
  BY <1>1, <1>2

\* A session that neither comes to the commit of new questions nor leaves it.
LEMMA DueKept ==
  ASSUME IInv, NEW s \in Sessions, NEW step, NEW q, Moves(s, step, q),
         pc[s] # "commit", step # "commit"
  PROVE  Due' = Due
<1>1. pc'[s] = step /\ \A t \in Sessions \ {s} : pc'[t] = pc[t] /\ req'[t] = req[t]
  BY DEF Moves, IInv, TypeInv
<1> QED
  BY <1>1 DEF Due

LEMMA DeskStutters ==
  ASSUME UNCHANGED <<questions, requests, rung>>, Due' = Due
  PROVE  UNCHANGED Desk!dvars
BY DEF Desk!dvars, Standing, EverAsked

\* A request of the API goes on, and the desk sees nothing of it.
LEMMA DeskIdles ==
  ASSUME IInv, NEW s \in Sessions, NEW step, NEW q, Moves(s, step, q),
         pc[s] # "commit", step # "commit", UNCHANGED <<questions, requests, rung>>
  PROVE  UNCHANGED Desk!dvars
BY DueKept, DeskStutters

LEMMA DeskArrivals ==
  ASSUME IInv, NEW s \in Sessions, Arrive(s)
  PROVE  UNCHANGED Desk!dvars
<1>1. ASSUME NEW step \in {"latest", "replace", "rule", "gate"}, NEW q,
             Begin(s, step, q), UNCHANGED tables
      PROVE  UNCHANGED Desk!dvars
  BY <1>1, DeskIdles DEF Begin, Go, Moves, tables
<1> QED
  BY <1>1 DEF Arrive, Submit, ReplaceQuestions, Decide, FindSlots

\* A request of the API ends early: if it was replacing the questions, the
\* change is abandoned.
LEMMA DeskAbandons ==
  ASSUME IInv, NEW s \in Sessions, Refuse(s)
  PROVE  [Desk!Next]_Desk!dvars
<1>1. Moves(s, "idle", None) /\ UNCHANGED <<questions, requests, rung>>
  BY DEF Refuse, Answer, Moves, tables
<1>2. CASE pc[s] # "commit"
  BY <1>1, <1>2, DeskIdles
<1>3. CASE pc[s] = "commit"
  <2>1. pc'[s] = "idle" /\ \A t \in Sessions \ {s} : pc'[t] = pc[t] /\ req'[t] = req[t]
    BY <1>1 DEF Moves, IInv, TypeInv
  <2>2. Due[s] # {} /\ Due' = [Due EXCEPT ![s] = {}]
    BY <1>3, <2>1 DEF Due
  <2>3. Desk!AbandonChange(s)
    BY <1>1, <2>2 DEF Desk!AbandonChange, Standing, EverAsked
  <2> QED
    BY <2>3 DEF Desk!Next
<1> QED
  BY <1>2, <1>3

LEMMA DeskAsks ==
  ASSUME IInv, NEW s \in Sessions, NEW r \in Requests, CreateWithAnswers(s, r)
  PROVE  [Desk!Next]_Desk!dvars
<1>1. CASE PendingKeyTaken(req[s].advisee)
  BY <1>1, DeskAbandons DEF CreateWithAnswers
<1>2. CASE ~PendingKeyTaken(req[s].advisee)
  <2>1. PICK a : a = req[s].advisee
    OBVIOUS
  <2>2. PICK row : row = [advisee |-> a, status |-> "PENDING", answers |-> req[s].answers,
                          age |-> Cardinality(Submitted) + 1, viewed |-> FALSE]
    OBVIOUS
  <2>3. /\ pc[s] = "store" /\ requests[r] = None
        /\ requests' = [requests EXCEPT ![r] = row]
        /\ rung' = [rung EXCEPT ![r].advisor = @ + 1]
        /\ UNCHANGED questions
    BY <1>2, <2>1, <2>2 DEF CreateWithAnswers
  <2>4. a \in Advisees /\ requests \in [Requests -> Request \cup {None}]
    BY <2>1, <2>3, Waits DEF IInv, TypeInv, TablesOK, SubmitRequest
  <2>5. row.advisee = a /\ row.status = "PENDING" /\ row # None
    <3>1. row \in Request
      <4>1. /\ Cardinality(Submitted) + 1 \in 1..Cardinality(Requests)
            /\ req[s].answers \in SUBSET Questions
        BY <2>3, NextAge, Waits DEF SubmitRequest, IInv
      <4> QED
        BY <2>2, <2>4, <4>1 DEF Request, Statuses
    <3> QED
      BY <2>2, <3>1, ScreeningAssumption
  <2>6. Standing[r] = Desk!Absent
    BY <2>3, StandingOf DEF Desk!Absent
  <2>7. ~Desk!Waiting(a)
    <3> SUFFICES ASSUME NEW x \in Requests, Standing[x] = <<a, "PENDING">> PROVE FALSE
      BY DEF Desk!Waiting
    <3>1. requests[x] # None /\ requests[x].advisee = a /\ requests[x].status = "PENDING"
      BY Stands
    <3> QED
      BY <1>2, <2>1, <3>1 DEF PendingKeyTaken, Of, Submitted
  <2>8. Standing' = [Standing EXCEPT ![r] = <<a, "PENDING">>]
    BY <2>3, <2>4, <2>5 DEF Standing
  <2>9. Due' = Due
    BY <1>2, <2>3, DueKept DEF CreateWithAnswers, Answer, Moves
  <2>10. Desk!Ask(r, a)
    BY <2>3, <2>6, <2>7, <2>8, <2>9 DEF Desk!Ask, EverAsked
  <2> QED
    BY <2>4, <2>10 DEF Desk!Next
<1> QED
  BY <1>1, <1>2

LEMMA DeskRules ==
  ASSUME IInv, NEW s \in Sessions, DecidePending(s)
  PROVE  [Desk!Next]_Desk!dvars
<1>1. PICK r, ruling : r = req[s].row /\ ruling = req[s].ruling
  OBVIOUS
<1>2. CASE ~StillPending(r)
  BY <1>1, <1>2, DeskAbandons DEF DecidePending
<1>3. CASE StillPending(r)
  <2>1. /\ pc[s] = "rule" /\ requests[r] # None /\ requests[r].status = "PENDING"
        /\ requests' = [requests EXCEPT ![r].status = ruling]
        /\ rung' = [rung EXCEPT ![r].advisee = @ + 1]
        /\ UNCHANGED questions
    BY <1>1, <1>3 DEF DecidePending, StillPending, Submitted
  <2>2. ruling \in {"ACCEPTED", "DECLINED"} /\ r \in Requests
    BY <1>1, <2>1, Waits DEF IInv, DecideRequest
  <2>3. requests \in [Requests -> Request \cup {None}] /\ requests[r] \in Request
    BY <2>1, <2>2 DEF IInv, TypeInv, TablesOK
  <2>4. PICK a \in Advisees : a = requests[r].advisee
    BY <2>3 DEF Request
  <2>5. /\ requests'[r] \in Request /\ requests'[r] # None
        /\ requests'[r].advisee = a /\ requests'[r].status = ruling
        /\ \A x \in Requests \ {r} : requests'[x] = requests[x]
    <3>1. requests'[r] = [requests[r] EXCEPT !.status = ruling]
          /\ \A x \in Requests \ {r} : requests'[x] = requests[x]
      BY <2>1, <2>2, <2>3
    <3>2. /\ requests'[r] \in Request /\ requests'[r].advisee = a
          /\ requests'[r].status = ruling
      BY <2>2, <2>3, <2>4, <3>1 DEF Request, Statuses
    <3> QED
      BY <3>1, <3>2, ScreeningAssumption
  <2>6. Standing[r] = <<a, "PENDING">>
    BY <2>1, <2>2, <2>4, StandingOf
  <2>7. Standing' = [Standing EXCEPT ![r] = <<a, ruling>>]
    BY <2>2, <2>5 DEF Standing
  <2>8. Due' = Due
    BY <1>1, <1>3, <2>1, DueKept DEF DecidePending, Answer, Moves
  <2>9. Desk!Rule(r, a, ruling)
    BY <2>1, <2>6, <2>7, <2>8 DEF Desk!Rule, EverAsked
  <2> QED
    BY <2>2, <2>9 DEF Desk!Next
<1> QED
  BY <1>2, <1>3

LEMMA AcceptedStand == Accepted = Desk!Accepted
<1>1. ASSUME NEW r \in Requests
      PROVE  r \in Submitted /\ requests[r].status = "ACCEPTED" <=> Standing[r][2] = "ACCEPTED"
  <2>1. CASE requests[r] = None
    <3>1. Standing[r] = <<"none", "none">>
      BY <2>1, StandingOf
    <3>2. Standing[r][2] = "none"
      BY <3>1
    <3> QED
      BY <2>1, <3>2 DEF Submitted
  <2>2. CASE requests[r] # None
    <3>1. Standing[r] = <<requests[r].advisee, requests[r].status>>
      BY <2>2, StandingOf
    <3>2. Standing[r][2] = requests[r].status
      BY <3>1
    <3> QED
      BY <2>2, <3>2 DEF Submitted
  <2> QED
    BY <2>1, <2>2
<1> QED
  BY <1>1 DEF Accepted, Desk!Accepted, Submitted

\* The second UPDATE finds the acceptances that are due.
LEMMA DeskBegins ==
  ASSUME IInv, NEW s \in Sessions, LapseAccepted(s)
  PROVE  [Desk!Next]_Desk!dvars
<1> DEFINE q == [req[s] EXCEPT !.lapsing = Accepted]
<1>1. Moves(s, "commit", q) /\ pc[s] = "replace" /\ UNCHANGED <<questions, requests, rung>>
  BY DEF LapseAccepted, Go, Moves, tables
<1>2. q.lapsing = Accepted
  BY <1>1, Waits DEF ReplaceRequest, IInv
<1> HIDE DEF q
<1>3. /\ pc'[s] = "commit" /\ req'[s] = q
      /\ \A t \in Sessions \ {s} : pc'[t] = pc[t] /\ req'[t] = req[t]
  BY <1>1 DEF Moves, IInv, TypeInv
<1>4. Due[s] = {} /\ Due' = [Due EXCEPT ![s] = {Accepted}]
  BY <1>1, <1>2, <1>3 DEF Due
<1>5. Desk!BeginChange(s)
  BY <1>1, <1>4, AcceptedStand DEF Desk!BeginChange, Standing, EverAsked
<1> QED
  BY <1>5 DEF Desk!Next

LEMMA DeskChanges ==
  ASSUME IInv, NEW s \in Sessions, CommitQuestions(s)
  PROVE  [Desk!Next]_Desk!dvars
<1>1. PICK new, lapsing : new = req[s].new /\ lapsing = req[s].lapsing
  OBVIOUS
<1>2. EverAsked' = EverAsked \cup new /\ new \subseteq Questions /\ new # {}
      /\ new \cap EverAsked = {} /\ EverAsked \subseteq Questions
  BY <1>1, Replaced DEF EverAsked
<1>3. /\ \A r \in Requests : requests'[r] = None <=> requests[r] = None
      /\ \A r \in Submitted :
           /\ requests'[r].advisee = requests[r].advisee
           /\ requests'[r].status = IF r \in lapsing \cap Accepted THEN "EXPIRED"
                                    ELSE requests[r].status
      /\ UNCHANGED rung
  BY <1>1, Lapsed DEF CommitQuestions
<1>4. Standing' = [r \in Requests |->
        IF r \in lapsing \cap Accepted THEN <<Standing[r][1], "EXPIRED">> ELSE Standing[r]]
  <2>1. ASSUME NEW r \in Requests
        PROVE  Standing'[r] = IF r \in lapsing \cap Accepted
                                THEN <<Standing[r][1], "EXPIRED">> ELSE Standing[r]
    <3>1. CASE requests[r] = None
      <4>1. Standing[r] = <<"none", "none">> /\ Standing'[r] = <<"none", "none">>
        BY <1>3, <3>1, StandingOf
      <4>2. r \notin Accepted
        BY <3>1 DEF Accepted, Submitted
      <4> QED
        BY <4>1, <4>2
    <3>2. CASE requests[r] # None
      <4>1. PICK a, status : a = requests[r].advisee /\ status = requests[r].status
        OBVIOUS
      <4>2. /\ Standing[r] = <<a, status>>
            /\ Standing'[r] = <<a, IF r \in lapsing \cap Accepted THEN "EXPIRED" ELSE status>>
        BY <1>3, <3>2, <4>1, StandingOf DEF Submitted
      <4>3. Standing[r][1] = a
        BY <4>2
      <4> QED
        BY <4>2, <4>3
    <3> QED
      BY <3>1, <3>2
  <2> QED
    BY <2>1 DEF Standing
<1>5. lapsing \in Due[s] /\ Due' = [Due EXCEPT ![s] = {}]
  <2>1. Moves(s, "idle", None) /\ pc[s] = "commit"
    BY DEF CommitQuestions, Answer, Moves
  <2>2. pc'[s] = "idle" /\ \A t \in Sessions \ {s} : pc'[t] = pc[t] /\ req'[t] = req[t]
    BY <2>1 DEF Moves, IInv, TypeInv
  <2> QED
    BY <1>1, <2>1, <2>2 DEF Due
<1>6. Desk!FinishChange(s)
  BY <1>2, <1>3, <1>4, <1>5, AcceptedStand DEF Desk!FinishChange
<1> QED
  BY <1>6 DEF Desk!Next

LEMMA DeskViews ==
  ASSUME IInv, NEW r \in Requests, MarkViewed(r)
  PROVE  UNCHANGED Desk!dvars
<1>1. /\ r \in Submitted /\ requests' = [requests EXCEPT ![r].viewed = TRUE]
      /\ UNCHANGED <<questions, rung, pc, req>>
      /\ requests \in [Requests -> Request \cup {None}]
  BY DEF MarkViewed, IInv, TypeInv, TablesOK
<1>2. requests[r] \in Request /\ requests'[r] = [requests[r] EXCEPT !.viewed = TRUE]
  BY <1>1 DEF Submitted
<1>3. /\ requests'[r] \in Request /\ requests'[r].advisee = requests[r].advisee
      /\ requests'[r].status = requests[r].status
  BY <1>2 DEF Request
<1>4. requests'[r] # None /\ requests[r] # None
  BY <1>1, <1>3, ScreeningAssumption DEF Submitted
<1>5. \A x \in Requests : Standing'[x] = Standing[x]
  BY <1>1, <1>3, <1>4, StandingOf
<1>6. Standing' = Standing
  BY <1>5 DEF Standing
<1> QED
  BY <1>1, <1>6 DEF Desk!dvars, EverAsked, Due

\* Every step of every request of the API is one the desk knows, or nothing to it:
\* at most one request waits per Advisee, a ruling is given and told of once, and
\* the acceptances that stood when a replacement came to them lapse at its commit,
\* all together and in no other way.
THEOREM Refinement == Spec => ImplementsDesk
<1>1. Init => Desk!Init
  BY DEF Init, Desk!Init, Standing, EverAsked, Due, Desk!Absent
<1>2. IInv /\ [Next]_vars => [Desk!Next]_Desk!dvars
  <2> SUFFICES ASSUME IInv, [Next]_vars PROVE [Desk!Next]_Desk!dvars
    OBVIOUS
  <2>1. ASSUME NEW s \in Sessions, Arrive(s) PROVE [Desk!Next]_Desk!dvars
    BY <2>1, DeskArrivals
  <2>2. ASSUME NEW s \in Sessions, Step(s) PROVE [Desk!Next]_Desk!dvars
    <3>1. CASE \E r \in Requests : CreateWithAnswers(s, r)
      BY <3>1, DeskAsks
    <3>2. CASE CommitQuestions(s)
      BY <3>2, DeskChanges
    <3>3. CASE DecidePending(s)
      BY <3>3, DeskRules
    <3>4. CASE LapseAccepted(s)
      BY <3>4, DeskBegins
    <3>5. CASE Fail(s)
      BY <3>5, DeskAbandons DEF Fail
    <3>6. CASE ReadLatest(s) \/ ReadQuestions(s) \/ AssertCanViewSlots(s)
      <4>1. /\ pc[s] # "commit" /\ UNCHANGED <<questions, requests, rung>>
            /\ \E step \in {"idle", "list", "store"}, q \in {None, req[s]} : Moves(s, step, q)
        BY <3>6, Waits DEF ReadLatest, ReadQuestions, AssertCanViewSlots, Answer, Go, Moves,
           tables, IInv
      <4> QED
        BY <4>1, DeskIdles
    <3> QED
      BY <2>2, <3>1, <3>2, <3>3, <3>4, <3>5, <3>6 DEF Step
  <2>3. CASE \E r \in Requests : MarkViewed(r)
    BY <2>3, DeskViews
  <2>4. CASE EditService \/ UNCHANGED vars
    BY <2>4, DeskStutters DEF EditService, vars, tables, Due
  <2> QED
    BY <2>1, <2>2, <2>3, <2>4 DEF Next
<1> QED
  BY <1>1, <1>2, Inductive, PTL DEF Spec, ImplementsDesk, Desk!Spec
=============================================================================
