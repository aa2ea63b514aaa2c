------------------------------ MODULE Screening ------------------------------
(***************************************************************************)
(* The screening of one Service: modules/screening, and the gate it is for *)
(* the slots (assertCanViewSlots of modules/availability).                 *)
(*                                                                         *)
(* Every read of the service class is a statement of its own, outside any  *)
(* transaction; only the writes are transactions.  `screened',             *)
(* `questions', `requests' and `rung' are the COMMITTED tables.  The       *)
(* Service is published and the Advisor nobody's Advisee: a request that   *)
(* is refused for either reads one row and ends.  Names, texts and         *)
(* languages are left out.                                                 *)
(***************************************************************************)
EXTENDS Naturals, FiniteSets

CONSTANTS
  Sessions,   \* requests of the API in flight at once (bound)
  Advisees,
  Requests,   \* ids of screening_requests rows (bound)
  Questions,  \* ids of service_screening_questions rows (bound)
  MaxList,    \* SCREENING_MAX_QUESTIONS, lowered (bound)
  None

VARIABLES
  screened,   \* services.screeningRequired
  questions,  \* service_screening_questions, None while the id is unused
  requests,   \* screening_requests with their answers, None while unused
  rung,       \* notifications written per request: to the Advisor, the Advisee
  admitted,   \* history: who was let through to the slots
  lists,      \* history: every list of questions that could be read
  pc, req     \* where a request of the API awaits, and what it carries

tables == <<screened, questions, requests, rung, admitted, lists>>
vars == <<tables, pc, req>>

Question == [required : BOOLEAN, deleted : BOOLEAN]
Statuses == {"PENDING", "ACCEPTED", "DECLINED", "EXPIRED"}
Request == [advisee : Advisees, status : Statuses, answers : SUBSET Questions,
            age : 1..Cardinality(Requests), viewed : BOOLEAN]
Visit == [advisee : Advisees, screened : BOOLEAN]

\* What submit() and findSlotAt(), replaceQuestions() and decide() carry.
SubmitRequest == [advisee : Advisees, answers : SUBSET Questions]
ReplaceRequest == [seen : SUBSET Questions, new : SUBSET Questions,
                   required : SUBSET Questions, lapsing : SUBSET Requests]
DecideRequest == [row : Requests, ruling : {"ACCEPTED", "DECLINED"}]

ASSUME ScreeningAssumption ==
  /\ IsFiniteSet(Requests)
  /\ MaxList \in Nat \ {0}
  /\ None \notin Question \cup Request \cup SubmitRequest \cup Visit
                 \cup ReplaceRequest \cup DecideRequest \cup Requests

----------------------------------------------------------------------------
\* Variant: deleted questions are still asked.
ActiveEver == {q \in Questions : questions[q] # None}

ActiveQuestions == {q \in Questions : questions[q] # None /\ ~questions[q].deleted}

RequiredOf(list) == {q \in list : questions[q].required}

Submitted == {r \in Requests : requests[r] # None}
Of(a) == {r \in Submitted : requests[r].advisee = a}

\* findLatestForAdvisee(): the status of the newest row, None without one.
LatestStatus(a) ==
  IF Of(a) = {} THEN None
  ELSE LET newest == CHOOSE r \in Of(a) :
                       \A other \in Of(a) : requests[other].age <= requests[r].age
       IN  requests[newest].status

\* Variant: any request opens the gate.
HasAsked(a) == Of(a) # {}

HasAccepted(a) == \E r \in Of(a) : requests[r].status = "ACCEPTED"

Go(s, step) == pc' = [pc EXCEPT ![s] = step]

Begin(s, step, request) ==
  /\ pc[s] = "idle"
  /\ Go(s, step)
  /\ req' = [req EXCEPT ![s] = request]

Answer(s) ==
  /\ pc' = [pc EXCEPT ![s] = "idle"]
  /\ req' = [req EXCEPT ![s] = None]

Refuse(s) == Answer(s) /\ UNCHANGED tables

----------------------------------------------------------------------------
(* submit(): three reads, then one transaction.                            *)

Submit(s, a, answers) ==
  /\ screened
  /\ answers # {} /\ \A q \in answers : questions[q] # None
  /\ Begin(s, "latest", [advisee |-> a, answers |-> answers])
  /\ UNCHANGED tables

ReadLatest(s) ==
  /\ pc[s] = "latest"
  /\ IF LatestStatus(req[s].advisee) \in {"PENDING", "ACCEPTED"}
       THEN Answer(s)
       ELSE Go(s, "list") /\ UNCHANGED req
  /\ UNCHANGED tables

\* Variant: nobody asks whether the required questions are answered.
MatchLoosely(list, answers) == answers # {} /\ answers \subseteq list

\* matchAnswers(): only questions of the list, and every required one.
MatchAnswers(list, answers) ==
  /\ answers # {}
  /\ answers \subseteq list
  /\ RequiredOf(list) \subseteq answers

ReadQuestions(s) ==
  /\ pc[s] = "list"
  /\ IF MatchAnswers(ActiveQuestions, req[s].answers)
       THEN Go(s, "store") /\ UNCHANGED req
       ELSE Answer(s)
  /\ UNCHANGED tables

\* Variant: the database without screening_requests_pending_advisee_service_key.
NeverBlocked(a) == a # a

\* The partial unique index: one PENDING row per Advisee and Service.
PendingKeyTaken(a) == \E r \in Of(a) : requests[r].status = "PENDING"

\* createWithAnswers(): request, answers and the Advisor's notification.  The
\* status read by ReadLatest is not asked for again.
CreateWithAnswers(s, r) ==
  /\ pc[s] = "store" /\ requests[r] = None
  /\ IF PendingKeyTaken(req[s].advisee)
       THEN Refuse(s)
       ELSE /\ requests' = [requests EXCEPT ![r] =
                 [advisee |-> req[s].advisee, status |-> "PENDING",
                  answers |-> req[s].answers,
                  age |-> Cardinality(Submitted) + 1, viewed |-> FALSE]]
            /\ rung' = [rung EXCEPT ![r].advisor = @ + 1]
            /\ Answer(s)
            /\ UNCHANGED <<screened, questions, admitted, lists>>

----------------------------------------------------------------------------
(* replaceQuestions(): one transaction.  Its first UPDATE sees the         *)
(* questions of its snapshot and waits for a transaction that is replacing *)
(* the same ones; a question the other inserted is not in that snapshot.   *)
(* Its second UPDATE takes the acceptances of a later snapshot; nothing is *)
(* seen of either before the commit.                                       *)

Replacing == {"replace", "commit"}

ReplaceQuestions(s, new, required) ==
  /\ new # {} /\ Cardinality(new) <= MaxList
  /\ required \subseteq new
  /\ \A q \in new : /\ questions[q] = None
                    /\ \A other \in Sessions :
                         pc[other] \in Replacing => q \notin req[other].new
  /\ Begin(s, "replace", [seen |-> ActiveQuestions, new |-> new,
                          required |-> required, lapsing |-> {}])
  /\ UNCHANGED tables

Accepted == {r \in Submitted : requests[r].status = "ACCEPTED"}

\* The questions are deleted and inserted, and
\* UPDATE screening_requests SET status = 'EXPIRED' has found its rows.
LapseAccepted(s) ==
  /\ pc[s] = "replace"
  /\ \A t \in Sessions : pc[t] = "commit" => req[t].seen \cap req[s].seen = {}
  /\ req' = [req EXCEPT ![s].lapsing = Accepted]
  /\ Go(s, "commit")
  /\ UNCHANGED tables

\* A row that another replacement expired meanwhile is left alone.
CommitQuestions(s) ==
  /\ pc[s] = "commit"
  /\ questions' = [q \in Questions |->
       IF q \in req[s].new
         THEN [required |-> q \in req[s].required, deleted |-> FALSE]
         ELSE IF q \in req[s].seen THEN [questions[q] EXCEPT !.deleted = TRUE]
         ELSE questions[q]]
  /\ requests' = [r \in Requests |->
       IF r \in req[s].lapsing \cap Accepted THEN [requests[r] EXCEPT !.status = "EXPIRED"]
       ELSE requests[r]]
  /\ lists' = lists \cup {(ActiveQuestions \ req[s].seen) \cup req[s].new}
  /\ Answer(s)
  /\ UNCHANGED <<screened, rung, admitted>>

----------------------------------------------------------------------------
(* The Advisor's desk: opening a request, accepting or declining it.       *)

\* findRequest(): the first opening is written down, after a replacement that
\* holds the row.
MarkViewed(r) ==
  /\ r \in Submitted /\ ~requests[r].viewed
  /\ \A s \in Sessions : pc[s] = "commit" => r \notin req[s].lapsing
  /\ requests' = [requests EXCEPT ![r].viewed = TRUE]
  /\ UNCHANGED <<screened, questions, rung, admitted, lists, pc, req>>

Decide(s, r, ruling) ==
  /\ r \in Submitted /\ requests[r].status = "PENDING"
  /\ Begin(s, "rule", [row |-> r, ruling |-> ruling])
  /\ UNCHANGED tables

\* Variant: the request read before is trusted, the update is by id.
DecideByRead(r) == r \in Submitted

StillPending(r) == r \in Submitted /\ requests[r].status = "PENDING"

\* decidePending(): the ruling and the Advisee's notification, or neither.
DecidePending(s) ==
  LET r == req[s].row
  IN  /\ pc[s] = "rule"
      /\ IF StillPending(r)
           THEN /\ requests' = [requests EXCEPT ![r].status = req[s].ruling]
                /\ rung' = [rung EXCEPT ![r].advisee = @ + 1]
                /\ Answer(s)
                /\ UNCHANGED <<screened, questions, admitted, lists>>
           ELSE Refuse(s)

----------------------------------------------------------------------------
(* The gate: findSlots() and findSlotAt() read the Service, then ask.      *)

FindSlots(s, a) ==
  /\ Begin(s, "gate", [advisee |-> a, screened |-> screened])
  /\ UNCHANGED tables

MayPass(visit) == visit.screened => HasAccepted(visit.advisee)

AssertCanViewSlots(s) ==
  /\ pc[s] = "gate"
  /\ admitted' = IF MayPass(req[s]) THEN admitted \cup {req[s]} ELSE admitted
  /\ Answer(s)
  /\ UNCHANGED <<screened, questions, requests, rung, lists>>

\* updateOwned(): the Advisor turns screening on or off.
EditService ==
  /\ screened' = ~screened
  /\ UNCHANGED <<questions, requests, rung, admitted, lists, pc, req>>

\* An exception, a lost connection or a crash: the transaction is rolled back.
Fail(s) == pc[s] # "idle" /\ Refuse(s)

----------------------------------------------------------------------------
Init ==
  /\ screened = TRUE
  /\ questions = [q \in Questions |-> None]
  /\ requests = [r \in Requests |-> None]
  /\ rung = [r \in Requests |-> [advisor |-> 0, advisee |-> 0]]
  /\ admitted = {}
  /\ lists = {{}}
  /\ pc = [s \in Sessions |-> "idle"]
  /\ req = [s \in Sessions |-> None]

Arrive(s) ==
  \/ \E a \in Advisees, answers \in SUBSET Questions : Submit(s, a, answers)
  \/ \E new, required \in SUBSET Questions : ReplaceQuestions(s, new, required)
  \/ \E r \in Requests, ruling \in {"ACCEPTED", "DECLINED"} : Decide(s, r, ruling)
  \/ \E a \in Advisees : FindSlots(s, a)

Step(s) ==
  \/ ReadLatest(s)
  \/ ReadQuestions(s)
  \/ \E r \in Requests : CreateWithAnswers(s, r)
  \/ LapseAccepted(s) \/ CommitQuestions(s)
  \/ DecidePending(s)
  \/ AssertCanViewSlots(s)
  \/ Fail(s)

Next ==
  \/ \E s \in Sessions : Arrive(s) \/ Step(s)
  \/ \E r \in Requests : MarkViewed(r)
  \/ EditService

Spec == Init /\ [][Next]_vars

----------------------------------------------------------------------------
(* What must hold.                                                         *)

\* Rows, histories and requests of the API are what their tables say.
TypeOK ==
  /\ screened \in BOOLEAN
  /\ questions \in [Questions -> Question \cup {None}]
  /\ requests \in [Requests -> Request \cup {None}]
  /\ rung \in [Requests -> [advisor : 0..1, advisee : 0..1]]
  /\ admitted \subseteq Visit
  /\ lists \subseteq SUBSET Questions
  /\ \A s \in Sessions :
       \/ pc[s] = "idle" /\ req[s] = None
       \/ pc[s] \in {"latest", "list", "store"} /\ req[s] \in SubmitRequest
       \/ pc[s] \in Replacing /\ req[s] \in ReplaceRequest
       \/ pc[s] = "rule" /\ req[s] \in DecideRequest
       \/ pc[s] = "gate" /\ req[s] \in Visit

\* The answers kept with a request fit one list of questions that was shown at
\* one moment, its required questions included, however often the Advisor
\* replaced the list between the read and the insert (matchAnswers()).
AnswersFitOneList ==
  \A r \in Submitted :
    \E list \in lists : /\ requests[r].answers \subseteq list
                       /\ \A q \in list : questions[q].required =>
                                           q \in requests[r].answers

\* Whoever was let through to the slots of a screened Service had been accepted:
\* their acceptance is still there, or lapsed since (assertCanViewSlots()).
AdmittedWereAccepted ==
  \A visit \in admitted :
    visit.screened =>
      \E r \in Of(visit.advisee) : requests[r].status \in {"ACCEPTED", "EXPIRED"}

\* Implementation of the desk: the status of every request, with the bells that
\* were rung for it, moves as ScreeningDesk says.  One request waits per Advisee
\* though submit() checks before it stores, a ruling is given once though two
\* can be under way, and an acceptance lapses with the questions it was given
\* for, if it stood when their replacement came to the acceptances.
Standing ==
  [r \in Requests |-> IF requests[r] = None THEN <<"none", "none">>
                      ELSE <<requests[r].advisee, requests[r].status>>]

EverAsked == {q \in Questions : questions[q] # None}

Due == [s \in Sessions |-> IF pc[s] = "commit" THEN {req[s].lapsing} ELSE {}]

Desk == INSTANCE ScreeningDesk
          WITH standing <- Standing, asked <- EverAsked, rung <- rung,
               due <- Due, Changes <- Sessions

ImplementsDesk == Desk!Spec

\* A service asks one list of questions: replaceQuestions() "Replaces all
\* questions of a Service".  Two replacements at once leave both lists.
OneList ==
  \A list \in lists : Cardinality(list) <= MaxList

\* "Accepted requests become EXPIRED, so the Advisee has to answer the new
\* questions" (replaceQuestions()).  A request accepted after the second UPDATE
\* and before the commit stays accepted.
AllAcceptancesLapse ==
  [][EverAsked' # EverAsked => Accepted' = {}]_vars

\* "The Advisee can submit again after a decline or an expiry, but not while a
\* request is pending or accepted" (submit()).  The status is read before.
NotWhileAccepted ==
  [][\A r \in Requests :
       (requests[r] = None /\ requests'[r] # None) =>
         ~HasAccepted(requests'[r].advisee)]_vars
=============================================================================
