-------------------------------- MODULE Cases --------------------------------
(***************************************************************************)
(* The queues an admin works through - refund cases of one invoice,        *)
(* payouts, reports and off-platform flags - and the review of one         *)
(* consultation (modules/refunds, payouts, safety, reviews).               *)
(*                                                                         *)
(* None of it runs in a transaction: a request reads, awaits and writes,   *)
(* and only the condition of the last UPDATE or a primary key stands       *)
(* between two of them.  Nothing in the code creates a payout or a flag:   *)
(* they are there from the start.  `left' counts the requests still to     *)
(* come; a request keeps its answer until it is forgotten.                 *)
(***************************************************************************)
EXTENDS Naturals, FiniteSets

CONSTANTS
  Sessions,     \* requests in progress at once (bound)
  Refunds, Payouts, Reports, Flags,   \* ids of queue rows (bound)
  Admins,       \* accounts that hold the admin permission
  Profiled,     \* those with an admin_profiles row
  Stars,        \* ratings an Advisee gives (bound)
  MaxRequests,  \* requests in one behaviour (bound)
  None

VARIABLES
  row,     \* the queue rows
  state,   \* the state of the appointment
  review,  \* its service_reviews row
  req,     \* the requests in progress
  left

vars == <<row, state, review, req, left>>

Rows == Refunds \cup Payouts \cup Reports \cup Flags

Outcomes(r) ==
  CASE r \in Refunds -> {"APPROVED", "REJECTED"}
    [] r \in Payouts -> {"PAID", "FAILED"}
    [] r \in Reports -> {"ACTIONED", "DISMISSED"}
    [] r \in Flags   -> {"CONFIRMED", "DISMISSED"}

AllOutcomes == UNION {Outcomes(r) : r \in Rows}

Row == [status : {"OPEN"} \cup AllOutcomes, by : Admins \cup {None}]
Answers == {"done", "conflict", "forbidden", "error"}
Request == [op : {"refund", "rule", "review", "rate"},
            pc : {"create", "write"} \cup Answers,
            row : Rows \cup {None}, by : Admins \cup {None},
            says : AllOutcomes \cup Stars \cup {None}]

ASSUME CasesAssumption ==
  /\ MaxRequests \in Nat /\ Profiled \subseteq Admins
  /\ None \notin Admins \cup Rows \cup Row \cup Request
  /\ None \notin [stars : Stars, reply : BOOLEAN]
  /\ IsFiniteSet(Sessions)
  /\ Refunds \cap (Payouts \cup Reports \cup Flags) = {}

----------------------------------------------------------------------------
At(s, pc) == req[s] # None /\ req[s].pc = pc
IsOpen(r) == row[r] # None /\ row[r].status = "OPEN"

Begin(s, op, pc, r, a, word) ==
  /\ req[s] = None /\ left > 0 /\ left' = left - 1
  /\ req' = [req EXCEPT ![s] = [op |-> op, pc |-> pc, row |-> r, by |-> a, says |-> word]]

Answer(s, answer) == req' = [req EXCEPT ![s].pc = answer]

Forget(s) ==
  /\ req[s] # None /\ req[s].pc \in Answers
  /\ req' = [req EXCEPT ![s] = None]
  /\ UNCHANGED <<row, state, review, left>>

----------------------------------------------------------------------------
(* Matters are brought.                                                    *)

\* Variant: nobody asks whether the invoice is disputed already.
OpenAnyway(s) ==
  /\ Begin(s, "refund", "create", None, None, None)
  /\ UNCHANGED <<row, state, review>>

OpenRefund(s) ==
  /\ Begin(s, "refund", IF \E r \in Refunds : IsOpen(r) THEN "conflict" ELSE "create",
           None, None, None)
  /\ UNCHANGED <<row, state, review>>

CreateCase(s, r) ==
  /\ At(s, "create") /\ req[s].op = "refund"
  /\ r \in Refunds /\ row[r] = None
  /\ row' = [row EXCEPT ![r] = [status |-> "OPEN", by |-> None]]
  /\ Answer(s, "done")
  /\ UNCHANGED <<state, review, left>>

SubmitReport(r) ==
  /\ r \in Reports /\ row[r] = None
  /\ row' = [row EXCEPT ![r] = [status |-> "OPEN", by |-> None]]
  /\ UNCHANGED <<state, review, req, left>>

----------------------------------------------------------------------------
(* An admin rules.                                                         *)

\* rule(), settle(): the row is read first.
ReadThenRule(s, r, a, outcome) ==
  /\ Begin(s, "rule", IF IsOpen(r) THEN "write" ELSE "conflict", r, a, outcome)
  /\ UNCHANGED <<row, state, review>>

RuleCase(s, r, a, outcome) ==
  r \in Refunds /\ row[r] # None /\ ReadThenRule(s, r, a, outcome)

Settle(s, r, a, outcome) ==
  r \in Payouts /\ row[r] # None /\ ReadThenRule(s, r, a, outcome)

\* resolve(): the profile is asked for first.
AskThenRule(s, r, a, outcome) ==
  /\ Begin(s, "rule", IF a \in Profiled THEN "write" ELSE "forbidden", r, a, outcome)
  /\ UNCHANGED <<row, state, review>>

ResolveReport(s, r, a, outcome) ==
  r \in Reports /\ row[r] # None /\ AskThenRule(s, r, a, outcome)

ResolveFlag(s, r, a, outcome) ==
  r \in Flags /\ AskThenRule(s, r, a, outcome)

\* payouts has no column for who settled.
Ruled(q) == [status |-> q.says, by |-> IF q.row \in Payouts THEN None ELSE q.by]

Writing(s, rows) == At(s, "write") /\ req[s].op = "rule" /\ req[s].row \in rows

\* One conditional UPDATE, and the answer by whether it matched.
UpdateIfOpen(s) ==
  /\ IF IsOpen(req[s].row)
     THEN Answer(s, "done") /\ row' = [row EXCEPT ![req[s].row] = Ruled(req[s])]
     ELSE Answer(s, "conflict") /\ UNCHANGED row
  /\ UNCHANGED <<state, review, left>>

\* Variant: the UPDATE trusts what was read.
RuleAnyCase(s) ==
  /\ Writing(s, Refunds) /\ req[s].by \in Profiled
  /\ row' = [row EXCEPT ![req[s].row] = Ruled(req[s])]
  /\ Answer(s, "done")
  /\ UNCHANGED <<state, review, left>>

\* A refund names its admin without asking for the profile the key refers to.
RuleOpenCase(s) ==
  /\ Writing(s, Refunds)
  /\ IF IsOpen(req[s].row) /\ req[s].by \notin Profiled
     THEN Answer(s, "error") /\ UNCHANGED <<row, state, review, left>>
     ELSE UpdateIfOpen(s)

SettlePendingPayout(s) == Writing(s, Payouts) /\ UpdateIfOpen(s)

\* Variant: the report is answered with even when the UPDATE matched none.
ResolveAndRead(s) ==
  /\ Writing(s, Reports)
  /\ row' = IF IsOpen(req[s].row) THEN [row EXCEPT ![req[s].row] = Ruled(req[s])] ELSE row
  /\ Answer(s, "done")
  /\ UNCHANGED <<state, review, left>>

ResolveIfOpen(s) == Writing(s, Reports) /\ UpdateIfOpen(s)

ReviewIfPending(s) == Writing(s, Flags) /\ UpdateIfOpen(s)

----------------------------------------------------------------------------
(* The review of the consultation and the advisor's reply.                 *)

Complete ==
  /\ state = "IN_PROGRESS" /\ state' = "COMPLETED"
  /\ UNCHANGED <<row, review, req, left>>

CreateReview(s, stars) ==
  /\ Begin(s, "review",
       IF state = "COMPLETED" /\ review = None THEN "create" ELSE "conflict",
       None, None, stars)
  /\ UNCHANGED <<row, state, review>>

\* The primary key refuses the second of two.
InsertReview(s) ==
  /\ At(s, "create") /\ req[s].op = "review"
  /\ IF review = None
     THEN review' = [stars |-> req[s].says, reply |-> FALSE] /\ Answer(s, "done")
     ELSE UNCHANGED review /\ Answer(s, "error")
  /\ UNCHANGED <<row, state, left>>

UpdateReview(s, stars) ==
  /\ review # None
  /\ Begin(s, "rate", "write", None, None, stars)
  /\ UNCHANGED <<row, state, review>>

UpdateRating(s) ==
  /\ At(s, "write") /\ req[s].op = "rate"
  /\ review' = [review EXCEPT !.stars = req[s].says]
  /\ Answer(s, "done")
  /\ UNCHANGED <<row, state, left>>

Reply ==
  /\ review # None
  /\ review' = [review EXCEPT !.reply = TRUE]
  /\ UNCHANGED <<row, state, req, left>>

----------------------------------------------------------------------------
Init ==
  /\ row = [r \in Rows |-> IF r \in Payouts \cup Flags
                           THEN [status |-> "OPEN", by |-> None] ELSE None]
  /\ state = "IN_PROGRESS" /\ review = None
  /\ req = [s \in Sessions |-> None]
  /\ left = MaxRequests

Serve(s) ==
  \/ OpenRefund(s) \/ \E r \in Rows : CreateCase(s, r)
  \/ \E r \in Rows, a \in Admins : \E outcome \in Outcomes(r) :
       \/ RuleCase(s, r, a, outcome) \/ Settle(s, r, a, outcome)
       \/ ResolveReport(s, r, a, outcome) \/ ResolveFlag(s, r, a, outcome)
  \/ RuleOpenCase(s) \/ SettlePendingPayout(s) \/ ResolveIfOpen(s) \/ ReviewIfPending(s)
  \/ \E stars \in Stars : CreateReview(s, stars) \/ UpdateReview(s, stars)
  \/ InsertReview(s) \/ UpdateRating(s) \/ Forget(s)

Next ==
  \/ \E s \in Sessions : Serve(s)
  \/ \E r \in Rows : SubmitReport(r)
  \/ Complete \/ Reply

Spec == Init /\ [][Next]_vars

----------------------------------------------------------------------------
(* What must hold.                                                         *)

\* Rows, requests and the review are of the shape the tables give them.
TypeOK ==
  /\ row \in [Rows -> Row \cup {None}]
  /\ state \in {"IN_PROGRESS", "COMPLETED"}
  /\ review \in [stars : Stars, reply : BOOLEAN] \cup {None}
  /\ req \in [Sessions -> Request \cup {None}]
  /\ left \in 0..MaxRequests

\* What the docket shows of a row.
docket ==
  [r \in Rows |-> IF row[r] = None THEN <<"unknown">>
                  ELSE IF row[r].status = "OPEN" THEN <<"open">>
                  ELSE <<row[r].by, row[r].status>>]

\* "One ruling, once": whatever two admins read before, each queue keeps the
\* docket (rule(), settle(), resolveIfOpen(), reviewIfPending()).
D == INSTANCE Docket WITH
  Matters <- Rows, Judges <- Admins \cup {None}, Verdicts <- AllOutcomes,
  docket <- docket
KeepsDocket == D!Spec

\* An admin who is told that a ruling went through made the one that stands, one
\* told of a conflict met a closed row, and a review that is told to exist does.
AnswersHold ==
  \A s \in Sessions :
    /\ req[s] # None /\ req[s].op = "rule" /\ req[s].pc = "done"
         => row[req[s].row] = Ruled(req[s])
    /\ req[s] # None /\ req[s].op = "rule" /\ req[s].pc = "conflict"
         => ~IsOpen(req[s].row)
    /\ req[s] # None /\ req[s].op = "review" /\ req[s].pc \in {"done", "error"}
         => review # None

\* An invoice is disputed at most once per request that runs at a time: the check
\* before the insert bounds the open cases, though not by one (open()).
OpenCasesBounded ==
  Cardinality({r \in Refunds : IsOpen(r)}) <= Cardinality(Sessions)

\* "A second open case on one invoice would let the same payment be disputed
\* twice": two requests that both found none open two.
OneOpenCase == Cardinality({r \in Refunds : IsOpen(r)}) <= 1
=============================================================================
