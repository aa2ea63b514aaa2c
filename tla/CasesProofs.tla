----------------------------- MODULE CasesProofs -----------------------------
(***************************************************************************)
(* Theorems about Cases: any number of requests, admins and rows of each   *)
(* queue.  Nothing here runs in a transaction, so what a request was told  *)
(* is kept true by the rows alone: they only move forward, from unknown to *)
(* open to ruled, and only an open one is ruled on.                        *)
(***************************************************************************)
EXTENDS Cases, FiniteSetTheorems, TLAPS

\* What each request in progress may count on, whatever the others do.
RequestOK(s) ==
  LET q == req[s]
  IN  req[s] # None =>
        /\ q.op = "refund" => q.pc \in {"create", "done", "conflict"}
        /\ q.op = "rule" => /\ q.row \in Rows /\ q.by \in Admins /\ q.says \in AllOutcomes
                            /\ row[q.row] # None
                            /\ q.pc = "done" => row[q.row] = Ruled(q)
                            /\ q.pc = "conflict" => ~IsOpen(q.row)
        /\ q.op = "review" => /\ q.says \in Stars
                              /\ q.pc \in {"done", "error"} => review # None
        /\ q.op = "rate" => q.says \in Stars /\ review # None

FlagsExist == \A r \in Flags : row[r] # None

IInv == TypeOK /\ FlagsExist /\ \A s \in Sessions : RequestOK(s)

\* Requests that found no case open and are about to open one.
Opening == {s \in Sessions : At(s, "create") /\ req[s].op = "refund"}
Open == {r \in Refunds : IsOpen(r)}

\* Each open case stands for a request that was opening it at the time another
\* opened the first.
Bounded ==
  /\ IsFiniteSet(Open)
  /\ Cardinality(Open) + Cardinality(Opening) <= Cardinality(Sessions)

----------------------------------------------------------------------------
(* Small facts.                                                             *)

LEMMA OutcomesClosed ==
  /\ \A r \in Rows : Outcomes(r) \subseteq AllOutcomes
  /\ "OPEN" \notin AllOutcomes
<1>1. \A r \in Rows : "OPEN" \notin Outcomes(r)
  BY DEF Rows, Outcomes
<1> QED
  BY <1>1 DEF AllOutcomes

LEMMA Requests ==
  ASSUME TypeOK, NEW s \in Sessions, req[s] # None
  PROVE  req[s] \in Request
BY DEF TypeOK

LEMMA RulingType ==
  ASSUME TypeOK, NEW q \in Request, q.row \in Rows, q.by \in Admins, q.says \in AllOutcomes
  PROVE  /\ Ruled(q) \in Row /\ Ruled(q) # None
         /\ Ruled(q).status = q.says /\ Ruled(q).status # "OPEN"
BY CasesAssumption, OutcomesClosed DEF Ruled, Row

\* Rows move forward only, and a review stays.
Advance ==
  /\ \A r \in Rows : row[r] # None =>
       row'[r] # None /\ (~IsOpen(r) => row'[r] = row[r])
  /\ review # None => review' # None

OthersKept(s) == \A t \in Sessions \ {s} : req'[t] = req[t]

\* What a request counts on is undisturbed by rows that only move forward.
LEMMA CountedOn ==
  ASSUME IInv, Advance, NEW t \in Sessions, req'[t] = req[t]
  PROVE  RequestOK(t)'
<1> SUFFICES ASSUME req[t] # None
             PROVE  RequestOK(t)'
  BY DEF RequestOK
<1>1. RequestOK(t)
  BY DEF IInv
<1>2. CASE req[t].op = "rule"
  <2>1. /\ req[t].row \in Rows /\ row[req[t].row] # None
        /\ req[t].pc = "done" => row[req[t].row] = Ruled(req[t])
        /\ req[t].pc = "conflict" => ~IsOpen(req[t].row)
        /\ req[t] \in Request /\ req[t].by \in Admins /\ req[t].says \in AllOutcomes
    BY <1>1, <1>2, Requests DEF RequestOK, IInv
  <2>2. Ruled(req[t]).status # "OPEN"
    BY <2>1, RulingType DEF IInv
  <2>3. /\ req[t].pc = "done" => row'[req[t].row] = Ruled(req[t])
        /\ req[t].pc = "conflict" => row'[req[t].row] = row[req[t].row]
    BY <2>1, <2>2 DEF Advance, IsOpen
  <2> QED
    BY <1>2, <2>1, <2>3 DEF RequestOK, Advance, IsOpen, Ruled
<1>3. CASE req[t].op # "rule"
  BY <1>1, <1>3 DEF RequestOK, Advance
<1> QED
  BY <1>2, <1>3

\* An operation that begins has its request as it was asked for.
LEMMA Begins ==
  ASSUME TypeOK, NEW s \in Sessions, NEW op, NEW pc, NEW r, NEW a, NEW word,
         [op |-> op, pc |-> pc, row |-> r, by |-> a, says |-> word] \in Request,
         Begin(s, op, pc, r, a, word), UNCHANGED <<row, state, review>>
  PROVE  /\ TypeOK' /\ Advance /\ OthersKept(s)
         /\ req[s] = None /\ req'[s] # None
         /\ req'[s] = [op |-> op, pc |-> pc, row |-> r, by |-> a, says |-> word]
<1> DEFINE q == [op |-> op, pc |-> pc, row |-> r, by |-> a, says |-> word]
<1>1. /\ req[s] = None /\ left > 0 /\ left' = left - 1
      /\ req' = [req EXCEPT ![s] = q]
  BY DEF Begin
<1>2. q # None
  BY CasesAssumption
<1>3. left' \in 0..MaxRequests
  BY <1>1, CasesAssumption DEF TypeOK
<1> HIDE DEF q
<1>4. q \in Request
  BY DEF q
<1>5. req' \in [Sessions -> Request \cup {None}] /\ req'[s] = q /\ OthersKept(s)
  BY <1>1, <1>4 DEF TypeOK, OthersKept
<1>6. TypeOK' /\ Advance
  BY <1>3, <1>5 DEF TypeOK, Advance
<1> QED
  BY <1>1, <1>2, <1>5, <1>6 DEF q

\* An answer changes nothing of the request but its answer.
LEMMA AnswerGiven ==
  ASSUME TypeOK, NEW s \in Sessions, req[s] # None,
         NEW answer \in Answers, Answer(s, answer)
  PROVE  /\ req' \in [Sessions -> Request \cup {None}] /\ OthersKept(s)
         /\ req'[s] \in Request /\ req'[s] # None /\ req'[s].pc = answer
         /\ req'[s].op = req[s].op /\ req'[s].row = req[s].row
         /\ req'[s].by = req[s].by /\ req'[s].says = req[s].says
         /\ Ruled(req'[s]) = Ruled(req[s])
<1> DEFINE q == [req[s] EXCEPT !.pc = answer]
<1>1. /\ q \in Request /\ q.pc = answer /\ q.op = req[s].op /\ q.row = req[s].row
      /\ q.by = req[s].by /\ q.says = req[s].says
  BY Requests DEF Request
<1>2. q # None
  BY <1>1, CasesAssumption
<1>3. req' = [req EXCEPT ![s] = q]
  BY DEF Answer
<1> HIDE DEF q
<1>4. req'[s] = q /\ req' \in [Sessions -> Request \cup {None}] /\ OthersKept(s)
  BY <1>1, <1>3 DEF TypeOK, OthersKept
<1> QED
  BY <1>1, <1>2, <1>4 DEF Ruled

----------------------------------------------------------------------------
(* What one step does to the rows.                                          *)

Brings(r) == row[r] = None /\ row' = [row EXCEPT ![r] = [status |-> "OPEN", by |-> None]]

Rules(s) ==
  /\ At(s, "write") /\ req[s].op = "rule" /\ IsOpen(req[s].row)
  /\ row' = [row EXCEPT ![req[s].row] = Ruled(req[s])]
  /\ Answer(s, "done")

\* The writes of the four queues: the update took place, or its request was
\* turned away with the row as it was.
TurnedAway(s) ==
  /\ At(s, "write") /\ req[s].op = "rule" /\ UNCHANGED row
  /\ \/ Answer(s, "conflict") /\ ~IsOpen(req[s].row)
     \/ Answer(s, "error")

RulingStep(s) ==
  RuleOpenCase(s) \/ SettlePendingPayout(s) \/ ResolveIfOpen(s) \/ ReviewIfPending(s)

LEMMA RulingCases ==
  ASSUME NEW s \in Sessions, RulingStep(s)
  PROVE  (Rules(s) \/ TurnedAway(s)) /\ UNCHANGED <<state, review, left>>
BY DEF RulingStep, RuleOpenCase, SettlePendingPayout, ResolveIfOpen, ReviewIfPending,
   UpdateIfOpen, Writing, Rules, TurnedAway

LEMMA Brought ==
  ASSUME IInv, NEW r \in Rows, Brings(r), UNCHANGED review
  PROVE  /\ row' \in [Rows -> Row \cup {None}]
         /\ Advance /\ FlagsExist'
<1>1. [status |-> "OPEN", by |-> None] \in Row
  BY DEF Row
<1>2. [status |-> "OPEN", by |-> None] # None
  BY <1>1, CasesAssumption
<1>3. row' \in [Rows -> Row \cup {None}]
  BY <1>1 DEF Brings, IInv, TypeOK
<1>4. row[r] = None /\ row'[r] # None /\ \A x \in Rows \ {r} : row'[x] = row[x]
  BY <1>2 DEF Brings, IInv, TypeOK
<1>5. Advance
  BY <1>4 DEF Advance
<1>6. Flags \subseteq Rows
  BY DEF Rows
<1> QED
  BY <1>3, <1>5, <1>6 DEF Advance, FlagsExist, IInv

LEMMA RuledOn ==
  ASSUME IInv, NEW s \in Sessions, Rules(s), UNCHANGED review
  PROVE  /\ row' \in [Rows -> Row \cup {None}]
         /\ Advance /\ FlagsExist'
         /\ req[s] \in Request /\ req[s].row \in Rows /\ req[s].by \in Admins
         /\ req[s].says \in AllOutcomes
         /\ row'[req[s].row] = Ruled(req[s])
         /\ \A x \in Rows \ {req[s].row} : row'[x] = row[x]
<1>1. /\ req[s] \in Request /\ req[s].row \in Rows /\ req[s].by \in Admins
      /\ req[s].says \in AllOutcomes
  BY Requests DEF Rules, At, IInv, RequestOK
<1>2. Ruled(req[s]) \in Row /\ Ruled(req[s]) # None
  BY <1>1, RulingType DEF IInv
<1>3. /\ row'[req[s].row] = Ruled(req[s])
      /\ \A x \in Rows \ {req[s].row} : row'[x] = row[x]
      /\ row' \in [Rows -> Row \cup {None}]
  BY <1>1, <1>2 DEF Rules, IInv, TypeOK
<1>4. Advance
  BY <1>2, <1>3 DEF Advance, Rules
<1>5. Flags \subseteq Rows
  BY DEF Rows
<1> QED
  BY <1>1, <1>3, <1>4, <1>5 DEF Advance, FlagsExist, IInv

----------------------------------------------------------------------------
(* The invariant, action by action.                                         *)

\* It is enough that the request of one session is in order.
LEMMA OneRequest ==
  ASSUME IInv, TypeOK', Advance, FlagsExist', NEW s \in Sessions, OthersKept(s),
         RequestOK(s)'
  PROVE  IInv'
BY CountedOn DEF IInv, OthersKept

LEMMA NoRequest ==
  ASSUME IInv, TypeOK', Advance, FlagsExist', UNCHANGED req
  PROVE  IInv'
BY CountedOn DEF IInv

LEMMA BringStep ==
  ASSUME IInv, NEW s \in Sessions, OpenRefund(s) \/ \E r \in Rows : CreateCase(s, r)
  PROVE  IInv'
<1>1. CASE OpenRefund(s)
  <2>1. PICK pc \in {"conflict", "create"} :
          Begin(s, "refund", pc, None, None, None) /\ UNCHANGED <<row, state, review>>
    BY <1>1 DEF OpenRefund
  <2>2. [op |-> "refund", pc |-> pc, row |-> None, by |-> None, says |-> None] \in Request
    BY DEF Request, Answers
  <2>3. /\ TypeOK' /\ Advance /\ OthersKept(s)
        /\ req'[s] = [op |-> "refund", pc |-> pc, row |-> None, by |-> None, says |-> None]
    BY <2>1, <2>2, Begins DEF IInv
  <2>4. RequestOK(s)'
    BY <2>3 DEF RequestOK
  <2> QED
    BY <2>1, <2>3, <2>4, OneRequest DEF IInv, FlagsExist
<1>2. ASSUME NEW r \in Rows, CreateCase(s, r) PROVE IInv'
  <2>1. /\ Brings(r) /\ UNCHANGED <<state, review, left>>
        /\ req[s] # None /\ req[s].op = "refund" /\ Answer(s, "done")
    BY <1>2 DEF CreateCase, Brings, At
  <2>2. row' \in [Rows -> Row \cup {None}] /\ Advance /\ FlagsExist'
    BY <2>1, Brought
  <2>3. /\ req' \in [Sessions -> Request \cup {None}] /\ OthersKept(s)
        /\ req'[s].op = "refund" /\ req'[s].pc = "done"
    BY <2>1, AnswerGiven DEF IInv, Answers
  <2>4. TypeOK'
    BY <2>1, <2>2, <2>3 DEF IInv, TypeOK
  <2>5. RequestOK(s)'
    BY <2>3 DEF RequestOK
  <2> QED
    BY <2>2, <2>3, <2>4, <2>5, OneRequest
<1> QED
  BY <1>1, <1>2

AskStep(s) ==
  \E r \in Rows, a \in Admins : \E outcome \in Outcomes(r) :
    \/ RuleCase(s, r, a, outcome) \/ Settle(s, r, a, outcome)
    \/ ResolveReport(s, r, a, outcome) \/ ResolveFlag(s, r, a, outcome)

LEMMA RuleAsked ==
  ASSUME IInv, NEW s \in Sessions, AskStep(s)
  PROVE  IInv'
<1>1. PICK r \in Rows, a \in Admins : \E outcome \in Outcomes(r) :
        \/ RuleCase(s, r, a, outcome) \/ Settle(s, r, a, outcome)
        \/ ResolveReport(s, r, a, outcome) \/ ResolveFlag(s, r, a, outcome)
  BY DEF AskStep
<1>2. PICK outcome \in Outcomes(r) :
        \/ RuleCase(s, r, a, outcome) \/ Settle(s, r, a, outcome)
        \/ ResolveReport(s, r, a, outcome) \/ ResolveFlag(s, r, a, outcome)
  BY <1>1
<1>3. outcome \in AllOutcomes /\ row[r] # None
  BY <1>2, OutcomesClosed DEF RuleCase, Settle, ResolveReport, ResolveFlag, IInv, FlagsExist
<1>4. PICK pc \in {"write", "conflict", "forbidden"} :
        /\ Begin(s, "rule", pc, r, a, outcome) /\ UNCHANGED <<row, state, review>>
        /\ pc = "conflict" => ~IsOpen(r)
  BY <1>2 DEF RuleCase, Settle, ResolveReport, ResolveFlag, ReadThenRule, AskThenRule
<1>5. [op |-> "rule", pc |-> pc, row |-> r, by |-> a, says |-> outcome] \in Request
  BY <1>3 DEF Request, Answers
<1>6. /\ TypeOK' /\ Advance /\ OthersKept(s)
      /\ req'[s] = [op |-> "rule", pc |-> pc, row |-> r, by |-> a, says |-> outcome]
  BY <1>4, <1>5, Begins DEF IInv
<1>7. RequestOK(s)'
  BY <1>3, <1>4, <1>6 DEF RequestOK, IsOpen
<1> QED
  BY <1>4, <1>6, <1>7, OneRequest DEF IInv, FlagsExist

LEMMA RuleStep ==
  ASSUME IInv, NEW s \in Sessions, RulingStep(s)
  PROVE  IInv'
<1>1. (Rules(s) \/ TurnedAway(s)) /\ UNCHANGED <<state, review, left>>
  BY RulingCases
<1>2. RequestOK(s) /\ req[s] # None /\ req[s].op = "rule"
  BY <1>1 DEF Rules, TurnedAway, At, IInv
<1>3. CASE Rules(s)
  <2>1. /\ row' \in [Rows -> Row \cup {None}] /\ Advance /\ FlagsExist'
        /\ req[s] \in Request /\ req[s].row \in Rows /\ req[s].by \in Admins
        /\ req[s].says \in AllOutcomes
        /\ row'[req[s].row] = Ruled(req[s])
    BY <1>1, <1>3, RuledOn
  <2>2. /\ req' \in [Sessions -> Request \cup {None}] /\ OthersKept(s)
        /\ req'[s].pc = "done" /\ req'[s].op = "rule" /\ req'[s].row = req[s].row
        /\ req'[s].by = req[s].by /\ req'[s].says = req[s].says
        /\ Ruled(req'[s]) = Ruled(req[s])
    BY <1>2, <1>3, AnswerGiven DEF Rules, Answers, IInv
  <2>3. Ruled(req[s]) # None
    BY <2>1, RulingType DEF IInv
  <2>4. TypeOK'
    BY <1>1, <2>1, <2>2 DEF IInv, TypeOK
  <2>5. RequestOK(s)'
    BY <2>1, <2>2, <2>3 DEF RequestOK, Ruled
  <2> QED
    BY <2>1, <2>2, <2>4, <2>5, OneRequest
<1>4. CASE TurnedAway(s)
  <2>1. PICK answer \in {"conflict", "error"} :
          Answer(s, answer) /\ (answer = "conflict" => ~IsOpen(req[s].row))
    BY <1>4 DEF TurnedAway
  <2>2. UNCHANGED <<row, state, review, left>>
    BY <1>1, <1>4 DEF TurnedAway
  <2>3. /\ req' \in [Sessions -> Request \cup {None}] /\ OthersKept(s)
        /\ req'[s].pc = answer /\ req'[s].op = "rule" /\ req'[s].row = req[s].row
        /\ req'[s].by = req[s].by /\ req'[s].says = req[s].says
    BY <1>2, <2>1, AnswerGiven DEF Answers, IInv
  <2>4. TypeOK' /\ Advance /\ FlagsExist'
    BY <2>2, <2>3 DEF IInv, TypeOK, Advance, FlagsExist
  <2>5. RequestOK(s)'
    BY <1>2, <2>1, <2>2, <2>3 DEF RequestOK, IsOpen
  <2> QED
    BY <2>3, <2>4, <2>5, OneRequest
<1> QED
  BY <1>1, <1>3, <1>4

ReviewStep(s) ==
  \/ \E stars \in Stars : CreateReview(s, stars) \/ UpdateReview(s, stars)
  \/ InsertReview(s) \/ UpdateRating(s)

LEMMA ReviewAsked ==
  ASSUME IInv, NEW s \in Sessions, NEW stars \in Stars,
         CreateReview(s, stars) \/ UpdateReview(s, stars)
  PROVE  IInv' /\ UNCHANGED row
<1>1. PICK op \in {"review", "rate"}, pc \in {"create", "conflict", "write"} :
        /\ Begin(s, op, pc, None, None, stars) /\ UNCHANGED <<row, state, review>>
        /\ op = "rate" => review # None
  BY DEF CreateReview, UpdateReview
<1>2. [op |-> op, pc |-> pc, row |-> None, by |-> None, says |-> stars] \in Request
  BY DEF Request, Answers
<1>3. /\ TypeOK' /\ Advance /\ OthersKept(s)
      /\ req'[s] = [op |-> op, pc |-> pc, row |-> None, by |-> None, says |-> stars]
  BY <1>1, <1>2, Begins DEF IInv
<1>4. RequestOK(s)'
  BY <1>1, <1>3 DEF RequestOK
<1> QED
  BY <1>1, <1>3, <1>4, OneRequest DEF IInv, FlagsExist

LEMMA ReviewWritten ==
  ASSUME IInv, NEW s \in Sessions, InsertReview(s) \/ UpdateRating(s)
  PROVE  IInv' /\ UNCHANGED row
<1>1. /\ req[s] # None /\ req[s].op \in {"review", "rate"} /\ req[s].says \in Stars
      /\ req[s].op = "rate" => review # None
      /\ UNCHANGED <<row, state, left>>
  BY DEF InsertReview, UpdateRating, At, IInv, RequestOK
<1>2. PICK answer \in {"done", "error"} : Answer(s, answer)
  BY DEF InsertReview, UpdateRating
<1>3. review' \in [stars : Stars, reply : BOOLEAN] /\ review' # None
  <2>1. CASE InsertReview(s) /\ review = None
    <3>1. review' = [stars |-> req[s].says, reply |-> FALSE]
      BY <2>1 DEF InsertReview
    <3>2. review' \in [stars : Stars, reply : BOOLEAN]
      BY <1>1, <3>1
    <3> QED
      BY <3>2, CasesAssumption
  <2>2. CASE InsertReview(s) /\ review # None
    BY <2>2 DEF InsertReview, IInv, TypeOK
  <2>3. CASE UpdateRating(s)
    <3>1. review \in [stars : Stars, reply : BOOLEAN]
      BY <1>1, <2>3 DEF UpdateRating, IInv, TypeOK
    <3>2. review' \in [stars : Stars, reply : BOOLEAN]
      BY <1>1, <2>3, <3>1 DEF UpdateRating
    <3> QED
      BY <3>2, CasesAssumption
  <2> QED
    BY <2>1, <2>2, <2>3
<1>4. /\ req' \in [Sessions -> Request \cup {None}] /\ OthersKept(s)
      /\ req'[s].pc = answer /\ req'[s].op = req[s].op /\ req'[s].says = req[s].says
  BY <1>1, <1>2, AnswerGiven DEF Answers, IInv
<1>5. TypeOK' /\ Advance /\ FlagsExist'
  BY <1>1, <1>3, <1>4 DEF IInv, TypeOK, Advance, FlagsExist
<1>6. RequestOK(s)'
  BY <1>1, <1>3, <1>4 DEF RequestOK
<1> QED
  BY <1>1, <1>4, <1>5, <1>6, OneRequest

LEMMA ForgetStep ==
  ASSUME IInv, NEW s \in Sessions, Forget(s)
  PROVE  IInv' /\ UNCHANGED row
<1>1. /\ req' = [req EXCEPT ![s] = None]
      /\ UNCHANGED <<row, state, review, left>>
  BY DEF Forget
<1>2. TypeOK' /\ req'[s] = None /\ OthersKept(s)
  BY <1>1 DEF IInv, TypeOK, OthersKept
<1>3. Advance /\ FlagsExist' /\ RequestOK(s)'
  BY <1>1, <1>2 DEF Advance, FlagsExist, IInv, RequestOK
<1> QED
  BY <1>1, <1>2, <1>3, OneRequest

\* A report that comes in, the end of the consultation and the reply.
LEMMA UnaskedStep ==
  ASSUME IInv, (\E r \in Rows : SubmitReport(r)) \/ Complete \/ Reply
  PROVE  IInv' /\ UNCHANGED req
<1>1. ASSUME NEW r \in Rows, SubmitReport(r) PROVE IInv' /\ UNCHANGED req
  <2>1. Brings(r) /\ UNCHANGED <<state, review, req, left>>
    BY <1>1 DEF SubmitReport, Brings
  <2>2. row' \in [Rows -> Row \cup {None}] /\ Advance /\ FlagsExist'
    BY <2>1, Brought
  <2>3. TypeOK'
    BY <2>1, <2>2 DEF IInv, TypeOK
  <2> QED
    BY <2>1, <2>2, <2>3, NoRequest
<1>2. CASE Complete
  <2>1. TypeOK' /\ Advance /\ FlagsExist' /\ UNCHANGED req
    BY <1>2 DEF Complete, IInv, TypeOK, Advance, FlagsExist
  <2> QED
    BY <2>1, NoRequest
<1>3. CASE Reply
  <2>1. review \in [stars : Stars, reply : BOOLEAN]
    BY <1>3 DEF Reply, IInv, TypeOK
  <2>2. review' \in [stars : Stars, reply : BOOLEAN]
    BY <1>3, <2>1 DEF Reply
  <2>3. TypeOK' /\ Advance /\ FlagsExist' /\ UNCHANGED req
    BY <1>3, <2>2, CasesAssumption DEF Reply, IInv, TypeOK, Advance, FlagsExist
  <2> QED
    BY <2>3, NoRequest
<1> QED
  BY <1>1, <1>2, <1>3

LEMMA StutterStep ==
  ASSUME IInv, UNCHANGED vars
  PROVE  IInv'
<1>1. TypeOK' /\ Advance /\ FlagsExist' /\ UNCHANGED req
  BY DEF vars, IInv, TypeOK, Advance, FlagsExist
<1> QED
  BY <1>1, NoRequest

\* The ways a request moves.
LEMMA ServeCases ==
  ASSUME NEW s \in Sessions, Serve(s)
  PROVE  \/ OpenRefund(s) \/ \E r \in Rows : CreateCase(s, r)
         \/ AskStep(s) \/ RulingStep(s) \/ ReviewStep(s) \/ Forget(s)
BY DEF Serve, AskStep, RulingStep, ReviewStep

LEMMA InvariantStep ==
  ASSUME IInv, [Next]_vars
  PROVE  IInv'
<1>1. ASSUME NEW s \in Sessions, Serve(s) PROVE IInv'
  BY <1>1, ServeCases, BringStep, RuleAsked, RuleStep, ReviewAsked, ReviewWritten,
     ForgetStep DEF ReviewStep
<1> QED
  BY <1>1, UnaskedStep, StutterStep DEF Next

LEMMA InitHolds == Init => IInv
<1> SUFFICES ASSUME Init PROVE IInv
  OBVIOUS
<1>1. [status |-> "OPEN", by |-> None] \in Row
  BY DEF Row
<1>2. TypeOK
  BY <1>1, CasesAssumption DEF Init, TypeOK
<1>3. FlagsExist
  BY <1>1, CasesAssumption DEF Init, FlagsExist, Rows
<1>4. \A s \in Sessions : RequestOK(s)
  BY DEF Init, RequestOK
<1> QED
  BY <1>2, <1>3, <1>4 DEF IInv

----------------------------------------------------------------------------
(* The bound on the open cases.                                             *)

\* Nobody joins the requests that are opening a case, and no case is opened.
LEMMA FewerOpen ==
  ASSUME Bounded, Open' \subseteq Open, Opening' \subseteq Opening
  PROVE  Bounded'
<1>1. IsFiniteSet(Opening)
  BY CasesAssumption, FS_Subset DEF Opening
<1>2. /\ IsFiniteSet(Open') /\ Cardinality(Open') <= Cardinality(Open)
      /\ Cardinality(Opening') <= Cardinality(Opening)
      /\ IsFiniteSet(Opening')
  BY <1>1, FS_Subset DEF Bounded
<1>3. /\ Cardinality(Open) \in Nat /\ Cardinality(Open') \in Nat
      /\ Cardinality(Opening) \in Nat /\ Cardinality(Opening') \in Nat
      /\ Cardinality(Sessions) \in Nat
  BY <1>1, <1>2, CasesAssumption, FS_CardinalityType DEF Bounded
<1> QED
  BY <1>2, <1>3 DEF Bounded

\* A request joins them only when it found no case open, and then there is room
\* for every session.
LEMMA NoneOpen ==
  ASSUME Open' = {}
  PROVE  Bounded'
<1>1. Opening' \subseteq Sessions
  BY DEF Opening
<1>2. /\ Cardinality(Opening') <= Cardinality(Sessions) /\ IsFiniteSet(Opening')
      /\ IsFiniteSet(Open') /\ Cardinality(Open') = 0
  BY <1>1, CasesAssumption, FS_Subset, FS_EmptySet
<1>3. Cardinality(Opening') \in Nat /\ Cardinality(Sessions) \in Nat
  BY <1>2, CasesAssumption, FS_CardinalityType
<1> QED
  BY <1>2, <1>3 DEF Bounded

\* A case is opened by one of them, who then is none any more.
LEMMA OneMoreOpen ==
  ASSUME Bounded, NEW s \in Opening, Opening' \subseteq Opening \ {s},
         NEW r, Open' \subseteq Open \cup {r}
  PROVE  Bounded'
<1>1. IsFiniteSet(Opening)
  BY CasesAssumption, FS_Subset DEF Opening
<1>2. /\ IsFiniteSet(Opening \ {s})
      /\ Cardinality(Opening \ {s}) = Cardinality(Opening) - 1
      /\ IsFiniteSet(Open \cup {r})
      /\ Cardinality(Open \cup {r}) <= Cardinality(Open) + 1
  <2>1. Cardinality(Open) \in Nat /\ IsFiniteSet(Open)
    BY FS_CardinalityType DEF Bounded
  <2>2. IsFiniteSet(Open \cup {r})
        /\ Cardinality(Open \cup {r}) = IF r \in Open THEN Cardinality(Open)
                                        ELSE Cardinality(Open) + 1
    BY <2>1, FS_AddElement
  <2>3. IsFiniteSet(Opening \ {s}) /\ Cardinality(Opening \ {s}) = Cardinality(Opening) - 1
    BY <1>1, FS_RemoveElement
  <2> QED
    BY <2>1, <2>2, <2>3
<1>3. /\ IsFiniteSet(Open') /\ Cardinality(Open') <= Cardinality(Open \cup {r})
      /\ IsFiniteSet(Opening') /\ Cardinality(Opening') <= Cardinality(Opening \ {s})
  BY <1>2, FS_Subset
<1>4. /\ Cardinality(Open) \in Nat /\ Cardinality(Open') \in Nat
      /\ Cardinality(Open \cup {r}) \in Nat
      /\ Cardinality(Opening) \in Nat /\ Cardinality(Opening') \in Nat
      /\ Cardinality(Sessions) \in Nat
  BY <1>1, <1>2, <1>3, CasesAssumption, FS_CardinalityType DEF Bounded
<1> QED
  BY <1>2, <1>3, <1>4 DEF Bounded

LEMMA NoneJoins ==
  ASSUME NEW s \in Sessions, OthersKept(s),
         req'[s] = None \/ req'[s].op # "refund" \/ req'[s].pc # "create"
  PROVE  Opening' \subseteq Opening \ {s}
BY DEF Opening, OthersKept, At

LEMMA BoundedServe ==
  ASSUME IInv, Bounded, NEW s \in Sessions, Serve(s)
  PROVE  Bounded'
<1>1. CASE OpenRefund(s)
  <2>1. PICK pc \in {"conflict", "create"} :
          /\ Begin(s, "refund", pc, None, None, None) /\ UNCHANGED <<row, state, review>>
          /\ pc = "create" => Open = {}
    BY <1>1 DEF OpenRefund, Open
  <2>2. [op |-> "refund", pc |-> pc, row |-> None, by |-> None, says |-> None] \in Request
    BY DEF Request, Answers
  <2>3. /\ OthersKept(s)
        /\ req'[s] = [op |-> "refund", pc |-> pc, row |-> None, by |-> None, says |-> None]
    BY <2>1, <2>2, Begins DEF IInv
  <2>4. Open' = Open
    BY <2>1 DEF Open, IsOpen
  <2>5. CASE pc = "create"
    BY <2>1, <2>4, <2>5, NoneOpen
  <2>6. CASE pc = "conflict"
    <3>1. Opening' \subseteq Opening \ {s}
      BY <2>3, <2>6, NoneJoins
    <3> QED
      BY <2>4, <3>1, FewerOpen
  <2> QED
    BY <2>5, <2>6
<1>2. ASSUME NEW r \in Rows, CreateCase(s, r) PROVE Bounded'
  <2>1. /\ row[r] = None /\ row' = [row EXCEPT ![r] = [status |-> "OPEN", by |-> None]]
        /\ s \in Opening /\ req[s] # None /\ Answer(s, "done")
    BY <1>2 DEF CreateCase, At, Opening
  <2>2. Open' \subseteq Open \cup {r}
    BY <2>1 DEF Open, IsOpen, IInv, TypeOK, Rows
  <2>3. OthersKept(s) /\ req'[s].pc = "done"
    BY <2>1, AnswerGiven DEF IInv, Answers
  <2>4. Opening' \subseteq Opening \ {s}
    BY <2>3, NoneJoins
  <2> QED
    BY <2>1, <2>2, <2>4, OneMoreOpen
<1>3. CASE AskStep(s)
  <2>1. PICK r \in Rows, a \in Admins : \E outcome \in Outcomes(r) :
          \/ RuleCase(s, r, a, outcome) \/ Settle(s, r, a, outcome)
          \/ ResolveReport(s, r, a, outcome) \/ ResolveFlag(s, r, a, outcome)
    BY <1>3 DEF AskStep
  <2>2. PICK outcome \in Outcomes(r), pc \in {"write", "conflict", "forbidden"} :
          Begin(s, "rule", pc, r, a, outcome) /\ UNCHANGED <<row, state, review>>
    BY <2>1 DEF RuleCase, Settle, ResolveReport, ResolveFlag, ReadThenRule, AskThenRule
  <2>3. [op |-> "rule", pc |-> pc, row |-> r, by |-> a, says |-> outcome] \in Request
    BY OutcomesClosed DEF Request, Answers
  <2>4. OthersKept(s) /\ req'[s].op = "rule"
    BY <2>2, <2>3, Begins DEF IInv
  <2>5. Open' = Open /\ Opening' \subseteq Opening
    BY <2>2, <2>4, NoneJoins DEF Open, IsOpen
  <2> QED
    BY <2>5, FewerOpen
<1>4. CASE RulingStep(s)
  <2>1. (Rules(s) \/ TurnedAway(s)) /\ UNCHANGED review
    BY <1>4, RulingCases
  <2>2. Open' \subseteq Open
    <3>1. CASE Rules(s)
      <4>1. /\ Advance /\ req[s].row \in Rows /\ row'[req[s].row] = Ruled(req[s])
            /\ Ruled(req[s]).status # "OPEN"
            /\ \A x \in Rows \ {req[s].row} : row'[x] = row[x]
        BY <2>1, <3>1, RuledOn, RulingType DEF IInv
      <4> QED
        BY <4>1 DEF Open, IsOpen, Rows
    <3>2. CASE TurnedAway(s)
      BY <3>2 DEF TurnedAway, Open, IsOpen
    <3> QED
      BY <2>1, <3>1, <3>2
  <2>3. OthersKept(s) /\ req'[s].op = "rule"
    <3>1. PICK answer \in {"done", "conflict", "error"} : Answer(s, answer)
      BY <2>1 DEF Rules, TurnedAway
    <3>2. req[s] # None /\ req[s].op = "rule"
      BY <2>1 DEF Rules, TurnedAway, At
    <3> QED
      BY <3>1, <3>2, AnswerGiven DEF IInv, Answers
  <2>4. Opening' \subseteq Opening
    BY <2>3, NoneJoins
  <2> QED
    BY <2>2, <2>4, FewerOpen
<1>5. CASE ReviewStep(s) \/ Forget(s)
  <2>1. OthersKept(s) /\ (req'[s] = None \/ req'[s].op \in {"review", "rate"})
    <3>1. ASSUME NEW stars \in Stars, CreateReview(s, stars) \/ UpdateReview(s, stars)
          PROVE  OthersKept(s) /\ req'[s].op \in {"review", "rate"}
      <4>1. PICK op \in {"review", "rate"}, pc \in {"create", "conflict", "write"} :
              Begin(s, op, pc, None, None, stars) /\ UNCHANGED <<row, state, review>>
        BY <3>1 DEF CreateReview, UpdateReview
      <4>2. [op |-> op, pc |-> pc, row |-> None, by |-> None, says |-> stars] \in Request
        BY DEF Request, Answers
      <4> QED
        BY <4>1, <4>2, Begins DEF IInv
    <3>2. CASE InsertReview(s) \/ UpdateRating(s)
      <4>1. PICK answer \in {"done", "error"} : Answer(s, answer)
        BY <3>2 DEF InsertReview, UpdateRating
      <4>2. req[s] # None /\ req[s].op \in {"review", "rate"}
        BY <3>2 DEF InsertReview, UpdateRating, At
      <4> QED
        BY <4>1, <4>2, AnswerGiven DEF IInv, Answers
    <3>3. CASE Forget(s)
      BY <3>3 DEF Forget, OthersKept, IInv, TypeOK
    <3> QED
      BY <1>5, <3>1, <3>2, <3>3 DEF ReviewStep
  <2>2. UNCHANGED row
    BY <1>5, ReviewAsked, ReviewWritten, ForgetStep DEF ReviewStep
  <2>3. Open' = Open /\ Opening' \subseteq Opening
    BY <2>1, <2>2, NoneJoins DEF Open, IsOpen
  <2> QED
    BY <2>3, FewerOpen
<1> QED
  BY <1>1, <1>2, <1>3, <1>4, <1>5, ServeCases

LEMMA BoundedStep ==
  ASSUME IInv, Bounded, [Next]_vars
  PROVE  Bounded'
<1>1. ASSUME NEW r \in Rows, SubmitReport(r) PROVE Bounded'
  <2>1. /\ r \notin Refunds /\ UNCHANGED req
        /\ row' = [row EXCEPT ![r] = [status |-> "OPEN", by |-> None]]
    BY <1>1, CasesAssumption DEF SubmitReport
  <2>2. \A x \in Refunds : row'[x] = row[x]
    BY <2>1 DEF IInv, TypeOK, Rows
  <2>3. Open' = Open /\ Opening' = Opening
    BY <2>1, <2>2 DEF Open, IsOpen, Opening, At
  <2> QED
    BY <2>3, FewerOpen
<1>2. CASE Complete \/ Reply \/ UNCHANGED vars
  <2>1. UNCHANGED <<row, req>>
    BY <1>2 DEF Complete, Reply, vars
  <2>2. Open' = Open /\ Opening' = Opening
    BY <2>1 DEF Open, IsOpen, Opening, At
  <2> QED
    BY <2>2, FewerOpen
<1> QED
  BY <1>1, <1>2, BoundedServe DEF Next

LEMMA InitBounded == Init => Bounded
<1> SUFFICES ASSUME Init PROVE Bounded
  OBVIOUS
<1>1. Open = {}
  BY CasesAssumption DEF Init, Open, IsOpen, Rows
<1>2. Opening = {}
  BY DEF Init, Opening, At
<1>3. Cardinality(Sessions) \in Nat
  BY CasesAssumption, FS_CardinalityType
<1> QED
  BY <1>1, <1>2, <1>3, FS_EmptySet DEF Bounded

LEMMA BoundedSuffices == Bounded => OpenCasesBounded
<1> SUFFICES ASSUME Bounded PROVE OpenCasesBounded
  OBVIOUS
<1>1. IsFiniteSet(Opening)
  BY CasesAssumption, FS_Subset DEF Opening
<1>2. /\ Cardinality(Open) \in Nat /\ Cardinality(Opening) \in Nat
      /\ Cardinality(Sessions) \in Nat
  BY <1>1, CasesAssumption, FS_CardinalityType DEF Bounded
<1> QED
  BY <1>2 DEF Bounded, Open, OpenCasesBounded

----------------------------------------------------------------------------
(* The docket.                                                              *)

LEMMA DocketInit == Init => D!Init
<1> SUFFICES ASSUME Init PROVE D!Init
  OBVIOUS
<1>1. docket \in [Rows -> {<<"unknown">>, <<"open">>}]
  BY DEF Init, docket
<1> QED
  BY <1>1 DEF D!Init, D!Unknown, D!Filed

\* A row brought is a matter filed.
LEMMA FilesMatter ==
  ASSUME IInv, NEW r \in Rows, Brings(r)
  PROVE  D!File(r)
<1>1. [status |-> "OPEN", by |-> None] # None
  <2>1. [status |-> "OPEN", by |-> None] \in Row
    BY DEF Row
  <2> QED
    BY <2>1, CasesAssumption
<1>2. row[r] = None /\ row'[r] = [status |-> "OPEN", by |-> None]
      /\ \A x \in Rows \ {r} : row'[x] = row[x]
  BY DEF Brings, IInv, TypeOK
<1>3. /\ docket[r] = <<"unknown">> /\ docket'[r] = <<"open">>
      /\ \A x \in Rows \ {r} : docket'[x] = docket[x]
  BY <1>1, <1>2 DEF docket
<1>4. docket' = [docket EXCEPT ![r] = <<"open">>]
  BY <1>3 DEF docket
<1> QED
  BY <1>3, <1>4 DEF D!File, D!Unknown, D!Filed

\* A row ruled on is a matter ruled on, by whom the row names.
LEMMA RulesMatter ==
  ASSUME IInv, NEW s \in Sessions, Rules(s), UNCHANGED review
  PROVE  \E m \in Rows, j \in Admins \cup {None}, o \in AllOutcomes : D!Rule(m, j, o)
<1> DEFINE r == req[s].row
           ruling == Ruled(req[s])
<1>1. /\ r \in Rows /\ req[s] \in Request /\ req[s].by \in Admins
      /\ req[s].says \in AllOutcomes
      /\ row'[r] = ruling
      /\ \A x \in Rows \ {r} : row'[x] = row[x]
  BY RuledOn
<1>2. ruling \in Row /\ ruling # None /\ ruling.status = req[s].says /\ ruling.status # "OPEN"
  BY <1>1, RulingType DEF IInv
<1>3. ruling.by \in Admins \cup {None} /\ ruling.status \in AllOutcomes
  BY <1>1, <1>2 DEF Row
<1>4. row[r] # None /\ row[r].status = "OPEN"
  BY DEF Rules, IsOpen
<1> HIDE DEF r, ruling
<1>5. /\ docket[r] = <<"open">> /\ docket'[r] = <<ruling.by, ruling.status>>
      /\ \A x \in Rows \ {r} : docket'[x] = docket[x]
  BY <1>1, <1>2, <1>4 DEF docket
<1>6. docket' = [docket EXCEPT ![r] = <<ruling.by, ruling.status>>]
  BY <1>5 DEF docket
<1>7. D!Rule(r, ruling.by, ruling.status)
  BY <1>5, <1>6 DEF D!Rule, D!Filed
<1> QED
  BY <1>1, <1>3, <1>7

LEMMA DocketStep ==
  ASSUME IInv, [Next]_vars
  PROVE  [D!Next]_docket
<1>1. CASE UNCHANGED row
  BY <1>1 DEF docket
<1>2. ASSUME NEW r \in Rows, Brings(r) PROVE D!Next
  BY <1>2, FilesMatter DEF D!Next
<1>3. ASSUME NEW s \in Sessions, Rules(s), UNCHANGED review PROVE D!Next
  BY <1>3, RulesMatter DEF D!Next
<1>4. ASSUME NEW s \in Sessions, Serve(s)
      PROVE  \/ UNCHANGED row
             \/ \E r \in Rows : Brings(r)
             \/ Rules(s) /\ UNCHANGED review
  <2>1. CASE OpenRefund(s)
    BY <2>1 DEF OpenRefund
  <2>2. CASE \E r \in Rows : CreateCase(s, r)
    BY <2>2 DEF CreateCase, Brings
  <2>3. CASE AskStep(s)
    BY <2>3 DEF AskStep, RuleCase, Settle, ResolveReport, ResolveFlag, ReadThenRule,
       AskThenRule
  <2>4. CASE RulingStep(s)
    BY <2>4, RulingCases DEF TurnedAway
  <2>5. CASE ReviewStep(s) \/ Forget(s)
    BY <2>5, ReviewAsked, ReviewWritten, ForgetStep DEF ReviewStep
  <2> QED
    BY <1>4, <2>1, <2>2, <2>3, <2>4, <2>5, ServeCases
<1>5. \/ UNCHANGED row
      \/ \E r \in Rows : Brings(r)
      \/ \E s \in Sessions : Serve(s)
  BY DEF Next, SubmitReport, Brings, Complete, Reply, vars
<1> QED
  BY <1>1, <1>2, <1>3, <1>4, <1>5

----------------------------------------------------------------------------
\* The queues are well typed and what each request counts on stays true.
THEOREM Inductive == Spec => []IInv
BY InitHolds, InvariantStep, PTL DEF Spec

\* Whoever is told that a ruling, a conflict or a review stands is told the truth,
\* for as long as the answer is kept: resolveIfOpen() and its siblings let nobody
\* rule after it.
THEOREM AnswersStand == Spec => []AnswersHold
<1>1. IInv => AnswersHold
  <2> SUFFICES ASSUME IInv PROVE AnswersHold
    OBVIOUS
  <2> QED
    BY DEF IInv, RequestOK, AnswersHold
<1> QED
  BY Inductive, <1>1, PTL

\* open() reads before it inserts, so as many cases of one invoice as there are
\* requests at a time may be open, and never more.
THEOREM CasesAreBounded == Spec => []OpenCasesBounded
<1>1. IInv /\ Bounded /\ [Next]_vars => Bounded'
  BY BoundedStep
<1> QED
  BY Inductive, InitBounded, BoundedSuffices, <1>1, PTL DEF Spec

\* With reads, answers and losing rulings hidden, the four queues are dockets.
THEOREM Refinement == Spec => KeepsDocket
<1>1. IInv /\ [Next]_vars => [D!Next]_docket
  BY DocketStep
<1> QED
  BY Inductive, DocketInit, <1>1, PTL DEF Spec, KeepsDocket, D!Spec
=============================================================================
