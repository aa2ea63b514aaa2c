--------------------------- MODULE PaymentProofs ---------------------------
(***************************************************************************)
(* Theorems about Payment, for any number of requests, invoices, bookings, *)
(* Advisors and Services, any limits and any clock.                        *)
(***************************************************************************)
EXTENDS Payment, FiniteSetTheorems, TLAPS

----------------------------------------------------------------------------
(* The inductive invariant.  NoOverlap needs what the constraint promised   *)
(* to a transaction that has inserted and not committed: its rows clash    *)
(* neither with the table nor with another's (HeldApart), because whoever  *)
(* inserts later waits.  That only overdue invoices fail needs that what a *)
(* transaction knows of the invoices it is failing stays true until it     *)
(* commits (CreatingOK): their rows are locked, and no two transactions    *)
(* hold one row or insert one invoice (Apart).                             *)

CreatingOK(s) ==
  pc[s] \in InTransaction =>
    /\ req[s].at <= now
    /\ invoices[req[s].invoice] = None
    /\ req[s].expired \subseteq Overdue(req[s].at)
    /\ \A a \in req[s].ids : req[s].starts[a] \in Nat

PayingOK(s) ==
  pc[s] \notin InTransaction \cup {"idle"} => req[s].invoice \in Issued

RequestsOK == \A s \in Sessions : CreatingOK(s) /\ PayingOK(s)

Apart ==
  \A s, t \in Sessions :
    (s # t /\ pc[s] \in InTransaction /\ pc[t] \in InTransaction) =>
      /\ req[s].invoice # req[t].invoice
      /\ req[s].expired \cap req[t].expired = {}

HeldApart ==
  /\ \A s \in Sessions : pc[s] \in AfterInsert =>
       \A a \in req[s].ids : ~Excluded(Draft(req[s], a), a, WithInserted(s))
  /\ \A s, t \in Sessions :
       (s # t /\ pc[s] \in AfterInsert /\ pc[t] \in AfterInsert) =>
         \A a \in req[s].ids, b \in req[t].ids :
           ~Clash(Draft(req[s], a), Draft(req[t], b))

TypeInv == TypeOK /\ RequestsOK
IInv == TypeInv /\ Apart /\ HeldApart /\ NoOverlap

----------------------------------------------------------------------------
(* Small facts.                                                             *)

LEMMA IssuedInvoices ==
  ASSUME TypeOK, NEW i \in Issued
  PROVE  i \in Invoices /\ invoices[i] \in Invoice
BY DEF TypeOK, Issued

LEMMA BookedRows ==
  ASSUME TypeOK, NEW a \in Booked
  PROVE  a \in Appointments /\ rows[a] \in Appointment
BY DEF TypeOK, Booked

LEMMA Requests ==
  ASSUME TypeOK, NEW s \in Sessions
  PROVE  /\ pc[s] = "idle" => req[s] = None
         /\ pc[s] \in InTransaction => req[s] \in CreateRequest
         /\ pc[s] \notin InTransaction \cup {"idle"} => req[s] \in PayRequest
BY DEF TypeOK, InTransaction

LEMMA OverdueIssued ==
  ASSUME NEW at PROVE Overdue(at) \subseteq Issued
BY DEF Overdue

\* A session that goes to another step with a request of the right kind.
LEMMA SessionType ==
  ASSUME TypeOK, NEW s \in Sessions, NEW step, NEW request,
         pc' = [pc EXCEPT ![s] = step], req' = [req EXCEPT ![s] = request],
         \/ step = "idle" /\ request = None
         \/ step \in InTransaction /\ request \in CreateRequest
         \/ /\ step \in {"charge", "save", "decline", "ask", "record"}
            /\ request \in PayRequest
  PROVE  /\ pc' \in [Sessions -> InTransaction \cup
                     {"idle", "charge", "save", "decline", "ask", "record"}]
         /\ req' \in [Sessions -> CreateRequest \cup PayRequest \cup {None}]
         /\ \A t \in Sessions :
              req'[t] \in IF pc'[t] = "idle" THEN {None}
                          ELSE IF pc'[t] \in InTransaction THEN CreateRequest
                          ELSE PayRequest
         /\ pc'[s] = step /\ req'[s] = request
         /\ \A t \in Sessions \ {s} : pc'[t] = pc[t] /\ req'[t] = req[t]
<1>1. /\ step \in InTransaction \cup
                    {"idle", "charge", "save", "decline", "ask", "record"}
      /\ request \in CreateRequest \cup PayRequest \cup {None}
  BY DEF InTransaction
<1>2. /\ pc'[s] = step /\ req'[s] = request
      /\ \A t \in Sessions \ {s} : pc'[t] = pc[t] /\ req'[t] = req[t]
      /\ pc' \in [Sessions -> InTransaction \cup
                 {"idle", "charge", "save", "decline", "ask", "record"}]
      /\ req' \in [Sessions -> CreateRequest \cup PayRequest \cup {None}]
  BY <1>1 DEF TypeOK
<1>3. request \in IF step = "idle" THEN {None}
                  ELSE IF step \in InTransaction THEN CreateRequest
                  ELSE PayRequest
  BY DEF InTransaction
<1>4. \A t \in Sessions :
        req[t] \in IF pc[t] = "idle" THEN {None}
                   ELSE IF pc[t] \in InTransaction THEN CreateRequest
                   ELSE PayRequest
  BY DEF TypeOK
<1> QED
  BY <1>2, <1>3, <1>4

----------------------------------------------------------------------------
(* Types, action by action.                                                 *)

LEMMA CreateType ==
  ASSUME TypeOK, NEW s \in Sessions, NEW advisee \in Advisees,
         NEW service \in Services, NEW basket \in Baskets,
         NEW ids \in SUBSET Appointments, NEW i \in Invoices,
         NEW starts \in Bijections(ids, basket),
         CreateInvoice(s, advisee, service, starts, ids, i)
  PROVE  /\ TypeOK' /\ UNCHANGED <<now, rows, invoices, payer, charges>>
         /\ pc[s] = "idle" /\ pc'[s] = "expire"
         /\ req'[s].invoice = i /\ req'[s].at = now /\ req'[s].expired = {}
         /\ \A a \in req'[s].ids : req'[s].starts[a] \in Nat
         /\ \A t \in Sessions \ {s} : pc'[t] = pc[t] /\ req'[t] = req[t]
<1> DEFINE request ==
      [at |-> now, advisee |-> advisee, service |-> service, ids |-> ids,
       starts |-> [a \in Appointments |-> IF a \in ids THEN starts[a] ELSE None],
       invoice |-> i, expired |-> {}]
<1>1. \A a \in ids : starts[a] \in Nat
  BY PaymentAssumption DEF Bijections
<1>2. request.starts \in [Appointments -> Nat \cup {None}]
  BY <1>1
<1>3. now \in Nat
  BY DEF TypeOK
<1>4. request \in CreateRequest
  BY <1>2, <1>3 DEF CreateRequest
<1>5. pc' = [pc EXCEPT ![s] = "expire"] /\ req' = [req EXCEPT ![s] = request]
  BY DEF CreateInvoice, Begin, Go
<1>6. "expire" \in InTransaction
  BY DEF InTransaction
<1>7. TypeOK' /\ pc'[s] = "expire" /\ req'[s] = request
      /\ \A t \in Sessions \ {s} : pc'[t] = pc[t] /\ req'[t] = req[t]
  <2> HIDE DEF request
  <2> QED
    BY <1>4, <1>5, <1>6, SessionType DEF TypeOK, CreateInvoice, Begin
<1>8. pc[s] = "idle" /\ UNCHANGED <<now, rows, invoices, payer, charges>>
  BY DEF CreateInvoice, Begin
<1> QED
  BY <1>1, <1>4, <1>7, <1>8

LEMMA AnswerType ==
  ASSUME TypeOK, NEW s \in Sessions, Answer(s)
  PROVE  /\ pc' \in [Sessions -> InTransaction \cup
                     {"idle", "charge", "save", "decline", "ask", "record"}]
         /\ req' \in [Sessions -> CreateRequest \cup PayRequest \cup {None}]
         /\ \A t \in Sessions :
              req'[t] \in IF pc'[t] = "idle" THEN {None}
                          ELSE IF pc'[t] \in InTransaction THEN CreateRequest
                          ELSE PayRequest
         /\ pc'[s] = "idle"
         /\ \A t \in Sessions \ {s} : pc'[t] = pc[t] /\ req'[t] = req[t]
BY SessionType DEF Answer

LEMMA RollbackType ==
  ASSUME TypeOK, NEW s \in Sessions, Rollback(s)
  PROVE  TypeOK'
BY AnswerType DEF Rollback, TypeOK

\* A step of a session that only moves it on.
LEMMA GoType ==
  ASSUME TypeOK, NEW s \in Sessions, NEW step, Go(s, step), UNCHANGED req,
         \/ pc[s] \in InTransaction /\ step \in InTransaction
         \/ /\ pc[s] \in {"charge", "save", "decline", "ask", "record"}
            /\ step \in {"charge", "save", "decline", "ask", "record"}
  PROVE  /\ pc' \in [Sessions -> InTransaction \cup
                     {"idle", "charge", "save", "decline", "ask", "record"}]
         /\ req' \in [Sessions -> CreateRequest \cup PayRequest \cup {None}]
         /\ \A t \in Sessions :
              req'[t] \in IF pc'[t] = "idle" THEN {None}
                          ELSE IF pc'[t] \in InTransaction THEN CreateRequest
                          ELSE PayRequest
         /\ pc'[s] = step
         /\ \A t \in Sessions \ {s} : pc'[t] = pc[t] /\ req'[t] = req[t]
<1>1. req' = [req EXCEPT ![s] = req[s]]
  BY DEF TypeOK
<1>2. pc' = [pc EXCEPT ![s] = step]
  BY DEF Go
<1>3. /\ pc[s] \in InTransaction => req[s] \in CreateRequest
      /\ pc[s] \in {"charge", "save", "decline", "ask", "record"} => req[s] \in PayRequest
  BY Requests DEF InTransaction
<1> QED
  BY <1>1, <1>2, <1>3, SessionType

LEMMA ExpireType ==
  ASSUME TypeOK, NEW s \in Sessions, Expire(s)
  PROVE  /\ TypeOK'
         /\ pc'[s] = "count"
         /\ req'[s] = [req[s] EXCEPT !.expired = Overdue(req[s].at)]
         /\ \A t \in Sessions \ {s} : pc'[t] = pc[t] /\ req'[t] = req[t]
<1> DEFINE request == [req[s] EXCEPT !.expired = Overdue(req[s].at)]
<1>1. req[s] \in CreateRequest
  BY Requests DEF Expire, InTransaction
<1>2. Overdue(req[s].at) \subseteq Invoices
  BY DEF Overdue, Issued
<1>3. request \in CreateRequest
  BY <1>1, <1>2 DEF CreateRequest
<1>4. pc' = [pc EXCEPT ![s] = "count"] /\ req' = [req EXCEPT ![s] = request]
  BY DEF Expire, Go
<1>5. "count" \in InTransaction
  BY DEF InTransaction
<1>6. UNCHANGED <<now, rows, invoices, payer, charges>>
  BY DEF Expire
<1> HIDE DEF request
<1>7. TypeOK' /\ pc'[s] = "count" /\ req'[s] = request
      /\ \A t \in Sessions \ {s} : pc'[t] = pc[t] /\ req'[t] = req[t]
  BY <1>3, <1>4, <1>5, <1>6, SessionType DEF TypeOK
<1> QED
  BY <1>7 DEF request

\* The statements that change nothing others see and no lock.
Statement(s) ==
  CountPending(s) \/ CheckOverlap(s) \/ InsertAppointments(s) \/ InsertInvoice(s)
  \/ LinkAppointments(s)

LEMMA CountType ==
  ASSUME TypeOK, NEW s \in Sessions, Statement(s)
  PROVE  /\ TypeOK'
         /\ UNCHANGED <<now, rows, invoices, payer, charges>>
         /\ \/ pc'[s] = "idle"
            \/ pc[s] \in InTransaction /\ pc'[s] \in InTransaction /\ req'[s] = req[s]
         /\ \A t \in Sessions \ {s} : pc'[t] = pc[t] /\ req'[t] = req[t]
<1>1. CASE Rollback(s)
  BY <1>1, AnswerType, RollbackType DEF Rollback
<1>2. CASE ~Rollback(s)
  <2>1. pc[s] \in InTransaction
    BY DEF Statement, CountPending, CheckOverlap, InsertAppointments, InsertInvoice,
           LinkAppointments, InTransaction
  <2>2. PICK step \in {"overlap", "insert", "invoice", "link", "commit"} :
          Go(s, step) /\ UNCHANGED <<now, rows, invoices, payer, charges, req>>
    BY <1>2 DEF Statement, CountPending, CheckOverlap, InsertAppointments, InsertInvoice,
                LinkAppointments
  <2>3. step \in InTransaction
    BY DEF InTransaction
  <2> QED
    BY <2>1, <2>2, <2>3, GoType DEF TypeOK
<1> QED
  BY <1>1, <1>2

LEMMA DraftType ==
  ASSUME NEW r \in CreateRequest, NEW a \in Appointments, r.starts[a] \in Nat
  PROVE  Draft(r, a) \in Appointment
BY PaymentAssumption DEF Draft, Appointment, CreateRequest

\* What a committed createInvoice() leaves in the tables.
LEMMA CommitType ==
  ASSUME TypeInv, NEW s \in Sessions, Commit(s)
  PROVE  /\ TypeOK'
         /\ \A i \in Invoices :
              i \notin req[s].expired \cup {req[s].invoice} => invoices'[i] = invoices[i]
         /\ \A i \in req[s].expired :
              invoices'[i] # None
         /\ invoices'[req[s].invoice] # None
         /\ pc[s] = "commit" /\ pc'[s] = "idle" /\ UNCHANGED now
         /\ \A t \in Sessions \ {s} : pc'[t] = pc[t] /\ req'[t] = req[t]
<1> DEFINE r == req[s]
<1>1. pc[s] = "commit" /\ r \in CreateRequest /\ r.at \in Nat
  BY Requests DEF Commit, InTransaction, TypeInv, CreateRequest
<1>2. /\ r.expired \subseteq Issued
      /\ \A a \in r.ids : r.starts[a] \in Nat
      /\ r.invoice \in Invoices /\ r.ids \subseteq Appointments
  BY <1>1, OverdueIssued DEF TypeInv, RequestsOK, CreatingOK, InTransaction, CreateRequest
<1>3. /\ rows' = [a \in Appointments |-> IF a \in r.ids THEN Draft(r, a) ELSE rows[a]]
      /\ invoices' = [i \in Invoices |->
            IF i = r.invoice THEN NewInvoice(r.at)
            ELSE IF i \in r.expired THEN [invoices[i] EXCEPT !.status = "FAILED"]
            ELSE invoices[i]]
      /\ payer' = [a \in Appointments |-> IF a \in r.ids THEN r.invoice ELSE payer[a]]
      /\ Answer(s) /\ UNCHANGED <<now, charges>>
  BY DEF Commit, WithInserted
<1>4. rows' \in [Appointments -> Appointment \cup {None}]
  BY <1>1, <1>2, <1>3, DraftType DEF TypeInv, TypeOK
<1>5. NewInvoice(r.at) \in Invoice
  BY <1>1 DEF NewInvoice, Invoice
<1>6. \A i \in r.expired : /\ invoices[i] \in Invoice
                           /\ [invoices[i] EXCEPT !.status = "FAILED"] \in Invoice
  BY <1>2, IssuedInvoices DEF TypeInv, Invoice
<1>7. invoices' \in [Invoices -> Invoice \cup {None}]
  BY <1>3, <1>5, <1>6 DEF TypeInv, TypeOK
<1>8. payer' \in [Appointments -> Invoices \cup {None}]
  BY <1>2, <1>3 DEF TypeInv, TypeOK
<1>9. TypeOK' /\ pc'[s] = "idle"
      /\ \A t \in Sessions \ {s} : pc'[t] = pc[t] /\ req'[t] = req[t]
  BY <1>3, <1>4, <1>7, <1>8, AnswerType DEF TypeInv, TypeOK
<1>10. None \notin Invoice
  BY PaymentAssumption
<1>11. invoices'[r.invoice] = NewInvoice(r.at)
  BY <1>2, <1>3
<1>12. \A i \in r.expired : invoices'[i] \in Invoice
  BY <1>2, <1>3, <1>5, <1>6 DEF Issued
<1>13. \A i \in Invoices :
         i \notin r.expired \cup {r.invoice} => invoices'[i] = invoices[i]
  BY <1>3
<1> QED
  BY <1>1, <1>3, <1>5, <1>9, <1>10, <1>11, <1>12, <1>13

\* The steps of a checkout or of a callback.
PayStep(s) ==
  ChargeCard(s) \/ SaveCharge(s) \/ SaveDecline(s) \/ AskProvider(s) \/ RecordOutcome(s)

\* What every step but a commit leaves of the invoices.
InvoicesKept ==
  /\ now \in Nat /\ now' \in Nat /\ now <= now'
  /\ \A i \in Invoices :
       /\ invoices[i] = None <=> invoices'[i] = None
       /\ invoices[i] # None => /\ invoices'[i].status = invoices[i].status
                                /\ invoices'[i].created = invoices[i].created

LEMMA UnchangedKept ==
  ASSUME TypeOK, UNCHANGED invoices, now' \in Nat, now <= now'
  PROVE  InvoicesKept
BY DEF InvoicesKept, TypeOK

\* A write of the charge and the date of an issued invoice.
LEMMA InvoiceWrite ==
  ASSUME TypeOK, UNCHANGED now, NEW i \in Issued,
         NEW charge \in Charges \cup {None}, NEW paidAt \in Nat \cup {None},
         \/ invoices' = [invoices EXCEPT ![i].charge = charge, ![i].paidAt = paidAt]
         \/ invoices' = [invoices EXCEPT ![i].paidAt = paidAt]
  PROVE  /\ invoices' \in [Invoices -> Invoice \cup {None}]
         /\ InvoicesKept
<1>1. i \in Invoices /\ invoices[i] \in Invoice /\ now \in Nat
  BY IssuedInvoices DEF TypeOK
<1>2. /\ invoices'[i] \in Invoice
      /\ invoices'[i].status = invoices[i].status
      /\ invoices'[i].created = invoices[i].created
      /\ invoices' \in [Invoices -> Invoice \cup {None}]
      /\ \A j \in Invoices \ {i} : invoices'[j] = invoices[j]
  <2>1. CASE invoices' = [invoices EXCEPT ![i].charge = charge, ![i].paidAt = paidAt]
    BY <1>1, <2>1 DEF TypeOK, Invoice
  <2>2. CASE invoices' = [invoices EXCEPT ![i].paidAt = paidAt]
    BY <1>1, <2>2 DEF TypeOK, Invoice
  <2> QED
    BY <2>1, <2>2
<1>3. None \notin Invoice
  BY PaymentAssumption
<1> QED
  BY <1>1, <1>2, <1>3 DEF InvoicesKept

LEMMA ChargeType ==
  ASSUME TypeInv, NEW s \in Sessions, ChargeCard(s)
  PROVE  /\ TypeOK' /\ UNCHANGED <<now, rows, invoices, payer>>
         /\ pc'[s] \notin InTransaction /\ req'[s].invoice = req[s].invoice
         /\ \A t \in Sessions \ {s} : pc'[t] = pc[t] /\ req'[t] = req[t]
<1>1. pc[s] = "charge" /\ req[s] \in PayRequest /\ req[s].invoice \in Invoices
  BY Requests DEF TypeInv, ChargeCard, InTransaction, PayRequest
<1>2. UNCHANGED <<now, rows, invoices, payer>>
  BY DEF ChargeCard
<1>3. charges' \in [Charges -> Charge \cup {None}]
  <2>1. CASE UNCHANGED charges
    BY <2>1 DEF TypeInv, TypeOK
  <2>2. ASSUME NEW c \in Charges, NEW outcome \in {"pending", "failed"},
               charges' = [charges EXCEPT ![c] =
                 [invoice |-> req[s].invoice, outcome |-> outcome]]
        PROVE  charges' \in [Charges -> Charge \cup {None}]
    <3>1. [invoice |-> req[s].invoice, outcome |-> outcome] \in Charge
      BY <1>1 DEF Charge
    <3> QED
      BY <2>2, <3>1 DEF TypeInv, TypeOK
  <2> QED
    BY <2>1, <2>2 DEF ChargeCard
<1>4. \/ Go(s, "decline") /\ UNCHANGED req
      \/ \E c \in Charges : req' = [req EXCEPT ![s].charge = c] /\ Go(s, "save")
  BY DEF ChargeCard
<1>5. CASE Go(s, "decline") /\ UNCHANGED req
  <2>1. "decline" \notin InTransaction
    BY DEF InTransaction
  <2> QED
    BY <1>1, <1>2, <1>3, <1>5, <2>1, GoType DEF TypeInv, TypeOK
<1>6. ASSUME NEW c \in Charges, req' = [req EXCEPT ![s].charge = c], Go(s, "save")
      PROVE  /\ TypeOK'
             /\ pc'[s] \notin InTransaction /\ req'[s].invoice = req[s].invoice
             /\ \A t \in Sessions \ {s} : pc'[t] = pc[t] /\ req'[t] = req[t]
  <2> DEFINE request == [req[s] EXCEPT !.charge = c]
  <2>1. request \in PayRequest /\ request.invoice = req[s].invoice
    BY <1>1 DEF PayRequest
  <2>2. req' = [req EXCEPT ![s] = request] /\ pc' = [pc EXCEPT ![s] = "save"]
    BY <1>6 DEF Go
  <2>3. "save" \notin InTransaction
    BY DEF InTransaction
  <2> HIDE DEF request
  <2> QED
    BY <1>2, <1>3, <2>1, <2>2, <2>3, SessionType DEF TypeInv, TypeOK
<1> QED
  BY <1>2, <1>4, <1>5, <1>6

LEMMA PayType ==
  ASSUME TypeInv, NEW s \in Sessions, PayStep(s)
  PROVE  /\ TypeOK' /\ InvoicesKept /\ UNCHANGED rows
         /\ pc'[s] \notin InTransaction
         /\ pc'[s] # "idle" => req'[s].invoice \in Issued
         /\ \A t \in Sessions \ {s} : pc'[t] = pc[t] /\ req'[t] = req[t]
<1>1. /\ pc[s] \in {"charge", "save", "decline", "ask", "record"}
      /\ req[s] \in PayRequest /\ req[s].invoice \in Issued
      /\ now \in Nat
  BY Requests DEF PayStep, ChargeCard, SaveCharge, SaveDecline, AskProvider, RecordOutcome,
       TypeInv, RequestsOK, PayingOK, InTransaction, TypeOK
<1>2. CASE ChargeCard(s)
  BY <1>1, <1>2, ChargeType, UnchangedKept DEF TypeInv
<1>3. CASE SaveCharge(s)
  <2>1. req[s].charge \in Charges \cup {None}
    BY <1>1 DEF PayRequest
  <2>2. /\ invoices' \in [Invoices -> Invoice \cup {None}]
        /\ InvoicesKept
    BY <1>1, <1>3, <2>1, InvoiceWrite DEF SaveCharge, TypeInv
  <2> QED
    BY <1>3, <2>2, AnswerType DEF SaveCharge, TypeInv, TypeOK, InTransaction
<1>4. CASE SaveDecline(s) \/ RecordOutcome(s)
  <2>1. /\ invoices' \in [Invoices -> Invoice \cup {None}]
        /\ InvoicesKept
    BY <1>1, <1>4, InvoiceWrite DEF SaveDecline, RecordOutcome, TypeInv
  <2> QED
    BY <1>4, <2>1, AnswerType DEF SaveDecline, RecordOutcome, TypeInv, TypeOK, InTransaction
<1>5. CASE AskProvider(s)
  <2>1. UNCHANGED <<now, rows, invoices, payer, charges>>
    BY <1>5 DEF AskProvider
  <2>2. Answer(s) \/ (Go(s, "record") /\ UNCHANGED req)
    BY <1>5 DEF AskProvider
  <2>3. TypeOK' /\ pc'[s] \in {"idle", "record"}
        /\ (pc'[s] # "idle" => req'[s] = req[s])
        /\ \A t \in Sessions \ {s} : pc'[t] = pc[t] /\ req'[t] = req[t]
    BY <1>1, <2>1, <2>2, AnswerType, GoType DEF TypeInv, TypeOK
  <2> QED
    BY <1>1, <2>1, <2>3, UnchangedKept DEF TypeInv, InTransaction
<1> QED
  BY <1>2, <1>3, <1>4, <1>5 DEF PayStep

LEMMA PayArrivalType ==
  ASSUME TypeOK, NEW s \in Sessions, NEW i \in Invoices, Checkout(s, i) \/ Callback(s, i)
  PROVE  /\ TypeOK' /\ UNCHANGED <<now, rows, invoices, payer, charges>>
         /\ pc'[s] \notin InTransaction /\ req'[s].invoice \in Issued
         /\ \A t \in Sessions \ {s} : pc'[t] = pc[t] /\ req'[t] = req[t]
<1>1. i \in Issued /\ invoices[i] \in Invoice
  BY IssuedInvoices DEF Checkout, Callback
<1>2. PICK step \in {"charge", "ask"}, charge \in Charges \cup {None}, paid \in BOOLEAN :
        /\ pc' = [pc EXCEPT ![s] = step]
        /\ req' = [req EXCEPT ![s] = [invoice |-> i, charge |-> charge, paid |-> paid]]
        /\ UNCHANGED <<now, rows, invoices, payer, charges>>
  <2>1. CASE Checkout(s, i)
    BY <2>1 DEF Checkout, Begin, Go
  <2>2. CASE Callback(s, i)
    <3>1. invoices[i].charge \in Charges \cup {None} /\ (invoices[i].paidAt # None) \in BOOLEAN
      BY <1>1 DEF Invoice
    <3> QED
      BY <2>2, <3>1 DEF Callback, Begin, Go
  <2> QED
    BY <2>1, <2>2
<1> DEFINE request == [invoice |-> i, charge |-> charge, paid |-> paid]
<1>3. request \in PayRequest /\ request.invoice = i
  BY DEF PayRequest
<1>4. step \notin InTransaction
  BY DEF InTransaction
<1>5. req' = [req EXCEPT ![s] = request]
  BY <1>2
<1> HIDE DEF request
<1> QED
  BY <1>1, <1>2, <1>3, <1>4, <1>5, SessionType DEF TypeOK

\* What happens outside the requests.
Elsewhere ==
  \/ \E c \in Charges, outcome \in {"success", "failed"} : Authorise(c, outcome)
  \/ \E a \in Appointments, service \in Services, advisee \in Advisees :
       \E start \in UNION Baskets : Book(a, service, advisee, start)
  \/ \E a \in Appointments, blocks \in BOOLEAN : Cancel(a, blocks)
  \/ Tick

LEMMA ElsewhereType ==
  ASSUME TypeOK, Elsewhere
  PROVE  TypeOK' /\ InvoicesKept /\ UNCHANGED <<pc, req>>
<1> USE DEF TypeOK
<1>1. ASSUME NEW c \in Charges, NEW outcome \in {"success", "failed"}, Authorise(c, outcome)
      PROVE  TypeOK' /\ UNCHANGED <<now, invoices, pc, req>>
  <2>1. charges[c] \in Charge
    BY <1>1 DEF Authorise
  <2>2. [charges[c] EXCEPT !.outcome = outcome] \in Charge
    BY <2>1 DEF Charge
  <2>3. charges' = [charges EXCEPT ![c] = [charges[c] EXCEPT !.outcome = outcome]]
    BY <1>1 DEF Authorise
  <2>4. charges' \in [Charges -> Charge \cup {None}]
    BY <2>2, <2>3
  <2> QED
    BY <1>1, <2>4 DEF Authorise
<1>2. ASSUME NEW a \in Appointments, NEW service \in Services, NEW advisee \in Advisees,
             NEW start \in UNION Baskets, Book(a, service, advisee, start)
      PROVE  TypeOK' /\ UNCHANGED <<now, invoices, pc, req>>
  <2>1. start \in Nat /\ Duration[service] \in Nat /\ Buffer \in Nat
    BY PaymentAssumption
  <2>2. [service |-> service, advisee |-> advisee, start |-> start,
         until |-> start + Duration[service] + Buffer, blocks |-> TRUE] \in Appointment
    BY <2>1 DEF Appointment
  <2>3. rows' \in [Appointments -> Appointment \cup {None}]
    BY <1>2, <2>2 DEF Book
  <2> QED
    BY <1>2, <2>3 DEF Book
<1>3. ASSUME NEW a \in Appointments, NEW blocks \in BOOLEAN, Cancel(a, blocks)
      PROVE  TypeOK' /\ UNCHANGED <<now, invoices, pc, req>>
  <2>1. rows[a] \in Appointment
    BY <1>3, BookedRows DEF Cancel
  <2>2. [rows[a] EXCEPT !.blocks = blocks] \in Appointment
    BY <2>1 DEF Appointment
  <2>3. rows' \in [Appointments -> Appointment \cup {None}]
    BY <1>3, <2>2 DEF Cancel
  <2> QED
    BY <1>3, <2>3 DEF Cancel
<1>4. CASE Tick
  <2>1. TypeOK' /\ now' = now + 1 /\ UNCHANGED <<invoices, pc, req>>
    BY <1>4 DEF Tick
  <2> QED
    BY <2>1, UnchangedKept
<1> QED
  BY <1>1, <1>2, <1>3, <1>4, UnchangedKept DEF Elsewhere

----------------------------------------------------------------------------
(* What the requests know, and keep knowing.                                *)

LEMMA KnowledgeKept ==
  ASSUME TypeInv, TypeOK', InvoicesKept, NEW t \in Sessions,
         pc'[t] = pc[t], req'[t] = req[t]
  PROVE  CreatingOK(t)' /\ PayingOK(t)'
<1>1. CASE pc[t] \in InTransaction
  <2>1. /\ req[t] \in CreateRequest
        /\ req[t].at <= now /\ invoices[req[t].invoice] = None
        /\ req[t].expired \subseteq Overdue(req[t].at)
        /\ \A a \in req[t].ids : req[t].starts[a] \in Nat
    BY <1>1, Requests DEF TypeInv, RequestsOK, CreatingOK
  <2>2. req[t].at \in Nat /\ req[t].invoice \in Invoices
    BY <2>1 DEF CreateRequest
  <2>3. req[t].at <= now' /\ invoices'[req[t].invoice] = None
    BY <2>1, <2>2 DEF InvoicesKept
  <2>4. Overdue(req[t].at) \subseteq Overdue(req[t].at)'
    BY DEF Overdue, Issued, InvoicesKept
  <2>5. CreatingOK(t)'
    BY <2>1, <2>3, <2>4 DEF CreatingOK, Overdue, Issued
  <2> QED
    BY <1>1, <2>5 DEF PayingOK, InTransaction
<1>2. CASE pc[t] \notin InTransaction
  BY <1>2 DEF CreatingOK, PayingOK, TypeInv, RequestsOK, InvoicesKept, Issued
<1> QED
  BY <1>1, <1>2

\* A commit changes no invoice another transaction is failing or inserting.
LEMMA CommitKnowledge ==
  ASSUME TypeInv, Apart, NEW s \in Sessions, Commit(s),
         NEW t \in Sessions \ {s}
  PROVE  CreatingOK(t)' /\ PayingOK(t)'
<1>1. /\ TypeOK' /\ UNCHANGED now /\ pc[s] \in InTransaction
      /\ pc'[t] = pc[t] /\ req'[t] = req[t]
      /\ \A i \in Invoices :
           i \notin req[s].expired \cup {req[s].invoice} => invoices'[i] = invoices[i]
  BY CommitType DEF InTransaction
<1>2. Issued \subseteq Issued'
  BY CommitType DEF Issued
<1>3. CASE pc[t] \in InTransaction
  <2>1. /\ req[t] \in CreateRequest /\ req[t].invoice \in Invoices
        /\ req[t].at <= now /\ invoices[req[t].invoice] = None
        /\ req[t].expired \subseteq Overdue(req[t].at)
        /\ \A a \in req[t].ids : req[t].starts[a] \in Nat
    BY <1>3, Requests DEF TypeInv, RequestsOK, CreatingOK, CreateRequest
  <2>2. /\ invoices[req[s].invoice] = None
        /\ req[s].expired \subseteq Issued
    BY <1>1, OverdueIssued DEF TypeInv, RequestsOK, CreatingOK
  <2>3. /\ req[t].invoice # req[s].invoice
        /\ req[t].expired \cap req[s].expired = {}
    BY <1>1, <1>3 DEF Apart
  <2>4. invoices'[req[t].invoice] = None
    BY <1>1, <2>1, <2>2, <2>3 DEF Issued
  <2>5. \A i \in req[t].expired : i \in Issued /\ invoices'[i] = invoices[i]
    BY <1>1, <2>1, <2>2, <2>3 DEF Overdue, Issued
  <2>6. req[t].expired \subseteq Overdue(req[t].at)'
    BY <1>1, <1>2, <2>1, <2>5 DEF Overdue
  <2>7. CreatingOK(t)'
    BY <1>1, <2>1, <2>4, <2>6 DEF CreatingOK
  <2> QED
    BY <1>1, <1>3, <2>7 DEF PayingOK, InTransaction
<1>4. CASE pc[t] \notin InTransaction
  BY <1>1, <1>2, <1>4 DEF CreatingOK, PayingOK, TypeInv, RequestsOK
<1> QED
  BY <1>3, <1>4

\* A session that leaves its transaction, or goes on in it with the same
\* request, disturbs no other.
LEMMA ApartKept ==
  ASSUME Apart, NEW s \in Sessions,
         \A t \in Sessions \ {s} : pc'[t] = pc[t] /\ req'[t] = req[t],
         \/ pc'[s] \notin InTransaction
         \/ pc[s] \in InTransaction /\ req'[s] = req[s]
  PROVE  Apart'
<1> SUFFICES ASSUME NEW x \in Sessions, NEW y \in Sessions, x # y,
                    pc'[x] \in InTransaction, pc'[y] \in InTransaction
             PROVE  /\ req'[x].invoice # req'[y].invoice
                    /\ req'[x].expired \cap req'[y].expired = {}
  BY DEF Apart, InTransaction
<1>1. /\ pc[x] \in InTransaction /\ req'[x] = req[x]
      /\ pc[y] \in InTransaction /\ req'[y] = req[y]
  OBVIOUS
<1> QED
  BY <1>1 DEF Apart

LEMMA ArrivalStep ==
  ASSUME TypeInv, Apart, NEW s \in Sessions, Arrive(s)
  PROVE  TypeInv' /\ Apart'
<1>1. CASE \E i \in Invoices : Checkout(s, i) \/ Callback(s, i)
  <2>1. /\ TypeOK' /\ UNCHANGED <<now, invoices>>
        /\ pc'[s] \notin InTransaction /\ req'[s].invoice \in Issued
        /\ \A t \in Sessions \ {s} : pc'[t] = pc[t] /\ req'[t] = req[t]
    BY <1>1, PayArrivalType DEF TypeInv
  <2>2. InvoicesKept
    BY <2>1 DEF TypeInv, TypeOK, InvoicesKept
  <2>3. CreatingOK(s)' /\ PayingOK(s)'
    BY <2>1 DEF CreatingOK, PayingOK, Issued
  <2>4. RequestsOK'
    BY <2>1, <2>2, <2>3, KnowledgeKept DEF RequestsOK
  <2> QED
    BY <2>1, <2>4, ApartKept DEF TypeInv
<1>2. ASSUME NEW advisee \in Advisees, NEW service \in Services,
             NEW basket \in Baskets, NEW ids \in SUBSET Appointments,
             NEW i \in Invoices, NEW starts \in Bijections(ids, basket),
             CreateInvoice(s, advisee, service, starts, ids, i)
      PROVE  TypeInv' /\ Apart'
  <2>1. /\ TypeOK' /\ UNCHANGED <<now, invoices>>
        /\ pc[s] = "idle" /\ pc'[s] = "expire"
        /\ req'[s].invoice = i /\ req'[s].at = now /\ req'[s].expired = {}
        /\ \A a \in req'[s].ids : req'[s].starts[a] \in Nat
        /\ \A t \in Sessions \ {s} : pc'[t] = pc[t] /\ req'[t] = req[t]
    BY <1>2, CreateType DEF TypeInv
  <2>2. now \in Nat /\ InvoicesKept
    BY <2>1 DEF TypeInv, TypeOK, InvoicesKept
  <2>3. /\ invoices[i] = None
        /\ \A t \in Sessions : pc[t] \in InTransaction => req[t].invoice # i
    BY <1>2 DEF CreateInvoice, FreshInvoice
  <2>4. CreatingOK(s)' /\ PayingOK(s)'
    BY <2>1, <2>2, <2>3 DEF CreatingOK, PayingOK, InTransaction
  <2>5. RequestsOK'
    BY <2>1, <2>2, <2>4, KnowledgeKept DEF RequestsOK
  <2>6. Apart'
    BY <2>1, <2>3 DEF Apart
  <2> QED
    BY <2>1, <2>5, <2>6 DEF TypeInv
<1> QED
  BY <1>1, <1>2 DEF Arrive

LEMMA ExpireStep ==
  ASSUME TypeInv, Apart, NEW s \in Sessions, Expire(s)
  PROVE  TypeInv' /\ Apart'
<1>1. /\ TypeOK' /\ pc[s] = "expire" /\ pc'[s] = "count"
      /\ req'[s] = [req[s] EXCEPT !.expired = Overdue(req[s].at)]
      /\ \A t \in Sessions \ {s} : pc'[t] = pc[t] /\ req'[t] = req[t]
      /\ UNCHANGED <<now, invoices>>
  BY ExpireType DEF TypeInv, Expire
<1>2. now \in Nat /\ InvoicesKept
  BY <1>1 DEF TypeInv, TypeOK, InvoicesKept
<1>3. /\ req[s] \in CreateRequest
      /\ req[s].at <= now /\ invoices[req[s].invoice] = None
      /\ \A a \in req[s].ids : req[s].starts[a] \in Nat
      /\ pc[s] \in InTransaction /\ pc'[s] \in InTransaction
  BY <1>1, Requests DEF TypeInv, RequestsOK, CreatingOK, InTransaction
<1>4. /\ req'[s].at = req[s].at /\ req'[s].invoice = req[s].invoice
      /\ req'[s].ids = req[s].ids /\ req'[s].starts = req[s].starts
      /\ req'[s].expired = Overdue(req[s].at)
  BY <1>1, <1>3 DEF CreateRequest
<1>5. invoices' = invoices /\ now' = now
  BY <1>1
<1>6. CreatingOK(s)' /\ PayingOK(s)'
  BY <1>3, <1>4, <1>5 DEF CreatingOK, PayingOK, Overdue, Issued
<1>7. RequestsOK'
  BY <1>1, <1>2, <1>6, KnowledgeKept DEF RequestsOK
<1>8. \A t \in Sessions : pc[t] \in InTransaction =>
        req[t].expired \cap Overdue(req[s].at) = {}
  BY DEF Expire, RowLocked
<1>9. \A t \in Sessions \ {s} : pc'[t] \in InTransaction =>
        /\ req'[t].invoice # req'[s].invoice
        /\ req'[t].expired \cap req'[s].expired = {}
  BY <1>1, <1>3, <1>4, <1>8 DEF Apart
<1>10. \A x, y \in Sessions \ {s} :
         (x # y /\ pc'[x] \in InTransaction /\ pc'[y] \in InTransaction) =>
           /\ req'[x].invoice # req'[y].invoice
           /\ req'[x].expired \cap req'[y].expired = {}
  BY <1>1 DEF Apart
<1>11. InTransaction' = InTransaction
  BY DEF InTransaction
<1>12. Apart'
  <2> SUFFICES ASSUME NEW x \in Sessions, NEW y \in Sessions, x # y,
                      pc'[x] \in InTransaction, pc'[y] \in InTransaction
               PROVE  /\ req'[x].invoice # req'[y].invoice
                      /\ req'[x].expired \cap req'[y].expired = {}
    BY <1>11 DEF Apart
  <2>1. CASE x = s
    BY <1>9, <2>1
  <2>2. CASE y = s
    BY <1>9, <2>2
  <2> QED
    BY <1>10, <2>1, <2>2
<1> QED
  BY <1>1, <1>7, <1>12 DEF TypeInv

\* A refused or failed request takes everything it knew with it.
LEMMA RollbackStep ==
  ASSUME TypeInv, Apart, NEW s \in Sessions, Rollback(s)
  PROVE  TypeInv' /\ Apart'
<1>1. /\ TypeOK' /\ UNCHANGED <<now, invoices>> /\ pc'[s] = "idle"
      /\ \A t \in Sessions \ {s} : pc'[t] = pc[t] /\ req'[t] = req[t]
  BY AnswerType, RollbackType DEF TypeInv, Rollback
<1>2. InvoicesKept
  BY <1>1 DEF TypeInv, TypeOK, InvoicesKept
<1>3. CreatingOK(s)' /\ PayingOK(s)'
  BY <1>1 DEF CreatingOK, PayingOK, InTransaction
<1>4. RequestsOK'
  BY <1>1, <1>2, <1>3, KnowledgeKept DEF RequestsOK
<1>5. Apart'
  BY <1>1, ApartKept DEF InTransaction
<1> QED
  BY <1>1, <1>4, <1>5 DEF TypeInv

LEMMA CountStep ==
  ASSUME TypeInv, Apart, NEW s \in Sessions, Statement(s)
  PROVE  TypeInv' /\ Apart'
<1>1. /\ TypeOK' /\ UNCHANGED <<now, invoices>>
      /\ \/ pc'[s] = "idle"
         \/ pc[s] \in InTransaction /\ pc'[s] \in InTransaction /\ req'[s] = req[s]
      /\ \A t \in Sessions \ {s} : pc'[t] = pc[t] /\ req'[t] = req[t]
  BY CountType DEF TypeInv
<1>2. InvoicesKept
  BY <1>1 DEF TypeInv, TypeOK, InvoicesKept
<1>3. CreatingOK(s)' /\ PayingOK(s)'
  <2>1. CASE pc'[s] = "idle"
    BY <2>1 DEF CreatingOK, PayingOK, InTransaction
  <2>2. CASE pc[s] \in InTransaction /\ pc'[s] \in InTransaction /\ req'[s] = req[s]
    BY <1>1, <2>2 DEF CreatingOK, PayingOK, TypeInv, RequestsOK, Overdue, Issued
  <2> QED
    BY <1>1, <2>1, <2>2
<1>4. RequestsOK'
  BY <1>1, <1>2, <1>3, KnowledgeKept DEF RequestsOK
<1>5. Apart'
  BY <1>1, ApartKept DEF InTransaction
<1> QED
  BY <1>1, <1>4, <1>5 DEF TypeInv

LEMMA CommitStep ==
  ASSUME TypeInv, Apart, NEW s \in Sessions, Commit(s)
  PROVE  TypeInv' /\ Apart'
<1>1. /\ TypeOK' /\ pc'[s] = "idle"
      /\ \A t \in Sessions \ {s} : pc'[t] = pc[t] /\ req'[t] = req[t]
  BY CommitType
<1>2. CreatingOK(s)' /\ PayingOK(s)'
  BY <1>1 DEF CreatingOK, PayingOK, InTransaction
<1>3. RequestsOK'
  BY <1>2, CommitKnowledge DEF RequestsOK
<1>4. Apart'
  BY <1>1, ApartKept DEF InTransaction
<1> QED
  BY <1>1, <1>3, <1>4 DEF TypeInv

LEMMA PayingStep ==
  ASSUME TypeInv, Apart, NEW s \in Sessions, PayStep(s)
  PROVE  TypeInv' /\ Apart'
<1>1. /\ TypeOK' /\ InvoicesKept
      /\ pc'[s] \notin InTransaction
      /\ pc'[s] # "idle" => req'[s].invoice \in Issued
      /\ \A t \in Sessions \ {s} : pc'[t] = pc[t] /\ req'[t] = req[t]
  BY PayType
<1>2. CreatingOK(s)' /\ PayingOK(s)'
  BY <1>1 DEF CreatingOK, PayingOK, InvoicesKept, Issued
<1>3. RequestsOK'
  BY <1>1, <1>2, KnowledgeKept DEF RequestsOK
<1>4. Apart'
  BY <1>1, ApartKept
<1> QED
  BY <1>1, <1>3, <1>4 DEF TypeInv

LEMMA KnowledgeStep ==
  ASSUME TypeInv, Apart, [Next]_vars
  PROVE  TypeInv' /\ Apart'
<1>1. CASE UNCHANGED vars
  <2>1. TypeOK'
    BY <1>1 DEF vars, TypeInv, TypeOK
  <2>2. InvoicesKept /\ UNCHANGED <<pc, req>>
    BY <1>1 DEF vars, TypeInv, TypeOK, InvoicesKept
  <2>3. RequestsOK'
    BY <2>1, <2>2, KnowledgeKept DEF RequestsOK
  <2> QED
    BY <2>1, <2>2, <2>3 DEF TypeInv, Apart
<1>2. CASE Elsewhere
  <2>1. TypeOK' /\ InvoicesKept /\ UNCHANGED <<pc, req>>
    BY <1>2, ElsewhereType DEF TypeInv
  <2>2. RequestsOK'
    BY <2>1, KnowledgeKept DEF RequestsOK
  <2> QED
    BY <2>1, <2>2 DEF TypeInv, Apart
<1>3. ASSUME NEW s \in Sessions, Arrive(s) \/ Step(s)
      PROVE  TypeInv' /\ Apart'
  <2>1. CASE Arrive(s)
    BY <2>1, ArrivalStep
  <2>2. CASE Expire(s)
    BY <2>2, ExpireStep
  <2>3. CASE Statement(s)
    BY <2>3, CountStep
  <2>4. CASE Commit(s)
    BY <2>4, CommitStep
  <2>5. CASE PayStep(s)
    BY <2>5, PayingStep
  <2>6. CASE Fail(s)
    BY <2>6, RollbackStep DEF Fail
  <2> QED
    BY <1>3, <2>1, <2>2, <2>3, <2>4, <2>5, <2>6 DEF Step, PayStep, Statement
<1> QED
  BY <1>1, <1>2, <1>3 DEF Next, Elsewhere

----------------------------------------------------------------------------
(* Time is sold once.                                                       *)

LEMMA ClashSymmetric ==
  ASSUME NEW x \in Appointment, NEW y \in Appointment, Clash(x, y)
  PROVE  Clash(y, x)
BY DEF Clash, Overlaps, Appointment

LEMMA Drafts ==
  ASSUME TypeInv, NEW s \in Sessions, pc[s] \in InTransaction, NEW a \in req[s].ids
  PROVE  a \in Appointments /\ Draft(req[s], a) \in Appointment
BY Requests, DraftType DEF TypeInv, RequestsOK, CreatingOK, CreateRequest

\* A table in which every row that differs from the old one has passed the
\* constraint is as good as the old one.
LEMMA ConstraintSuffices ==
  ASSUME TypeInv, TypeOK', NoOverlap,
         \A a \in Appointments :
           rows'[a] = rows[a] \/ (rows'[a] # None /\ ~Excluded(rows'[a], a, rows'))
  PROVE  NoOverlap'
<1>1. ASSUME NEW a \in Booked', NEW b \in Booked', a # b
      PROVE  ~Clash(rows'[a], rows'[b])
  <2>1. /\ a \in Appointments /\ rows'[a] \in Appointment /\ rows'[a] # None
        /\ b \in Appointments /\ rows'[b] \in Appointment /\ rows'[b] # None
    BY DEF TypeOK, Booked
  <2>2. CASE ~Excluded(rows'[a], a, rows')
    BY <1>1, <2>1, <2>2 DEF Excluded
  <2>3. CASE ~Excluded(rows'[b], b, rows')
    <3>1. ~Clash(rows'[b], rows'[a])
      BY <1>1, <2>1, <2>3 DEF Excluded
    <3> QED
      BY <2>1, <3>1, ClashSymmetric
  <2>4. CASE rows'[a] = rows[a] /\ rows'[b] = rows[b]
    BY <1>1, <2>1, <2>4 DEF NoOverlap, Clash, Booked
  <2> QED
    BY <2>1, <2>2, <2>3, <2>4
<1> QED
  BY <1>1 DEF NoOverlap, Clash

Bookings ==
  \/ \E a \in Appointments, service \in Services, advisee \in Advisees :
       \E start \in UNION Baskets : Book(a, service, advisee, start)
  \/ \E a \in Appointments, blocks \in BOOLEAN : Cancel(a, blocks)

\* The writes of modules/bookings: one row, which waited for nobody.
LEMMA BookingWrite ==
  ASSUME TypeInv, Bookings
  PROVE  \E a \in Appointments, row \in Appointment :
           /\ rows' = [rows EXCEPT ![a] = row]
           /\ ~MustWait(row) /\ ~Excluded(row, a, rows)
           /\ UNCHANGED <<pc, req>>
<1>1. ASSUME NEW a \in Appointments, NEW service \in Services, NEW advisee \in Advisees,
             NEW start \in UNION Baskets, Book(a, service, advisee, start)
      PROVE  \E row \in Appointment :
               /\ rows' = [rows EXCEPT ![a] = row]
               /\ ~MustWait(row) /\ ~Excluded(row, a, rows)
               /\ UNCHANGED <<pc, req>>
  <2> DEFINE row == [service |-> service, advisee |-> advisee, start |-> start,
                     until |-> start + Duration[service] + Buffer, blocks |-> TRUE]
  <2>1. start \in Nat /\ Duration[service] \in Nat /\ Buffer \in Nat
    BY PaymentAssumption
  <2>2. row \in Appointment
    BY <2>1 DEF Appointment
  <2>3. /\ ~MustWait(row) /\ ~Excluded(row, a, rows)
        /\ rows' = [rows EXCEPT ![a] = row]
        /\ UNCHANGED <<pc, req>>
    BY <1>1 DEF Book
  <2> HIDE DEF row
  <2> QED
    BY <2>2, <2>3
<1>2. ASSUME NEW a \in Appointments, NEW blocks \in BOOLEAN, Cancel(a, blocks)
      PROVE  \E row \in Appointment :
               /\ rows' = [rows EXCEPT ![a] = row]
               /\ ~MustWait(row) /\ ~Excluded(row, a, rows)
               /\ UNCHANGED <<pc, req>>
  <2> DEFINE row == [rows[a] EXCEPT !.blocks = blocks]
  <2>1. /\ a \in Booked /\ ~MustWait(row) /\ ~Excluded(row, a, rows)
        /\ rows' = [rows EXCEPT ![a] = row]
        /\ UNCHANGED <<pc, req>>
    BY <1>2 DEF Cancel
  <2>2. row \in Appointment
    BY <2>1, BookedRows DEF Appointment, TypeInv
  <2> HIDE DEF row
  <2> QED
    BY <2>1, <2>2
<1> QED
  BY <1>1, <1>2 DEF Bookings

\* Which steps write appointments, or insert some.
LEMMA RowsWritten ==
  ASSUME TypeInv, [Next]_vars
  PROVE  \/ Bookings
         \/ \E s \in Sessions : Commit(s)
         \/ \E s \in Sessions : InsertAppointments(s) /\ ~Rollback(s)
         \/ /\ rows' = rows
            /\ \A t \in Sessions : pc'[t] \in AfterInsert =>
                 pc[t] \in AfterInsert /\ req'[t] = req[t]
<1> DEFINE Kept ==
      /\ rows' = rows
      /\ \A t \in Sessions : pc'[t] \in AfterInsert =>
           pc[t] \in AfterInsert /\ req'[t] = req[t]
<1>1. CASE UNCHANGED <<rows, pc, req>>
  BY <1>1
<1>2. ASSUME NEW s \in Sessions, rows' = rows, pc'[s] \notin AfterInsert,
             \A t \in Sessions \ {s} : pc'[t] = pc[t] /\ req'[t] = req[t]
      PROVE  Kept
  BY <1>2
<1>3. ASSUME NEW s \in Sessions, Arrive(s) PROVE Kept
  <2>1. CASE \E i \in Invoices : Checkout(s, i) \/ Callback(s, i)
    BY <1>2, <2>1, PayArrivalType DEF TypeInv, AfterInsert, InTransaction
  <2>2. CASE \E advisee \in Advisees, service \in Services, basket \in Baskets,
                ids \in SUBSET Appointments, i \in Invoices :
               \E starts \in Bijections(ids, basket) :
                 CreateInvoice(s, advisee, service, starts, ids, i)
    BY <1>2, <2>2, CreateType DEF TypeInv, AfterInsert
  <2> QED
    BY <1>3, <2>1, <2>2 DEF Arrive
<1>4. ASSUME NEW s \in Sessions, Rollback(s) PROVE Kept
  <2>1. rows' = rows /\ pc'[s] = "idle"
        /\ \A t \in Sessions \ {s} : pc'[t] = pc[t] /\ req'[t] = req[t]
    BY <1>4, AnswerType DEF Rollback, TypeInv
  <2> QED
    BY <1>2, <2>1 DEF AfterInsert
<1>5. ASSUME NEW s \in Sessions, Expire(s) PROVE Kept
  <2>1. rows' = rows /\ pc'[s] = "count"
        /\ \A t \in Sessions \ {s} : pc'[t] = pc[t] /\ req'[t] = req[t]
    BY <1>5, ExpireType DEF Expire, TypeInv
  <2> QED
    BY <1>2, <2>1 DEF AfterInsert
<1>6. ASSUME NEW s \in Sessions, ~Rollback(s),
             CountPending(s) \/ CheckOverlap(s) \/ InsertInvoice(s) \/ LinkAppointments(s)
      PROVE  Kept
  <2>1. rows' = rows /\ req' = req
        /\ \/ Go(s, "overlap") \/ Go(s, "insert")
           \/ pc[s] \in AfterInsert
        /\ \E step : Go(s, step)
    BY <1>6 DEF CountPending, CheckOverlap, InsertInvoice, LinkAppointments, AfterInsert
  <2>2. \A t \in Sessions \ {s} : pc'[t] = pc[t]
    BY <2>1 DEF Go, TypeInv, TypeOK
  <2>3. pc'[s] \in AfterInsert => pc[s] \in AfterInsert
    BY <2>1 DEF Go, TypeInv, TypeOK, AfterInsert
  <2> QED
    BY <2>1, <2>2, <2>3
<1>7. ASSUME NEW s \in Sessions, PayStep(s) PROVE Kept
  BY <1>2, <1>7, PayType DEF AfterInsert, InTransaction
<1>8. CASE Elsewhere
  BY <1>1, <1>8 DEF Elsewhere, Bookings, Authorise, Tick
<1> HIDE DEF Kept
<1>9. ASSUME NEW s \in Sessions, Step(s), ~Commit(s), ~(InsertAppointments(s) /\ ~Rollback(s))
      PROVE  Kept
  BY <1>4, <1>5, <1>6, <1>7, <1>9 DEF Step, Fail, PayStep
<1>10. CASE UNCHANGED vars
  BY <1>1, <1>10 DEF vars
<1> QED
  BY <1>3, <1>8, <1>9, <1>10 DEF Next, Elsewhere, Bookings, Kept

\* Who inserted keeps what the constraint promised while others write rows that
\* do not clash with its own.
LEMMA HeldKept ==
  ASSUME HeldApart,
         \A t \in Sessions : pc'[t] \in AfterInsert =>
           pc[t] \in AfterInsert /\ req'[t] = req[t],
         \A t \in Sessions : pc'[t] \in AfterInsert =>
           \A a \in req[t].ids, b \in Appointments :
             \/ rows'[b] = rows[b]
             \/ ~Clash(Draft(req[t], a), rows'[b])
  PROVE  HeldApart'
<1>1. ASSUME NEW t \in Sessions, pc'[t] \in AfterInsert, NEW a \in req[t].ids
      PROVE  ~Excluded(Draft(req'[t], a), a, WithInserted(t)')
  <2>1. ~Excluded(Draft(req[t], a), a, WithInserted(t))
    BY <1>1 DEF HeldApart
  <2>2. Draft(req'[t], a) = Draft(req[t], a)
    BY <1>1
  <2>3. \A b \in Appointments :
          \/ WithInserted(t)'[b] = WithInserted(t)[b]
          \/ ~Clash(Draft(req[t], a), WithInserted(t)'[b])
    BY <1>1 DEF WithInserted
  <2> QED
    BY <2>1, <2>2, <2>3 DEF Excluded
<1>2. ASSUME NEW x \in Sessions, NEW y \in Sessions, x # y,
             pc'[x] \in AfterInsert, pc'[y] \in AfterInsert,
             NEW a \in req'[x].ids, NEW b \in req'[y].ids
      PROVE  ~Clash(Draft(req'[x], a), Draft(req'[y], b))
  <2>1. /\ pc[x] \in AfterInsert /\ req'[x] = req[x]
        /\ pc[y] \in AfterInsert /\ req'[y] = req[y]
    BY <1>2
  <2> QED
    BY <1>2, <2>1 DEF HeldApart
<1>3. AfterInsert' = AfterInsert
  BY DEF AfterInsert
<1> QED
  BY <1>1, <1>2, <1>3 DEF HeldApart

\* The constraint as an INSERT meets it: the new rows clash with nothing that is
\* committed, and they waited for everything that is not.
LEMMA InsertHeld ==
  ASSUME TypeInv, HeldApart, NEW s \in Sessions, InsertAppointments(s), ~Rollback(s)
  PROVE  HeldApart' /\ rows' = rows
<1>1. /\ pc[s] = "insert" /\ UNCHANGED <<rows, req>>
      /\ pc' = [pc EXCEPT ![s] = "invoice"]
      /\ \A a \in req[s].ids : /\ ~MustWait(Draft(req[s], a))
                              /\ ~Excluded(Draft(req[s], a), a, WithInserted(s))
  BY DEF InsertAppointments, Go
<1>2. \A t \in Sessions \ {s} : pc'[t] = pc[t]
  BY <1>1 DEF TypeInv, TypeOK
<1>3. WithInserted(s)' = WithInserted(s) /\ AfterInsert' = AfterInsert
      /\ \A t \in Sessions : WithInserted(t)' = WithInserted(t)
  BY <1>1 DEF WithInserted, AfterInsert
<1>4. ASSUME NEW t \in Sessions, pc'[t] \in AfterInsert, NEW a \in req'[t].ids
      PROVE  ~Excluded(Draft(req'[t], a), a, WithInserted(t)')
  BY <1>1, <1>2, <1>3, <1>4 DEF HeldApart
<1>5. ASSUME NEW t \in Sessions \ {s}, pc'[t] \in AfterInsert,
             NEW a \in req[s].ids, NEW b \in req[t].ids
      PROVE  /\ ~Clash(Draft(req[s], a), Draft(req[t], b))
             /\ ~Clash(Draft(req[t], b), Draft(req[s], a))
  <2>1. ~Clash(Draft(req[s], a), Draft(req[t], b))
    BY <1>1, <1>2, <1>5 DEF MustWait
  <2>2. Draft(req[s], a) \in Appointment /\ Draft(req[t], b) \in Appointment
    BY <1>1, <1>2, <1>5, Drafts DEF AfterInsert, InTransaction
  <2> QED
    BY <2>1, <2>2, ClashSymmetric
<1>6. ASSUME NEW x \in Sessions, NEW y \in Sessions, x # y,
             pc'[x] \in AfterInsert, pc'[y] \in AfterInsert,
             NEW a \in req'[x].ids, NEW b \in req'[y].ids
      PROVE  ~Clash(Draft(req'[x], a), Draft(req'[y], b))
  <2>1. CASE x = s \/ y = s
    BY <1>1, <1>5, <1>6, <2>1
  <2>2. CASE x # s /\ y # s
    BY <1>1, <1>2, <1>6, <2>2 DEF HeldApart
  <2> QED
    BY <2>1, <2>2
<1> QED
  BY <1>1, <1>3, <1>4, <1>6 DEF HeldApart

\* A commit turns held rows into rows of the table.
LEMMA CommitHeld ==
  ASSUME TypeInv, TypeOK', HeldApart, NoOverlap, NEW s \in Sessions, Commit(s)
  PROVE  HeldApart' /\ NoOverlap'
<1>1. /\ pc[s] = "commit" /\ pc'[s] = "idle" /\ rows' = WithInserted(s)
      /\ \A t \in Sessions \ {s} : pc'[t] = pc[t] /\ req'[t] = req[t]
  BY CommitType DEF Commit
<1>2. pc[s] \in AfterInsert /\ pc[s] \in InTransaction /\ "idle" \notin AfterInsert
  BY <1>1 DEF AfterInsert, InTransaction
<1>3. HeldApart'
  <2>1. ASSUME NEW t \in Sessions, pc'[t] \in AfterInsert,
               NEW a \in req[t].ids, NEW b \in Appointments
        PROVE  rows'[b] = rows[b] \/ ~Clash(Draft(req[t], a), rows'[b])
    <3>1. t # s /\ pc[t] \in AfterInsert
      BY <1>1, <1>2, <2>1
    <3>2. CASE b \in req[s].ids
      <4>1. rows'[b] = Draft(req[s], b)
        BY <1>1, <3>2 DEF WithInserted
      <4> QED
        BY <1>2, <2>1, <3>1, <3>2, <4>1 DEF HeldApart
    <3>3. CASE b \notin req[s].ids
      BY <1>1, <3>3 DEF WithInserted
    <3> QED
      BY <3>2, <3>3
  <2>2. \A t \in Sessions : pc'[t] \in AfterInsert =>
          pc[t] \in AfterInsert /\ req'[t] = req[t]
    BY <1>1, <1>2
  <2> QED
    BY <2>1, <2>2, HeldKept
<1>4. ASSUME NEW a \in Appointments
      PROVE  rows'[a] = rows[a] \/ (rows'[a] # None /\ ~Excluded(rows'[a], a, rows'))
  <2>1. CASE a \in req[s].ids
    <3>1. rows'[a] = Draft(req[s], a) /\ Draft(req[s], a) \in Appointment
      BY <1>1, <1>2, <2>1, Drafts DEF WithInserted
    <3>2. ~Excluded(Draft(req[s], a), a, WithInserted(s))
      BY <1>2, <2>1 DEF HeldApart
    <3> QED
      BY <1>1, <3>1, <3>2, PaymentAssumption
  <2>2. CASE a \notin req[s].ids
    BY <1>1, <2>2 DEF WithInserted
  <2> QED
    BY <2>1, <2>2
<1>5. NoOverlap'
  BY <1>4, ConstraintSuffices
<1> QED
  BY <1>3, <1>5

LEMMA BookingHeld ==
  ASSUME TypeInv, TypeOK', HeldApart, NoOverlap, Bookings
  PROVE  HeldApart' /\ NoOverlap'
<1>1. PICK a \in Appointments, row \in Appointment :
        /\ rows' = [rows EXCEPT ![a] = row]
        /\ ~MustWait(row) /\ ~Excluded(row, a, rows)
        /\ UNCHANGED <<pc, req>>
  BY BookingWrite
<1>2. rows'[a] = row /\ rows'[a] # None /\ \A b \in Appointments \ {a} : rows'[b] = rows[b]
  BY <1>1, PaymentAssumption DEF TypeInv, TypeOK
<1>3. ASSUME NEW t \in Sessions, pc'[t] \in AfterInsert, NEW x \in req[t].ids
      PROVE  ~Clash(Draft(req[t], x), row)
  <2>1. pc[t] \in AfterInsert /\ pc[t] \in InTransaction
    BY <1>1, <1>3 DEF AfterInsert, InTransaction
  <2>2. ~Clash(row, Draft(req[t], x)) /\ Draft(req[t], x) \in Appointment
    BY <1>1, <1>3, <2>1, Drafts DEF MustWait
  <2> QED
    BY <2>2, ClashSymmetric
<1>4. \A t \in Sessions : pc'[t] \in AfterInsert => pc[t] \in AfterInsert /\ req'[t] = req[t]
  BY <1>1
<1>5. HeldApart'
  BY <1>2, <1>3, <1>4, HeldKept
<1>6. ~Excluded(rows'[a], a, rows')
  BY <1>1, <1>2 DEF Excluded
<1>7. NoOverlap'
  BY <1>2, <1>6, ConstraintSuffices
<1> QED
  BY <1>5, <1>7

LEMMA NoOverlapStep ==
  ASSUME TypeInv, TypeOK', HeldApart, NoOverlap, [Next]_vars
  PROVE  HeldApart' /\ NoOverlap'
<1>1. ASSUME rows' = rows PROVE NoOverlap'
  BY <1>1, ConstraintSuffices
<1>2. CASE /\ rows' = rows
           /\ \A t \in Sessions : pc'[t] \in AfterInsert =>
                pc[t] \in AfterInsert /\ req'[t] = req[t]
  BY <1>1, <1>2, HeldKept
<1>3. ASSUME NEW s \in Sessions, InsertAppointments(s), ~Rollback(s)
      PROVE  HeldApart' /\ NoOverlap'
  BY <1>1, <1>3, InsertHeld
<1>4. ASSUME NEW s \in Sessions, Commit(s) PROVE HeldApart' /\ NoOverlap'
  BY <1>4, CommitHeld
<1>5. CASE Bookings
  BY <1>5, BookingHeld
<1> QED
  BY <1>2, <1>3, <1>4, <1>5, RowsWritten

----------------------------------------------------------------------------
(* Only overdue invoices fail.                                              *)

\* Which steps change the status of an invoice.
LEMMA StatusKept ==
  ASSUME TypeInv, [Next]_vars,
         \A s \in Sessions : ~Commit(s)
  PROVE  \A i \in Issued : invoices'[i].status = invoices[i].status
<1>1. CASE UNCHANGED vars
  BY <1>1 DEF vars
<1>2. ASSUME NEW s \in Sessions, Arrive(s) PROVE invoices' = invoices
  BY <1>2 DEF Arrive, CreateInvoice, Checkout, Callback, Begin
<1>3. ASSUME NEW s \in Sessions, Rollback(s) PROVE invoices' = invoices
  BY <1>3 DEF Rollback
<1>4. ASSUME NEW s \in Sessions, PayStep(s)
      PROVE  \A i \in Issued : invoices'[i].status = invoices[i].status
  BY <1>4, PayType DEF InvoicesKept, Issued
<1>5. ASSUME NEW s \in Sessions, Expire(s) \/ Statement(s) \/ Fail(s)
      PROVE  invoices' = invoices
  BY <1>5, CountType DEF Expire, Fail, Rollback, TypeInv
<1>6. CASE Elsewhere
  BY <1>6, ElsewhereType DEF InvoicesKept, Issued, TypeInv
<1> QED
  BY <1>1, <1>2, <1>3, <1>4, <1>5, <1>6 DEF Next, Elsewhere, Step, PayStep, Statement

LEMMA StatusStep ==
  ASSUME TypeInv, [Next]_vars, NEW i \in Issued
  PROVE  /\ invoices[i].status = "FAILED" => invoices'[i].status = "FAILED"
         /\ (invoices[i].status # "FAILED" /\ invoices'[i].status = "FAILED") =>
              /\ invoices[i].status = "PENDING"
              /\ now - invoices[i].created > PendingTime
<1>1. CASE \A s \in Sessions : ~Commit(s)
  BY <1>1, StatusKept
<1>2. ASSUME NEW s \in Sessions, Commit(s)
      PROVE  \/ invoices'[i].status = invoices[i].status
             \/ /\ invoices[i].status = "PENDING"
                /\ now - invoices[i].created > PendingTime
  <2>1. /\ pc[s] \in InTransaction /\ req[s] \in CreateRequest
        /\ req[s].at <= now /\ invoices[req[s].invoice] = None
        /\ req[s].expired \subseteq Overdue(req[s].at)
    BY <1>2, Requests DEF Commit, InTransaction, TypeInv, RequestsOK, CreatingOK
  <2>2. CASE i \notin req[s].expired
    BY <1>2, <2>1, <2>2, CommitType DEF Issued
  <2>3. CASE i \in req[s].expired
    <3>1. /\ invoices[i].status = "PENDING"
          /\ invoices[i].created < req[s].at - PendingTime
      BY <2>1, <2>3 DEF Overdue
    <3>2. invoices[i].created \in Nat /\ req[s].at \in Nat /\ now \in Nat
          /\ PendingTime \in Nat
      BY <2>1, IssuedInvoices, PaymentAssumption
         DEF Invoice, CreateRequest, TypeInv, TypeOK
    <3> QED
      BY <2>1, <3>1, <3>2
  <2> QED
    BY <2>2, <2>3
<1> QED
  BY <1>1, <1>2

----------------------------------------------------------------------------
LEMMA InitHolds == Init => IInv
<1> SUFFICES ASSUME Init PROVE IInv
  OBVIOUS
<1>1. TypeOK
  BY DEF Init, TypeOK
<1>2. RequestsOK /\ Apart
  BY DEF Init, RequestsOK, CreatingOK, PayingOK, Apart, InTransaction
<1>3. NoOverlap /\ HeldApart
  BY DEF Init, NoOverlap, HeldApart, AfterInsert, Booked
<1> QED
  BY <1>1, <1>2, <1>3 DEF IInv, TypeInv

\* What a createInvoice(), checkout() or paymentCallback() in flight knows stays
\* true whatever the others do, and no time is sold twice.
THEOREM Inductive == Spec => []IInv
<1>1. IInv /\ [Next]_vars => IInv'
  BY KnowledgeStep, NoOverlapStep DEF IInv, TypeInv
<1> QED
  BY InitHolds, <1>1, PTL DEF Spec

\* Every state is well typed: payment.service.ts never answers a request and
\* keeps it, and never writes an invoice that does not exist.
THEOREM TypeCorrect == Spec => []TypeOK
<1>1. IInv => TypeOK
  BY DEF IInv, TypeInv
<1> QED
  BY Inductive, <1>1, PTL

\* Whichever module writes an appointment, with or without the Advisor's lock,
\* no two that block time overlap.
THEOREM TimeSoldOnce == Spec => []NoOverlap
<1>1. IInv => NoOverlap
  BY DEF IInv
<1> QED
  BY Inductive, <1>1, PTL

\* An invoice becomes FAILED only from PENDING and after its time, and a failed
\* one stays failed.
THEOREM FailsOnlyWhenOverdue == Spec => FailsOnlyOverdue
<1>1. IInv /\ [Next]_vars =>
        [\A i \in Issued :
           /\ invoices[i].status = "FAILED" => invoices'[i].status = "FAILED"
           /\ (invoices[i].status # "FAILED" /\ invoices'[i].status = "FAILED") =>
                /\ invoices[i].status = "PENDING"
                /\ now - invoices[i].created > PendingTime]_vars
  BY StatusStep DEF IInv
<1> QED
  BY Inductive, <1>1, PTL DEF Spec, FailsOnlyOverdue

----------------------------------------------------------------------------
(* An invoice is whole.  A transaction in flight holds ids nobody uses and *)
(* the start times of one basket; nobody else holds one of its ids; and    *)
(* a junction row names a row and an invoice that exist.                   *)

Asked(r) == {r.starts[a] : a \in r.ids}

ReservesOK(s) ==
  pc[s] \in InTransaction =>
    /\ \A a \in req[s].ids : rows[a] = None
    /\ Asked(req[s]) \in Baskets

IdsApart ==
  \A s, t \in Sessions :
    (s # t /\ pc[s] \in InTransaction /\ pc[t] \in InTransaction) =>
      req[s].ids \cap req[t].ids = {}

LinksOK ==
  \A a \in Appointments :
    payer[a] # None => rows[a] # None /\ payer[a] \in Issued

WholeInv ==
  /\ \A s \in Sessions : ReservesOK(s)
  /\ IdsApart
  /\ LinksOK
  /\ InvoiceIsWhole

\* Every start of the basket is reserved: a one-to-one choice of ids from as
\* many leaves none out.
LEMMA WholeBasket ==
  ASSUME NEW basket \in Baskets, NEW ids, Cardinality(ids) = Cardinality(basket),
         NEW starts \in Bijections(ids, basket)
  PROVE  {starts[a] : a \in ids} = basket
<1>1. starts \in Injection(ids, basket)
  BY DEF Bijections, Injection, IsInjective
<1>2. IsFiniteSet(basket)
  BY PaymentAssumption
<1>3. starts \in Surjection(ids, basket)
  BY <1>1, <1>2, FS_Injection
<1> QED
  BY <1>3 DEF Surjection

\* A session leaves its transaction, or goes on in it for the same times.
SameTimes(s) ==
  /\ \A t \in Sessions \ {s} : pc'[t] = pc[t] /\ req'[t] = req[t]
  /\ \/ pc'[s] \notin InTransaction
     \/ /\ pc[s] \in InTransaction
        /\ req'[s].ids = req[s].ids /\ req'[s].starts = req[s].starts

Creation(s) ==
  \E advisee \in Advisees, service \in Services, basket \in Baskets,
     ids \in SUBSET Appointments, i \in Invoices :
    /\ Cardinality(ids) = Cardinality(basket)
    /\ \E starts \in Bijections(ids, basket) :
         CreateInvoice(s, advisee, service, starts, ids, i)

\* The steps that write no appointment and reserve none.
LEMMA OtherSteps ==
  ASSUME TypeInv, NEW s \in Sessions, Arrive(s) \/ Step(s), ~Creation(s), ~Commit(s)
  PROVE  UNCHANGED <<rows, payer>> /\ InvoicesKept /\ SameTimes(s)
<1> USE DEF SameTimes
<1>1. CASE \E i \in Invoices : Checkout(s, i) \/ Callback(s, i)
  BY <1>1, PayArrivalType, UnchangedKept DEF TypeInv, TypeOK
<1>2. CASE Rollback(s)
  <2>1. UNCHANGED <<now, rows, payer, invoices>> /\ pc'[s] = "idle"
        /\ \A t \in Sessions \ {s} : pc'[t] = pc[t] /\ req'[t] = req[t]
    BY <1>2, AnswerType DEF Rollback, TypeInv
  <2>2. InvoicesKept
    BY <2>1, UnchangedKept DEF TypeInv, TypeOK
  <2> QED
    BY <2>1, <2>2 DEF InTransaction
<1>3. CASE Expire(s)
  <2>1. /\ UNCHANGED <<now, rows, payer, invoices>>
        /\ pc[s] \in InTransaction /\ req[s] \in CreateRequest
    BY <1>3, Requests DEF Expire, InTransaction, TypeInv
  <2>2. req'[s] = [req[s] EXCEPT !.expired = Overdue(req[s].at)]
        /\ \A t \in Sessions \ {s} : pc'[t] = pc[t] /\ req'[t] = req[t]
    BY <1>3, ExpireType DEF TypeInv
  <2>3. req'[s].ids = req[s].ids /\ req'[s].starts = req[s].starts
    BY <2>1, <2>2 DEF CreateRequest
  <2>4. InvoicesKept
    BY <2>1, UnchangedKept DEF TypeInv, TypeOK
  <2> QED
    BY <2>1, <2>2, <2>3, <2>4
<1>4. CASE Statement(s)
  <2>1. /\ UNCHANGED <<now, rows, payer, invoices>>
        /\ \/ pc'[s] = "idle"
           \/ pc[s] \in InTransaction /\ req'[s] = req[s]
        /\ \A t \in Sessions \ {s} : pc'[t] = pc[t] /\ req'[t] = req[t]
    BY <1>4, CountType DEF TypeInv
  <2>2. InvoicesKept
    BY <2>1, UnchangedKept DEF TypeInv, TypeOK
  <2> QED
    BY <2>1, <2>2 DEF InTransaction
<1>5. CASE PayStep(s)
  <2>1. UNCHANGED payer
    BY <1>5 DEF PayStep, ChargeCard, SaveCharge, SaveDecline, AskProvider, RecordOutcome
  <2> QED
    BY <1>5, <2>1, PayType
<1>6. CASE Fail(s)
  BY <1>2, <1>6 DEF Fail
<1> QED
  BY <1>1, <1>2, <1>3, <1>4, <1>5, <1>6 DEF Arrive, Step, Creation, Statement, PayStep

\* What modules/bookings writes, and createInvoice() does not.
WithBuffer(row) == row.until = EndOf(row) + Buffer

\* Rows the invoices do not pay for may come and change, as long as no start
\* does and no reserved id is taken.
LEMMA WholeKept ==
  ASSUME WholeInv, TypeInv, TypeOK', InvoicesKept, UNCHANGED payer,
         UNCHANGED <<pc, req>> \/ \E s \in Sessions : SameTimes(s),
         \A a \in Appointments :
           \/ rows'[a] = rows[a]
           \/ /\ rows[a] = None /\ rows'[a] # None /\ Fresh(a)
              /\ WithBuffer(rows'[a])
           \/ /\ rows[a] # None /\ rows'[a] # None
              /\ rows'[a].start = rows[a].start
              /\ WithBuffer(rows[a]) => WithBuffer(rows'[a])
  PROVE  WholeInv'
<1>1. Issued' = Issued
  BY DEF InvoicesKept, Issued
<1>2. ASSUME NEW t \in Sessions, pc'[t] \in InTransaction
      PROVE  /\ pc[t] \in InTransaction /\ req[t] \in CreateRequest
             /\ req'[t].ids = req[t].ids /\ req'[t].starts = req[t].starts
  BY <1>2, Requests DEF SameTimes, TypeInv
<1>3. ASSUME NEW t \in Sessions PROVE ReservesOK(t)'
  <2> SUFFICES ASSUME pc'[t] \in InTransaction
               PROVE  /\ \A a \in req'[t].ids : rows'[a] = None
                      /\ Asked(req'[t]) \in Baskets
    BY DEF ReservesOK, InTransaction
  <2>1. /\ \A a \in req[t].ids : rows[a] = None /\ a \in Appointments /\ ~Fresh(a)
        /\ Asked(req[t]) \in Baskets
    BY <1>2 DEF WholeInv, ReservesOK, CreateRequest, Fresh
  <2>2. \A a \in req[t].ids : rows'[a] = None
    BY <2>1
  <2>3. Asked(req'[t]) = Asked(req[t])
    BY <1>2 DEF Asked
  <2> QED
    BY <1>2, <2>1, <2>2, <2>3
<1>4. IdsApart'
  <2> SUFFICES ASSUME NEW x \in Sessions, NEW y \in Sessions, x # y,
                      pc'[x] \in InTransaction, pc'[y] \in InTransaction
               PROVE  req'[x].ids \cap req'[y].ids = {}
    BY DEF IdsApart, InTransaction
  <2> QED
    BY <1>2 DEF WholeInv, IdsApart
<1>5. LinksOK'
  BY <1>1 DEF WholeInv, LinksOK
<1>6. ASSUME NEW i \in Issued'
      PROVE  {rows'[a].start : a \in PaidBy(i)'} \in Baskets
  <2>1. i \in Issued /\ i \in Invoices /\ i # None
    BY <1>1, PaymentAssumption DEF Issued
  <2>2. \A a \in Appointments : payer[a] = i =>
          rows[a] # None /\ rows'[a] # None /\ rows'[a].start = rows[a].start
    BY <2>1 DEF WholeInv, LinksOK
  <2>3. PaidBy(i)' = PaidBy(i) /\ \A a \in PaidBy(i) : rows'[a].start = rows[a].start
    BY <2>2 DEF PaidBy, Booked
  <2>4. {rows'[a].start : a \in PaidBy(i)'} = {rows[a].start : a \in PaidBy(i)}
    BY <2>3
  <2> QED
    BY <2>1, <2>4 DEF WholeInv, InvoiceIsWhole
<1>7. ASSUME NEW a \in Booked', payer'[a] = None
      PROVE  WithBuffer(rows'[a])
  BY <1>7 DEF Booked, WholeInv, InvoiceIsWhole, WithBuffer
<1> QED
  BY <1>3, <1>4, <1>5, <1>6, <1>7 DEF WholeInv, InvoiceIsWhole, WithBuffer, EndOf

LEMMA WholeCreation ==
  ASSUME WholeInv, TypeInv, NEW s \in Sessions, Creation(s)
  PROVE  WholeInv'
<1>0. PICK advisee \in Advisees, service \in Services, basket \in Baskets,
           ids \in SUBSET Appointments, i \in Invoices :
        /\ Cardinality(ids) = Cardinality(basket)
        /\ \E starts \in Bijections(ids, basket) :
             CreateInvoice(s, advisee, service, starts, ids, i)
  BY DEF Creation
<1>1. PICK starts \in Bijections(ids, basket) :
        CreateInvoice(s, advisee, service, starts, ids, i)
  BY <1>0
<1>2. /\ TypeOK' /\ UNCHANGED <<now, rows, invoices, payer, charges>>
      /\ pc[s] = "idle" /\ pc'[s] = "expire"
      /\ \A t \in Sessions \ {s} : pc'[t] = pc[t] /\ req'[t] = req[t]
  BY <1>1, CreateType DEF TypeInv
<1>3. /\ req'[s].ids = ids
      /\ req'[s].starts = [a \in Appointments |-> IF a \in ids THEN starts[a] ELSE None]
      /\ \A a \in ids : rows[a] = None
      /\ \A t \in Sessions : pc[t] \in InTransaction => req[t].ids \cap ids = {}
  BY <1>1 DEF CreateInvoice, Begin, Fresh, TypeInv, TypeOK
<1>4. \A a \in ids : req'[s].starts[a] = starts[a]
  BY <1>3
<1>5. Asked(req'[s]) = {starts[a] : a \in ids}
  BY <1>3, <1>4 DEF Asked
<1>6. Asked(req'[s]) \in Baskets
  <2>1. Cardinality(ids) = Cardinality(basket) /\ starts \in Bijections(ids, basket)
    BY <1>0
  <2>2. {starts[a] : a \in ids} = basket
    BY <2>1, WholeBasket
  <2> QED
    BY <1>5, <2>2
<1>7. ASSUME NEW t \in Sessions PROVE ReservesOK(t)'
  BY <1>2, <1>3, <1>6 DEF ReservesOK, WholeInv, InTransaction
<1>8. IdsApart'
  BY <1>2, <1>3 DEF IdsApart, WholeInv, InTransaction
<1>9. LinksOK' /\ InvoiceIsWhole'
  BY <1>2 DEF WholeInv, LinksOK, InvoiceIsWhole, Issued, PaidBy, Booked
<1> QED
  BY <1>7, <1>8, <1>9 DEF WholeInv

\* The commit writes all its rows, its invoice and its junction rows at once.
LEMMA WholeCommit ==
  ASSUME WholeInv, TypeInv, NEW s \in Sessions, Commit(s)
  PROVE  WholeInv'
<1> DEFINE r == req[s]
<1>1. /\ TypeOK' /\ pc[s] \in InTransaction /\ pc'[s] = "idle"
      /\ r \in CreateRequest
      /\ \A t \in Sessions \ {s} : pc'[t] = pc[t] /\ req'[t] = req[t]
      /\ invoices'[r.invoice] # None
      /\ \A i \in r.expired : invoices'[i] # None
      /\ \A i \in Invoices :
           i \notin r.expired \cup {r.invoice} => invoices'[i] = invoices[i]
  BY CommitType, Requests DEF Commit, InTransaction, TypeInv
<1>2. /\ r.ids \subseteq Appointments /\ r.invoice \in Invoices
      /\ r.starts \in [Appointments -> Nat \cup {None}]
      /\ \A a \in r.ids : rows[a] = None /\ r.starts[a] \in Nat
      /\ Asked(r) \in Baskets
      /\ r.expired \subseteq Issued
      /\ invoices[r.invoice] = None
  BY <1>1, OverdueIssued DEF WholeInv, ReservesOK, CreateRequest, TypeInv, RequestsOK, CreatingOK
<1>3. /\ rows' = [a \in Appointments |-> IF a \in r.ids THEN Draft(r, a) ELSE rows[a]]
      /\ payer' = [a \in Appointments |-> IF a \in r.ids THEN r.invoice ELSE payer[a]]
  BY DEF Commit, WithInserted
<1>4. \A a \in r.ids : /\ rows'[a] # None /\ rows'[a].start = r.starts[a]
                       /\ payer'[a] = r.invoice
  <2>1. \A a \in r.ids : Draft(r, a) \in Appointment
    BY <1>1, <1>2, DraftType
  <2>2. \A a \in r.ids : Draft(r, a).start = r.starts[a]
    BY DEF Draft
  <2> QED
    BY <1>2, <1>3, <2>1, <2>2, PaymentAssumption
<1>5. \A a \in Appointments \ r.ids : rows'[a] = rows[a] /\ payer'[a] = payer[a]
  BY <1>3
<1>6. Issued' = Issued \cup {r.invoice}
  BY <1>1, <1>2 DEF Issued
<1> HIDE DEF r
<1>7. ASSUME NEW t \in Sessions PROVE ReservesOK(t)'
  <2> SUFFICES ASSUME pc'[t] \in InTransaction
               PROVE  /\ \A a \in req'[t].ids : rows'[a] = None
                      /\ Asked(req'[t]) \in Baskets
    BY DEF ReservesOK, InTransaction
  <2>1. t # s /\ pc[t] \in InTransaction /\ req'[t] = req[t] /\ req[t] \in CreateRequest
    BY <1>1, Requests DEF InTransaction, TypeInv
  <2>2. req[t].ids \cap r.ids = {} /\ req[t].ids \subseteq Appointments
    BY <1>1, <2>1 DEF WholeInv, IdsApart, CreateRequest, r
  <2> QED
    BY <1>5, <2>1, <2>2 DEF WholeInv, ReservesOK
<1>8. IdsApart'
  BY <1>1 DEF IdsApart, WholeInv, InTransaction
<1>9. LinksOK'
  BY <1>4, <1>5, <1>6 DEF WholeInv, LinksOK
<1>10. ASSUME NEW i \in Issued'
       PROVE  {rows'[a].start : a \in PaidBy(i)'} \in Baskets
  <2>1. CASE i = r.invoice
    <3>1. r.invoice \notin Issued /\ r.invoice # None
      BY <1>2, PaymentAssumption DEF Issued
    <3>2. \A a \in Appointments : payer[a] # r.invoice
      BY <3>1 DEF WholeInv, LinksOK
    <3>3. PaidBy(i)' = r.ids
      BY <1>2, <1>4, <1>5, <2>1, <3>2 DEF PaidBy, Booked
    <3>4. {rows'[a].start : a \in PaidBy(i)'} = Asked(r)
      BY <1>4, <3>3 DEF Asked
    <3> QED
      BY <1>2, <3>4
  <2>2. CASE i # r.invoice
    <3>1. i \in Issued /\ i \in Invoices /\ i # None
      BY <1>6, <2>2, PaymentAssumption DEF Issued
    <3>2. \A a \in r.ids : a \notin PaidBy(i)
      BY <1>2 DEF PaidBy, Booked
    <3>3. PaidBy(i)' = PaidBy(i)
      BY <1>2, <1>4, <1>5, <2>2, <3>2 DEF PaidBy, Booked
    <3>4. \A a \in PaidBy(i) : rows'[a] = rows[a]
      BY <1>5, <3>2 DEF PaidBy, Booked
    <3>5. {rows'[a].start : a \in PaidBy(i)'} = {rows[a].start : a \in PaidBy(i)}
      BY <3>3, <3>4
    <3> QED
      BY <3>1, <3>5 DEF WholeInv, InvoiceIsWhole
  <2> QED
    BY <2>1, <2>2
<1>11. ASSUME NEW a \in Booked', payer'[a] = None
       PROVE  WithBuffer(rows'[a])
  <2>1. a \in Appointments /\ a \notin r.ids
    BY <1>2, <1>4, <1>11, PaymentAssumption DEF Booked
  <2>2. rows'[a] = rows[a] /\ payer[a] = None /\ a \in Booked
    BY <1>5, <1>11, <2>1 DEF Booked
  <2> QED
    BY <2>2 DEF WholeInv, InvoiceIsWhole, WithBuffer
<1> QED
  BY <1>7, <1>8, <1>9, <1>10, <1>11 DEF WholeInv, InvoiceIsWhole, WithBuffer, EndOf

LEMMA WholeElsewhere ==
  ASSUME WholeInv, TypeInv, Elsewhere
  PROVE  WholeInv'
<1>1. TypeOK' /\ InvoicesKept /\ UNCHANGED <<pc, req>>
  BY ElsewhereType DEF TypeInv
<1>2. UNCHANGED payer
  BY DEF Elsewhere, Authorise, Book, Cancel, Tick
<1>3. \A a \in Appointments :
        \/ rows'[a] = rows[a]
        \/ /\ rows[a] = None /\ rows'[a] # None /\ Fresh(a)
           /\ WithBuffer(rows'[a])
        \/ /\ rows[a] # None /\ rows'[a] # None
           /\ rows'[a].start = rows[a].start
           /\ WithBuffer(rows[a]) => WithBuffer(rows'[a])
  <2>1. CASE UNCHANGED rows
    BY <2>1
  <2>2. ASSUME NEW b \in Appointments, NEW service \in Services, NEW advisee \in Advisees,
               NEW start \in UNION Baskets, Book(b, service, advisee, start)
        PROVE  /\ \A a \in Appointments \ {b} : rows'[a] = rows[a]
               /\ rows[b] = None /\ rows'[b] # None /\ Fresh(b)
               /\ WithBuffer(rows'[b])
    <3> DEFINE row == [service |-> service, advisee |-> advisee, start |-> start,
                       until |-> start + Duration[service] + Buffer, blocks |-> TRUE]
    <3>1. row \in Appointment
      BY PaymentAssumption DEF Appointment
    <3>2. Fresh(b) /\ rows' = [rows EXCEPT ![b] = row]
      BY <2>2 DEF Book
    <3>3. WithBuffer(row)
      BY DEF WithBuffer, EndOf
    <3> HIDE DEF row
    <3>4. rows'[b] = row /\ \A a \in Appointments \ {b} : rows'[a] = rows[a]
      BY <3>2 DEF TypeInv, TypeOK
    <3> QED
      BY <3>1, <3>2, <3>3, <3>4, PaymentAssumption DEF Fresh
  <2>3. ASSUME NEW b \in Appointments, NEW blocks \in BOOLEAN, Cancel(b, blocks)
        PROVE  /\ \A a \in Appointments \ {b} : rows'[a] = rows[a]
               /\ rows[b] # None /\ rows'[b] # None /\ rows'[b].start = rows[b].start
               /\ WithBuffer(rows[b]) => WithBuffer(rows'[b])
    <3> DEFINE row == [rows[b] EXCEPT !.blocks = blocks]
    <3>1. /\ rows[b] \in Appointment /\ rows[b] # None
          /\ rows' = [rows EXCEPT ![b] = row]
      BY <2>3, BookedRows DEF Cancel, Booked, TypeInv
    <3>2. row \in Appointment /\ row.start = rows[b].start
          /\ (WithBuffer(rows[b]) => WithBuffer(row))
      BY <3>1 DEF Appointment, WithBuffer, EndOf
    <3> HIDE DEF row
    <3>3. rows'[b] = row /\ \A a \in Appointments \ {b} : rows'[a] = rows[a]
      BY <3>1 DEF TypeInv, TypeOK
    <3> QED
      BY <3>1, <3>2, <3>3, PaymentAssumption
  <2>4. UNCHANGED rows
        \/ (\E b \in Appointments, service \in Services, advisee \in Advisees :
              \E start \in UNION Baskets : Book(b, service, advisee, start))
        \/ (\E b \in Appointments, blocks \in BOOLEAN : Cancel(b, blocks))
    BY DEF Elsewhere, Authorise, Tick
  <2> QED
    BY <2>1, <2>2, <2>3, <2>4
<1> QED
  BY <1>1, <1>2, <1>3, WholeKept

LEMMA WholeStep ==
  ASSUME WholeInv, TypeInv, TypeOK', [Next]_vars
  PROVE  WholeInv'
<1>1. CASE UNCHANGED vars
  <2>1. UNCHANGED <<now, rows, invoices, payer, pc, req>> /\ now \in Nat
    BY <1>1 DEF vars, TypeInv, TypeOK
  <2>2. InvoicesKept
    BY <2>1, UnchangedKept DEF TypeInv
  <2> QED
    BY <2>1, <2>2, WholeKept
<1>2. CASE Elsewhere
  BY <1>2, WholeElsewhere
<1>3. ASSUME NEW s \in Sessions, Arrive(s) \/ Step(s) PROVE WholeInv'
  BY <1>3, OtherSteps, WholeKept, WholeCreation, WholeCommit
<1> QED
  BY <1>1, <1>2, <1>3 DEF Next, Elsewhere

\* An invoice stands for every time its client asked for, or for none of them:
\* whatever the other requests commit, and wherever its transaction stops.
THEOREM NoHalfInvoice == Spec => []InvoiceIsWhole
<1>1. Init => WholeInv
  BY PaymentAssumption DEF Init, WholeInv, ReservesOK, IdsApart, LinksOK, InvoiceIsWhole,
     InTransaction, Issued, Booked
<1>2. IInv /\ IInv' /\ WholeInv /\ [Next]_vars => WholeInv'
  BY WholeStep DEF IInv, TypeInv
<1>3. WholeInv => InvoiceIsWhole
  BY DEF WholeInv
<1> QED
  BY Inductive, <1>1, <1>2, <1>3, PTL DEF Spec
=============================================================================
