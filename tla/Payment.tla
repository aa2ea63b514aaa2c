------------------------------ MODULE Payment ------------------------------
(***************************************************************************)
(* Invoices, charges and the appointments an invoice reserves:             *)
(* modules/payment, beside the bookings that modules/bookings makes and    *)
(* cancels in the same table.                                              *)
(*                                                                         *)
(* createInvoice() is one READ COMMITTED transaction whose statements each *)
(* see what others committed before and what it wrote itself; its pc says  *)
(* what it has inserted and not committed.  checkout() and                 *)
(* paymentCallback() are a read, a call of the payment provider and an     *)
(* update, with no transaction around them.  `rows', `invoices' and        *)
(* `payer' are the COMMITTED tables; `charges' is the provider's own book. *)
(***************************************************************************)
EXTENDS Integers, FiniteSets

CONSTANTS
  Sessions,      \* requests in flight at once (bound)
  Appointments,  \* ids of service_appointments rows (bound)
  Invoices,      \* ids of service_invoices rows (bound)
  Charges,       \* ids of charges at the provider (bound)
  Advisees, Services, Advisors,
  OwnerOf,       \* services.advisorId
  Duration,      \* services.durationMinutes
  Baskets,       \* sets of start times a client asks for (bound)
  Buffer,        \* advisor_global_availability.bufferMinutes
  PendingLimit,  \* PaymentConfig.invoice.pendingLimit
  PendingTime,   \* PaymentConfig.invoice.pendingLimitSeconds
  MaxTime,       \* the clock stops here (bound)
  None

VARIABLES
  now,       \* the clock of the server and of PostgreSQL
  rows,      \* service_appointments, None while the id is unused
  invoices,  \* service_invoices, None while the id is unused
  payer,     \* service_appointments_on_service_invoices: the invoice, or None
  charges,   \* what the provider knows of a charge, None if it does not exist
  pc, req

vars == <<now, rows, invoices, payer, charges, pc, req>>

Appointment == [service : Services, advisee : Advisees, start : Nat,
                until : Nat, blocks : BOOLEAN]
Invoice == [created : Nat,
            status : {"PENDING", "HELD_IN_ESCROW", "RELEASED", "REFUNDED", "FAILED"},
            charge : Charges \cup {None}, paidAt : Nat \cup {None}]
Charge == [invoice : Invoices, outcome : {"pending", "success", "failed"}]

\* A createInvoice() in flight.  at: now() of the transaction; ids, starts: the
\* appointments it is to insert; expired: the invoices its first statement failed.
CreateRequest ==
  [at : Nat, advisee : Advisees, service : Services, ids : SUBSET Appointments,
   starts : [Appointments -> Nat \cup {None}], invoice : Invoices,
   expired : SUBSET Invoices]

\* A checkout() or paymentCallback() in flight.  paid: the invoice it read had
\* a paidAt.
PayRequest == [invoice : Invoices, charge : Charges \cup {None}, paid : BOOLEAN]

InTransaction == {"expire", "count", "overlap", "insert", "invoice", "link", "commit"}

\* The appointments are inserted and not committed.
AfterInsert == {"invoice", "link", "commit"}

ASSUME PaymentAssumption ==
  /\ OwnerOf \in [Services -> Advisors]
  /\ Duration \in [Services -> Nat \ {0}]
  /\ Baskets \subseteq SUBSET Nat /\ {} \notin Baskets
  /\ \A basket \in Baskets : IsFiniteSet(basket)
  /\ Buffer \in Nat /\ PendingLimit \in Nat /\ PendingTime \in Nat
  /\ MaxTime \in Nat
  /\ None \notin Nat \cup Appointment \cup Invoice \cup Charge \cup CreateRequest
               \cup PayRequest \cup Invoices \cup Charges

----------------------------------------------------------------------------
Booked == {a \in Appointments : rows[a] # None}
Issued == {i \in Invoices : invoices[i] # None}
PaidBy(i) == {a \in Booked : payer[a] = i}

Overlaps(start, end, otherStart, otherEnd) ==
  start < otherEnd /\ end > otherStart

EndOf(row) == row.start + Duration[row.service]

\* Variant: the database without its exclusion constraint.
NeverExcluded(row, id, table) == row # row /\ id = id /\ table = table

\* Two rows the exclusion constraint of service_appointments keeps apart.
Clash(row, other) ==
  /\ row.blocks /\ other.blocks
  /\ OwnerOf[row.service] = OwnerOf[other.service]
  /\ Overlaps(row.start, row.until, other.start, other.until)

\* The constraint refuses a row beside these ones.
Excluded(row, id, table) ==
  \E b \in Appointments \ {id} : table[b] # None /\ Clash(row, table[b])

\* unavailableUntil is the end itself: no buffer.
Draft(r, a) ==
  [service |-> r.service, advisee |-> r.advisee, start |-> r.starts[a],
   until |-> r.starts[a] + Duration[r.service], blocks |-> TRUE]

\* The constraint cannot tell yet: another transaction inserted a row that
\* clashes and has not ended.
MustWait(row) ==
  \E s \in Sessions : /\ pc[s] \in AfterInsert
                      /\ \E a \in req[s].ids : Clash(row, Draft(req[s], a))

\* An uncommitted UPDATE keeps the invoice from every other writer.
RowLocked(i) ==
  \E s \in Sessions : /\ pc[s] \in InTransaction
                      /\ i \in req[s].expired

Fresh(a) == rows[a] = None /\ \A s \in Sessions :
              (pc[s] \in InTransaction) => a \notin req[s].ids
FreshInvoice(i) == invoices[i] = None /\ \A s \in Sessions :
              (pc[s] \in InTransaction) => req[s].invoice # i

Answer(s) ==
  /\ pc' = [pc EXCEPT ![s] = "idle"]
  /\ req' = [req EXCEPT ![s] = None]

Go(s, step) == pc' = [pc EXCEPT ![s] = step]

Begin(s, step, request) ==
  /\ pc[s] = "idle"
  /\ Go(s, step)
  /\ req' = [req EXCEPT ![s] = request]
  /\ UNCHANGED <<now, rows, invoices, payer, charges>>

----------------------------------------------------------------------------
(* createInvoice(): each statement a step.                                 *)

CreateInvoice(s, advisee, service, starts, ids, i) ==
  /\ DOMAIN starts = ids
  /\ \A a \in ids : Fresh(a)
  /\ FreshInvoice(i)
  /\ Begin(s, "expire",
           [at |-> now, advisee |-> advisee,
            service |-> service, ids |-> ids,
            starts |-> [a \in Appointments |-> IF a \in ids THEN starts[a] ELSE None],
            invoice |-> i, expired |-> {}])

\* Variant: an invoice expires the moment its time is up, not after it.
OverdueAtOnce(at) ==
  {i \in Issued : /\ invoices[i].status = "PENDING"
                  /\ invoices[i].created <= at - PendingTime}

Overdue(at) ==
  {i \in Issued : /\ invoices[i].status = "PENDING"
                  /\ invoices[i].created < at - PendingTime}

\* UPDATE ... SET status = 'FAILED': every overdue invoice, of whichever
\* Advisee.  It waits for the ones another transaction is failing.
Expire(s) ==
  /\ pc[s] = "expire"
  /\ \A i \in Overdue(req[s].at) : ~RowLocked(i)
  /\ req' = [req EXCEPT ![s].expired = Overdue(req[s].at)]
  /\ Go(s, "count")
  /\ UNCHANGED <<now, rows, invoices, payer, charges>>

Pending(advisee) ==
  {i \in Issued : /\ invoices[i].status = "PENDING"
                  /\ \E a \in PaidBy(i) : rows[a].advisee = advisee}

Rollback(s) == Answer(s) /\ UNCHANGED <<now, rows, invoices, payer, charges>>

\* The count sees this transaction's own expiries.
CountPending(s) ==
  /\ pc[s] = "count"
  /\ IF Cardinality(Pending(req[s].advisee) \ req[s].expired) >= PendingLimit
       THEN Rollback(s)
       ELSE /\ Go(s, "overlap")
            /\ UNCHANGED <<now, rows, invoices, payer, charges, req>>

\* Every appointment of the Service counts, in whatever state.
CheckOverlap(s) ==
  LET r == req[s]
  IN  /\ pc[s] = "overlap"
      /\ IF \E a \in r.ids, b \in Booked :
              /\ rows[b].service = r.service
              /\ Overlaps(r.starts[a], r.starts[a] + Duration[r.service],
                          rows[b].start, EndOf(rows[b]))
           THEN Rollback(s)
           ELSE /\ Go(s, "insert")
                /\ UNCHANGED <<now, rows, invoices, payer, charges, req>>

\* service_appointments as createInvoice() s sees it with its own rows in.
WithInserted(s) ==
  [a \in Appointments |-> IF a \in req[s].ids THEN Draft(req[s], a) ELSE rows[a]]

\* Variant: the appointments are inserted outside the transaction.
InsertThroughPool(s) ==
  /\ pc[s] = "insert"
  /\ \A a \in req[s].ids : ~MustWait(Draft(req[s], a))
  /\ IF \E a \in req[s].ids : Excluded(Draft(req[s], a), a, WithInserted(s))
       THEN Rollback(s)
       ELSE /\ rows' = WithInserted(s)
            /\ Go(s, "invoice")
            /\ UNCHANGED <<now, invoices, payer, charges, req>>

\* One INSERT of every appointment.  It waits for the transactions that
\* inserted a clashing row, and is refused if one of them committed.
InsertAppointments(s) ==
  /\ pc[s] = "insert"
  /\ \A a \in req[s].ids : ~MustWait(Draft(req[s], a))
  /\ IF \E a \in req[s].ids : Excluded(Draft(req[s], a), a, WithInserted(s))
       THEN Rollback(s)
       ELSE /\ Go(s, "invoice")
            /\ UNCHANGED <<now, rows, invoices, payer, charges, req>>

NewInvoice(at) == [created |-> at, status |-> "PENDING", charge |-> None,
                   paidAt |-> None]

\* The invoice, and then the junction rows: new keys, which nobody disputes.
InsertInvoice(s) ==
  /\ pc[s] = "invoice"
  /\ Go(s, "link")
  /\ UNCHANGED <<now, rows, invoices, payer, charges, req>>

LinkAppointments(s) ==
  /\ pc[s] = "link"
  /\ Go(s, "commit")
  /\ UNCHANGED <<now, rows, invoices, payer, charges, req>>

\* COMMIT: what the statements wrote is in the tables.
Commit(s) ==
  LET r == req[s]
  IN  /\ pc[s] = "commit"
      /\ rows' = WithInserted(s)
      /\ invoices' = [i \in Invoices |->
            IF i = r.invoice THEN NewInvoice(r.at)
            ELSE IF i \in r.expired THEN [invoices[i] EXCEPT !.status = "FAILED"]
            ELSE invoices[i]]
      /\ payer' = [a \in Appointments |-> IF a \in r.ids THEN r.invoice ELSE payer[a]]
      /\ Answer(s)
      /\ UNCHANGED <<now, charges>>

----------------------------------------------------------------------------
(* checkout(): nothing but the invoice's existence and owner is checked.   *)

Checkout(s, i) ==
  /\ i \in Issued
  /\ Begin(s, "charge", [invoice |-> i, charge |-> None,
                         paid |-> FALSE])

\* charges.create(): the provider makes a charge that waits for 3-D Secure, or
\* declines it at once; or the call fails, before or after it made one.
ChargeCard(s) ==
  /\ pc[s] = "charge"
  /\ \/ \E c \in Charges :
          /\ charges[c] = None
          /\ \E outcome \in {"pending", "failed"} :
               charges' = [charges EXCEPT ![c] =
                             [invoice |-> req[s].invoice, outcome |-> outcome]]
          /\ \/ /\ charges'[c].outcome = "pending"
                /\ req' = [req EXCEPT ![s].charge = c]
                /\ Go(s, "save")
             \/ /\ Go(s, "decline")
                /\ UNCHANGED req
     \/ /\ Go(s, "decline")
        /\ UNCHANGED <<charges, req>>
  /\ UNCHANGED <<now, rows, invoices, payer>>

SaveCharge(s) ==
  /\ pc[s] = "save"
  /\ ~RowLocked(req[s].invoice)
  /\ invoices' = [invoices EXCEPT ![req[s].invoice].charge = req[s].charge,
                                  ![req[s].invoice].paidAt = None]
  /\ Answer(s)
  /\ UNCHANGED <<now, rows, payer, charges>>

\* A declined charge dates the failure; the recorded charge stays.
SaveDecline(s) ==
  /\ pc[s] = "decline"
  /\ ~RowLocked(req[s].invoice)
  /\ invoices' = [invoices EXCEPT ![req[s].invoice].paidAt = now]
  /\ Answer(s)
  /\ UNCHANGED <<now, rows, payer, charges>>

----------------------------------------------------------------------------
(* paymentCallback(): the page 3-D Secure returns to.                       *)

Callback(s, i) ==
  /\ i \in Issued /\ invoices[i].charge # None
  /\ Begin(s, "ask", [invoice |-> i,
                      charge |-> invoices[i].charge,
                      paid |-> invoices[i].paidAt # None])

\* The adapter knows two answers.  A charge that still waits for 3-D Secure has
\* no failure code and is a success; a failed call is a failed charge.
StatusesOf(outcome) ==
  {"failed"} \cup (IF outcome = "failed" THEN {} ELSE {"success"})

AskProvider(s) ==
  /\ pc[s] = "ask"
  /\ \E status \in StatusesOf(charges[req[s].charge].outcome) :
       IF status # "pending" /\ ~req[s].paid
         THEN Go(s, "record") /\ UNCHANGED req
         ELSE Answer(s)
  /\ UNCHANGED <<now, rows, invoices, payer, charges>>

RecordOutcome(s) ==
  /\ pc[s] = "record"
  /\ ~RowLocked(req[s].invoice)
  /\ invoices' = [invoices EXCEPT ![req[s].invoice].paidAt = now]
  /\ Answer(s)
  /\ UNCHANGED <<now, rows, payer, charges>>

\* An exception, a lost connection or a crash.
Fail(s) == pc[s] # "idle" /\ Rollback(s)

----------------------------------------------------------------------------
(* The provider, the clock and modules/bookings.                           *)

\* The card holder completes or abandons 3-D Secure.
Authorise(c, outcome) ==
  /\ charges[c] # None /\ charges[c].outcome = "pending"
  /\ charges' = [charges EXCEPT ![c].outcome = outcome]
  /\ UNCHANGED <<now, rows, invoices, payer, pc, req>>

Tick ==
  /\ now < MaxTime
  /\ now' = now + 1
  /\ UNCHANGED <<rows, invoices, payer, charges, pc, req>>

\* A booking made by createWithSchedulingLock(), the buffer included.
Book(a, service, advisee, start) ==
  LET row == [service |-> service, advisee |-> advisee, start |-> start,
              until |-> start + Duration[service] + Buffer, blocks |-> TRUE]
  IN  /\ Fresh(a)
      /\ ~MustWait(row) /\ ~Excluded(row, a, rows)
      /\ rows' = [rows EXCEPT ![a] = row]
      /\ UNCHANGED <<now, invoices, payer, charges, pc, req>>

\* A cancellation gives the time back or keeps it; the one of a reschedule may
\* take back what another cancellation gave, if nobody took it since.
Cancel(a, blocks) ==
  LET row == [rows[a] EXCEPT !.blocks = blocks]
  IN  /\ a \in Booked
      /\ ~MustWait(row) /\ ~Excluded(row, a, rows)
      /\ rows' = [rows EXCEPT ![a] = row]
      /\ UNCHANGED <<now, invoices, payer, charges, pc, req>>

----------------------------------------------------------------------------
Init ==
  /\ now = 0
  /\ rows = [a \in Appointments |-> None]
  /\ invoices = [i \in Invoices |-> None]
  /\ payer = [a \in Appointments |-> None]
  /\ charges = [c \in Charges |-> None]
  /\ pc = [s \in Sessions |-> "idle"]
  /\ req = [s \in Sessions |-> None]

Bijections(ids, starts) ==
  {f \in [ids -> starts] : \A x, y \in ids : x # y => f[x] # f[y]}

Arrive(s) ==
  \/ \E advisee \in Advisees, service \in Services, basket \in Baskets,
        ids \in SUBSET Appointments, i \in Invoices :
       /\ Cardinality(ids) = Cardinality(basket)
       /\ \E starts \in Bijections(ids, basket) :
            CreateInvoice(s, advisee, service, starts, ids, i)
  \/ \E i \in Invoices : Checkout(s, i) \/ Callback(s, i)

Step(s) ==
  \/ Expire(s) \/ CountPending(s) \/ CheckOverlap(s)
  \/ InsertAppointments(s) \/ InsertInvoice(s) \/ LinkAppointments(s) \/ Commit(s)
  \/ ChargeCard(s) \/ SaveCharge(s) \/ SaveDecline(s)
  \/ AskProvider(s) \/ RecordOutcome(s)
  \/ Fail(s)

Next ==
  \/ \E s \in Sessions : Arrive(s) \/ Step(s)
  \/ \E c \in Charges, outcome \in {"success", "failed"} : Authorise(c, outcome)
  \/ \E a \in Appointments, service \in Services, advisee \in Advisees :
       \E start \in UNION Baskets : Book(a, service, advisee, start)
  \/ \E a \in Appointments, blocks \in BOOLEAN : Cancel(a, blocks)
  \/ Tick

Spec == Init /\ [][Next]_vars

----------------------------------------------------------------------------
TypeOK ==
  /\ now \in Nat
  /\ rows \in [Appointments -> Appointment \cup {None}]
  /\ invoices \in [Invoices -> Invoice \cup {None}]
  /\ payer \in [Appointments -> Invoices \cup {None}]
  /\ charges \in [Charges -> Charge \cup {None}]
  /\ pc \in [Sessions -> InTransaction \cup
             {"idle", "charge", "save", "decline", "ask", "record"}]
  /\ req \in [Sessions -> CreateRequest \cup PayRequest \cup {None}]
  /\ \A s \in Sessions :
       req[s] \in IF pc[s] = "idle" THEN {None}
                  ELSE IF pc[s] \in InTransaction THEN CreateRequest
                  ELSE PayRequest

\* Bookings and invoiced appointments never overlap, whichever module wrote
\* them: the exclusion constraint, not the payment, claims the slot
\* (ER.README.md "Booking is created before payment").
NoOverlap ==
  \A a, b \in Booked :
    (/\ a # b /\ rows[a].blocks /\ rows[b].blocks
     /\ OwnerOf[rows[a].service] = OwnerOf[rows[b].service]) =>
      ~Overlaps(rows[a].start, rows[a].until, rows[b].start, rows[b].until)

\* An invoice is for all the times its client asked for, and no appointment is
\* reserved without its invoice: wherever createInvoice() is refused, fails or
\* crashes between its inserts, the rows it had inserted leave no trace.  An
\* appointment without an invoice is a booking, which keeps the buffer.
InvoiceIsWhole ==
  /\ \A i \in Issued : {rows[a].start : a \in PaidBy(i)} \in Baskets
  /\ \A a \in Booked : payer[a] = None => rows[a].until = EndOf(rows[a]) + Buffer

\* An invoice fails only if it waited for payment and its time is over, by the
\* clock of whoever looks, and a failed one stays failed, whatever creation,
\* checkout or callback is in flight (createInvoice() fails everyone's).
FailsOnlyOverdue ==
  [][\A i \in Issued :
       /\ invoices[i].status = "FAILED" => invoices'[i].status = "FAILED"
       /\ (invoices[i].status # "FAILED" /\ invoices'[i].status = "FAILED") =>
            /\ invoices[i].status = "PENDING"
            /\ now - invoices[i].created > PendingTime]_vars

\* An invoice whose successful charge was recorded left PENDING for
\* HELD_IN_ESCROW (ER.README.md "SERVICE_INVOICES.status runs PENDING ->
\* HELD_IN_ESCROW -> RELEASED | REFUNDED | FAILED").  The code does not keep it:
\* paymentCallback() dates the charge and writes no status.
PaidIsHeld ==
  \A i \in Issued :
    (/\ invoices[i].charge # None /\ invoices[i].paidAt # None
     /\ charges[invoices[i].charge].outcome = "success") =>
      invoices[i].status \notin {"PENDING", "FAILED"}

\* One person has at most PendingLimit invoices waiting to be paid
\* (createInvoice(): exceedPendingInvoiceLimit).
PendingLimitHolds ==
  \A advisee \in Advisees :
    Cardinality(Pending(advisee) \ Overdue(now)) <= PendingLimit

\* The callback records nothing for a charge that still waits for 3-D Secure
\* (payment.service.spec.ts "records nothing while the charge is still pending").
NothingRecordedWhilePending ==
  [][\A s \in Sessions :
       (pc[s] = "record" /\ invoices' # invoices /\ pc'[s] = "idle") =>
         charges[req[s].charge].outcome # "pending"]_vars
=============================================================================
