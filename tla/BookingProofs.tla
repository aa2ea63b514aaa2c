--------------------------- MODULE BookingProofs ---------------------------
(***************************************************************************)
(* Theorems about Booking, for any number of requests, bookings, Advisors  *)
(* and Services.                                                           *)
(***************************************************************************)
EXTENDS Booking, FiniteSetTheorems, WellFoundedInduction, TLAPS

USE DEF Times

----------------------------------------------------------------------------
(* The inductive invariant.  NoOverlap alone is not inductive: an insert    *)
(* checks one row against the table it sees, so the proof must know that   *)
(* nobody else changes that Advisor's table meanwhile (HoldsLock), that    *)
(* the id is still unused (IdsAreFresh), that a cancellation never makes a *)
(* row block again (LiveRowsBlock), and that the original a reschedule is  *)
(* about to cancel still fits (OriginalsFit).                              *)

RequestOK(s) ==
  /\ pc[s] = "apply" => req[s].kind = "cancel"
  /\ pc[s] # "apply" => req[s].kind \in {"create", "reschedule"}
  /\ pc[s] \in {"reselect", "cancelOriginal"} => req[s].kind = "reschedule"
  /\ req[s].row.blocks
  /\ req[s].kind # "create" =>
       /\ req[s].target \in Committed
       /\ req[s].cancellation \in Cancellation
       /\ rows[req[s].target].service = req[s].row.service

RequestsOK == \A s \in Sessions : pc[s] # "idle" => RequestOK(s)

HoldsLock ==
  \A s \in Sessions : pc[s] \in InTransaction => lock[AdvisorOf(req[s].row)] = s

Inserts(s) == pc[s] # "idle" /\ req[s].kind # "cancel"

IdsAreFresh ==
  \A s \in Sessions :
    Inserts(s) => /\ rows[req[s].new] = None
                  /\ \A t \in Sessions : pc[t] # "idle" /\ t # s => req[t].new # req[s].new

LiveRowsBlock ==
  \A b \in Committed : rows[b].state # "CANCELLED" => rows[b].blocks

OriginalsFit ==
  \A s \in Sessions :
    (pc[s] \in {"context", "derive", "buffer", "insert"} /\ req[s].kind = "reschedule") =>
      LET b == req[s].target
      IN  ~Excluded(Cancelled(rows[b], req[s].cancellation), b, rows)

TypeInv == TypeOK /\ RequestsOK
IInv == /\ TypeInv
        /\ HoldsLock
        /\ IdsAreFresh
        /\ LiveRowsBlock
        /\ OriginalsFit
        /\ NoOverlap

LEMMA NewRowType ==
  ASSUME NEW service \in Services, NEW advisee \in Advisees, NEW start \in Nat
  PROVE  /\ NewRow(service, advisee, start) \in Row
         /\ NewRow(service, advisee, start).blocks
         /\ AdvisorOf(NewRow(service, advisee, start)) = OwnerOf[service]
BY ConstantsAssumption DEF NewRow, Row, States, AdvisorOf

LEMMA CancelledType ==
  ASSUME NEW row \in Row, NEW c \in Cancellation
  PROVE  /\ Cancelled(row, c) \in Row
         /\ Cancelled(row, c).service = row.service
         /\ Cancelled(row, c).start = row.start
         /\ Cancelled(row, c).until = row.until
         /\ Cancelled(row, c).blocks = c.blocks
         /\ Cancelled(row, c).state = "CANCELLED"
BY DEF Cancelled, Row, Cancellation, States

LEMMA AdvisorType == ASSUME NEW row \in Row PROVE AdvisorOf(row) \in Advisors
BY ConstantsAssumption DEF AdvisorOf, Row

LEMMA StartsAreTimes == Starts \subseteq Nat
BY ConstantsAssumption DEF Starts

LEMMA CommittedRows ==
  ASSUME TypeOK, NEW b \in Committed
  PROVE  b \in Bookings /\ rows[b] \in Row
BY DEF TypeOK, Committed

\* A request about a booking, of its type.
LEMMA AboutType ==
  ASSUME TypeOK, NEW b \in Committed, NEW new \in Bookings, NEW start \in Nat,
         NEW kind \in {"cancel", "reschedule"}
  PROVE  /\ About(kind, b, new, start) \in Request
         /\ CancellationValues(rows[b]) \in Cancellation
<1>1. rows[b] \in Row /\ b \in Bookings
  BY CommittedRows
<1>2. CancellationValues(rows[b]) \in Cancellation
  BY <1>1, AdvisorType, ConstantsAssumption
     DEF CancellationValues, Cancellation, ReopensAvailability, TypeOK, Policy, Row
<1>3. rows[b].service \in Services /\ rows[b].advisee \in Advisees
  BY <1>1 DEF Row
<1>4. NewRow(rows[b].service, rows[b].advisee, start) \in Row
  BY <1>3, NewRowType
<1> QED
  BY <1>1, <1>2, <1>4 DEF About, Request

LEMMA CreateRequestType ==
  ASSUME NEW new \in Bookings, NEW service \in Services,
         NEW advisee \in Advisees, NEW start \in Nat
  PROVE  [kind |-> "create", target |-> new, new |-> new,
          row |-> NewRow(service, advisee, start), cancellation |-> None,
          global |-> None, seen |-> {}] \in Request
BY NewRowType DEF Request

----------------------------------------------------------------------------
(* Type correctness, with what a request in flight knows of its booking.    *)

\* The rows a step leaves committed stay, with their Service.
RowsStay ==
  \A b \in Bookings : rows[b] # None => /\ rows'[b] # None
                                        /\ rows'[b].service = rows[b].service

\* A step touches the requests of one session only.
OnlySession(s) ==
  \A t \in Sessions \ {s} : pc'[t] = pc[t] /\ req'[t] = req[t]

LEMMA OthersOK ==
  ASSUME TypeInv, RowsStay, NEW s \in Sessions, OnlySession(s),
         pc'[s] # "idle" => RequestOK(s)'
  PROVE  RequestsOK'
<1> SUFFICES ASSUME NEW t \in Sessions, pc'[t] # "idle", t # s
             PROVE  RequestOK(t)'
  BY DEF RequestsOK
<1>1. pc[t] = pc'[t] /\ req[t] = req'[t] /\ RequestOK(t)
  BY DEF OnlySession, TypeInv, RequestsOK
<1>2. req[t].target \in Committed =>
        /\ req[t].target \in Committed'
        /\ rows'[req[t].target].service = rows[req[t].target].service
  BY DEF RowsStay, Committed
<1> QED
  BY <1>1, <1>2 DEF RequestOK

LEMMA RowsStayUnchanged == rows' = rows => RowsStay
BY DEF RowsStay

LEMMA AnswerType ==
  ASSUME TypeOK, NEW s \in Sessions, Answer(s)
  PROVE  /\ pc' \in [Sessions -> {"idle", "lock", "apply"} \cup InTransaction]
         /\ req' \in [Sessions -> Request \cup {None}]
         /\ \A t \in Sessions : pc'[t] # "idle" => req'[t] \in Request
         /\ pc'[s] = "idle"
         /\ OnlySession(s)
BY DEF TypeOK, Answer, OnlySession

LEMMA BeginType ==
  ASSUME TypeInv, NEW s \in Sessions, NEW request \in Request,
         NEW step \in {"lock", "apply"}, Begin(s, step, request),
         step = "apply" => request.kind = "cancel",
         step = "lock" => request.kind \in {"create", "reschedule"},
         request.row.blocks,
         request.kind # "create" =>
           /\ request.target \in Committed
           /\ request.cancellation \in Cancellation
           /\ rows[request.target].service = request.row.service
  PROVE  TypeInv'
<1>1. TypeOK'
  BY DEF TypeInv, TypeOK, Begin, tables, InTransaction
<1>2. rows' = rows /\ OnlySession(s) /\ pc'[s] = step /\ req'[s] = request
  BY DEF Begin, tables, TypeInv, TypeOK, OnlySession
<1>3. Committed' = Committed
  BY <1>2 DEF Committed
<1>4. RequestOK(s)'
  BY <1>2, <1>3 DEF RequestOK
<1> QED
  BY <1>1, <1>2, <1>4, OthersOK, RowsStayUnchanged DEF TypeInv

LEMMA RollbackType ==
  ASSUME TypeInv, NEW s \in Sessions, Rollback(s)
  PROVE  TypeInv'
<1>1. lock' \in [Advisors -> Sessions \cup {None}]
  BY DEF TypeInv, TypeOK, Rollback, Unlock
<1>2. TypeOK'
  BY <1>1, AnswerType DEF TypeInv, TypeOK, Rollback, tables
<1> QED
  BY <1>2, AnswerType, OthersOK, RowsStayUnchanged DEF TypeInv, Rollback, tables

LEMMA TransitionType ==
  ASSUME TypeInv, NEW b \in Bookings, NEW target \in States,
         Transition(b, target), told' \in [Bookings -> Nat]
  PROVE  TypeInv'
<1>1. rows[b] \in Row
  BY CommittedRows DEF Transition, TypeInv
<1>2. [rows[b] EXCEPT !.state = target] \in Row
  BY <1>1 DEF Row
<1>3. rows' = [rows EXCEPT ![b] = [rows[b] EXCEPT !.state = target]]
  BY DEF Transition, TypeInv, TypeOK
<1>4. rows' \in [Bookings -> Row \cup {None}]
  BY <1>2, <1>3 DEF TypeInv, TypeOK
<1>5. TypeOK'
  BY <1>4 DEF Transition, TypeInv, TypeOK
<1>6. RowsStay
  BY <1>1, <1>2, <1>3, ConstantsAssumption DEF RowsStay, TypeInv, TypeOK, Row
<1>7. ASSUME NEW s \in Sessions, pc'[s] # "idle" PROVE RequestOK(s)'
  <2>1. OnlySession(s) /\ pc'[s] = pc[s] /\ req'[s] = req[s] /\ RequestOK(s)
    BY <1>7 DEF OnlySession, Transition, TypeInv, RequestsOK
  <2>2. req[s].target \in Committed =>
          /\ req[s].target \in Committed'
          /\ rows'[req[s].target].service = rows[req[s].target].service
    BY <1>6 DEF RowsStay, Committed
  <2> QED
    BY <2>1, <2>2 DEF RequestOK
<1> QED
  BY <1>5, <1>7 DEF TypeInv, RequestsOK

\* A step inside the transaction that moves the program counter and may edit
\* the draft row, but neither its Service nor the tables.
LEMMA AdvanceType ==
  ASSUME TypeInv, NEW s \in Sessions, NEW step \in InTransaction, NEW row \in Row,
         pc[s] \in InTransaction \cup {"lock"},
         pc' = [pc EXCEPT ![s] = step],
         req' = [req EXCEPT ![s].row = row],
         row.service = req[s].row.service, row.blocks,
         step \in {"reselect", "cancelOriginal"} => req[s].kind = "reschedule",
         lock' \in [Advisors -> Sessions \cup {None}],
         UNCHANGED <<now, policy, tables>>
  PROVE  TypeInv'
<1>1. req[s] \in Request /\ pc[s] # "idle" /\ pc[s] # "apply" /\ RequestOK(s)
  BY DEF TypeInv, TypeOK, InTransaction, RequestsOK
<1>2. /\ req'[s] \in Request
      /\ req'[s].kind = req[s].kind /\ req'[s].target = req[s].target
      /\ req'[s].cancellation = req[s].cancellation /\ req'[s].row = row
  BY <1>1 DEF TypeInv, TypeOK, Request
<1>3. OnlySession(s) /\ pc'[s] = step /\ step # "idle" /\ step # "apply"
  BY DEF OnlySession, TypeInv, TypeOK, InTransaction
<1>4. TypeOK'
  BY <1>1, <1>2, <1>3 DEF TypeInv, TypeOK, tables, OnlySession
<1>5. Committed' = Committed /\ rows' = rows
  BY DEF Committed, tables
<1>6. RequestOK(s)'
  <2>1. req'[s].row.blocks
    BY <1>2
  <2> QED
    BY <1>1, <1>2, <1>3, <1>5, <2>1 DEF RequestOK
<1> QED
  BY <1>3, <1>4, <1>5, <1>6, OthersOK, RowsStayUnchanged DEF TypeInv

\* Reading the policy touches neither the draft nor what it is about.
LEMMA ContextType ==
  ASSUME TypeInv, NEW s \in Sessions, ReadContext(s)
  PROVE  TypeInv'
<1> DEFINE global == policy[AdvisorOf(req[s].row)]
<1>1. req[s] \in Request /\ RequestOK(s)
  BY DEF TypeInv, TypeOK, ReadContext, RequestsOK
<1>2. global \in Policies
  BY <1>1, AdvisorType DEF TypeInv, TypeOK, Request
<1>3. /\ pc[s] = "context"
      /\ pc' = [pc EXCEPT ![s] = "derive"]
      /\ req' = [req EXCEPT ![s].global = global]
      /\ UNCHANGED <<now, policy, tables, lock>>
  BY DEF ReadContext
<1> HIDE DEF global
<1>4. /\ req'[s] \in Request
      /\ req'[s].kind = req[s].kind /\ req'[s].target = req[s].target
      /\ req'[s].cancellation = req[s].cancellation /\ req'[s].row = req[s].row
  BY <1>1, <1>2, <1>3 DEF TypeInv, TypeOK, Request
<1>5. OnlySession(s) /\ pc'[s] = "derive"
  BY <1>3 DEF OnlySession, TypeInv, TypeOK
<1>6. TypeOK'
  BY <1>1, <1>3, <1>4, <1>5 DEF TypeInv, TypeOK, tables, OnlySession, InTransaction
<1>7. Committed' = Committed /\ rows' = rows
  BY <1>3 DEF Committed, tables
<1>8. RequestOK(s)'
  BY <1>1, <1>3, <1>4, <1>5, <1>7 DEF RequestOK
<1> QED
  BY <1>5, <1>6, <1>7, <1>8, OthersOK, RowsStayUnchanged DEF TypeInv

\* Nor does the derivation.
LEMMA DeriveType ==
  ASSUME TypeInv, NEW s \in Sessions, Derive(s)
  PROVE  TypeInv'
<1>1. req[s] \in Request /\ RequestOK(s) /\ Committed \in SUBSET Bookings
  BY DEF TypeInv, TypeOK, Derive, RequestsOK, Committed
<1>2. CASE Rollback(s)
  BY <1>2, RollbackType
<1>3. CASE ~Rollback(s)
  <2>1. /\ pc[s] = "derive"
        /\ pc' = [pc EXCEPT ![s] = "buffer"]
        /\ req' = [req EXCEPT ![s].seen = Committed]
        /\ UNCHANGED <<now, policy, tables, lock>>
    BY <1>3 DEF Derive
  <2>2. /\ req'[s] \in Request
        /\ req'[s].kind = req[s].kind /\ req'[s].target = req[s].target
        /\ req'[s].cancellation = req[s].cancellation /\ req'[s].row = req[s].row
    BY <1>1, <2>1 DEF TypeInv, TypeOK, Request
  <2>3. OnlySession(s) /\ pc'[s] = "buffer"
    BY <2>1 DEF OnlySession, TypeInv, TypeOK
  <2>4. TypeOK'
    BY <1>1, <2>1, <2>2, <2>3 DEF TypeInv, TypeOK, tables, OnlySession, InTransaction
  <2>5. Committed' = Committed /\ rows' = rows
    BY <2>1 DEF Committed, tables
  <2>6. RequestOK(s)'
    BY <1>1, <2>1, <2>2, <2>3, <2>5 DEF RequestOK
  <2> QED
    BY <2>3, <2>4, <2>5, <2>6, OthersOK, RowsStayUnchanged DEF TypeInv
<1> QED
  BY <1>2, <1>3

\* The update of the original, and every other cancellation.
LEMMA CancelledRow ==
  ASSUME TypeInv, NEW s \in Sessions, pc[s] # "idle", req[s].kind # "create"
  PROVE  LET b == req[s].target
         IN  /\ b \in Bookings /\ rows[b] \in Row
             /\ req[s].cancellation \in Cancellation
             /\ Cancelled(rows[b], req[s].cancellation) \in Row
             /\ Cancelled(rows[b], req[s].cancellation).service = rows[b].service
             /\ Cancelled(rows[b], req[s].cancellation).service = req[s].row.service
<1>1. RequestOK(s) /\ TypeOK
  BY DEF TypeInv, RequestsOK
<1> QED
  BY <1>1, CommittedRows, CancelledType DEF RequestOK

LEMMA OwnViewType ==
  ASSUME TypeInv, NEW s \in Sessions, pc[s] # "idle"
  PROVE  /\ OwnView(s) \in [Bookings -> Row \cup {None}]
         /\ \A b \in Bookings :
              rows[b] # None => /\ OwnView(s)[b] # None
                                /\ OwnView(s)[b].service = rows[b].service
<1>1. CASE req[s].kind = "reschedule"
  <2> DEFINE b == req[s].target
             new == Cancelled(rows[b], req[s].cancellation)
  <2>1. b \in Bookings /\ new \in Row /\ new.service = rows[b].service
    BY <1>1, CancelledRow
  <2>2. OwnView(s) = [rows EXCEPT ![b] = new]
    BY <1>1 DEF OwnView
  <2> HIDE DEF b, new
  <2> QED
    BY <2>1, <2>2, ConstantsAssumption DEF TypeInv, TypeOK
<1>2. CASE req[s].kind # "reschedule"
  BY <1>2 DEF OwnView, TypeInv, TypeOK
<1> QED
  BY <1>1, <1>2

LEMMA InsertType ==
  ASSUME TypeInv, IdsAreFresh, NEW s \in Sessions, InsertAndCommit(s)
  PROVE  TypeInv'
<1> DEFINE row == req[s].row
           id  == req[s].new
           linked == [row EXCEPT !.room = RoomOf(row, id)]
<1>1. req[s] \in Request /\ pc[s] = "insert" /\ RequestOK(s)
  BY DEF InsertAndCommit, TypeInv, TypeOK, RequestsOK
<1>2. row \in Row /\ id \in Bookings /\ rows[id] = None
  BY <1>1 DEF Request, RequestOK, IdsAreFresh, Inserts
<1>3. linked \in Row
  BY <1>2 DEF Row, RoomOf
<1>4. CASE Rollback(s)
  BY <1>4, RollbackType
<1>5. CASE /\ rows' = [OwnView(s) EXCEPT ![id] = linked]
           /\ rooms' = OpenBookingChatRoom(row, id)
           /\ Unlock(s) /\ Answer(s)
           /\ UNCHANGED <<now, policy, told, invoiced>>
  <2> HIDE DEF linked
  <2>1. rows' \in [Bookings -> Row \cup {None}]
    BY <1>2, <1>3, <1>5, <1>1, OwnViewType
  <2>2. RowsStay
    BY <1>1, <1>2, <1>5, OwnViewType DEF RowsStay
  <2>3. row.advisee \in Users /\ AdvisorOf(row) \in Users
    BY <1>2, AdvisorType DEF Row, Users
  <2>4. rooms' \in [Bookings -> SUBSET Users]
    BY <1>2, <1>5, <2>3 DEF OpenBookingChatRoom, TypeInv, TypeOK
  <2>5. lock' \in [Advisors -> Sessions \cup {None}]
    BY <1>5 DEF Unlock, TypeInv, TypeOK
  <2>6. TypeOK'
    BY <1>5, <2>1, <2>4, <2>5, AnswerType DEF TypeInv, TypeOK
  <2> QED
    BY <1>5, <2>2, <2>6, AnswerType, OthersOK DEF TypeInv
<1> QED
  BY <1>4, <1>5 DEF InsertAndCommit

LEMMA ApplyType ==
  ASSUME TypeInv, NEW s \in Sessions, ApplyCancellation(s)
  PROVE  TypeInv'
<1> DEFINE b == req[s].target
           new == Cancelled(rows[b], req[s].cancellation)
<1>1. b \in Bookings /\ new \in Row /\ new.service = rows[b].service
  BY CancelledRow DEF ApplyCancellation, TypeInv, RequestsOK, RequestOK
<1>2. rows' = [rows EXCEPT ![b] = new] \/ rows' = rows
  BY DEF ApplyCancellation
<1> HIDE DEF b, new
<1>3. rows' \in [Bookings -> Row \cup {None}] /\ RowsStay
  BY <1>1, <1>2, ConstantsAssumption DEF TypeInv, TypeOK, RowsStay
<1>4. TypeOK'
  BY <1>3, AnswerType DEF ApplyCancellation, TypeInv, TypeOK
<1> QED
  BY <1>3, <1>4, AnswerType, OthersOK DEF ApplyCancellation, TypeInv

\* A row as createInvoice() inserts it.
IsInvoiceRow(row) ==
  /\ row \in Row
  /\ row.state = "PENDING_PAYMENT" /\ row.blocks
  /\ row.room = None /\ row.cancelledAt = None
  /\ row.until = EndOf(row)

\* The commit of an invoice, seen from the tables.
Invoices(ids) ==
  /\ ids \in SUBSET Bookings /\ IsFiniteSet(ids)
  /\ \A b \in ids : Fresh(b) /\ IsInvoiceRow(rows'[b])
  /\ \A b, c \in ids : /\ rows'[b].service = rows'[c].service
                       /\ rows'[b].advisee = rows'[c].advisee
  /\ \A b \in Bookings \ ids : rows'[b] = rows[b]
  /\ rows' \in [Bookings -> Row \cup {None}]
  /\ Claimable(ids, rows')
  /\ invoiced' = invoiced \cup ids
  /\ UNCHANGED <<now, policy, rooms, told, lock, pc, req>>

LEMMA InvoiceEffect ==
  ASSUME TypeInv, NEW ids \in SUBSET Bookings, NEW service \in Services,
         NEW advisee \in Advisees, NEW start \in [ids -> Starts],
         CreateInvoice(ids, service, advisee, start)
  PROVE  Invoices(ids)
<1> DEFINE table == [b \in Bookings |->
                       IF b \in ids THEN NewRow(service, advisee, start[b]) ELSE rows[b]]
<1>1. /\ IsFiniteSet(ids) /\ Claimable(ids, table) /\ rows' = table
      /\ \A b \in ids : Fresh(b)
      /\ invoiced' = invoiced \cup ids
      /\ UNCHANGED <<now, policy, rooms, told, lock, pc, req>>
  BY DEF CreateInvoice
<1>2. ASSUME NEW b \in ids
      PROVE  /\ table[b] = NewRow(service, advisee, start[b])
             /\ IsInvoiceRow(table[b])
             /\ table[b].service = service /\ table[b].advisee = advisee
  <2>1. start[b] \in Nat
    BY StartsAreTimes
  <2> QED
    BY <2>1, NewRowType DEF NewRow, IsInvoiceRow, EndOf
<1>3. \A b \in Bookings \ ids : table[b] = rows[b]
  OBVIOUS
<1> HIDE DEF table
<1>4. rows' \in [Bookings -> Row \cup {None}]
  BY <1>1, <1>2, NewRowType, StartsAreTimes DEF table, TypeInv, TypeOK
<1> QED
  BY <1>1, <1>2, <1>3, <1>4 DEF Invoices

LEMMA InvoiceKeepsRows == ASSUME NEW ids, Invoices(ids) PROVE RowsStay
BY DEF Invoices, RowsStay, Fresh

LEMMA InvoiceType == ASSUME TypeInv, NEW ids, Invoices(ids) PROVE TypeInv'
<1>1. TypeOK'
  BY DEF TypeInv, TypeOK, Invoices
<1>2. ASSUME NEW s \in Sessions, pc'[s] # "idle" PROVE RequestOK(s)'
  <2>1. pc' = pc /\ req' = req /\ RequestOK(s) /\ req'[s] \in Request
    BY <1>2 DEF Invoices, TypeInv, TypeOK, RequestsOK
  <2>2. req[s].target \in Committed =>
          /\ req[s].target \in Committed'
          /\ rows'[req[s].target].service = rows[req[s].target].service
    BY InvoiceKeepsRows DEF RowsStay, Committed
  <2> QED
    BY <2>1, <2>2 DEF RequestOK
<1> QED
  BY <1>1, <1>2 DEF TypeInv, RequestsOK

\* Every action keeps the type invariant.
LEMMA TypeStep == TypeInv /\ IdsAreFresh /\ [Next]_vars => TypeInv'
<1> SUFFICES ASSUME TypeInv, IdsAreFresh, [Next]_vars PROVE TypeInv'
  OBVIOUS
<1> USE DEF TypeInv
<1>1. ASSUME NEW s \in Sessions, Arrive(s) PROVE TypeInv'
  <2>1. ASSUME NEW new \in Bookings, NEW service \in Services,
               NEW advisee \in Advisees, NEW start \in Starts,
               Create(s, new, service, advisee, start)
        PROVE  TypeInv'
    BY <2>1, BeginType, CreateRequestType, NewRowType, StartsAreTimes DEF Create
  <2>2. ASSUME NEW b \in Bookings, Cancel(s, b) PROVE TypeInv'
    <3>1. b \in Committed /\ rows[b] \in Row /\ rows[b].start \in Nat
      BY <2>2, CommittedRows DEF Cancel, Row
    <3> DEFINE request == About("cancel", b, b, rows[b].start)
    <3>2. request \in Request /\ request.cancellation \in Cancellation
      BY <3>1, AboutType DEF About
    <3>3. request.kind = "cancel" /\ request.target = b
          /\ request.row.service = rows[b].service /\ request.row.blocks
      BY DEF About, NewRow
    <3> QED
      BY <2>2, <3>1, <3>2, <3>3, BeginType DEF Cancel
  <2>3. ASSUME NEW b \in Bookings, NEW new \in Bookings, NEW start \in Starts,
               Reschedule(s, b, new, start)
        PROVE  TypeInv'
    <3>1. b \in Committed
      BY <2>3 DEF Reschedule
    <3> DEFINE request == About("reschedule", b, new, start)
    <3>2. request \in Request /\ request.cancellation \in Cancellation
      BY <3>1, AboutType, StartsAreTimes DEF About
    <3>3. request.kind = "reschedule" /\ request.target = b
          /\ request.row.service = rows[b].service /\ request.row.blocks
      BY DEF About, NewRow
    <3> QED
      BY <2>3, <3>1, <3>2, <3>3, BeginType DEF Reschedule
  <2> QED
    BY <1>1, <2>1, <2>2, <2>3 DEF Arrive
<1>2. ASSUME NEW s \in Sessions, AcquireLock(s) PROVE TypeInv'
  <2>1. req[s] \in Request /\ req[s].row \in Row /\ RequestOK(s)
    BY <1>2 DEF AcquireLock, TypeOK, RequestsOK, Request
  <2>2. lock' \in [Advisors -> Sessions \cup {None}]
    BY <1>2 DEF AcquireLock, TypeOK
  <2>3. req' = [req EXCEPT ![s].row = req[s].row]
    BY <1>2, <2>1 DEF AcquireLock, TypeOK, Request
  <2> QED
    BY <1>2, <2>1, <2>2, <2>3, AdvanceType DEF AcquireLock, InTransaction, RequestOK
<1>3. ASSUME NEW s \in Sessions, ApplyCancellation(s) PROVE TypeInv'
  BY <1>3, ApplyType
<1>4. ASSUME NEW s \in Sessions, Reselect(s) PROVE TypeInv'
  <2> DEFINE original == rows[req[s].target]
             row == [req[s].row EXCEPT !.state = original.state, !.room = original.room]
  <2>1. req[s].row \in Row /\ RequestOK(s) /\ original \in Row
    BY <1>4, CommittedRows DEF Reselect, TypeOK, RequestsOK, RequestOK, Request
  <2>2. row \in Row /\ row.service = req[s].row.service /\ row.blocks
    BY <2>1 DEF Row, RequestOK
  <2>3. CASE Rollback(s)
    BY <2>3, RollbackType
  <2>4. CASE /\ pc' = [pc EXCEPT ![s] = "cancelOriginal"]
             /\ req' = [req EXCEPT ![s].row = row]
             /\ UNCHANGED <<now, policy, tables, lock>>
    <3> HIDE DEF row
    <3>1. lock' \in [Advisors -> Sessions \cup {None}]
      BY <2>4 DEF TypeOK
    <3> QED
      BY <1>4, <2>1, <2>2, <2>4, <3>1, AdvanceType
         DEF Reselect, RequestOK, InTransaction
  <2>5. req' = [req EXCEPT ![s].row = row] \/ Rollback(s)
    BY <1>4 DEF Reselect
  <2> HIDE DEF row
  <2> QED
    BY <1>4, <2>3, <2>4, <2>5 DEF Reselect
<1>5. ASSUME NEW s \in Sessions, NEW step \in InTransaction \ {"reselect"},
             pc[s] \in InTransaction,
             step = "cancelOriginal" => req[s].kind = "reschedule",
             pc' = [pc EXCEPT ![s] = step],
             UNCHANGED <<now, policy, tables, lock, req>>
      PROVE  TypeInv'
  <2>1. req[s] \in Request /\ req[s].row \in Row /\ req[s].row.blocks
    BY <1>5 DEF TypeOK, InTransaction, Request, RequestsOK, RequestOK
  <2>2. req' = [req EXCEPT ![s].row = req[s].row]
    BY <1>5, <2>1 DEF TypeOK, Request
  <2>3. lock' \in [Advisors -> Sessions \cup {None}]
    BY <1>5 DEF TypeOK
  <2> QED
    BY <1>5, <2>1, <2>2, <2>3, AdvanceType
<1>6. ASSUME NEW s \in Sessions, CancelOriginal(s) \/ Derive(s) PROVE TypeInv'
  BY <1>5, <1>6, RollbackType, DeriveType DEF CancelOriginal, InTransaction
<1>6a. ASSUME NEW s \in Sessions, ReadContext(s) PROVE TypeInv'
  BY <1>6a, ContextType
<1>7. ASSUME NEW s \in Sessions, ReadBuffer(s) PROVE TypeInv'
  <2> DEFINE until == EndOf(req[s].row) + policy[AdvisorOf(req[s].row)].buffer
             row == [req[s].row EXCEPT !.until = until]
  <2>1. req[s].row \in Row /\ RequestOK(s)
    BY <1>7 DEF ReadBuffer, TypeOK, RequestsOK, Request
  <2>2. until \in Nat
    BY <2>1, AdvisorType, ConstantsAssumption DEF EndOf, Row, TypeOK, Policy
  <2>3. row \in Row /\ row.service = req[s].row.service /\ row.blocks
    BY <2>1, <2>2 DEF Row, RequestOK
  <2>4. req' = [req EXCEPT ![s].row = row]
    BY <1>7 DEF ReadBuffer
  <2>5. lock' \in [Advisors -> Sessions \cup {None}]
    BY <1>7 DEF ReadBuffer, TypeOK
  <2> HIDE DEF row
  <2> QED
    BY <1>7, <2>3, <2>4, <2>5, AdvanceType DEF ReadBuffer, InTransaction
<1>8. ASSUME NEW s \in Sessions, InsertAndCommit(s) PROVE TypeInv'
  BY <1>8, InsertType
<1>9. ASSUME NEW s \in Sessions, Fail(s) PROVE TypeInv'
  <2>1. CASE Rollback(s)
    BY <2>1, RollbackType
  <2>2. CASE Answer(s) /\ UNCHANGED <<now, policy, tables, lock>>
    <3>1. TypeOK'
      BY <2>2, AnswerType DEF TypeOK, tables
    <3> QED
      BY <2>2, <3>1, AnswerType, OthersOK, RowsStayUnchanged DEF tables
  <2> QED
    BY <1>9, <2>1, <2>2 DEF Fail
<1>10. ASSUME NEW b \in Bookings, Start(b) \/ Complete(b) \/ RecordNoShow(b)
       PROVE  TypeInv'
  BY <1>10, TransitionType DEF Start, Complete, RecordNoShow, States, TypeOK
<1>11. ASSUME NEW b \in Bookings, ConfirmPayment(b) PROVE TypeInv'
  <2>1. told' \in [Bookings -> Nat]
    BY <1>11 DEF ConfirmPayment, TypeOK
  <2> QED
    BY <1>11, <2>1, TransitionType DEF ConfirmPayment, States
<1>12. ASSUME UNCHANGED <<tables, lock, pc, req>>, now' \in Nat,
              policy' \in [Advisors -> Policies]
       PROVE  TypeInv'
  BY <1>12 DEF TypeOK, tables, RequestsOK, RequestOK, Committed
<1>13. ASSUME NEW a \in Advisors, NEW p \in Policies, UpsertGlobal(a, p)
       PROVE  TypeInv'
  BY <1>12, <1>13 DEF UpsertGlobal, TypeOK
<1>14. CASE Tick
  BY <1>12, <1>14 DEF Tick, TypeOK
<1>15. CASE UNCHANGED vars
  BY <1>12, <1>15 DEF vars, tables, TypeOK
<1>16. ASSUME NEW ids \in SUBSET Bookings, NEW service \in Services, NEW advisee \in Advisees,
              NEW start \in [ids -> Starts], CreateInvoice(ids, service, advisee, start)
       PROVE  TypeInv'
  BY <1>16, InvoiceEffect, InvoiceType
<1> QED
  BY <1>1, <1>2, <1>3, <1>4, <1>5, <1>6, <1>7, <1>8, <1>9, <1>10, <1>11, <1>13,
     <1>14, <1>15, <1>16, <1>6a DEF Next, InsideTransaction

----------------------------------------------------------------------------
(* The scheduling lock.                                                    *)

\* A transaction ends: its Advisor's lock was its own.
LEMMA EndHoldsLock ==
  ASSUME TypeInv, HoldsLock, NEW s \in Sessions, pc[s] \in InTransaction,
         Unlock(s), Answer(s)
  PROVE  HoldsLock'
<1>1. OnlySession(s) /\ pc'[s] = "idle"
  BY AnswerType DEF TypeInv
<1> SUFFICES ASSUME NEW t \in Sessions, t # s, pc[t] \in InTransaction
             PROVE  lock'[AdvisorOf(req[t].row)] = t
  BY <1>1 DEF HoldsLock, OnlySession, InTransaction
<1>2. req[t].row \in Row /\ req[s].row \in Row
  BY DEF TypeInv, TypeOK, InTransaction, Request
<1>3. AdvisorOf(req[t].row) \in Advisors /\ AdvisorOf(req[t].row) # AdvisorOf(req[s].row)
  BY <1>2, AdvisorType DEF HoldsLock
<1> QED
  BY <1>3 DEF Unlock, HoldsLock, TypeInv, TypeOK

\* A step that leaves the locks alone, by a request that stays on its Advisor
\* or is not inside a transaction afterwards.
LEMMA KeepsLock ==
  ASSUME TypeInv, HoldsLock, NEW s \in Sessions, OnlySession(s), lock' = lock,
         pc'[s] \in InTransaction =>
           /\ pc[s] \in InTransaction
           /\ AdvisorOf(req'[s].row) = AdvisorOf(req[s].row)
  PROVE  HoldsLock'
<1> SUFFICES ASSUME NEW t \in Sessions, pc'[t] \in InTransaction
             PROVE  lock'[AdvisorOf(req'[t].row)] = t
  BY DEF HoldsLock
<1>1. CASE t = s
  BY <1>1 DEF HoldsLock
<1>2. CASE t # s
  <2>1. pc'[t] = pc[t] /\ req'[t] = req[t]
    BY <1>2 DEF OnlySession
  <2> QED
    BY <2>1 DEF HoldsLock
<1> QED
  BY <1>1, <1>2

LEMMA AdvisorOfDraft ==
  ASSUME NEW row \in Row, NEW new \in Row, new.service = row.service
  PROVE  AdvisorOf(new) = AdvisorOf(row)
BY DEF AdvisorOf

\* The steps that change what a request in a transaction carries.
Reads(s) == Reselect(s) \/ ReadContext(s) \/ Derive(s) \/ ReadBuffer(s)

\* The draft keeps its Service, hence its Advisor.
LEMMA DraftKeepsAdvisor ==
  ASSUME TypeInv, NEW s \in Sessions, Reads(s), pc'[s] # "idle"
  PROVE  /\ AdvisorOf(req'[s].row) = AdvisorOf(req[s].row)
         /\ OnlySession(s)
         /\ lock' = lock
         /\ rows' = rows
         /\ req'[s].new = req[s].new /\ req'[s].kind = req[s].kind
         /\ req'[s].target = req[s].target
         /\ req'[s].cancellation = req[s].cancellation
<1>1. req[s] \in Request /\ pc[s] # "idle"
  BY DEF TypeInv, TypeOK, Reads, Reselect, ReadContext, Derive, ReadBuffer
<1>2. ~Rollback(s)
  BY AnswerType DEF Rollback, TypeInv
<1>3. CASE Reselect(s)
  <2> DEFINE original == rows[req[s].target]
             row == [req[s].row EXCEPT !.state = original.state, !.room = original.room]
  <2>1. /\ pc' = [pc EXCEPT ![s] = "cancelOriginal"]
        /\ req' = [req EXCEPT ![s].row = row]
        /\ UNCHANGED <<tables, lock>>
    BY <1>2, <1>3 DEF Reselect
  <2>2. row.service = req[s].row.service
    BY <1>1 DEF Request, Row
  <2> HIDE DEF row
  <2>3. /\ req'[s].row = row /\ req'[s].new = req[s].new
        /\ req'[s].kind = req[s].kind /\ req'[s].target = req[s].target
        /\ req'[s].cancellation = req[s].cancellation
    BY <1>1, <2>1 DEF TypeInv, TypeOK, Request
  <2> QED
    BY <2>1, <2>2, <2>3 DEF AdvisorOf, OnlySession, tables, TypeInv, TypeOK
<1>4. CASE ReadBuffer(s)
  <2> DEFINE until == EndOf(req[s].row) + policy[AdvisorOf(req[s].row)].buffer
             row == [req[s].row EXCEPT !.until = until]
  <2>1. /\ pc' = [pc EXCEPT ![s] = "insert"]
        /\ req' = [req EXCEPT ![s].row = row]
        /\ UNCHANGED <<tables, lock>>
    BY <1>4 DEF ReadBuffer
  <2>2. row.service = req[s].row.service
    BY <1>1 DEF Request, Row
  <2> HIDE DEF row
  <2>3. /\ req'[s].row = row /\ req'[s].new = req[s].new
        /\ req'[s].kind = req[s].kind /\ req'[s].target = req[s].target
        /\ req'[s].cancellation = req[s].cancellation
    BY <1>1, <2>1 DEF TypeInv, TypeOK, Request
  <2> QED
    BY <2>1, <2>2, <2>3 DEF AdvisorOf, OnlySession, tables, TypeInv, TypeOK
<1>5. CASE ReadContext(s)
  <2> DEFINE global == policy[AdvisorOf(req[s].row)]
  <2>1. /\ pc' = [pc EXCEPT ![s] = "derive"]
        /\ req' = [req EXCEPT ![s].global = global]
        /\ UNCHANGED <<tables, lock>>
    BY <1>5 DEF ReadContext
  <2> HIDE DEF global
  <2>2. /\ req'[s].row = req[s].row /\ req'[s].new = req[s].new
        /\ req'[s].kind = req[s].kind /\ req'[s].target = req[s].target
        /\ req'[s].cancellation = req[s].cancellation
    BY <1>1, <2>1 DEF TypeInv, TypeOK, Request
  <2> QED
    BY <2>1, <2>2 DEF OnlySession, tables, TypeInv, TypeOK
<1>6. CASE Derive(s)
  <2> DEFINE seen == Committed
  <2>1. /\ pc' = [pc EXCEPT ![s] = "buffer"]
        /\ req' = [req EXCEPT ![s].seen = seen]
        /\ UNCHANGED <<tables, lock>>
    BY <1>2, <1>6 DEF Derive
  <2> HIDE DEF seen
  <2>2. /\ req'[s].row = req[s].row /\ req'[s].new = req[s].new
        /\ req'[s].kind = req[s].kind /\ req'[s].target = req[s].target
        /\ req'[s].cancellation = req[s].cancellation
    BY <1>1, <2>1 DEF TypeInv, TypeOK, Request
  <2> QED
    BY <2>1, <2>2 DEF OnlySession, tables, TypeInv, TypeOK
<1> QED
  BY <1>3, <1>4, <1>5, <1>6 DEF Reads

LEMMA LockStep == TypeInv /\ HoldsLock /\ [Next]_vars => HoldsLock'
<1> SUFFICES ASSUME TypeInv, HoldsLock, [Next]_vars PROVE HoldsLock'
  OBVIOUS
<1>1. ASSUME NEW s \in Sessions, Arrive(s) PROVE HoldsLock'
  <2>1. PICK step \in {"lock", "apply"} : \E request : Begin(s, step, request)
    BY <1>1 DEF Arrive, Create, Cancel, Reschedule
  <2>2. OnlySession(s) /\ lock' = lock /\ pc'[s] = step
    BY <2>1 DEF Begin, OnlySession, TypeInv, TypeOK
  <2> QED
    BY <2>2, KeepsLock DEF InTransaction
<1>2. ASSUME NEW s \in Sessions, AcquireLock(s) PROVE HoldsLock'
  <2> DEFINE a == AdvisorOf(req[s].row)
  <2>1. req[s] \in Request /\ a \in Advisors
    BY <1>2, AdvisorType DEF AcquireLock, TypeInv, TypeOK, Request
  <2>2. lock[a] = None /\ lock' = [lock EXCEPT ![a] = s] /\ req' = req
    BY <1>2 DEF AcquireLock, MayLock
  <2>3. ASSUME NEW t \in Sessions, t # s, pc'[t] \in InTransaction
        PROVE  lock'[AdvisorOf(req'[t].row)] = t
    <3>1. pc[t] \in InTransaction
      BY <1>2, <2>3 DEF AcquireLock, TypeInv, TypeOK
    <3>2. AdvisorOf(req[t].row) # a
      BY <2>2, <3>1, ConstantsAssumption DEF HoldsLock
    <3> QED
      BY <2>2, <3>1, <3>2 DEF HoldsLock, TypeInv, TypeOK
  <2>4. lock'[AdvisorOf(req'[s].row)] = s
    BY <2>1, <2>2 DEF TypeInv, TypeOK
  <2> QED
    BY <2>3, <2>4 DEF HoldsLock
<1>3. ASSUME NEW s \in Sessions, Answer(s), lock' = lock PROVE HoldsLock'
  BY <1>3, AnswerType, KeepsLock DEF TypeInv, InTransaction
<1>4. ASSUME NEW s \in Sessions, pc[s] \in InTransaction, Rollback(s)
      PROVE  HoldsLock'
  BY <1>4, EndHoldsLock DEF Rollback
<1>5. ASSUME NEW s \in Sessions, Reads(s) PROVE HoldsLock'
  <2>1. CASE pc'[s] = "idle"
    <3>1. Rollback(s) /\ pc[s] \in InTransaction
      BY <1>5, <2>1 DEF Reads, Reselect, ReadContext, Derive, ReadBuffer, InTransaction, TypeInv, TypeOK
    <3> QED
      BY <3>1, <1>4
  <2>2. CASE pc'[s] # "idle"
    <3>1. pc[s] \in InTransaction
      BY <1>5 DEF Reads, Reselect, ReadContext, Derive, ReadBuffer, InTransaction
    <3> QED
      BY <1>5, <2>2, <3>1, DraftKeepsAdvisor, KeepsLock
  <2> QED
    BY <2>1, <2>2
<1>6. ASSUME NEW s \in Sessions, CancelOriginal(s) PROVE HoldsLock'
  <2>1. pc[s] \in InTransaction
    BY <1>6 DEF CancelOriginal, InTransaction
  <2>2. CASE Rollback(s)
    BY <2>1, <2>2, <1>4
  <2>3. CASE ~Rollback(s)
    <3>1. lock' = lock /\ req' = req /\ OnlySession(s)
      BY <1>6, <2>3 DEF CancelOriginal, OnlySession, TypeInv, TypeOK
    <3> QED
      BY <2>1, <3>1, KeepsLock
  <2> QED
    BY <2>2, <2>3
<1>7. ASSUME NEW s \in Sessions, InsertAndCommit(s) PROVE HoldsLock'
  BY <1>4, <1>7, EndHoldsLock DEF InsertAndCommit, InTransaction
<1>8. ASSUME NEW s \in Sessions, Fail(s) PROVE HoldsLock'
  BY <1>3, <1>4, <1>8 DEF Fail
<1>9. ASSUME UNCHANGED <<lock, pc, req>> PROVE HoldsLock'
  BY <1>9 DEF HoldsLock
<1>10. ASSUME NEW b \in Bookings,
              Start(b) \/ Complete(b) \/ RecordNoShow(b) \/ ConfirmPayment(b)
       PROVE  HoldsLock'
  BY <1>9, <1>10 DEF Start, Complete, RecordNoShow, ConfirmPayment, Transition
<1>11. ASSUME NEW a \in Advisors, NEW p \in Policies, UpsertGlobal(a, p)
       PROVE  HoldsLock'
  BY <1>9, <1>11 DEF UpsertGlobal
<1>12. CASE Tick
  BY <1>9, <1>12 DEF Tick
<1>13. CASE UNCHANGED vars
  BY <1>9, <1>13 DEF vars
<1>14. ASSUME NEW s \in Sessions, ApplyCancellation(s) PROVE HoldsLock'
  BY <1>3, <1>14 DEF ApplyCancellation
<1>15. ASSUME NEW ids \in SUBSET Bookings, NEW service \in Services, NEW advisee \in Advisees,
              NEW start \in [ids -> Starts], CreateInvoice(ids, service, advisee, start)
       PROVE  HoldsLock'
  BY <1>9, <1>15 DEF CreateInvoice
<1> QED
  BY <1>1, <1>2, <1>5, <1>6, <1>7, <1>8, <1>10, <1>11, <1>12, <1>13, <1>14, <1>15
     DEF Next, InsideTransaction, Reads

----------------------------------------------------------------------------
(* The effect of a step on the tables: nothing, one row updated in place   *)
(* without gaining time, or a committed insert.                            *)

SameSlot(old, new) ==
  new.service = old.service /\ new.start = old.start /\ new.until = old.until

\* No row appears, moves, or starts to block again.
NoNewTime ==
  \A b \in Bookings :
    /\ rows[b] = None <=> rows'[b] = None
    /\ rows[b] # None => /\ SameSlot(rows[b], rows'[b])
                         /\ rows'[b].blocks => rows[b].blocks

\* The requests in flight after the step were in flight before it, about the
\* same ids.
SameRequests ==
  \A t \in Sessions :
    pc'[t] # "idle" => /\ pc[t] # "idle"
                       /\ req'[t].new = req[t].new
                       /\ req'[t].kind = req[t].kind

LEMMA UnchangedNoNewTime == rows' = rows => NoNewTime
BY DEF NoNewTime, SameSlot

LEMMA AnswerRequests ==
  ASSUME TypeInv, NEW s \in Sessions, Answer(s)
  PROVE  SameRequests
BY AnswerType DEF TypeInv, SameRequests, OnlySession

\* What the statements outside the scheduling transaction do to the table.
LEMMA TransitionEffect ==
  ASSUME TypeInv, LiveRowsBlock, NEW b \in Bookings,
         NEW target \in {"BOOKED", "IN_PROGRESS", "COMPLETED", "NO_SHOW"},
         Transition(b, target)
  PROVE  NoNewTime /\ LiveRowsBlock' /\ UNCHANGED <<pc, req>>
<1> DEFINE new == [rows[b] EXCEPT !.state = target]
<1>1. rows[b] \in Row /\ rows' = [rows EXCEPT ![b] = new] /\ b \in Committed
  BY CommittedRows DEF Transition, TypeInv, TypeOK
<1>2. new \in Row /\ SameSlot(rows[b], new) /\ new.blocks = rows[b].blocks
  BY <1>1 DEF Row, SameSlot, States
<1>3. rows[b].state # "CANCELLED"
  BY DEF Transition, SourceStates
<1>4. rows[b].blocks
  BY <1>1, <1>3 DEF LiveRowsBlock
<1> HIDE DEF new
<1>5. NoNewTime
  BY <1>1, <1>2, ConstantsAssumption DEF NoNewTime, SameSlot, TypeInv, TypeOK
<1>6. LiveRowsBlock'
  BY <1>1, <1>2, <1>4 DEF LiveRowsBlock, Committed, TypeInv, TypeOK
<1> QED
  BY <1>5, <1>6 DEF Transition

LEMMA ApplyEffect ==
  ASSUME TypeInv, LiveRowsBlock, NEW s \in Sessions, ApplyCancellation(s)
  PROVE  NoNewTime /\ LiveRowsBlock' /\ SameRequests
<1> DEFINE b == req[s].target
           new == Cancelled(rows[b], req[s].cancellation)
<1>1. /\ b \in Bookings /\ rows[b] \in Row /\ new \in Row
      /\ SameSlot(rows[b], new) /\ new.state = "CANCELLED"
  BY CancelledRow, CancelledType
     DEF ApplyCancellation, TypeInv, RequestsOK, RequestOK, SameSlot
<1>2. SameRequests
  BY AnswerRequests DEF ApplyCancellation
<1>3. CASE rows' = rows
  BY <1>2, <1>3, UnchangedNoNewTime DEF LiveRowsBlock, Committed
<1>4. CASE /\ rows[b].state \in SourceStates("CANCELLED")
           /\ rows' = [rows EXCEPT ![b] = new]
  <2>1. rows[b].blocks
    BY <1>1, <1>4, ConstantsAssumption DEF LiveRowsBlock, SourceStates, Committed
  <2> HIDE DEF new, b
  <2>2. NoNewTime
    BY <1>1, <1>4, <2>1, ConstantsAssumption DEF NoNewTime, SameSlot, TypeInv, TypeOK
  <2>3. LiveRowsBlock'
    BY <1>1, <1>4 DEF LiveRowsBlock, Committed, TypeInv, TypeOK
  <2> QED
    BY <1>2, <2>2, <2>3
<1> QED
  BY <1>3, <1>4 DEF ApplyCancellation

\* Every step but an arrival and a commit: the table gains no booked time and
\* the requests keep their ids.
Quiet == NoNewTime /\ SameRequests /\ LiveRowsBlock'

LEMMA RollbackQuiet ==
  ASSUME TypeInv, LiveRowsBlock, NEW s \in Sessions, Rollback(s)
  PROVE  Quiet /\ rows' = rows
<1>1. rows' = rows
  BY DEF Rollback, tables
<1> QED
  BY <1>1, UnchangedNoNewTime, AnswerRequests DEF Rollback, Quiet, LiveRowsBlock, Committed

LEMMA QuietSteps ==
  ASSUME TypeInv, LiveRowsBlock, [Next]_vars
  PROVE  \/ Quiet
         \/ \E s \in Sessions : Arrive(s)
         \/ \E s \in Sessions : InsertAndCommit(s) /\ ~Rollback(s)
         \/ \E ids : Invoices(ids)
<1>1. ASSUME rows' = rows, SameRequests PROVE Quiet
  BY <1>1, UnchangedNoNewTime DEF Quiet, LiveRowsBlock, Committed
<1>2. ASSUME UNCHANGED <<pc, req>> PROVE SameRequests
  BY <1>2 DEF SameRequests
<1>3. ASSUME NEW s \in Sessions, AcquireLock(s) PROVE Quiet
  BY <1>1, <1>3 DEF AcquireLock, SameRequests, tables, TypeInv, TypeOK
<1>4. ASSUME NEW s \in Sessions, ApplyCancellation(s) PROVE Quiet
  BY <1>4, ApplyEffect DEF Quiet
<1>5. ASSUME NEW s \in Sessions, Reads(s) PROVE Quiet
  <2>1. CASE pc'[s] # "idle"
    <3>1. pc[s] # "idle"
      BY <1>5 DEF Reads, Reselect, ReadContext, Derive, ReadBuffer
    <3> QED
      BY <1>1, <1>5, <2>1, <3>1, DraftKeepsAdvisor DEF SameRequests, OnlySession
  <2>2. CASE pc'[s] = "idle"
    <3>1. Rollback(s)
      BY <1>5, <2>2 DEF Reads, Reselect, ReadContext, Derive, ReadBuffer, TypeInv, TypeOK
    <3> QED
      BY <3>1, RollbackQuiet
  <2> QED
    BY <2>1, <2>2
<1>6. ASSUME NEW s \in Sessions, CancelOriginal(s) PROVE Quiet
  <2>1. CASE Rollback(s)
    BY <2>1, RollbackQuiet
  <2>2. CASE ~Rollback(s)
    <3>1. rows' = rows /\ req' = req
      BY <1>6, <2>2 DEF CancelOriginal, tables
    <3>2. SameRequests
      BY <1>6, <2>2, <3>1 DEF CancelOriginal, SameRequests, TypeInv, TypeOK
    <3> QED
      BY <1>1, <3>1, <3>2
  <2> QED
    BY <2>1, <2>2
<1>7. ASSUME NEW s \in Sessions, Fail(s) PROVE Quiet
  BY <1>1, <1>7, RollbackQuiet, AnswerRequests DEF Fail, tables
<1>8. ASSUME NEW b \in Bookings,
             Start(b) \/ Complete(b) \/ RecordNoShow(b) \/ ConfirmPayment(b)
      PROVE  Quiet
  BY <1>2, <1>8, TransitionEffect
     DEF Quiet, Start, Complete, RecordNoShow, ConfirmPayment
<1>9. ASSUME UNCHANGED <<tables, pc, req>> PROVE Quiet
  BY <1>1, <1>2, <1>9 DEF tables
<1>10. ASSUME NEW a \in Advisors, NEW p \in Policies, UpsertGlobal(a, p) PROVE Quiet
  BY <1>9, <1>10 DEF UpsertGlobal
<1>11. CASE Tick
  BY <1>9, <1>11 DEF Tick
<1>12. CASE UNCHANGED vars
  BY <1>9, <1>12 DEF vars, tables
<1>13. ASSUME NEW s \in Sessions, InsertAndCommit(s), Rollback(s) PROVE Quiet
  BY <1>13, RollbackQuiet
<1>14. ASSUME NEW ids \in SUBSET Bookings, NEW service \in Services, NEW advisee \in Advisees,
              NEW start \in [ids -> Starts], CreateInvoice(ids, service, advisee, start)
       PROVE  Invoices(ids)
  BY <1>14, InvoiceEffect
<1> QED
  BY <1>3, <1>4, <1>5, <1>6, <1>7, <1>8, <1>10, <1>11, <1>12, <1>13, <1>14
     DEF Next, InsideTransaction, Reads

----------------------------------------------------------------------------
(* Arrivals and commits.                                                   *)

LEMMA BeginEffect ==
  ASSUME TypeInv, IdsAreFresh, NEW s \in Sessions,
         NEW step \in {"lock", "apply"}, NEW request, Begin(s, step, request),
         \/ Fresh(request.new) /\ request.new \in Bookings
         \/ request.kind = "cancel" /\ request.new \in Committed
  PROVE  /\ rows' = rows /\ OnlySession(s)
         /\ pc'[s] \in {"lock", "apply"}
         /\ IdsAreFresh'
<1>2. /\ rows' = rows /\ OnlySession(s) /\ pc'[s] = step /\ req'[s] = request
      /\ pc[s] = "idle"
  BY DEF Begin, tables, OnlySession, TypeInv, TypeOK
<1>3. ASSUME NEW t \in Sessions, t # s, Inserts(t)
      PROVE  rows[req[t].new] = None /\ req[t].new # request.new
  <2>1. rows[req[t].new] = None
    BY <1>3 DEF IdsAreFresh
  <2> QED
    BY <1>3, <2>1 DEF Fresh, Committed, Inserts
<1>4. ASSUME NEW t \in Sessions, Inserts(t)'
      PROVE  /\ rows'[req'[t].new] = None
             /\ \A u \in Sessions : pc'[u] # "idle" /\ u # t => req'[u].new # req'[t].new
  <2>1. CASE t = s
    <3>1. Fresh(request.new)
      BY <1>2, <1>4, <2>1 DEF Inserts
    <3> QED
      BY <1>2, <2>1, <3>1 DEF Fresh, OnlySession
  <2>2. CASE t # s
    <3>1. Inserts(t) /\ req'[t] = req[t]
      BY <1>2, <1>4, <2>2 DEF Inserts, OnlySession
    <3> QED
      BY <1>2, <1>3, <2>2, <3>1 DEF IdsAreFresh, OnlySession
  <2> QED
    BY <2>1, <2>2
<1>5. IdsAreFresh'
  BY <1>4 DEF IdsAreFresh
<1> QED
  BY <1>2, <1>5

LEMMA ArriveEffect ==
  ASSUME TypeInv, IdsAreFresh, NEW s \in Sessions, Arrive(s)
  PROVE  /\ rows' = rows /\ OnlySession(s)
         /\ pc'[s] \in {"lock", "apply"}
         /\ IdsAreFresh'
<1>1. ASSUME NEW new \in Bookings, NEW service \in Services,
             NEW advisee \in Advisees, NEW start \in Starts,
             Create(s, new, service, advisee, start)
      PROVE  rows' = rows /\ OnlySession(s) /\ pc'[s] \in {"lock", "apply"} /\ IdsAreFresh'
  BY <1>1, BeginEffect DEF Create
<1>2. ASSUME NEW b \in Bookings, Cancel(s, b)
      PROVE  rows' = rows /\ OnlySession(s) /\ pc'[s] \in {"lock", "apply"} /\ IdsAreFresh'
  <2> DEFINE request == About("cancel", b, b, rows[b].start)
  <2>1. request.kind = "cancel" /\ request.new = b
    BY DEF About
  <2> QED
    BY <1>2, <2>1, BeginEffect DEF Cancel
<1>3. ASSUME NEW b \in Bookings, NEW new \in Bookings, NEW start \in Starts,
             Reschedule(s, b, new, start)
      PROVE  rows' = rows /\ OnlySession(s) /\ pc'[s] \in {"lock", "apply"} /\ IdsAreFresh'
  <2> DEFINE request == About("reschedule", b, new, start)
  <2>1. request.new = new
    BY DEF About
  <2> QED
    BY <1>3, <2>1, BeginEffect DEF Reschedule
<1> QED
  BY <1>1, <1>2, <1>3 DEF Arrive

\* The table an insert is checked against, and what it becomes.
LEMMA CommitEffect ==
  ASSUME TypeInv, IdsAreFresh, NEW s \in Sessions, InsertAndCommit(s), ~Rollback(s)
  PROVE  LET id == req[s].new
             new == [req[s].row EXCEPT !.room = RoomOf(req[s].row, id)]
         IN  /\ pc[s] = "insert" /\ RequestOK(s)
             /\ req[s].row \in Row
             /\ id \in Bookings /\ rows[id] = None
             /\ new \in Row /\ SameSlot(req[s].row, new) /\ new.blocks
             /\ OwnView(s) \in [Bookings -> Row \cup {None}]
             /\ rows' = [OwnView(s) EXCEPT ![id] = new]
             /\ ~Excluded(req[s].row, id, OwnView(s))
             /\ Unlock(s) /\ Answer(s)
<1>1. pc[s] = "insert" /\ RequestOK(s) /\ req[s] \in Request
  BY DEF InsertAndCommit, TypeInv, TypeOK, RequestsOK
<1>2. req[s].row \in Row /\ req[s].new \in Bookings /\ rows[req[s].new] = None
  BY <1>1 DEF Request, RequestOK, IdsAreFresh, Inserts
<1>3. OwnView(s) \in [Bookings -> Row \cup {None}]
  BY <1>1, OwnViewType
<1> DEFINE new == [req[s].row EXCEPT !.room = RoomOf(req[s].row, req[s].new)]
<1>4. new \in Row /\ SameSlot(req[s].row, new) /\ new.blocks = req[s].row.blocks
  BY <1>2 DEF Row, RoomOf, SameSlot
<1>5. req[s].row.blocks
  BY <1>1 DEF RequestOK
<1>6. /\ rows' = [OwnView(s) EXCEPT ![req[s].new] = new]
      /\ ~Excluded(req[s].row, req[s].new, OwnView(s))
      /\ Unlock(s) /\ Answer(s)
  BY DEF InsertAndCommit
<1> HIDE DEF new
<1> QED
  BY <1>1, <1>2, <1>3, <1>4, <1>5, <1>6 DEF new

LEMMA FreshStep == TypeInv /\ LiveRowsBlock /\ IdsAreFresh /\ [Next]_vars => IdsAreFresh'
<1> SUFFICES ASSUME TypeInv, LiveRowsBlock, IdsAreFresh, [Next]_vars
             PROVE  IdsAreFresh'
  OBVIOUS
<1>1. CASE Quiet
  <2> SUFFICES ASSUME NEW t \in Sessions, Inserts(t)'
               PROVE  /\ rows'[req'[t].new] = None
                      /\ \A u \in Sessions :
                           pc'[u] # "idle" /\ u # t => req'[u].new # req'[t].new
    BY DEF IdsAreFresh
  <2>1. Inserts(t) /\ req'[t].new = req[t].new /\ req[t].new \in Bookings
    BY <1>1 DEF Quiet, SameRequests, Inserts, TypeInv, TypeOK, Request
  <2> QED
    BY <1>1, <2>1 DEF Quiet, NoNewTime, SameRequests, IdsAreFresh
<1>2. ASSUME NEW s \in Sessions, Arrive(s) PROVE IdsAreFresh'
  BY <1>2, ArriveEffect
<1>3. ASSUME NEW s \in Sessions, InsertAndCommit(s), ~Rollback(s) PROVE IdsAreFresh'
  <2> DEFINE id == req[s].new
             new == [req[s].row EXCEPT !.room = RoomOf(req[s].row, id)]
  <2>1. /\ pc[s] = "insert" /\ id \in Bookings /\ rows[id] = None
        /\ rows' = [OwnView(s) EXCEPT ![id] = new] /\ Answer(s)
    BY <1>3, CommitEffect
  <2> HIDE DEF new
  <2>2. OnlySession(s) /\ pc'[s] = "idle"
    BY <2>1, AnswerType DEF TypeInv
  <2> SUFFICES ASSUME NEW t \in Sessions, Inserts(t)'
               PROVE  /\ rows'[req'[t].new] = None
                      /\ \A u \in Sessions :
                           pc'[u] # "idle" /\ u # t => req'[u].new # req'[t].new
    BY DEF IdsAreFresh
  <2>3. t # s /\ Inserts(t) /\ req'[t] = req[t] /\ req[t].new \in Bookings
    BY <2>2 DEF Inserts, OnlySession, TypeInv, TypeOK, Request
  <2>4. rows[req[t].new] = None /\ req[t].new # id
    BY <2>1, <2>3 DEF IdsAreFresh
  <2>5. OwnView(s)[req[t].new] = None
    <3>1. CASE req[s].kind = "reschedule"
      <4>1. req[s].target # req[t].new
        BY <2>1, <2>4, <3>1, ConstantsAssumption, CancelledRow
      <4> QED
        BY <2>3, <2>4, <3>1, <4>1 DEF OwnView, TypeInv, TypeOK
    <3>2. CASE req[s].kind # "reschedule"
      BY <2>4, <3>2 DEF OwnView
    <3> QED
      BY <3>1, <3>2
  <2>6. rows'[req[t].new] = None
    BY <1>3, <2>1, <2>3, <2>4, <2>5, OwnViewType
  <2> QED
    BY <2>2, <2>3, <2>6 DEF OnlySession, IdsAreFresh
<1>4. ASSUME NEW ids, Invoices(ids) PROVE IdsAreFresh'
  <2>1. pc' = pc /\ req' = req
    BY <1>4 DEF Invoices
  <2>2. ASSUME NEW t \in Sessions, Inserts(t)
        PROVE  rows'[req[t].new] = None
    <3>1. req[t].new \in Bookings /\ rows[req[t].new] = None
      BY <2>2 DEF IdsAreFresh, Inserts, TypeInv, TypeOK, Request
    <3>2. req[t].new \notin ids
      BY <1>4, <2>2 DEF Invoices, Fresh, Inserts
    <3> QED
      BY <1>4, <3>1, <3>2 DEF Invoices
  <2> QED
    BY <2>1, <2>2 DEF IdsAreFresh, Inserts
<1> QED
  BY <1>1, <1>2, <1>3, <1>4, QuietSteps

LEMMA LiveStep == TypeInv /\ LiveRowsBlock /\ IdsAreFresh /\ [Next]_vars => LiveRowsBlock'
<1> SUFFICES ASSUME TypeInv, LiveRowsBlock, IdsAreFresh, [Next]_vars
             PROVE  LiveRowsBlock'
  OBVIOUS
<1>1. CASE Quiet
  BY <1>1 DEF Quiet
<1>2. ASSUME NEW s \in Sessions, Arrive(s) PROVE LiveRowsBlock'
  BY <1>2, ArriveEffect DEF LiveRowsBlock, Committed
<1>3. ASSUME NEW s \in Sessions, InsertAndCommit(s), ~Rollback(s) PROVE LiveRowsBlock'
  <2> DEFINE id == req[s].new
             new == [req[s].row EXCEPT !.room = RoomOf(req[s].row, id)]
  <2>1. /\ pc[s] = "insert" /\ id \in Bookings /\ new.blocks
        /\ OwnView(s) \in [Bookings -> Row \cup {None}]
        /\ rows' = [OwnView(s) EXCEPT ![id] = new]
    BY <1>3, CommitEffect
  <2> HIDE DEF id, new
  <2>2. ASSUME NEW b \in Bookings, OwnView(s)[b] # None,
               OwnView(s)[b].state # "CANCELLED"
        PROVE  OwnView(s)[b].blocks
    <3>1. CASE req[s].kind = "reschedule" /\ b = req[s].target
      <4>1. OwnView(s)[b] = Cancelled(rows[b], req[s].cancellation)
        BY <3>1 DEF OwnView, TypeInv, TypeOK
      <4> QED
        BY <2>1, <2>2, <3>1, <4>1, CancelledRow, CancelledType
    <3>2. CASE ~(req[s].kind = "reschedule" /\ b = req[s].target)
      <4>1. OwnView(s)[b] = rows[b]
        BY <3>2 DEF OwnView, TypeInv, TypeOK
      <4> QED
        BY <2>2, <4>1 DEF LiveRowsBlock, Committed
    <3> QED
      BY <3>1, <3>2
  <2> QED
    BY <2>1, <2>2 DEF LiveRowsBlock, Committed
<1>4. ASSUME NEW ids, Invoices(ids) PROVE LiveRowsBlock'
  BY <1>4 DEF Invoices, IsInvoiceRow, LiveRowsBlock, Committed
<1> QED
  BY <1>1, <1>2, <1>3, <1>4, QuietSteps

----------------------------------------------------------------------------
(* Booked time.                                                            *)

\* No two blocking rows of an Advisor overlap in a table.
Clear(table) ==
  \A b, c \in Bookings :
    (/\ b # c /\ table[b] # None /\ table[c] # None
     /\ AdvisorOf(table[b]) = AdvisorOf(table[c])
     /\ table[b].blocks /\ table[c].blocks) =>
      ~Overlaps(table[b].start, table[b].until, table[c].start, table[c].until)

LEMMA ClearIsNoOverlap == NoOverlap <=> Clear(rows)
BY DEF NoOverlap, Clear, Committed

\* What the exclusion constraint guarantees for one insert or update.
LEMMA ClearAfterWrite ==
  ASSUME NEW table \in [Bookings -> Row \cup {None}], Clear(table),
         NEW id \in Bookings, NEW row \in Row, NEW new \in Row,
         SameSlot(row, new), new.blocks => row.blocks,
         ~Excluded(row, id, table)
  PROVE  Clear([table EXCEPT ![id] = new])
<1> DEFINE after == [table EXCEPT ![id] = new]
<1>1. after[id] = new /\ \A b \in Bookings \ {id} : after[b] = table[b]
  OBVIOUS
<1>2. /\ AdvisorOf(new) = AdvisorOf(row)
      /\ new.start = row.start /\ new.until = row.until
  BY DEF SameSlot, AdvisorOf
<1>3. ASSUME NEW b \in Bookings \ {id}, table[b] # None, table[b].blocks,
             AdvisorOf(table[b]) = AdvisorOf(new), new.blocks
      PROVE  /\ ~Overlaps(new.start, new.until, table[b].start, table[b].until)
             /\ ~Overlaps(table[b].start, table[b].until, new.start, new.until)
  <2>1. table[b] \in Row
    BY <1>3
  <2>2. ~Overlaps(new.start, new.until, table[b].start, table[b].until)
    BY <1>2, <1>3 DEF Excluded
  <2> QED
    BY <2>1, <2>2 DEF Overlaps, Row
<1> HIDE DEF after
<1>4. Clear(after)
  <2> SUFFICES ASSUME NEW b \in Bookings, NEW c \in Bookings, b # c,
                      after[b] # None, after[c] # None,
                      AdvisorOf(after[b]) = AdvisorOf(after[c]),
                      after[b].blocks, after[c].blocks
               PROVE  ~Overlaps(after[b].start, after[b].until,
                                after[c].start, after[c].until)
    BY DEF Clear
  <2>1. CASE b = id
    BY <1>1, <1>3, <2>1
  <2>2. CASE c = id
    BY <1>1, <1>3, <2>2
  <2>3. CASE b # id /\ c # id
    BY <1>1, <2>3 DEF Clear
  <2> QED
    BY <2>1, <2>2, <2>3
<1> QED
  BY <1>4 DEF after

\* Rows that gain no time exclude no more than before.
LEMMA QuietExcludes ==
  ASSUME NoNewTime, NEW row, NEW id \in Bookings, ~Excluded(row, id, rows)
  PROVE  ~Excluded(row, id, rows')
<1> SUFFICES ASSUME row.blocks, NEW b \in Bookings \ {id}, rows'[b] # None,
                    rows'[b].blocks, AdvisorOf(rows'[b]) = AdvisorOf(row),
                    Overlaps(row.start, row.until, rows'[b].start, rows'[b].until)
             PROVE  FALSE
  BY DEF Excluded
<1>1. rows[b] # None /\ rows[b].blocks /\ SameSlot(rows[b], rows'[b])
  BY DEF NoNewTime
<1>2. /\ AdvisorOf(rows[b]) = AdvisorOf(row)
      /\ Overlaps(row.start, row.until, rows[b].start, rows[b].until)
  BY <1>1 DEF SameSlot, AdvisorOf
<1> QED
  BY <1>1, <1>2 DEF Excluded

LEMMA QuietClear == ASSUME NoNewTime, Clear(rows) PROVE Clear(rows')
<1> SUFFICES ASSUME NEW b \in Bookings, NEW c \in Bookings, b # c,
                    rows'[b] # None, rows'[c] # None,
                    AdvisorOf(rows'[b]) = AdvisorOf(rows'[c]),
                    rows'[b].blocks, rows'[c].blocks
             PROVE  ~Overlaps(rows'[b].start, rows'[b].until,
                              rows'[c].start, rows'[c].until)
  BY DEF Clear
<1>1. /\ rows[b] # None /\ rows[b].blocks /\ SameSlot(rows[b], rows'[b])
      /\ rows[c] # None /\ rows[c].blocks /\ SameSlot(rows[c], rows'[c])
  BY DEF NoNewTime
<1>2. AdvisorOf(rows[b]) = AdvisorOf(rows[c])
  BY <1>1 DEF SameSlot, AdvisorOf
<1> QED
  BY <1>1, <1>2 DEF SameSlot, Clear

\* The table a transaction sees is clear: its own cancellation still fits.
LEMMA OwnViewClear ==
  ASSUME TypeInv, OriginalsFit, Clear(rows), NEW s \in Sessions, pc[s] = "insert"
  PROVE  Clear(OwnView(s))
<1>1. CASE req[s].kind = "reschedule"
  <2> DEFINE b == req[s].target
             new == Cancelled(rows[b], req[s].cancellation)
  <2>1. b \in Bookings /\ new \in Row
    BY <1>1, CancelledRow
  <2>2. ~Excluded(new, b, rows)
    BY <1>1 DEF OriginalsFit
  <2>3. OwnView(s) = [rows EXCEPT ![b] = new]
    BY <1>1 DEF OwnView
  <2>4. SameSlot(new, new) /\ rows \in [Bookings -> Row \cup {None}]
    BY DEF SameSlot, TypeInv, TypeOK
  <2> HIDE DEF b, new
  <2> QED
    BY <2>1, <2>2, <2>3, <2>4, ClearAfterWrite
<1>2. CASE req[s].kind # "reschedule"
  BY <1>2 DEF OwnView
<1> QED
  BY <1>1, <1>2

\* Every pair with a new row passed the constraint, and overlap is symmetric.
LEMMA InvoiceClear ==
  ASSUME TypeInv, Clear(rows), NEW ids, Invoices(ids)
  PROVE  Clear(rows')
<1> SUFFICES ASSUME NEW b \in Bookings, NEW c \in Bookings, b # c,
                    rows'[b] # None, rows'[c] # None,
                    AdvisorOf(rows'[b]) = AdvisorOf(rows'[c]),
                    rows'[b].blocks, rows'[c].blocks
             PROVE  ~Overlaps(rows'[b].start, rows'[b].until,
                              rows'[c].start, rows'[c].until)
  BY DEF Clear
<1>1. rows'[b] \in Row /\ rows'[c] \in Row
  BY DEF Invoices
<1>2. CASE b \in ids
  BY <1>2 DEF Invoices, Claimable, Excluded
<1>3. CASE c \in ids
  <2>1. ~Overlaps(rows'[c].start, rows'[c].until, rows'[b].start, rows'[b].until)
    BY <1>3 DEF Invoices, Claimable, Excluded
  <2> QED
    BY <1>1, <2>1 DEF Overlaps, Row
<1>4. CASE b \notin ids /\ c \notin ids
  BY <1>4 DEF Invoices, Clear
<1> QED
  BY <1>2, <1>3, <1>4

LEMMA NoOverlapStep == IInv /\ [Next]_vars => NoOverlap'
<1> SUFFICES ASSUME IInv, [Next]_vars PROVE Clear(rows')
  BY DEF NoOverlap, Clear, Committed
<1> USE DEF IInv
<1>1. Clear(rows)
  BY ClearIsNoOverlap
<1>2. CASE Quiet
  BY <1>1, <1>2, QuietClear DEF Quiet
<1>3. ASSUME NEW s \in Sessions, Arrive(s) PROVE Clear(rows')
  BY <1>1, <1>3, ArriveEffect
<1>4. ASSUME NEW s \in Sessions, InsertAndCommit(s), ~Rollback(s) PROVE Clear(rows')
  <2> DEFINE id == req[s].new
             new == [req[s].row EXCEPT !.room = RoomOf(req[s].row, id)]
  <2>1. /\ pc[s] = "insert" /\ id \in Bookings /\ new.blocks
        /\ req[s].row \in Row /\ new \in Row /\ SameSlot(req[s].row, new)
        /\ req[s].row.blocks
        /\ OwnView(s) \in [Bookings -> Row \cup {None}]
        /\ rows' = [OwnView(s) EXCEPT ![id] = new]
        /\ ~Excluded(req[s].row, id, OwnView(s))
    BY <1>4, CommitEffect DEF RequestOK
  <2> HIDE DEF id, new
  <2> QED
    BY <1>1, <2>1, OwnViewClear, ClearAfterWrite
<1>5. ASSUME NEW ids, Invoices(ids) PROVE Clear(rows')
  BY <1>1, <1>5, InvoiceClear
<1> QED
  BY <1>2, <1>3, <1>4, <1>5, QuietSteps

----------------------------------------------------------------------------
(* The original a reschedule has updated.                                  *)

HasCancelled(t) ==
  pc[t] \in {"context", "derive", "buffer", "insert"} /\ req[t].kind = "reschedule"

\* A request past the update of its original was past it before, or updates it
\* in this step, the exclusion constraint allowing it.
PastTheUpdate(t) ==
  /\ req'[t].target = req[t].target
  /\ req'[t].cancellation = req[t].cancellation
  /\ \/ HasCancelled(t)
     \/ /\ rows' = rows /\ pc[t] = "cancelOriginal" /\ req[t].kind = "reschedule"
        /\ ~Excluded(OwnView(t)[req[t].target], req[t].target, rows)

LEMMA PastUpdate ==
  ASSUME TypeInv, IdsAreFresh, [Next]_vars, NEW t \in Sessions, HasCancelled(t)'
  PROVE  PastTheUpdate(t)
<1>1. ASSUME NEW s \in Sessions, OnlySession(s), pc'[s] \in {"idle", "lock", "apply"}
      PROVE  PastTheUpdate(t)
  <2>1. t # s
    BY <1>1 DEF HasCancelled
  <2> QED
    BY <1>1, <2>1 DEF OnlySession, HasCancelled, PastTheUpdate
<1>2. ASSUME UNCHANGED <<pc, req>> PROVE PastTheUpdate(t)
  BY <1>2 DEF HasCancelled, PastTheUpdate
<1>3. ASSUME NEW s \in Sessions, Arrive(s) PROVE PastTheUpdate(t)
  BY <1>1, <1>3, ArriveEffect
<1>4. ASSUME NEW s \in Sessions, Answer(s) PROVE PastTheUpdate(t)
  BY <1>1, <1>4, AnswerType DEF TypeInv
<1>5. ASSUME NEW s \in Sessions, AcquireLock(s) PROVE PastTheUpdate(t)
  <2>1. t # s
    BY <1>5 DEF AcquireLock, HasCancelled, TypeInv, TypeOK
  <2> QED
    BY <1>5, <2>1 DEF AcquireLock, HasCancelled, PastTheUpdate, TypeInv, TypeOK
<1>6. ASSUME NEW s \in Sessions, Reads(s), ~Rollback(s)
      PROVE  PastTheUpdate(t)
  <2>1. /\ pc'[s] # "idle"
        /\ pc'[s] \in {"context", "derive", "buffer", "insert"} =>
             pc[s] \in {"context", "derive", "buffer", "insert"}
    BY <1>6 DEF Reads, Reselect, ReadContext, Derive, ReadBuffer, TypeInv, TypeOK
  <2>2. /\ OnlySession(s) /\ req'[s].kind = req[s].kind
        /\ req'[s].target = req[s].target
        /\ req'[s].cancellation = req[s].cancellation
    BY <1>6, <2>1, DraftKeepsAdvisor
  <2> QED
    BY <2>1, <2>2 DEF OnlySession, HasCancelled, PastTheUpdate
<1>7. ASSUME NEW ids \in SUBSET Bookings, NEW service \in Services, NEW advisee \in Advisees,
             NEW start \in [ids -> Starts], CreateInvoice(ids, service, advisee, start)
      PROVE  PastTheUpdate(t)
  BY <1>2, <1>7 DEF CreateInvoice
<1>8. ASSUME NEW s \in Sessions, CancelOriginal(s), ~Rollback(s)
      PROVE  PastTheUpdate(t)
  <2>1. /\ pc[s] = "cancelOriginal" /\ rows' = rows /\ req' = req
        /\ pc' = [pc EXCEPT ![s] = "context"]
        /\ ~Excluded(OwnView(s)[req[s].target], req[s].target, rows)
    BY <1>8 DEF CancelOriginal, tables
  <2>2. CASE t = s
    BY <2>1, <2>2 DEF HasCancelled, PastTheUpdate
  <2>3. CASE t # s
    BY <2>1, <2>3 DEF HasCancelled, PastTheUpdate, TypeInv, TypeOK
  <2> QED
    BY <2>2, <2>3
<1>9. ASSUME NEW b \in Bookings,
             Start(b) \/ Complete(b) \/ RecordNoShow(b) \/ ConfirmPayment(b)
      PROVE  PastTheUpdate(t)
  BY <1>2, <1>9 DEF Start, Complete, RecordNoShow, ConfirmPayment, Transition
<1>10. ASSUME NEW a \in Advisors, NEW p \in Policies, UpsertGlobal(a, p)
       PROVE  PastTheUpdate(t)
  BY <1>2, <1>10 DEF UpsertGlobal
<1>11. CASE Tick
  BY <1>2, <1>11 DEF Tick
<1>12. CASE UNCHANGED vars
  BY <1>2, <1>12 DEF vars
<1>13. ASSUME NEW s \in Sessions, ApplyCancellation(s) PROVE PastTheUpdate(t)
  BY <1>4, <1>13 DEF ApplyCancellation
<1>14. ASSUME NEW s \in Sessions, InsertAndCommit(s) \/ Fail(s)
       PROVE  PastTheUpdate(t)
  BY <1>4, <1>14 DEF InsertAndCommit, Fail, Rollback
<1>15. ASSUME NEW s \in Sessions, Rollback(s) PROVE PastTheUpdate(t)
  BY <1>4, <1>15 DEF Rollback
<1> QED
  BY <1>3, <1>5, <1>6, <1>7, <1>8, <1>9, <1>10, <1>11, <1>12, <1>13, <1>14, <1>15
     DEF Next, InsideTransaction, Reads

\* Exclusion looks at a row's slot and at whether it blocks.
LEMMA ExclusionBySlot ==
  ASSUME NEW row, NEW new, SameSlot(row, new), new.blocks = row.blocks,
         NEW id, NEW table, ~Excluded(row, id, table)
  PROVE  ~Excluded(new, id, table)
BY DEF Excluded, SameSlot, AdvisorOf

LEMMA OriginalsStep == IInv /\ [Next]_vars => OriginalsFit'
<1> SUFFICES ASSUME IInv, [Next]_vars, NEW t \in Sessions, HasCancelled(t)'
             PROVE  LET b == req'[t].target
                    IN  ~Excluded(Cancelled(rows'[b], req'[t].cancellation), b, rows')
  BY DEF OriginalsFit, HasCancelled
<1> USE DEF IInv
<1> DEFINE b == req[t].target
           c == req[t].cancellation
           old == Cancelled(rows[b], c)
           new == Cancelled(rows'[b], c)
<1>1. PastTheUpdate(t)
  BY PastUpdate
<1>2. /\ b \in Bookings /\ rows[b] \in Row /\ c \in Cancellation /\ rows[b] # None
      /\ rows[b].service = req[t].row.service
      /\ pc[t] \in InTransaction /\ req[t].kind = "reschedule"
  <2>1. pc[t] \in InTransaction /\ req[t].kind = "reschedule"
    BY <1>1 DEF PastTheUpdate, HasCancelled, InTransaction
  <2>2. pc[t] # "idle" /\ RequestOK(t)
    BY <2>1 DEF InTransaction, TypeInv, RequestsOK
  <2> QED
    BY <2>1, <2>2, CancelledRow DEF RequestOK, Committed
<1>3. ~Excluded(old, b, rows)
  <2>1. CASE HasCancelled(t)
    BY <2>1 DEF OriginalsFit, HasCancelled
  <2>2. CASE ~Excluded(OwnView(t)[b], b, rows)
    <3>1. OwnView(t)[b] = old
      BY <1>2 DEF OwnView, TypeInv, TypeOK
    <3> QED
      BY <2>2, <3>1
  <2> QED
    BY <1>1, <2>1, <2>2 DEF PastTheUpdate
<1> SUFFICES ~Excluded(new, b, rows')
  BY <1>1 DEF PastTheUpdate
<1>4. TypeInv'
  BY TypeStep
<1>5. ASSUME rows'[b] \in Row, SameSlot(rows[b], rows'[b])
      PROVE  SameSlot(old, new) /\ new.blocks = old.blocks
  BY <1>2, <1>5, CancelledType DEF SameSlot
<1> HIDE DEF old, new
<1>6. CASE Quiet
  <2>1. ~Excluded(old, b, rows')
    BY <1>2, <1>3, <1>6, QuietExcludes DEF Quiet
  <2>2. rows'[b] # None /\ SameSlot(rows[b], rows'[b])
    BY <1>2, <1>6 DEF Quiet, NoNewTime
  <2>3. rows'[b] \in Row
    BY <1>2, <1>4, <2>2 DEF TypeInv, TypeOK
  <2> QED
    BY <1>5, <2>1, <2>2, <2>3, ExclusionBySlot
<1>7. ASSUME NEW s \in Sessions, Arrive(s) PROVE ~Excluded(new, b, rows')
  <2>1. rows' = rows
    BY <1>7, ArriveEffect
  <2> QED
    BY <1>3, <2>1 DEF old, new
<1>8. ASSUME NEW s \in Sessions, InsertAndCommit(s), ~Rollback(s)
      PROVE  ~Excluded(new, b, rows')
  <2> DEFINE id == req[s].new
             row == [req[s].row EXCEPT !.room = RoomOf(req[s].row, id)]
  <2>1. /\ pc[s] = "insert" /\ id \in Bookings /\ rows[id] = None /\ RequestOK(s)
        /\ req[s].row \in Row /\ row \in Row /\ SameSlot(req[s].row, row)
        /\ OwnView(s) \in [Bookings -> Row \cup {None}]
        /\ rows' = [OwnView(s) EXCEPT ![id] = row]
        /\ Answer(s)
    BY <1>8, CommitEffect
  <2>2. t # s
    <3>1. pc'[s] = "idle"
      BY <2>1, AnswerType DEF TypeInv
    <3> QED
      BY <3>1 DEF HasCancelled
  <2>3. AdvisorOf(req[s].row) # AdvisorOf(req[t].row)
    BY <1>2, <2>1, <2>2 DEF HoldsLock, InTransaction
  <2>4. AdvisorOf(rows[b]) = AdvisorOf(req[t].row)
    BY <1>2 DEF AdvisorOf
  <2>5. ASSUME NEW d \in Bookings, OwnView(s)[d] # rows[d]
        PROVE  /\ req[s].kind = "reschedule" /\ d = req[s].target
               /\ AdvisorOf(OwnView(s)[d]) = AdvisorOf(req[s].row)
               /\ AdvisorOf(rows[d]) = AdvisorOf(req[s].row)
    <3>1. req[s].kind = "reschedule" /\ d = req[s].target
      BY <2>5 DEF OwnView, TypeInv, TypeOK
    <3>2. OwnView(s)[d] = Cancelled(rows[d], req[s].cancellation)
      BY <3>1 DEF OwnView, TypeInv, TypeOK
    <3> QED
      BY <2>1, <3>1, <3>2, CancelledRow DEF AdvisorOf
  <2>6. AdvisorOf(row) = AdvisorOf(req[s].row)
    BY <2>1 DEF SameSlot, AdvisorOf
  <2> HIDE DEF row, id
  <2>7. rows'[b] = rows[b]
    BY <1>2, <2>1, <2>3, <2>4, <2>5
  <2>8. new = old
    BY <2>7 DEF old, new
  <2>9. AdvisorOf(old) = AdvisorOf(req[t].row)
    BY <1>2, <2>4, CancelledType DEF old, AdvisorOf
  <2>10. ASSUME NEW d \in Bookings \ {b}, rows'[d] # None,
                AdvisorOf(rows'[d]) = AdvisorOf(old)
         PROVE  rows'[d] = rows[d]
    <3>1. d # id
      BY <2>1, <2>3, <2>6, <2>9, <2>10
    <3>2. rows'[d] = OwnView(s)[d]
      BY <2>1, <3>1
    <3> QED
      BY <2>3, <2>5, <2>9, <2>10, <3>2
  <2> QED
    BY <1>3, <2>8, <2>10 DEF Excluded
<1>9. ASSUME NEW ids, Invoices(ids) PROVE ~Excluded(new, b, rows')
  <2>1. HasCancelled(t) /\ t \in Rescheduling
    BY <1>9 DEF HasCancelled, Rescheduling, Invoices
  <2>2. OwnView(t)[b] = old
    BY <1>2 DEF OwnView, TypeInv, TypeOK, old
  <2>3. b \notin ids /\ rows'[b] = rows[b] /\ new = old
    BY <1>2, <1>9 DEF Invoices, Fresh, old, new
  <2>4. old \in Row
    BY <1>2, CancelledType DEF old
  <2>5. ASSUME NEW d \in ids, old.blocks, AdvisorOf(rows'[d]) = AdvisorOf(old)
        PROVE  ~Overlaps(old.start, old.until, rows'[d].start, rows'[d].until)
    <3>1. ~Excluded(rows'[d], d, OwnView(t)) /\ rows'[d] \in Row /\ rows'[d].blocks
      BY <1>9, <2>1 DEF Invoices, Claimable, IsInvoiceRow
    <3>2. b # d /\ old # None
      BY <2>3, <2>4, ConstantsAssumption
    <3>3. ~Overlaps(rows'[d].start, rows'[d].until, old.start, old.until)
      BY <1>2, <2>2, <2>5, <3>1, <3>2 DEF Excluded
    <3> QED
      BY <2>4, <3>1, <3>3 DEF Overlaps, Row
  <2>6. \A d \in Bookings \ ids : rows'[d] = rows[d]
    BY <1>9 DEF Invoices
  <2> QED
    BY <1>3, <2>3, <2>5, <2>6 DEF Excluded
<1> QED
  BY <1>6, <1>7, <1>8, <1>9, QuietSteps

----------------------------------------------------------------------------
(* The theorems.                                                           *)

LEMMA InvInit == Init => IInv
<1> SUFFICES ASSUME Init PROVE IInv
  OBVIOUS
<1>1. TypeOK
  BY ConstantsAssumption DEF Init, TypeOK
<1>2. Committed = {} /\ \A s \in Sessions : pc[s] = "idle"
  BY DEF Init, Committed
<1> QED
  BY <1>1, <1>2
     DEF IInv, TypeInv, RequestsOK, HoldsLock, IdsAreFresh, LiveRowsBlock,
         OriginalsFit, NoOverlap, Inserts, InTransaction

\* The inductive invariant holds of every behaviour of the bookings module.
THEOREM Inductive == Spec => []IInv
<1>1. IInv /\ [Next]_vars => IInv'
  BY TypeStep, LockStep, FreshStep, LiveStep, OriginalsStep, NoOverlapStep DEF IInv
<1> QED
  BY InvInit, <1>1, PTL DEF Spec

\* Requests, rows, rooms and locks keep their types: a draft row is complete,
\* and a request names rows and Advisors that exist.
THEOREM TypeCorrect == Spec => []TypeOK
<1>1. IInv => TypeOK
  BY DEF IInv, TypeInv
<1> QED
  BY Inductive, <1>1, PTL

\* Two committed bookings that block an Advisor's time never overlap, buffers
\* included, for any policies and any number of concurrent requests.
THEOREM BookedTimeIsDisjoint == Spec => []NoOverlap
<1>1. IInv => NoOverlap
  BY DEF IInv
<1> QED
  BY Inductive, <1>1, PTL

\* At most one transaction at a time rederives and claims slots of an Advisor.
THEOREM ScheduleLockExcludes == Spec => []ScheduleIsExclusive
<1>1. IInv => ScheduleIsExclusive
  BY DEF IInv, HoldsLock, ScheduleIsExclusive
<1> QED
  BY Inductive, <1>1, PTL

----------------------------------------------------------------------------
(* What the tables of bookings and chat rooms keep, whatever requests are  *)
(* in flight, and that they implement the atomic calendar.                 *)
(*                                                                         *)
(* The second inductive invariant.  What a commit writes was drafted       *)
(* earlier, so each table invariant needs to know what a draft still knows *)
(* by then: whose booking it replaces, the room and the state it read, and *)
(* that no other booking of that room has come alive since (nobody else    *)
(* inserts for an Advisor whose lock is held).                             *)

Live(b) == rows[b].state # "CANCELLED"
Unconfirmed == {"PENDING_PAYMENT", "BOOKED"}

\* A reschedule that has accepted its original.
Replacing(s) ==
  /\ pc[s] \in {"cancelOriginal", "context", "derive", "buffer", "insert"}
  /\ req[s].kind = "reschedule"

\* The cancellation keeps or gives back the time by some policy in force.
Justified(start, c) ==
  IF c.blocks THEN \E p \in Policies : ~(start - c.at >= p.notice)
              ELSE \E p \in Policies : start - c.at >= p.notice

DraftOK(s) ==
  LET row == req[s].row
      o   == req[s].target
  IN  /\ row.cancelledAt = None
      /\ req[s].kind = "create" => row.state = "PENDING_PAYMENT" /\ row.room = None
      /\ req[s].kind # "create" => /\ rows[o].advisee = row.advisee
                                   /\ Justified(rows[o].start, req[s].cancellation)
      /\ Replacing(s) =>
           /\ row.state \in Unconfirmed
           /\ row.room = rows[o].room
           /\ rows[o].room # None =>
                \A b \in Committed : rows[b].room = rows[o].room /\ Live(b) => b = o

DraftsOK == \A s \in Sessions : pc[s] # "idle" => DraftOK(s)

\* A room is named after a booking, the first of its chain.
RoomsAreNamed ==
  \A b \in Committed : rows[b].room # None => rows[b].room \in Committed

\* The bookings of one room are one Advisee's with one Service.
RoomsAgree ==
  \A b, c \in Committed :
    (rows[b].room # None /\ rows[b].room = rows[c].room) =>
      /\ rows[b].service = rows[c].service
      /\ rows[b].advisee = rows[c].advisee

\* Nobody is told of a booking that was never confirmed.
ToldAfterPayment ==
  \A b \in Bookings :
    /\ told[b] <= 1
    /\ rows[b] = None => told[b] = 0
    /\ b \in Committed /\ rows[b].state = "PENDING_PAYMENT" => told[b] = 0

LedgerInv ==
  /\ IInv
  /\ DraftsOK
  /\ RoomsAreNamed
  /\ RoomsAgree
  /\ RoomsMatchBookings
  /\ OneLiveBookingPerRoom
  /\ TimeGivenBackWithNotice
  /\ ToldAfterPayment

----------------------------------------------------------------------------
(* What a step does to the tables, and to a request in flight.             *)

Later == {"BOOKED", "IN_PROGRESS", "COMPLETED", "NO_SHOW"}

Still == UNCHANGED tables

Moved(b, target) ==
  /\ b \in Committed /\ rows[b].state \in SourceStates(target)
  /\ rows' = [rows EXCEPT ![b] = [rows[b] EXCEPT !.state = target]]
  /\ told' = IF target = "BOOKED" THEN [told EXCEPT ![b] = @ + 1] ELSE told
  /\ UNCHANGED <<rooms, invoiced, pc, req>>

Applied(s) ==
  LET b == req[s].target
  IN  /\ pc[s] = "apply" /\ Answer(s)
      /\ rows[b].state \in Unconfirmed
      /\ rows' = [rows EXCEPT ![b] = Cancelled(rows[b], req[s].cancellation)]
      /\ UNCHANGED <<rooms, told, invoiced>>

Commits(s) == InsertAndCommit(s) /\ ~Rollback(s)

TableEffect ==
  \/ Still
  \/ \E b \in Bookings, target \in Later : Moved(b, target)
  \/ \E s \in Sessions : Applied(s) \/ Commits(s)
  \/ \E ids : Invoices(ids)

LEMMA TransitionMoves ==
  ASSUME TypeOK, NEW b \in Bookings, NEW target \in Later, Transition(b, target),
         told' = IF target = "BOOKED" THEN [told EXCEPT ![b] = @ + 1] ELSE told
  PROVE  Moved(b, target)
BY DEF Moved, Transition, TypeOK

LEMMA TableSteps == ASSUME TypeInv, [Next]_vars PROVE TableEffect
<1>1. ASSUME NEW s \in Sessions, Arrive(s) PROVE Still
  BY <1>1 DEF Arrive, Create, Cancel, Reschedule, Begin, Still
<1>2. ASSUME NEW s \in Sessions, Rollback(s) PROVE Still
  BY <1>2 DEF Rollback, Still
<1>3. ASSUME NEW s \in Sessions,
             \/ AcquireLock(s) \/ Reselect(s) \/ CancelOriginal(s)
             \/ ReadContext(s) \/ Derive(s) \/ ReadBuffer(s) \/ Fail(s)
      PROVE  Still
  BY <1>2, <1>3 DEF AcquireLock, Reselect, CancelOriginal, ReadContext, Derive,
                    ReadBuffer, Fail, Still
<1>4. ASSUME NEW s \in Sessions, ApplyCancellation(s) PROVE Still \/ Applied(s)
  <2>1. rows' = rows \/ Applied(s)
    BY <1>4, CancelledRow DEF ApplyCancellation, Applied, SourceStates, Unconfirmed,
       TypeInv, TypeOK, RequestsOK, RequestOK
  <2> QED
    BY <1>4, <2>1 DEF ApplyCancellation, Still, tables
<1>5. ASSUME NEW s \in Sessions, InsertAndCommit(s) PROVE Still \/ Commits(s)
  BY <1>2, <1>5 DEF Commits
<1>6. ASSUME NEW b \in Bookings,
             Start(b) \/ Complete(b) \/ RecordNoShow(b) \/ ConfirmPayment(b)
      PROVE  \E target \in Later : Moved(b, target)
  BY <1>6, TransitionMoves
     DEF Start, Complete, RecordNoShow, ConfirmPayment, Later, TypeInv
<1>7. ASSUME NEW a \in Advisors, NEW p \in Policies, UpsertGlobal(a, p) PROVE Still
  BY <1>7 DEF UpsertGlobal, Still
<1>8. CASE Tick
  BY <1>8 DEF Tick, TableEffect, Still
<1>9. CASE UNCHANGED vars
  BY <1>9 DEF vars, tables, TableEffect, Still
<1>10. ASSUME NEW ids \in SUBSET Bookings, NEW service \in Services, NEW advisee \in Advisees,
              NEW start \in [ids -> Starts], CreateInvoice(ids, service, advisee, start)
       PROVE  Invoices(ids)
  BY <1>10, InvoiceEffect
<1> QED
  BY <1>1, <1>3, <1>4, <1>5, <1>6, <1>7, <1>8, <1>9, <1>10
     DEF Next, InsideTransaction, TableEffect

\* What a request keeps of its draft from one await to the next.
Continues(t) ==
  /\ pc[t] # "idle"
  /\ req'[t].kind = req[t].kind /\ req'[t].target = req[t].target
  /\ req'[t].cancellation = req[t].cancellation
  /\ req'[t].row.advisee = req[t].row.advisee
  /\ req'[t].row.state = req[t].row.state
  /\ req'[t].row.room = req[t].row.room
  /\ req'[t].row.cancelledAt = req[t].row.cancelledAt
  /\ Replacing(t)' => Replacing(t)

Accepts(t) == Reselect(t) /\ ~Rollback(t)

Derives(t) == Derive(t) /\ ~Rollback(t)

\* A derivation that finds the slot notes what it saw, and nothing else.
LEMMA DerivedDraft ==
  ASSUME TypeInv, NEW t \in Sessions, Derives(t)
  PROVE  /\ pc[t] = "derive" /\ pc' = [pc EXCEPT ![t] = "buffer"]
         /\ req'[t].kind = req[t].kind /\ req'[t].target = req[t].target
         /\ req'[t].cancellation = req[t].cancellation
         /\ req'[t].row = req[t].row /\ req'[t].global = req[t].global
         /\ req'[t].seen = Committed
         /\ UNCHANGED <<now, policy, tables, lock>>
<1> DEFINE seen == Committed
<1>1. /\ pc[t] = "derive" /\ pc' = [pc EXCEPT ![t] = "buffer"]
      /\ req' = [req EXCEPT ![t].seen = seen]
      /\ UNCHANGED <<now, policy, tables, lock>>
  BY DEF Derives, Derive
<1>2. req[t] \in Request
  BY <1>1 DEF TypeInv, TypeOK
<1> HIDE DEF seen
<1>3. /\ req'[t].kind = req[t].kind /\ req'[t].target = req[t].target
      /\ req'[t].cancellation = req[t].cancellation
      /\ req'[t].row = req[t].row /\ req'[t].global = req[t].global
      /\ req'[t].seen = seen
  BY <1>1, <1>2 DEF TypeInv, TypeOK, Request
<1> QED
  BY <1>1, <1>3 DEF seen

LEMMA DraftSteps ==
  ASSUME TypeInv, [Next]_vars, NEW t \in Sessions, pc'[t] # "idle"
  PROVE  Continues(t) \/ Accepts(t) \/ Arrive(t)
<1>1. ASSUME pc'[t] = pc[t], req'[t] = req[t] PROVE Continues(t)
  BY <1>1 DEF Continues, Replacing
<1>2. ASSUME NEW s \in Sessions, Answer(s) PROVE Continues(t)
  BY <1>1, <1>2, AnswerType DEF TypeInv, OnlySession
<1>3. ASSUME NEW s \in Sessions, Arrive(s) PROVE Continues(t) \/ Arrive(t)
  <2>1. pc' = [pc EXCEPT ![s] = pc'[s]] /\ req' = [req EXCEPT ![s] = req'[s]]
    BY <1>3 DEF Arrive, Create, Cancel, Reschedule, Begin, TypeInv, TypeOK
  <2> QED
    BY <1>1, <1>3, <2>1 DEF TypeInv, TypeOK
<1>4. ASSUME NEW s \in Sessions, AcquireLock(s) PROVE Continues(t)
  BY <1>4 DEF AcquireLock, Continues, Replacing, TypeInv, TypeOK
<1>5. ASSUME NEW s \in Sessions, Reselect(s) PROVE Continues(t) \/ Accepts(t)
  <2>1. CASE Rollback(s)
    BY <1>2, <2>1 DEF Rollback
  <2>2. CASE ~Rollback(s) /\ t # s
    BY <1>1, <1>5, <2>2 DEF Reselect, TypeInv, TypeOK
  <2> QED
    BY <1>5, <2>1, <2>2 DEF Accepts
<1>6. ASSUME NEW s \in Sessions, CancelOriginal(s) PROVE Continues(t)
  <2>1. CASE Rollback(s)
    BY <1>2, <2>1 DEF Rollback
  <2>2. CASE ~Rollback(s)
    BY <1>6, <2>2 DEF CancelOriginal, Continues, Replacing, TypeInv, TypeOK
  <2> QED
    BY <2>1, <2>2
<1>6a. ASSUME NEW s \in Sessions, Derive(s) PROVE Continues(t)
  <2>1. CASE Rollback(s)
    BY <1>2, <2>1 DEF Rollback
  <2>2. CASE ~Rollback(s) /\ t # s
    BY <1>1, <1>6a, <2>2 DEF Derive, TypeInv, TypeOK
  <2>3. CASE ~Rollback(s) /\ t = s
    <3>1. /\ pc[t] = "derive" /\ pc' = [pc EXCEPT ![t] = "buffer"]
          /\ req'[t].kind = req[t].kind /\ req'[t].target = req[t].target
          /\ req'[t].cancellation = req[t].cancellation
          /\ req'[t].row = req[t].row
      BY <1>6a, <2>3, DerivedDraft DEF Derives
    <3> QED
      BY <3>1 DEF Continues, Replacing, TypeInv, TypeOK
  <2> QED
    BY <2>1, <2>2, <2>3
<1>7. ASSUME NEW s \in Sessions, ReadContext(s) PROVE Continues(t)
  <2>1. req[s] \in Request
    BY <1>7 DEF ReadContext, TypeInv, TypeOK
  <2>2. pc[s] = "context" /\ pc' = [pc EXCEPT ![s] = "derive"]
    BY <1>7 DEF ReadContext
  <2>3. CASE t = s
    <3>1. /\ req'[t].kind = req[t].kind /\ req'[t].target = req[t].target
          /\ req'[t].cancellation = req[t].cancellation
          /\ req'[t].row = req[t].row
      BY <1>7, <2>1, <2>3 DEF ReadContext, TypeInv, TypeOK, Request
    <3> QED
      BY <2>2, <2>3, <3>1 DEF Continues, Replacing, TypeInv, TypeOK
  <2>4. CASE t # s
    BY <1>1, <1>7, <2>4 DEF ReadContext, TypeInv, TypeOK
  <2> QED
    BY <2>3, <2>4
<1>8. ASSUME NEW s \in Sessions, ReadBuffer(s) PROVE Continues(t)
  <2> DEFINE until == EndOf(req[s].row) + policy[AdvisorOf(req[s].row)].buffer
             row == [req[s].row EXCEPT !.until = until]
  <2>1. req[s] \in Request /\ req[s].row \in Row
    BY <1>8 DEF ReadBuffer, TypeInv, TypeOK, Request
  <2>2. /\ pc[s] = "buffer" /\ pc' = [pc EXCEPT ![s] = "insert"]
        /\ req' = [req EXCEPT ![s].row = row]
    BY <1>8 DEF ReadBuffer
  <2>3. /\ row.advisee = req[s].row.advisee /\ row.state = req[s].row.state
        /\ row.room = req[s].row.room /\ row.cancelledAt = req[s].row.cancelledAt
    BY <2>1 DEF Row
  <2> HIDE DEF row
  <2>4. CASE t = s
    <3>1. /\ req'[t].kind = req[t].kind /\ req'[t].target = req[t].target
          /\ req'[t].cancellation = req[t].cancellation /\ req'[t].row = row
      BY <2>1, <2>2, <2>4 DEF TypeInv, TypeOK, Request
    <3> QED
      BY <2>2, <2>3, <2>4, <3>1 DEF Continues, Replacing, TypeInv, TypeOK
  <2>5. CASE t # s
    BY <1>1, <2>2, <2>5 DEF TypeInv, TypeOK
  <2> QED
    BY <2>4, <2>5
<1>9. ASSUME NEW s \in Sessions, ApplyCancellation(s) PROVE Continues(t)
  BY <1>2, <1>9 DEF ApplyCancellation
<1>10. ASSUME NEW s \in Sessions, InsertAndCommit(s) \/ Fail(s) PROVE Continues(t)
  BY <1>2, <1>10 DEF InsertAndCommit, Fail, Rollback
<1>11. ASSUME NEW b \in Bookings,
              Start(b) \/ Complete(b) \/ RecordNoShow(b) \/ ConfirmPayment(b)
       PROVE  Continues(t)
  BY <1>1, <1>11 DEF Start, Complete, RecordNoShow, ConfirmPayment, Transition
<1>12. ASSUME NEW a \in Advisors, NEW p \in Policies, UpsertGlobal(a, p)
       PROVE  Continues(t)
  BY <1>1, <1>12 DEF UpsertGlobal
<1>13. CASE Tick \/ UNCHANGED vars
  BY <1>1, <1>13 DEF Tick, vars
<1>14. ASSUME NEW ids \in SUBSET Bookings, NEW service \in Services, NEW advisee \in Advisees,
              NEW start \in [ids -> Starts], CreateInvoice(ids, service, advisee, start)
       PROVE  Continues(t)
  BY <1>1, <1>14 DEF CreateInvoice
<1> QED
  BY <1>14, <1>3, <1>4, <1>5, <1>6, <1>6a, <1>7, <1>8, <1>9, <1>10, <1>11, <1>12, <1>13
     DEF Next, InsideTransaction

----------------------------------------------------------------------------
(* Committed rows keep what identifies them.                               *)

RowsKept ==
  \A b \in Bookings : rows[b] # None =>
    /\ rows'[b] # None
    /\ rows'[b].service = rows[b].service /\ rows'[b].advisee = rows[b].advisee
    /\ rows'[b].start = rows[b].start /\ rows'[b].room = rows[b].room
    /\ ~Live(b) => rows'[b].state = "CANCELLED"

\* A cancellation writes the state, the time it keeps and the moment.
LEMMA CancelledKeeps ==
  ASSUME NEW row \in Row, NEW c \in Cancellation
  PROVE  LET new == Cancelled(row, c)
         IN  /\ new \in Row
             /\ new.service = row.service /\ new.advisee = row.advisee
             /\ new.start = row.start /\ new.until = row.until /\ new.room = row.room
             /\ new.state = "CANCELLED"
             /\ new.blocks = c.blocks /\ new.cancelledAt = c.at
BY DEF Cancelled, Row, Cancellation, States

LEMMA MovedRow ==
  ASSUME TypeOK, NEW b \in Bookings, NEW target \in Later, Moved(b, target)
  PROVE  /\ rows[b] \in Row /\ rows'[b] = [rows[b] EXCEPT !.state = target]
         /\ rows'[b] \in Row /\ rows'[b].state = target
         /\ rows'[b].service = rows[b].service /\ rows'[b].advisee = rows[b].advisee
         /\ rows'[b].start = rows[b].start /\ rows'[b].room = rows[b].room
         /\ rows'[b].blocks = rows[b].blocks
         /\ rows'[b].cancelledAt = rows[b].cancelledAt
         /\ rows[b].state \in {"PENDING_PAYMENT", "BOOKED", "IN_PROGRESS"}
         /\ \A c \in Bookings \ {b} : rows'[c] = rows[c]
<1> DEFINE new == [rows[b] EXCEPT !.state = target]
<1>1. rows[b] \in Row
  BY CommittedRows DEF Moved
<1>2. /\ new \in Row /\ new.state = target
      /\ new.service = rows[b].service /\ new.advisee = rows[b].advisee
      /\ new.start = rows[b].start /\ new.room = rows[b].room
      /\ new.blocks = rows[b].blocks /\ new.cancelledAt = rows[b].cancelledAt
  BY <1>1 DEF Row, States, Later
<1>3. rows'[b] = new /\ \A c \in Bookings \ {b} : rows'[c] = rows[c]
  BY DEF Moved, TypeOK
<1>4. rows[b].state \in {"PENDING_PAYMENT", "BOOKED", "IN_PROGRESS"}
  BY DEF Moved, SourceStates, Later
<1> HIDE DEF new
<1> QED
  BY <1>1, <1>2, <1>3, <1>4 DEF new

LEMMA AppliedRow ==
  ASSUME TypeInv, NEW s \in Sessions, Applied(s)
  PROVE  LET b == req[s].target
         IN  /\ b \in Bookings /\ rows[b] \in Row /\ RequestOK(s)
             /\ req[s].cancellation \in Cancellation
             /\ rows'[b] = Cancelled(rows[b], req[s].cancellation)
             /\ \A c \in Bookings \ {b} : rows'[c] = rows[c]
<1>1. RequestOK(s) /\ pc[s] # "idle" /\ req[s].kind = "cancel"
  BY DEF Applied, TypeInv, RequestsOK, RequestOK
<1> QED
  BY <1>1, CancelledRow DEF Applied, TypeInv, TypeOK

LEMMA CommitsRows ==
  ASSUME TypeInv, IdsAreFresh, NEW s \in Sessions, Commits(s)
  PROVE  LET o   == req[s].target
             id  == req[s].new
             row == req[s].row
         IN  /\ pc[s] = "insert" /\ RequestOK(s) /\ Answer(s)
             /\ row \in Row /\ id \in Bookings /\ rows[id] = None
             /\ rows'[id] = [row EXCEPT !.room = RoomOf(row, id)]
             /\ req[s].kind = "create" =>
                  \A b \in Bookings \ {id} : rows'[b] = rows[b]
             /\ req[s].kind = "reschedule" =>
                  /\ o \in Committed /\ rows[o] \in Row /\ o # id
                  /\ req[s].cancellation \in Cancellation
                  /\ rows'[o] = Cancelled(rows[o], req[s].cancellation)
                  /\ \A b \in Bookings \ {o, id} : rows'[b] = rows[b]
             /\ req[s].kind \in {"create", "reschedule"}
             /\ rooms' = OpenBookingChatRoom(row, id) /\ UNCHANGED <<told, invoiced>>
<1> DEFINE o   == req[s].target
           id  == req[s].new
           row == req[s].row
           new == [row EXCEPT !.room = RoomOf(row, id)]
<1>1. /\ pc[s] = "insert" /\ RequestOK(s) /\ Answer(s)
      /\ row \in Row /\ id \in Bookings /\ rows[id] = None
      /\ OwnView(s) \in [Bookings -> Row \cup {None}]
      /\ rows' = [OwnView(s) EXCEPT ![id] = new]
  BY CommitEffect DEF Commits
<1> HIDE DEF new
<1>2. rows'[id] = new /\ \A b \in Bookings \ {id} : rows'[b] = OwnView(s)[b]
  BY <1>1
<1>3. req[s].kind = "create" => OwnView(s) = rows
  BY DEF OwnView
<1>4. ASSUME req[s].kind = "reschedule"
      PROVE  /\ o \in Committed /\ rows[o] \in Row /\ o # id
             /\ req[s].cancellation \in Cancellation
             /\ OwnView(s)[o] = Cancelled(rows[o], req[s].cancellation)
             /\ \A b \in Bookings \ {o, id} : OwnView(s)[b] = rows[b]
  <2>1. o \in Committed
    BY <1>1, <1>4 DEF RequestOK
  <2> QED
    BY <1>1, <1>4, <2>1, CancelledRow DEF OwnView, TypeInv, TypeOK, Committed
<1>5. req[s].kind \in {"create", "reschedule"}
  BY <1>1 DEF RequestOK
<1>6. rooms' = OpenBookingChatRoom(row, id) /\ UNCHANGED <<told, invoiced>>
  BY DEF Commits, InsertAndCommit
<1> QED
  BY <1>1, <1>2, <1>3, <1>4, <1>5, <1>6 DEF new, Committed

LEMMA KeptStep == ASSUME TypeInv, IdsAreFresh, TableEffect PROVE RowsKept
<1>1. CASE Still
  BY <1>1 DEF Still, tables, RowsKept, Live
<1>2. ASSUME NEW b \in Bookings, NEW target \in Later, Moved(b, target) PROVE RowsKept
  <2>1. /\ rows[b] \in Row /\ rows'[b] \in Row
        /\ rows'[b].service = rows[b].service /\ rows'[b].advisee = rows[b].advisee
        /\ rows'[b].start = rows[b].start /\ rows'[b].room = rows[b].room
        /\ Live(b)
        /\ \A c \in Bookings \ {b} : rows'[c] = rows[c]
    BY <1>2, MovedRow DEF TypeInv, Live
  <2> QED
    BY <2>1, ConstantsAssumption DEF RowsKept, Live
<1>3. ASSUME NEW s \in Sessions, Applied(s) PROVE RowsKept
  <2> DEFINE b   == req[s].target
             new == Cancelled(rows[b], req[s].cancellation)
  <2>1. /\ b \in Bookings /\ rows[b] \in Row /\ rows'[b] = new
        /\ \A c \in Bookings \ {b} : rows'[c] = rows[c]
        /\ new \in Row
        /\ new.service = rows[b].service /\ new.advisee = rows[b].advisee
        /\ new.start = rows[b].start /\ new.room = rows[b].room
        /\ new.state = "CANCELLED"
    BY <1>3, AppliedRow, CancelledKeeps
  <2> HIDE DEF b, new
  <2> QED
    BY <2>1, ConstantsAssumption DEF RowsKept, Live
<1>4. ASSUME NEW s \in Sessions, Commits(s) PROVE RowsKept
  <2> DEFINE o   == req[s].target
             id  == req[s].new
             new == Cancelled(rows[o], req[s].cancellation)
  <2>1. id \in Bookings /\ rows[id] = None
    BY <1>4, CommitsRows
  <2>2. CASE req[s].kind = "create"
    <3>1. \A b \in Bookings \ {id} : rows'[b] = rows[b]
      BY <1>4, <2>2, CommitsRows
    <3> QED
      BY <2>1, <3>1 DEF RowsKept, Live
  <2>3. CASE req[s].kind = "reschedule"
    <3>1. /\ rows[o] \in Row /\ rows'[o] = new
          /\ req[s].cancellation \in Cancellation
          /\ \A b \in Bookings \ {o, id} : rows'[b] = rows[b]
      BY <1>4, <2>3, CommitsRows
    <3>2. /\ new \in Row
          /\ new.service = rows[o].service /\ new.advisee = rows[o].advisee
          /\ new.start = rows[o].start /\ new.room = rows[o].room
          /\ new.state = "CANCELLED"
      BY <3>1, CancelledKeeps
    <3> HIDE DEF o, id, new
    <3> QED
      BY <2>1, <3>1, <3>2, ConstantsAssumption DEF RowsKept, Live
  <2> QED
    BY <1>4, <2>2, <2>3, CommitsRows
<1>5. ASSUME NEW ids, Invoices(ids) PROVE RowsKept
  BY <1>5 DEF Invoices, Fresh, RowsKept, Live
<1> QED
  BY <1>1, <1>2, <1>3, <1>4, <1>5 DEF TableEffect

----------------------------------------------------------------------------
(* What a commit adds: a first booking with a room of its own, or the next *)
(* booking of a room, which is opened when an invoice booked the original. *)

OpensRoom(id) ==
  /\ rows'[id].room = id
  /\ rooms' = [rooms EXCEPT ![id] = {rows'[id].advisee, AdvisorOf(rows'[id])}]

Opens(s) ==
  LET id == req[s].new
  IN  /\ rows[id] = None /\ id \in Bookings
      /\ rows'[id] \in Row /\ rows'[id].service \in Services
      /\ rows'[id].blocks /\ rows'[id].cancelledAt = None
      /\ rows'[id].state = "PENDING_PAYMENT"
      /\ \A b \in Bookings \ {id} : rows'[b] = rows[b]
      /\ OpensRoom(id)
      /\ UNCHANGED <<told, invoiced>>

Replaces(s) ==
  LET o  == req[s].target
      id == req[s].new
  IN  /\ rows[id] = None /\ id \in Bookings
      /\ rows'[id] \in Row
      /\ rows'[id].blocks /\ rows'[id].cancelledAt = None
      /\ rows'[id].state \in Unconfirmed
      /\ o \in Committed /\ rows[o] \in Row /\ o # id
      /\ req[s].cancellation \in Cancellation
      /\ Justified(rows[o].start, req[s].cancellation)
      /\ rows'[o] = Cancelled(rows[o], req[s].cancellation)
      /\ rows'[id].service = rows[o].service
      /\ rows'[id].advisee = rows[o].advisee
      /\ \A b \in Bookings \ {o, id} : rows'[b] = rows[b]
      /\ IF rows[o].room = None
           THEN OpensRoom(id)
           ELSE /\ rows'[id].room = rows[o].room /\ rooms' = rooms
                /\ \A b \in Committed : rows[b].room = rows[o].room /\ Live(b) => b = o
      /\ UNCHANGED <<told, invoiced>>

LEMMA Commitment ==
  ASSUME LedgerInv, NEW s \in Sessions, Commits(s)
  PROVE  /\ pc[s] = "insert" /\ Answer(s) /\ RequestOK(s)
         /\ \/ req[s].kind = "create" /\ Opens(s)
            \/ req[s].kind = "reschedule" /\ Replacing(s) /\ Replaces(s)
<1> DEFINE o   == req[s].target
           id  == req[s].new
           row == req[s].row
           new == [row EXCEPT !.room = RoomOf(row, id)]
<1>1. /\ pc[s] = "insert" /\ RequestOK(s) /\ Answer(s)
      /\ row \in Row /\ id \in Bookings /\ rows[id] = None /\ rows'[id] = new
      /\ req[s].kind \in {"create", "reschedule"}
      /\ rooms' = OpenBookingChatRoom(row, id) /\ UNCHANGED <<told, invoiced>>
  BY CommitsRows DEF LedgerInv, IInv
<1>2. DraftOK(s) /\ row.blocks
  BY <1>1 DEF LedgerInv, DraftsOK, RequestOK
<1>3. /\ new \in Row /\ new.service = row.service /\ new.advisee = row.advisee
      /\ new.blocks = row.blocks /\ new.cancelledAt = row.cancelledAt
      /\ new.state = row.state /\ new.room = RoomOf(row, id)
  BY <1>1 DEF Row, RoomOf
<1>3a. row.room = None => OpensRoom(id)
  <2> SUFFICES ASSUME row.room = None PROVE OpensRoom(id)
    OBVIOUS
  <2>1. new.room = id /\ AdvisorOf(new) = AdvisorOf(row)
    BY <1>3 DEF RoomOf, AdvisorOf
  <2>2. rooms' = [rooms EXCEPT ![id] = {new.advisee, AdvisorOf(new)}]
    BY <1>1, <1>3, <2>1 DEF OpenBookingChatRoom
  <2> HIDE DEF new, id
  <2> QED
    BY <1>1, <2>1, <2>2 DEF OpensRoom
<1>4. CASE req[s].kind = "create"
  <2>1. row.state = "PENDING_PAYMENT" /\ row.room = None /\ row.cancelledAt = None
    BY <1>2, <1>4 DEF DraftOK
  <2>2. \A b \in Bookings \ {id} : rows'[b] = rows[b]
    BY <1>4, CommitsRows DEF LedgerInv, IInv
  <2>3. OpensRoom(id)
    BY <1>3a, <2>1
  <2>5. new.service \in Services
    BY <1>3 DEF Row
  <2> HIDE DEF new, row, id
  <2>6. Opens(s)
    BY <1>1, <1>2, <1>3, <2>1, <2>2, <2>3, <2>5 DEF Opens, id
  <2> QED
    BY <1>1, <1>4, <2>6
<1>5. CASE req[s].kind = "reschedule"
  <2>1. Replacing(s)
    BY <1>1, <1>5 DEF Replacing
  <2>2. /\ row.state \in Unconfirmed /\ row.cancelledAt = None
        /\ row.room = rows[o].room /\ rows[o].advisee = row.advisee
        /\ Justified(rows[o].start, req[s].cancellation)
        /\ rows[o].room # None =>
             \A b \in Committed : rows[b].room = rows[o].room /\ Live(b) => b = o
    BY <1>2, <1>5, <2>1 DEF DraftOK
  <2>3. /\ o \in Committed /\ rows[o] \in Row /\ o # id
        /\ req[s].cancellation \in Cancellation
        /\ rows'[o] = Cancelled(rows[o], req[s].cancellation)
        /\ \A b \in Bookings \ {o, id} : rows'[b] = rows[b]
    BY <1>5, CommitsRows DEF LedgerInv, IInv
  <2>4. rows[o].room = None => OpensRoom(id)
    BY <1>3a, <2>2
  <2>5. rows[o].room # None => new.room = rows[o].room /\ rooms' = rooms
    BY <1>1, <1>3, <2>2 DEF RoomOf, OpenBookingChatRoom
  <2>6. rows[o].service = row.service
    BY <1>1, <1>5 DEF RequestOK
  <2> HIDE DEF new, row, id, o
  <2>7. Replaces(s)
    BY <1>1, <1>2, <1>3, <2>2, <2>3, <2>4, <2>5, <2>6 DEF Replaces, id, o
  <2> QED
    BY <1>1, <1>5, <2>1, <2>7
<1> QED
  BY <1>1, <1>4, <1>5

----------------------------------------------------------------------------
(* What drafts know.                                                       *)

\* The other bookings of the room a reschedule will use stay cancelled.
LEMMA NoRival ==
  ASSUME LedgerInv, TableEffect, NEW t \in Sessions, Replacing(t), pc'[t] # "idle",
         rows[req[t].target].room # None,
         NEW b \in Committed', rows'[b].room = rows[req[t].target].room, Live(b)'
  PROVE  b = req[t].target
<1> DEFINE o == req[t].target
<1> USE DEF LedgerInv, IInv
<1>1. /\ RequestOK(t) /\ DraftOK(t) /\ pc[t] \in InTransaction
      /\ o \in Committed /\ rows[o].service = req[t].row.service
  BY DEF Replacing, RequestOK, TypeInv, RequestsOK, DraftsOK, InTransaction
<1>2. RowsKept /\ b \in Bookings
  BY KeptStep DEF Committed
<1>3. CASE b \in Committed
  <2>1. rows[b].room = rows[o].room /\ Live(b)
    BY <1>2, <1>3 DEF RowsKept, Committed, Live
  <2> QED
    BY <1>1, <1>3, <2>1 DEF DraftOK
<1>4. CASE b \notin Committed
  <2>1. PICK s \in Sessions : Commits(s)
    <3>1. rows'[b] # None /\ rows[b] = None
      BY <1>2, <1>4 DEF Committed
    <3>2. ASSUME NEW c \in Bookings, NEW target \in Later, Moved(c, target) PROVE FALSE
      BY <1>2, <3>1, <3>2, MovedRow, ConstantsAssumption DEF TypeInv
    <3>3. ASSUME NEW s \in Sessions, Applied(s) PROVE FALSE
      BY <1>2, <3>1, <3>3, AppliedRow, ConstantsAssumption
    <3>4. ASSUME NEW ids, Invoices(ids) PROVE FALSE
      BY <1>2, <3>1, <3>4 DEF Invoices, IsInvoiceRow
    <3> QED
      BY <3>1, <3>2, <3>3, <3>4 DEF TableEffect, Still, tables
  <2>2. t # s
    BY <2>1, Commitment, AnswerType DEF TypeInv
  <2>3. CASE Opens(s)
    <3>1. b = req[s].new
      BY <1>2, <1>4, <2>3 DEF Opens, Committed
    <3> QED
      BY <1>1, <1>4, <2>3, <3>1 DEF Opens, OpensRoom, RoomsAreNamed
  <2>4. CASE Replacing(s) /\ Replaces(s)
    <3>1. b = req[s].new
      BY <1>2, <1>4, <2>4 DEF Replaces, Committed
    <3>2. req[s].target \in Committed /\ rows[req[s].target].room = rows[o].room
      BY <1>1, <1>4, <2>4, <3>1 DEF Replaces, OpensRoom, RoomsAreNamed
    <3>3. rows[req[s].target].service = rows[o].service
      BY <1>1, <3>2 DEF RoomsAgree
    <3>4. RequestOK(s) /\ pc[s] \in InTransaction
      BY <2>1, Commitment DEF InTransaction
    <3>5. rows[req[s].target].service = req[s].row.service
      BY <2>4, <3>4 DEF RequestOK, Replacing
    <3>6. AdvisorOf(req[s].row) = AdvisorOf(req[t].row)
      BY <1>1, <3>3, <3>5 DEF AdvisorOf
    <3> QED
      BY <1>1, <2>2, <3>4, <3>6 DEF HoldsLock
  <2> QED
    BY <2>1, <2>3, <2>4, Commitment
<1> QED
  BY <1>3, <1>4

LEMMA ContinuedDraft ==
  ASSUME LedgerInv, TableEffect, NEW t \in Sessions, Continues(t), pc'[t] # "idle"
  PROVE  DraftOK(t)'
<1> DEFINE o == req[t].target
<1> USE DEF LedgerInv, IInv
<1>1. DraftOK(t) /\ RequestOK(t) /\ RowsKept
  BY KeptStep DEF Continues, DraftsOK, TypeInv, RequestsOK
<1>2. req[t].kind # "create" =>
        /\ o \in Bookings /\ rows[o] # None
        /\ rows'[o].advisee = rows[o].advisee
        /\ rows'[o].start = rows[o].start /\ rows'[o].room = rows[o].room
  BY <1>1 DEF RequestOK, RowsKept, Committed
<1>3. ASSUME Replacing(t) PROVE req[t].kind # "create"
  BY <1>3 DEF Replacing
<1>4. ASSUME Replacing(t), rows'[o].room # None,
             NEW b \in Committed', rows'[b].room = rows'[o].room, Live(b)'
      PROVE  b = o
  BY <1>2, <1>3, <1>4, NoRival
<1> QED
  BY <1>1, <1>2, <1>3, <1>4 DEF Continues, DraftOK

LEMMA AcceptedDraft ==
  ASSUME LedgerInv, NEW t \in Sessions, Accepts(t)
  PROVE  DraftOK(t)'
<1> DEFINE o   == req[t].target
           row == [req[t].row EXCEPT !.state = rows[o].state, !.room = rows[o].room]
<1> USE DEF LedgerInv, IInv
<1>1. /\ pc[t] = "reselect" /\ rows[o].state \in Unconfirmed
      /\ req' = [req EXCEPT ![t].row = row] /\ rows' = rows
  BY DEF Accepts, Reselect, tables, SourceStates, Unconfirmed
<1>2. req[t] \in Request /\ RequestOK(t) /\ DraftOK(t)
  BY <1>1 DEF TypeInv, TypeOK, RequestsOK, DraftsOK
<1>3. /\ row.cancelledAt = req[t].row.cancelledAt /\ row.advisee = req[t].row.advisee
      /\ row.state = rows[o].state /\ row.room = rows[o].room
  BY <1>2 DEF Request, Row
<1>4. o \in Committed /\ req[t].kind = "reschedule"
  BY <1>1, <1>2 DEF RequestOK
<1>5. rows[o].room # None =>
        \A b \in Committed : rows[b].room = rows[o].room /\ Live(b) => b = o
  BY <1>1, <1>4 DEF OneLiveBookingPerRoom, Live, Unconfirmed
<1> HIDE DEF row
<1>6. /\ req'[t].row = row /\ req'[t].target = o
      /\ req'[t].kind = req[t].kind /\ req'[t].cancellation = req[t].cancellation
  BY <1>1, <1>2 DEF TypeInv, TypeOK, Request
<1>7. Committed' = Committed /\ \A b \in Bookings : Live(b)' <=> Live(b)
  BY <1>1 DEF Committed, Live
<1> QED
  BY <1>1, <1>2, <1>3, <1>4, <1>5, <1>6, <1>7 DEF DraftOK, Committed

LEMMA ArrivingDraft ==
  ASSUME LedgerInv, NEW t \in Sessions, Arrive(t)
  PROVE  DraftOK(t)'
<1> USE DEF LedgerInv, IInv
<1>1. rows' = rows /\ ~Replacing(t)'
  BY ArriveEffect DEF Replacing
<1>2. ASSUME NEW new \in Bookings, NEW service \in Services,
             NEW advisee \in Advisees, NEW start \in Starts,
             Create(t, new, service, advisee, start)
      PROVE  DraftOK(t)'
  <2>1. /\ req'[t].kind = "create"
        /\ req'[t].row = NewRow(service, advisee, start)
    BY <1>2 DEF Create, Begin, TypeInv, TypeOK
  <2>2. /\ req'[t].row.cancelledAt = None /\ req'[t].row.room = None
        /\ req'[t].row.state = "PENDING_PAYMENT"
    BY <2>1 DEF NewRow
  <2> QED
    BY <1>1, <2>1, <2>2 DEF DraftOK
<1>3. ASSUME NEW kind \in {"cancel", "reschedule"}, NEW b \in Committed,
             NEW new \in Bookings, NEW start, NEW step,
             Begin(t, step, About(kind, b, new, start))
      PROVE  DraftOK(t)'
  <2> DEFINE request == About(kind, b, new, start)
             p == policy[AdvisorOf(rows[b])]
  <2>1. req'[t] = request
    BY <1>3 DEF Begin, TypeInv, TypeOK
  <2>2. /\ request.kind = kind /\ request.target = b
        /\ request.cancellation = CancellationValues(rows[b])
        /\ request.row.cancelledAt = None
        /\ request.row.advisee = rows[b].advisee
    BY DEF About, NewRow
  <2>3. p \in Policies
    BY CommittedRows, AdvisorType DEF TypeInv, TypeOK
  <2>4. Justified(rows[b].start, CancellationValues(rows[b]))
    BY <2>3 DEF Justified, CancellationValues, ReopensAvailability
  <2> HIDE DEF request
  <2> QED
    BY <1>1, <1>3, <2>1, <2>2, <2>4 DEF DraftOK
<1>4. ASSUME NEW b \in Bookings, Cancel(t, b) PROVE DraftOK(t)'
  BY <1>3, <1>4 DEF Cancel
<1>5. ASSUME NEW b \in Bookings, NEW new \in Bookings, NEW start \in Starts,
             Reschedule(t, b, new, start)
      PROVE  DraftOK(t)'
  BY <1>3, <1>5 DEF Reschedule
<1> QED
  BY <1>2, <1>4, <1>5 DEF Arrive

LEMMA DraftsStep == LedgerInv /\ [Next]_vars => DraftsOK'
<1> SUFFICES ASSUME LedgerInv, [Next]_vars, NEW t \in Sessions, pc'[t] # "idle"
             PROVE  DraftOK(t)'
  BY DEF DraftsOK
<1>1. TableEffect
  BY TableSteps DEF LedgerInv, IInv
<1>2. Continues(t) \/ Accepts(t) \/ Arrive(t)
  BY DraftSteps DEF LedgerInv, IInv
<1> QED
  BY <1>1, <1>2, ContinuedDraft, AcceptedDraft, ArrivingDraft

----------------------------------------------------------------------------
(* Rooms.                                                                  *)

RoomsInv ==
  RoomsAreNamed /\ RoomsAgree /\ RoomsMatchBookings /\ OneLiveBookingPerRoom

\* Steps that add no booking.
LEMMA InPlaceRooms ==
  ASSUME TypeOK, RoomsInv, RowsKept, Committed' = Committed,
         UNCHANGED <<rooms, invoiced>>
  PROVE  RoomsInv'
<1>1. ASSUME NEW b \in Committed
      PROVE  /\ rows'[b].service = rows[b].service
             /\ rows'[b].advisee = rows[b].advisee
             /\ rows'[b].room = rows[b].room
             /\ Live(b)' => Live(b)
             /\ AdvisorOf(rows'[b]) = AdvisorOf(rows[b])
  BY DEF RowsKept, Committed, Live, AdvisorOf
<1>2. RoomsAreNamed' /\ RoomsAgree'
  BY <1>1 DEF RoomsInv, RoomsAreNamed, RoomsAgree
<1>3. RoomsMatchBookings'
  BY <1>1 DEF RoomsInv, RoomsMatchBookings
<1>4. OneLiveBookingPerRoom'
  BY <1>1 DEF RoomsInv, OneLiveBookingPerRoom, Live
<1> QED
  BY <1>2, <1>3, <1>4 DEF RoomsInv

\* A new booking with a room of its own.
LEMMA OpensRooms ==
  ASSUME TypeOK, RoomsInv, RowsKept, NEW id \in Bookings, rows[id] = None,
         Committed' = Committed \cup {id}, OpensRoom(id), invoiced' = invoiced
  PROVE  RoomsInv'
<1>1. id \in Bookings /\ id \notin Committed
  BY DEF Committed
<1>2. ASSUME NEW b \in Committed
      PROVE  /\ rows'[b].service = rows[b].service
             /\ rows'[b].advisee = rows[b].advisee
             /\ rows'[b].room = rows[b].room
             /\ Live(b)' => Live(b)
             /\ AdvisorOf(rows'[b]) = AdvisorOf(rows[b])
             /\ b # id
  BY <1>1 DEF RowsKept, Committed, Live, AdvisorOf
<1>3. \A b \in Committed : rows[b].room # id
  BY <1>1, ConstantsAssumption DEF RoomsInv, RoomsAreNamed
<1>4. /\ rows'[id].room = id /\ id # None
      /\ rooms' = [rooms EXCEPT ![id] = {rows'[id].advisee, AdvisorOf(rows'[id])}]
  BY ConstantsAssumption DEF OpensRoom
<1>4a. rooms'[id] = {rows'[id].advisee, AdvisorOf(rows'[id])}
  BY <1>1, <1>4 DEF TypeOK
<1>5. RoomsAreNamed'
  BY <1>1, <1>2, <1>4 DEF RoomsInv, RoomsAreNamed
<1>6. RoomsAgree'
  BY <1>1, <1>2, <1>3, <1>4 DEF RoomsInv, RoomsAgree
<1>7. RoomsMatchBookings'
  <2>1. ASSUME NEW b \in Committed'
        PROVE  \/ /\ rows'[b].room # None
                  /\ rooms'[rows'[b].room] = {rows'[b].advisee, AdvisorOf(rows'[b])}
               \/ rows'[b].room = None /\ b \in invoiced'
    <3>1. CASE b = id
      BY <1>4, <1>4a, <3>1
    <3>2. CASE b # id /\ rows[b].room # None
      <4>1. b \in Committed /\ rows'[b].room = rows[b].room /\ rows[b].room # id
        BY <1>2, <1>3, <2>1, <3>2
      <4>2. rows[b].room \in Bookings
        BY <3>2, <4>1 DEF RoomsInv, RoomsAreNamed, Committed
      <4>3. rooms'[rows[b].room] = rooms[rows[b].room]
        BY <1>4, <4>1, <4>2 DEF TypeOK
      <4> QED
        BY <1>2, <3>2, <4>1, <4>3 DEF RoomsInv, RoomsMatchBookings
    <3>3. CASE b # id /\ rows[b].room = None
      BY <1>2, <2>1, <3>3 DEF RoomsInv, RoomsMatchBookings
    <3> QED
      BY <3>1, <3>2, <3>3
  <2>2. ASSUME NEW r \in Bookings, rooms'[r] # {}
        PROVE  \E b \in Committed' : rows'[b].room = r
    BY <1>1, <1>2, <1>4, <2>2 DEF RoomsInv, RoomsMatchBookings, TypeOK
  <2> QED
    BY <2>1, <2>2 DEF RoomsMatchBookings
<1>8. OneLiveBookingPerRoom'
  BY <1>1, <1>2, <1>3, <1>4 DEF RoomsInv, OneLiveBookingPerRoom, Live
<1> QED
  BY <1>5, <1>6, <1>7, <1>8 DEF RoomsInv

\* The next booking of the room its original has.
LEMMA ReplacesRooms ==
  ASSUME TypeOK, RoomsInv, RowsKept, NEW s \in Sessions, Replaces(s),
         rows[req[s].target].room # None
  PROVE  RoomsInv'
<1> DEFINE o  == req[s].target
           id == req[s].new
<1>1. /\ id \in Bookings /\ id \notin Committed /\ o \in Committed /\ o # id
      /\ rows'[id].room = rows[o].room /\ rows'[id].service = rows[o].service
      /\ rows'[id].advisee = rows[o].advisee
      /\ \A b \in Committed : rows[b].room = rows[o].room /\ Live(b) => b = o
      /\ rooms' = rooms /\ invoiced' = invoiced /\ rows[o].room # None
  BY DEF Replaces, Committed
<1>2. Committed' = Committed \cup {id}
  BY ConstantsAssumption DEF Replaces, RowsKept, Committed
<1>3. rows'[o].state = "CANCELLED"
  BY CancelledType DEF Replaces
<1>4. ASSUME NEW b \in Committed
      PROVE  /\ rows'[b].service = rows[b].service
             /\ rows'[b].advisee = rows[b].advisee
             /\ rows'[b].room = rows[b].room
             /\ Live(b)' => Live(b)
             /\ AdvisorOf(rows'[b]) = AdvisorOf(rows[b])
  BY DEF RowsKept, Committed, Live, AdvisorOf
<1>5. AdvisorOf(rows'[id]) = AdvisorOf(rows[o])
  BY <1>1 DEF AdvisorOf
<1> HIDE DEF o, id
<1>6. RoomsAreNamed'
  BY <1>1, <1>2, <1>4 DEF RoomsInv, RoomsAreNamed
<1>7. RoomsAgree'
  BY <1>1, <1>2, <1>4 DEF RoomsInv, RoomsAgree
<1>8. RoomsMatchBookings'
  <2>1. ASSUME NEW b \in Committed'
        PROVE  \/ /\ rows'[b].room # None
                  /\ rooms'[rows'[b].room] = {rows'[b].advisee, AdvisorOf(rows'[b])}
               \/ rows'[b].room = None /\ b \in invoiced'
    BY <1>1, <1>2, <1>4, <1>5, <2>1 DEF RoomsInv, RoomsMatchBookings
  <2>2. ASSUME NEW r \in Bookings, rooms'[r] # {}
        PROVE  \E b \in Committed' : rows'[b].room = r
    BY <1>1, <1>2, <1>4, <2>2 DEF RoomsInv, RoomsMatchBookings
  <2> QED
    BY <2>1, <2>2 DEF RoomsMatchBookings
<1>9. OneLiveBookingPerRoom'
  <2> SUFFICES ASSUME NEW b \in Committed', NEW c \in Committed',
                      rows'[b].room # None, rows'[b].room = rows'[c].room,
                      Live(b)', Live(c)'
               PROVE  b = c
    BY DEF OneLiveBookingPerRoom, Live
  <2>1. ASSUME NEW d \in Committed, rows'[d].room = rows[o].room PROVE ~Live(d)'
    BY <1>1, <1>3, <1>4, <2>1 DEF Live
  <2>2. CASE b = id \/ c = id
    BY <1>1, <1>2, <2>1, <2>2
  <2>3. CASE b # id /\ c # id
    BY <1>2, <1>4, <2>3 DEF RoomsInv, OneLiveBookingPerRoom, Live
  <2> QED
    BY <2>2, <2>3
<1> QED
  BY <1>6, <1>7, <1>8, <1>9 DEF RoomsInv

\* The appointments of an invoice: none has a room.
LEMMA InvoiceRooms ==
  ASSUME TypeOK, RoomsInv, NEW ids, Invoices(ids)
  PROVE  RoomsInv'
<1>1. /\ Committed' = Committed \cup ids
      /\ \A b \in ids : rows'[b].room = None
      /\ \A b \in Committed : rows'[b] = rows[b] /\ b \notin ids
      /\ rooms' = rooms /\ invoiced' = invoiced \cup ids
  BY ConstantsAssumption DEF Invoices, IsInvoiceRow, Fresh, Committed
<1>2. RoomsAreNamed' /\ RoomsAgree'
  BY <1>1 DEF RoomsInv, RoomsAreNamed, RoomsAgree
<1>3. RoomsMatchBookings'
  BY <1>1 DEF RoomsInv, RoomsMatchBookings, AdvisorOf
<1>4. OneLiveBookingPerRoom'
  BY <1>1 DEF RoomsInv, OneLiveBookingPerRoom
<1> QED
  BY <1>2, <1>3, <1>4 DEF RoomsInv

LEMMA InPlace ==
  ASSUME TypeInv, Still \/ (\E b \in Bookings, target \in Later : Moved(b, target))
                        \/ (\E s \in Sessions : Applied(s))
  PROVE  Committed' = Committed /\ UNCHANGED <<rooms, invoiced>>
<1>1. CASE Still
  BY <1>1 DEF Still, tables, Committed
<1>2. ASSUME NEW b \in Bookings, NEW target \in Later, Moved(b, target)
      PROVE  Committed' = Committed /\ UNCHANGED <<rooms, invoiced>>
  <2>1. /\ rows[b] \in Row /\ rows'[b] \in Row
        /\ \A c \in Bookings \ {b} : rows'[c] = rows[c]
    BY <1>2, MovedRow DEF TypeInv
  <2> QED
    BY <1>2, <2>1, ConstantsAssumption DEF Moved, Committed
<1>3. ASSUME NEW s \in Sessions, Applied(s)
      PROVE  Committed' = Committed /\ UNCHANGED <<rooms, invoiced>>
  <2> DEFINE b == req[s].target
  <2>1. /\ b \in Bookings /\ rows[b] \in Row /\ rows'[b] \in Row
        /\ \A c \in Bookings \ {b} : rows'[c] = rows[c]
    BY <1>3, AppliedRow, CancelledType
  <2> HIDE DEF b
  <2> QED
    BY <1>3, <2>1, ConstantsAssumption DEF Applied, Committed
<1> QED
  BY <1>1, <1>2, <1>3

LEMMA RoomsStep == LedgerInv /\ [Next]_vars => RoomsInv'
<1> SUFFICES ASSUME LedgerInv, [Next]_vars PROVE RoomsInv'
  OBVIOUS
<1>1. TypeInv /\ TypeOK /\ RoomsInv /\ TableEffect /\ RowsKept
  BY TableSteps, KeptStep DEF LedgerInv, IInv, TypeInv, RoomsInv
<1>2. CASE Still \/ (\E b \in Bookings, target \in Later : Moved(b, target))
                 \/ (\E s \in Sessions : Applied(s))
  BY <1>1, <1>2, InPlace, InPlaceRooms
<1>3. ASSUME NEW s \in Sessions, Commits(s) PROVE RoomsInv'
  <2> DEFINE id == req[s].new
             o  == req[s].target
  <2>1. Opens(s) \/ Replaces(s)
    BY <1>3, Commitment
  <2>2. /\ id \in Bookings /\ rows[id] = None /\ rows'[id] # None
        /\ invoiced' = invoiced
    BY <2>1, ConstantsAssumption DEF Opens, Replaces
  <2>3. Committed' = Committed \cup {id}
    <3>1. ASSUME NEW b \in Bookings, rows'[b] # None, b # id PROVE rows[b] # None
      BY <2>1, <3>1 DEF Opens, Replaces, Committed
    <3> QED
      BY <1>1, <2>2, <3>1 DEF RowsKept, Committed
  <2>4. CASE OpensRoom(id)
    BY <1>1, <2>2, <2>3, <2>4, OpensRooms
  <2>5. CASE Replaces(s) /\ rows[o].room # None
    BY <1>1, <2>5, ReplacesRooms
  <2> QED
    BY <2>1, <2>4, <2>5 DEF Opens, Replaces
<1>4. ASSUME NEW ids, Invoices(ids) PROVE RoomsInv'
  BY <1>1, <1>4, InvoiceRooms
<1> QED
  BY <1>1, <1>2, <1>3, <1>4 DEF TableEffect

----------------------------------------------------------------------------
(* Time kept and given back, and who was told.                             *)

\* What the cancellation of a row says of its time.
TimeOf(row) ==
  IF row.state = "CANCELLED"
    THEN IF row.blocks THEN \E p \in Policies : ~(row.start - row.cancelledAt >= p.notice)
                       ELSE \E p \in Policies : row.start - row.cancelledAt >= p.notice
    ELSE row.blocks /\ row.cancelledAt = None

LEMMA TimeOfEach == TimeGivenBackWithNotice <=> \A b \in Committed : TimeOf(rows[b])
BY DEF TimeGivenBackWithNotice, TimeOf

LEMMA TimeOfCancelled ==
  ASSUME NEW row \in Row, NEW c \in Cancellation, Justified(row.start, c)
  PROVE  TimeOf(Cancelled(row, c))
<1> DEFINE new == Cancelled(row, c)
<1>1. /\ new.start = row.start /\ new.state = "CANCELLED"
      /\ new.blocks = c.blocks /\ new.cancelledAt = c.at
  BY CancelledKeeps
<1> HIDE DEF new
<1>2. TimeOf(new)
  BY <1>1 DEF TimeOf, Justified
<1> QED
  BY <1>2 DEF new

LEMMA TimeStep == LedgerInv /\ [Next]_vars => TimeGivenBackWithNotice'
<1> SUFFICES ASSUME LedgerInv, [Next]_vars, NEW b \in Committed'
             PROVE  TimeOf(rows'[b])
  BY DEF TimeGivenBackWithNotice, TimeOf
<1> USE DEF LedgerInv, IInv
<1>1. /\ TableEffect /\ b \in Bookings /\ rows'[b] # None
      /\ \A c \in Committed : TimeOf(rows[c])
  BY TableSteps, TimeOfEach DEF Committed
<1>2. ASSUME rows'[b] = rows[b] PROVE TimeOf(rows'[b])
  BY <1>1, <1>2 DEF Committed
<1>3. CASE Still
  BY <1>2, <1>3 DEF Still, tables
<1>4. ASSUME NEW c \in Bookings, NEW target \in Later, Moved(c, target)
      PROVE  TimeOf(rows'[b])
  <2>1. CASE b # c
    BY <1>1, <1>2, <1>4, <2>1, MovedRow DEF TypeInv
  <2>2. CASE b = c
    <3>1. /\ rows'[c].state = target /\ rows[c].state # "CANCELLED"
          /\ rows'[c].blocks = rows[c].blocks
          /\ rows'[c].cancelledAt = rows[c].cancelledAt
      BY <1>4, MovedRow DEF TypeInv
    <3>2. c \in Committed
      BY <1>4 DEF Moved
    <3> QED
      BY <1>1, <2>2, <3>1, <3>2 DEF TimeOf, Later
  <2> QED
    BY <2>1, <2>2
<1>5. ASSUME NEW s \in Sessions, Applied(s) PROVE TimeOf(rows'[b])
  <2> DEFINE o == req[s].target
  <2>1. /\ rows[o] \in Row /\ req[s].cancellation \in Cancellation
        /\ rows'[o] = Cancelled(rows[o], req[s].cancellation)
        /\ \A c \in Bookings \ {o} : rows'[c] = rows[c]
        /\ RequestOK(s)
    BY <1>5, AppliedRow
  <2>2. Justified(rows[o].start, req[s].cancellation)
    BY <1>5, <2>1 DEF Applied, RequestOK, DraftsOK, DraftOK
  <2> QED
    BY <1>1, <1>2, <2>1, <2>2, TimeOfCancelled
<1>6. ASSUME NEW s \in Sessions, Commits(s) PROVE TimeOf(rows'[b])
  <2>1. CASE Opens(s)
    <3>1. b = req[s].new => TimeOf(rows'[b])
      BY <2>1 DEF Opens, TimeOf
    <3> QED
      BY <1>1, <1>2, <2>1, <3>1 DEF Opens
  <2>2. CASE Replaces(s)
    <3>1. b = req[s].new => TimeOf(rows'[b])
      BY <2>2 DEF Replaces, TimeOf, Unconfirmed
    <3>2. b = req[s].target => TimeOf(rows'[b])
      BY <2>2, TimeOfCancelled DEF Replaces
    <3> QED
      BY <1>1, <1>2, <2>2, <3>1, <3>2 DEF Replaces
  <2> QED
    BY <1>6, <2>1, <2>2, Commitment
<1>7. ASSUME NEW ids, Invoices(ids) PROVE TimeOf(rows'[b])
  <2>1. b \in ids => TimeOf(rows'[b])
    BY <1>7 DEF Invoices, IsInvoiceRow, TimeOf
  <2> QED
    BY <1>1, <1>2, <1>7, <2>1 DEF Invoices
<1> QED
  BY <1>1, <1>3, <1>4, <1>5, <1>6, <1>7 DEF TableEffect

LEMMA ToldStep == LedgerInv /\ [Next]_vars => ToldAfterPayment'
<1> SUFFICES ASSUME LedgerInv, [Next]_vars PROVE ToldAfterPayment'
  OBVIOUS
<1> USE DEF LedgerInv, IInv
<1>1. TableEffect /\ TypeInv /\ TypeOK
  BY TableSteps DEF TypeInv
<1>2. ASSUME told' = told,
             \A b \in Bookings :
               (rows'[b] # None /\ rows'[b].state = "PENDING_PAYMENT") =>
                 rows[b] = None \/ rows[b].state = "PENDING_PAYMENT",
             \A b \in Bookings : rows'[b] = None => rows[b] = None
      PROVE  ToldAfterPayment'
  BY <1>2 DEF ToldAfterPayment, Committed
<1>3. CASE Still
  BY <1>2, <1>3 DEF Still, tables
<1>4. ASSUME NEW c \in Bookings, NEW target \in Later, Moved(c, target)
      PROVE  ToldAfterPayment'
  <2>1. /\ rows[c] \in Row /\ rows'[c] \in Row /\ rows'[c].state = target
        /\ target # "PENDING_PAYMENT"
        /\ \A b \in Bookings \ {c} : rows'[b] = rows[b]
    BY <1>1, <1>4, MovedRow DEF Later
  <2>2. CASE target = "BOOKED"
    <3>1. rows[c].state = "PENDING_PAYMENT" /\ told' = [told EXCEPT ![c] = @ + 1]
      BY <1>4, <2>2 DEF Moved, SourceStates
    <3>2. told[c] = 0
      BY <1>4, <3>1 DEF Moved, ToldAfterPayment
    <3>3. told'[c] = 1 /\ \A b \in Bookings \ {c} : told'[b] = told[b]
      BY <1>1, <3>1, <3>2 DEF TypeOK
    <3> QED
      BY <2>1, <3>3, ConstantsAssumption DEF ToldAfterPayment, Committed
  <2>3. CASE target # "BOOKED"
    <3>1. told' = told
      BY <1>4, <2>3 DEF Moved
    <3> QED
      BY <1>2, <2>1, <3>1, ConstantsAssumption
  <2> QED
    BY <2>2, <2>3
<1>5. ASSUME NEW s \in Sessions, Applied(s) PROVE ToldAfterPayment'
  <2> DEFINE b == req[s].target
  <2>1. /\ rows[b] \in Row /\ req[s].cancellation \in Cancellation
        /\ rows'[b] = Cancelled(rows[b], req[s].cancellation)
        /\ \A c \in Bookings \ {b} : rows'[c] = rows[c]
    BY <1>5, AppliedRow
  <2>2. rows'[b] \in Row /\ rows'[b].state = "CANCELLED" /\ told' = told
    BY <1>5, <2>1, CancelledType DEF Applied
  <2> HIDE DEF b
  <2> QED
    BY <1>2, <2>1, <2>2, ConstantsAssumption
<1>6. ASSUME NEW s \in Sessions, Commits(s) PROVE ToldAfterPayment'
  <2>1. CASE Opens(s)
    <3>1. rows'[req[s].new] # None
      BY <2>1, ConstantsAssumption DEF Opens
    <3> QED
      BY <1>2, <2>1, <3>1 DEF Opens
  <2>2. CASE Replaces(s)
    <3> DEFINE o == req[s].target
    <3>1. rows'[o] \in Row /\ rows'[o].state = "CANCELLED"
      BY <2>2, CancelledType DEF Replaces
    <3>2. rows'[o] # None /\ rows'[req[s].new] # None
      BY <2>2, <3>1, ConstantsAssumption DEF Replaces
    <3> QED
      BY <1>2, <2>2, <3>1, <3>2 DEF Replaces
  <2> QED
    BY <1>6, <2>1, <2>2, Commitment
<1>7. ASSUME NEW ids, Invoices(ids) PROVE ToldAfterPayment'
  <2>1. /\ told' = told
        /\ \A b \in ids : rows[b] = None /\ rows'[b] # None
        /\ \A b \in Bookings \ ids : rows'[b] = rows[b]
    BY <1>7, ConstantsAssumption DEF Invoices, IsInvoiceRow, Fresh
  <2> QED
    BY <1>2, <2>1
<1> QED
  BY <1>1, <1>3, <1>4, <1>5, <1>6, <1>7 DEF TableEffect

----------------------------------------------------------------------------
(* The legal changes.                                                      *)

LEMMA LegalStep ==
  ASSUME LedgerInv, [Next]_vars, NEW b \in Bookings
  PROVE  \/ LegalChange(b)
         \/ \E s \in Sessions : CommittedReschedule(s) /\ req[s].target = b
<1> USE DEF LedgerInv, IInv
<1>1. TableEffect
  BY TableSteps
<1>2. CASE Still
  BY <1>2 DEF Still, tables, LegalChange
<1>3. ASSUME NEW c \in Bookings, NEW target \in Later, Moved(c, target)
      PROVE  LegalChange(b)
  <2>1. CASE b = c
    <3>1. rows'[c].state = target
      BY <1>3, MovedRow DEF TypeInv
    <3> QED
      BY <1>3, <2>1, <3>1 DEF Moved, LegalChange
  <2>2. CASE b # c
    BY <1>3, <2>2, MovedRow DEF TypeInv, LegalChange
  <2> QED
    BY <2>1, <2>2
<1>4. ASSUME NEW s \in Sessions, Applied(s) PROVE LegalChange(b)
  <2> DEFINE o == req[s].target
  <2>1. /\ rows[o] \in Row /\ req[s].cancellation \in Cancellation
        /\ rows'[o] = Cancelled(rows[o], req[s].cancellation)
        /\ \A c \in Bookings \ {o} : rows'[c] = rows[c]
    BY <1>4, AppliedRow
  <2>2. rows'[o].state = "CANCELLED" /\ rows[o].state \in SourceStates("CANCELLED")
    BY <1>4, <2>1, CancelledType DEF Applied, Unconfirmed, SourceStates
  <2> QED
    BY <2>1, <2>2 DEF LegalChange
<1>5. ASSUME NEW s \in Sessions, Commits(s)
      PROVE  LegalChange(b) \/ (CommittedReschedule(s) /\ req[s].target = b)
  <2>1. CASE Opens(s)
    BY <2>1 DEF Opens, LegalChange
  <2>2. CASE Replacing(s) /\ Replaces(s)
    <3>1. rows[req[s].new] = None /\ rows'[req[s].new] # None
      BY <2>2, ConstantsAssumption DEF Replaces
    <3>2. CommittedReschedule(s)
      BY <1>5, <2>2, <3>1, Commitment, AnswerType
         DEF CommittedReschedule, CommittedBy, Replacing, TypeInv
    <3> QED
      BY <2>2, <3>1, <3>2 DEF Replaces, LegalChange
  <2> QED
    BY <1>5, <2>1, <2>2, Commitment
<1>6. ASSUME NEW ids, Invoices(ids) PROVE LegalChange(b)
  BY <1>6 DEF Invoices, Fresh, LegalChange
<1> QED
  BY <1>1, <1>2, <1>3, <1>4, <1>5, <1>6 DEF TableEffect

----------------------------------------------------------------------------
(* The refinement: each step is a step of the calendar or none.            *)

LEMMA ClashFree ==
  ASSUME TypeOK', NoOverlap'
  PROVE  Ledger!NoClash(rows')
<1> SUFFICES ASSUME NEW b \in Ledger!Taken(rows'), NEW c \in Ledger!Taken(rows'), b # c,
                    OwnerOf[rows'[b].service] = OwnerOf[rows'[c].service]
             PROVE  \/ rows'[b].until <= rows'[c].start
                    \/ rows'[c].until <= rows'[b].start
  BY DEF Ledger!NoClash
<1>1. /\ b \in Committed' /\ c \in Committed'
      /\ rows'[b] \in Row /\ rows'[c] \in Row
      /\ rows'[b].blocks /\ rows'[c].blocks
  BY DEF Ledger!Taken, Committed, TypeOK
<1>2. ~Overlaps(rows'[b].start, rows'[b].until, rows'[c].start, rows'[c].until)
  BY <1>1 DEF NoOverlap, AdvisorOf
<1> QED
  BY <1>1, <1>2 DEF Overlaps, Row

LEMMA CancelledCancels ==
  ASSUME NEW row \in Row, NEW c \in Cancellation
  PROVE  Ledger!Cancelling(row, Cancelled(row, c))
<1> DEFINE new == Cancelled(row, c)
<1>1. new.state = "CANCELLED" /\ new.blocks = c.blocks /\ new.cancelledAt = c.at
  BY CancelledKeeps
<1>2. c.at # None
  BY ConstantsAssumption DEF Cancellation
<1>3. new = [row EXCEPT !.state = "CANCELLED", !.blocks = c.blocks, !.cancelledAt = c.at]
  BY DEF Cancelled
<1> HIDE DEF new
<1>4. Ledger!Cancelling(row, new)
  BY <1>1, <1>2, <1>3 DEF Ledger!Cancelling
<1> QED
  BY <1>4 DEF new

LEMMA MovedMoves ==
  ASSUME TypeOK, NEW b \in Bookings, NEW target \in Later, Moved(b, target)
  PROVE  Ledger!Move(b)
<1>1. /\ rows'[b] = [rows[b] EXCEPT !.state = target] /\ rows'[b].state = target
      /\ \A c \in Bookings \ {b} : rows'[c] = rows[c]
  BY MovedRow
<1>2. rows[b] # None /\ rooms' = rooms
  BY DEF Moved, Committed
<1>3. <<rows[b].state, target>> \in Ledger!Moves
  BY DEF Moved, SourceStates, Later, Ledger!Moves
<1> QED
  BY <1>1, <1>2, <1>3 DEF Ledger!Move, Ledger!Free, Ledger!OnlyChanged

LEMMA AppliedCancels ==
  ASSUME TypeInv, NEW s \in Sessions, Applied(s)
  PROVE  Ledger!Cancel(req[s].target)
<1> DEFINE b == req[s].target
<1>1. /\ b \in Bookings /\ rows[b] \in Row /\ req[s].cancellation \in Cancellation
      /\ rows'[b] = Cancelled(rows[b], req[s].cancellation)
      /\ \A c \in Bookings \ {b} : rows'[c] = rows[c]
  BY AppliedRow
<1>2. rows[b] # None /\ rows[b].state \in Ledger!Cancellable /\ rooms' = rooms
  BY <1>1, ConstantsAssumption DEF Applied, Unconfirmed, Ledger!Cancellable
<1>3. Ledger!Cancelling(rows[b], rows'[b])
  BY <1>1, CancelledCancels
<1> QED
  BY <1>1, <1>2, <1>3 DEF Ledger!Cancel, Ledger!Free, Ledger!OnlyChanged

LEMMA RoomOpens ==
  ASSUME LedgerInv, NEW n \in Bookings, rows[n] = None, OpensRoom(n)
  PROVE  Ledger!Opens(n)
<1>1. rooms[n] = {}
  BY ConstantsAssumption DEF LedgerInv, RoomsMatchBookings, RoomsAreNamed, Committed
<1> QED
  BY <1>1 DEF OpensRoom, Ledger!Opens, AdvisorOf

LEMMA OpensBooks ==
  ASSUME LedgerInv, NEW s \in Sessions, Opens(s), TypeOK', NoOverlap'
  PROVE  Ledger!Book(req[s].new)
<1> DEFINE n == req[s].new
<1>1. n \in Bookings /\ rows[n] = None /\ rows'[n] # None
  BY ConstantsAssumption DEF Opens
<1>2. Ledger!Opens(n)
  BY <1>1, RoomOpens DEF Opens
<1>3. Ledger!NoClash(rows')
  BY ClashFree
<1>4. /\ rows'[n].state = "PENDING_PAYMENT" /\ rows'[n].blocks
      /\ \A b \in Bookings \ {n} : rows'[b] = rows[b]
  BY DEF Opens
<1> HIDE DEF n
<1>5. Ledger!Book(n)
  BY <1>1, <1>2, <1>3, <1>4
     DEF Ledger!Book, Ledger!Appears, Ledger!Free, Ledger!OnlyChanged
<1> QED
  BY <1>5 DEF n

LEMMA ReplacesReplaces ==
  ASSUME LedgerInv, NEW s \in Sessions, Replaces(s), TypeOK', NoOverlap'
  PROVE  Ledger!Replace(req[s].target, req[s].new)
<1> DEFINE o == req[s].target
           n == req[s].new
<1>1. /\ n \in Bookings /\ rows[n] = None /\ rows'[n] # None /\ rows[o] # None
      /\ \A b \in Bookings \ {o, n} : rows'[b] = rows[b]
  BY ConstantsAssumption DEF Replaces
<1>2. Ledger!Cancelling(rows[o], rows'[o])
  BY CancelledCancels DEF Replaces
<1>3. Ledger!NoClash(rows')
  BY ClashFree
<1>4. /\ rows'[n].state \in Ledger!Cancellable /\ rows'[n].blocks
      /\ rows'[n].cancelledAt = None
      /\ rows'[n].service = rows[o].service /\ rows'[n].advisee = rows[o].advisee
  BY DEF Replaces, Unconfirmed, Ledger!Cancellable
<1>5. IF rows[o].room = None THEN Ledger!Opens(n)
        ELSE rows'[n].room = rows[o].room /\ UNCHANGED rooms
  BY <1>1, RoomOpens DEF Replaces
<1> HIDE DEF o, n
<1>6. Ledger!Replace(o, n)
  BY <1>1, <1>2, <1>3, <1>4, <1>5
     DEF Ledger!Replace, Ledger!Appears, Ledger!Free, Ledger!OnlyChanged
<1> QED
  BY <1>6 DEF o, n

LEMMA InvoicesInvoice ==
  ASSUME NEW ids, Invoices(ids), TypeOK', NoOverlap'
  PROVE  ids \in SUBSET Bookings /\ Ledger!Invoice(ids)
<1>1. /\ \A n \in ids : rows[n] = None /\ rows'[n] # None
      /\ \A b \in Bookings \ ids : rows'[b] = rows[b]
  BY ConstantsAssumption DEF Invoices, IsInvoiceRow, Fresh
<1>2. Ledger!NoClash(rows')
  BY ClashFree
<1> QED
  BY <1>1, <1>2 DEF Invoices, IsInvoiceRow, Ledger!Invoice, Ledger!Appears,
                    Ledger!Free, Ledger!OnlyChanged

LEMMA CalendarStep ==
  LedgerInv /\ LedgerInv' /\ [Next]_vars => [Ledger!Next]_(Ledger!cvars)
<1> SUFFICES ASSUME LedgerInv, LedgerInv', [Next]_vars
             PROVE  Ledger!Next \/ UNCHANGED Ledger!cvars
  OBVIOUS
<1>1. TableEffect /\ TypeInv /\ TypeOK /\ TypeOK' /\ NoOverlap'
  BY TableSteps DEF LedgerInv, IInv, TypeInv
<1>2. CASE Still
  BY <1>2 DEF Still, tables, Ledger!cvars
<1>3. ASSUME NEW b \in Bookings, NEW target \in Later, Moved(b, target)
      PROVE  Ledger!Next
  BY <1>1, <1>3, MovedMoves DEF Ledger!Next
<1>4. ASSUME NEW s \in Sessions, Applied(s) PROVE Ledger!Next
  BY <1>1, <1>4, AppliedCancels, AppliedRow DEF Ledger!Next
<1>5. ASSUME NEW s \in Sessions, Commits(s) PROVE Ledger!Next
  <2>1. CASE Opens(s)
    BY <1>1, <2>1, OpensBooks DEF Ledger!Next, Opens
  <2>2. CASE Replaces(s)
    BY <1>1, <2>2, ReplacesReplaces DEF Ledger!Next, Replaces, Committed
  <2> QED
    BY <1>5, <2>1, <2>2, Commitment
<1>6. ASSUME NEW ids, Invoices(ids) PROVE Ledger!Next
  BY <1>1, <1>6, InvoicesInvoice DEF Ledger!Next
<1> QED
  BY <1>1, <1>2, <1>3, <1>4, <1>5, <1>6 DEF TableEffect

----------------------------------------------------------------------------
(* The theorems.                                                           *)

LEMMA LedgerInit == Init => LedgerInv
<1> SUFFICES ASSUME Init PROVE LedgerInv
  OBVIOUS
<1>1. IInv
  BY InvInit
<1>2. /\ Committed = {} /\ \A s \in Sessions : pc[s] = "idle"
      /\ \A b \in Bookings : rooms[b] = {} /\ told[b] = 0
  BY DEF Init, Committed
<1> QED
  BY <1>1, <1>2
     DEF LedgerInv, DraftsOK, RoomsAreNamed, RoomsAgree, RoomsMatchBookings,
         OneLiveBookingPerRoom, TimeGivenBackWithNotice, ToldAfterPayment

\* The inductive invariant of the tables and of the drafts.
THEOREM LedgerInductive == Spec => []LedgerInv
<1>1. IInv /\ [Next]_vars => IInv'
  BY TypeStep, LockStep, FreshStep, LiveStep, OriginalsStep, NoOverlapStep DEF IInv
<1>2. LedgerInv /\ [Next]_vars => LedgerInv'
  BY <1>1, DraftsStep, RoomsStep, TimeStep, ToldStep DEF LedgerInv, RoomsInv
<1> QED
  BY LedgerInit, <1>2, PTL DEF Spec

\* Every booking that modules/bookings made or moved has a room holding exactly
\* its two people, beside invoices that book without one, and no room is left
\* behind by a request that was refused or failed.
THEOREM EveryBookingHasItsRoom == Spec => []RoomsMatchBookings
<1>1. LedgerInv => RoomsMatchBookings
  BY DEF LedgerInv
<1> QED
  BY LedgerInductive, <1>1, PTL

\* Of a chain of reschedules at most the last booking is live, however many
\* reschedules and cancellations of it are in flight.
THEOREM ChainHasOneLiveBooking == Spec => []OneLiveBookingPerRoom
<1>1. LedgerInv => OneLiveBookingPerRoom
  BY DEF LedgerInv
<1> QED
  BY LedgerInductive, <1>1, PTL

\* A live booking holds its time; a cancelled one gives it back exactly when it
\* was cancelled a minimum notice ahead.
THEOREM NoticeDecidesTheTime == Spec => []TimeGivenBackWithNotice
<1>1. LedgerInv => TimeGivenBackWithNotice
  BY DEF LedgerInv
<1> QED
  BY LedgerInductive, <1>1, PTL

\* Both parties are told of a confirmation at most once.
THEOREM ConfirmationToldOnce == Spec => []ToldOnce
<1>1. LedgerInv => ToldOnce
  BY DEF LedgerInv, ToldAfterPayment, ToldOnce
<1> QED
  BY LedgerInductive, <1>1, PTL

\* Every change of a booking is legal except, at most, the cancellation a
\* reschedule writes to its own original.
THEOREM OthersAreLegal == Spec => OthersChangeLegally
<1>1. LedgerInv /\ [Next]_vars =>
        [\A b \in Bookings :
           \/ LegalChange(b)
           \/ \E s \in Sessions : CommittedReschedule(s) /\ req[s].target = b]_vars
  BY LegalStep
<1> QED
  BY LedgerInductive, <1>1, PTL DEF Spec, OthersChangeLegally

\* With requests, locks and transactions hidden, the tables behave like the
\* atomic calendar.
THEOREM Refinement == Spec => ImplementsCalendar
<1>1. Init => Ledger!Init
  BY DEF Init, Ledger!Init
<1> QED
  BY <1>1, LedgerInductive, CalendarStep, PTL DEF Spec, ImplementsCalendar, Ledger!Spec

----------------------------------------------------------------------------
(* Adding up the bookings of a day.  MinutesBooked sums a set in an order  *)
(* of its choice; here the sum is counted instead, as the cardinality of a *)
(* set of pairs, by induction over the bookings added.                     *)

\* Induction over the naturals, by the least number out of the set.
LEMMA Induct ==
  ASSUME NEW T \in SUBSET Nat, 0 \in T, \A k \in T : k + 1 \in T
  PROVE  T = Nat
<1> SUFFICES ASSUME T # Nat PROVE FALSE
  OBVIOUS
<1>1. PICK least \in Nat \ T : \A other \in Nat \ T : ~(other < least)
  <2> DEFINE out == Nat \ T
             R == OpToRel(<, Nat)
  <2>1. out \subseteq Nat /\ out # {}
    OBVIOUS
  <2>2. IsWellFoundedOn(R, Nat)
    BY NatLessThanWellFounded, Zenon
  <2>3. \A y, x \in Nat : y < x => <<y, x>> \in R
    BY Zenon DEF OpToRel
  <2>4. \E x \in out : \A y \in out : <<y, x>> \notin R
    <3> HIDE DEF out, R
    <3> QED
      BY <2>1, <2>2, WFMin
  <2> HIDE DEF R
  <2> QED
    BY <2>3, <2>4
<1>2. least # 0 /\ least - 1 \in Nat /\ least - 1 < least
  OBVIOUS
<1> QED
  BY <1>1, <1>2

\* The consultation time of bookings, slot by slot: as many pairs as their sum.
Grid(view, ids) ==
  {g \in ids \X Nat : 1 <= g[2] /\ g[2] <= Duration[view[g[1]].service]}

LEMMA GridGrows ==
  ASSUME NEW view, NEW ids, NEW x, x \notin ids, IsFiniteSet(Grid(view, ids)),
         Duration[view[x].service] \in Nat
  PROVE  /\ IsFiniteSet(Grid(view, ids \cup {x}))
         /\ Cardinality(Grid(view, ids \cup {x})) =
              Cardinality(Grid(view, ids)) + Duration[view[x].service]
<1> DEFINE n == Duration[view[x].service]
           own == {x} \X (1..n)
<1>1. Grid(view, ids \cup {x}) = Grid(view, ids) \cup own
  <2>1. \A g \in own : g[1] = x /\ g[2] \in Nat /\ 1 <= g[2] /\ g[2] <= n
    OBVIOUS
  <2>2. \A g \in Grid(view, ids \cup {x}) : g \in Grid(view, ids) \/ g \in own
    BY DEF Grid
  <2>3. Grid(view, ids) \subseteq Grid(view, ids \cup {x})
    BY DEF Grid
  <2>4. own \subseteq Grid(view, ids \cup {x})
    BY DEF Grid
  <2> QED
    BY <2>2, <2>3, <2>4
<1>2. Grid(view, ids) \cap own = {}
  BY DEF Grid
<1>3. IsFiniteSet(own) /\ Cardinality(own) = n
  <2>1. IsFiniteSet(1..n) /\ Cardinality(1..n) = n
    BY FS_Interval
  <2>2. IsFiniteSet({x}) /\ Cardinality({x}) = 1
    BY FS_Singleton
  <2>3. IsFiniteSet(own) /\ Cardinality(own) = 1 * n
    BY <2>1, <2>2, FS_Product
  <2> QED
    BY <2>3
<1> HIDE DEF own, n
<1>4. Cardinality(Grid(view, ids)) \in Nat /\ n \in Nat
  BY FS_CardinalityType DEF n
<1>5. Cardinality({}) = 0
  BY FS_EmptySet
<1>6. /\ IsFiniteSet(Grid(view, ids) \cup own)
      /\ Cardinality(Grid(view, ids) \cup own) = Cardinality(Grid(view, ids)) + n
  <2> DEFINE old == Grid(view, ids)
  <2>1. IsFiniteSet(old \cup own) /\ Cardinality(old \cup own) = Cardinality(old) + n - 0
    BY <1>2, <1>3, <1>5, FS_Union
  <2> HIDE DEF old
  <2> QED
    BY <1>4, <2>1 DEF old
<1>7. Cardinality(Grid(view, ids \cup {x})) = Cardinality(Grid(view, ids)) + n
  BY <1>1, <1>6, Zenon
<1> QED
  BY <1>1, <1>6, <1>7, Zenon DEF n

\* The sum of the durations as MapThenSumSet takes it, one booking after another.
Sums(view, ids) ==
  CHOOSE iter : iter = [s \in SUBSET ids |->
    IF s = {} THEN 0
    ELSE Duration[view[CHOOSE x \in s : TRUE].service] + iter[s \ {CHOOSE x \in s : TRUE}]]

LEMMA MinutesAreSums ==
  ASSUME NEW ids, NEW day
  PROVE  LET there == {b \in ids : DayOf(rows[b].start) = day}
         IN  MinutesBooked(ids, day) = Sums(rows, there)[there]
BY DEF MinutesBooked, MapThenSumSet, MapThenFoldSet, Sums

LEMMA SumIsCount ==
  ASSUME NEW view, NEW ids, IsFiniteSet(ids),
         \A b \in ids : Duration[view[b].service] \in Nat
  PROVE  /\ IsFiniteSet(Grid(view, ids))
         /\ Sums(view, ids)[ids] = Cardinality(Grid(view, ids))
<1> DEFINE one(s) == CHOOSE x \in s : TRUE
           sizes == {k \in Nat : \A s \in SUBSET ids : Cardinality(s) = k =>
                       IsFiniteSet(Grid(view, s))}
<1>1. \A s \in SUBSET ids : IsFiniteSet(s) /\ Cardinality(s) \in Nat
                            /\ (Cardinality(s) = 0 <=> s = {})
  BY FS_Subset, FS_CardinalityType, FS_EmptySet
<1>2. \A s \in SUBSET ids : s # {} =>
        /\ one(s) \in s
        /\ s \ {one(s)} \in SUBSET ids
        /\ Cardinality(s \ {one(s)}) = Cardinality(s) - 1
        /\ s = (s \ {one(s)}) \cup {one(s)}
        /\ Duration[view[one(s)].service] \in Nat
  <2> SUFFICES ASSUME NEW s \in SUBSET ids, s # {}
               PROVE  /\ one(s) \in s
                      /\ s \ {one(s)} \in SUBSET ids
                      /\ Cardinality(s \ {one(s)}) = Cardinality(s) - 1
                      /\ s = (s \ {one(s)}) \cup {one(s)}
                      /\ Duration[view[one(s)].service] \in Nat
    OBVIOUS
  <2>1. one(s) \in s
    OBVIOUS
  <2> HIDE DEF one
  <2> QED
    BY <2>1, <1>1, FS_RemoveElement
<1>3. ASSUME NEW s \in SUBSET ids, s # {}, IsFiniteSet(Grid(view, s \ {one(s)}))
      PROVE  /\ IsFiniteSet(Grid(view, s))
             /\ Cardinality(Grid(view, s)) =
                  Duration[view[one(s)].service] + Cardinality(Grid(view, s \ {one(s)}))
  <2> DEFINE x == one(s)
             rest == s \ {one(s)}
  <2>1. x \notin rest /\ s = rest \cup {x} /\ Duration[view[x].service] \in Nat
    BY <1>2, <1>3
  <2>2. IsFiniteSet(Grid(view, rest)) /\ Cardinality(Grid(view, rest)) \in Nat
    BY <1>3, FS_CardinalityType
  <2> HIDE DEF x, rest
  <2>3. /\ IsFiniteSet(Grid(view, s))
        /\ Cardinality(Grid(view, s)) = Cardinality(Grid(view, rest)) + Duration[view[x].service]
    BY <2>1, <2>2, GridGrows
  <2>4. Cardinality(Grid(view, s)) = Duration[view[x].service] + Cardinality(Grid(view, rest))
    BY <2>1, <2>2, <2>3
  <2> QED
    BY <2>3, <2>4 DEF x, rest
<1>4. Grid(view, {}) = {}
  BY DEF Grid
<1>5. 0 \in sizes
  BY <1>1, <1>4, FS_EmptySet
<1>6. ASSUME NEW k \in sizes PROVE k + 1 \in sizes
  <2> SUFFICES ASSUME NEW s \in SUBSET ids, Cardinality(s) = k + 1
               PROVE  IsFiniteSet(Grid(view, s))
    OBVIOUS
  <2>1. s # {}
    BY <1>1, <1>6
  <2>2. IsFiniteSet(Grid(view, s \ {one(s)}))
    <3> HIDE DEF one
    <3> QED
      BY <1>2, <1>6, <2>1
  <2> QED
    BY <1>3, <2>1, <2>2
<1>7. \A s \in SUBSET ids : IsFiniteSet(Grid(view, s))
  <2>1. sizes \in SUBSET Nat
    OBVIOUS
  <2>2. sizes = Nat
    <3> HIDE DEF sizes
    <3> QED
      BY <1>5, <1>6, <2>1, Induct
  <2> QED
    BY <1>1, <2>2
<1> DEFINE Body(f, s) == IF s = {} THEN 0
                         ELSE Duration[view[one(s)].service] + f[s \ {one(s)}]
           count == [s \in SUBSET ids |-> Cardinality(Grid(view, s))]
<1>8. count = [s \in SUBSET ids |-> Body(count, s)]
  <2> SUFFICES ASSUME NEW s \in SUBSET ids PROVE count[s] = Body(count, s)
    OBVIOUS
  <2>1. CASE s = {}
    BY <2>1, <1>4, FS_EmptySet
  <2>2. CASE s # {}
    <3>1. s \ {one(s)} \in SUBSET ids
      OBVIOUS
    <3> HIDE DEF one
    <3> QED
      BY <3>1, <1>3, <1>7, <2>2
  <2> QED
    BY <2>1, <2>2
<1>9. Sums(view, ids) = [s \in SUBSET ids |-> Body(Sums(view, ids), s)]
  <2> HIDE DEF count
  <2>1. \E f : f = [s \in SUBSET ids |-> Body(f, s)]
    BY <1>8
  <2> QED
    BY <2>1 DEF Sums
<1> DEFINE it == Sums(view, ids)
           agree == {k \in Nat : \A s \in SUBSET ids : Cardinality(s) = k => it[s] = count[s]}
<1>10. \A s \in SUBSET ids : it[s] = Body(it, s) /\ count[s] = Body(count, s)
  <2> HIDE DEF it, count
  <2> QED
    BY <1>8, <1>9 DEF it
<1> HIDE DEF it, count
<1>11. 0 \in agree
  BY <1>1, <1>10
<1>12. ASSUME NEW k \in agree PROVE k + 1 \in agree
  <2> SUFFICES ASSUME NEW s \in SUBSET ids, Cardinality(s) = k + 1
               PROVE  it[s] = count[s]
    OBVIOUS
  <2>1. s # {}
    BY <1>1, <1>12
  <2>2. it[s \ {one(s)}] = count[s \ {one(s)}]
    <3> HIDE DEF one
    <3> QED
      BY <1>2, <1>12, <2>1
  <2> HIDE DEF one
  <2> QED
    BY <1>10, <2>1, <2>2
<1>13. agree = Nat
  <2>1. agree \in SUBSET Nat
    OBVIOUS
  <2> HIDE DEF agree
  <2> QED
    BY <1>11, <1>12, <2>1, Induct
<1>14. it[ids] = count[ids]
  BY <1>1, <1>13
<1> QED
  BY <1>7, <1>14 DEF it, count

----------------------------------------------------------------------------
(* The daily limits.  A derivation found room for its booking in the day;  *)
(* until the insert only an invoice adds to that Advisor's day, so without *)
(* the invoices since the derivation the room is still there: the lock is  *)
(* what makes the recheck worth something.                                 *)

\* The bookings of `ids' that take time of a day with one of these Services.
Taking(view, ids, services, day) ==
  {b \in Bookings \cap ids : /\ view[b] # None
                             /\ view[b].service \in services
                             /\ view[b].blocks
                             /\ DayOf(view[b].start) = day}

Load(view, ids, services, day) == Cardinality(Grid(view, Taking(view, ids, services, day)))

ServicesOf(a) == {service \in Services : OwnerOf[service] = a}

\* A day of these Services still has room for one more consultation.
HasRoom(view, ids, services, day, service, limit) ==
  limit = None \/ Load(view, ids, services, day) + Duration[service] <= limit

RoomLeft(s) ==
  LET service == req[s].row.service
      day     == DayOf(req[s].row.start)
  IN  /\ HasRoom(rows, InView(s), ServicesOf(OwnerOf[service]), day, service,
                 req[s].global.limit)
      /\ HasRoom(rows, InView(s), {service}, day, service, ServiceLimit[service])

RoomIsLeft ==
  \A s \in Sessions :
    /\ pc[s] \in {"derive", "buffer", "insert"} => req[s].global \in Policies
    /\ pc[s] \in {"buffer", "insert"} => RoomLeft(s) /\ req[s].seen \subseteq Committed

EndLater ==
  /\ \A b \in Committed : rows[b].start < rows[b].until
  /\ \A s \in Sessions : pc[s] # "idle" => req[s].row.start < req[s].row.until

LimitInv == IInv /\ IsFiniteSet(Committed) /\ EndLater /\ RoomIsLeft

\* None of these rows comes to take time of a day with these Services.
Shrinks(ids, services) ==
  \A b \in Bookings \cap ids :
    (rows'[b] # None /\ rows'[b].service \in services /\ rows'[b].blocks) =>
      /\ rows[b] # None /\ rows[b].blocks
      /\ rows'[b].service = rows[b].service /\ rows'[b].start = rows[b].start

LEMMA DurationType ==
  ASSUME TypeOK PROVE \A b \in Committed : /\ rows[b].service \in Services
                                           /\ Duration[rows[b].service] \in Nat \ {0}
                                           /\ rows[b].start \in Nat
<1> SUFFICES ASSUME NEW b \in Committed
             PROVE  /\ rows[b].service \in Services
                    /\ Duration[rows[b].service] \in Nat \ {0}
                    /\ rows[b].start \in Nat
  OBVIOUS
<1>1. rows[b] \in Row
  BY CommittedRows
<1>2. rows[b].service \in Services /\ rows[b].start \in Nat
  BY <1>1 DEF Row, Times
<1> QED
  BY <1>2, ConstantsAssumption

LEMMA LoadType ==
  ASSUME TypeOK, IsFiniteSet(Committed), NEW ids, NEW services, NEW day
  PROVE  LET taking == Taking(rows, ids, services, day)
         IN  /\ IsFiniteSet(taking) /\ taking \subseteq Committed
             /\ IsFiniteSet(Grid(rows, taking))
             /\ Load(rows, ids, services, day) \in Nat
             /\ Sums(rows, taking)[taking] = Load(rows, ids, services, day)
<1> DEFINE taking == Taking(rows, ids, services, day)
<1>1. taking \subseteq Committed
  BY DEF Taking, Committed
<1>2. \A b \in taking : Duration[rows[b].service] \in Nat
  BY <1>1, DurationType
<1>3. Load(rows, ids, services, day) = Cardinality(Grid(rows, taking))
  BY DEF Load
<1> HIDE DEF taking
<1>4. IsFiniteSet(taking)
  BY <1>1, FS_Subset
<1>5. IsFiniteSet(Grid(rows, taking)) /\ Sums(rows, taking)[taking] = Cardinality(Grid(rows, taking))
  BY <1>2, <1>4, SumIsCount
<1> QED
  BY <1>1, <1>3, <1>4, <1>5, FS_CardinalityType DEF taking

LEMMA ShrinkingLoad ==
  ASSUME TypeOK, IsFiniteSet(Committed), NEW ids, NEW less, less \subseteq ids,
         NEW services, NEW day, Shrinks(less, services)
  PROVE  /\ Load(rows', less, services, day) <= Load(rows, ids, services, day)
         /\ Load(rows', less, services, day) \in Nat
<1> DEFINE old == Grid(rows, Taking(rows, ids, services, day))
           new == Grid(rows', Taking(rows', less, services, day))
<1>1. \A b \in Taking(rows', less, services, day) :
         b \in Taking(rows, ids, services, day) /\ rows'[b].service = rows[b].service
  BY DEF Shrinks, Taking
<1>2. new \subseteq old
  BY <1>1 DEF Grid
<1>3. IsFiniteSet(old)
  BY LoadType
<1>4. /\ Load(rows, ids, services, day) = Cardinality(old)
      /\ Load(rows', less, services, day) = Cardinality(new)
  BY DEF Load
<1> HIDE DEF old, new
<1>5. IsFiniteSet(new) /\ Cardinality(new) <= Cardinality(old) /\ Cardinality(new) \in Nat
  BY <1>2, <1>3, FS_Subset, FS_CardinalityType
<1> QED
  BY <1>4, <1>5

\* A commit adds one consultation to its day.
LEMMA GrowingLoad ==
  ASSUME TypeOK, IsFiniteSet(Committed), NEW ids, NEW services, NEW day,
         NEW id \in Bookings, rows[id] = None, Duration[rows'[id].service] \in Nat,
         \A b \in Bookings \ {id} : rows'[b] = rows[b]
  PROVE  /\ Load(rows', ids, services, day) \in Nat
         /\ Load(rows', ids, services, day) <=
              Load(rows, ids, services, day) + Duration[rows'[id].service]
<1> DEFINE taking == Taking(rows, ids, services, day)
           more == Taking(rows', ids, services, day)
           n == Duration[rows'[id].service]
<1>1. id \notin taking /\ more \subseteq taking \cup {id}
  BY DEF Taking
<1>2. Grid(rows', taking) = Grid(rows, taking)
  BY DEF Grid, Taking
<1>3. /\ IsFiniteSet(Grid(rows, taking))
      /\ Load(rows, ids, services, day) = Cardinality(Grid(rows, taking))
      /\ Load(rows', ids, services, day) = Cardinality(Grid(rows', more))
  BY LoadType DEF Load
<1>4. Grid(rows', more) \subseteq Grid(rows', taking \cup {id})
  BY <1>1 DEF Grid
<1> HIDE DEF taking, more
<1>5. /\ IsFiniteSet(Grid(rows', taking \cup {id}))
      /\ Cardinality(Grid(rows', taking \cup {id})) = Cardinality(Grid(rows', taking)) + n
  <2>1. IsFiniteSet(Grid(rows', taking)) /\ id \notin taking
    BY <1>1, <1>2, <1>3, Zenon
  <2> QED
    BY <2>1, GridGrows
<1>6. /\ Cardinality(Grid(rows', more)) \in Nat
      /\ Cardinality(Grid(rows', more)) <= Cardinality(Grid(rows', taking \cup {id}))
  BY <1>4, <1>5, FS_Subset, FS_CardinalityType
<1> QED
  BY <1>2, <1>3, <1>5, <1>6 DEF n

\* What the property adds up is what the days hold.
LoadsAgree ==
  TypeOK /\ IsFiniteSet(Committed) =>
    \A a, service, day, ids :
      /\ BookedOn(a, day, ids) = Load(rows, ids, ServicesOf(a), day)
      /\ BookedWith(service, day, ids) = Load(rows, ids, {service}, day)

LEMMA BookedIsLoad == LoadsAgree
<1> SUFFICES ASSUME TypeOK, IsFiniteSet(Committed), NEW a, NEW service, NEW day, NEW ids
             PROVE  /\ BookedOn(a, day, ids) = Load(rows, ids, ServicesOf(a), day)
                    /\ BookedWith(service, day, ids) = Load(rows, ids, {service}, day)
  BY DEF LoadsAgree
<1> DEFINE ofA == {b \in Committed \cap ids : AdvisorOf(rows[b]) = a /\ rows[b].blocks}
           ofS == {b \in Committed \cap ids : rows[b].service = service /\ rows[b].blocks}
           on(some) == {b \in some : DayOf(rows[b].start) = day}
<1>1. on(ofA) = Taking(rows, ids, ServicesOf(a), day)
  BY DurationType DEF Taking, ServicesOf, AdvisorOf, Committed
<1>2. on(ofS) = Taking(rows, ids, {service}, day)
  BY DEF Taking, Committed
<1>3. /\ BookedOn(a, day, ids) = MinutesBooked(ofA, day)
      /\ BookedWith(service, day, ids) = MinutesBooked(ofS, day)
  BY DEF BookedOn, BookedWith
<1>4. /\ MinutesBooked(ofA, day) = Sums(rows, on(ofA))[on(ofA)]
      /\ MinutesBooked(ofS, day) = Sums(rows, on(ofS))[on(ofS)]
  <2> HIDE DEF ofA, ofS
  <2> QED
    BY MinutesAreSums
<1> HIDE DEF ofA, ofS, on
<1> QED
  BY <1>1, <1>2, <1>3, <1>4, LoadType

LEMMA DayBounds ==
  ASSUME NEW t \in Nat
  PROVE  LET day == DayOf(t)
         IN  day \in Nat /\ day * DayLength <= t /\ t < (day + 1) * DayLength
<1>1. DayLength \in Nat \ {0}
  BY ConstantsAssumption
<1> DEFINE n == DayLength
           q == t \div n
           r == t % n
<1>2. t = n * q + r /\ q \in Int /\ r \in Int /\ 0 <= r /\ r < n
  BY <1>1
<1>3. q \in Nat
  BY <1>1
<1>4. q * n = n * q /\ (q + 1) * n = n * q + n
  BY <1>1, <1>3
<1> QED
  BY <1>1, <1>2, <1>3, <1>4 DEF DayOf

\* What the derivation found in a day is what the day has room for.
LEMMA OfferedHasRoom ==
  ASSUME TypeOK, IsFiniteSet(Committed), EndLater,
         NEW service \in Services, NEW start \in Nat, NEW global \in Policies,
         SlotOffered(service, start, global)
  PROVE  /\ HasRoom(rows, Bookings, ServicesOf(OwnerOf[service]), DayOf(start), service,
                    global.limit)
         /\ HasRoom(rows, Bookings, {service}, DayOf(start), service, ServiceLimit[service])
<1> DEFINE a == OwnerOf[service]
           day == DayOf(start)
           ids == BlockingOn(a, day)
           own == {b \in ids : rows[b].service = service}
           on(some) == {b \in some : DayOf(rows[b].start) = day}
<1>1. \A b \in Committed : DayOf(rows[b].start) = day =>
        Overlaps(rows[b].start, rows[b].until, day * DayLength, (day + 1) * DayLength)
  <2> SUFFICES ASSUME NEW b \in Committed, DayOf(rows[b].start) = day
               PROVE  Overlaps(rows[b].start, rows[b].until, day * DayLength, (day + 1) * DayLength)
    OBVIOUS
  <2>1. rows[b].start \in Nat /\ rows[b].until \in Nat /\ rows[b].start < rows[b].until
    <3>1. rows[b] \in Row
      BY CommittedRows
    <3> QED
      BY <3>1 DEF Row, EndLater, Times
  <2>2. /\ day \in Nat /\ day * DayLength <= rows[b].start
        /\ rows[b].start < (day + 1) * DayLength
    BY <2>1, DayBounds
  <2>3. day * DayLength \in Nat /\ (day + 1) * DayLength \in Nat
    BY <2>2, ConstantsAssumption
  <2> HIDE DEF day
  <2> QED
    BY <2>1, <2>2, <2>3 DEF Overlaps
<1>2. on(ids) = Taking(rows, Bookings, ServicesOf(a), day)
  <2> HIDE DEF a, day
  <2> QED
    BY <1>1, DurationType DEF BlockingOn, Taking, ServicesOf, AdvisorOf, Committed, ids
<1>3. on(own) = Taking(rows, Bookings, {service}, day)
  <2>1. own = {b \in Committed :
                 /\ rows[b].service = service /\ rows[b].blocks
                 /\ Overlaps(rows[b].start, rows[b].until, day * DayLength, (day + 1) * DayLength)}
    BY DEF BlockingOn, AdvisorOf
  <2> HIDE DEF day, own
  <2> QED
    BY <1>1, <2>1 DEF Taking, Committed
<1>4. WithinDailyLimits(service, day, ids, global.limit)
  BY DEF SlotOffered
<1>5. /\ global.limit = None \/ MinutesBooked(ids, day) + Duration[service] <= global.limit
      /\ \/ ServiceLimit[service] = None
         \/ MinutesBooked(own, day) + Duration[service] <= ServiceLimit[service]
  BY <1>4 DEF WithinDailyLimits
<1>6. /\ MinutesBooked(ids, day) = Sums(rows, on(ids))[on(ids)]
      /\ MinutesBooked(own, day) = Sums(rows, on(own))[on(own)]
  <2> HIDE DEF ids, own, day
  <2> QED
    BY MinutesAreSums
<1> HIDE DEF ids, own, on, day, a
<1>7. /\ MinutesBooked(ids, day) = Load(rows, Bookings, ServicesOf(a), day)
      /\ MinutesBooked(own, day) = Load(rows, Bookings, {service}, day)
  BY <1>2, <1>3, <1>6, LoadType
<1> QED
  BY <1>5, <1>7 DEF HasRoom, a, day

----------------------------------------------------------------------------
(* The steps.                                                              *)

LEMMA TimeEffect ==
  ASSUME TypeInv, LiveRowsBlock, IdsAreFresh, [Next]_vars
  PROVE  \/ NoNewTime
         \/ \E s \in Sessions : Commits(s)
         \/ \E ids : Invoices(ids)
BY QuietSteps, ArriveEffect, UnchangedNoNewTime DEF Quiet, Commits

\* A commit touches the time of one Service only: its own row appears, and the
\* original's may be taken again.
LEMMA CommitTime ==
  ASSUME TypeInv, IdsAreFresh, NEW s \in Sessions, Commits(s)
  PROVE  LET id == req[s].new
         IN  /\ pc[s] = "insert" /\ id \in Bookings /\ rows[id] = None
             /\ rows'[id] # None /\ SameSlot(req[s].row, rows'[id])
             /\ req[s].row \in Row
             /\ req[s].kind = "create" => \A b \in Bookings \ {id} : rows'[b] = rows[b]
             /\ \A b \in Bookings \ {id} :
                  \/ rows'[b] = rows[b]
                  \/ /\ rows[b] # None /\ rows'[b] # None
                     /\ SameSlot(rows[b], rows'[b])
                     /\ rows[b].service = req[s].row.service
<1> DEFINE o   == req[s].target
           id  == req[s].new
           row == req[s].row
           new == [row EXCEPT !.room = RoomOf(row, id)]
<1>1. /\ pc[s] = "insert" /\ RequestOK(s)
      /\ row \in Row /\ id \in Bookings /\ rows[id] = None /\ rows'[id] = new
      /\ req[s].kind \in {"create", "reschedule"}
      /\ req[s].kind = "create" => \A b \in Bookings \ {id} : rows'[b] = rows[b]
      /\ new \in Row /\ SameSlot(row, new)
  BY CommitsRows, CommitEffect DEF Commits
<1>2. rows'[id] # None
  BY <1>1, ConstantsAssumption
<1>3. ASSUME req[s].kind = "reschedule"
      PROVE  /\ \A b \in Bookings \ {o, id} : rows'[b] = rows[b]
             /\ rows[o] # None /\ rows'[o] # None /\ SameSlot(rows[o], rows'[o])
             /\ rows[o].service = row.service
  <2>1. /\ o \in Committed /\ rows[o] \in Row /\ o # id
        /\ req[s].cancellation \in Cancellation
        /\ rows'[o] = Cancelled(rows[o], req[s].cancellation)
        /\ \A b \in Bookings \ {o, id} : rows'[b] = rows[b]
    BY <1>3, CommitsRows
  <2>2. /\ rows'[o] \in Row /\ rows'[o].service = rows[o].service
        /\ rows'[o].start = rows[o].start /\ rows'[o].until = rows[o].until
    BY <2>1, CancelledType
  <2>3. rows[o].service = row.service
    BY <1>1, <1>3 DEF RequestOK
  <2> QED
    BY <2>1, <2>2, <2>3, ConstantsAssumption DEF SameSlot
<1> HIDE DEF new, o
<1> QED
  BY <1>1, <1>2, <1>3

Deciding == {"derive", "buffer", "insert"}

\* A draft keeps its time and the policy it is decided with.
KeepsTime(t) ==
  /\ pc[t] # "idle"
  /\ SameSlot(req[t].row, req'[t].row)
  /\ pc'[t] \in Deciding => pc[t] \in Deciding /\ req'[t].global = req[t].global
  /\ pc'[t] \in {"buffer", "insert"} =>
       pc[t] \in {"buffer", "insert"} /\ req'[t].seen = req[t].seen

LEMMA TimeDrafts ==
  ASSUME TypeInv, [Next]_vars, NEW t \in Sessions, pc'[t] # "idle"
  PROVE  KeepsTime(t) \/ Arrive(t) \/ ReadContext(t) \/ Derives(t) \/ ReadBuffer(t)
<1>1. ASSUME pc'[t] = pc[t], req'[t] = req[t] PROVE KeepsTime(t)
  BY <1>1 DEF KeepsTime, SameSlot
<1>2. ASSUME NEW s \in Sessions, Answer(s) PROVE KeepsTime(t)
  BY <1>1, <1>2, AnswerType DEF TypeInv, OnlySession
<1>3. ASSUME NEW s \in Sessions, Arrive(s) PROVE KeepsTime(t) \/ Arrive(t)
  <2>1. pc' = [pc EXCEPT ![s] = pc'[s]] /\ req' = [req EXCEPT ![s] = req'[s]]
    BY <1>3 DEF Arrive, Create, Cancel, Reschedule, Begin, TypeInv, TypeOK
  <2> QED
    BY <1>1, <1>3, <2>1 DEF TypeInv, TypeOK
<1>4. ASSUME NEW s \in Sessions, AcquireLock(s) PROVE KeepsTime(t)
  BY <1>4 DEF AcquireLock, KeepsTime, SameSlot, Deciding, TypeInv, TypeOK
<1>5. ASSUME NEW s \in Sessions, Reselect(s) PROVE KeepsTime(t)
  <2>1. CASE Rollback(s)
    BY <1>2, <2>1 DEF Rollback
  <2>2. CASE ~Rollback(s) /\ t # s
    BY <1>1, <1>5, <2>2 DEF Reselect, TypeInv, TypeOK
  <2>3. CASE ~Rollback(s) /\ t = s
    <3> DEFINE original == rows[req[t].target]
               row == [req[t].row EXCEPT !.state = original.state, !.room = original.room]
    <3>1. req[t] \in Request /\ req[t].row \in Row
      BY <1>5, <2>3 DEF Reselect, TypeInv, TypeOK, Request
    <3>2. SameSlot(req[t].row, row)
      BY <3>1 DEF Row, SameSlot
    <3>3. /\ pc[t] = "reselect" /\ pc'[t] = "cancelOriginal"
          /\ req' = [req EXCEPT ![t].row = row]
      BY <1>5, <2>3 DEF Reselect, TypeInv, TypeOK
    <3> HIDE DEF row
    <3>4. req'[t].row = row
      BY <3>1, <3>3 DEF TypeInv, TypeOK, Request
    <3> QED
      BY <3>2, <3>3, <3>4 DEF KeepsTime, Deciding
  <2> QED
    BY <2>1, <2>2, <2>3
<1>6. ASSUME NEW s \in Sessions, CancelOriginal(s) \/ Derive(s)
      PROVE  KeepsTime(t) \/ Derives(t)
  <2>1. CASE Rollback(s)
    BY <1>2, <2>1 DEF Rollback
  <2>2. CASE ~Rollback(s) /\ CancelOriginal(s)
    BY <1>6, <2>2 DEF CancelOriginal, KeepsTime, SameSlot, Deciding, TypeInv, TypeOK
  <2>3. CASE ~Rollback(s) /\ Derive(s) /\ t # s
    BY <1>1, <2>3 DEF Derive, TypeInv, TypeOK
  <2> QED
    BY <1>6, <2>1, <2>2, <2>3 DEF Derives
<1>7. ASSUME NEW s \in Sessions, ReadContext(s) \/ ReadBuffer(s), t # s PROVE KeepsTime(t)
  BY <1>1, <1>7 DEF ReadContext, ReadBuffer, TypeInv, TypeOK
<1>9. ASSUME NEW s \in Sessions, ApplyCancellation(s) PROVE KeepsTime(t)
  BY <1>2, <1>9 DEF ApplyCancellation
<1>10. ASSUME NEW s \in Sessions, InsertAndCommit(s) \/ Fail(s) PROVE KeepsTime(t)
  BY <1>2, <1>10 DEF InsertAndCommit, Fail, Rollback
<1>11. ASSUME NEW b \in Bookings,
              Start(b) \/ Complete(b) \/ RecordNoShow(b) \/ ConfirmPayment(b)
       PROVE  KeepsTime(t)
  BY <1>1, <1>11 DEF Start, Complete, RecordNoShow, ConfirmPayment, Transition
<1>12. ASSUME NEW a \in Advisors, NEW p \in Policies, UpsertGlobal(a, p)
       PROVE  KeepsTime(t)
  BY <1>1, <1>12 DEF UpsertGlobal
<1>13. CASE Tick \/ UNCHANGED vars
  BY <1>1, <1>13 DEF Tick, vars
<1>14. ASSUME NEW ids \in SUBSET Bookings, NEW service \in Services, NEW advisee \in Advisees,
              NEW start \in [ids -> Starts], CreateInvoice(ids, service, advisee, start)
       PROVE  KeepsTime(t)
  BY <1>1, <1>14 DEF CreateInvoice
<1> QED
  BY <1>3, <1>4, <1>5, <1>6, <1>7, <1>9, <1>10, <1>11, <1>12, <1>13, <1>14
     DEF Next, InsideTransaction

LEMMA ArrivingTime ==
  ASSUME TypeInv, NEW t \in Sessions, Arrive(t)
  PROVE  /\ pc'[t] \in {"lock", "apply"}
         /\ req'[t].row.start < req'[t].row.until
<1>1. ASSUME NEW service \in Services, NEW advisee, NEW start \in Nat
      PROVE  NewRow(service, advisee, start).start < NewRow(service, advisee, start).until
  <2>1. Duration[service] \in Nat \ {0}
    BY ConstantsAssumption
  <2> QED
    BY <2>1 DEF NewRow
<1>2. ASSUME NEW request, NEW step \in {"lock", "apply"}, Begin(t, step, request)
      PROVE  pc'[t] = step /\ req'[t] = request
  BY <1>2 DEF Begin, TypeInv, TypeOK
<1>3. \A start \in Starts : start \in Nat
  BY StartsAreTimes
<1>4. \A b \in Committed : rows[b].service \in Services /\ rows[b].start \in Nat
  BY DurationType DEF TypeInv
<1>5. ASSUME NEW new \in Bookings, NEW service \in Services,
             NEW advisee \in Advisees, NEW start \in Starts,
             Create(t, new, service, advisee, start)
      PROVE  pc'[t] \in {"lock", "apply"} /\ req'[t].row.start < req'[t].row.until
  <2>1. pc'[t] = "lock" /\ req'[t].row = NewRow(service, advisee, start)
    BY <1>2, <1>5 DEF Create
  <2> QED
    BY <1>1, <1>3, <2>1
<1>6. ASSUME NEW b \in Bookings, Cancel(t, b)
      PROVE  pc'[t] \in {"lock", "apply"} /\ req'[t].row.start < req'[t].row.until
  <2>1. /\ b \in Committed /\ pc'[t] = "apply"
        /\ req'[t].row = NewRow(rows[b].service, rows[b].advisee, rows[b].start)
    BY <1>2, <1>6 DEF Cancel, About
  <2> QED
    BY <1>1, <1>4, <2>1
<1>7. ASSUME NEW b \in Bookings, NEW new \in Bookings, NEW start \in Starts,
             Reschedule(t, b, new, start)
      PROVE  pc'[t] \in {"lock", "apply"} /\ req'[t].row.start < req'[t].row.until
  <2>1. /\ b \in Committed /\ pc'[t] = "lock"
        /\ req'[t].row = NewRow(rows[b].service, rows[b].advisee, start)
    BY <1>2, <1>7 DEF Reschedule, About
  <2> QED
    BY <1>1, <1>3, <1>4, <2>1
<1> QED
  BY <1>5, <1>6, <1>7 DEF Arrive

LEMMA ContextTime ==
  ASSUME TypeInv, NEW t \in Sessions, ReadContext(t)
  PROVE  /\ pc[t] = "context" /\ pc'[t] = "derive" /\ rows' = rows
         /\ req'[t].row = req[t].row /\ req'[t].global \in Policies
<1>1. req[t] \in Request /\ req[t].row \in Row
  BY DEF TypeInv, TypeOK, ReadContext, Request
<1>2. policy[AdvisorOf(req[t].row)] \in Policies
  BY <1>1, AdvisorType DEF TypeInv, TypeOK
<1> QED
  BY <1>1, <1>2 DEF ReadContext, TypeInv, TypeOK, Request, tables

LEMMA BufferTime ==
  ASSUME TypeInv, NEW t \in Sessions, ReadBuffer(t)
  PROVE  /\ pc[t] = "buffer" /\ pc'[t] = "insert" /\ rows' = rows
         /\ req'[t].global = req[t].global /\ req'[t].seen = req[t].seen
         /\ invoiced' = invoiced
         /\ req'[t].row.service = req[t].row.service
         /\ req'[t].row.start = req[t].row.start
         /\ req'[t].row.start < req'[t].row.until
<1> DEFINE until == EndOf(req[t].row) + policy[AdvisorOf(req[t].row)].buffer
           row == [req[t].row EXCEPT !.until = until]
<1>1. req[t] \in Request /\ req[t].row \in Row
  BY DEF ReadBuffer, TypeInv, TypeOK, Request
<1>2. policy[AdvisorOf(req[t].row)].buffer \in Nat
  BY <1>1, AdvisorType, ConstantsAssumption DEF TypeInv, TypeOK, Policy
<1>3. req[t].row.start \in Nat /\ Duration[req[t].row.service] \in Nat \ {0}
  <2>1. req[t].row.start \in Nat /\ req[t].row.service \in Services
    BY <1>1 DEF Row, Times
  <2> QED
    BY <2>1, ConstantsAssumption
<1>4. req[t].row.start < until
  BY <1>2, <1>3 DEF EndOf
<1> HIDE DEF until
<1>5. row.service = req[t].row.service /\ row.start = req[t].row.start /\ row.until = until
  BY <1>1 DEF Row
<1>6. /\ pc[t] = "buffer" /\ pc' = [pc EXCEPT ![t] = "insert"]
      /\ req' = [req EXCEPT ![t].row = row] /\ rows' = rows /\ invoiced' = invoiced
  BY DEF ReadBuffer, until, tables
<1> HIDE DEF row
<1>7. req'[t].row = row /\ req'[t].global = req[t].global /\ req'[t].seen = req[t].seen
  BY <1>1, <1>6 DEF TypeInv, TypeOK, Request
<1> QED
  BY <1>4, <1>5, <1>6, <1>7 DEF TypeInv, TypeOK

LEMMA FiniteStep ==
  ASSUME LimitInv, [Next]_vars
  PROVE  IsFiniteSet(Committed')
<1>1. TypeInv /\ LiveRowsBlock /\ IdsAreFresh /\ IsFiniteSet(Committed)
  BY DEF LimitInv, IInv
<1>2. CASE NoNewTime
  <2>1. Committed' = Committed
    BY <1>2 DEF NoNewTime, Committed
  <2> QED
    BY <1>1, <2>1
<1>3. ASSUME NEW s \in Sessions, Commits(s) PROVE IsFiniteSet(Committed')
  <2> DEFINE id == req[s].new
  <2>1. Committed' \subseteq Committed \cup {id}
    BY <1>1, <1>3, CommitTime DEF Committed
  <2>2. IsFiniteSet(Committed \cup {id})
    BY <1>1, FS_AddElement
  <2> QED
    BY <2>1, <2>2, FS_Subset
<1>4. ASSUME NEW ids, Invoices(ids) PROVE IsFiniteSet(Committed')
  <2>1. Committed' \subseteq Committed \cup ids /\ IsFiniteSet(ids)
    BY <1>4 DEF Invoices, Committed
  <2>2. IsFiniteSet(Committed \cup ids)
    BY <1>1, <2>1, FS_Union
  <2> QED
    BY <2>1, <2>2, FS_Subset
<1> QED
  BY <1>1, <1>2, <1>3, <1>4, TimeEffect

LEMMA EndLaterStep ==
  ASSUME LimitInv, [Next]_vars
  PROVE  EndLater'
<1>1. TypeInv /\ LiveRowsBlock /\ IdsAreFresh /\ EndLater
  BY DEF LimitInv, IInv
<1>2. ASSUME NEW b \in Committed' PROVE rows'[b].start < rows'[b].until
  <2>1. CASE NoNewTime
    BY <1>1, <1>2, <2>1 DEF NoNewTime, Committed, EndLater, SameSlot
  <2>2. ASSUME NEW s \in Sessions, Commits(s) PROVE rows'[b].start < rows'[b].until
    <3>1. req[s].row.start < req[s].row.until
      BY <1>1, <2>2, CommitTime DEF EndLater
    <3>2. CASE b = req[s].new
      BY <1>1, <2>2, <3>1, <3>2, CommitTime DEF SameSlot
    <3>3. CASE b # req[s].new
      <4>1. \/ rows'[b] = rows[b]
            \/ rows[b] # None /\ SameSlot(rows[b], rows'[b])
        BY <1>1, <1>2, <2>2, <3>3, CommitTime DEF Committed
      <4>2. b \in Committed
        BY <1>2, <4>1 DEF Committed
      <4> QED
        BY <1>1, <4>1, <4>2 DEF EndLater, SameSlot
    <3> QED
      BY <3>2, <3>3
  <2>3. ASSUME NEW ids, Invoices(ids) PROVE rows'[b].start < rows'[b].until
    <3>1. CASE b \in ids
      <4>1. rows'[b] \in Row /\ rows'[b].until = EndOf(rows'[b])
        BY <2>3, <3>1 DEF Invoices, IsInvoiceRow
      <4>2. rows'[b].start \in Nat /\ rows'[b].service \in Services
        BY <4>1 DEF Row, Times
      <4>3. Duration[rows'[b].service] \in Nat \ {0}
        BY <4>2, ConstantsAssumption
      <4> QED
        BY <4>1, <4>2, <4>3 DEF EndOf
    <3>2. CASE b \notin ids
      BY <1>1, <1>2, <2>3, <3>2 DEF Invoices, Committed, EndLater
    <3> QED
      BY <3>1, <3>2
  <2> QED
    BY <1>1, <2>1, <2>2, <2>3, TimeEffect
<1>3. ASSUME NEW t \in Sessions, pc'[t] # "idle" PROVE req'[t].row.start < req'[t].row.until
  <2>1. CASE KeepsTime(t)
    BY <1>1, <2>1 DEF KeepsTime, SameSlot, EndLater
  <2>2. CASE Arrive(t)
    BY <1>1, <2>2, ArrivingTime
  <2>3. CASE ReadContext(t)
    BY <1>1, <2>3, ContextTime DEF EndLater
  <2>4. CASE Derives(t)
    <3>1. pc[t] # "idle" /\ req'[t].row = req[t].row
      BY <1>1, <2>4, DerivedDraft
    <3> QED
      BY <1>1, <3>1 DEF EndLater
  <2>5. CASE ReadBuffer(t)
    BY <1>1, <2>5, BufferTime
  <2> QED
    BY <1>1, <1>3, <2>1, <2>2, <2>3, <2>4, <2>5, TimeDrafts
<1> QED
  BY <1>2, <1>3 DEF EndLater

\* Whoever has found room is alone with the Advisor's lock, so only their own
\* commit or an invoice can fill it.
LEMMA OthersShrink ==
  ASSUME LimitInv, [Next]_vars, NEW t \in Sessions, pc[t] \in InTransaction,
         NEW services \in SUBSET ServicesOf(AdvisorOf(req[t].row))
  PROVE  \/ Shrinks(Bookings, services)
         \/ Commits(t)
         \/ \E ids : Invoices(ids)
<1>1. TypeInv /\ LiveRowsBlock /\ IdsAreFresh /\ HoldsLock
  BY DEF LimitInv, IInv
<1>2. CASE NoNewTime
  BY <1>2 DEF NoNewTime, SameSlot, Shrinks
<1>3. ASSUME NEW s \in Sessions, s # t, Commits(s) PROVE Shrinks(Bookings, services)
  <2> DEFINE id == req[s].new
             service == req[s].row.service
  <2>1. /\ pc[s] = "insert" /\ id \in Bookings /\ rows[id] = None
        /\ rows'[id].service = service
        /\ \A b \in Bookings \ {id} :
             \/ rows'[b] = rows[b]
             \/ rows'[b].service = service
    BY <1>1, <1>3, CommitTime DEF SameSlot
  <2>2. AdvisorOf(req[s].row) # AdvisorOf(req[t].row)
    BY <1>1, <1>3, <2>1 DEF HoldsLock, InTransaction
  <2>3. service \notin services
    BY <2>2 DEF ServicesOf, AdvisorOf
  <2> HIDE DEF id, service
  <2> QED
    BY <2>1, <2>3 DEF Shrinks
<1> QED
  BY <1>1, <1>2, <1>3, TimeEffect

LEMMA RoomStays ==
  ASSUME LimitInv, NEW ids, NEW less, less \subseteq ids, NEW services,
         Shrinks(less, services), NEW day, NEW service \in Services,
         NEW limit \in Nat \cup {None}, HasRoom(rows, ids, services, day, service, limit)
  PROVE  HasRoom(rows', less, services, day, service, limit)
<1>1. TypeOK /\ IsFiniteSet(Committed)
  BY DEF LimitInv, IInv, TypeInv
<1>2. /\ Load(rows, ids, services, day) \in Nat /\ Load(rows', less, services, day) \in Nat
      /\ Load(rows', less, services, day) <= Load(rows, ids, services, day)
  BY <1>1, LoadType, ShrinkingLoad
<1>3. Duration[service] \in Nat /\ None \notin Nat
  BY ConstantsAssumption
<1> QED
  BY <1>2, <1>3 DEF HasRoom

LEMMA LimitTypes ==
  ASSUME LimitInv, NEW t \in Sessions, pc[t] \in Deciding
  PROVE  LET service == req[t].row.service
             global  == req[t].global
         IN  /\ req[t].row \in Row /\ service \in Services
             /\ req[t].row.start \in Nat
             /\ global \in Policies /\ global.limit \in Nat \cup {None}
             /\ ServiceLimit[service] \in Nat \cup {None}
             /\ Duration[service] \in Nat
             /\ OwnerOf[service] = AdvisorOf(req[t].row)
             /\ {service} \subseteq ServicesOf(OwnerOf[service])
<1>1. req[t].row \in Row /\ req[t].global \in Policies
  BY DEF LimitInv, IInv, TypeInv, TypeOK, Deciding, Request, RoomIsLeft
<1>2. req[t].row.service \in Services /\ req[t].row.start \in Nat
  BY <1>1 DEF Row, Times
<1>3. req[t].global.limit \in Nat \cup {None}
  BY <1>1, ConstantsAssumption DEF Policy
<1> QED
  BY <1>1, <1>2, <1>3, ConstantsAssumption DEF AdvisorOf, ServicesOf

\* What an invoice books after the derivation is not in its view.
LEMMA ViewShrinks ==
  ASSUME LimitInv, [Next]_vars, NEW t \in Sessions, pc[t] \in {"buffer", "insert"},
         ~Commits(t), req'[t].seen = req[t].seen,
         NEW services \in SUBSET ServicesOf(AdvisorOf(req[t].row))
  PROVE  /\ InView(t)' \subseteq InView(t)
         /\ Shrinks(InView(t)', services)
         /\ Committed \subseteq Committed'
<1>1. TypeInv /\ IdsAreFresh /\ TableEffect /\ req[t].seen \subseteq Committed
  BY TableSteps DEF LimitInv, IInv, RoomIsLeft
<1>2. invoiced \subseteq invoiced'
  <2>1. CASE Still \/ (\E b \in Bookings, target \in Later : Moved(b, target))
                   \/ (\E s \in Sessions : Applied(s))
    BY <1>1, <2>1, InPlace
  <2>2. ASSUME NEW s \in Sessions, Commits(s) PROVE invoiced' = invoiced
    BY <1>1, <2>2, CommitsRows
  <2>3. ASSUME NEW ids, Invoices(ids) PROVE invoiced \subseteq invoiced'
    BY <2>3 DEF Invoices
  <2> QED
    BY <1>1, <2>1, <2>2, <2>3 DEF TableEffect
<1>3. InView(t)' \subseteq InView(t)
  BY <1>2 DEF InView
<1>4. Committed \subseteq Committed'
  BY <1>1, KeptStep DEF RowsKept, Committed
<1>5. CASE Shrinks(Bookings, services)
  BY <1>3, <1>4, <1>5 DEF Shrinks
<1>6. ASSUME NEW ids, Invoices(ids) PROVE Shrinks(InView(t)', services)
  <2>1. \A b \in InView(t)' : b \notin ids
    BY <1>1, <1>6 DEF InView, Invoices, Fresh, Committed
  <2> QED
    BY <1>6, <2>1 DEF Invoices, Shrinks
<1> QED
  BY <1>3, <1>4, <1>5, <1>6, OthersShrink DEF InTransaction

LEMMA RoomStep ==
  ASSUME LimitInv, [Next]_vars
  PROVE  RoomIsLeft'
<1>1. /\ TypeInv /\ TypeOK /\ LiveRowsBlock /\ IdsAreFresh /\ EndLater
      /\ IsFiniteSet(Committed) /\ RoomIsLeft
  BY DEF LimitInv, IInv, TypeInv
<1> SUFFICES ASSUME NEW t \in Sessions, pc'[t] \in Deciding
             PROVE  /\ req'[t].global \in Policies
                    /\ pc'[t] \in {"buffer", "insert"} =>
                         RoomLeft(t)' /\ req'[t].seen \subseteq Committed'
  BY DEF RoomIsLeft, Deciding
<1>2. CASE KeepsTime(t)
  <2> DEFINE service == req[t].row.service
             day == DayOf(req[t].row.start)
             limit == req[t].global.limit
             ofA == ServicesOf(OwnerOf[service])
  <2>1. /\ pc[t] \in Deciding /\ req'[t].global = req[t].global
        /\ req'[t].row.service = service /\ req'[t].row.start = req[t].row.start
    BY <1>2 DEF KeepsTime, SameSlot
  <2>2. req[t].global \in Policies
    BY <2>1, LimitTypes
  <2>3. ASSUME pc'[t] \in {"buffer", "insert"}
        PROVE  RoomLeft(t)' /\ req'[t].seen \subseteq Committed'
    <3>1. /\ pc[t] \in {"buffer", "insert"} /\ RoomLeft(t)
          /\ req'[t].seen = req[t].seen /\ req[t].seen \subseteq Committed
      BY <1>1, <1>2, <2>3 DEF KeepsTime, RoomIsLeft
    <3>2. ~Commits(t)
      BY <1>1, <2>3, CommitEffect, AnswerType DEF Commits
    <3>3. /\ InView(t)' \subseteq InView(t) /\ Committed \subseteq Committed'
          /\ Shrinks(InView(t)', ofA) /\ Shrinks(InView(t)', {service})
      BY <2>1, <3>1, <3>2, LimitTypes, ViewShrinks
    <3>4. /\ HasRoom(rows, InView(t), ofA, day, service, limit)
          /\ HasRoom(rows, InView(t), {service}, day, service, ServiceLimit[service])
      BY <3>1 DEF RoomLeft
    <3>5. /\ service \in Services /\ limit \in Nat \cup {None}
          /\ ServiceLimit[service] \in Nat \cup {None}
      BY <2>1, LimitTypes
    <3> DEFINE view == InView(t)
               less == InView(t)'
    <3> HIDE DEF view, less, service, day, limit, ofA
    <3>6. /\ HasRoom(rows', less, ofA, day, service, limit)
          /\ HasRoom(rows', less, {service}, day, service, ServiceLimit[service])
      BY <3>3, <3>4, <3>5, RoomStays DEF view, less
    <3> QED
      BY <2>1, <3>1, <3>3, <3>6 DEF RoomLeft, less, service, day, limit, ofA
  <2> QED
    BY <2>1, <2>2, <2>3
<1>3. CASE Arrive(t)
  BY <1>1, <1>3, ArrivingTime DEF Deciding
<1>4. CASE ReadContext(t)
  BY <1>1, <1>4, ContextTime
<1>5. CASE Derives(t)
  <2> DEFINE service == req[t].row.service
             day == DayOf(req[t].row.start)
             limit == req[t].global.limit
             ofA == ServicesOf(OwnerOf[service])
             less == InView(t)'
  <2>1. /\ pc[t] = "derive" /\ rows' = rows /\ req'[t].seen = Committed
        /\ req'[t].row = req[t].row /\ req'[t].global = req[t].global
        /\ SlotOffered(service, req[t].row.start, req[t].global)
    BY <1>1, <1>5, DerivedDraft DEF Derives, Derive, tables
  <2>2. /\ req[t].global \in Policies
        /\ service \in Services /\ limit \in Nat \cup {None}
        /\ ServiceLimit[service] \in Nat \cup {None}
    BY <2>1, LimitTypes DEF Deciding
  <2>3. /\ HasRoom(rows, Bookings, ofA, day, service, limit)
        /\ HasRoom(rows, Bookings, {service}, day, service, ServiceLimit[service])
    BY <1>1, <2>1, LimitTypes, OfferedHasRoom DEF Deciding
  <2>4. /\ less \subseteq Bookings
        /\ \A services : Shrinks(less, services)
    BY <2>1 DEF InView, Shrinks
  <2>5. Committed' = Committed
    BY <2>1 DEF Committed
  <2> HIDE DEF service, day, limit, ofA, less
  <2>6. /\ HasRoom(rows', less, ofA, day, service, limit)
        /\ HasRoom(rows', less, {service}, day, service, ServiceLimit[service])
    BY <2>2, <2>3, <2>4, RoomStays
  <2> QED
    BY <2>1, <2>2, <2>5, <2>6 DEF RoomLeft, service, day, limit, ofA, less
<1>6. CASE ReadBuffer(t)
  <2>1. /\ pc[t] = "buffer" /\ rows' = rows /\ req'[t].global = req[t].global
        /\ req'[t].row.service = req[t].row.service
        /\ req'[t].row.start = req[t].row.start
        /\ req'[t].seen = req[t].seen /\ invoiced' = invoiced
    BY <1>1, <1>6, BufferTime
  <2>2. /\ req[t].global \in Policies /\ RoomLeft(t)
        /\ req[t].seen \subseteq Committed
    BY <1>1, <2>1 DEF RoomIsLeft
  <2>3. InView(t)' = InView(t) /\ Committed' = Committed
    BY <2>1 DEF InView, Committed
  <2> QED
    BY <2>1, <2>2, <2>3 DEF RoomLeft
<1> QED
  BY <1>1, <1>2, <1>3, <1>4, <1>5, <1>6, TimeDrafts DEF Deciding

LEMMA LimitInit == Init => LimitInv
<1> SUFFICES ASSUME Init PROVE LimitInv
  OBVIOUS
<1>1. Committed = {} /\ \A s \in Sessions : pc[s] = "idle"
  BY DEF Init, Committed
<1> QED
  BY <1>1, InvInit, FS_EmptySet DEF LimitInv, EndLater, RoomIsLeft

\* The inductive invariant of the daily limits.
THEOREM LimitInductive == Spec => []LimitInv
<1>1. IInv /\ [Next]_vars => IInv'
  BY TypeStep, LockStep, FreshStep, LiveStep, OriginalsStep, NoOverlapStep DEF IInv
<1>2. LimitInv /\ [Next]_vars => LimitInv'
  BY <1>1, FiniteStep, EndLaterStep, RoomStep DEF LimitInv
<1> QED
  BY LimitInit, <1>2, PTL DEF Spec

\* A limit that had room for one more consultation holds after the commit.
LEMMA LimitHolds ==
  ASSUME LimitInv, NEW s \in Sessions, Commits(s), req[s].kind = "create",
         NEW ids, NEW services, NEW limit \in Nat,
         HasRoom(rows, ids, services, DayOf(req[s].row.start), req[s].row.service, limit)
  PROVE  Load(rows', ids, services, DayOf(req[s].row.start)) <= limit
<1> DEFINE day == DayOf(req[s].row.start)
           n   == Duration[req[s].row.service]
           id  == req[s].new
<1>1. TypeInv /\ TypeOK /\ IdsAreFresh /\ IsFiniteSet(Committed)
  BY DEF LimitInv, IInv, TypeInv
<1>2. /\ pc[s] = "insert" /\ id \in Bookings /\ rows[id] = None
      /\ rows'[id].service = req[s].row.service
      /\ \A b \in Bookings \ {id} : rows'[b] = rows[b]
  BY <1>1, CommitTime DEF SameSlot
<1>3. n \in Nat /\ Load(rows, ids, services, day) \in Nat
  BY <1>1, <1>2, LimitTypes, LoadType DEF Deciding
<1>4. Load(rows, ids, services, day) + n <= limit
  BY ConstantsAssumption DEF HasRoom
<1>5. /\ Load(rows', ids, services, day) \in Nat
      /\ Load(rows', ids, services, day) <= Load(rows, ids, services, day) + n
  <2> HIDE DEF id, day
  <2> QED
    BY <1>1, <1>2, <1>3, GrowingLoad
<1> HIDE DEF day, n
<1> QED
  BY <1>3, <1>4, <1>5 DEF day

\* A request that leaves with a change of the bookings has committed.
LEMMA CommittedCommits ==
  ASSUME TypeInv, LiveRowsBlock, IdsAreFresh, [Next]_vars, NEW s \in Sessions, CommittedBy(s)
  PROVE  Commits(s)
<1>1. /\ pc[s] = "insert" /\ pc'[s] = "idle" /\ rows' # rows /\ TableEffect
  BY TableSteps DEF CommittedBy
<1>2. ASSUME NEW t \in Sessions, Answer(t), pc[t] # "insert" \/ t # s PROVE FALSE
  BY <1>1, <1>2 DEF Answer, TypeInv, TypeOK
<1>3. ASSUME NEW t \in Sessions, Commits(t) PROVE Commits(s)
  BY <1>2, <1>3, CommitsRows
<1>4. ASSUME NEW t \in Sessions, Applied(t) PROVE FALSE
  BY <1>2, <1>4 DEF Applied
<1> QED
  BY <1>1, <1>3, <1>4 DEF TableEffect, Still, tables, Moved, Invoices

LEMMA CreationStep ==
  ASSUME LimitInv, [Next]_vars, NEW s \in Sessions, NEW service \in Services,
         CommittedBy(s), req[s].kind = "create", req[s].row.service = service,
         TypeOK', IsFiniteSet(Committed)', LoadsAgree',
         NEW day, day = DayOf(req[s].row.start), NEW ids, ids = InView(s)
  PROVE  /\ WithinLimit(BookedOn(OwnerOf[service], day, ids)')
         /\ \/ ServiceLimit[service] = None
            \/ (BookedWith(service, day, ids) <= ServiceLimit[service])'
<1> DEFINE global == req[s].global
           ofA == ServicesOf(OwnerOf[service])
<1>1. /\ BookedOn(OwnerOf[service], day, ids)' = Load(rows', ids, ofA, day)
      /\ BookedWith(service, day, ids)' = Load(rows', ids, {service}, day)
  <2>1. /\ BookedOn(OwnerOf[service], day, ids)' = Load(rows, ids, ofA, day)'
        /\ BookedWith(service, day, ids)' = Load(rows, ids, {service}, day)'
    BY DEF LoadsAgree, ServicesOf
  <2> QED
    BY <2>1 DEF Load, Grid, Taking
<1>2. Commits(s) /\ pc[s] = "insert"
  BY CommittedCommits DEF LimitInv, IInv, CommittedBy
<1>3. /\ global \in Policies /\ global.limit \in Nat \cup {None}
      /\ ServiceLimit[service] \in Nat \cup {None}
  BY <1>2, LimitTypes DEF Deciding
<1>4. /\ HasRoom(rows, ids, ofA, day, service, global.limit)
      /\ HasRoom(rows, ids, {service}, day, service, ServiceLimit[service])
  BY <1>2 DEF LimitInv, RoomIsLeft, RoomLeft
<1> HIDE DEF ofA
<1>5. global.limit = None \/ Load(rows', ids, ofA, day) <= global.limit
  BY <1>2, <1>3, <1>4, LimitHolds
<1>6. ServiceLimit[service] = None \/ Load(rows', ids, {service}, day) <= ServiceLimit[service]
  BY <1>2, <1>3, <1>4, LimitHolds
<1>7. WithinLimit(BookedOn(OwnerOf[service], day, ids)')
  BY <1>1, <1>3, <1>5 DEF WithinLimit
<1> QED
  BY <1>1, <1>6, <1>7

\* A creation never takes a day past the Advisor's limit or the Service's,
\* whatever other requests are in flight and whoever edits the limit meanwhile,
\* when the invoices created since its derivation are left out.
THEOREM DailyLimitsAreRespected == Spec => CreationRespectsDailyLimit
<1>1. LoadsAgree'
  BY BookedIsLoad, PTL
<1>2. LimitInv => TypeOK /\ IsFiniteSet(Committed)
  BY DEF LimitInv, IInv, TypeInv
<1>3. LimitInv /\ LimitInv' /\ [Next]_vars =>
        [\A s \in Sessions, service \in Services :
           (/\ CommittedBy(s)
            /\ req[s].kind = "create" /\ req[s].row.service = service) =>
             \A day \in {DayOf(req[s].row.start)}, ids \in {InView(s)} :
               /\ WithinLimit(BookedOn(OwnerOf[service], day, ids)')
               /\ \/ ServiceLimit[service] = None
                  \/ (BookedWith(service, day, ids) <= ServiceLimit[service])']_vars
  <2> SUFFICES ASSUME LimitInv, LimitInv', [Next]_vars,
                      NEW s \in Sessions, NEW service \in Services,
                      CommittedBy(s), req[s].kind = "create", req[s].row.service = service,
                      NEW day, day = DayOf(req[s].row.start), NEW ids, ids = InView(s)
               PROVE  /\ WithinLimit(BookedOn(OwnerOf[service], day, ids)')
                      /\ \/ ServiceLimit[service] = None
                         \/ (BookedWith(service, day, ids) <= ServiceLimit[service])'
    OBVIOUS
  <2>1. TypeOK' /\ IsFiniteSet(Committed)'
    BY <1>2 DEF LimitInv, IInv, TypeInv
  <2> QED
    BY <1>1, <2>1, CreationStep
<1> QED
  BY <1>3, LimitInductive, PTL DEF Spec, CreationRespectsDailyLimit
=============================================================================
