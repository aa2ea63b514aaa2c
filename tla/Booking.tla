------------------------------ MODULE Booking ------------------------------
(***************************************************************************)
(* Appointments and the Advisor's schedule: modules/bookings, with the     *)
(* slot derivation of modules/availability a booking is checked against    *)
(* and the chat room a booking opens.  modules/payment inserts into the    *)
(* same table; its transaction (Payment.tla) is one step here.             *)
(*                                                                         *)
(* A request (session) runs concurrently with every other one.  Its        *)
(* program counter stops at each await at which another request may take   *)
(* effect.  `rows' and `rooms' are the COMMITTED tables: what an open      *)
(* transaction has written (the draft row, the cancellation of the         *)
(* original) sits in its request until it commits, and every read made     *)
(* through the pool rather than the transaction sees the committed tables  *)
(* only (READ COMMITTED).                                                  *)
(*                                                                         *)
(* Time is counted in slots of the fixed grid (slotIntervalMinutes).       *)
(***************************************************************************)
EXTENDS Integers, FiniteSetsExt

CONSTANTS
  Sessions,       \* requests that can be in flight at once (bound)
  Bookings,       \* ids of service_appointments rows (bound)
  Advisors, Advisees, Services,
  OwnerOf,        \* services.advisorId
  Duration,       \* services.durationMinutes, in slots
  OpenStarts,     \* starts on the grid inside the profile's windows and
                  \* outside its blocked periods, per service
  ServiceLimit,   \* services.dailyConsultationLimitMinutes; None = no limit
  Policies,       \* values an Advisor's Global Availability row takes (bound)
  HorizonDays,    \* bookingHorizonDays
  DayLength,      \* slots in a day
  MaxTime,        \* the clock stops here (bound)
  None

VARIABLES
  now,      \* the clock every `new Date()' reads
  policy,   \* advisor_global_availability, per Advisor
  rows,     \* service_appointments: a row, or None while the id is unused
  rooms,    \* chat_rooms with their chat_members; a room is named after the
            \* booking it was opened for, {} while it does not exist
  lock,     \* pg_advisory_xact_lock holder, per Advisor
  told,     \* how often notifyConfirmed() ran for a booking
  invoiced, \* service_appointments_on_invoice: bookings an invoice is for
  pc,       \* where each request stands
  req       \* what each request carries

vars == <<now, policy, rows, rooms, told, invoiced, lock, pc, req>>
tables == <<rows, rooms, told, invoiced>>

Users == Advisors \cup Advisees
Times == Nat
States == {"PENDING_PAYMENT", "BOOKED", "IN_PROGRESS", "COMPLETED",
           "CANCELLED", "NO_SHOW"}

\* advisor_global_availability; limit None is "no advisor-wide daily limit".
Policy == [notice : Nat, buffer : Nat, limit : Nat \cup {None}]

\* endTime is start + Duration[service]: the row and the service agree.
Row == [service : Services, advisee : Advisees, start : Times, until : Times,
        state : States, room : Bookings \cup {None}, blocks : BOOLEAN,
        cancelledAt : Times \cup {None}]

\* What cancellationValues() writes besides the state.  Who cancelled is left
\* out: cancelledByUserId is always written beside cancelledAt.
Cancellation == [blocks : BOOLEAN, at : Times]

\* target: the booking a request is about; new: the id its insert will get;
\* row: the row it read or drafted; cancellation: the values it will write;
\* global: the policy its scheduling context was read with; seen: the bookings
\* its derivation found (a history variable, no guard reads it).
Request == [kind : {"create", "cancel", "reschedule"}, target : Bookings,
            new : Bookings, row : Row,
            cancellation : Cancellation \cup {None},
            global : Policies \cup {None}, seen : SUBSET Bookings]

\* Awaits inside db.transaction(), the advisory lock being held.
InTransaction == {"reselect", "cancelOriginal", "context", "derive", "buffer",
                  "insert"}

ASSUME ConstantsAssumption ==
  /\ OwnerOf \in [Services -> Advisors]
  /\ Duration \in [Services -> Nat \ {0}]
  /\ OpenStarts \in [Services -> SUBSET Nat]
  /\ ServiceLimit \in [Services -> Nat \cup {None}]
  /\ Policies \subseteq Policy /\ Policies # {}
  /\ HorizonDays \in Nat /\ DayLength \in Nat \ {0} /\ MaxTime \in Nat
  /\ Advisees # {}
  /\ None \notin Nat \cup Users \cup Bookings \cup Sessions \cup Row
               \cup Request \cup Cancellation \cup Policies

----------------------------------------------------------------------------
(* The state machine of booking-states.ts.                                 *)

\* Variant: a redelivered confirmation is accepted again.
SourceStatesRepeated(target) ==
  IF target = "CANCELLED" THEN {"PENDING_PAYMENT", "BOOKED"}
  ELSE {"PENDING_PAYMENT", "BOOKED", "IN_PROGRESS"}

SourceStates(target) ==
  CASE target = "BOOKED"      -> {"PENDING_PAYMENT"}
    [] target = "IN_PROGRESS" -> {"BOOKED"}
    [] target = "COMPLETED"   -> {"IN_PROGRESS"}
    [] target = "NO_SHOW"     -> {"BOOKED"}
    [] target = "CANCELLED"   -> {"PENDING_PAYMENT", "BOOKED"}
    [] OTHER                  -> {}

\* Variant: the notice itself is one slot too little.
ReopensAvailabilityStrictly(start, at, notice) == start - at > notice

ReopensAvailability(start, at, notice) == start - at >= notice

----------------------------------------------------------------------------
(* Reading the schedule.                                                   *)

Committed == {b \in Bookings : rows[b] # None}
AdvisorOf(row) == OwnerOf[row.service]
EndOf(row) == row.start + Duration[row.service]
DayOf(t) == t \div DayLength

Overlaps(start, end, otherStart, otherEnd) ==
  start < otherEnd /\ end > otherStart

\* The blocking rows of an Advisor that touch a day, as a pool connection
\* reads them: committed rows only, whoever holds the lock.
BlockingOn(advisor, day) ==
  {b \in Committed :
     /\ AdvisorOf(rows[b]) = advisor
     /\ rows[b].blocks
     /\ Overlaps(rows[b].start, rows[b].until,
                 day * DayLength, (day + 1) * DayLength)}

MinutesBooked(ids, day) ==
  LET duration(b) == Duration[rows[b].service]
  IN  MapThenSumSet(duration, {b \in ids : DayOf(rows[b].start) = day})

WithinDailyLimits(service, day, ids, limit) ==
  LET fits(booked, most) ==
        most = None \/ MinutesBooked(booked, day) + Duration[service] <= most
  IN  /\ fits(ids, limit)
      /\ fits({b \in ids : rows[b].service = service}, ServiceLimit[service])

SlotIsFree(service, start, ids, buffer) ==
  \A b \in ids : ~Overlaps(start, start + Duration[service] + buffer,
                           rows[b].start, rows[b].until)

\* findSlotAt() finds the start among the slots it derives for its day.
SlotOffered(service, start, global) ==
  LET advisor == OwnerOf[service]
      day     == DayOf(start)
      ids     == BlockingOn(advisor, day)
  IN  /\ start \in OpenStarts[service]
      /\ day <= DayOf(now) + HorizonDays
      /\ start >= now + global.notice
      /\ WithinDailyLimits(service, day, ids, global.limit)
      /\ SlotIsFree(service, start, ids, global.buffer)

----------------------------------------------------------------------------
(* The guarantees of the database.                                         *)

\* Variant: a constraint over [start_time, end_time) that forgets the buffer.
ExcludedByConsultation(row, id, table) ==
  /\ row.blocks
  /\ \E b \in Bookings \ {id} :
       /\ table[b] # None
       /\ table[b].blocks
       /\ AdvisorOf(table[b]) = AdvisorOf(row)
       /\ Overlaps(row.start, EndOf(row), table[b].start, EndOf(table[b]))

\* EXCLUDE (advisor_id WITH =, tstzrange(start_time, unavailable_until) WITH &&)
\* WHERE blocks_availability: the rows that refuse `row' in that table.
Excluded(row, id, table) ==
  /\ row.blocks
  /\ \E b \in Bookings \ {id} :
       /\ table[b] # None
       /\ table[b].blocks
       /\ AdvisorOf(table[b]) = AdvisorOf(row)
       /\ Overlaps(row.start, row.until, table[b].start, table[b].until)

\* Reschedules that cancelled their original and have not committed.
Rescheduling ==
  {s \in Sessions : /\ pc[s] \in {"context", "derive", "buffer", "insert"}
                    /\ req[s].kind = "reschedule"}

\* A transaction that updated a row holds its row lock until it ends.
RowLocked(b) == \E s \in Rescheduling : req[s].target = b

\* Variant: no advisory lock.
MayAlwaysLock(a) == a \in Advisors

MayLock(a) == lock[a] = None

\* Variant: a session-level lock that outlives the transaction.
KeepLock(s) == s \in Sessions /\ lock' = lock

Unlock(s) == lock' = [lock EXCEPT ![AdvisorOf(req[s].row)] = None]

\* The id of an insert is a fresh uuid: unused, and in no other request.
Fresh(b) == rows[b] = None /\ \A s \in Sessions : pc[s] # "idle" => req[s].new # b

Cancelled(row, c) ==
  [row EXCEPT !.state = "CANCELLED", !.blocks = c.blocks,
              !.cancelledAt = c.at]

\* Variant: the replacement is inserted and the original left as it was.
OwnViewUnchanged(s) == IF s \in Sessions THEN rows ELSE rows

\* The committed table with the update this transaction has not committed.
OwnView(s) ==
  IF req[s].kind = "reschedule"
    THEN [rows EXCEPT ![req[s].target] = Cancelled(@, req[s].cancellation)]
    ELSE rows

----------------------------------------------------------------------------
(* Requests that arrive.                                                   *)

NewRow(service, advisee, start) ==
  [service |-> service, advisee |-> advisee, start |-> start,
   until |-> start + Duration[service], state |-> "PENDING_PAYMENT",
   room |-> None, blocks |-> TRUE, cancelledAt |-> None]

\* cancellationValues(): the policy and the clock are read when the request
\* arrives, not when the cancellation is written.
CancellationValues(row) ==
  [blocks |-> ~ReopensAvailability(row.start, now, policy[AdvisorOf(row)].notice),
   at |-> now]

\* The request leaves with its response.
Answer(s) ==
  /\ pc' = [pc EXCEPT ![s] = "idle"]
  /\ req' = [req EXCEPT ![s] = None]

Begin(s, step, request) ==
  /\ pc[s] = "idle"
  /\ pc' = [pc EXCEPT ![s] = step]
  /\ req' = [req EXCEPT ![s] = request]
  /\ UNCHANGED <<now, policy, tables, lock>>

Create(s, new, service, advisee, start) ==
  /\ OwnerOf[service] # advisee
  /\ Fresh(new)
  /\ Begin(s, "lock", [kind |-> "create", target |-> new, new |-> new,
                       row |-> NewRow(service, advisee, start),
                       cancellation |-> None, global |-> None, seen |-> {}])

\* A request about a committed booking: what it keeps of the row it read.
About(kind, b, new, start) ==
  [kind |-> kind, target |-> b, new |-> new,
   row |-> NewRow(rows[b].service, rows[b].advisee, start),
   cancellation |-> CancellationValues(rows[b]), global |-> None, seen |-> {}]

\* cancelAsAdvisee() and cancelAsAdvisor() differ in whose booking is found.
Cancel(s, b) ==
  /\ b \in Committed
  /\ Begin(s, "apply", About("cancel", b, b, rows[b].start))

Reschedule(s, b, new, start) ==
  /\ b \in Committed
  /\ Fresh(new)
  /\ Begin(s, "lock", About("reschedule", b, new, start))

----------------------------------------------------------------------------
(* Single statements: a conditional update waits for the row lock and then *)
(* applies only in an accepted state.                                      *)

\* Variant: UPDATE ... WHERE id only, for every transition.
TransitionByIdOnly(b, target) ==
  /\ b \in Committed
  /\ ~RowLocked(b)
  /\ rows' = [rows EXCEPT ![b].state = target]
  /\ UNCHANGED <<now, policy, rooms, invoiced, lock, pc, req>>

Transition(b, target) ==
  /\ b \in Committed
  /\ ~RowLocked(b)
  /\ rows[b].state \in SourceStates(target)
  /\ rows' = [rows EXCEPT ![b].state = target]
  /\ UNCHANGED <<now, policy, rooms, invoiced, lock, pc, req>>

Start(b)    == Transition(b, "IN_PROGRESS") /\ UNCHANGED told
Complete(b) == Transition(b, "COMPLETED") /\ UNCHANGED told

RecordNoShow(b) ==
  /\ b \in Committed /\ rows[b].start <= now
  /\ Transition(b, "NO_SHOW")
  /\ UNCHANGED told

\* A redelivered confirmation finds another state and changes nothing; the one
\* that moved the row notifies both parties, best effort.
ConfirmPayment(b) ==
  /\ Transition(b, "BOOKED")
  /\ told' = [told EXCEPT ![b] = @ + 1]

ApplyCancellation(s) ==
  LET b == req[s].target
      accepted == rows[b].state \in SourceStates("CANCELLED")
  IN  /\ pc[s] = "apply"
      /\ ~RowLocked(b)
      /\ rows' = IF accepted
                   THEN [rows EXCEPT ![b] = Cancelled(@, req[s].cancellation)]
                   ELSE rows
      /\ Answer(s)
      /\ UNCHANGED <<now, policy, rooms, told, invoiced, lock>>

----------------------------------------------------------------------------
(* The transaction under the Advisor's scheduling lock.                    *)

AcquireLock(s) ==
  LET a == AdvisorOf(req[s].row)
  IN  /\ pc[s] = "lock"
      /\ MayLock(a)
      /\ lock' = [lock EXCEPT ![a] = s]
      /\ pc' = [pc EXCEPT ![s] = IF req[s].kind = "create" THEN "context"
                                                           ELSE "reselect"]
      /\ UNCHANGED <<now, policy, tables, req>>

\* The transaction rolls back: the request is answered 400, 404, 409 or 500.
Rollback(s) == Unlock(s) /\ Answer(s) /\ UNCHANGED <<now, policy, tables>>

\* SELECT ... WHERE id AND state IN (accepted), without FOR UPDATE: the
\* replacement's state and room come from this read.
Reselect(s) ==
  LET original == rows[req[s].target]
  IN  /\ pc[s] = "reselect"
      /\ IF original.state \in SourceStates("CANCELLED")
           THEN /\ pc' = [pc EXCEPT ![s] = "cancelOriginal"]
                /\ req' = [req EXCEPT ![s].row =
                     [@ EXCEPT !.state = original.state, !.room = original.room]]
                /\ UNCHANGED <<now, policy, tables, lock>>
           ELSE Rollback(s)

\* UPDATE ... WHERE id only.  The exclusion constraint may refuse it.
CancelOriginal(s) ==
  LET b == req[s].target
  IN  /\ pc[s] = "cancelOriginal"
      /\ ~RowLocked(b)
      /\ IF Excluded(OwnView(s)[b], b, rows)
           THEN Rollback(s)
           ELSE /\ pc' = [pc EXCEPT ![s] = "context"]
                /\ UNCHANGED <<now, policy, tables, lock, req>>

\* schedulingContext(): the policy the slots will be derived with.
ReadContext(s) ==
  /\ pc[s] = "context"
  /\ req' = [req EXCEPT ![s].global = policy[AdvisorOf(req[s].row)]]
  /\ pc' = [pc EXCEPT ![s] = "derive"]
  /\ UNCHANGED <<now, policy, tables, lock>>

\* findSlotAt() through the pool: this transaction's own writes are unseen.
Derive(s) ==
  /\ pc[s] = "derive"
  /\ IF SlotOffered(req[s].row.service, req[s].row.start, req[s].global)
       THEN /\ pc' = [pc EXCEPT ![s] = "buffer"]
            /\ req' = [req EXCEPT ![s].seen = Committed]
            /\ UNCHANGED <<now, policy, tables, lock>>
       ELSE Rollback(s)

\* getGlobal(): the policy is read a second time.
ReadBuffer(s) ==
  LET row == req[s].row
  IN  /\ pc[s] = "buffer"
      /\ req' = [req EXCEPT ![s].row.until =
                              EndOf(row) + policy[AdvisorOf(row)].buffer]
      /\ pc' = [pc EXCEPT ![s] = "insert"]
      /\ UNCHANGED <<now, policy, tables, lock>>

\* Variant: every booking, a replacement too, is given a room of its own.
RoomOfItsOwn(row, id) == IF row.room = None THEN id ELSE id

\* Variant: a room is opened for a replacement that already has one.
OpenAnotherRoom(row, id) ==
  [rooms EXCEPT ![id] = {row.advisee, AdvisorOf(row)}]

\* openBookingChatRoom(): a row that already names a room keeps it.
RoomOf(row, id) == IF row.room = None THEN id ELSE row.room

OpenBookingChatRoom(row, id) ==
  IF row.room = None
    THEN [rooms EXCEPT ![id] = {row.advisee, AdvisorOf(row)}]
    ELSE rooms

\* chat_members_pkey: a room's two members are two people.  A replacement has no
\* room to inherit when createInvoice() booked its original.
RoomIsRefused(row) == row.room = None /\ row.advisee = AdvisorOf(row)

\* INSERT, the chat room and COMMIT.  Nobody sees the row between the insert
\* and the commit: a read misses it and a conflicting insert waits for it.
InsertAndCommit(s) ==
  LET row == req[s].row
      id  == req[s].new
  IN  /\ pc[s] = "insert"
      /\ IF Excluded(row, id, OwnView(s)) \/ RoomIsRefused(row)
           THEN Rollback(s)
           ELSE /\ rows' = [OwnView(s) EXCEPT
                              ![id] = [row EXCEPT !.room = RoomOf(row, id)]]
                /\ rooms' = OpenBookingChatRoom(row, id)
                /\ Unlock(s) /\ Answer(s)
                /\ UNCHANGED <<now, policy, told, invoiced>>

\* An exception, a dropped connection or a crash: an open transaction rolls
\* back, a statement not yet run is lost.
Fail(s) ==
  \/ pc[s] \in InTransaction /\ Rollback(s)
  \/ /\ pc[s] \in {"lock", "apply"}
     /\ Answer(s)
     /\ UNCHANGED <<now, policy, tables, lock>>

----------------------------------------------------------------------------
(* The other writer of the table: PaymentService.createInvoice().          *)

\* The exclusion constraint: a row that clashes with a committed one is refused,
\* one that clashes with what a reschedule has not committed waits for it.
Claimable(ids, table) ==
  \A b \in ids :
    /\ ~Excluded(table[b], b, table)
    /\ \A s \in Rescheduling : ~Excluded(table[b], b, OwnView(s))

\* Its COMMIT: the appointments of one invoice, for the Service and times the
\* Advisee asked for, without schedule lock, daily limit, buffer or chat room.
\* Whatever else it checks only refuses (Payment.tla).
CreateInvoice(ids, service, advisee, start) ==
  LET table == [b \in Bookings |->
                  IF b \in ids THEN NewRow(service, advisee, start[b]) ELSE rows[b]]
  IN  /\ ids # {} /\ IsFiniteSet(ids)
      /\ \A b \in ids : Fresh(b)
      /\ Claimable(ids, table)
      /\ rows' = table
      /\ invoiced' = invoiced \cup ids
      /\ UNCHANGED <<now, policy, rooms, told, lock, pc, req>>

----------------------------------------------------------------------------
(* The environment.                                                        *)

UpsertGlobal(a, p) ==
  /\ policy' = [policy EXCEPT ![a] = p]
  /\ UNCHANGED <<now, tables, lock, pc, req>>

Tick ==
  /\ now < MaxTime
  /\ now' = now + 1
  /\ UNCHANGED <<policy, tables, lock, pc, req>>

----------------------------------------------------------------------------
Init ==
  /\ now = 0
  /\ policy \in [Advisors -> Policies]
  /\ rows = [b \in Bookings |-> None]
  /\ rooms = [b \in Bookings |-> {}]
  /\ told = [b \in Bookings |-> 0]
  /\ invoiced = {}
  /\ lock = [a \in Advisors |-> None]
  /\ pc = [s \in Sessions |-> "idle"]
  /\ req = [s \in Sessions |-> None]

Starts == UNION {OpenStarts[service] : service \in Services}

Arrive(s) ==
  \/ \E new \in Bookings, service \in Services, advisee \in Advisees,
        start \in Starts : Create(s, new, service, advisee, start)
  \/ \E b \in Bookings : Cancel(s, b)
  \/ \E b, new \in Bookings, start \in Starts : Reschedule(s, b, new, start)

InsideTransaction(s) ==
  \/ Reselect(s)
  \/ CancelOriginal(s)
  \/ ReadContext(s)
  \/ Derive(s)
  \/ ReadBuffer(s)
  \/ InsertAndCommit(s)

Next ==
  \/ \E s \in Sessions :
       \/ Arrive(s)
       \/ AcquireLock(s)
       \/ ApplyCancellation(s)
       \/ InsideTransaction(s)
       \/ Fail(s)
  \/ \E b \in Bookings :
       \/ Start(b)
       \/ Complete(b)
       \/ RecordNoShow(b)
       \/ ConfirmPayment(b)
  \/ \E ids \in SUBSET Bookings, service \in Services, advisee \in Advisees :
       \E start \in [ids -> Starts] : CreateInvoice(ids, service, advisee, start)
  \/ \E a \in Advisors, p \in Policies : UpsertGlobal(a, p)
  \/ Tick

Spec == Init /\ [][Next]_vars

\* A statement the database accepted runs to its end, a rolled back or answered
\* request is answered, and lock waiters are served in turn: none waits for
\* ever on a lock that is released again and again.
Fairness ==
  \A s \in Sessions :
    /\ SF_vars(AcquireLock(s))
    /\ SF_vars(ApplyCancellation(s))
    /\ WF_vars(InsideTransaction(s))

FairSpec == Spec /\ Fairness

----------------------------------------------------------------------------
TypeOK ==
  /\ now \in Times
  /\ policy \in [Advisors -> Policies]
  /\ rows \in [Bookings -> Row \cup {None}]
  /\ rooms \in [Bookings -> SUBSET Users]
  /\ told \in [Bookings -> Nat]
  /\ invoiced \subseteq Bookings
  /\ lock \in [Advisors -> Sessions \cup {None}]
  /\ pc \in [Sessions -> {"idle", "lock", "apply"} \cup InTransaction]
  /\ req \in [Sessions -> Request \cup {None}]
  /\ \A s \in Sessions : pc[s] # "idle" => req[s] \in Request

\* Two committed bookings that block an Advisor's time never overlap, buffers
\* included, even when the buffer changes while a booking is being made
\* (bookings.repository.ts: the exclusion constraint is the final guarantee).
NoOverlap ==
  \A b, c \in Committed :
    (/\ b # c
     /\ AdvisorOf(rows[b]) = AdvisorOf(rows[c])
     /\ rows[b].blocks /\ rows[c].blocks) =>
      ~Overlaps(rows[b].start, rows[b].until, rows[c].start, rows[c].until)

\* Only one transaction at a time rederives and claims slots of an Advisor.
ScheduleIsExclusive ==
  \A s, t \in Sessions :
    (/\ pc[s] \in InTransaction /\ pc[t] \in InTransaction
     /\ AdvisorOf(req[s].row) = AdvisorOf(req[t].row)) => s = t

\* A live booking always holds its time, and a cancelled one gives it back
\* exactly when it was cancelled a minimum notice ahead, whichever of several
\* concurrent cancellations was written (cancellationValues()).
TimeGivenBackWithNotice ==
  \A b \in Committed :
    LET row == rows[b]
        ahead(p) == row.start - row.cancelledAt >= p.notice
    IN  IF row.state = "CANCELLED"
          THEN IF row.blocks THEN \E p \in Policies : ~ahead(p)
                             ELSE \E p \in Policies : ahead(p)
          ELSE row.blocks /\ row.cancelledAt = None

\* Every booking made or moved by modules/bookings has a chat room holding exactly
\* its two people, and every room belongs to a booking: none is left behind by a
\* refused or failed request (openBookingChatRoom() runs on the booking's
\* transaction).  An appointment that an invoice was created for may have none.
RoomsMatchBookings ==
  /\ \A b \in Committed :
       \/ /\ rows[b].room # None
          /\ rooms[rows[b].room] = {rows[b].advisee, AdvisorOf(rows[b])}
       \/ rows[b].room = None /\ b \in invoiced
  /\ \A r \in Bookings :
       rooms[r] # {} => \E b \in Committed : rows[b].room = r

\* "a booking never commits without its room" (booking-chat-room.ts:18).
EveryBookingHasARoom == \A b \in Committed : rows[b].room # None

\* Of a chain of reschedules, which shares one room, at most the last booking
\* is live: concurrent reschedules, cancellations and failures never leave an
\* Advisee with two bookings for one payment.
OneLiveBookingPerRoom ==
  \A b, c \in Committed :
    (/\ rows[b].room # None /\ rows[b].room = rows[c].room
     /\ rows[b].state # "CANCELLED" /\ rows[c].state # "CANCELLED") => b = c

\* Both parties are told of a confirmation at most once, however often the
\* payment is confirmed (confirmPayment(): a redelivered webhook).
ToldOnce == \A b \in Bookings : told[b] <= 1

\* What an Advisor's day holds: consultation time of those of `ids' that block.
BookedOn(a, day, ids) ==
  MinutesBooked({b \in Committed \cap ids : AdvisorOf(rows[b]) = a /\ rows[b].blocks}, day)

BookedWith(service, day, ids) ==
  MinutesBooked({b \in Committed \cap ids : rows[b].service = service /\ rows[b].blocks}, day)

\* All bookings but those createInvoice() committed after a request derived its slot.
InView(s) == {b \in Bookings : b \in invoiced => b \in req[s].seen}

\* The step in which a request leaves with its booking inserted.
CommittedBy(s) == pc[s] = "insert" /\ pc'[s] = "idle" /\ rows' # rows

WithinLimit(amount) == \E p \in Policies : p.limit = None \/ amount <= p.limit

\* A creation never takes a day past the Advisor's limit or the Service's: the
\* recheck under the lock decides for simultaneous requests of modules/bookings
\* (createWithSchedulingLock()).  Only an invoice, created without that lock
\* between the recheck and the insert, is not counted.
CreationRespectsDailyLimit ==
  [][\A s \in Sessions, service \in Services :
       (/\ CommittedBy(s)
        /\ req[s].kind = "create" /\ req[s].row.service = service) =>
         \A day \in {DayOf(req[s].row.start)}, ids \in {InView(s)} :
           /\ WithinLimit(BookedOn(OwnerOf[service], day, ids)')
           /\ \/ ServiceLimit[service] = None
              \/ (BookedWith(service, day, ids) <= ServiceLimit[service])']_vars

\* The same with every booking counted.
CreationMeetsLimit ==
  [][\A s \in Sessions :
       (CommittedBy(s) /\ req[s].kind = "create") =>
         \A day \in {DayOf(req[s].row.start)}, a \in {AdvisorOf(req[s].row)} :
           WithinLimit(BookedOn(a, day, Bookings)')]_vars

\* The daily limit holds at all times, whatever cancellations and reschedules
\* are in flight.
DailyLimitHolds ==
  \A a \in Advisors : \A b \in Committed :
    WithinLimit(BookedOn(a, DayOf(rows[b].start), Bookings))

----------------------------------------------------------------------------
(* Changes of a booking.                                                   *)

LegalChange(b) ==
  rows'[b] # rows[b] => \/ rows[b] = None
                        \/ rows[b].state \in SourceStates(rows'[b].state)

CommittedReschedule(s) == CommittedBy(s) /\ req[s].kind = "reschedule"

\* A booking only ever changes along the state machine, each transition being a
\* conditional update (booking-states.ts:8-12, api-spec.md "Transitions are
\* conditional updates").
ChangesAreLegal == [][\A b \in Bookings : LegalChange(b)]_vars

\* Every change of a booking is legal except, at most, the cancellation a
\* reschedule writes to its own original: start, complete, no-show, confirm and
\* cancel never step over each other or over a reschedule's uncommitted work.
OthersChangeLegally ==
  [][\A b \in Bookings :
       \/ LegalChange(b)
       \/ \E s \in Sessions : CommittedReschedule(s) /\ req[s].target = b]_vars

\* The replacement carries the payment state the original had reached
\* (reschedule(): "the replacement carries the payment state").
ReplacementCarriesPayment ==
  [][\A s \in Sessions :
       CommittedReschedule(s) =>
         rows'[req[s].new].state = rows[req[s].target].state]_vars

\* A reschedule whose cancellation reopens its range is not refused because of
\* that range alone (rescheduleWithSchedulingLock(): "a range the cancellation
\* reopens is visible to the rederivation").
ReopenedRangeIsVisible ==
  \A s \in Sessions :
    (/\ pc[s] = "derive" /\ req[s].kind = "reschedule"
     /\ ~req[s].cancellation.blocks) =>
      LET row    == req[s].row
          ids    == BlockingOn(AdvisorOf(row), DayOf(row.start))
          buffer == req[s].global.buffer
      IN  SlotIsFree(row.service, row.start, ids \ {req[s].target}, buffer) =>
            SlotIsFree(row.service, row.start, ids, buffer)

\* Every request is answered: whoever waits for the scheduling lock or a row
\* lock gets it, because every transaction that holds one ends.
EveryRequestAnswered ==
  \A s \in Sessions : pc[s] # "idle" ~> pc[s] = "idle"

\* Requests, locks and transactions hidden, the tables behave like an atomic
\* calendar.
Ledger == INSTANCE Calendar
ImplementsCalendar == Ledger!Spec
=============================================================================
