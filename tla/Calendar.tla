------------------------------ MODULE Calendar ------------------------------
(***************************************************************************)
(* What bookings promise, seen from the tables alone: a booking appears    *)
(* with its chat room in one step, never over another one's time, or       *)
(* together with the others of an invoice and without a room; it moves     *)
(* along the state machine of booking-states.ts; a reschedule cancels one  *)
(* booking and opens its replacement, in the same room, in one step.       *)
(* No request, lock or transaction appears here.                           *)
(***************************************************************************)
EXTENDS Integers

CONSTANTS Bookings, OwnerOf, None
VARIABLES rows, rooms

cvars == <<rows, rooms>>

Moves == {<<"PENDING_PAYMENT", "BOOKED">>, <<"BOOKED", "IN_PROGRESS">>,
          <<"IN_PROGRESS", "COMPLETED">>, <<"BOOKED", "NO_SHOW">>}
Cancellable == {"PENDING_PAYMENT", "BOOKED"}

Free(b) == rows[b] = None
Taken(table) == {b \in Bookings : table[b] # None /\ table[b].blocks}

\* No Advisor is promised twice at one time.
NoClash(table) ==
  \A b, c \in Taken(table) :
    (b # c /\ OwnerOf[table[b].service] = OwnerOf[table[c].service]) =>
      \/ table[b].until <= table[c].start
      \/ table[c].until <= table[b].start

OnlyChanged(ids) == \A b \in Bookings \ ids : rows'[b] = rows[b]

Cancelling(old, new) ==
  /\ new.state = "CANCELLED" /\ new.cancelledAt # None
  /\ new = [old EXCEPT !.state = new.state, !.blocks = new.blocks,
                       !.cancelledAt = new.cancelledAt]

Appears(ids) ==
  /\ \A n \in ids : Free(n) /\ rows'[n] # None
  /\ NoClash(rows')

Opens(n) ==
  /\ rooms[n] = {} /\ rows'[n].room = n
  /\ rooms' = [rooms EXCEPT ![n] = {rows'[n].advisee, OwnerOf[rows'[n].service]}]

Book(n) ==
  /\ OnlyChanged({n})
  /\ Appears({n})
  /\ rows'[n].state = "PENDING_PAYMENT" /\ rows'[n].blocks
  /\ Opens(n)

\* The appointments of one invoice: one Advisee, one Service, no room.
Invoice(ids) ==
  /\ OnlyChanged(ids)
  /\ Appears(ids)
  /\ \A n, o \in ids : /\ rows'[n].service = rows'[o].service
                       /\ rows'[n].advisee = rows'[o].advisee
  /\ \A n \in ids : /\ rows'[n].state = "PENDING_PAYMENT" /\ rows'[n].blocks
                    /\ rows'[n].room = None
  /\ UNCHANGED rooms

Move(b) ==
  /\ ~Free(b)
  /\ OnlyChanged({b})
  /\ <<rows[b].state, rows'[b].state>> \in Moves
  /\ rows'[b] = [rows[b] EXCEPT !.state = rows'[b].state]
  /\ UNCHANGED rooms

Cancel(b) ==
  /\ ~Free(b) /\ rows[b].state \in Cancellable
  /\ OnlyChanged({b})
  /\ Cancelling(rows[b], rows'[b])
  /\ UNCHANGED rooms

\* The original may be in any state by then: nothing holds the row between the
\* read that accepts it and the update that cancels it.
Replace(o, n) ==
  /\ ~Free(o)
  /\ OnlyChanged({o, n})
  /\ Appears({n})
  /\ Cancelling(rows[o], rows'[o])
  /\ rows'[n].state \in Cancellable /\ rows'[n].blocks
  /\ rows'[n].cancelledAt = None
  /\ rows'[n].service = rows[o].service /\ rows'[n].advisee = rows[o].advisee
  /\ IF rows[o].room = None THEN Opens(n)
       ELSE rows'[n].room = rows[o].room /\ UNCHANGED rooms

Init == rows = [b \in Bookings |-> None] /\ rooms = [b \in Bookings |-> {}]

Next ==
  \/ \E b \in Bookings : Book(b) \/ Move(b) \/ Cancel(b)
  \/ \E o, n \in Bookings : Replace(o, n)
  \/ \E ids \in SUBSET Bookings : Invoice(ids)

Spec == Init /\ [][Next]_cvars
=============================================================================
