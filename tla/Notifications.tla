---------------------------- MODULE Notifications ----------------------------
(***************************************************************************)
(* The notifications of the users and their way to the devices             *)
(* (modules/notifications and its push).  notify() writes a row and its    *)
(* two translations in one transaction, folds a chat message into the      *)
(* unread row of its room, and then pushes without being waited for.       *)
(*                                                                         *)
(* A row has the name of the input that inserted it.  `later' orders the   *)
(* transactions by now(), the moment they began.  The pages of the list    *)
(* are ChatFeed's; titles, languages of the answers and payloads are left  *)
(* out.                                                                    *)
(***************************************************************************)
EXTENDS Naturals, FiniteSets

CONSTANTS
  Sessions,   \* requests that write notifications at once (bound)
  Users,      \* owners of notifications (bound)
  Endpoints,  \* addresses of devices (bound)
  Inputs,     \* calls of notify() and welcome() (bound)
  OwnerOf,    \* whom each is for
  RoomOf,     \* the chat room of a NEW_MESSAGE, None for another type
  Welcomes,   \* the calls of welcome()
  None

VARIABLES
  rows,     \* notifications with their translations
  tx,       \* the transaction each session is in, None for none
  began,    \* the inputs whose transaction has begun, in the order of now()
  subs,     \* push_subscriptions: the user of an endpoint, None for no row
  finding,  \* the committed inputs whose push has not looked for devices yet
  sending,  \* the pushes under way, <<endpoint, input>>
  due,      \* history: inputs committed and not marked read since
  sent,     \* history: what reached a device, <<endpoint, input>>
  holder,   \* history: the user who has the device subscribed
  meant     \* history: the owner held the device between the commit and the look

vars == <<rows, tx, began, subs, finding, sending, due, sent, holder, meant>>
push == <<finding, sending>>
history == <<due, sent, holder, meant>>

Languages == {"th", "en"}
Ordinals == 0..Cardinality(Inputs)

Row == [text : Inputs, translated : [Languages -> Inputs \cup {None}],
        read : BOOLEAN, createdAt : Ordinals]
Transaction == [input : Inputs, id : Inputs \cup {None}]
Marking == [marks : SUBSET Inputs]

ASSUME NotificationsAssumption ==
  /\ IsFiniteSet(Inputs)
  /\ OwnerOf \in [Inputs -> Users]
  /\ Welcomes \subseteq {i \in Inputs : RoomOf[i] = None}
  /\ None \notin Users \cup Inputs \cup Row \cup Transaction \cup Marking

----------------------------------------------------------------------------
Stored == {r \in Inputs : rows[r] # None}
Unread == {r \in Stored : ~rows[r].read}

\* What the two unique indexes tell apart: one unread row of a room, one welcome.
SameKey(i, r) ==
  /\ OwnerOf[i] = OwnerOf[r]
  /\ \/ i \in Welcomes /\ r \in Welcomes
     \/ RoomOf[i] # None /\ RoomOf[i] = RoomOf[r]

Writing(s) == tx[s] # None /\ tx[s] \in Transaction
Holds(s, r) == Writing(s) /\ tx[s].id = r
RowLocked(r) == \E s \in Sessions : Holds(s, r)

\* An index entry not yet committed keeps the next one with its key waiting.
KeyLocked(i) == \E r \in Inputs : RowLocked(r) /\ SameKey(i, r)

End(s) == tx' = [tx EXCEPT ![s] = None]

----------------------------------------------------------------------------
(* notify() and welcome().                                                 *)

Begin(s, i) ==
  /\ tx[s] = None /\ began[i] = 0
  /\ began' = [began EXCEPT ![i] = 1 + Cardinality({j \in Inputs : began[j] > 0})]
  /\ tx' = [tx EXCEPT ![s] = [input |-> i, id |-> None]]
  /\ UNCHANGED <<rows, subs, push, history>>

\* Variant: the index on messages spans read rows too.
ConflictingRead(i) == {r \in Stored : SameKey(i, r)}

\* The row ON CONFLICT meets: the welcome index spans read rows, the other does not.
Conflicting(i) ==
  {r \in Stored : SameKey(i, r) /\ (i \in Welcomes \/ r \in Unread)}

\* Variant: the row is committed before its translations.
InsertAndCommit(s) ==
  LET i == tx[s].input
      id == IF Conflicting(i) = {} THEN i ELSE CHOOSE r \in Conflicting(i) : TRUE
  IN  /\ Writing(s) /\ tx[s].id = None /\ ~KeyLocked(i)
      /\ tx' = [tx EXCEPT ![s].id = id]
      /\ rows' = [rows EXCEPT ![id] =
           [text |-> i, read |-> FALSE, createdAt |-> began[i],
            translated |-> IF id = i THEN [l \in Languages |-> None]
                                     ELSE rows[id].translated]]
      /\ UNCHANGED <<began, subs, push, history>>

\* INSERT ... ON CONFLICT: a new row, or the lock of the one it met.
Insert(s) ==
  LET i == tx[s].input
      met == Conflicting(i)
  IN  /\ Writing(s) /\ tx[s].id = None /\ ~KeyLocked(i)
      /\ IF i \in Welcomes /\ met # {}
           THEN End(s)
           ELSE \E id \in (IF met = {} THEN {i} ELSE met) :
                  tx' = [tx EXCEPT ![s].id = id]
      /\ UNCHANGED <<rows, began, subs, push, history>>

Texts(i) == [l \in Languages |-> i]

\* The row with both languages, and then the push, which a welcome has none of.
SaveTranslations(s) ==
  LET i == tx[s].input
      id == tx[s].id
      read == id \in Stored /\ rows[id].read
  IN  /\ Writing(s) /\ id # None
      /\ rows' = [rows EXCEPT ![id] =
           [text |-> i, translated |-> Texts(i),
            read |-> read, createdAt |-> began[i]]]
      /\ finding' = IF i \in Welcomes THEN finding ELSE finding \cup {i}
      /\ due' = due \cup {i}
      /\ meant' = meant \cup {<<e, i>> : e \in {f \in Endpoints : holder[f] = OwnerOf[i]}}
      /\ End(s)
      /\ UNCHANGED <<began, subs, sending, sent, holder>>

\* An error, a lost connection, a crash: nothing of the transaction stays.
Rollback(s) ==
  /\ tx[s] # None
  /\ End(s)
  /\ UNCHANGED <<rows, began, subs, push, history>>

----------------------------------------------------------------------------
(* Reading: a row is marked when whoever is writing it has committed.      *)

Marked(ids) ==
  /\ rows' = [r \in Inputs |-> IF r \in ids THEN [rows[r] EXCEPT !.read = TRUE] ELSE rows[r]]
  /\ due' = {i \in due : \A r \in ids : i # r /\ ~SameKey(i, r)}

MarkRead(r) ==
  /\ r \in Stored /\ ~RowLocked(r)
  /\ Marked({r})
  /\ UNCHANGED <<tx, began, subs, push, sent, holder, meant>>

\* The statement sees the rows unread when it starts and waits for their writers.
MarkAllRead(s, u) ==
  /\ tx[s] = None
  /\ tx' = [tx EXCEPT ![s] = [marks |-> {r \in Unread : OwnerOf[r] = u}]]
  /\ UNCHANGED <<rows, began, subs, push, history>>

UpdateUnread(s) ==
  /\ tx[s] \in Marking
  /\ \A r \in tx[s].marks : ~RowLocked(r)
  /\ Marked(tx[s].marks)
  /\ End(s)
  /\ UNCHANGED <<began, subs, push, sent, holder, meant>>

----------------------------------------------------------------------------
(* Devices.                                                                *)

\* Variant: a known endpoint stays with whom it was.
UpsertOnce(u, e) ==
  /\ subs' = [subs EXCEPT ![e] = IF @ = None THEN u ELSE @]
  /\ holder' = [holder EXCEPT ![e] = u]

Upsert(u, e) ==
  /\ subs' = [subs EXCEPT ![e] = u]
  /\ holder' = [holder EXCEPT ![e] = u]

Subscribe(u, e) ==
  /\ Upsert(u, e)
  /\ meant' = meant \cup {<<e, i>> : i \in {j \in finding : OwnerOf[j] = u}}
  /\ UNCHANGED <<rows, tx, began, push, due, sent>>

\* deleteForUser(): another user's endpoint is not found.
Unsubscribe(u, e) ==
  /\ subs[e] = u
  /\ subs' = [subs EXCEPT ![e] = None]
  /\ holder' = [holder EXCEPT ![e] = IF @ = u THEN None ELSE @]
  /\ UNCHANGED <<rows, tx, began, push, due, sent, meant>>

FindByUser(i) ==
  /\ i \in finding
  /\ finding' = finding \ {i}
  /\ sending' = sending \cup {<<e, i>> : e \in {f \in Endpoints : subs[f] = OwnerOf[i]}}
  /\ UNCHANGED <<rows, tx, began, subs, history>>

SendNotification(e, i) ==
  /\ <<e, i>> \in sending
  /\ sending' = sending \ {<<e, i>>}
  /\ sent' = sent \cup {<<e, i>>}
  /\ UNCHANGED <<rows, tx, began, subs, finding, due, holder, meant>>

\* The push service answers 404 or 410.
DeleteByEndpoint(e, i) ==
  /\ <<e, i>> \in sending
  /\ sending' = sending \ {<<e, i>>}
  /\ subs' = [subs EXCEPT ![e] = None]
  /\ holder' = [holder EXCEPT ![e] = None]
  /\ UNCHANGED <<rows, tx, began, finding, due, sent, meant>>

\* Another failure, or the process died: it is logged and not tried again.
SendFails(i) ==
  /\ i \in finding \/ \E e \in Endpoints : <<e, i>> \in sending
  /\ finding' = finding \ {i}
  /\ \E lost \in SUBSET (Endpoints \X {i}) : sending' = sending \ lost
  /\ UNCHANGED <<rows, tx, began, subs, history>>

----------------------------------------------------------------------------
Init ==
  /\ rows = [i \in Inputs |-> None]
  /\ tx = [s \in Sessions |-> None]
  /\ began = [i \in Inputs |-> 0]
  /\ subs = [e \in Endpoints |-> None]
  /\ finding = {} /\ sending = {}
  /\ due = {} /\ sent = {} /\ meant = {}
  /\ holder = [e \in Endpoints |-> None]

Serve(s) ==
  \/ \E i \in Inputs : Begin(s, i)
  \/ Insert(s) \/ SaveTranslations(s) \/ Rollback(s)
  \/ \E u \in Users : MarkAllRead(s, u)
  \/ UpdateUnread(s)

Push(i) ==
  \/ FindByUser(i) \/ SendFails(i)
  \/ \E e \in Endpoints : SendNotification(e, i) \/ DeleteByEndpoint(e, i)

Next ==
  \/ \E s \in Sessions : Serve(s)
  \/ \E i \in Inputs : Push(i) \/ MarkRead(i)
  \/ \E u \in Users, e \in Endpoints : Subscribe(u, e) \/ Unsubscribe(u, e)

Spec == Init /\ [][Next]_vars

----------------------------------------------------------------------------
(* What must hold.                                                         *)

\* Rows, transactions and pushes are of the shape the tables give them, and no
\* welcome is pushed.
TypeOK ==
  /\ rows \in [Inputs -> Row \cup {None}]
  /\ tx \in [Sessions -> Transaction \cup Marking \cup {None}]
  /\ began \in [Inputs -> Ordinals]
  /\ subs \in [Endpoints -> Users \cup {None}]
  /\ finding \subseteq Inputs \ Welcomes
  /\ sending \subseteq Endpoints \X (Inputs \ Welcomes)

\* "A chat room has at most one unread NEW_MESSAGE notification per user" and "an
\* account has one welcome", and still no message hides in a row already read:
\* whoever has been told of something since they last read has it unread
\* (upsertUnreadMessage(), createWelcome()).
OneUnreadWhileDue ==
  /\ \A q, r \in Stored : q # r /\ SameKey(q, r) => ~{q, r} \subseteq Unread /\ q \notin Welcomes
  /\ \A i \in due : \E r \in Unread : r = i \/ SameKey(i, r)

\* A notification is "never readable in only one" language, and both languages
\* tell what the row tells, also after another message took the row over
\* (saveTranslationsAndRead()).
BothLanguagesAgree ==
  \A r \in Stored, l \in Languages : rows[r].translated[l] = rows[r].text

\* A push reaches a device only if the owner of the notification has held it at
\* some time since the commit: "a device that signs in as someone else takes the
\* row over", so it gets nothing new of whom it belonged to before (upsert(),
\* sendToUser()).
NeverToStranger == sent \subseteq meant

\* "The room's notification shows the latest message": of the committed messages
\* of a room, the unread row shows the one whose transaction began last.
ShowsLatest ==
  \A r \in Unread, i \in due : SameKey(i, r) => began[i] <= rows[r].createdAt
=============================================================================
