------------------------- MODULE NotificationsProofs -------------------------
(***************************************************************************)
(* Who is told what: the rows, translations and pushes of Notifications,   *)
(* and the live messages of a Chat room.  For any users, rooms, devices,   *)
(* members and requests at once.                                           *)
(***************************************************************************)
EXTENDS Notifications, Chat, FiniteSetTheorems, TLAPS

----------------------------------------------------------------------------
(* The inductive invariant.                                                 *)

TypeInv == TypeOK /\ due \subseteq Inputs

\* Whoever has a device subscribed is whom the table says.
DevicesOK ==
  /\ holder = subs
  /\ sending \subseteq meant
  /\ \A i \in finding, e \in Endpoints : subs[e] = OwnerOf[i] => <<e, i>> \in meant

\* Every call of notify() is one transaction, and its name its own.
CallsOK ==
  /\ \A r \in Stored : began[r] > 0
  /\ \A s \in Sessions : Writing(s) => began[tx[s].input] > 0 /\ tx[s].input \notin Stored
  /\ \A s, t \in Sessions : Writing(s) /\ Writing(t) /\ s # t => tx[s].input # tx[t].input
  /\ \A s \in Sessions : tx[s] # None /\ ~Writing(s) => tx[s].marks \subseteq Stored

\* What the INSERT of a transaction met stays so until it commits: no row
\* conflicts with its own, or the one it met is unread under its lock.
InsertedOK(s) ==
  Writing(s) /\ tx[s].id # None =>
    \/ tx[s].id = tx[s].input /\ Conflicting(tx[s].input) = {}
    \/ /\ tx[s].id \in Unread /\ SameKey(tx[s].input, tx[s].id)
       /\ tx[s].input \notin Welcomes

\* No two transactions write one key.
OneWriter ==
  \A s, t \in Sessions :
    Writing(s) /\ Writing(t) /\ s # t /\ tx[s].id # None /\ tx[t].id # None =>
      tx[s].id # tx[t].id /\ ~SameKey(tx[s].id, tx[t].id)

IInv ==
  /\ TypeInv /\ DevicesOK /\ CallsOK /\ OneWriter
  /\ \A s \in Sessions : InsertedOK(s)
  /\ BothLanguagesAgree /\ OneUnreadWhileDue /\ NeverToStranger

----------------------------------------------------------------------------
(* Keys and transactions.                                                   *)

LEMMA Keys ==
  ASSUME NEW i \in Inputs, NEW q \in Inputs, NEW r \in Inputs
  PROVE  /\ SameKey(i, r) => SameKey(r, i)
         /\ SameKey(i, q) /\ SameKey(q, r) => SameKey(i, r)
         /\ SameKey(i, r) => (i \in Welcomes <=> r \in Welcomes)
BY NotificationsAssumption DEF SameKey

LEMMA Apart ==
  ASSUME NEW t
  PROVE  /\ t \in Transaction => t # None /\ t \notin Marking
         /\ t \in Marking => t # None
<1>1. ASSUME t \in Transaction, t \in Marking PROVE FALSE
  <2>1. DOMAIN t = {"input", "id"}
    BY <1>1 DEF Transaction
  <2>2. DOMAIN t = {"marks"}
    BY <1>1 DEF Marking
  <2> QED
    BY <2>1, <2>2
<1> QED
  BY <1>1, NotificationsAssumption

LEMMA Writers ==
  ASSUME TypeInv, NEW s \in Sessions
  PROVE  /\ Writing(s) => /\ tx[s] \in Transaction /\ tx[s].input \in Inputs
                          /\ tx[s].id \in Inputs \cup {None}
         /\ tx[s] \in Marking => ~Writing(s) /\ tx[s] # None /\ tx[s].marks \subseteq Inputs
         /\ tx[s] # None /\ ~Writing(s) => tx[s] \in Marking
BY Apart DEF TypeInv, TypeOK, Writing, Transaction, Marking

\* The transactions of the other sessions.
Elsewhere(s) == \A t \in Sessions \ {s} : tx'[t] = tx[t]

LEMMA Sets ==
  ASSUME TypeInv, NEW s \in Sessions, NEW v \in Transaction \cup Marking \cup {None},
         tx' = [tx EXCEPT ![s] = v]
  PROVE  /\ tx' \in [Sessions -> Transaction \cup Marking \cup {None}]
         /\ tx'[s] = v /\ Elsewhere(s)
         /\ \A t \in Sessions \ {s} : Writing(t)' <=> Writing(t)
         /\ Writing(s)' <=> v \in Transaction
BY Apart DEF TypeInv, TypeOK, Elsewhere, Writing

\* Nothing of the devices is touched.
LEMMA DevicesKept ==
  ASSUME DevicesOK, NeverToStranger, UNCHANGED <<subs, finding, sending, sent, holder, meant>>
  PROVE  DevicesOK' /\ NeverToStranger'
BY DEF DevicesOK, NeverToStranger

\* Nothing of the rows is touched.
LEMMA RowsKept ==
  ASSUME BothLanguagesAgree, OneUnreadWhileDue, UNCHANGED <<rows, due>>
  PROVE  /\ BothLanguagesAgree' /\ OneUnreadWhileDue'
         /\ Stored' = Stored /\ Unread' = Unread
BY DEF BothLanguagesAgree, OneUnreadWhileDue, Stored, Unread

LEMMA ConflictsKept ==
  ASSUME NEW i, UNCHANGED rows
  PROVE  Conflicting(i)' = Conflicting(i)
BY DEF Conflicting, Stored, Unread

\* A step of the transaction of one session that commits nothing.
LEMMA OnlyBusy ==
  ASSUME IInv, NEW s \in Sessions, NEW v \in Transaction \cup Marking \cup {None},
         tx' = [tx EXCEPT ![s] = v], UNCHANGED <<rows, subs>>, UNCHANGED push,
         UNCHANGED history, began' \in [Inputs -> Ordinals],
         \A i \in Inputs : began[i] > 0 => began'[i] > 0,
         v \in Transaction =>
           /\ began'[v.input] > 0 /\ v.input \notin Stored
           /\ \A t \in Sessions \ {s} : Writing(t) => tx[t].input # v.input
           /\ v.id # None =>
                /\ \/ v.id = v.input /\ Conflicting(v.input) = {}
                   \/ v.id \in Unread /\ SameKey(v.input, v.id) /\ v.input \notin Welcomes
                /\ \A t \in Sessions \ {s} : Writing(t) /\ tx[t].id # None =>
                     v.id # tx[t].id /\ ~SameKey(v.id, tx[t].id)
                                     /\ ~SameKey(tx[t].id, v.id),
         v \in Marking => v.marks \subseteq Stored
  PROVE  IInv'
<1>1. /\ tx' \in [Sessions -> Transaction \cup Marking \cup {None}]
      /\ tx'[s] = v /\ Elsewhere(s)
      /\ \A t \in Sessions \ {s} : Writing(t)' <=> Writing(t)
      /\ Writing(s)' <=> v \in Transaction
  BY Sets DEF IInv
<1>2. TypeInv'
  BY <1>1 DEF IInv, TypeInv, TypeOK, push, history
<1>3. /\ DevicesOK' /\ NeverToStranger' /\ BothLanguagesAgree' /\ OneUnreadWhileDue'
      /\ Stored' = Stored /\ Unread' = Unread
  BY DevicesKept, RowsKept DEF IInv, push, history
<1>4. CallsOK'
  <2>1. \A t \in Sessions : Writing(t) => tx[t].input \in Inputs
    BY Writers DEF IInv
  <2>2. Stored \subseteq Inputs
    BY DEF Stored
  <2> QED
    BY <1>1, <1>3, <2>1, <2>2 DEF IInv, CallsOK, Elsewhere
<1>5. OneWriter'
  BY <1>1 DEF IInv, OneWriter, Elsewhere
<1>6. \A t \in Sessions : InsertedOK(t)'
  <2>1. ASSUME NEW t \in Sessions \ {s} PROVE InsertedOK(t)'
    <3>1. InsertedOK(t) /\ tx'[t] = tx[t] /\ (Writing(t)' <=> Writing(t))
      BY <1>1 DEF IInv, Elsewhere
    <3>2. Conflicting(tx[t].input)' = {q \in Stored' : SameKey(tx'[t].input, q)
             /\ (tx'[t].input \in Welcomes \/ q \in Unread')}
      BY DEF Conflicting, SameKey
    <3> QED
      BY <1>3, <3>1, <3>2 DEF InsertedOK, SameKey, Conflicting
  <2>2. InsertedOK(s)'
    <3>1. Conflicting(tx[s].input)' = {q \in Stored' : SameKey(tx'[s].input, q)
             /\ (tx'[s].input \in Welcomes \/ q \in Unread')}
      BY DEF Conflicting, SameKey
    <3> QED
      BY <1>1, <1>3, <3>1 DEF InsertedOK, SameKey, Conflicting
  <2> QED
    BY <2>1, <2>2
<1> QED
  BY <1>2, <1>3, <1>4, <1>5, <1>6 DEF IInv

LEMMA RollbackStep ==
  ASSUME IInv, NEW s \in Sessions, Rollback(s)
  PROVE  IInv'
BY OnlyBusy, Apart DEF Rollback, End, IInv, TypeInv, TypeOK

LEMMA BeginStep ==
  ASSUME IInv, NEW s \in Sessions, NEW i \in Inputs, Begin(s, i)
  PROVE  IInv'
<1> DEFINE v == [input |-> i, id |-> None]
           taken == {j \in Inputs : began[j] > 0}
<1>1. /\ tx[s] = None /\ began[i] = 0
      /\ began' = [began EXCEPT ![i] = 1 + Cardinality(taken)]
      /\ tx' = [tx EXCEPT ![s] = v]
      /\ UNCHANGED <<rows, subs>> /\ UNCHANGED push /\ UNCHANGED history
  BY DEF Begin
<1>2. began \in [Inputs -> Ordinals] /\ IsFiniteSet(Inputs)
  BY NotificationsAssumption DEF IInv, TypeInv, TypeOK
<1>3. 1 + Cardinality(taken) \in Ordinals /\ 1 + Cardinality(taken) > 0
  <2>1. taken \subseteq Inputs /\ taken # Inputs
    BY <1>1
  <2>2. /\ Cardinality(taken) \in Nat /\ Cardinality(Inputs) \in Nat
        /\ Cardinality(taken) <= Cardinality(Inputs)
        /\ Cardinality(taken) # Cardinality(Inputs)
    BY <1>2, <2>1, FS_Subset, FS_CardinalityType
  <2> QED
    BY <2>2 DEF Ordinals
<1>4. v \in Transaction /\ v.input = i /\ v.id = None
  BY DEF Transaction
<1> HIDE DEF v, taken
<1>5. /\ began' \in [Inputs -> Ordinals] /\ began'[i] > 0
      /\ \A j \in Inputs : began[j] > 0 => began'[j] > 0
  BY <1>1, <1>2, <1>3
<1>6. /\ i \notin Stored
      /\ \A t \in Sessions \ {s} : Writing(t) => tx[t].input # i
  <2>1. ~(began[i] > 0)
    BY <1>1
  <2> QED
    BY <2>1 DEF IInv, CallsOK
<1>7. v \notin Marking
  BY <1>4, Apart
<1> QED
  BY <1>1, <1>4, <1>5, <1>6, <1>7, OnlyBusy

LEMMA InsertStep ==
  ASSUME IInv, NEW s \in Sessions, Insert(s)
  PROVE  IInv'
<1>1. PICK i : i = tx[s].input
  OBVIOUS
<1>2. /\ Writing(s) /\ tx[s].id = None /\ ~KeyLocked(i)
      /\ UNCHANGED <<rows, began, subs>> /\ UNCHANGED push /\ UNCHANGED history
  BY <1>1 DEF Insert
<1>3. /\ i \in Inputs /\ tx[s] \in Transaction /\ began[i] > 0 /\ i \notin Stored
      /\ \A t \in Sessions \ {s} : Writing(t) => tx[t].input # i
      /\ began \in [Inputs -> Ordinals]
  BY <1>1, <1>2, Writers DEF IInv, CallsOK, TypeInv, TypeOK
<1>4. CASE End(s)
  BY <1>2, <1>3, <1>4, OnlyBusy, Apart DEF End
<1>5. CASE ~End(s)
  <2>1. PICK id \in (IF Conflicting(i) = {} THEN {i} ELSE Conflicting(i)) :
          tx' = [tx EXCEPT ![s].id = id]
    BY <1>1, <1>5 DEF Insert
  <2>2. i \in Welcomes => Conflicting(i) = {}
    BY <1>1, <1>5 DEF Insert
  <2>3. /\ id \in Inputs
        /\ \/ id = i /\ Conflicting(i) = {}
           \/ id \in Unread /\ SameKey(i, id) /\ i \notin Welcomes
    BY <1>3, <2>1, <2>2 DEF Conflicting, Stored
  <2> DEFINE v == [tx[s] EXCEPT !.id = id]
  <2>4. v \in Transaction /\ v.input = i /\ v.id = id
    BY <1>1, <1>3, <2>3 DEF Transaction
  <2>5. tx' = [tx EXCEPT ![s] = v]
    BY <2>1
  <2> HIDE DEF v
  <2>6. ASSUME NEW t \in Sessions \ {s}, Writing(t), tx[t].id # None
        PROVE  id # tx[t].id /\ ~SameKey(id, tx[t].id) /\ ~SameKey(tx[t].id, id)
    <3>1. PICK r : r = tx[t].id
      OBVIOUS
    <3>2. r \in Inputs /\ tx[t].input \in Inputs /\ RowLocked(r)
      BY <2>6, <3>1, Writers DEF IInv, RowLocked, Holds
    <3>3. ~SameKey(i, r)
      BY <1>2, <3>2 DEF KeyLocked
    <3>4. ~SameKey(id, r) /\ ~SameKey(r, id)
      BY <1>3, <2>3, <3>2, <3>3, Keys
    <3>5. id # r
      <4>1. CASE id = i
        BY <1>3, <2>6, <3>1, <4>1 DEF IInv, InsertedOK, Unread
      <4>2. CASE SameKey(i, id)
        BY <3>3, <4>2
      <4> QED
        BY <2>3, <4>1, <4>2
    <3> QED
      BY <3>1, <3>4, <3>5
  <2>7. v \notin Marking
    BY <2>4, Apart
  <2> QED
    BY <1>2, <1>3, <2>3, <2>4, <2>5, <2>6, <2>7, OnlyBusy
<1> QED
  BY <1>4, <1>5

LEMMA MarkAllStep ==
  ASSUME IInv, NEW s \in Sessions, NEW u \in Users, MarkAllRead(s, u)
  PROVE  IInv'
<1> DEFINE v == [marks |-> {r \in Unread : OwnerOf[r] = u}]
<1>1. v \in Marking /\ v.marks \subseteq Stored
  BY DEF Marking, Unread, Stored
<1>2. /\ tx' = [tx EXCEPT ![s] = v] /\ UNCHANGED <<rows, began, subs>>
      /\ UNCHANGED push /\ UNCHANGED history
  BY DEF MarkAllRead
<1>3. began \in [Inputs -> Ordinals]
  BY DEF IInv, TypeInv, TypeOK
<1> HIDE DEF v
<1>4. v \notin Transaction
  BY <1>1, Apart
<1> QED
  BY <1>1, <1>2, <1>3, <1>4, OnlyBusy

----------------------------------------------------------------------------
(* Committing a notification.                                               *)

LEMMA SaveStep ==
  ASSUME IInv, NEW s \in Sessions, SaveTranslations(s)
  PROVE  IInv'
<1>1. PICK i, id : i = tx[s].input /\ id = tx[s].id
  OBVIOUS
<1>2. PICK row : row = [text |-> i, translated |-> Texts(i),
                        read |-> id \in Stored /\ rows[id].read, createdAt |-> began[i]]
  OBVIOUS
<1>3. /\ Writing(s) /\ id # None
      /\ rows' = [rows EXCEPT ![id] = row]
      /\ finding' = (IF i \in Welcomes THEN finding ELSE finding \cup {i})
      /\ due' = due \cup {i}
      /\ meant' = meant \cup {<<e, i>> : e \in {f \in Endpoints : holder[f] = OwnerOf[i]}}
      /\ tx' = [tx EXCEPT ![s] = None]
      /\ UNCHANGED <<began, subs, sending, sent, holder>>
  BY <1>1, <1>2 DEF SaveTranslations, End
<1>4. /\ i \in Inputs /\ id \in Inputs /\ i \notin Stored /\ began[i] > 0
      /\ began \in [Inputs -> Ordinals] /\ rows \in [Inputs -> Row \cup {None}]
  BY <1>1, <1>3, Writers DEF IInv, CallsOK, TypeInv, TypeOK
<1>5. \/ id = i /\ Conflicting(i) = {}
      \/ id \in Unread /\ SameKey(i, id) /\ i \notin Welcomes
  BY <1>1, <1>3 DEF IInv, InsertedOK
<1>6. /\ row \in Row /\ row # None /\ row.text = i /\ row.read = FALSE
      /\ \A l \in Languages : row.translated[l] = i
  <2>1. (id \in Stored /\ rows[id].read) = FALSE
    BY <1>4, <1>5 DEF Unread
  <2>2. row = [text |-> i, translated |-> Texts(i), read |-> FALSE, createdAt |-> began[i]]
    BY <1>2, <2>1
  <2>3. /\ Texts(i) \in [Languages -> Inputs \cup {None}]
        /\ \A l \in Languages : Texts(i)[l] = i
    BY <1>4 DEF Texts
  <2>4. /\ row \in Row /\ row.text = i /\ row.read = FALSE
        /\ \A l \in Languages : row.translated[l] = i
    BY <1>4, <2>2, <2>3 DEF Row
  <2> QED
    BY <2>4, NotificationsAssumption
<1>7. /\ rows'[id] = row /\ rows' \in [Inputs -> Row \cup {None}]
      /\ \A r \in Inputs \ {id} : rows'[r] = rows[r]
      /\ Stored' = Stored \cup {id} /\ Unread' = Unread \cup {id}
  <2>1. /\ rows'[id] = row /\ rows' \in [Inputs -> Row \cup {None}]
        /\ \A r \in Inputs \ {id} : rows'[r] = rows[r]
    BY <1>3, <1>4, <1>6
  <2>2. Stored' = Stored \cup {id}
    BY <1>4, <1>6, <2>1 DEF Stored
  <2>3. ~row.read
    BY <1>6
  <2>4. Unread' = Unread \cup {id}
    BY <1>4, <2>1, <2>2, <2>3 DEF Unread, Stored
  <2> QED
    BY <2>1, <2>2, <2>4
<1>8. /\ tx' \in [Sessions -> Transaction \cup Marking \cup {None}]
      /\ tx'[s] = None /\ Elsewhere(s) /\ ~Writing(s)'
      /\ \A t \in Sessions \ {s} : Writing(t)' <=> Writing(t)
  BY <1>3, Sets, Apart DEF IInv
<1>9. TypeInv'
  BY <1>3, <1>4, <1>7, <1>8 DEF IInv, TypeInv, TypeOK
<1>10. DevicesOK' /\ NeverToStranger'
  BY <1>3, <1>4 DEF IInv, DevicesOK, NeverToStranger
<1>11. CallsOK'
  <2>1. began[id] > 0
    BY <1>4, <1>5 DEF IInv, CallsOK, Unread
  <2>2. ASSUME NEW t \in Sessions \ {s}, Writing(t) PROVE tx[t].input # id
    <3>1. tx[t].input # i /\ tx[t].input \notin Stored
      BY <1>1, <1>3, <2>2 DEF IInv, CallsOK
    <3> QED
      BY <1>5, <3>1 DEF Unread
  <2> QED
    BY <1>3, <1>7, <1>8, <2>1, <2>2 DEF IInv, CallsOK, Elsewhere
<1>12. OneWriter'
  BY <1>8 DEF IInv, OneWriter, Elsewhere, SameKey
<1>13. ASSUME NEW t \in Sessions PROVE InsertedOK(t)'
  <2>1. CASE t = s
    BY <1>8, <2>1 DEF InsertedOK
  <2>2. CASE t # s
    <3>1. PICK j, r : j = tx[t].input /\ r = tx[t].id
      OBVIOUS
    <3>2. tx'[t] = tx[t] /\ (Writing(t)' <=> Writing(t))
      BY <1>8, <2>2 DEF Elsewhere
    <3>3. ASSUME Writing(t), r # None
          PROVE  \/ r = j /\ Conflicting(j)' = {}
                 \/ r \in Unread' /\ SameKey(j, r) /\ j \notin Welcomes
      <4>1. \/ r = j /\ Conflicting(j) = {}
            \/ r \in Unread /\ SameKey(j, r) /\ j \notin Welcomes
        BY <3>1, <3>3 DEF IInv, InsertedOK
      <4>2. ~SameKey(r, id)
        BY <1>1, <1>3, <2>2, <3>1, <3>3 DEF IInv, OneWriter
      <4>3. CASE r = j /\ Conflicting(j) = {}
        <5>1. Conflicting(j)' \subseteq Conflicting(j)
          BY <1>7, <4>2, <4>3 DEF Conflicting, SameKey
        <5> QED
          BY <4>3, <5>1
      <4> QED
        BY <1>7, <4>1, <4>3
    <3>4. Conflicting(j)' = {q \in Stored' : SameKey(j, q) /\ (j \in Welcomes \/ q \in Unread')}
      BY DEF Conflicting, SameKey
    <3>5. Conflicting(tx[t].input)' =
            {q \in Stored' : SameKey(tx'[t].input, q)
                             /\ (tx'[t].input \in Welcomes \/ q \in Unread')}
      BY DEF Conflicting, SameKey
    <3> QED
      BY <3>1, <3>2, <3>3, <3>4, <3>5 DEF InsertedOK, SameKey
  <2> QED
    BY <2>1, <2>2
<1>14. BothLanguagesAgree'
  <2> SUFFICES ASSUME NEW r \in Stored', NEW l \in Languages
               PROVE  rows'[r].translated[l] = rows'[r].text
    BY DEF BothLanguagesAgree
  <2>1. CASE r = id
    BY <1>6, <1>7, <2>1
  <2>2. CASE r # id
    <3>1. r \in Stored /\ rows'[r] = rows[r]
      BY <1>7, <2>2 DEF Stored
    <3> QED
      BY <3>1 DEF IInv, BothLanguagesAgree
  <2> QED
    BY <2>1, <2>2
<1>15. OneUnreadWhileDue'
  <2>1. ASSUME NEW q \in Stored', NEW r \in Stored', q # r, SameKey(q, r)
        PROVE  ~{q, r} \subseteq Unread' /\ q \notin Welcomes
    <3>0. q \in Inputs /\ r \in Inputs /\ SameKey(r, q)
      BY <2>1, Keys DEF Stored
    <3>1. CASE q # id /\ r # id
      BY <1>7, <2>1, <3>1 DEF IInv, OneUnreadWhileDue
    <3>2. ASSUME NEW x \in Stored, x # id, SameKey(id, x)
          PROVE  x \notin Unread /\ id \notin Welcomes
      <4>1. CASE id = i /\ Conflicting(i) = {}
        BY <3>2, <4>1 DEF Conflicting
      <4>2. CASE id \in Unread /\ SameKey(i, id) /\ i \notin Welcomes
        <5>1. id \in Stored
          BY <4>2 DEF Unread
        <5> QED
          BY <3>2, <4>2, <5>1 DEF IInv, OneUnreadWhileDue
      <4> QED
        BY <1>5, <4>1, <4>2
    <3>3. CASE q = id
      <4>1. r \in Stored /\ r \notin Unread /\ q \notin Welcomes
        BY <1>7, <2>1, <3>2, <3>3
      <4> QED
        BY <1>7, <2>1, <3>3, <4>1
    <3>4. CASE r = id
      <4>1. q \in Stored /\ q \notin Unread /\ r \notin Welcomes
        BY <1>7, <2>1, <3>0, <3>2, <3>4
      <4> QED
        BY <1>7, <2>1, <3>0, <3>4, <4>1, Keys
    <3> QED
      BY <3>1, <3>3, <3>4
  <2>2. ASSUME NEW j \in due' PROVE \E r \in Unread' : r = j \/ SameKey(j, r)
    <3>1. CASE j = i
      BY <1>5, <1>7, <3>1
    <3>2. CASE j # i
      BY <1>3, <1>7, <3>2 DEF IInv, OneUnreadWhileDue
    <3> QED
      BY <3>1, <3>2
  <2> QED
    BY <2>1, <2>2 DEF OneUnreadWhileDue, SameKey
<1> QED
  BY <1>9, <1>10, <1>11, <1>12, <1>13, <1>14, <1>15 DEF IInv

----------------------------------------------------------------------------
(* Reading.                                                                 *)

\* Rows nobody is writing are marked; `v' is what the session of the statement
\* is left with, if it is one of these.
LEMMA MarkedStep ==
  ASSUME IInv, NEW ids \in SUBSET Stored, \A r \in ids : ~RowLocked(r), Marked(ids),
         \/ UNCHANGED tx
         \/ \E s \in Sessions : tx[s] \in Marking /\ tx' = [tx EXCEPT ![s] = None],
         UNCHANGED <<began, subs, push, sent, holder, meant>>
  PROVE  IInv'
<1>1. /\ rows \in [Inputs -> Row \cup {None}] /\ ids \subseteq Inputs
      /\ rows' = [r \in Inputs |-> IF r \in ids THEN [rows[r] EXCEPT !.read = TRUE] ELSE rows[r]]
      /\ due' = {i \in due : \A r \in ids : i # r /\ ~SameKey(i, r)}
  BY DEF IInv, TypeInv, TypeOK, Marked, Stored
<1>2. ASSUME NEW r \in ids
      PROVE  /\ rows'[r] \in Row /\ rows'[r] # None /\ rows'[r].read
             /\ rows'[r].text = rows[r].text /\ rows'[r].translated = rows[r].translated
  <2>1. rows[r] \in Row
    BY <1>1 DEF Stored
  <2>2. rows'[r] = [rows[r] EXCEPT !.read = TRUE]
    BY <1>1
  <2>3. /\ rows'[r] \in Row /\ rows'[r].read
        /\ rows'[r].text = rows[r].text /\ rows'[r].translated = rows[r].translated
    BY <2>1, <2>2 DEF Row
  <2> QED
    BY <2>3, NotificationsAssumption
<1>3. \A r \in Inputs \ ids : rows'[r] = rows[r]
  BY <1>1
<1>4. /\ rows' \in [Inputs -> Row \cup {None}]
      /\ Stored' = Stored /\ Unread' = Unread \ ids
  <2>1. rows' \in [Inputs -> Row \cup {None}]
    BY <1>1, <1>2, <1>3
  <2>2. Stored' = Stored
    BY <1>1, <1>2, <1>3 DEF Stored
  <2> QED
    BY <1>2, <1>3, <2>1, <2>2 DEF Unread, Stored
<1>5. /\ tx' \in [Sessions -> Transaction \cup Marking \cup {None}]
      /\ \A t \in Sessions : Writing(t)' <=> Writing(t)
      /\ \A t \in Sessions : tx'[t] # None => tx'[t] = tx[t]
      /\ \A t \in Sessions : Writing(t) => tx'[t] = tx[t]
  <2>1. CASE UNCHANGED tx
    BY <2>1 DEF IInv, TypeInv, TypeOK, Writing
  <2>2. CASE \E s \in Sessions : tx[s] \in Marking /\ tx' = [tx EXCEPT ![s] = None]
    <3>1. PICK s \in Sessions : tx[s] \in Marking /\ tx' = [tx EXCEPT ![s] = None]
      BY <2>2
    <3>2. /\ tx' \in [Sessions -> Transaction \cup Marking \cup {None}]
          /\ tx'[s] = None /\ Elsewhere(s) /\ ~Writing(s)' /\ ~Writing(s)
          /\ \A t \in Sessions \ {s} : Writing(t)' <=> Writing(t)
      BY <3>1, Sets, Apart, Writers DEF IInv
    <3> QED
      BY <3>2 DEF Elsewhere
  <2> QED
    BY <2>1, <2>2
<1>6. TypeInv'
  BY <1>1, <1>4, <1>5 DEF IInv, TypeInv, TypeOK, push
<1>7. DevicesOK' /\ NeverToStranger'
  BY DevicesKept DEF IInv, push
<1>8. CallsOK'
  BY <1>4, <1>5 DEF IInv, CallsOK
<1>9. OneWriter'
  BY <1>5 DEF IInv, OneWriter, SameKey
<1>10. ASSUME NEW t \in Sessions PROVE InsertedOK(t)'
  <2>1. PICK j, r : j = tx[t].input /\ r = tx[t].id
    OBVIOUS
  <2>2. ASSUME Writing(t), r # None
        PROVE  \/ r = j /\ Conflicting(j)' = {}
               \/ r \in Unread' /\ SameKey(j, r) /\ j \notin Welcomes
    <3>1. \/ r = j /\ Conflicting(j) = {}
          \/ r \in Unread /\ SameKey(j, r) /\ j \notin Welcomes
      BY <2>1, <2>2 DEF IInv, InsertedOK
    <3>2. r \notin ids
      BY <2>1, <2>2 DEF RowLocked, Holds
    <3>3. Conflicting(j)' \subseteq Conflicting(j)
      BY <1>4 DEF Conflicting, SameKey
    <3> QED
      BY <1>4, <3>1, <3>2, <3>3
  <2>3. Conflicting(j)' = {q \in Stored' : SameKey(j, q) /\ (j \in Welcomes \/ q \in Unread')}
    BY DEF Conflicting, SameKey
  <2>4. Conflicting(tx[t].input)' =
          {q \in Stored' : SameKey(tx'[t].input, q)
                           /\ (tx'[t].input \in Welcomes \/ q \in Unread')}
    BY DEF Conflicting, SameKey
  <2> QED
    BY <1>5, <2>1, <2>2, <2>3, <2>4 DEF InsertedOK, SameKey
<1>11. BothLanguagesAgree'
  <2> SUFFICES ASSUME NEW r \in Stored, NEW l \in Languages
               PROVE  rows'[r].translated[l] = rows'[r].text
    BY <1>4 DEF BothLanguagesAgree
  <2>1. r \in Inputs /\ rows[r].translated[l] = rows[r].text
    BY DEF IInv, BothLanguagesAgree, Stored
  <2> QED
    BY <1>2, <1>3, <2>1
<1>12. OneUnreadWhileDue'
  <2>1. \A q, r \in Stored : q # r /\ SameKey(q, r) =>
          ~{q, r} \subseteq Unread' /\ q \notin Welcomes
    BY <1>4 DEF IInv, OneUnreadWhileDue
  <2>2. \A i \in due' : \E r \in Unread' : r = i \/ SameKey(i, r)
    BY <1>1, <1>4 DEF IInv, OneUnreadWhileDue
  <2> QED
    BY <1>4, <2>1, <2>2 DEF OneUnreadWhileDue, SameKey
<1> QED
  BY <1>6, <1>7, <1>8, <1>9, <1>10, <1>11, <1>12 DEF IInv

LEMMA MarkReadStep ==
  ASSUME IInv, NEW r \in Inputs, MarkRead(r)
  PROVE  IInv'
<1>1. /\ r \in Stored /\ ~RowLocked(r) /\ Marked({r})
      /\ UNCHANGED <<tx, began, subs, push, sent, holder, meant>>
  BY DEF MarkRead
<1>2. {r} \in SUBSET Stored
  BY <1>1
<1> QED
  BY <1>1, <1>2, MarkedStep

LEMMA UpdateStep ==
  ASSUME IInv, NEW s \in Sessions, UpdateUnread(s)
  PROVE  IInv'
<1>1. PICK ids : ids = tx[s].marks
  OBVIOUS
<1>2. /\ tx[s] \in Marking /\ \A r \in ids : ~RowLocked(r)
      /\ Marked(ids) /\ tx' = [tx EXCEPT ![s] = None]
      /\ UNCHANGED <<began, subs, push, sent, holder, meant>>
  BY <1>1 DEF UpdateUnread, End
<1>3. ids \in SUBSET Stored
  BY <1>1, <1>2, Writers DEF IInv, CallsOK
<1> QED
  BY <1>2, <1>3, MarkedStep

----------------------------------------------------------------------------
(* Devices.                                                                 *)

LEMMA DeviceStep ==
  ASSUME IInv, UNCHANGED <<rows, tx, began, due>>, DevicesOK', NeverToStranger',
         subs' \in [Endpoints -> Users \cup {None}],
         finding' \subseteq Inputs \ Welcomes, sending' \subseteq Endpoints \X (Inputs \ Welcomes)
  PROVE  IInv'
<1>1. TypeInv'
  BY DEF IInv, TypeInv, TypeOK
<1>2. CallsOK' /\ OneWriter'
  BY DEF IInv, CallsOK, OneWriter, Stored, Writing, SameKey
<1>3. \A t \in Sessions : InsertedOK(t)'
  BY DEF IInv, InsertedOK, Conflicting, Unread, Stored, Writing, SameKey
<1>4. BothLanguagesAgree' /\ OneUnreadWhileDue'
  BY RowsKept DEF IInv
<1> QED
  BY <1>1, <1>2, <1>3, <1>4 DEF IInv

LEMMA SubscribeStep ==
  ASSUME IInv, NEW u \in Users, NEW e \in Endpoints, Subscribe(u, e) \/ Unsubscribe(u, e)
  PROVE  IInv'
<1>1. /\ subs \in [Endpoints -> Users \cup {None}] /\ holder = subs
      /\ finding \subseteq Inputs \ Welcomes
      /\ sending \subseteq Endpoints \X (Inputs \ Welcomes)
      /\ None \notin Users
  BY NotificationsAssumption DEF IInv, TypeInv, TypeOK, DevicesOK
<1>2. CASE Subscribe(u, e)
  <2>1. /\ subs' = [subs EXCEPT ![e] = u] /\ holder' = [holder EXCEPT ![e] = u]
        /\ meant' = meant \cup {<<e, i>> : i \in {j \in finding : OwnerOf[j] = u}}
        /\ UNCHANGED <<rows, tx, began, push, due, sent>>
    BY <1>2 DEF Subscribe, Upsert
  <2>2. DevicesOK' /\ NeverToStranger'
    BY <1>1, <2>1 DEF IInv, DevicesOK, NeverToStranger, push
  <2> QED
    BY <1>1, <2>1, <2>2, DeviceStep DEF push
<1>3. CASE Unsubscribe(u, e)
  <2>1. /\ subs[e] = u /\ subs' = [subs EXCEPT ![e] = None]
        /\ holder' = [holder EXCEPT ![e] = None]
        /\ UNCHANGED <<rows, tx, began, push, due, sent, meant>>
    BY <1>1, <1>3 DEF Unsubscribe
  <2>2. \A i \in finding : OwnerOf[i] # None
    BY <1>1, NotificationsAssumption
  <2>3. DevicesOK' /\ NeverToStranger'
    BY <1>1, <2>1, <2>2 DEF IInv, DevicesOK, NeverToStranger, push
  <2> QED
    BY <1>1, <2>1, <2>3, DeviceStep DEF push
<1> QED
  BY <1>2, <1>3

LEMMA PushStep ==
  ASSUME IInv, NEW i \in Inputs, Push(i)
  PROVE  IInv'
<1>1. /\ subs \in [Endpoints -> Users \cup {None}] /\ holder = subs
      /\ finding \subseteq Inputs \ Welcomes
      /\ sending \subseteq Endpoints \X (Inputs \ Welcomes)
      /\ sending \subseteq meant
      /\ \A j \in finding : OwnerOf[j] # None
  BY NotificationsAssumption DEF IInv, TypeInv, TypeOK, DevicesOK
<1>2. CASE FindByUser(i)
  <2>1. /\ i \in finding /\ finding' = finding \ {i}
        /\ sending' = sending \cup {<<e, i>> : e \in {f \in Endpoints : subs[f] = OwnerOf[i]}}
        /\ UNCHANGED <<rows, tx, began, subs>> /\ UNCHANGED <<due, sent, holder, meant>>
    BY <1>2 DEF FindByUser, history
  <2>2. DevicesOK' /\ NeverToStranger'
    BY <1>1, <2>1 DEF IInv, DevicesOK, NeverToStranger
  <2> QED
    BY <1>1, <2>1, <2>2, DeviceStep
<1>3. CASE SendFails(i)
  <2>1. /\ finding' \subseteq finding /\ sending' \subseteq sending
        /\ UNCHANGED <<rows, tx, began, subs>> /\ UNCHANGED <<due, sent, holder, meant>>
    BY <1>3 DEF SendFails, history
  <2>2. DevicesOK' /\ NeverToStranger'
    BY <1>1, <2>1 DEF IInv, DevicesOK, NeverToStranger
  <2> QED
    BY <1>1, <2>1, <2>2, DeviceStep
<1>4. CASE \E e \in Endpoints : SendNotification(e, i)
  <2>1. PICK e \in Endpoints :
          /\ <<e, i>> \in sending /\ sending' = sending \ {<<e, i>>}
          /\ sent' = sent \cup {<<e, i>>}
          /\ UNCHANGED <<rows, tx, began, subs, finding, due, holder, meant>>
    BY <1>4 DEF SendNotification
  <2>2. DevicesOK' /\ NeverToStranger'
    BY <1>1, <2>1 DEF IInv, DevicesOK, NeverToStranger
  <2> QED
    BY <1>1, <2>1, <2>2, DeviceStep
<1>5. CASE \E e \in Endpoints : DeleteByEndpoint(e, i)
  <2>1. PICK e \in Endpoints :
          /\ sending' = sending \ {<<e, i>>}
          /\ subs' = [subs EXCEPT ![e] = None] /\ holder' = [holder EXCEPT ![e] = None]
          /\ UNCHANGED <<rows, tx, began, finding, due, sent, meant>>
    BY <1>5 DEF DeleteByEndpoint
  <2>2. DevicesOK' /\ NeverToStranger'
    BY <1>1, <2>1 DEF IInv, DevicesOK, NeverToStranger
  <2> QED
    BY <1>1, <2>1, <2>2, DeviceStep
<1> QED
  BY <1>2, <1>3, <1>4, <1>5 DEF Push

----------------------------------------------------------------------------
LEMMA InvariantStep == IInv /\ [Next]_vars => IInv'
<1> SUFFICES ASSUME IInv, [Next]_vars PROVE IInv'
  OBVIOUS
<1>1. ASSUME NEW s \in Sessions, Serve(s) PROVE IInv'
  BY <1>1, BeginStep, InsertStep, SaveStep, RollbackStep, MarkAllStep, UpdateStep DEF Serve
<1>2. CASE \E i \in Inputs : Push(i) \/ MarkRead(i)
  BY <1>2, PushStep, MarkReadStep
<1>3. CASE \E u \in Users, e \in Endpoints : Subscribe(u, e) \/ Unsubscribe(u, e)
  BY <1>3, SubscribeStep
<1>4. CASE UNCHANGED vars
  <2>1. /\ UNCHANGED <<rows, tx, began, due>>
        /\ UNCHANGED <<subs, finding, sending, sent, holder, meant>>
    BY <1>4 DEF vars, push, history
  <2> QED
    BY <2>1, DevicesKept, DeviceStep DEF IInv, TypeInv, TypeOK
<1> QED
  BY <1>1, <1>2, <1>3, <1>4 DEF Next

LEMMA InitHolds == Init => IInv
<1> SUFFICES ASSUME Init PROVE IInv
  OBVIOUS
<1>1. /\ rows = [i \in Inputs |-> None] /\ tx = [s \in Sessions |-> None]
      /\ began = [i \in Inputs |-> 0] /\ subs = [e \in Endpoints |-> None]
      /\ finding = {} /\ sending = {} /\ due = {} /\ sent = {} /\ meant = {}
      /\ holder = [e \in Endpoints |-> None]
  BY DEF Init
<1>2. 0 \in Ordinals
  BY NotificationsAssumption, FS_CardinalityType DEF Ordinals
<1>3. TypeInv
  BY <1>1, <1>2 DEF TypeInv, TypeOK
<1>4. Stored = {} /\ \A s \in Sessions : ~Writing(s) /\ tx[s] = None
  BY <1>1 DEF Stored, Writing
<1>5. DevicesOK /\ CallsOK /\ OneWriter /\ \A s \in Sessions : InsertedOK(s)
  BY <1>1, <1>4 DEF DevicesOK, CallsOK, OneWriter, InsertedOK
<1>6. BothLanguagesAgree /\ OneUnreadWhileDue /\ NeverToStranger
  BY <1>1, <1>4 DEF BothLanguagesAgree, OneUnreadWhileDue, NeverToStranger
<1> QED
  BY <1>3, <1>5, <1>6 DEF IInv

----------------------------------------------------------------------------
(* What holds of every behaviour.                                           *)

\* What the INSERT ... ON CONFLICT of a transaction met is still so when it
\* commits: one writer per key, and the row it took over unread under its lock.
THEOREM Inductive == Spec => []IInv
BY InitHolds, InvariantStep, PTL DEF Spec

\* One unread message per room and person and one welcome per account, and yet
\* nobody who is due a message finds it hidden in a row they have read.
THEOREM OneUnread == Spec => []OneUnreadWhileDue
BY Inductive, PTL DEF IInv

\* Both languages of a notification tell what the row tells, also after another
\* message took the row over.
THEOREM LanguagesAgree == Spec => []BothLanguagesAgree
BY Inductive, PTL DEF IInv

\* sendToUser() reaches only devices the owner held between the commit and the look.
THEOREM PushesReachTheirOwner == Spec => []NeverToStranger
BY Inductive, PTL DEF IInv

----------------------------------------------------------------------------
(* The live side of a room.  An id belongs to one request; who is owed the *)
(* message is neither muted nor suspended, and has it, is out of the room  *)
(* since it was sent, or is on the list of those to be told.               *)

Telling == {"emit", "sockets", "recipients", "tell"}
Steps == {"idle", "store", "insert"} \cup Telling

RequestsOK ==
  /\ pc \in [Sends -> Steps]
  /\ req \in [Sends -> Send \cup {NoOne}]
  /\ \A s \in Sends :
       /\ pc[s] # "idle" => req[s] \in Send
       /\ pc[s] \in {"store", "insert"} => req[s].id = NoOne
       /\ pc[s] \in Telling => /\ req[s].id \in Sent
                               /\ messages[req[s].id] = req[s].sender
                               /\ \A t \in Sends \ {s} :
                                    pc[t] \in Telling => req[t].id # req[s].id

\* Who is owed a message wants it, and is not its sender.
OwedWant ==
  \A pair \in owed : /\ pair \in Members \X Sent /\ pair[1] \notin Away
                     /\ messages[pair[2]] # pair[1]

HushedAreAway == \A pair \in hushed : pair[2] \in Sent /\ pair[1] \in Away

\* How far a send has brought its message to a member who is owed it.
OnTheWay ==
  \A s \in Sends, pair \in owed :
    pc[s] # "idle" /\ req[s].id = pair[2] =>
      /\ pc[s] = "sockets" => pair \in got \/ pair[1] \notin joined
      /\ pc[s] = "recipients" => pair \in got \/ pair[1] \notin joined \cup req[s].present
      /\ pc[s] = "tell" => pair \in got \cup told \/ pair[1] \in req[s].left

\* Nobody is on the list of those to be told who was away ever since.
ListedWereHere ==
  /\ \A pair \in told : pair[2] \in Sent
  /\ \A s \in Sends : pc[s] = "tell" =>
       \A m \in req[s].left : <<m, req[s].id>> \notin hushed

RoomTypes ==
  /\ active \subseteq Members /\ muted \subseteq Members /\ joined \subseteq Members
  /\ messages \in [Messages -> Members \cup {NoOne}]

RoomInv ==
  /\ RoomTypes
  /\ RequestsOK /\ OwedWant /\ HushedAreAway /\ OnTheWay /\ ListedWereHere
  /\ Reached /\ WithheldNotTold

LEMMA RoomInvInit == RoomInit => RoomInv
BY ChatAssumption DEF RoomInit, RoomInv, RoomTypes, RequestsOK, OwedWant, HushedAreAway,
       OnTheWay, ListedWereHere, Reached, WithheldNotTold, Steps, Telling

LEMMA RoomAuthenticate ==
  ASSUME RoomInv, NEW s \in Sends, NEW m \in Members, Authenticate(s, m)
  PROVE  RoomInv'
<1> USE ChatAssumption DEF RoomInv, RoomTypes, room, deliveries, Sent, Send, Away, Telling,
        Steps, Authenticate, Go
<1>1. RoomTypes'
  OBVIOUS
<1>2. RequestsOK'
  BY DEF RequestsOK
<1>3. OwedWant'
  BY DEF OwedWant, RequestsOK
<1>4. HushedAreAway'
  BY DEF HushedAreAway, RequestsOK
<1>5. OnTheWay'
  BY DEF OnTheWay, RequestsOK, OwedWant
<1>6. ListedWereHere'
  BY DEF ListedWereHere, RequestsOK, HushedAreAway
<1>7. Reached'
  BY DEF Reached, RequestsOK, OwedWant, OnTheWay, InFlight
<1>8. WithheldNotTold'
  BY DEF WithheldNotTold, RequestsOK, HushedAreAway, ListedWereHere
<1> QED
  BY <1>1, <1>2, <1>3, <1>4, <1>5, <1>6, <1>7, <1>8 DEF RoomInv

LEMMA RoomCheckMembership ==
  ASSUME RoomInv, NEW s \in Sends, CheckMembership(s)
  PROVE  RoomInv'
<1> USE ChatAssumption DEF RoomInv, RoomTypes, room, deliveries, Sent, Send, Away, Telling,
        Steps, CheckMembership, Answer, Go
<1>1. RoomTypes'
  OBVIOUS
<1>2. RequestsOK'
  BY DEF RequestsOK
<1>3. OwedWant'
  BY DEF OwedWant, RequestsOK
<1>4. HushedAreAway'
  BY DEF HushedAreAway, RequestsOK
<1>5. OnTheWay'
  BY DEF OnTheWay, RequestsOK, OwedWant
<1>6. ListedWereHere'
  BY DEF ListedWereHere, RequestsOK, HushedAreAway
<1>7. Reached'
  BY DEF Reached, RequestsOK, OwedWant, OnTheWay, InFlight
<1>8. WithheldNotTold'
  BY DEF WithheldNotTold, RequestsOK, HushedAreAway, ListedWereHere
<1> QED
  BY <1>1, <1>2, <1>3, <1>4, <1>5, <1>6, <1>7, <1>8 DEF RoomInv

LEMMA RoomCreateMessage ==
  ASSUME RoomInv, NEW s \in Sends, NEW i \in Messages, CreateMessage(s, i)
  PROVE  RoomInv'
<1> USE ChatAssumption DEF RoomInv, RoomTypes, room, deliveries, Sent, Send, Away, Telling,
        Steps, CreateMessage, Go
<1>1. RoomTypes'
  BY DEF RequestsOK
<1>2. RequestsOK'
  BY DEF RequestsOK
<1>3. OwedWant'
  BY DEF OwedWant, RequestsOK
<1>4. HushedAreAway'
  BY DEF HushedAreAway, RequestsOK
<1>5. OnTheWay'
  BY DEF OnTheWay, RequestsOK, OwedWant
<1>6. ListedWereHere'
  BY DEF ListedWereHere, RequestsOK, HushedAreAway
<1>7. Reached'
  BY DEF Reached, RequestsOK, OwedWant, OnTheWay, InFlight
<1>8. WithheldNotTold'
  BY DEF WithheldNotTold, RequestsOK, HushedAreAway, ListedWereHere
<1> QED
  BY <1>1, <1>2, <1>3, <1>4, <1>5, <1>6, <1>7, <1>8 DEF RoomInv

LEMMA RoomEmit ==
  ASSUME RoomInv, NEW s \in Sends, Emit(s)
  PROVE  RoomInv'
<1> USE ChatAssumption DEF RoomInv, RoomTypes, room, deliveries, Sent, Send, Away, Telling,
        Steps, Emit, Go
<1>1. RoomTypes'
  OBVIOUS
<1>2. RequestsOK'
  BY DEF RequestsOK
<1>3. OwedWant'
  BY DEF OwedWant, RequestsOK
<1>4. HushedAreAway'
  BY DEF HushedAreAway, RequestsOK
<1>5. OnTheWay'
  BY DEF OnTheWay, RequestsOK, OwedWant
<1>6. ListedWereHere'
  BY DEF ListedWereHere, RequestsOK, HushedAreAway
<1>7. Reached'
  BY DEF Reached, RequestsOK, OwedWant, OnTheWay, InFlight
<1>8. WithheldNotTold'
  BY DEF WithheldNotTold, RequestsOK, HushedAreAway, ListedWereHere
<1> QED
  BY <1>1, <1>2, <1>3, <1>4, <1>5, <1>6, <1>7, <1>8 DEF RoomInv

LEMMA RoomUserIdsInRoom ==
  ASSUME RoomInv, NEW s \in Sends, UserIdsInRoom(s)
  PROVE  RoomInv'
<1> USE ChatAssumption DEF RoomInv, RoomTypes, room, deliveries, Sent, Send, Away, Telling,
        Steps, UserIdsInRoom, InRoom, Go
<1>1. RoomTypes'
  OBVIOUS
<1>2. RequestsOK'
  BY DEF RequestsOK
<1>3. OwedWant'
  BY DEF OwedWant, RequestsOK
<1>4. HushedAreAway'
  BY DEF HushedAreAway, RequestsOK
<1>5. OnTheWay'
  BY DEF OnTheWay, RequestsOK, OwedWant
<1>6. ListedWereHere'
  BY DEF ListedWereHere, RequestsOK, HushedAreAway
<1>7. Reached'
  BY DEF Reached, RequestsOK, OwedWant, OnTheWay, InFlight
<1>8. WithheldNotTold'
  BY DEF WithheldNotTold, RequestsOK, HushedAreAway, ListedWereHere
<1> QED
  BY <1>1, <1>2, <1>3, <1>4, <1>5, <1>6, <1>7, <1>8 DEF RoomInv

LEMMA RoomFindMessageRecipients ==
  ASSUME RoomInv, NEW s \in Sends, FindMessageRecipients(s)
  PROVE  RoomInv'
<1> USE ChatAssumption DEF RoomInv, RoomTypes, room, deliveries, Sent, Send, Away, Telling,
        Steps, FindMessageRecipients, Recipients, Go
<1>1. RoomTypes'
  OBVIOUS
<1>2. RequestsOK'
  BY DEF RequestsOK
<1>3. OwedWant'
  BY DEF OwedWant, RequestsOK
<1>4. HushedAreAway'
  BY DEF HushedAreAway, RequestsOK
<1>5. OnTheWay'
  BY DEF OnTheWay, RequestsOK, OwedWant
<1>6. ListedWereHere'
  BY DEF ListedWereHere, RequestsOK, HushedAreAway
<1>7. Reached'
  BY DEF Reached, RequestsOK, OwedWant, OnTheWay, InFlight
<1>8. WithheldNotTold'
  BY DEF WithheldNotTold, RequestsOK, HushedAreAway, ListedWereHere
<1> QED
  BY <1>1, <1>2, <1>3, <1>4, <1>5, <1>6, <1>7, <1>8 DEF RoomInv

LEMMA RoomNotify ==
  ASSUME RoomInv, NEW s \in Sends, NEW m \in Members, Notify(s, m)
  PROVE  RoomInv'
<1> USE ChatAssumption DEF RoomInv, RoomTypes, room, deliveries, Sent, Send, Away, Telling,
        Steps, Notify, Go
<1>1. RoomTypes'
  OBVIOUS
<1>2. RequestsOK'
  BY DEF RequestsOK
<1>3. OwedWant'
  BY DEF OwedWant, RequestsOK
<1>4. HushedAreAway'
  BY DEF HushedAreAway, RequestsOK
<1>5. OnTheWay'
  BY DEF OnTheWay, RequestsOK, OwedWant
<1>6. ListedWereHere'
  BY DEF ListedWereHere, RequestsOK, HushedAreAway
<1>7. Reached'
  BY DEF Reached, RequestsOK, OwedWant, OnTheWay, InFlight
<1>8. WithheldNotTold'
  BY DEF WithheldNotTold, RequestsOK, HushedAreAway, ListedWereHere
<1> QED
  BY <1>1, <1>2, <1>3, <1>4, <1>5, <1>6, <1>7, <1>8 DEF RoomInv

LEMMA RoomSendoff ==
  ASSUME RoomInv, NEW s \in Sends, Sendoff(s)
  PROVE  RoomInv'
<1> USE ChatAssumption DEF RoomInv, RoomTypes, room, deliveries, Sent, Send, Away, Telling,
        Steps, Sendoff, Answer, Go
<1>1. RoomTypes'
  OBVIOUS
<1>2. RequestsOK'
  BY DEF RequestsOK
<1>3. OwedWant'
  BY DEF OwedWant, RequestsOK
<1>4. HushedAreAway'
  BY DEF HushedAreAway, RequestsOK
<1>5. OnTheWay'
  BY DEF OnTheWay, RequestsOK, OwedWant
<1>6. ListedWereHere'
  BY DEF ListedWereHere, RequestsOK, HushedAreAway
<1>7. Reached'
  BY DEF Reached, RequestsOK, OwedWant, OnTheWay, InFlight
<1>8. WithheldNotTold'
  BY DEF WithheldNotTold, RequestsOK, HushedAreAway, ListedWereHere
<1> QED
  BY <1>1, <1>2, <1>3, <1>4, <1>5, <1>6, <1>7, <1>8 DEF RoomInv

LEMMA RoomFail ==
  ASSUME RoomInv, NEW s \in Sends, Fail(s)
  PROVE  RoomInv'
<1> USE ChatAssumption DEF RoomInv, RoomTypes, room, deliveries, Sent, Send, Away, Telling,
        Steps, Fail, Answer, Go
<1>1. RoomTypes'
  OBVIOUS
<1>2. RequestsOK'
  BY DEF RequestsOK
<1>3. OwedWant'
  BY DEF OwedWant, RequestsOK
<1>4. HushedAreAway'
  BY DEF HushedAreAway, RequestsOK
<1>5. OnTheWay'
  BY DEF OnTheWay, RequestsOK, OwedWant
<1>6. ListedWereHere'
  BY DEF ListedWereHere, RequestsOK, HushedAreAway
<1>7. Reached'
  BY DEF Reached, RequestsOK, OwedWant, OnTheWay, InFlight
<1>8. WithheldNotTold'
  BY DEF WithheldNotTold, RequestsOK, HushedAreAway, ListedWereHere
<1> QED
  BY <1>1, <1>2, <1>3, <1>4, <1>5, <1>6, <1>7, <1>8 DEF RoomInv

LEMMA RoomSetMuted ==
  ASSUME RoomInv, NEW m \in Members, NEW mute \in BOOLEAN, SetMuted(m, mute)
  PROVE  RoomInv'
<1> USE ChatAssumption DEF RoomInv, RoomTypes, room, deliveries, Sent, Send, Away, Telling,
        Steps, SetMuted, Without
<1>1. RoomTypes'
  OBVIOUS
<1>2. RequestsOK'
  BY DEF RequestsOK
<1>3. OwedWant'
  BY DEF OwedWant, RequestsOK
<1>4. HushedAreAway'
  BY DEF HushedAreAway, RequestsOK
<1>5. OnTheWay'
  BY DEF OnTheWay, RequestsOK, OwedWant
<1>6. ListedWereHere'
  BY DEF ListedWereHere, RequestsOK, HushedAreAway
<1>7. Reached'
  BY DEF Reached, RequestsOK, OwedWant, OnTheWay, InFlight
<1>8. WithheldNotTold'
  BY DEF WithheldNotTold, RequestsOK, HushedAreAway, ListedWereHere
<1> QED
  BY <1>1, <1>2, <1>3, <1>4, <1>5, <1>6, <1>7, <1>8 DEF RoomInv

LEMMA RoomJoin ==
  ASSUME RoomInv, NEW m \in Members, Join(m)
  PROVE  RoomInv'
<1> USE ChatAssumption DEF RoomInv, RoomTypes, room, deliveries, Sent, Send, Away, Telling,
        Steps, Join, Without
<1>1. RoomTypes'
  OBVIOUS
<1>2. RequestsOK'
  BY DEF RequestsOK
<1>3. OwedWant'
  BY DEF OwedWant, RequestsOK
<1>4. HushedAreAway'
  BY DEF HushedAreAway, RequestsOK
<1>5. OnTheWay'
  BY DEF OnTheWay, RequestsOK, OwedWant
<1>6. ListedWereHere'
  BY DEF ListedWereHere, RequestsOK, HushedAreAway
<1>7. Reached'
  BY DEF Reached, RequestsOK, OwedWant, OnTheWay, InFlight
<1>8. WithheldNotTold'
  BY DEF WithheldNotTold, RequestsOK, HushedAreAway, ListedWereHere
<1> QED
  BY <1>1, <1>2, <1>3, <1>4, <1>5, <1>6, <1>7, <1>8 DEF RoomInv

LEMMA RoomLeave ==
  ASSUME RoomInv, NEW m \in Members, Leave(m)
  PROVE  RoomInv'
<1> USE ChatAssumption DEF RoomInv, RoomTypes, room, deliveries, Sent, Send, Away, Telling,
        Steps, Leave
<1>1. RoomTypes'
  OBVIOUS
<1>2. RequestsOK'
  BY DEF RequestsOK
<1>3. OwedWant'
  BY DEF OwedWant, RequestsOK
<1>4. HushedAreAway'
  BY DEF HushedAreAway, RequestsOK
<1>5. OnTheWay'
  BY DEF OnTheWay, RequestsOK, OwedWant
<1>6. ListedWereHere'
  BY DEF ListedWereHere, RequestsOK, HushedAreAway
<1>7. Reached'
  BY DEF Reached, RequestsOK, OwedWant, OnTheWay, InFlight
<1>8. WithheldNotTold'
  BY DEF WithheldNotTold, RequestsOK, HushedAreAway, ListedWereHere
<1> QED
  BY <1>1, <1>2, <1>3, <1>4, <1>5, <1>6, <1>7, <1>8 DEF RoomInv

LEMMA RoomSetStatus ==
  ASSUME RoomInv, NEW m \in Members, SetStatus(m)
  PROVE  RoomInv'
<1> USE ChatAssumption DEF RoomInv, RoomTypes, room, deliveries, Sent, Send, Away, Telling,
        Steps, SetStatus, Without
<1>1. RoomTypes'
  OBVIOUS
<1>2. RequestsOK'
  BY DEF RequestsOK
<1>3. OwedWant'
  BY DEF OwedWant, RequestsOK
<1>4. HushedAreAway'
  BY DEF HushedAreAway, RequestsOK
<1>5. OnTheWay'
  BY DEF OnTheWay, RequestsOK, OwedWant
<1>6. ListedWereHere'
  BY DEF ListedWereHere, RequestsOK, HushedAreAway
<1>7. Reached'
  BY DEF Reached, RequestsOK, OwedWant, OnTheWay, InFlight
<1>8. WithheldNotTold'
  BY DEF WithheldNotTold, RequestsOK, HushedAreAway, ListedWereHere
<1> QED
  BY <1>1, <1>2, <1>3, <1>4, <1>5, <1>6, <1>7, <1>8 DEF RoomInv

LEMMA RoomStep == RoomInv /\ [RoomNext]_roomVars => RoomInv'
<1> SUFFICES ASSUME RoomInv, [RoomNext]_roomVars
             PROVE  RoomInv'
  OBVIOUS
<1>1. ASSUME NEW s \in Sends, Handle(s)
      PROVE  RoomInv'
  BY <1>1, RoomAuthenticate, RoomCheckMembership, RoomCreateMessage, RoomEmit,
     RoomUserIdsInRoom, RoomFindMessageRecipients, RoomNotify, RoomSendoff, RoomFail
     DEF Handle
<1>2. ASSUME NEW m \in Movers, Use(m)
      PROVE  RoomInv'
  <2>1. m \in Members
    BY ChatAssumption
  <2> QED
    BY <1>2, <2>1, RoomSetMuted, RoomJoin, RoomLeave, RoomSetStatus DEF Use
<1>3. CASE UNCHANGED roomVars
  BY <1>3 DEF roomVars, room, deliveries, RoomInv, RoomTypes, RequestsOK, OwedWant,
     HushedAreAway, OnTheWay, ListedWereHere, Sent, Send, Away, Reached,
     WithheldNotTold, InFlight
<1> QED
  BY <1>1, <1>2, <1>3 DEF RoomNext

\* The requests, the list of each and the two histories fit together.
THEOREM RoomInductive == RoomSpec => []RoomInv
<1>1. RoomInit => RoomInv
  BY RoomInvInit
<1>2. RoomInv /\ [RoomNext]_roomVars => RoomInv'
  BY RoomStep
<1> QED
  BY <1>1, <1>2, PTL DEF RoomSpec

\* A member who was there and wanted the message since its commit has it once
\* its send is over (send(), notifyAbsentMembers()).
THEOREM NobodyFallsBetween == RoomSpec => []Reached
<1>1. RoomInv => Reached
  BY DEF RoomInv
<1> QED
  BY RoomInductive, <1>1, PTL

\* Who was muted or suspended ever since the commit is told nothing of it
\* (findMessageRecipients()).
THEOREM MuteIsKept == RoomSpec => []WithheldNotTold
<1>1. RoomInv => WithheldNotTold
  BY DEF RoomInv
<1> QED
  BY RoomInductive, <1>1, PTL
=============================================================================
