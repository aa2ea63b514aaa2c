------------------------------ MODULE ChatFeed ------------------------------
(***************************************************************************)
(* The messages of one chat room in time: what a member has read and what  *)
(* they see when they page back through the history (modules/chat,         *)
(* common/pagination).                                                     *)
(*                                                                         *)
(* A message is stamped with now() of its transaction, its START, so two   *)
(* messages can become visible in the other order than their stamps.       *)
(* Stamps have microseconds and a cursor keeps milliseconds: a tick of     *)
(* `clock' is a microsecond and PerMs of them are a millisecond.  The feeds *)
(* of files and of notifications are read by the same cursor.              *)
(***************************************************************************)
EXTENDS Naturals, FiniteSets

CONSTANTS
  Writers,    \* transactions open at once (bound)
  Members,    \* the people of the room
  Readers,    \* the members who mark and page (bound)
  Messages,   \* ids of chat_messages rows, ordered as UUIDs are (bound)
  PerMs,      \* ticks per millisecond
  MaxClock,   \* last tick (bound)
  Limit,      \* messages per page
  Nothing

VARIABLES
  clock,      \* now()
  open,       \* the messages being inserted, Nothing without a transaction
  messages,   \* chat_messages, Nothing while the id is unused
  lastRead,   \* chat_members.lastReadAt, 0 for null
  walk        \* what a reader has of the history, Nothing before the first page

feedVars == <<clock, open, messages, lastRead, walk>>

Message == [sender : Members, at : 1..MaxClock]
Cursor == [at : 0..MaxClock, id : Messages]
Walk == [due : SUBSET Messages, seen : SUBSET Messages, given : Nat,
         cursor : Cursor \cup {Nothing}, more : BOOLEAN]

ASSUME FeedAssumption ==
  /\ Messages \subseteq Nat /\ IsFiniteSet(Messages)
  /\ PerMs \in Nat \ {0} /\ MaxClock \in Nat \ {0} /\ Limit \in Nat \ {0}
  /\ Readers \subseteq Members
  /\ Nothing \notin Message \cup Cursor \cup Walk

----------------------------------------------------------------------------
Sent == {i \in Messages : messages[i] # Nothing}

\* What unreadCount counts: lines of others strictly after the read marker.
Unread(m) == {i \in Sent : /\ messages[i].sender # m
                           /\ messages[i].at > lastRead[m]}

----------------------------------------------------------------------------
(* createMessageForMember(): a transaction.                                *)

BeginMessage(s, m) ==
  /\ open[s] = Nothing
  /\ open' = [open EXCEPT ![s] = [sender |-> m, at |-> clock]]
  /\ UNCHANGED <<clock, messages, lastRead, walk>>

CreateMessage(s, i) ==
  /\ open[s] # Nothing /\ messages[i] = Nothing
  /\ messages' = [messages EXCEPT ![i] = open[s]]
  /\ open' = [open EXCEPT ![s] = Nothing]
  /\ UNCHANGED <<clock, lastRead, walk>>

Rollback(s) ==
  /\ open[s] # Nothing
  /\ open' = [open EXCEPT ![s] = Nothing]
  /\ UNCHANGED <<clock, messages, lastRead, walk>>

Tick ==
  /\ clock < MaxClock /\ clock' = clock + 1
  /\ UNCHANGED <<open, messages, lastRead, walk>>

----------------------------------------------------------------------------
(* markReadThroughMessage(): the marker is computed in the UPDATE.         *)

\* Variant: the marker is set to the message that was named.
SetMark(old, at) == at

Greatest(old, at) == IF old >= at THEN old ELSE at

MarkRead(m, i) ==
  /\ i \in Sent
  /\ lastRead' = [lastRead EXCEPT ![m] = Greatest(@, messages[i].at)]
  /\ UNCHANGED <<clock, open, messages, walk>>

----------------------------------------------------------------------------
(* findMessages(): newest first, from a cursor on (createdAt, id).         *)

Newer(i, j) ==
  \/ messages[i].at > messages[j].at
  \/ messages[i].at = messages[j].at /\ i > j

\* A Date has no microseconds.
ToMs(at) == at - (at % PerMs)

EncodeCursor(i) == [at |-> ToMs(messages[i].at), id |-> i]

\* Variant: the id of the cursor is not asked for.
AtOrBefore(i, cursor) == messages[i].at <= cursor.at

After(i, cursor) ==
  \/ messages[i].at < cursor.at
  \/ messages[i].at = cursor.at /\ i < cursor.id

Newest(set, n) == {i \in set : Cardinality({j \in set : Newer(j, i)}) < n}

FindMessages(cursor, n) ==
  Newest({i \in Sent : cursor = Nothing \/ After(i, cursor)}, n)

\* Variant: one row too few is asked for, and there never is more.
FetchPage(cursor) == FindMessages(cursor, Limit)

Fetch(cursor) == FindMessages(cursor, Limit + 1)

FirstPage == [due |-> Sent, seen |-> {}, given |-> 0, cursor |-> Nothing, more |-> TRUE]

FindPage(m) ==
  LET so == IF walk[m] = Nothing THEN FirstPage ELSE walk[m]
      rows == Fetch(so.cursor)
      page == Newest(rows, Limit)
      more == Cardinality(rows) > Limit
      last == CHOOSE i \in page : \A j \in page : i = j \/ Newer(j, i)
  IN  /\ so.more
      /\ walk' = [walk EXCEPT ![m] =
           [due |-> so.due, seen |-> so.seen \cup page, more |-> more,
            given |-> so.given + Cardinality(page),
            cursor |-> IF more THEN EncodeCursor(last) ELSE Nothing]]
      /\ UNCHANGED <<clock, open, messages, lastRead>>

----------------------------------------------------------------------------
FeedInit ==
  /\ clock = 1
  /\ open = [s \in Writers |-> Nothing]
  /\ messages = [i \in Messages |-> Nothing]
  /\ lastRead = [m \in Members |-> 0]
  /\ walk = [m \in Readers |-> Nothing]

FeedNext ==
  \/ \E s \in Writers : \/ \E m \in Members : BeginMessage(s, m)
                      \/ \E i \in Messages : CreateMessage(s, i)
                      \/ Rollback(s)
  \/ \E m \in Readers : FindPage(m) \/ \E i \in Messages : MarkRead(m, i)
  \/ Tick

FeedSpec == FeedInit /\ [][FeedNext]_feedVars

----------------------------------------------------------------------------
(* What must hold.                                                         *)

\* The tables and what a reader holds are what they are meant to be.
FeedTypeOK ==
  /\ clock \in 1..MaxClock
  /\ open \in [Writers -> Message \cup {Nothing}]
  /\ messages \in [Messages -> Message \cup {Nothing}]
  /\ lastRead \in [Members -> 0..MaxClock]
  /\ walk \in [Readers -> Walk \cup {Nothing}]

\* "A delayed request for an older message cannot make later messages unread
\* again": what a member has read stays read (markReadThroughMessage()).
ReadStaysRead ==
  [][\A m \in Members : Unread(m)' \cap Sent \subseteq Unread(m)]_feedVars

\* A reader who follows the cursors to the end has every message there was at
\* the first page, but for those that share the millisecond of one they have
\* (findMessages(), encodeKeysetCursor()).
WalkMissesOnlyTies ==
  \A m \in Readers :
    (walk[m] # Nothing /\ ~walk[m].more) =>
      \A i \in walk[m].due \ walk[m].seen :
        \E j \in walk[m].seen :
          messages[i].at \div PerMs = messages[j].at \div PerMs

\* No message is given twice, however many become visible between two pages.
PagesAreNew ==
  \A m \in Readers : walk[m] # Nothing => walk[m].given = Cardinality(walk[m].seen)

\* "Ties are ordered by UUID so pagination remains stable": all of them.  A page
\* that ends inside a millisecond loses the rest of it.
WalkSeesAll ==
  \A m \in Readers :
    (walk[m] # Nothing /\ ~walk[m].more) => walk[m].due \subseteq walk[m].seen

\* Reading marks what there is: a message that becomes visible later with an
\* earlier stamp is born read.
BornUnread ==
  [][\A i \in Messages, m \in Members :
       (messages[i] = Nothing /\ messages'[i] # Nothing /\ messages'[i].sender # m)
          => i \in Unread(m)']_feedVars
=============================================================================
