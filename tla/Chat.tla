-------------------------------- MODULE Chat --------------------------------
(***************************************************************************)
(* The live side of one chat room: modules/chat's gateway and notifier,    *)
(* over the tables of members and messages.  A message is stored, sent to  *)
(* the sockets in the room, and told to the members who have none there;   *)
(* each of these waits for an answer, and members mute, come, go and are   *)
(* suspended in between.                                                   *)
(*                                                                         *)
(* Stamps, read markers and the reading of pages are ChatFeed's; texts,    *)
(* names and the room list are left out; a person has one socket.          *)
(***************************************************************************)
EXTENDS Naturals, FiniteSets

CONSTANTS
  Sends,      \* the sends being served at once (bound)
  Members,    \* the people of the room
  Movers,     \* the members who mute, come and go (bound)
  Messages,   \* ids of chat_messages rows (bound)
  NoOne       \* nobody, and nothing carried

VARIABLES
  active,     \* the members whose account is ACTIVE
  messages,   \* chat_messages: the sender, NoOne while the id is unused
  muted,      \* the members whose chat_members.mutedAt is set
  joined,     \* the members with a socket in the room
  pc, req,    \* where a request awaits, and what it carries
  got,        \* history: messages that reached a socket, <<member, message>>
  told,       \* history: messages that became a notification
  owed,       \* history: not muted, suspended or joining since the commit
  hushed      \* history: muted or not active ever since the commit

room == <<active, messages, muted, joined>>
deliveries == <<got, told, owed, hushed>>
roomVars == <<room, pc, req, deliveries>>

Send == [sender : Members, id : Messages \cup {NoOne},
         present : SUBSET Members, left : SUBSET Members]

ASSUME ChatAssumption ==
  /\ Movers \subseteq Members
  /\ NoOne \notin Members \cup Send \cup Messages

----------------------------------------------------------------------------
Sent == {i \in Messages : messages[i] # NoOne}

\* Whoever is not to be told of a message now.
Away == muted \cup (Members \ active)

Go(s, step, carried) ==
  /\ pc' = [pc EXCEPT ![s] = step]
  /\ req' = [req EXCEPT ![s] = carried]

Answer(s) == Go(s, "idle", NoOne)

----------------------------------------------------------------------------
(* send(): authenticate, store, broadcast, look who is present, tell the   *)
(* others.                                                                 *)

\* The session may be a cached copy, so its account may be suspended since.
Authenticate(s, m) ==
  /\ pc[s] = "idle"
  /\ Go(s, "store", [sender |-> m, id |-> NoOne,
                     present |-> {}, left |-> {}])
  /\ UNCHANGED <<room, deliveries>>

\* BEGIN and the membership check.
CheckMembership(s) ==
  /\ pc[s] = "store"
  /\ IF req[s].sender \in active
       THEN Go(s, "insert", req[s])
       ELSE Answer(s)
  /\ UNCHANGED <<room, deliveries>>

\* createMessageForMember(): the row, seen by all from its commit on.
CreateMessage(s, i) ==
  LET others == Members \ {req[s].sender}
  IN  /\ pc[s] = "insert" /\ messages[i] = NoOne
      /\ messages' = [messages EXCEPT ![i] = req[s].sender]
      /\ owed' = owed \cup ((others \ Away) \X {i})
      /\ hushed' = hushed \cup ((others \cap Away) \X {i})
      /\ Go(s, "emit", [req[s] EXCEPT !.id = i])
      /\ UNCHANGED <<active, muted, joined, got, told>>

Emit(s) ==
  /\ pc[s] = "emit"
  /\ got' = got \cup (joined \X {req[s].id})
  /\ Go(s, "sockets", req[s])
  /\ UNCHANGED <<room, told, owed, hushed>>

\* Variant: the sockets of the whole namespace, not of the room.
InNamespace == Members

InRoom == joined

\* userIdsInRoom(): nobody when the question fails.
UserIdsInRoom(s) ==
  /\ pc[s] = "sockets"
  /\ \E present \in {InRoom, {}} :
       Go(s, "recipients", [req[s] EXCEPT !.present = present])
  /\ UNCHANGED <<room, deliveries>>

\* Variant: the mute is a matter of the room list only.
RecipientsLoud(sender) == active \ {sender}

Recipients(sender) == (active \ {sender}) \ muted

FindMessageRecipients(s) ==
  /\ pc[s] = "recipients"
  /\ Go(s, "tell", [req[s] EXCEPT
                      !.left = Recipients(req[s].sender) \ req[s].present])
  /\ UNCHANGED <<room, deliveries>>

\* notify(), one call per recipient at once; the last one ends the request.
Notify(s, m) ==
  /\ pc[s] = "tell" /\ m \in req[s].left
  /\ told' = told \cup {<<m, req[s].id>>}
  /\ Go(s, "tell", [req[s] EXCEPT !.left = @ \ {m}])
  /\ UNCHANGED <<room, got, owed, hushed>>

Sendoff(s) ==
  /\ pc[s] = "tell" /\ req[s].left = {}
  /\ Answer(s)
  /\ UNCHANGED <<room, deliveries>>

\* A crash, or an error: nothing is stored, or the stored message is not told.
Fail(s) ==
  /\ pc[s] # "idle"
  /\ owed' = {pair \in owed : pair[2] # req[s].id}
  /\ Answer(s)
  /\ UNCHANGED <<room, got, told, hushed>>

----------------------------------------------------------------------------
(* The members: mutes, sockets, and their accounts.                        *)

Without(pairs, m) == {pair \in pairs : pair[1] # m}

SetMuted(m, mute) ==
  /\ m \in active
  /\ muted' = IF mute THEN muted \cup {m} ELSE muted \ {m}
  /\ owed' = IF mute THEN Without(owed, m) ELSE owed
  /\ hushed' = IF mute THEN hushed ELSE Without(hushed, m)
  /\ UNCHANGED <<active, messages, joined, pc, req, got, told>>

Join(m) ==
  /\ m \in active \ joined
  /\ joined' = joined \cup {m}
  /\ owed' = Without(owed, m)
  /\ UNCHANGED <<active, messages, muted, pc, req, got, told, hushed>>

\* leave(), and a connection that ends: the account is not asked for then.
Leave(m) ==
  /\ m \in joined
  /\ joined' = joined \ {m}
  /\ UNCHANGED <<active, messages, muted, pc, req, deliveries>>

\* The Admin's control of accounts; the sockets stay where they are.
SetStatus(m) ==
  /\ active' = IF m \in active THEN active \ {m} ELSE active \cup {m}
  /\ owed' = Without(owed, m)
  /\ hushed' = IF m \in active \cup muted THEN hushed ELSE Without(hushed, m)
  /\ UNCHANGED <<messages, muted, joined, pc, req, got, told>>

----------------------------------------------------------------------------
RoomInit ==
  /\ active = Members
  /\ messages = [i \in Messages |-> NoOne]
  /\ muted = {} /\ joined = {}
  /\ pc = [s \in Sends |-> "idle"]
  /\ req = [s \in Sends |-> NoOne]
  /\ got = {} /\ told = {} /\ owed = {} /\ hushed = {}

Handle(s) ==
  \/ \E m \in Members : Authenticate(s, m) \/ Notify(s, m)
  \/ CheckMembership(s)
  \/ \E i \in Messages : CreateMessage(s, i)
  \/ Emit(s)
  \/ UserIdsInRoom(s)
  \/ FindMessageRecipients(s)
  \/ Sendoff(s)
  \/ Fail(s)

Use(m) ==
  \/ \E mute \in BOOLEAN : SetMuted(m, mute)
  \/ Join(m) \/ Leave(m) \/ SetStatus(m)

RoomNext ==
  \/ \E s \in Sends : Handle(s)
  \/ \E m \in Movers : Use(m)

RoomSpec == RoomInit /\ [][RoomNext]_roomVars

----------------------------------------------------------------------------
(* What must hold.                                                         *)

\* The tables, the requests and the histories are what they are meant to be.
RoomTypeOK ==
  /\ active \subseteq Members /\ muted \subseteq Members /\ joined \subseteq Members
  /\ messages \in [Messages -> Members \cup {NoOne}]
  /\ got \cup told \cup owed \cup hushed \subseteq Members \X Sent
  /\ \A s \in Sends :
       \/ pc[s] = "idle" /\ req[s] = NoOne
       \/ /\ pc[s] \in {"store", "insert", "emit", "sockets", "recipients", "tell"}
          /\ req[s] \in Send
          /\ pc[s] \notin {"store", "insert"} => req[s].id \in Sent

InFlight(i) == \E s \in Sends : pc[s] # "idle" /\ req[s].id = i

\* No message falls between the broadcast and the notification: a member who
\* stayed active, unmuted and did not come into the room since the commit has it
\* on a socket or as a notification once its send is over, whenever they left
\* the room (send(), notifyAbsentMembers()).
Reached ==
  \A pair \in owed : InFlight(pair[2]) \/ pair \in got \cup told

\* "While a member has a room muted, a new message in it creates no NEW_MESSAGE
\* notification", and none goes to a suspended account: not to whoever was muted
\* or suspended from the commit to this day, one after the other included
\* (findMessageRecipients()).
WithheldNotTold == told \cap hushed = {}

\* Members in the room "got the message live and need no push": whoever comes in
\* between the broadcast and the look at the sockets got neither.
PresentGotIt ==
  \A s \in Sends :
    pc[s] \in {"recipients", "tell"} =>
      \A m \in req[s].present : <<m, req[s].id>> \in got
=============================================================================
