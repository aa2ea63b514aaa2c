----------------------------- MODULE ReadsProofs -----------------------------
(***************************************************************************)
(* What a reader of the API can rely on: whom the guard answers, the read  *)
(* marks and the history of a chat room, the pages of a list, and what is  *)
(* read of an Advisor's offer, schedules and texts, while it is edited.    *)
(* For any number of people, messages, rows, ticks and requests.           *)
(***************************************************************************)
EXTENDS ChatFeed, Listings, Access, Offer, FiniteSetTheorems, WellFoundedInduction, TLAPS

----------------------------------------------------------------------------
(* The guard.  What a cookie says was true when it was made, as many ticks *)
(* ago as it is old; what the tables say is true now.                      *)

CookieIsDated ==
  CookieIsFresh(cookie) /\ cookie.role # Nobody => cookie.role \in recent[cookie.age]

HoldsTheirRole == session => person.role \in recent[0]

GuardInv ==
  /\ person \in [role : Roles, verified : BOOLEAN, admin : BOOLEAN]
  /\ session \in BOOLEAN
  /\ cookie \in [role : Roles \cup {Nobody}, age : 0..MaxAge]
  /\ recent \in [0..(MaxAge - 1) -> SUBSET Roles]
  /\ CookieIsDated
  /\ HoldsTheirRole

LEMMA ApplicantRoles == "advisee" \in Roles /\ "advisor" \in Roles /\ "admin" \in Roles
BY DEF Roles, AppRoles

LEMMA GuardInit == AccessInit => GuardInv
<1> SUFFICES ASSUME AccessInit PROVE GuardInv
  OBVIOUS
<1>1. MaxAge \in Nat /\ ~(MaxAge < MaxAge) /\ MaxAge \in 0..MaxAge
  BY AccessAssumption
<1>2. person \in [role : Roles, verified : BOOLEAN, admin : BOOLEAN]
  <2>1. CASE person = Applicant
    BY <2>1, ApplicantRoles DEF Applicant
  <2>2. CASE person = SeededAdmin
    BY <2>2, ApplicantRoles DEF SeededAdmin
  <2> QED
    BY <2>1, <2>2 DEF AccessInit
<1>3. cookie \in [role : Roles \cup {Nobody}, age : 0..MaxAge] /\ ~CookieIsFresh(cookie)
  BY <1>1 DEF AccessInit, NoCookie, CookieIsFresh
<1>4. ~session /\ session \in BOOLEAN
  BY DEF AccessInit
<1>5. recent \in [0..(MaxAge - 1) -> SUBSET Roles]
  BY DEF AccessInit
<1> QED
  BY <1>2, <1>3, <1>4, <1>5 DEF GuardInv, CookieIsDated, HoldsTheirRole

\* A new role is noted for as long as a session could serve it.
LEMMA RoleChange ==
  ASSUME GuardInv, NEW role \in Roles, recent' = Held(role), person'.role = role,
         person' \in [role : Roles, verified : BOOLEAN, admin : BOOLEAN],
         UNCHANGED <<session, cookie>>
  PROVE  GuardInv'
<1>1. 0 \in 0..(MaxAge - 1)
  BY AccessAssumption
<1>2. /\ recent' \in [0..(MaxAge - 1) -> SUBSET Roles]
      /\ \A d \in 0..(MaxAge - 1) : recent[d] \subseteq recent'[d]
      /\ session => role \in recent'[0]
  BY <1>1 DEF GuardInv, Held
<1>3. CookieIsDated'
  BY <1>2, AccessAssumption DEF GuardInv, CookieIsDated, CookieIsFresh
<1> QED
  BY <1>2, <1>3 DEF GuardInv, HoldsTheirRole

LEMMA GuardStep == GuardInv /\ [AccessNext]_accessVars => GuardInv'
<1> SUFFICES ASSUME GuardInv, [AccessNext]_accessVars PROVE GuardInv'
  OBVIOUS
<1>0. 0 \in 0..(MaxAge - 1) /\ 0 \in 0..MaxAge /\ MaxAge \in Nat
  BY AccessAssumption
<1>1. CASE UNCHANGED <<person, session, cookie, recent>>
  BY <1>1 DEF GuardInv, CookieIsDated, HoldsTheirRole, CookieIsFresh
<1>2. ASSUME NEW role \in SetRoles, SetRole(role) PROVE GuardInv'
  <2>1. role \in Roles
    BY AccessAssumption
  <2>2. person'.role = role /\ person' \in [role : Roles, verified : BOOLEAN, admin : BOOLEAN]
    BY <1>2, <2>1 DEF SetRole, GuardInv
  <2> QED
    BY <1>2, <2>1, <2>2, RoleChange DEF SetRole
<1>3. CASE Approve
  <2> DEFINE role == IF person.role = "admin" THEN "admin" ELSE "advisor"
  <2>1. role \in Roles
    BY ApplicantRoles
  <2>2. person'.role = role /\ person' \in [role : Roles, verified : BOOLEAN, admin : BOOLEAN]
    BY <1>3, <2>1 DEF Approve, GuardInv
  <2>3. recent' = Held(role) /\ UNCHANGED <<session, cookie>>
    BY <1>3 DEF Approve
  <2> QED
    BY <2>1, <2>2, <2>3, RoleChange
<1>4. CASE SignIn \/ Refresh
  <2>1. session' /\ session' \in BOOLEAN /\ person' = person /\ person.role \in Roles
    BY <1>4 DEF SignIn, Refresh, GuardInv
  <2>2. cookie' = [role |-> person.role, age |-> 0]
    BY <1>4 DEF SignIn, Refresh
  <2>3. person.role \in recent'[0] /\ recent' \in [0..(MaxAge - 1) -> SUBSET Roles]
    <3>1. CASE Refresh
      BY <3>1 DEF Refresh, GuardInv, HoldsTheirRole
    <3>2. CASE SignIn
      BY <1>0, <2>1, <3>2 DEF SignIn, GuardInv
    <3> QED
      BY <1>4, <3>1, <3>2
  <2> QED
    BY <1>0, <2>1, <2>2, <2>3 DEF GuardInv, CookieIsDated, HoldsTheirRole
<1>5. CASE Revoke
  BY <1>5 DEF Revoke, GuardInv, CookieIsDated, CookieIsFresh, HoldsTheirRole
<1>6. CASE Pass
  <2>1. UNCHANGED <<person, session>> /\ session \in BOOLEAN /\ person.role \in Roles
    BY <1>6 DEF Pass, GuardInv
  <2>2. /\ recent' \in [0..(MaxAge - 1) -> SUBSET Roles]
        /\ session => person.role \in recent'[0]
        /\ \A d \in 0..(MaxAge - 1) : d > 0 => recent'[d] = recent[d - 1]
    <3>1. \A d \in 0..(MaxAge - 1) : d > 0 => d - 1 \in 0..(MaxAge - 1)
      BY <1>0
    <3> QED
      BY <1>0, <1>6, <2>1, <3>1 DEF Pass, GuardInv
  <2>3. /\ cookie' \in [role : Roles \cup {Nobody}, age : 0..MaxAge]
        /\ cookie'.role = cookie.role
        /\ cookie.age < MaxAge => cookie'.age = cookie.age + 1
        /\ ~(cookie.age < MaxAge) => cookie'.age = cookie.age
    BY <1>0, <1>6 DEF Pass, GuardInv
  <2>4. CookieIsDated'
    <3> SUFFICES ASSUME cookie'.age < MaxAge, cookie'.role # Nobody
                 PROVE  cookie'.role \in recent'[cookie'.age]
      BY DEF CookieIsDated, CookieIsFresh
    <3>1. cookie.age \in 0..MaxAge
      BY DEF GuardInv
    <3>2. cookie.age < MaxAge /\ cookie'.age = cookie.age + 1
      BY <1>0, <2>3, <3>1
    <3>3. cookie.role \in recent[cookie.age]
      BY <2>3, <3>2 DEF GuardInv, CookieIsDated, CookieIsFresh
    <3> QED
      BY <1>0, <2>2, <2>3, <3>1, <3>2, <3>3
  <2> QED
    BY <2>1, <2>2, <2>3, <2>4 DEF GuardInv, HoldsTheirRole
<1> QED
  BY <1>1, <1>2, <1>3, <1>4, <1>5, <1>6
     DEF AccessNext, accessVars, Ask, Rule

\* A request that is answered as somebody is answered as it was, or would have
\* been, under a role the person was signed in under in the last MaxAge ticks.
THEOREM AnswersAreRecent == AccessSpec => []AnsweredByRecentRole
<1>1. AccessSpec => []GuardInv
  BY GuardInit, GuardStep, PTL DEF AccessSpec
<1>2. GuardInv => AnsweredByRecentRole
  <2> SUFFICES ASSUME GuardInv, Caller # Nobody,
                      NEW route \in AllRoutes, route.need # Public, route.does # "slots"
               PROVE  \E d \in DOMAIN recent : \E role \in recent[d] :
                        May(role, route) <=> Outcome(route) = "served"
    BY DEF AnsweredByRecentRole
  <2>1. May(Caller, route) <=> Outcome(route) = "served"
    BY DEF Outcome
  <2>2. \E d \in DOMAIN recent : Caller \in recent[d]
    <3>1. CASE CookieIsFresh(cookie)
      <4>1. cookie.age \in 0..(MaxAge - 1)
        BY <3>1, AccessAssumption DEF GuardInv, CookieIsFresh
      <4>2. Caller = cookie.role /\ cookie.role \in recent[cookie.age]
        BY <3>1 DEF GuardInv, CookieIsDated, Caller
      <4> QED
        BY <4>1, <4>2 DEF GuardInv
    <3>2. CASE ~CookieIsFresh(cookie)
      <4>1. session /\ Caller = person.role
        BY <3>2 DEF Caller
      <4>2. person.role \in recent[0] /\ 0 \in DOMAIN recent
        BY <4>1, AccessAssumption DEF GuardInv, HoldsTheirRole
      <4> QED
        BY <4>1, <4>2
    <3> QED
      BY <3>1, <3>2
  <2> QED
    BY <2>1, <2>2
<1> QED
  BY <1>1, <1>2, PTL

----------------------------------------------------------------------------
(* A page of the history.                                                  *)

\* The millisecond of a stamp is not after it, and a stamp between them is in
\* the same one.
LEMMA Milliseconds ==
  ASSUME NEW a \in Nat, NEW b \in Nat
  PROVE  /\ ToMs(b) \in Nat /\ ToMs(b) <= b
         /\ ToMs(b) <= a /\ a <= b => a \div PerMs = b \div PerMs
BY FeedAssumption DEF ToMs

LEMMA MessagesAreDated ==
  ASSUME FeedTypeOK, NEW i \in Sent
  PROVE  messages[i] \in Message /\ messages[i].at \in Nat /\ i \in Nat
BY FeedAssumption DEF FeedTypeOK, Sent, Message

LEMMA NewerIsAnOrder ==
  ASSUME FeedTypeOK, NEW i \in Sent, NEW j \in Sent, NEW k \in Sent
  PROVE  /\ ~Newer(i, i)
         /\ i = j \/ Newer(i, j) \/ Newer(j, i)
         /\ Newer(i, j) /\ Newer(j, k) => Newer(i, k)
BY MessagesAreDated DEF Newer

LEMMA SentIsFinite == ASSUME NEW S \in SUBSET Sent PROVE IsFiniteSet(S)
<1>1. S \in SUBSET Messages
  BY DEF Sent
<1> QED
  BY <1>1, FeedAssumption, FS_Subset

\* Of some messages one is the newest, and one the oldest.
LEMMA HasNewest ==
  ASSUME FeedTypeOK, NEW S \in SUBSET Sent, S # {}
  PROVE  \E i \in S : \A j \in S : ~Newer(j, i)
<1> DEFINE ahead(i) == {j \in S : Newer(j, i)}
           aheads == {ahead(i) : i \in S}
<1>1. IsFiniteSet(S)
  BY SentIsFinite
<1>2. aheads \subseteq FiniteSubsetsOf(S) /\ aheads # {}
  <2>1. \A i \in S : ahead(i) \in SUBSET S
    OBVIOUS
  <2>2. \A set \in aheads : set \in SUBSET S
    BY <2>1
  <2>3. aheads # {}
    OBVIOUS
  <2> HIDE DEF aheads
  <2> QED
    BY <1>1, <2>2, <2>3, FS_FiniteSubsetsOfFinite
<1>3. PICK least \in aheads : \A other \in aheads : <<other, least>> \notin StrictSubsetOrdering(S)
  <2> HIDE DEF aheads
  <2> QED
    BY <1>2, FS_StrictSubsetOrderingWellFounded, WFMin
<1>4. PICK i \in S : least = ahead(i)
  OBVIOUS
<1>5. ASSUME NEW j \in S, Newer(j, i) PROVE FALSE
  <2>1. ahead(j) \subseteq ahead(i)
    BY <1>5, NewerIsAnOrder
  <2>2. j \in ahead(i) /\ j \notin ahead(j)
    BY <1>5, NewerIsAnOrder
  <2>3. <<ahead(j), ahead(i)>> \in StrictSubsetOrdering(S)
    BY <2>1, <2>2 DEF StrictSubsetOrdering
  <2> QED
    BY <1>3, <1>4, <2>3
<1> QED
  BY <1>5

LEMMA HasOldest ==
  ASSUME FeedTypeOK, NEW S \in SUBSET Sent, S # {}
  PROVE  \E i \in S : \A j \in S : i = j \/ Newer(j, i)
<1> DEFINE behind(i) == {j \in S : Newer(i, j)}
           behinds == {behind(i) : i \in S}
<1>1. IsFiniteSet(S)
  BY SentIsFinite
<1>2. behinds \subseteq FiniteSubsetsOf(S) /\ behinds # {}
  <2>1. \A i \in S : behind(i) \in SUBSET S
    OBVIOUS
  <2>2. \A set \in behinds : set \in SUBSET S
    BY <2>1
  <2>3. behinds # {}
    OBVIOUS
  <2> HIDE DEF behinds
  <2> QED
    BY <1>1, <2>2, <2>3, FS_FiniteSubsetsOfFinite
<1>3. PICK least \in behinds : \A other \in behinds : <<other, least>> \notin StrictSubsetOrdering(S)
  <2> HIDE DEF behinds
  <2> QED
    BY <1>2, FS_StrictSubsetOrderingWellFounded, WFMin
<1>4. PICK i \in S : least = behind(i)
  OBVIOUS
<1>5. ASSUME NEW j \in S, Newer(i, j) PROVE FALSE
  <2>1. behind(j) \subseteq behind(i)
    BY <1>5, NewerIsAnOrder
  <2>2. j \in behind(i) /\ j \notin behind(j)
    BY <1>5, NewerIsAnOrder
  <2>3. <<behind(j), behind(i)>> \in StrictSubsetOrdering(S)
    BY <2>1, <2>2 DEF StrictSubsetOrdering
  <2> QED
    BY <1>3, <1>4, <2>3
<1> QED
  BY <1>5, NewerIsAnOrder

\* The n newest are a beginning of the history: fewer than n are all there are.
LEMMA NewestAreFirst ==
  ASSUME FeedTypeOK, NEW S \in SUBSET Sent, NEW n \in Nat \ {0}
  PROVE  /\ Newest(S, n) \in SUBSET S
         /\ \A i \in Newest(S, n), j \in S : Newer(j, i) => j \in Newest(S, n)
         /\ S # {} => Newest(S, n) # {}
         /\ Cardinality(Newest(S, n)) < n => Newest(S, n) = S
<1> DEFINE ahead(i) == {j \in S : Newer(j, i)}
           first == Newest(S, n)
<1>0. first \in SUBSET S /\ \A i \in S : i \in first <=> Cardinality(ahead(i)) < n
  BY DEF Newest
<1>1. \A i \in S : IsFiniteSet(ahead(i)) /\ Cardinality(ahead(i)) \in Nat
  <2> SUFFICES ASSUME NEW i \in S PROVE IsFiniteSet(ahead(i)) /\ Cardinality(ahead(i)) \in Nat
    OBVIOUS
  <2>1. IsFiniteSet(ahead(i))
    BY SentIsFinite
  <2> QED
    BY <2>1, FS_CardinalityType
<1>2. ASSUME NEW i \in first, NEW j \in S, Newer(j, i) PROVE j \in first
  <2>1. ahead(j) \in SUBSET ahead(i)
    BY <1>0, <1>2, NewerIsAnOrder
  <2>2. Cardinality(ahead(j)) <= Cardinality(ahead(i))
    BY <1>0, <1>1, <2>1, FS_Subset
  <2> HIDE DEF ahead
  <2> QED
    BY <1>0, <1>1, <1>2, <2>2
<1>3. ASSUME S # {} PROVE first # {}
  <2>1. PICK i \in S : \A j \in S : ~Newer(j, i)
    BY <1>3, HasNewest
  <2>2. Cardinality(ahead(i)) = 0
    <3>1. ahead(i) = {}
      BY <2>1
    <3> QED
      BY <3>1, FS_EmptySet
  <2> QED
    BY <1>0, <2>2
<1>4. ASSUME Cardinality(first) < n, S \ first # {} PROVE FALSE
  <2>1. PICK i \in S \ first : \A j \in S \ first : ~Newer(j, i)
    BY <1>4, HasNewest
  <2>2. ahead(i) \in SUBSET first
    BY <2>1
  <2>3. IsFiniteSet(first)
    BY <1>0, SentIsFinite
  <2>4. Cardinality(ahead(i)) <= Cardinality(first) /\ Cardinality(first) \in Nat
    BY <2>2, <2>3, FS_Subset, FS_CardinalityType
  <2> HIDE DEF ahead
  <2> QED
    BY <1>0, <1>1, <1>4, <2>1, <2>4
<1> QED
  BY <1>0, <1>2, <1>3, <1>4

\* A page is the beginning of what is left, and all of it when there is no more.
LEMMA PageIsFirst ==
  ASSUME FeedTypeOK, NEW S \in SUBSET Sent, NEW fetched, NEW page,
         fetched = Newest(S, Limit + 1), page = Newest(fetched, Limit)
  PROVE  /\ page \in SUBSET S
         /\ \A i \in page, j \in S : Newer(j, i) => j \in page
         /\ Cardinality(fetched) > Limit => page # {}
         /\ ~(Cardinality(fetched) > Limit) => page = S
<1>0. Limit \in Nat \ {0} /\ Limit + 1 \in Nat \ {0}
  BY FeedAssumption
<1>1. /\ fetched \in SUBSET S
      /\ \A i \in fetched, j \in S : Newer(j, i) => j \in fetched
      /\ Cardinality(fetched) < Limit + 1 => fetched = S
  BY <1>0, NewestAreFirst
<1>2. fetched \in SUBSET Sent /\ IsFiniteSet(fetched) /\ Cardinality(fetched) \in Nat
  BY <1>1, SentIsFinite, FS_CardinalityType
<1>3. /\ page \in SUBSET fetched
      /\ \A i \in page, j \in fetched : Newer(j, i) => j \in page
      /\ fetched # {} => page # {}
  BY <1>0, <1>2, NewestAreFirst
<1>4. ASSUME Cardinality(fetched) > Limit PROVE page # {}
  <2>1. fetched # {}
    BY <1>0, <1>4, FS_EmptySet
  <2> QED
    BY <1>3, <2>1
<1>5. ASSUME ~(Cardinality(fetched) > Limit) PROVE page = S
  <2>1. fetched = S
    BY <1>0, <1>1, <1>2, <1>5
  <2>2. ASSUME NEW i \in fetched PROVE i \in page
    <3> DEFINE ahead == {j \in fetched : Newer(j, i)}
    <3>1. ahead \in SUBSET (fetched \ {i})
      BY <1>2, NewerIsAnOrder
    <3>2. IsFiniteSet(fetched \ {i}) /\ Cardinality(fetched \ {i}) = Cardinality(fetched) - 1
      BY <1>2, FS_RemoveElement
    <3>3. IsFiniteSet(ahead) /\ Cardinality(ahead) <= Cardinality(fetched) - 1
      BY <3>1, <3>2, FS_Subset
    <3>4. Cardinality(ahead) < Limit
      <4>1. Cardinality(ahead) \in Nat
        BY <3>3, FS_CardinalityType
      <4> HIDE DEF ahead
      <4> QED
        BY <1>0, <1>2, <1>5, <3>3, <4>1
    <3> QED
      BY <3>4 DEF Newest
  <2> QED
    BY <1>3, <2>1, <2>2
<1> QED
  BY <1>1, <1>3, <1>4, <1>5

----------------------------------------------------------------------------
(* The walk back through the history.  Beside the count, a proof needs to  *)
(* know where the cursor stands: behind all that was seen, and ahead of    *)
(* all that is still due but for the rest of a millisecond.                *)

Twin(i, seen) == \E j \in seen : messages[i].at \div PerMs = messages[j].at \div PerMs

WalkOK(m) ==
  LET w == walk[m]
  IN  w # Nothing =>
        /\ w.due \subseteq Sent /\ w.seen \subseteq Sent
        /\ w.given = Cardinality(w.seen)
        /\ w.more => /\ w.cursor \in Cursor
                     /\ \A j \in w.seen : ~After(j, w.cursor)
        /\ \A i \in w.due \ w.seen : (w.more /\ After(i, w.cursor)) \/ Twin(i, w.seen)

FeedInv == FeedTypeOK /\ \A m \in Readers : WalkOK(m)

LEMMA FeedBegins == FeedInit => FeedInv
BY FeedAssumption DEF FeedInit, FeedInv, FeedTypeOK, WalkOK

\* Messages only come: what is in the table stays as it is.
LEMMA FeedGrows ==
  ASSUME FeedTypeOK, [FeedNext]_feedVars
  PROVE  Sent \subseteq Sent' /\ \A i \in Sent : messages'[i] = messages[i]
<1>1. ASSUME NEW s \in Writers, NEW i \in Messages, CreateMessage(s, i)
      PROVE  Sent \subseteq Sent' /\ \A j \in Sent : messages'[j] = messages[j]
  BY <1>1 DEF CreateMessage, FeedTypeOK, Sent
<1>2. CASE messages' = messages
  BY <1>2 DEF Sent
<1> QED
  BY <1>1, <1>2 DEF FeedNext, feedVars, BeginMessage, Rollback, FindPage, MarkRead, Tick

\* Where the cursor of a page stands among the messages.
LEMMA CursorStands ==
  ASSUME FeedTypeOK, NEW S, S \subseteq Sent, NEW page, page \subseteq S, page # {},
         \A i \in page, j \in S : Newer(j, i) => j \in page,
         NEW last \in page, \A j \in page : last = j \/ Newer(j, last),
         NEW cursor, cursor = EncodeCursor(last)
  PROVE  /\ cursor \in Cursor
         /\ \A j \in page : ~After(j, cursor)
         /\ \A i \in S \ page : After(i, cursor) \/ Twin(i, page)
         /\ \A j \in Sent : After(j, cursor) => Newer(last, j)
<1>1. last \in page /\ \A j \in page : last = j \/ Newer(j, last)
  OBVIOUS
<1>2. /\ messages[last].at \in Nat /\ last \in Nat /\ last \in Messages
      /\ messages[last].at \in 0..MaxClock
  <2>1. last \in Sent
    BY <1>1
  <2>2. messages[last] \in Message /\ messages[last].at \in Nat /\ last \in Nat
    BY <2>1, MessagesAreDated
  <2> QED
    BY <2>1, <2>2, FeedAssumption DEF Sent, Message
<1>3. cursor = [at |-> ToMs(messages[last].at), id |-> last]
  BY DEF EncodeCursor
<1>4. ToMs(messages[last].at) \in Nat /\ ToMs(messages[last].at) <= messages[last].at
  BY <1>2, Milliseconds
<1>5. cursor \in Cursor
  <2>1. ToMs(messages[last].at) \in 0..MaxClock
    BY <1>2, <1>4, FeedAssumption
  <2> QED
    BY ONLY <1>2, <1>3, <2>1 DEF Cursor
<1>6. ASSUME NEW j \in Sent, After(j, cursor) PROVE Newer(last, j)
  <2>1. messages[j].at \in Nat /\ j \in Nat
    BY MessagesAreDated
  <2>2. \/ messages[j].at < ToMs(messages[last].at)
        \/ messages[j].at = ToMs(messages[last].at) /\ j < last
    BY ONLY <1>3, <1>6 DEF After
  <2> QED
    BY ONLY <1>2, <1>4, <2>1, <2>2 DEF Newer
<1>7. ASSUME NEW j \in page, After(j, cursor) PROVE FALSE
  <2>1. Newer(last, j) /\ j \in Sent
    BY <1>6, <1>7
  <2> QED
    BY <1>1, <2>1, NewerIsAnOrder
<1>8. ASSUME NEW i \in S \ page, ~After(i, cursor) PROVE Twin(i, page)
  <2>1. Newer(last, i)
    BY <1>1, <1>8, NewerIsAnOrder
  <2>2. messages[i].at \in Nat
    BY <1>8, MessagesAreDated
  <2>3. messages[i].at <= messages[last].at
    BY <1>2, <2>1, <2>2 DEF Newer
  <2>4. ~(messages[i].at < ToMs(messages[last].at))
    BY <1>3, <1>8 DEF After
  <2>5. messages[i].at \div PerMs = messages[last].at \div PerMs
    BY <1>2, <1>4, <2>2, <2>3, <2>4, Milliseconds
  <2> QED
    BY <1>1, <2>5 DEF Twin
<1> QED
  BY <1>1, <1>5, <1>6, <1>7, <1>8

\* The walk of who reads no page now keeps: messages only come.
LEMMA OthersWalk ==
  ASSUME FeedTypeOK, [FeedNext]_feedVars, NEW m \in Readers, WalkOK(m), walk'[m] = walk[m]
  PROVE  WalkOK(m)'
<1>1. Sent \subseteq Sent' /\ \A i \in Sent : messages'[i] = messages[i]
  BY FeedGrows
<1> DEFINE w == walk[m]
<1> SUFFICES ASSUME w # Nothing
             PROVE  /\ w.due \subseteq Sent' /\ w.seen \subseteq Sent'
                    /\ w.given = Cardinality(w.seen)
                    /\ w.more => /\ w.cursor \in Cursor
                                 /\ \A j \in w.seen : ~After(j, w.cursor)'
                    /\ \A i \in w.due \ w.seen :
                         (w.more /\ After(i, w.cursor)') \/ Twin(i, w.seen)'
  BY DEF WalkOK
<1> QED
  BY <1>1 DEF WalkOK, After, Twin

LEMMA AfterIsClosed ==
  ASSUME FeedTypeOK, NEW c \in Cursor, NEW i \in Sent, NEW j \in Sent, After(i, c), Newer(i, j)
  PROVE  After(j, c)
<1>1. /\ messages[i].at \in Nat /\ messages[j].at \in Nat /\ i \in Nat /\ j \in Nat
      /\ c.at \in Nat /\ c.id \in Nat
  <2>1. c.at \in 0..MaxClock /\ c.id \in Messages
    BY DEF Cursor
  <2>2. Messages \subseteq Nat /\ MaxClock \in Nat
    BY FeedAssumption
  <2>3. c.at \in Nat
    BY <2>1, <2>2
  <2>4. c.id \in Nat
    BY <2>1, <2>2
  <2> QED
    BY <2>3, <2>4, MessagesAreDated
<1> QED
  BY <1>1 DEF After, Newer

\* What a reader has before a page, and what is left for it to give.
LEMMA BeforePage ==
  ASSUME FeedInv, NEW m \in Readers, NEW so, so.more,
         so = IF walk[m] = Nothing THEN FirstPage ELSE walk[m],
         NEW S \in SUBSET Sent,
         \A i \in Sent : i \in S <=> so.cursor = Nothing \/ After(i, so.cursor)
  PROVE  /\ so.due \in SUBSET Sent /\ so.seen \in SUBSET Sent
         /\ so.given = Cardinality(so.seen) /\ so.given \in Nat
         /\ \A j \in so.seen : so.cursor \in Cursor /\ ~After(j, so.cursor)
         /\ S \cap so.seen = {}
         /\ \A i \in so.due \ so.seen : i \in S \/ Twin(i, so.seen)
<1>1. CASE walk[m] = Nothing
  BY <1>1, FS_EmptySet DEF FirstPage
<1>2. CASE walk[m] # Nothing
  <2>1. so = walk[m]
    BY <1>2
  <2>2. /\ so.due \subseteq Sent /\ so.seen \subseteq Sent
        /\ so.given = Cardinality(so.seen)
        /\ so.cursor \in Cursor /\ \A j \in so.seen : ~After(j, so.cursor)
        /\ \A i \in so.due \ so.seen : After(i, so.cursor) \/ Twin(i, so.seen)
    BY <1>2, <2>1 DEF FeedInv, WalkOK
  <2>3. so.cursor # Nothing
    BY <2>2, FeedAssumption
  <2>4. so.given \in Nat
    BY <2>2, SentIsFinite, FS_CardinalityType
  <2> QED
    BY <2>2, <2>3, <2>4
<1> QED
  BY <1>1, <1>2

LEMMA PageStep ==
  ASSUME FeedInv, NEW m \in Readers, FindPage(m)
  PROVE  FeedTypeOK' /\ WalkOK(m)'
<1> DEFINE so == IF walk[m] = Nothing THEN FirstPage ELSE walk[m]
           S == {i \in Sent : so.cursor = Nothing \/ After(i, so.cursor)}
           fetched == Fetch(so.cursor)
           page == Newest(fetched, Limit)
           more == Cardinality(fetched) > Limit
           last == CHOOSE i \in page : \A j \in page : i = j \/ Newer(j, i)
           cursor == IF more THEN EncodeCursor(last) ELSE Nothing
           seen == so.seen \cup page
           new == [due |-> so.due, seen |-> seen, more |-> more,
                   given |-> so.given + Cardinality(page), cursor |-> cursor]
<1>1. /\ so.more
      /\ walk' = [walk EXCEPT ![m] = new]
      /\ UNCHANGED <<clock, open, messages, lastRead>>
  BY DEF FindPage
<1>2. fetched = Newest(S, Limit + 1)
  BY DEF Fetch, FindMessages
<1>3. FeedTypeOK /\ walk \in [Readers -> Walk \cup {Nothing}]
  BY DEF FeedInv, FeedTypeOK
<1>4. /\ so.due \in SUBSET Sent /\ so.seen \in SUBSET Sent
      /\ so.given = Cardinality(so.seen) /\ so.given \in Nat
      /\ S \in SUBSET Sent
      /\ \A j \in so.seen : so.cursor \in Cursor /\ ~After(j, so.cursor)
      /\ S \cap so.seen = {}
      /\ \A i \in so.due \ so.seen : i \in S \/ Twin(i, so.seen)
  <2>1. so = IF walk[m] = Nothing THEN FirstPage ELSE walk[m]
    OBVIOUS
  <2>2. S \in SUBSET Sent /\ \A i \in Sent : i \in S <=> so.cursor = Nothing \/ After(i, so.cursor)
    OBVIOUS
  <2> HIDE DEF so, S
  <2> QED
    BY <1>1, <2>1, <2>2, BeforePage
<1> HIDE DEF so, S, fetched
<1>5. /\ page \in SUBSET S
      /\ \A i \in page, j \in S : Newer(j, i) => j \in page
      /\ more => page # {}
      /\ ~more => page = S
  BY <1>2, <1>3, <1>4, PageIsFirst
<1>6. IsFiniteSet(page) /\ Cardinality(page) \in Nat
  BY <1>4, <1>5, SentIsFinite, FS_CardinalityType
<1>7. seen \subseteq Sent /\ so.given + Cardinality(page) = Cardinality(seen)
  <2>1. so.seen \cap page = {} /\ IsFiniteSet(so.seen) /\ Cardinality(so.seen) \in Nat
    BY <1>4, <1>5, SentIsFinite, FS_CardinalityType
  <2>2. Cardinality(seen) = Cardinality(so.seen) + Cardinality(page) - Cardinality({})
    <3> HIDE DEF page
    <3> QED
      BY <1>6, <2>1, FS_Union
  <2> HIDE DEF page, seen
  <2>3. Cardinality({}) = 0
    BY FS_EmptySet
  <2>4. so.given + Cardinality(page) = Cardinality(seen)
    BY <1>4, <1>6, <2>1, <2>2, <2>3
  <2>5. seen \subseteq Sent
    BY <1>4, <1>5 DEF seen
  <2> QED
    BY <2>4, <2>5
<1> HIDE DEF page
<1>8. ASSUME more
      PROVE  /\ cursor \in Cursor /\ \A j \in seen : ~After(j, cursor)
             /\ \A i \in S \ page : After(i, cursor) \/ Twin(i, page)
  <2>1. page # {} /\ cursor = EncodeCursor(last)
    BY <1>5, <1>8
  <2>0. last \in page /\ \A j \in page : last = j \/ Newer(j, last)
    <3>1. \E i \in page : \A j \in page : i = j \/ Newer(j, i)
      BY <1>3, <1>4, <1>5, <2>1, HasOldest
    <3> QED
      BY <3>1
  <2> HIDE DEF cursor, more, last
  <2>2. /\ cursor \in Cursor
        /\ \A j \in page : ~After(j, cursor)
        /\ \A i \in S \ page : After(i, cursor) \/ Twin(i, page)
        /\ \A j \in Sent : After(j, cursor) => Newer(last, j)
    BY ONLY <1>3, <1>4, <1>5, <2>0, <2>1, CursorStands, <1>8
  <2>3. ASSUME NEW j \in so.seen, After(j, cursor) PROVE FALSE
    <3>1. j \in Sent /\ Newer(last, j) /\ so.cursor \in Cursor /\ ~After(j, so.cursor)
      BY <1>4, <2>2, <2>3
    <3>2. last \in Sent /\ After(last, so.cursor)
      BY <1>4, <1>5, <2>0, <3>1, FeedAssumption DEF S
    <3> QED
      BY <1>3, <3>1, <3>2, AfterIsClosed
  <2> QED
    BY <2>2, <2>3
<1>9. \A i \in so.due \ seen : (more /\ After(i, cursor)) \/ Twin(i, seen)
  <2> SUFFICES ASSUME NEW i \in so.due \ seen, ~Twin(i, seen)
               PROVE  more /\ After(i, cursor)
    OBVIOUS
  <2>1. ~Twin(i, so.seen) /\ ~Twin(i, page)
    BY DEF Twin
  <2>2. i \in S \ page
    BY <1>4, <2>1
  <2> QED
    BY <1>5, <1>8, <2>1, <2>2
<1>10. new.more => cursor \in Cursor
  BY <1>8
<1> HIDE DEF more, cursor, seen
<1>11. new \in Walk
  <2>1. so.due \in SUBSET Messages /\ seen \in SUBSET Messages /\ Cardinality(seen) \in Nat
    BY <1>4, <1>7, SentIsFinite, FS_CardinalityType DEF Sent
  <2>2. more \in BOOLEAN /\ cursor \in Cursor \cup {Nothing}
    BY <1>8 DEF more, cursor
  <2> QED
    BY <1>7, <2>1, <2>2 DEF Walk
<1>12. walk'[m] = new /\ Sent' = Sent /\ walk' \in [Readers -> Walk \cup {Nothing}]
  BY <1>1, <1>3, <1>11 DEF Sent
<1>13. FeedTypeOK'
  BY <1>1, <1>3, <1>12 DEF FeedTypeOK
<1>14. WalkOK(m)'
  BY <1>1, <1>4, <1>7, <1>8, <1>9, <1>12 DEF WalkOK, After, Twin
<1> QED
  BY <1>13, <1>14

LEMMA FeedStep == FeedInv /\ [FeedNext]_feedVars => FeedInv'
<1> SUFFICES ASSUME FeedInv, [FeedNext]_feedVars PROVE FeedInv'
  OBVIOUS
<1>0. FeedTypeOK
  BY DEF FeedInv
<1>1. ASSUME FeedTypeOK', UNCHANGED walk PROVE FeedInv'
  <2>1. \A m \in Readers : WalkOK(m)'
    BY <1>0, <1>1, OthersWalk DEF FeedInv
  <2> QED
    BY <1>1, <2>1 DEF FeedInv
<1>2. ASSUME NEW s \in Writers, NEW m \in Members, BeginMessage(s, m) PROVE FeedInv'
  <2>1. [sender |-> m, at |-> clock] \in Message
    BY <1>0 DEF FeedTypeOK, Message
  <2>2. FeedTypeOK'
    BY <1>0, <1>2, <2>1 DEF FeedTypeOK, BeginMessage
  <2> QED
    BY <1>1, <1>2, <2>2 DEF BeginMessage
<1>3. ASSUME NEW s \in Writers, NEW i \in Messages, CreateMessage(s, i) PROVE FeedInv'
  <2>1. FeedTypeOK'
    BY <1>0, <1>3 DEF FeedTypeOK, CreateMessage
  <2> QED
    BY <1>1, <1>3, <2>1 DEF CreateMessage
<1>4. ASSUME NEW s \in Writers, Rollback(s) PROVE FeedInv'
  <2>1. FeedTypeOK'
    BY <1>0, <1>4 DEF FeedTypeOK, Rollback
  <2> QED
    BY <1>1, <1>4, <2>1 DEF Rollback
<1>5. ASSUME NEW m \in Readers, NEW i \in Messages, MarkRead(m, i) PROVE FeedInv'
  <2>1. m \in Members /\ i \in Sent
    BY <1>5, FeedAssumption DEF MarkRead
  <2>2. messages[i].at \in 0..MaxClock
    BY <1>0, <2>1, MessagesAreDated, FeedAssumption DEF Message
  <2>3. Greatest(lastRead[m], messages[i].at) \in 0..MaxClock
    BY <1>0, <2>1, <2>2 DEF FeedTypeOK, Greatest
  <2>4. FeedTypeOK'
    BY <1>0, <1>5, <2>1, <2>3 DEF FeedTypeOK, MarkRead
  <2> QED
    BY <1>1, <1>5, <2>4 DEF MarkRead
<1>6. CASE Tick
  <2>1. FeedTypeOK'
    BY <1>0, <1>6, FeedAssumption DEF FeedTypeOK, Tick
  <2> QED
    BY <1>1, <1>6, <2>1 DEF Tick
<1>7. ASSUME NEW m \in Readers, FindPage(m) PROVE FeedInv'
  <2>1. FeedTypeOK' /\ WalkOK(m)'
    BY <1>7, PageStep
  <2>2. ASSUME NEW other \in Readers, other # m PROVE WalkOK(other)'
    <3>1. walk'[other] = walk[other]
      BY <1>0, <1>7, <2>2 DEF FeedTypeOK, FindPage
    <3> QED
      BY <1>0, <3>1, OthersWalk DEF FeedInv
  <2> QED
    BY <2>1, <2>2 DEF FeedInv
<1>8. CASE UNCHANGED feedVars
  <2>1. FeedTypeOK'
    BY <1>0, <1>8 DEF FeedTypeOK, feedVars
  <2> QED
    BY <1>1, <1>8, <2>1 DEF feedVars
<1> QED
  BY <1>2, <1>3, <1>4, <1>5, <1>6, <1>7, <1>8 DEF FeedNext

\* The state of the feed is well typed, and every reader's cursor stands behind
\* what they have seen and ahead of what is due.
THEOREM FeedInductive == FeedSpec => []FeedInv
BY FeedBegins, FeedStep, PTL DEF FeedSpec

\* No message is given twice, however many become visible between two pages.
THEOREM NoMessageTwice == FeedSpec => []PagesAreNew
<1>1. FeedInv => PagesAreNew
  BY DEF FeedInv, WalkOK, PagesAreNew
<1> QED
  BY FeedInductive, <1>1, PTL

\* Who follows the cursors to the end misses at most the rest of a millisecond
\* of which they have a message.
THEOREM OnlyTiesAreMissed == FeedSpec => []WalkMissesOnlyTies
<1>1. FeedInv => WalkMissesOnlyTies
  BY DEF FeedInv, WalkOK, Twin, WalkMissesOnlyTies
<1> QED
  BY FeedInductive, <1>1, PTL

\* What a member has read stays read, in whatever order the marks arrive.
THEOREM MarksOnlyAdvance == FeedSpec => ReadStaysRead
<1>1. FeedInv /\ [FeedNext]_feedVars =>
        [\A m \in Members : Unread(m)' \cap Sent \subseteq Unread(m)]_feedVars
  <2> SUFFICES ASSUME FeedInv, [FeedNext]_feedVars, NEW m \in Members, NEW i \in Sent, i \in Unread(m)'
               PROVE  i \in Unread(m)
    OBVIOUS
  <2>0. FeedTypeOK
    BY DEF FeedInv
  <2>1. messages'[i] = messages[i] /\ messages[i].at \in Nat
    BY <2>0, FeedGrows, MessagesAreDated
  <2>2. lastRead[m] \in Nat /\ lastRead'[m] \in Nat /\ lastRead[m] <= lastRead'[m]
    <3>0. lastRead[m] \in Nat
      BY <2>0, FeedAssumption DEF FeedTypeOK
    <3>1. ASSUME NEW r \in Readers, NEW j \in Messages, MarkRead(r, j)
          PROVE  lastRead'[m] \in Nat /\ lastRead[m] <= lastRead'[m]
      <4>1. messages[j].at \in Nat
        BY <2>0, <3>1, MessagesAreDated DEF MarkRead
      <4> QED
        BY <2>0, <3>0, <3>1, <4>1 DEF FeedTypeOK, MarkRead, Greatest
    <3>2. CASE lastRead' = lastRead
      BY <3>0, <3>2
    <3> QED
      BY <3>0, <3>1, <3>2
         DEF FeedNext, feedVars, BeginMessage, CreateMessage, Rollback, FindPage, Tick
  <2> QED
    BY <2>1, <2>2 DEF Unread
<1> QED
  BY FeedInductive, <1>1, PTL DEF FeedSpec, ReadStaysRead

----------------------------------------------------------------------------
(* The lists read by page number.  A reader meets a row by its rank, the   *)
(* listed rows before it: what is still owed stands at or behind the page  *)
(* that is read next, what was shown stands ahead of it, and what promises *)
(* a page is a count that rows have only been added to since.              *)

LEMMA Offsets ==
  /\ Offset(1) = 0
  /\ \A p \in Nat \ {0} : Offset(p) \in Nat /\ Offset(p + 1) = Offset(p) + PageLimit
  /\ \A p \in Nat \ {0}, total \in Nat :
       p < TotalPages(total) <=> total > Offset(p) + PageLimit
<1> DEFINE L == PageLimit
<1>0. L \in Nat \ {0}
  BY ListingsAssumption
<1>1. ASSUME NEW p \in Nat \ {0}
      PROVE  Offset(p) \in Nat /\ Offset(p + 1) = Offset(p) + L /\ Offset(p) + L = p * L
  BY <1>0 DEF Offset
<1>2. ASSUME NEW p \in Nat \ {0}, NEW total \in Nat
      PROVE  p < TotalPages(total) <=> total > p * L
  <2> DEFINE q == (total + L - 1) \div L
  <2>1. q \in Nat /\ q * L <= total + L - 1 /\ total + L - 1 < q * L + L
    BY <1>0
  <2>2. p < q => p * L + L <= q * L
    BY <1>0, <2>1
  <2>3. q <= p => q * L <= p * L
    BY <1>0, <2>1
  <2>4. p * L \in Nat
    BY <1>0
  <2> HIDE DEF q, L
  <2>5. p < q <=> total > p * L
    BY <1>0, <2>1, <2>2, <2>3, <2>4
  <2> QED
    BY <2>5 DEF TotalPages, q, L
<1>3. Offset(1) = 0
  BY <1>0 DEF Offset
<1> QED
  BY <1>1, <1>2, <1>3

Visits ==
  [page : Nat, read : SUBSET {"find", "count"}, items : SUBSET Rows, total : Nat,
   seen : SUBSET Rows, twice : SUBSET Rows, stayed : SUBSET Rows, missable : SUBSET Rows,
   repeatable : SUBSET Rows, left : BOOLEAN, changes : Nat, empty : BOOLEAN, done : BOOLEAN]

RowsTyped == rows \in [Rows -> [is : {"absent", "shown", "hidden"}, at : Stamps \cup {0}]]

Ahead(i) == {j \in Listed : Before(j, i)}
Rank(i) == Cardinality(Ahead(i))

Found == "find" \in visit.read
WasCounted == "count" \in visit.read

\* A row that stayed in its place and was not shown is still to come.
Owed ==
  \A i \in visit.stayed \ (visit.missable \cup visit.seen) :
    /\ ~Found => /\ Rank(i) >= Offset(visit.page)
                 /\ WasCounted => Rank(i) < visit.total
    /\ Found /\ i \notin visit.items =>
         /\ Rank(i) >= Offset(visit.page) + PageLimit
         /\ WasCounted => visit.total > Offset(visit.page) + PageLimit

\* A row that was shown, and not pushed on, is not to come again.
Shown ==
  /\ \A i \in (visit.seen \ visit.repeatable) \cap Listed : Rank(i) < Offset(visit.page)
  /\ Found => /\ visit.seen \cap visit.items \subseteq visit.repeatable
              /\ \A i \in (visit.items \ visit.repeatable) \cap Listed :
                   Rank(i) < Offset(visit.page) + PageLimit

\* While no row left there are rows for the page that is asked for.
Promised ==
  visit.left \/
    /\ visit.page > 1 => Cardinality(Listed) > Offset(visit.page)
    /\ WasCounted => visit.total <= Cardinality(Listed)
    /\ Found /\ visit.page > 1 => visit.items # {}

VisitInv ==
  /\ visit \in Visits /\ RowsTyped
  /\ visit.twice \subseteq visit.repeatable
  /\ PromisedPagesHaveRows
  /\ visit.done => visit.read = {} /\ visit.stayed \ visit.seen \subseteq visit.missable
  /\ ~visit.done => /\ list # NoList /\ visit.page \in Nat \ {0}
                    /\ visit.stayed \subseteq Listed
                    /\ Owed /\ Shown /\ Promised

LEMMA RowsAreDated ==
  ASSUME RowsTyped, NEW i \in Rows
  PROVE  rows[i].at \in Nat /\ i \in Nat
<1>1. rows[i].at \in Stamps \cup {0}
  BY DEF RowsTyped
<1>2. Rows \subseteq Nat /\ Stamps \subseteq Nat
  BY ListingsAssumption
<1>3. rows[i].at \in Nat
  <2>1. \A at \in Stamps \cup {0} : at \in Nat
    BY <1>2
  <2> QED
    BY <1>1, <2>1
<1>4. i \in Nat
  BY <1>2
<1> QED
  BY <1>3, <1>4

LEMMA BeforeIsStrict ==
  ASSUME RowsTyped, NEW i \in Rows, NEW j \in Rows, Before(i, j)
  PROVE  ~Before(j, i)
BY RowsAreDated DEF Before

LEMMA ForemostAreThere ==
  ASSUME NEW S \in SUBSET Rows, NEW n \in Nat, NEW s \in Foremost(S, n)
  PROVE  /\ s \in SUBSET S /\ Cardinality(s) = Least(n, Cardinality(S))
         /\ \A i \in s, j \in S \ s : ~Before(j, i)
BY DEF Foremost

LEMMA ListedIsFinite ==
  /\ Listed \in SUBSET Existing /\ Existing \in SUBSET Rows
  /\ \A S \in SUBSET Rows : IsFiniteSet(S) /\ Cardinality(S) \in Nat
  /\ IsFiniteSet(Listed) /\ Cardinality(Listed) \in Nat
<1>1. Candidates \subseteq Existing
  BY DEF Candidates, Foremost
<1>2. Listed \in SUBSET Existing /\ Existing \in SUBSET Rows
  BY <1>1 DEF Listed, Existing
<1>3. ASSUME NEW S \in SUBSET Rows PROVE IsFiniteSet(S) /\ Cardinality(S) \in Nat
  <2>1. IsFiniteSet(S)
    BY ListingsAssumption, FS_Subset
  <2> QED
    BY <2>1, FS_CardinalityType
<1> QED
  BY <1>2, <1>3

\* Where ties are broken, the n foremost are those that fewer than n precede.
LEMMA ForemostByRank ==
  ASSUME RowsTyped, NEW n \in Nat, NEW s \in Foremost(Listed, n), NEW i \in Listed, ~Tied(i)
  PROVE  i \in s <=> Rank(i) < n
<1>1. /\ s \in SUBSET Listed /\ Cardinality(s) = Least(n, Cardinality(Listed))
      /\ \A j \in s, k \in Listed \ s : ~Before(k, j)
  BY ForemostAreThere, ListedIsFinite
<1>2. Ahead(i) \in SUBSET Listed /\ IsFiniteSet(Ahead(i)) /\ Rank(i) \in Nat
  BY ListedIsFinite, FS_Subset, FS_CardinalityType DEF Ahead, Rank
<1>3. i \notin Ahead(i)
  BY BeforeIsStrict, ListedIsFinite DEF Ahead
<1>4. IsFiniteSet(s) /\ Cardinality(s) \in Nat /\ Cardinality(Listed) \in Nat
  BY <1>1, ListedIsFinite, FS_Subset, FS_CardinalityType
<1>5. ASSUME i \in s PROVE Rank(i) < n
  <2>1. Ahead(i) \in SUBSET (s \ {i})
    BY <1>1, <1>3, <1>5 DEF Ahead
  <2>2. IsFiniteSet(s \ {i}) /\ Cardinality(s \ {i}) = Cardinality(s) - 1
    BY <1>4, <1>5, FS_RemoveElement
  <2>3. Rank(i) <= Cardinality(s) - 1
    BY <2>1, <2>2, FS_Subset DEF Rank
  <2> QED
    BY <1>1, <1>2, <1>4, <2>3 DEF Least
<1>6. ASSUME i \notin s PROVE ~(Rank(i) < n)
  <2>1. \A j \in s : Before(j, i)
    <3> SUFFICES ASSUME NEW j \in s, ~Before(j, i) PROVE FALSE
      OBVIOUS
    <3>1. j \in Existing \ {i} /\ ~Before(i, j)
      BY <1>1, <1>6, ListedIsFinite
    <3> QED
      BY <3>1 DEF Tied
  <2>2. s \in SUBSET Ahead(i)
    BY <1>1, <2>1 DEF Ahead
  <2>3. Cardinality(s) <= Rank(i)
    BY <1>2, <2>2, FS_Subset DEF Rank
  <2>4. Cardinality(s) # Cardinality(Listed)
    BY <1>1, <1>6, ListedIsFinite, FS_Subset
  <2> QED
    BY <1>1, <1>2, <1>4, <2>3, <2>4 DEF Least
<1> QED
  BY <1>5, <1>6

LEMMA PageByRank ==
  ASSUME RowsTyped, NEW p \in Nat \ {0}, NEW items \in Page(p)
  PROVE  /\ items \in SUBSET Listed
         /\ \A i \in Listed : ~Tied(i) =>
              (i \in items <=> Offset(p) <= Rank(i) /\ Rank(i) < Offset(p) + PageLimit)
         /\ Cardinality(Listed) > Offset(p) => items # {}
<1>0. Offset(p) \in Nat /\ PageLimit \in Nat \ {0} /\ Offset(p) + PageLimit \in Nat
  BY Offsets, ListingsAssumption
<1>1. PICK from \in Foremost(Listed, Offset(p)), to \in Foremost(Listed, Offset(p) + PageLimit) :
        from \subseteq to /\ items = to \ from
  <2>1. PICK from \in Foremost(Listed, Offset(p)) :
          items \in {to \ from : to \in {t \in Foremost(Listed, Offset(p) + PageLimit) : from \subseteq t}}
    BY DEF Page
  <2> QED
    BY <2>1
<1>2. Listed \in SUBSET Rows
  BY ListedIsFinite
<1>3. /\ from \in SUBSET Listed /\ Cardinality(from) = Least(Offset(p), Cardinality(Listed))
      /\ to \in SUBSET Listed
      /\ Cardinality(to) = Least(Offset(p) + PageLimit, Cardinality(Listed))
  BY <1>0, <1>2, ForemostAreThere
<1>4. ASSUME NEW i \in Listed, ~Tied(i)
      PROVE  i \in items <=> Offset(p) <= Rank(i) /\ Rank(i) < Offset(p) + PageLimit
  <2>1. i \in from <=> Rank(i) < Offset(p)
    BY <1>0, <1>4, ForemostByRank
  <2>2. i \in to <=> Rank(i) < Offset(p) + PageLimit
    BY <1>0, <1>4, ForemostByRank
  <2>3. Ahead(i) \in SUBSET Rows
    BY <1>2 DEF Ahead
  <2>4. Rank(i) \in Nat
    BY <2>3, ListedIsFinite DEF Rank
  <2> QED
    BY <1>0, <1>1, <2>1, <2>2, <2>4
<1>5. ASSUME Cardinality(Listed) > Offset(p), items = {} PROVE FALSE
  <2>1. from = to
    BY <1>1, <1>5
  <2>2. Cardinality(Listed) \in Nat
    BY ListedIsFinite
  <2> QED
    BY <1>0, <1>3, <1>5, <2>1, <2>2 DEF Least
<1> QED
  BY <1>1, <1>3, <1>4, <1>5

LEMMA RankIsNat == \A i : Rank(i) \in Nat
<1> SUFFICES ASSUME NEW i PROVE Rank(i) \in Nat
  OBVIOUS
<1>1. Ahead(i) \in SUBSET Rows
  BY ListedIsFinite DEF Ahead
<1> QED
  BY <1>1, ListedIsFinite DEF Rank

\* A listed row has fewer rows before it than there are.
LEMMA RankBelowCount ==
  ASSUME RowsTyped, NEW i \in Listed
  PROVE  Rank(i) < Cardinality(Listed)
<1>1. Ahead(i) \in SUBSET (Listed \ {i})
  BY BeforeIsStrict, ListedIsFinite DEF Ahead
<1>2. IsFiniteSet(Listed \ {i}) /\ Cardinality(Listed \ {i}) = Cardinality(Listed) - 1
  BY ListedIsFinite, FS_RemoveElement
<1>3. Rank(i) <= Cardinality(Listed) - 1
  BY <1>1, <1>2, FS_Subset DEF Rank
<1> QED
  BY <1>3, RankIsNat, ListedIsFinite

LEMMA ListStill ==
  ASSUME UNCHANGED <<list, rows>>
  PROVE  Listed' = Listed /\ (\A i : Rank(i)' = Rank(i)) /\ (RowsTyped => RowsTyped')
<1>1. \A i, j : Before(i, j)' <=> Before(i, j)
  BY DEF Before
<1>2. Existing' = Existing
  BY DEF Existing
<1>3. \A S, n : Foremost(S, n)' = Foremost(S, n)
  BY <1>1 DEF Foremost
<1>4. Listed' = Listed
  BY <1>2, <1>3 DEF Listed, Candidates
<1>5. \A i : Ahead(i)' = Ahead(i)
  BY <1>1, <1>4 DEF Ahead
<1> QED
  BY <1>4, <1>5 DEF Rank, RowsTyped

LEMMA VisitInit == ListInit => VisitInv
<1> SUFFICES ASSUME ListInit PROVE VisitInv
  OBVIOUS
<1>1. /\ visit \in Visits /\ visit.done /\ ~visit.empty
      /\ visit.twice = {} /\ visit.stayed = {}
      /\ visit.read = {}
  BY DEF ListInit, NoVisit, Visits
<1>2. RowsTyped
  BY DEF ListInit, RowsTyped
<1> QED
  BY <1>1, <1>2 DEF VisitInv, PromisedPagesHaveRows

LEMMA VisitBegins == VisitInv /\ Visit => VisitInv'
<1> SUFFICES ASSUME VisitInv, Visit PROVE VisitInv'
  OBVIOUS
<1>1. Listed' = Listed /\ (\A i : Rank(i)' = Rank(i)) /\ RowsTyped'
  BY ListStill DEF VisitInv, Visit
<1>2. Listed \in SUBSET Rows
  BY ListedIsFinite
<1>3. visit' = [NoVisit EXCEPT !.page = 1, !.stayed = Listed, !.done = FALSE]
  BY DEF Visit
<1>4. /\ visit' \in Visits /\ ~visit'.done /\ ~visit'.empty /\ visit'.page = 1
      /\ visit'.read = {} /\ visit'.stayed = Listed /\ visit'.seen = {} /\ visit'.twice = {}
  BY <1>2, <1>3 DEF NoVisit, Visits
<1>5. Owed'
  BY <1>1, <1>4, RankIsNat, Offsets DEF Owed, Found, WasCounted
<1>6. Shown' /\ Promised'
  BY <1>4 DEF Shown, Promised, Found, WasCounted
<1>7. list' # NoList
  BY DEF Visit
<1> QED
  BY <1>1, <1>4, <1>7, <1>5, <1>6 DEF VisitInv, PromisedPagesHaveRows

\* One of the two statements of a page is answered.
LEMMA CountKeeps == VisitInv /\ Count => VisitInv'
<1> SUFFICES ASSUME VisitInv, Count PROVE VisitInv'
  OBVIOUS
<1>1. Listed' = Listed /\ (\A i : Rank(i)' = Rank(i)) /\ RowsTyped'
  BY ListStill DEF VisitInv, Count
<1>2. Cardinality(Listed) \in Nat /\ Listed \in SUBSET Rows
  BY ListedIsFinite
<1>3. visit' = [visit EXCEPT !.read = @ \cup {"count"}, !.total = Cardinality(Listed)]
  BY DEF Count, Counted
<1>4. /\ visit' \in Visits /\ ~visit'.done /\ ~visit.done /\ ~WasCounted /\ WasCounted'
      /\ Found' <=> Found
      /\ visit'.total = Cardinality(Listed)
      /\ visit'.page = visit.page /\ visit'.items = visit.items /\ visit'.seen = visit.seen
      /\ visit'.twice = visit.twice /\ visit'.stayed = visit.stayed
      /\ visit'.missable = visit.missable /\ visit'.repeatable = visit.repeatable
      /\ visit'.left = visit.left /\ visit'.empty = visit.empty
  <2>1. ~visit.done /\ ~WasCounted /\ visit \in Visits
    BY DEF Count, VisitInv, WasCounted
  <2>2. visit' \in Visits
    BY <1>2, <1>3, <2>1 DEF Visits
  <2>3. visit'.read = visit.read \cup {"count"} /\ visit'.done = visit.done
    BY <1>3, <2>1 DEF Visits
  <2>4. /\ visit'.total = Cardinality(Listed)
        /\ visit'.page = visit.page /\ visit'.items = visit.items /\ visit'.seen = visit.seen
        /\ visit'.twice = visit.twice /\ visit'.stayed = visit.stayed
        /\ visit'.missable = visit.missable /\ visit'.repeatable = visit.repeatable
        /\ visit'.left = visit.left /\ visit'.empty = visit.empty
    BY <1>3, <2>1 DEF Visits
  <2> QED
    BY <2>1, <2>2, <2>3, <2>4 DEF Found, WasCounted
<1>5. Owed'
  <2> SUFFICES ASSUME NEW i \in visit.stayed \ (visit.missable \cup visit.seen)
               PROVE  /\ ~Found => /\ Rank(i) >= Offset(visit.page)
                                   /\ Rank(i) < Cardinality(Listed)
                      /\ Found /\ i \notin visit.items =>
                           /\ Rank(i) >= Offset(visit.page) + PageLimit
                           /\ Cardinality(Listed) > Offset(visit.page) + PageLimit
    BY <1>1, <1>4 DEF Owed
  <2>1. i \in Listed /\ Rank(i) < Cardinality(Listed) /\ Rank(i) \in Nat
    BY <1>4, RankBelowCount, RankIsNat DEF VisitInv
  <2>2. Offset(visit.page) \in Nat /\ PageLimit \in Nat
    BY <1>4, Offsets, ListingsAssumption DEF VisitInv
  <2> QED
    BY <1>2, <1>4, <2>1, <2>2 DEF VisitInv, Owed
<1>6. Shown' /\ Promised'
  BY <1>1, <1>2, <1>4 DEF VisitInv, Shown, Promised
<1>7. list' # NoList
  BY <1>4 DEF VisitInv, Count
<1> QED
  BY <1>1, <1>4, <1>7, <1>5, <1>6 DEF VisitInv, PromisedPagesHaveRows

LEMMA FindKeeps == VisitInv /\ Find => VisitInv'
<1> SUFFICES ASSUME VisitInv, Find PROVE VisitInv'
  OBVIOUS
<1> DEFINE ties == {i \in Listed : Tied(i)}
<1>1. Listed' = Listed /\ (\A i : Rank(i)' = Rank(i)) /\ RowsTyped'
  BY ListStill DEF VisitInv, Find
<1>2. /\ Cardinality(Listed) \in Nat /\ Listed \in SUBSET Rows
      /\ visit \in Visits /\ RowsTyped /\ ~visit.done /\ visit.page \in Nat \ {0} /\ ~Found
      /\ Offset(visit.page) \in Nat /\ PageLimit \in Nat
  BY ListedIsFinite, Offsets, ListingsAssumption DEF VisitInv, Find, Found
<1>3. PICK items \in Page(visit.page) :
        LET found == [visit EXCEPT !.items = items,
                                   !.missable = @ \cup ties, !.repeatable = @ \cup ties]
        IN visit' = IF list.scanned
                    THEN [found EXCEPT !.read = {"find", "count"}, !.total = Cardinality(Listed)]
                    ELSE [found EXCEPT !.read = @ \cup {"find"}]
  BY DEF Find, Counted
<1>4. /\ items \in SUBSET Listed
      /\ \A i \in Listed : ~Tied(i) =>
           (i \in items <=> Offset(visit.page) <= Rank(i) /\ Rank(i) < Offset(visit.page) + PageLimit)
      /\ Cardinality(Listed) > Offset(visit.page) => items # {}
  BY <1>2, PageByRank
<1>5. ties \in SUBSET Rows /\ items \in SUBSET Rows
  BY <1>2, <1>4
<1>6. /\ visit' \in Visits
      /\ visit'.page = visit.page /\ visit'.items = items /\ visit'.seen = visit.seen
      /\ visit'.twice = visit.twice /\ visit'.stayed = visit.stayed
      /\ visit'.missable = visit.missable \cup ties
      /\ visit'.repeatable = visit.repeatable \cup ties
      /\ visit'.left = visit.left /\ visit'.empty = visit.empty /\ visit'.done = visit.done
      /\ Found'
      /\ \/ WasCounted' /\ visit'.total = Cardinality(Listed)
         \/ (WasCounted' <=> WasCounted) /\ visit'.total = visit.total
  <2> HIDE DEF ties
  <2>1. CASE list.scanned
    <3>1. visit' = [[visit EXCEPT !.items = items, !.missable = @ \cup ties,
                                  !.repeatable = @ \cup ties]
                       EXCEPT !.read = {"find", "count"}, !.total = Cardinality(Listed)]
      BY <1>3, <2>1
    <3> QED
      BY <1>2, <1>5, <3>1 DEF Visits, Found, WasCounted
  <2>2. CASE ~list.scanned
    <3>1. visit' = [[visit EXCEPT !.items = items, !.missable = @ \cup ties,
                                  !.repeatable = @ \cup ties]
                       EXCEPT !.read = @ \cup {"find"}]
      BY <1>3, <2>2
    <3> QED
      BY <1>2, <1>5, <3>1 DEF Visits, Found, WasCounted
  <2> QED
    BY <2>1, <2>2
<1>7. Owed'
  <2> SUFFICES ASSUME NEW i \in visit.stayed \ (visit'.missable \cup visit.seen), i \notin items
               PROVE  /\ Rank(i) >= Offset(visit.page) + PageLimit
                      /\ WasCounted' => visit'.total > Offset(visit.page) + PageLimit
    BY <1>1, <1>6 DEF Owed
  <2>1. i \in Listed /\ ~Tied(i) /\ Rank(i) < Cardinality(Listed) /\ Rank(i) \in Nat
    BY <1>2, <1>6, RankBelowCount, RankIsNat DEF VisitInv
  <2>2. Rank(i) >= Offset(visit.page) /\ (WasCounted => Rank(i) < visit.total)
    BY <1>2, <1>6 DEF VisitInv, Owed
  <2>3. Rank(i) >= Offset(visit.page) + PageLimit
    BY <1>2, <1>4, <2>1, <2>2
  <2>4. visit.total \in Nat
    BY <1>2 DEF Visits
  <2> QED
    BY <1>2, <1>6, <2>1, <2>2, <2>3, <2>4
<1>8. Shown'
  <2>1. ASSUME NEW i \in visit.seen \cap items, i \notin visit'.repeatable PROVE FALSE
    <3>1. i \in Listed /\ ~Tied(i) /\ Rank(i) \in Nat /\ i \notin visit.repeatable
      BY <1>4, <1>6, <2>1, RankIsNat
    <3>2. Rank(i) < Offset(visit.page)
      BY <1>2, <2>1, <3>1 DEF VisitInv, Shown
    <3> QED
      BY <1>2, <1>4, <2>1, <3>1, <3>2
  <2>2. ASSUME NEW i \in (items \ visit'.repeatable) \cap Listed
        PROVE  Rank(i) < Offset(visit.page) + PageLimit
    BY <1>4, <1>6, <2>2
  <2>3. \A i \in (visit.seen \ visit'.repeatable) \cap Listed : Rank(i) < Offset(visit.page)
    BY <1>2, <1>6 DEF VisitInv, Shown
  <2> QED
    BY <1>1, <1>6, <2>1, <2>2, <2>3 DEF Shown
<1>9. Promised'
  BY <1>1, <1>2, <1>4, <1>6 DEF VisitInv, Promised
<1>10. visit'.twice \subseteq visit'.repeatable
  BY <1>6 DEF VisitInv
<1>11. list' # NoList
  BY <1>2 DEF VisitInv, Find
<1> QED
  BY <1>1, <1>11, <1>2, <1>6, <1>7, <1>8, <1>9, <1>10 DEF VisitInv, PromisedPagesHaveRows

LEMMA TurnKeeps == VisitInv /\ Turn => VisitInv'
<1> SUFFICES ASSUME VisitInv, Turn PROVE VisitInv'
  OBVIOUS
<1> DEFINE more == visit.page < TotalPages(visit.total)
<1>1. Listed' = Listed /\ (\A i : Rank(i)' = Rank(i)) /\ RowsTyped'
  BY ListStill DEF VisitInv, Turn
<1>2. /\ visit \in Visits /\ Found /\ WasCounted /\ ~visit.done
      /\ visit.page \in Nat \ {0} /\ visit.total \in Nat
      /\ Offset(visit.page) \in Nat /\ PageLimit \in Nat \ {0}
      /\ Offset(visit.page + 1) = Offset(visit.page) + PageLimit
      /\ more <=> visit.total > Offset(visit.page) + PageLimit
  <2>1. visit \in Visits /\ Found /\ WasCounted /\ ~visit.done /\ visit.page \in Nat \ {0}
    BY DEF VisitInv, Turn, Found, WasCounted
  <2>2. visit.total \in Nat
    BY <2>1 DEF Visits
  <2> QED
    BY <2>1, <2>2, Offsets, ListingsAssumption
<1>3. /\ visit'.page = IF more THEN visit.page + 1 ELSE visit.page
      /\ visit'.items = {} /\ visit'.seen = visit.seen \cup visit.items
      /\ visit'.twice = visit.twice \cup (visit.seen \cap visit.items)
      /\ visit'.stayed = visit.stayed /\ visit'.missable = visit.missable
      /\ visit'.repeatable = visit.repeatable /\ visit'.left = visit.left
      /\ visit'.read = {} /\ visit'.total = 0
  <2> HIDE DEF more
  <2> QED
    BY <1>2 DEF Turn, Visits, more
<1>4. visit'.empty <=> visit.empty \/ (visit.page > 1 /\ visit.items = {})
  BY <1>2 DEF Turn, Visits
<1>5. visit'.done <=> ~more
  BY <1>2 DEF Turn, Visits
<1>6. visit' \in Visits
  <2> DEFINE seen == visit.seen \cup visit.items
             twice == visit.twice \cup (visit.seen \cap visit.items)
             empty == visit.empty \/ (visit.page > 1 /\ visit.items = {})
             page == IF more THEN visit.page + 1 ELSE visit.page
             done == ~more
  <2>1. visit' = [visit EXCEPT !.seen = seen, !.twice = twice, !.empty = empty, !.items = {},
                               !.read = {}, !.total = 0, !.page = page, !.done = done]
    BY <1>2 DEF Turn, Visits
  <2>2. seen \in SUBSET Rows /\ twice \in SUBSET Rows /\ page \in Nat
    BY <1>2 DEF Visits
  <2>3. empty \in BOOLEAN /\ done \in BOOLEAN
    BY <1>2 DEF Visits
  <2> HIDE DEF seen, twice, empty, page, done
  <2> QED
    BY <1>2, <2>1, <2>2, <2>3 DEF Visits
<1> HIDE DEF more
<1>7. /\ visit'.twice \subseteq visit'.repeatable
      /\ PromisedPagesHaveRows'
  BY <1>2, <1>3, <1>4 DEF VisitInv, Shown, Promised, PromisedPagesHaveRows
<1>8. CASE ~more
  <2>1. visit'.stayed \ visit'.seen \subseteq visit'.missable
    <3> SUFFICES ASSUME NEW i \in visit.stayed \ (visit.missable \cup visit.seen),
                        i \notin visit.items
                 PROVE  FALSE
      BY <1>3
    <3>1. visit.total > Offset(visit.page) + PageLimit
      BY <1>2 DEF VisitInv, Owed
    <3> QED
      BY <1>2, <1>8, <3>1
  <2> QED
    BY <1>1, <1>3, <1>5, <1>6, <1>7, <1>8, <2>1 DEF VisitInv
<1>9. CASE more
  <2>1. visit'.page = visit.page + 1 /\ visit'.page \in Nat \ {0} /\ ~visit'.done
    BY <1>2, <1>3, <1>5, <1>9
  <2>2. Owed'
    <3> SUFFICES ASSUME NEW i \in visit.stayed \ (visit.missable \cup visit.seen),
                        i \notin visit.items
                 PROVE  Rank(i) >= Offset(visit.page + 1)
      BY <1>1, <1>3, <2>1 DEF Owed, Found, WasCounted
    <3> QED
      BY <1>2 DEF VisitInv, Owed
  <2>3. Shown'
    <3> SUFFICES ASSUME NEW i \in ((visit.seen \cup visit.items) \ visit.repeatable) \cap Listed
                 PROVE  Rank(i) < Offset(visit.page + 1)
      BY <1>1, <1>3, <2>1 DEF Shown, Found
    <3>1. Rank(i) < Offset(visit.page) \/ Rank(i) < Offset(visit.page) + PageLimit
      BY <1>2 DEF VisitInv, Shown
    <3>2. Rank(i) \in Nat
      BY RankIsNat
    <3> QED
      BY <1>2, <3>1, <3>2
  <2>4. Promised'
    <3> SUFFICES ASSUME ~visit.left PROVE Cardinality(Listed) > Offset(visit.page + 1)
      BY <1>1, <1>3, <2>1 DEF Promised, Found, WasCounted
    <3>1. visit.total <= Cardinality(Listed) /\ Cardinality(Listed) \in Nat
      BY <1>2, ListedIsFinite DEF VisitInv, Promised
    <3> QED
      BY <1>2, <1>9, <3>1
  <2>5. visit'.stayed \subseteq Listed'
    BY <1>1, <1>2, <1>3 DEF VisitInv
  <2>6. list' # NoList
    BY <1>2 DEF VisitInv, Turn
  <2> QED
    BY <1>1, <1>6, <1>7, <2>6, <2>1, <2>2, <2>3, <2>4, <2>5 DEF VisitInv
<1> QED
  BY <1>8, <1>9

LEMMA NextRows ==
  /\ Listed' \in SUBSET Rows /\ IsFiniteSet(Listed') /\ Cardinality(Listed') \in Nat
  /\ \A i : Rank(i)' \in Nat /\ Ahead(i)' \in SUBSET Rows
<1>1. /\ Listed \in SUBSET Rows /\ IsFiniteSet(Listed) /\ Cardinality(Listed) \in Nat
      /\ \A i : Rank(i) \in Nat /\ Ahead(i) \in SUBSET Rows
  BY ListedIsFinite, RankIsNat DEF Ahead
<1>2. (/\ Listed \in SUBSET Rows /\ IsFiniteSet(Listed) /\ Cardinality(Listed) \in Nat
       /\ \A i : Rank(i) \in Nat /\ Ahead(i) \in SUBSET Rows)'
  BY <1>1, PTL
<1> QED
  BY <1>2

LEMMA StrictNext == \A i, j \in Rows : RowsTyped' /\ Before(i, j)' => ~Before(j, i)'
<1>1. \A i, j \in Rows : RowsTyped /\ Before(i, j) => ~Before(j, i)
  BY BeforeIsStrict
<1>2. (\A i, j \in Rows : RowsTyped /\ Before(i, j) => ~Before(j, i))'
  BY <1>1, PTL
<1> QED
  BY <1>2

\* Two rows that are not stamped again stand as they stood.
LEMMA OrderStill ==
  ASSUME UNCHANGED list, NEW i \in Rows, NEW j \in Rows,
         rows'[i].at = rows[i].at, rows'[j].at = rows[j].at
  PROVE  Before(i, j)' <=> Before(i, j)
BY DEF Before

\* Whatever happens to a row, a row that stays behind the ones that left is not
\* moved to an earlier page, and one ahead of the ones that came to no later one.
LEMMA RankMoves ==
  ASSUME RowsTyped, RowsTyped', UNCHANGED list,
         NEW moved, moved = {i \in Listed \cap Listed' : rows'[i].at # rows[i].at},
         NEW gone, gone = (Listed \ Listed') \cup moved,
         NEW came, came = (Listed' \ Listed) \cup moved,
         NEW i \in Listed \cap Listed', i \notin moved
  PROVE  /\ i \notin Behind(gone) => Rank(i)' >= Rank(i)
         /\ (\A j \in came \ {i} : Before(i, j)') => Rank(i)' <= Rank(i)
<1>0. Listed \in SUBSET Rows /\ Listed' \in SUBSET Rows /\ i \in Rows
  BY ListedIsFinite, NextRows
<1>1. ASSUME i \notin Behind(gone) PROVE Rank(i)' >= Rank(i)
  <2>1. ASSUME NEW j \in Listed, Before(j, i) PROVE j \in Listed' /\ Before(j, i)'
    <3>1. ~Before(i, j) /\ j # i /\ j \in Rows
      BY <1>0, <2>1, BeforeIsStrict
    <3>2. j \notin gone
      BY <1>1, <3>1 DEF Behind
    <3>3. j \in Listed' /\ rows'[j].at = rows[j].at
      BY <3>2
    <3> QED
      BY <1>0, <2>1, <3>1, <3>3, OrderStill
  <2>2. Ahead(i) \in SUBSET Ahead(i)'
    BY <2>1 DEF Ahead
  <2>3. IsFiniteSet(Ahead(i)')
    BY NextRows, ListingsAssumption, FS_Subset
  <2> QED
    BY <2>2, <2>3, FS_Subset, RankIsNat, NextRows DEF Rank
<1>2. ASSUME \A j \in came \ {i} : Before(i, j)' PROVE Rank(i)' <= Rank(i)
  <2>1. ASSUME NEW j \in Listed', Before(j, i)' PROVE j \in Listed /\ Before(j, i)
    <3>1. ~Before(i, j)' /\ j # i /\ j \in Rows
      BY <1>0, <2>1, StrictNext
    <3>2. j \notin came
      BY <1>2, <3>1
    <3>3. j \in Listed /\ rows'[j].at = rows[j].at
      BY <3>2
    <3> QED
      BY <1>0, <2>1, <3>1, <3>3, OrderStill
  <2>2. Ahead(i)' \in SUBSET Ahead(i)
    BY <2>1 DEF Ahead
  <2>3. Ahead(i) \in SUBSET Rows /\ IsFiniteSet(Ahead(i))
    BY ListedIsFinite DEF Ahead
  <2> QED
    BY <2>2, <2>3, FS_Subset, RankIsNat, NextRows DEF Rank
<1> QED
  BY <1>1, <1>2

LEMMA WatchKeeps ==
  ASSUME VisitInv, ~visit.done, RowsTyped', UNCHANGED list, visit' = Watched
  PROVE  VisitInv'
<1> DEFINE moved == {i \in Listed \cap Listed' : rows'[i].at # rows[i].at}
           gone == (Listed \ Listed') \cup moved
           came == (Listed' \ Listed) \cup moved
           pushed == {j \in Listed' : \E i \in came \ {j} : ~(Before(j, i)')}
           late == WasCounted /\ ~Found
           missed == Behind(gone) \cup (IF late THEN pushed ELSE {})
           fewer == visit.left \/ Listed \ Listed' # {}
<1>0. Listed \in SUBSET Rows /\ Listed' \in SUBSET Rows /\ RowsTyped /\ visit \in Visits
  BY ListedIsFinite, NextRows DEF VisitInv
<1>1. visit' = [visit EXCEPT !.stayed = @ \ gone, !.missable = @ \cup missed,
                             !.repeatable = @ \cup came \cup pushed, !.left = fewer,
                             !.changes = @ + 1]
  BY <1>0 DEF Watched, Found, WasCounted, Visits
<1>2. /\ moved \in SUBSET Rows /\ gone \in SUBSET Rows /\ came \in SUBSET Rows
      /\ pushed \in SUBSET Rows /\ missed \in SUBSET Rows /\ fewer \in BOOLEAN
  BY <1>0 DEF Behind
<1>3. ASSUME NEW i \in Listed \cap Listed', i \notin moved
      PROVE  /\ i \notin Behind(gone) => Rank(i)' >= Rank(i)
             /\ i \notin pushed => Rank(i)' <= Rank(i)
  <2>1. i \notin pushed => \A j \in came \ {i} : Before(i, j)'
    BY <1>3
  <2> QED
    BY <1>0, <1>3, <2>1, RankMoves
<1>4. /\ fewer <=> visit.left \/ Listed \ Listed' # {}
      /\ \A i \in Listed : i \notin gone => i \in Listed' /\ i \notin moved
      /\ \A i \in Listed' : i \notin came => i \in Listed /\ i \notin moved
      /\ Behind(gone) \subseteq missed
      /\ WasCounted /\ ~Found => pushed \subseteq missed
  OBVIOUS
<1> HIDE DEF moved, gone, came, pushed, late, missed, fewer
<1>5. /\ visit' \in Visits
      /\ visit'.page = visit.page /\ visit'.items = visit.items /\ visit'.seen = visit.seen
      /\ visit'.twice = visit.twice /\ visit'.stayed = visit.stayed \ gone
      /\ visit'.missable = visit.missable \cup missed
      /\ visit'.repeatable = visit.repeatable \cup came \cup pushed
      /\ visit'.left = fewer /\ visit'.empty = visit.empty /\ visit'.done = visit.done
      /\ visit'.total = visit.total /\ visit'.read = visit.read
  <2>1. visit' \in Visits
    <3> DEFINE stayed == visit.stayed \ gone
               missable == visit.missable \cup missed
               repeatable == visit.repeatable \cup came \cup pushed
               changes == visit.changes + 1
    <3>1. /\ stayed \in SUBSET Rows /\ missable \in SUBSET Rows /\ repeatable \in SUBSET Rows
          /\ changes \in Nat
      BY <1>0, <1>2 DEF Visits
    <3>2. visit' = [visit EXCEPT !.stayed = stayed, !.missable = missable,
                                 !.repeatable = repeatable, !.left = fewer, !.changes = changes]
      BY <1>0, <1>1 DEF Visits
    <3> HIDE DEF stayed, missable, repeatable, changes
    <3> QED
      BY <1>0, <1>2, <3>1, <3>2 DEF Visits
  <2> QED
    BY <1>0, <1>1, <2>1 DEF Visits
<1>6. (Found' <=> Found) /\ (WasCounted' <=> WasCounted)
  BY <1>5 DEF Found, WasCounted
<1>7. /\ Offset(visit.page) \in Nat /\ PageLimit \in Nat /\ visit.total \in Nat
      /\ visit.page \in Nat \ {0}
  BY <1>0, Offsets, ListingsAssumption DEF VisitInv, Visits
<1>8. Owed'
  <2> SUFFICES ASSUME NEW i \in (visit.stayed \ gone) \ (visit.missable \cup missed \cup visit.seen)
               PROVE  /\ ~Found => /\ Rank(i)' >= Offset(visit.page)
                                   /\ WasCounted => Rank(i)' < visit.total
                      /\ Found /\ i \notin visit.items =>
                           /\ Rank(i)' >= Offset(visit.page) + PageLimit
                           /\ WasCounted => visit.total > Offset(visit.page) + PageLimit
    BY <1>5, <1>6 DEF Owed
  <2>1. i \in Listed \cap Listed' /\ i \notin moved
    BY <1>4 DEF VisitInv
  <2>2. Rank(i)' >= Rank(i) /\ (WasCounted /\ ~Found => Rank(i)' <= Rank(i))
    BY <1>3, <1>4, <2>1
  <2>3. Rank(i) \in Nat /\ Rank(i)' \in Nat
    BY RankIsNat, NextRows
  <2> QED
    BY <1>7, <2>2, <2>3 DEF VisitInv, Owed
<1>9. Shown'
  <2>1. ASSUME NEW i \in Listed', i \notin visit.repeatable \cup came \cup pushed
        PROVE  i \in Listed /\ Rank(i)' <= Rank(i) /\ Rank(i) \in Nat /\ Rank(i)' \in Nat
    BY <1>3, <1>4, <2>1, RankIsNat, NextRows
  <2>2. ASSUME NEW i \in (visit.seen \ (visit.repeatable \cup came \cup pushed)) \cap Listed'
        PROVE  Rank(i)' < Offset(visit.page)
    BY <1>7, <2>1, <2>2 DEF VisitInv, Shown
  <2>3. ASSUME Found,
               NEW i \in (visit.items \ (visit.repeatable \cup came \cup pushed)) \cap Listed'
        PROVE  Rank(i)' < Offset(visit.page) + PageLimit
    BY <1>7, <2>1, <2>3 DEF VisitInv, Shown
  <2>4. Found => visit.seen \cap visit.items \subseteq visit.repeatable
    BY DEF VisitInv, Shown
  <2> QED
    BY <1>5, <1>6, <2>2, <2>3, <2>4 DEF Shown
<1>10. Promised'
  <2> SUFFICES ASSUME ~fewer
               PROVE  /\ visit.page > 1 => Cardinality(Listed') > Offset(visit.page)
                      /\ WasCounted => visit.total <= Cardinality(Listed')
                      /\ Found /\ visit.page > 1 => visit.items # {}
    BY <1>5, <1>6 DEF Promised
  <2>1. ~visit.left /\ Listed \in SUBSET Listed'
    BY <1>4
  <2>2. Cardinality(Listed) <= Cardinality(Listed')
    BY <2>1, NextRows, FS_Subset
  <2> QED
    BY <1>7, <2>1, <2>2, NextRows, ListedIsFinite DEF VisitInv, Promised
<1>11. /\ visit'.twice \subseteq visit'.repeatable
       /\ visit'.stayed \subseteq Listed'
       /\ PromisedPagesHaveRows'
  BY <1>4, <1>5 DEF VisitInv, PromisedPagesHaveRows
<1> QED
  BY <1>5, <1>7, <1>8, <1>9, <1>10, <1>11 DEF VisitInv

LEMMA VisitStep == VisitInv /\ [ListNext]_listVars => VisitInv'
<1> SUFFICES ASSUME VisitInv, [ListNext]_listVars PROVE VisitInv'
  OBVIOUS
<1>1. ASSUME NEW l \in Lists, Open(l) PROVE VisitInv'
  <2>1. visit.done /\ UNCHANGED <<rows, visit>>
    BY <1>1 DEF Open, VisitInv
  <2> QED
    BY <2>1 DEF VisitInv, RowsTyped, PromisedPagesHaveRows
<1>2. ASSUME NEW i \in Rows, Insert(i) \/ Leave(i) \/ Enter(i) \/ Move(i) PROVE VisitInv'
  <2>1. PICK is \in {"absent", "shown", "hidden"}, at \in Stamps \cup {0} : Becomes(i, is, at)
    BY <1>2 DEF Insert, Leave, Enter, Move, VisitInv, RowsTyped
  <2>2. RowsTyped' /\ UNCHANGED list
    BY <2>1 DEF Becomes, VisitInv, RowsTyped
  <2>3. CASE visit.done
    <3>1. visit' = NoVisit
      BY <2>1, <2>3 DEF Becomes
    <3>2. /\ visit' \in Visits /\ visit'.done /\ ~visit'.empty
          /\ visit'.twice = {} /\ visit'.stayed = {} /\ visit'.read = {}
      BY <3>1 DEF NoVisit, Visits
    <3> QED
      BY <2>2, <3>2 DEF VisitInv, PromisedPagesHaveRows
  <2>4. CASE ~visit.done
    BY <2>1, <2>2, <2>4, WatchKeeps DEF Becomes
  <2> QED
    BY <2>3, <2>4
<1>3. CASE UNCHANGED listVars
  <2>1. Listed' = Listed /\ (\A i : Rank(i)' = Rank(i)) /\ RowsTyped'
    BY <1>3, ListStill DEF VisitInv, listVars
  <2>2. visit' = visit /\ list' = list
    BY <1>3 DEF listVars
  <2>3. ~visit.done => Owed' /\ Shown' /\ Promised'
    BY <2>1, <2>2 DEF VisitInv, Owed, Shown, Promised, Found, WasCounted
  <2> QED
    BY <2>1, <2>2, <2>3 DEF VisitInv, PromisedPagesHaveRows
<1> QED
  BY <1>1, <1>2, <1>3, VisitBegins, FindKeeps, CountKeeps, TurnKeeps DEF ListNext

\* Whoever turns the pages has, for every row, what its rank promises.
THEOREM VisitInductive == ListSpec => []VisitInv
BY VisitInit, VisitStep, PTL DEF ListSpec

\* Who reads a list to its end has seen every row that stayed in its place, and
\* none twice, but for what the rows that came and left account for.
THEOREM PagesShowAllOnce == ListSpec => []ShownOnce
<1>1. VisitInv => ShownOnce
  BY DEF VisitInv, ShownOnce
<1> QED
  BY VisitInductive, <1>1, PTL

\* A page that the total promised is empty only when rows left meanwhile.
THEOREM NoEmptyPage == ListSpec => []PromisedPagesHaveRows
<1>1. VisitInv => PromisedPagesHaveRows
  BY DEF VisitInv
<1> QED
  BY VisitInductive, <1>1, PTL

----------------------------------------------------------------------------
(* The offer.  What a request under way has read still holds of what it is *)
(* about to write: of the tables it replaces because it holds the lock of  *)
(* their row, of a text as far as no other edit of its language changed    *)
(* it since.                                                               *)

\* A schedule that passed the checks, saved and perhaps deleted.
Whole(row) ==
  \E draft \in Drafts, gone \in BOOLEAN : AssertWindows(draft) /\ row = Saved(draft, gone)

\* What a request carries, step by step.
SavingOK(r) ==
  /\ r.pc \in {"lock", "replace", "inUse", "delete"} =>
       r.profile \in Profiles /\ profile[r.profile] # None
  /\ r.pc \in {"lock", "replace"} => r.draft \in Drafts /\ AssertWindows(r.draft)
  /\ r.pc = "replace" => r.old = profile[r.profile]

\* What was kept of the fields of texts in one language.
Readings == [name : Words \cup {None}, about : Words \cup {None}]

\* A field empty in English shows the Thai, and so is not kept when it is read.
Claims(l, word) == word # None /\ (l = "th" \/ word # Null)

\* What an edit writes is what it names, and what was kept of the rest.
Carries(e, before, new) ==
  /\ before \in Readings /\ new \in Text
  /\ \A f \in Fields :
       /\ e[f] # None => new[f] = e[f]
       /\ (e[f] = None /\ Claims(e.language, before[f])) => new[f] = before[f]

TextingOK(r) ==
  /\ r.pc \in {"insert", "references", "readService", "writeService", "wait", "writeText"} =>
       r.edit \in Edits
  /\ r.pc \in {"insert", "references", "readService", "writeService", "deleteService"} =>
       r.service \in Services
  /\ r.pc \in {"writeService", "writeText"} => Carries(r.edit, r.kept, r.text)
  /\ r.pc = "deleteText" => r.doc \in Catalogue
  /\ r.pc = "writeText" => r.doc \in Docs
  /\ r.pc \in {"wait", "erase", "erased"} => r.doc \in Advisors /\ Is(text[r.doc])
  /\ r.pc = "wait" =>
       /\ r.seen \in Text \cup {None} /\ r.kept \in Readings
       /\ \A f \in Fields : Claims(r.edit.language, r.kept[f]) =>
            r.seen # None /\ r.seen[f] = r.kept[f]

\* The records of the steps that go on with what they carry.
ShapeOK(r) ==
  /\ r.pc = "references" =>
       r = [pc |-> "references", service |-> r.service, edit |-> r.edit,
            profile |-> r.profile, trial |-> r.trial]
  /\ r.pc = "read" =>
       r = [pc |-> "read", profiles |-> r.profiles, named |-> r.named,
            table |-> r.table, seen |-> r.seen]
  /\ r.pc = "erase" => r = [pc |-> "erase", doc |-> r.doc, gone |-> r.gone]

CarriedOK(r) == SavingOK(r) /\ TextingOK(r) /\ ShapeOK(r)

RequestsCarry ==
  /\ req = [s \in Sessions |-> req[s]]
  /\ \A s \in Sessions : req[s] # None => CarriedOK(req[s])

\* One request at a time replaces a schedule.
OneSaver ==
  \A s, t \in Sessions :
    (s # t /\ At(s, "replace") /\ At(t, "replace")) => req[s].profile # req[t].profile

SchedulesOK ==
  /\ profile = [p \in Profiles |-> profile[p]]
  /\ \A p \in Profiles : profile[p] = None \/ Whole(profile[p])

\* What is kept of a field in a language stands in that language's row.
KeptStands(d, l, f) ==
  /\ text[d] = None => kept[d][l][f] = None
  /\ (Is(text[d]) /\ Claims(l, kept[d][l][f])) =>
       text[d][l] # None /\ text[d][l][f] = kept[d][l][f]

Erased == [name |-> Placeholder, about |-> Null]

\* The row's own columns are the Thai text, or a deletion wrote them.
SourceOK(d) ==
  (Is(text[d]) /\ text[d].th # None) =>
    \/ text[d].own = text[d].th
    \/ /\ d \in deleted /\ text[d].own = Erased
       /\ \A f \in Fields : kept[d]["th"][f] = None

TextsOK ==
  /\ text \in [Docs -> TextRow \cup {None, Gone}]
  /\ kept \in [Docs -> [Languages -> Readings]]
  /\ \A d \in Docs : SourceOK(d)
  /\ \A d \in Docs, l \in Languages, f \in Fields : KeptStands(d, l, f)

\* A Service has a text as long as it has a row.
ServicesTexted ==
  /\ service = [v \in Services |-> service[v]]
  /\ \A v \in Services : Is(service[v]) => Is(text[v])

OfferInv == RequestsCarry /\ OneSaver /\ SchedulesOK /\ TextsOK /\ ServicesTexted

----------------------------------------------------------------------------
LEMMA MergedText ==
  ASSUME NEW e \in Edits, NEW t \in Text
  PROVE  /\ Merged(e, t) \in Text
         /\ \A f \in Fields : Merged(e, t)[f] = IF e[f] = None THEN t[f] ELSE e[f]
BY DEF Merged, Text, Words, Fields

LEMMA MergedReadings ==
  ASSUME NEW e \in Edits, NEW t \in Readings
  PROVE  /\ Merged(e, t) \in Readings
         /\ \A f \in Fields : Merged(e, t)[f] = IF e[f] = None THEN t[f] ELSE e[f]
BY DEF Merged, Readings, Words, Fields

LEMMA AgreedReadings ==
  ASSUME NEW a \in Readings, NEW b \in Readings
  PROVE  /\ Agreed(a, b) \in Readings
         /\ \A f \in Fields : Agreed(a, b)[f] = IF a[f] = b[f] THEN a[f] ELSE None
<1> DEFINE c == [f \in Fields |-> IF a[f] = b[f] THEN a[f] ELSE None]
<1>1. Agreed(a, b) = c
  BY DEF Agreed
<1>2. c["name"] \in Words \cup {None} /\ c["about"] \in Words \cup {None}
  BY DEF Readings, Fields
<1>3. c = [name |-> c["name"], about |-> c["about"]]
  <2>1. c = [f \in Fields |-> c[f]]
    OBVIOUS
  <2> HIDE DEF c
  <2> QED
    BY <2>1 DEF Fields
<1> HIDE DEF c
<1>4. c \in Readings
  BY <1>2, <1>3 DEF Readings
<1> QED
  BY <1>1, <1>4 DEF c

LEMMA CoalescedText ==
  ASSUME NEW t \in Text \cup {None}, NEW own \in Text
  PROVE  /\ Coalesce(t, own) \in Text
         /\ \A f \in Fields :
              Coalesce(t, own)[f] = IF t # None /\ t[f] # Null THEN t[f] ELSE own[f]
<1>1. CASE t = None
  BY <1>1 DEF Coalesce
<1>2. CASE t # None
  <2> DEFINE c == [f \in Fields |-> IF t[f] = Null THEN own[f] ELSE t[f]]
  <2>1. t \in Text /\ Coalesce(t, own) = c
    BY <1>2 DEF Coalesce
  <2>2. c["name"] \in Words /\ c["about"] \in Words
    BY <2>1 DEF Text, Fields
  <2>3. c = [name |-> c["name"], about |-> c["about"]]
    <3>1. c = [f \in Fields |-> c[f]]
      OBVIOUS
    <3> HIDE DEF c
    <3> QED
      BY <3>1 DEF Fields
  <2>4. c \in Text
    <3> HIDE DEF c
    <3> QED
      BY <2>2, <2>3 DEF Text
  <2> QED
    BY <1>2, <2>1, <2>4
<1> QED
  BY <1>1, <1>2

LEMMA RowText ==
  ASSUME TextsOK, NEW d \in Docs, Is(text[d])
  PROVE  /\ text[d] \in TextRow /\ text[d].own \in Text
         /\ \A l \in Languages : text[d][l] \in Text \cup {None}
BY DEF TextsOK, Is, TextRow, Languages

LEMMA KeptReading ==
  ASSUME TextsOK, NEW d \in Docs, NEW e \in Edits
  PROVE  Keeps(d, e) \in Readings
BY OfferAssumption DEF TextsOK, Keeps

\* What is read of a row: a translation as it is, or was, over the row's columns.
LEMMA ReadsKept ==
  ASSUME TextsOK, NEW d \in Docs, Is(text[d]), NEW l \in Languages, NEW f \in Fields,
         NEW t \in Text \cup {None}, Claims(l, kept[d][l][f]),
         t # None /\ t[f] = kept[d][l][f]
  PROVE  Coalesce(t, text[d].own)[f] = kept[d][l][f]
<1>1. Coalesce(t, text[d].own)[f] = IF t[f] # Null THEN t[f] ELSE text[d].own[f]
  BY RowText, CoalescedText
<1>2. CASE kept[d][l][f] # Null
  BY <1>1, <1>2
<1>3. CASE kept[d][l][f] = Null
  <2>1. l = "th" /\ kept[d]["th"][f] # None
    BY <1>3 DEF Claims
  <2>2. text[d].th # None /\ text[d].th[f] = Null
    <3>1. KeptStands(d, l, f)
      BY DEF TextsOK
    <3> QED
      BY <1>3, <2>1, <3>1 DEF KeptStands
  <2>3. text[d].own = text[d].th
    <3>1. SourceOK(d)
      BY DEF TextsOK
    <3> QED
      BY <2>1, <2>2, <3>1 DEF SourceOK
  <2> QED
    BY <1>1, <1>3, <2>2, <2>3
<1> QED
  BY <1>2, <1>3

LEMMA LocalizedKept ==
  ASSUME TextsOK, NEW d \in Docs, Is(text[d]), NEW l \in Languages
  PROVE  /\ Localized(d, l) \in Text
         /\ \A f \in Fields :
              Claims(l, kept[d][l][f]) => Localized(d, l)[f] = kept[d][l][f]
<1>1. Localized(d, l) \in Text
  BY RowText, CoalescedText DEF Localized
<1>2. ASSUME NEW f \in Fields, Claims(l, kept[d][l][f])
      PROVE  Localized(d, l)[f] = kept[d][l][f]
  <2>1. KeptStands(d, l, f)
    BY DEF TextsOK
  <2>2. text[d][l] # None /\ text[d][l][f] = kept[d][l][f]
    BY <1>2, <2>1 DEF KeptStands
  <2> QED
    BY <1>2, <2>2, RowText, ReadsKept DEF Localized
<1> QED
  BY <1>1, <1>2

\* An edit merged over what it read carries what was kept of that.
LEMMA CarriesMerged ==
  ASSUME NEW e \in Edits, NEW before \in Readings, NEW current \in Text,
         \A f \in Fields : Claims(e.language, before[f]) => current[f] = before[f]
  PROVE  Carries(e, before, Merged(e, current))
BY MergedText DEF Carries

LEMMA CarriesLocalized ==
  ASSUME TextsOK, NEW d \in Docs, Is(text[d]), NEW e \in Edits
  PROVE  Carries(e, Keeps(d, e), Merged(e, Localized(d, e.language)))
<1>1. e.language \in Languages
  BY OfferAssumption
<1>2. Keeps(d, e) \in Readings
  BY KeptReading
<1>3. /\ Localized(d, e.language) \in Text
      /\ \A f \in Fields :
           Claims(e.language, Keeps(d, e)[f]) => Localized(d, e.language)[f] = Keeps(d, e)[f]
  BY <1>1, LocalizedKept DEF Keeps
<1> QED
  BY <1>2, <1>3, CarriesMerged

\* A request that answers carries nothing more.
LEMMA AnswersCarry ==
  ASSUME NEW a \in Answers
  PROVE  CarriedOK([pc |-> a])
BY DEF Answers, CarriedOK, SavingOK, TextingOK, ShapeOK

\* One request goes on; the tables stay.
LEMMA Moves ==
  ASSUME OfferInv, NEW s \in Sessions, NEW r,
         req' = [req EXCEPT ![s] = r], UNCHANGED stored,
         r # None => CarriedOK(r),
         (r # None /\ r.pc = "replace") => ~RowLocked(r.profile)
  PROVE  OfferInv'
<1> USE DEF OfferInv, stored
<1>1. SchedulesOK' /\ TextsOK' /\ ServicesTexted'
  BY DEF SchedulesOK, TextsOK, KeptStands, SourceOK, ServicesTexted
<1>2. req' = [t \in Sessions |-> IF t = s THEN r ELSE req[t]]
  BY DEF RequestsCarry
<1>3. \A q : CarriedOK(q) => CarriedOK(q)'
  BY DEF CarriedOK, SavingOK, TextingOK, ShapeOK
<1>4. RequestsCarry'
  BY <1>2, <1>3 DEF RequestsCarry
<1>5. OneSaver'
  BY <1>2 DEF OneSaver, At, RowLocked
<1> QED
  BY <1>1, <1>4, <1>5

----------------------------------------------------------------------------
(* Schedules.                                                              *)

\* A note in the searches under way changes nothing else they carry.
LEMMA Noted ==
  ASSUME NEW t \in Sessions, NEW p, NEW row, req[t] # None => CarriedOK(req[t])
  PROVE  /\ At(t, "read") /\ p \in req[t].profiles => Noting(p, row, t).pc = "read"
         /\ ~(At(t, "read") /\ p \in req[t].profiles) => Noting(p, row, t) = req[t]
         /\ Noting(p, row, t) # None /\ Noting(p, row, t).pc = "read" =>
              CarriedOK(Noting(p, row, t))
<1>1. CASE At(t, "read") /\ p \in req[t].profiles
  <2> DEFINE new == Noting(p, row, t)
  <2>1. req[t] = [pc |-> "read", profiles |-> req[t].profiles, named |-> req[t].named,
                  table |-> req[t].table, seen |-> req[t].seen]
    BY <1>1 DEF CarriedOK, ShapeOK, At
  <2>2. new = [req[t] EXCEPT !.seen = [req[t].seen EXCEPT ![p] = req[t].seen[p] \cup {row}]]
    BY <1>1 DEF Noting
  <2>3. new = [pc |-> "read", profiles |-> req[t].profiles, named |-> req[t].named,
               table |-> req[t].table,
               seen |-> [req[t].seen EXCEPT ![p] = req[t].seen[p] \cup {row}]]
    <3> HIDE DEF new
    <3> QED
      BY <2>1, <2>2
  <2>4. new.pc = "read" /\ CarriedOK(new)
    <3> HIDE DEF new
    <3> QED
      BY <2>3 DEF CarriedOK, SavingOK, TextingOK, ShapeOK
  <2> QED
    BY <1>1, <2>4
<1>2. CASE ~(At(t, "read") /\ p \in req[t].profiles)
  BY <1>2 DEF Noting
<1> QED
  BY <1>1, <1>2

\* A schedule comes or changes while nobody else is replacing it.
LEMMA Schedule ==
  ASSUME OfferInv, NEW p \in Profiles, NEW row, Whole(row), Schedules(p, row),
         req' = [t \in Sessions |-> req'[t]],
         \A t \in Sessions :
           \/ req'[t] = [pc |-> "done"]
           \/ ~(At(t, "replace") /\ req[t].profile = p)
              /\ (req'[t] = req[t] \/ (req'[t] = Noting(p, row, t)))
  PROVE  OfferInv'
<1> USE DEF OfferInv
<1>1. row # None
  BY OfferAssumption DEF Whole
<1>2. profile' = [q \in Profiles |-> IF q = p THEN row ELSE profile[q]]
      /\ text' = text /\ kept' = kept /\ deleted' = deleted
  BY DEF Schedules, SchedulesOK
<1>3. SchedulesOK' /\ TextsOK' /\ ServicesTexted'
  <2>1. SchedulesOK'
    BY <1>2 DEF SchedulesOK, Whole
  <2>2. TextsOK' /\ ServicesTexted'
    BY <1>2 DEF TextsOK, KeptStands, SourceOK, ServicesTexted, Schedules
  <2> QED
    BY <2>1, <2>2
<1>4. \A r : CarriedOK(r) /\ ~(r.pc = "replace" /\ r.profile = p) => CarriedOK(r)'
  <2> SUFFICES ASSUME NEW r, CarriedOK(r), ~(r.pc = "replace" /\ r.profile = p)
               PROVE  CarriedOK(r)'
    OBVIOUS
  <2>1. SavingOK(r)'
    BY <1>1, <1>2 DEF CarriedOK, SavingOK
  <2>2. TextingOK(r)' /\ ShapeOK(r)'
    BY <1>2 DEF CarriedOK, TextingOK, ShapeOK
  <2> QED
    BY <2>1, <2>2 DEF CarriedOK
<1>0. PICK new : new = req'
  OBVIOUS
<1>5. ASSUME NEW t \in Sessions, new[t] # None
      PROVE  /\ CarriedOK(new[t])'
             /\ new[t].pc = "replace" => req[t] = new[t]
  <2>0. req[t] # None => CarriedOK(req[t])
    BY DEF RequestsCarry
  <2>1. CASE new[t] = [pc |-> "done"]
    <3>1. CarriedOK([pc |-> "done"])
      BY AnswersCarry DEF Answers
    <3> QED
      BY <2>1, <3>1, <1>4
  <2>2. CASE new[t] = req[t] /\ ~(At(t, "replace") /\ req[t].profile = p)
    BY <1>4, <1>5, <2>0, <2>2 DEF At
  <2>3. CASE new[t] = Noting(p, row, t) /\ ~(At(t, "replace") /\ req[t].profile = p)
    <3>1. CASE At(t, "read") /\ p \in req[t].profiles
      BY <1>4, <1>5, <2>0, <2>3, <3>1, Noted
    <3>2. CASE ~(At(t, "read") /\ p \in req[t].profiles)
      BY <1>4, <1>5, <2>0, <2>3, <3>2, Noted DEF At
    <3> QED
      BY <3>1, <3>2
  <2> QED
    BY <1>0, <2>1, <2>2, <2>3
<1>6. RequestsCarry'
  BY <1>0, <1>5 DEF RequestsCarry
<1>7. OneSaver'
  BY <1>0, <1>5 DEF OneSaver, At
<1> QED
  BY <1>3, <1>6, <1>7

----------------------------------------------------------------------------
(* Texts.                                                                  *)

LEMMA AdvisorsApart ==
  \A d \in Advisors : d \in Docs /\ d \notin Services /\ d \notin Catalogue
BY OfferAssumption DEF Docs

\* What Remember() leaves of an edit.
LEMMA Remembered ==
  ASSUME TextsOK, NEW d \in Docs, NEW e \in Edits, NEW before \in Readings,
         Remember(d, e, before)
  PROVE  /\ kept' \in [Docs -> [Languages -> Readings]]
         /\ \A c \in Docs, l \in Languages : ~(c = d /\ l = e.language) => kept'[c][l] = kept[c][l]
         /\ \A f \in Fields : kept'[d][e.language][f] =
              IF e[f] # None THEN e[f]
              ELSE IF kept[d][e.language][f] = before[f] THEN before[f] ELSE None
<1> DEFINE old == kept[d][e.language]
           new == Merged(e, Agreed(old, before))
<1>1. e.language \in Languages
  BY OfferAssumption
<1>2. kept \in [Docs -> [Languages -> Readings]]
  BY DEF TextsOK
<1>3. kept' = [kept EXCEPT ![d] = [kept[d] EXCEPT ![e.language] = new]]
  BY DEF Remember
<1>4. old \in Readings
  BY <1>1, <1>2
<1>5. Agreed(old, before) \in Readings
      /\ \A f \in Fields : Agreed(old, before)[f] = IF old[f] = before[f] THEN old[f] ELSE None
  BY <1>4, AgreedReadings
<1>6. /\ new \in Readings
      /\ \A f \in Fields : new[f] = IF e[f] # None THEN e[f]
                                    ELSE IF old[f] = before[f] THEN before[f] ELSE None
  BY <1>5, MergedReadings
<1> QED
  <2> HIDE DEF new
  <2> QED
    BY <1>1, <1>2, <1>3, <1>6

\* An edit of a row that is there.
LEMMA Saves ==
  ASSUME TextsOK, NEW d \in Docs, NEW e \in Edits, NEW before, NEW new,
         Is(text[d]), Carries(e, before, new), SaveText(d, e, new, before), deleted' = deleted
  PROVE  TextsOK' /\ Is(text'[d]) /\ \A c \in Docs : c # d => text'[c] = text[c]
<1>1. e.language \in Languages /\ before \in Readings /\ new \in Text /\ new # None
  BY OfferAssumption DEF Carries
<1>2. CASE ~Edited(e)
  <2>1. text' = text /\ kept' = kept
    BY <1>2 DEF SaveText
  <2> QED
    BY <2>1 DEF TextsOK, KeptStands, SourceOK
<1>3. CASE Edited(e)
  <2>1. Remember(d, e, before)
    BY <1>3 DEF SaveText
  <2>2. PICK row : row = [own |-> IF e.language = "th" THEN new ELSE text[d].own,
                          th  |-> IF e.language = "th" THEN new ELSE text[d].th,
                          en  |-> IF e.language = "en" THEN new ELSE text[d].en]
    OBVIOUS
  <2>3. text' = [text EXCEPT ![d] = row]
    BY <1>3, <2>2 DEF SaveText, WritesSourceText
  <2>4. row \in TextRow /\ Is(row)
    <3>1. row \in TextRow
      BY <1>1, <2>2, RowText DEF TextRow
    <3> QED
      BY <3>1, OfferAssumption DEF Is
  <2>5. text' \in [Docs -> TextRow \cup {None, Gone}] /\ text'[d] = row
        /\ \A c \in Docs : c # d => text'[c] = text[c]
    BY <2>3, <2>4 DEF TextsOK
  <2>6. /\ kept' \in [Docs -> [Languages -> Readings]]
        /\ \A c \in Docs, l \in Languages : ~(c = d /\ l = e.language) => kept'[c][l] = kept[c][l]
        /\ \A f \in Fields : kept'[d][e.language][f] =
             IF e[f] # None THEN e[f]
             ELSE IF kept[d][e.language][f] = before[f] THEN before[f] ELSE None
    BY <1>1, <2>1, Remembered
  <2>7. ASSUME NEW c \in Docs PROVE SourceOK(c)'
    <3>0. SourceOK(c) /\ "th" \in Languages
      BY DEF TextsOK, Languages
    <3>1. CASE c # d
      <4>1. text'[c] = text[c] /\ kept'[c]["th"] = kept[c]["th"]
        BY <2>5, <2>6, <3>0, <3>1
      <4> QED
        BY <3>0, <4>1 DEF SourceOK
    <3>2. CASE c = d /\ e.language = "th"
      BY <2>2, <2>5, <3>2 DEF SourceOK
    <3>3. CASE c = d /\ e.language # "th"
      <4>1. text'[c].own = text[c].own /\ text'[c].th = text[c].th
            /\ kept'[c]["th"] = kept[c]["th"]
        BY <2>2, <2>5, <2>6, <3>0, <3>3
      <4> QED
        BY <3>0, <3>3, <4>1 DEF SourceOK
    <3> QED
      BY <3>1, <3>2, <3>3
  <2>8. ASSUME NEW c \in Docs, NEW l \in Languages, NEW f \in Fields PROVE KeptStands(c, l, f)'
    <3>0. KeptStands(c, l, f)
      BY DEF TextsOK
    <3>1. CASE ~(c = d /\ l = e.language)
      <4>1. kept'[c][l] = kept[c][l]
        BY <2>6, <3>1
      <4>2. CASE c # d
        BY <2>5, <3>0, <4>1, <4>2 DEF KeptStands
      <4>3. CASE c = d
        <5>1. text'[c][l] = text[c][l]
          BY <1>1, <2>2, <2>5, <3>1, <4>3 DEF Languages
        <5> QED
          BY <2>4, <2>5, <3>0, <4>1, <4>3, <5>1 DEF KeptStands, Is
      <4> QED
        BY <4>2, <4>3
    <3>2. CASE c = d /\ l = e.language
      <4>1. text'[c][l] = new
        BY <1>1, <2>2, <2>5, <3>2 DEF Languages
      <4>2. kept'[c][l][f] = IF e[f] # None THEN e[f]
                             ELSE IF kept[c][l][f] = before[f] THEN before[f] ELSE None
        BY <2>6, <3>2
      <4>3. Claims(l, kept'[c][l][f]) => new[f] = kept'[c][l][f]
        BY <3>2, <4>2 DEF Carries, Claims
      <4> QED
        BY <1>1, <2>4, <2>5, <3>2, <4>1, <4>3 DEF KeptStands, Is, Claims
    <3> QED
      BY <3>1, <3>2
  <2> QED
    BY <2>4, <2>5, <2>6, <2>7, <2>8 DEF TextsOK
<1> QED
  BY <1>2, <1>3

\* A row that is new.
LEMMA Creates ==
  ASSUME TextsOK, NEW d \in Docs, NEW e \in Edits, text[d] = None,
         text' = [text EXCEPT ![d] = Created(e)], Remember(d, e, Keeps(d, e)), deleted' = deleted
  PROVE  TextsOK' /\ Is(text'[d]) /\ \A c \in Docs : c # d => text'[c] = text[c]
<1> DEFINE new == Merged(e, [name |-> Null, about |-> Null])
<1>1. e.language \in Languages /\ Keeps(d, e) \in Readings
  BY OfferAssumption, KeptReading
<1>2. /\ new \in Text /\ new # None
      /\ \A f \in Fields : e[f] # None => new[f] = e[f]
  <2>1. [name |-> Null, about |-> Null] \in Text
    BY OfferAssumption DEF Text, Words
  <2>2. /\ new \in Text
        /\ \A f \in Fields : e[f] # None => new[f] = e[f]
    BY <2>1, MergedText
  <2> QED
    BY <2>2, OfferAssumption
<1>3. PICK row : row = [own |-> new, th |-> IF e.language = "th" THEN new ELSE None,
                        en |-> IF e.language = "en" THEN new ELSE None]
  OBVIOUS
<1>4. text' = [text EXCEPT ![d] = row]
  BY <1>3 DEF Created
<1> HIDE DEF new
<1>5. row \in TextRow /\ Is(row)
  <2>1. row \in TextRow
    BY <1>2, <1>3 DEF TextRow
  <2> QED
    BY <2>1, OfferAssumption DEF Is
<1>6. text' \in [Docs -> TextRow \cup {None, Gone}] /\ text'[d] = row
      /\ \A c \in Docs : c # d => text'[c] = text[c]
  BY <1>4, <1>5 DEF TextsOK
<1>7. /\ kept' \in [Docs -> [Languages -> Readings]]
      /\ \A c \in Docs, l \in Languages : ~(c = d /\ l = e.language) => kept'[c][l] = kept[c][l]
      /\ \A f \in Fields : kept'[d][e.language][f] =
           IF e[f] # None THEN e[f]
           ELSE IF kept[d][e.language][f] = Keeps(d, e)[f] THEN Keeps(d, e)[f] ELSE None
  BY <1>1, Remembered
<1>8. ASSUME NEW c \in Docs PROVE SourceOK(c)'
  <2>1. CASE c # d
    <3>1. text'[c] = text[c] /\ kept'[c]["th"] = kept[c]["th"] /\ SourceOK(c)
      BY <1>6, <1>7, <2>1 DEF TextsOK, Languages
    <3> QED
      BY <3>1 DEF SourceOK
  <2>2. CASE c = d
    BY <1>3, <1>6, <2>2 DEF SourceOK
  <2> QED
    BY <2>1, <2>2
<1>9. ASSUME NEW c \in Docs, NEW l \in Languages, NEW f \in Fields PROVE KeptStands(c, l, f)'
  <2>0. KeptStands(c, l, f)
    BY DEF TextsOK
  <2>1. CASE c # d
    <3>1. text'[c] = text[c] /\ kept'[c][l] = kept[c][l]
      BY <1>6, <1>7, <2>1
    <3> QED
      BY <2>0, <3>1 DEF KeptStands
  <2>2. CASE c = d
    <3>1. kept[c][l][f] = None
      BY <2>0, <2>2 DEF KeptStands
    <3>2. CASE l = e.language
      <4>1. kept'[c][l][f] = IF e[f] # None THEN e[f] ELSE None
        BY <1>7, <2>2, <3>1, <3>2 DEF Keeps
      <4>2. text'[c][l] = new
        BY <1>1, <1>3, <1>6, <2>2, <3>2 DEF Languages
      <4> QED
        BY <1>2, <1>5, <1>6, <2>2, <4>1, <4>2 DEF KeptStands, Is, Claims
    <3>3. CASE l # e.language
      <4>1. kept'[c][l][f] = None
        BY <1>7, <3>1, <3>3
      <4> QED
        BY <4>1 DEF KeptStands, Claims
    <3> QED
      BY <3>2, <3>3
  <2> QED
    BY <2>1, <2>2
<1> QED
  BY <1>5, <1>6, <1>7, <1>8, <1>9 DEF TextsOK

\* A row is deleted.
LEMMA Deletes ==
  ASSUME TextsOK, NEW d \in Docs, text' = [text EXCEPT ![d] = Gone],
         kept' = kept, deleted' = deleted
  PROVE  TextsOK' /\ \A c \in Docs : c # d => text'[c] = text[c]
<1>1. text' \in [Docs -> TextRow \cup {None, Gone}] /\ text'[d] = Gone
      /\ \A c \in Docs : c # d => text'[c] = text[c]
  BY DEF TextsOK
<1>2. Gone # None
  BY OfferAssumption
<1>3. \A c \in Docs : SourceOK(c)'
  BY <1>1 DEF TextsOK, SourceOK, Is
<1>4. \A c \in Docs, l \in Languages, f \in Fields : KeptStands(c, l, f)'
  BY <1>1, <1>2 DEF TextsOK, KeptStands, Is
<1> QED
  BY <1>1, <1>3, <1>4 DEF TextsOK

\* A deletion writes the placeholder, and nothing is kept of the text.
LEMMA Erases ==
  ASSUME TextsOK, NEW d \in Advisors, Is(text[d]), NEW gone, NEW blank, NEW row,
         row = [own |-> Erased,
                th |-> IF "th" \in gone THEN None ELSE text[d].th,
                en |-> IF "en" \in gone THEN None ELSE text[d].en],
         blank = [l \in Languages |-> [name |-> None, about |-> None]],
         text' = [text EXCEPT ![d] = row], kept' = [kept EXCEPT ![d] = blank],
         deleted' = deleted \cup {d}
  PROVE  TextsOK' /\ Is(text'[d]) /\ \A c \in Docs : c # d => text'[c] = text[c]
<1>1. d \in Docs
  BY AdvisorsApart
<1>2. row \in TextRow /\ Is(row)
  <2>1. Erased \in Text
    BY OfferAssumption DEF Erased, Text, Words
  <2>2. row \in TextRow
    BY <1>1, <2>1, RowText DEF TextRow
  <2> QED
    BY <2>2, OfferAssumption DEF Is
<1>3. text' \in [Docs -> TextRow \cup {None, Gone}] /\ text'[d] = row
      /\ \A c \in Docs : c # d => text'[c] = text[c]
  BY <1>1, <1>2 DEF TextsOK
<1>4. /\ kept' \in [Docs -> [Languages -> Readings]]
      /\ \A c \in Docs : c # d => kept'[c] = kept[c]
      /\ \A l \in Languages, f \in Fields : kept'[d][l][f] = None
  <2>1. [name |-> None, about |-> None] \in Readings
    BY DEF Readings
  <2> QED
    BY <1>1, <2>1 DEF TextsOK, Fields
<1>5. ASSUME NEW c \in Docs PROVE SourceOK(c)'
  <2>1. CASE c # d
    <3>1. text'[c] = text[c] /\ kept'[c] = kept[c] /\ SourceOK(c)
      BY <1>3, <1>4, <2>1 DEF TextsOK
    <3> QED
      BY <3>1 DEF SourceOK
  <2>2. CASE c = d
    BY <1>3, <1>4, <2>2 DEF SourceOK, Languages
  <2> QED
    BY <2>1, <2>2
<1>6. ASSUME NEW c \in Docs, NEW l \in Languages, NEW f \in Fields PROVE KeptStands(c, l, f)'
  <2>1. CASE c # d
    <3>1. text'[c] = text[c] /\ kept'[c] = kept[c] /\ KeptStands(c, l, f)
      BY <1>3, <1>4, <2>1 DEF TextsOK
    <3> QED
      BY <3>1 DEF KeptStands
  <2>2. CASE c = d
    BY <1>4, <2>2 DEF KeptStands, Claims
  <2> QED
    BY <2>1, <2>2
<1> QED
  BY <1>2, <1>3, <1>4, <1>5, <1>6 DEF TextsOK

\* A row is written, and a request answered; no Advisor's profile goes.
LEMMA Rewrites ==
  ASSUME OfferInv, NEW s, NEW r, TextsOK', ServicesTexted', profile' = profile,
         req' = req \/ (req' = [req EXCEPT ![s] = r] /\ \E a \in Answers : r = [pc |-> a]),
         \A d \in Advisors : Is(text[d]) => Is(text'[d])
  PROVE  OfferInv'
<1> USE DEF OfferInv
<1>1. SchedulesOK'
  BY DEF SchedulesOK, Whole
<1>2. PICK new : new = req'
  OBVIOUS
<1>3. ASSUME NEW t \in Sessions, new[t] # None
      PROVE  CarriedOK(new[t])' /\ (new[t].pc = "replace" => new[t] = req[t])
  <2>1. CASE new # req /\ t = s
    <3>1. PICK a \in Answers : new[t] = [pc |-> a]
      BY <1>2, <2>1 DEF RequestsCarry
    <3>2. SavingOK([pc |-> a])' /\ TextingOK([pc |-> a])' /\ ShapeOK([pc |-> a])'
      BY DEF Answers, SavingOK, TextingOK, ShapeOK
    <3> QED
      BY <3>1, <3>2 DEF Answers, CarriedOK
  <2>2. CASE ~(new # req /\ t = s)
    <3>1. new[t] = req[t] /\ CarriedOK(req[t])
      BY <1>2, <1>3, <2>2 DEF RequestsCarry
    <3>2. SavingOK(new[t])' /\ ShapeOK(new[t])'
      BY <3>1 DEF CarriedOK, SavingOK, ShapeOK
    <3>3. TextingOK(new[t])'
      BY <3>1 DEF CarriedOK, TextingOK
    <3> QED
      BY <3>1, <3>2, <3>3 DEF CarriedOK
  <2> QED
    BY <2>1, <2>2
<1>4. RequestsCarry'
  <2>1. new = [t \in Sessions |-> new[t]]
    BY <1>2 DEF RequestsCarry
  <2> QED
    BY <1>2, <1>3, <2>1 DEF RequestsCarry
<1>5. OneSaver'
  BY <1>2, <1>3 DEF OneSaver, At
<1> QED
  BY <1>1, <1>4, <1>5

----------------------------------------------------------------------------
(* One lemma per operation of the offer.                                   *)

LEMMA InitHolds == Init => OfferInv
<1> SUFFICES ASSUME Init PROVE OfferInv
  OBVIOUS
<1>1. RequestsCarry /\ OneSaver /\ SchedulesOK
  BY DEF Init, RequestsCarry, OneSaver, SchedulesOK, At
<1>8. ServicesTexted
  <2>1. PICK old \in SUBSET Services :
          /\ service = [v \in Services |-> IF v \in old THEN Legacy ELSE None]
          /\ text = [d \in Docs |->
               IF d \in old \/ (d \in Categories /\ old # {})
               THEN [own |-> [name |-> Null, about |-> Null], th |-> None, en |-> None] ELSE None]
    BY DEF Init
  <2>2. [own |-> [name |-> Null, about |-> Null], th |-> None, en |-> None] \in TextRow
    BY OfferAssumption DEF TextRow, Text, Words
  <2> QED
    BY <2>1, <2>2, OfferAssumption DEF ServicesTexted, Is, Docs
<1>2. PICK old \in SUBSET Services :
        text = [d \in Docs |->
            IF d \in old \/ (d \in Categories /\ old # {})
            THEN [own |-> [name |-> Null, about |-> Null], th |-> None, en |-> None] ELSE None]
  BY DEF Init
<1>3. [own |-> [name |-> Null, about |-> Null], th |-> None, en |-> None] \in TextRow
  BY OfferAssumption DEF TextRow, Text, Words
<1>4. text \in [Docs -> TextRow \cup {None, Gone}]
  BY <1>2, <1>3
<1>5. /\ kept \in [Docs -> [Languages -> Readings]]
      /\ \A d \in Docs, l \in Languages, f \in Fields : kept[d][l][f] = None
  <2>1. kept = [d \in Docs |-> [l \in Languages |-> [name |-> None, about |-> None]]]
    BY DEF Init
  <2>2. [name |-> None, about |-> None] \in Readings
    BY DEF Readings
  <2> QED
    BY <2>1, <2>2 DEF Fields
<1>6. \A d \in Docs : SourceOK(d)
  BY <1>2 DEF SourceOK, Is
<1>7. \A d \in Docs, l \in Languages, f \in Fields : KeptStands(d, l, f)
  BY <1>5 DEF KeptStands, Claims
<1> QED
  BY <1>1, <1>4, <1>5, <1>6, <1>7, <1>8 DEF OfferInv, TextsOK

LEMMA RequestOf ==
  ASSUME OfferInv, NEW s \in Sessions, req[s] # None
  PROVE  CarriedOK(req[s])
BY DEF OfferInv, RequestsCarry

\* A request is answered and the tables stay.
LEMMA Answered ==
  ASSUME OfferInv, NEW s \in Sessions, NEW a \in Answers, Answer(s, a), UNCHANGED stored
  PROVE  OfferInv'
<1>1. a # "replace" /\ CarriedOK([pc |-> a])
  BY AnswersCarry DEF Answers
<1> QED
  BY <1>1, Moves DEF Answer, Go

\* A request begins with a refusal.
LEMMA Refused ==
  ASSUME OfferInv, NEW s \in Sessions, NEW a \in Answers, Begin(s, [pc |-> a]), UNCHANGED stored
  PROVE  OfferInv'
<1>1. a # "replace" /\ CarriedOK([pc |-> a])
  BY AnswersCarry DEF Answers
<1> QED
  BY <1>1, Moves DEF Begin

LEMMA ForgetStep ==
  ASSUME OfferInv, NEW s \in Sessions, Forget(s)
  PROVE  OfferInv'
BY Moves DEF Forget, Go

LEMMA CreateProfileStep ==
  ASSUME OfferInv, NEW p \in Profiles, NEW draft \in Drafts, CreateProfile(p, draft)
  PROVE  OfferInv'
<1>1. Whole(Saved(draft, FALSE))
  BY DEF CreateProfile, Whole
<1>2. \A t \in Sessions : ~(At(t, "replace") /\ req[t].profile = p)
  BY RequestOf DEF CreateProfile, At, CarriedOK, SavingOK
<1>3. Schedules(p, Saved(draft, FALSE)) /\ req' = req
  BY DEF CreateProfile
<1>4. req' = [t \in Sessions |-> req'[t]]
  BY <1>3 DEF OfferInv, RequestsCarry
<1> QED
  BY <1>1, <1>2, <1>3, <1>4, Schedule

LEMMA UpdateProfileStep ==
  ASSUME OfferInv, NEW s \in Sessions, NEW p \in Profiles, NEW draft \in Drafts,
         UpdateProfile(s, p, draft)
  PROVE  OfferInv'
<1>1. CASE ~AssertWindows(draft)
  <2>1. Begin(s, [pc |-> "badRequest"]) /\ UNCHANGED stored
    BY <1>1 DEF UpdateProfile
  <2> QED
    BY <2>1, Refused DEF Answers
<1>2. CASE AssertWindows(draft) /\ ~Live(p)
  <2>1. Begin(s, [pc |-> "notFound"]) /\ UNCHANGED stored
    BY <1>2 DEF UpdateProfile
  <2> QED
    BY <2>1, Refused DEF Answers
<1>3. CASE AssertWindows(draft) /\ Live(p)
  <2>1. PICK r : r = [pc |-> "lock", profile |-> p, draft |-> draft]
    OBVIOUS
  <2>2. req' = [req EXCEPT ![s] = r] /\ UNCHANGED stored /\ profile[p] # None
    BY <1>3, <2>1 DEF UpdateProfile, Begin, Is
  <2>3. CarriedOK(r) /\ r.pc = "lock"
    BY <1>3, <2>1, <2>2 DEF CarriedOK, SavingOK, TextingOK, ShapeOK
  <2> QED
    BY <2>2, <2>3, Moves
<1> QED
  BY <1>1, <1>2, <1>3

LEMMA LockProfileStep ==
  ASSUME OfferInv, NEW s \in Sessions, LockProfile(s)
  PROVE  OfferInv'
<1>1. PICK r : r = [pc |-> "replace", profile |-> req[s].profile, draft |-> req[s].draft,
                    old |-> profile[req[s].profile]]
  OBVIOUS
<1>2. req' = [req EXCEPT ![s] = r] /\ UNCHANGED stored /\ ~RowLocked(r.profile)
  BY <1>1 DEF LockProfile, Go
<1>3. CarriedOK(r) /\ r.pc = "replace"
  BY <1>1, RequestOf DEF LockProfile, At, CarriedOK, SavingOK, TextingOK, ShapeOK
<1> QED
  BY <1>2, <1>3, Moves

\* What is left of the tables is the draft: nobody else wrote them meanwhile.
LEMMA ReplacesWhole ==
  ASSUME OfferInv, NEW s \in Sessions, ReplaceWindows(s)
  PROVE  \E p, row :
           p \in Profiles /\ p = req[s].profile /\ Whole(row) /\ Settle(s, p, row)
<1> DEFINE p == req[s].profile
           draft == req[s].draft
           Left(k) == (profile[p][k] \ req[s].old[k]) \cup draft[k]
           row == Saved([k \in Tables |-> Left(k)], profile[p].deleted)
<1>1. Settle(s, p, row)
  BY DEF ReplaceWindows
<1>2. /\ p \in Profiles /\ profile[p] # None /\ req[s].old = profile[p]
      /\ draft \in Drafts /\ AssertWindows(draft)
  BY RequestOf DEF ReplaceWindows, At, CarriedOK, SavingOK
<1>3. \A k \in Tables : Left(k) = draft[k]
  BY <1>2
<1>4. profile[p].deleted \in BOOLEAN
  BY <1>2 DEF OfferInv, SchedulesOK, Whole, Saved
<1>5. row = Saved(draft, profile[p].deleted)
  <2>1. /\ [k \in Tables |-> Left(k)].weekly = draft.weekly
        /\ [k \in Tables |-> Left(k)].specific = draft.specific
        /\ [k \in Tables |-> Left(k)].blocked = draft.blocked
    <3> HIDE DEF Left, p, draft
    <3> QED
      BY <1>3 DEF Tables
  <2> QED
    BY <2>1 DEF Saved
<1>6. Whole(row)
  <2> HIDE DEF row, p, draft
  <2> QED
    BY <1>2, <1>4, <1>5 DEF Whole
<1> QED
  <2> HIDE DEF p, row
  <2> QED
    BY <1>1, <1>2, <1>6 DEF p

LEMMA ReplaceWindowsStep ==
  ASSUME OfferInv, NEW s \in Sessions, ReplaceWindows(s)
  PROVE  OfferInv'
<1>1. PICK p, row :
        p \in Profiles /\ p = req[s].profile /\ Whole(row) /\ Settle(s, p, row)
  BY ReplacesWhole
<1>2. Schedules(p, row)
  BY <1>1 DEF Settle
<1>3. /\ req' = [t \in Sessions |-> req'[t]]
      /\ \A t \in Sessions : IF t = s THEN req'[t] = [pc |-> "done"] ELSE req'[t] = Noting(p, row, t)
  BY <1>1 DEF Settle
<1>4. \A t \in Sessions : t # s => ~(At(t, "replace") /\ req[t].profile = p)
  BY <1>1 DEF ReplaceWindows, OfferInv, OneSaver
<1> QED
  BY <1>1, <1>2, <1>3, <1>4, Schedule

LEMMA DeleteProfileStep ==
  ASSUME OfferInv, NEW s \in Sessions, NEW p \in Profiles, DeleteProfile(s, p)
  PROVE  OfferInv'
<1>1. CASE Live(p)
  <2>1. PICK r : r = [pc |-> "inUse", profile |-> p]
    OBVIOUS
  <2>2. req' = [req EXCEPT ![s] = r] /\ UNCHANGED stored /\ profile[p] # None
    BY <1>1, <2>1 DEF DeleteProfile, Begin, Is
  <2>3. CarriedOK(r) /\ r.pc = "inUse"
    BY <2>1, <2>2 DEF CarriedOK, SavingOK, TextingOK, ShapeOK
  <2> QED
    BY <2>2, <2>3, Moves
<1>2. CASE ~Live(p)
  <2>1. Begin(s, [pc |-> "notFound"]) /\ UNCHANGED stored
    BY <1>2 DEF DeleteProfile
  <2> QED
    BY <2>1, Refused DEF Answers
<1> QED
  BY <1>1, <1>2

LEMMA IsProfileInUseStep ==
  ASSUME OfferInv, NEW s \in Sessions, IsProfileInUse(s)
  PROVE  OfferInv'
<1>1. CASE Answer(s, "conflict") /\ UNCHANGED stored
  BY <1>1, Answered DEF Answers
<1>2. CASE Go(s, [pc |-> "delete", profile |-> req[s].profile]) /\ UNCHANGED stored
  <2>1. PICK r : r = [pc |-> "delete", profile |-> req[s].profile]
    OBVIOUS
  <2>2. CarriedOK(r) /\ r.pc = "delete"
    BY <2>1, RequestOf DEF IsProfileInUse, At, CarriedOK, SavingOK, TextingOK, ShapeOK
  <2> QED
    BY <1>2, <2>1, <2>2, Moves DEF Go
<1> QED
  BY <1>1, <1>2 DEF IsProfileInUse

\* A deletion keeps the schedule.
LEMMA MarkedDeleted ==
  ASSUME NEW draft \in Drafts, AssertWindows(draft), NEW gone, NEW row,
         row = Saved(draft, gone)
  PROVE  Whole([row EXCEPT !.deleted = TRUE])
<1> SUFFICES ASSUME NEW mark \in BOOLEAN
             PROVE  Whole([row EXCEPT !.deleted = mark])
  BY Zenon
<1>1. PICK w, d, b : w = draft.weekly /\ d = draft.specific /\ b = draft.blocked
  OBVIOUS
<1>2. row = [deleted |-> gone, weekly |-> w, specific |-> d, blocked |-> b]
  BY <1>1 DEF Saved
<1>3. [row EXCEPT !.deleted = mark]
        = [deleted |-> mark, weekly |-> w, specific |-> d, blocked |-> b]
  BY <1>2
<1>4. [row EXCEPT !.deleted = mark] = Saved(draft, mark)
  BY <1>1, <1>3 DEF Saved
<1> QED
  BY <1>4 DEF Whole

LEMMA DeletesWhole ==
  ASSUME OfferInv, NEW s \in Sessions, SoftDelete(s), Live(req[s].profile)
  PROVE  \E p, row :
           p \in Profiles /\ p = req[s].profile /\ Whole(row) /\ Settle(s, p, row)
<1> DEFINE p == req[s].profile
           row == [profile[p] EXCEPT !.deleted = TRUE]
<1>1. Settle(s, p, row)
  BY DEF SoftDelete
<1>2. p \in Profiles /\ profile[p] # None
  BY RequestOf DEF SoftDelete, At, CarriedOK, SavingOK
<1>3. PICK draft \in Drafts, gone \in BOOLEAN :
        AssertWindows(draft) /\ profile[p] = Saved(draft, gone)
  BY <1>2 DEF OfferInv, SchedulesOK, Whole
<1>4. Whole(row)
  BY <1>3, MarkedDeleted, Zenon
<1> QED
  <2> HIDE DEF row
  <2> QED
    BY <1>1, <1>2, <1>4

LEMMA SoftDeleteStep ==
  ASSUME OfferInv, NEW s \in Sessions, SoftDelete(s)
  PROVE  OfferInv'
<1>1. CASE ~Live(req[s].profile)
  BY <1>1, Answered DEF SoftDelete, Answers
<1>2. CASE Live(req[s].profile)
  <2>1. PICK p, row :
          p \in Profiles /\ p = req[s].profile /\ Whole(row) /\ Settle(s, p, row)
    BY <1>2, DeletesWhole
  <2>2. Schedules(p, row)
    BY <2>1 DEF Settle
  <2>3. /\ req' = [t \in Sessions |-> req'[t]]
        /\ \A t \in Sessions :
             IF t = s THEN req'[t] = [pc |-> "done"] ELSE req'[t] = Noting(p, row, t)
    BY <2>1 DEF Settle
  <2>4. \A t \in Sessions : ~(At(t, "replace") /\ req[t].profile = p)
    BY <2>1 DEF SoftDelete, RowLocked
  <2> QED
    BY <2>1, <2>2, <2>3, <2>4, Schedule
<1> QED
  BY <1>1, <1>2

LEMMA CreateTextStep ==
  ASSUME OfferInv, NEW d \in Docs, NEW e \in Edits, CreateText(d, e)
  PROVE  OfferInv'
<1>1. PICK s, r : s = None /\ r = None
  OBVIOUS
<1>2. /\ text' = [text EXCEPT ![d] = Created(e)] /\ Remember(d, e, Keeps(d, e))
      /\ text[d] = None /\ deleted' = deleted
  BY DEF CreateText
<1>3. TextsOK' /\ Is(text'[d]) /\ \A c \in Docs : c # d => text'[c] = text[c]
  BY <1>2, Creates DEF OfferInv
<1>4. ServicesTexted'
  BY <1>3 DEF CreateText, OfferInv, ServicesTexted, Is, Docs
<1>5. \A c \in Advisors : Is(text[c]) => Is(text'[c])
  BY <1>3, AdvisorsApart DEF Is
<1>6. profile' = profile /\ req' = req
  BY DEF CreateText
<1> QED
  BY <1>3, <1>4, <1>5, <1>6, Rewrites

LEMMA EditTextStep ==
  ASSUME OfferInv, NEW s \in Sessions, NEW d \in Docs, NEW e \in Edits, EditText(s, d, e)
  PROVE  OfferInv'
<1>1. Is(text[d]) /\ UNCHANGED stored
  BY DEF EditText
<1>2. PICK r : r = Editing(d, e, Localized(d, e.language), Keeps(d, e))
  OBVIOUS
<1>3. req' = [req EXCEPT ![s] = r]
  BY <1>2 DEF EditText, Begin
<1>4. Carries(e, Keeps(d, e), Merged(e, Localized(d, e.language)))
  BY <1>1, CarriesLocalized DEF OfferInv
<1>5. CarriedOK(r) /\ r.pc = "writeText"
  BY <1>2, <1>4 DEF Editing, CarriedOK, SavingOK, TextingOK, ShapeOK
<1> QED
  BY <1>1, <1>3, <1>5, Moves

\* An edit that waits remembers what it read of the translation.
LEMMA WaitStep ==
  ASSUME OfferInv, NEW s \in Sessions, NEW d \in Advisors, NEW e \in Edits,
         Is(text[d]), UNCHANGED stored,
         Begin(s, [pc |-> "wait", doc |-> d, edit |-> e,
                   seen |-> text[d][e.language], kept |-> Keeps(d, e)])
  PROVE  OfferInv'
<1>1. d \in Docs /\ e.language \in Languages
  BY AdvisorsApart, OfferAssumption
<1>2. PICK r : r = [pc |-> "wait", doc |-> d, edit |-> e,
                    seen |-> text[d][e.language], kept |-> Keeps(d, e)]
  OBVIOUS
<1>3. req' = [req EXCEPT ![s] = r]
  BY <1>2 DEF Begin
<1>4. r.seen \in Text \cup {None} /\ r.kept \in Readings
  BY <1>1, <1>2, RowText, KeptReading DEF OfferInv
<1>5. \A f \in Fields : Claims(e.language, r.kept[f]) =>
        r.seen # None /\ r.seen[f] = r.kept[f]
  <2>1. \A f \in Fields : KeptStands(d, e.language, f)
    BY <1>1 DEF OfferInv, TextsOK
  <2> QED
    BY <1>2, <2>1 DEF KeptStands, Keeps
<1>6. CarriedOK(r) /\ r.pc = "wait"
  BY <1>2, <1>4, <1>5 DEF CarriedOK, SavingOK, TextingOK, ShapeOK
<1> QED
  BY <1>3, <1>6, Moves

LEMMA EditStep ==
  ASSUME OfferInv, NEW s \in Sessions, NEW d \in Docs, NEW e \in Edits,
         EditCategory(s, d, e) \/ EditSkill(s, d, e) \/ UpdateAdvisorProfile(s, d, e)
  PROVE  OfferInv'
<1>1. CASE EditText(s, d, e)
  BY <1>1, EditTextStep
<1>2. CASE ~EditText(s, d, e)
  BY <1>2, WaitStep DEF EditCategory, EditSkill, UpdateAdvisorProfile
<1> QED
  BY <1>1, <1>2

\* What was kept when an edit began to wait, and still is, it read.
LEMMA LockAdvisorProfileStep ==
  ASSUME OfferInv, NEW s \in Sessions, LockAdvisorProfile(s)
  PROVE  OfferInv'
<1>1. PICK q : q = req[s]
  OBVIOUS
<1>2. q.pc = "wait" /\ TextingOK(q) /\ UNCHANGED stored
  BY <1>1, RequestOf DEF LockAdvisorProfile, At, CarriedOK
<1>3. PICK d, e : d = q.doc /\ e = q.edit
  OBVIOUS
<1>4. /\ d \in Advisors /\ d \in Docs /\ Is(text[d])
      /\ e \in Edits /\ e.language \in Languages
      /\ q.seen \in Text \cup {None} /\ q.kept \in Readings
      /\ \A f \in Fields : Claims(e.language, q.kept[f]) => q.seen # None /\ q.seen[f] = q.kept[f]
  BY <1>2, <1>3, AdvisorsApart, OfferAssumption DEF TextingOK
<1>5. PICK current, before :
        current = Coalesce(q.seen, text[d].own) /\ before = Agreed(Keeps(d, e), q.kept)
  OBVIOUS
<1>6. /\ before \in Readings
      /\ \A f \in Fields :
           before[f] = IF Keeps(d, e)[f] = q.kept[f] THEN Keeps(d, e)[f] ELSE None
  BY <1>4, <1>5, KeptReading, AgreedReadings DEF OfferInv
<1>7. current \in Text
  BY <1>4, <1>5, RowText, CoalescedText DEF OfferInv
<1>8. ASSUME NEW f \in Fields, Claims(e.language, before[f])
      PROVE  current[f] = before[f]
  <2>1. before[f] = kept[d][e.language][f] /\ before[f] = q.kept[f]
    BY <1>6, <1>8 DEF Claims, Keeps
  <2>2. q.seen # None /\ q.seen[f] = kept[d][e.language][f] /\ Claims(e.language, kept[d][e.language][f])
    BY <1>4, <1>8, <2>1
  <2> QED
    BY <1>4, <1>5, <2>1, <2>2, ReadsKept DEF OfferInv
<1>9. PICK r : r = Editing(d, e, current, before)
  OBVIOUS
<1>10. req' = [req EXCEPT ![s] = r]
  BY <1>1, <1>3, <1>5, <1>9 DEF LockAdvisorProfile, Go
<1>11. Carries(e, before, Merged(e, current))
  BY <1>4, <1>6, <1>7, <1>8, CarriesMerged
<1>12. CarriedOK(r) /\ r.pc = "writeText"
  BY <1>4, <1>9, <1>11 DEF Editing, CarriedOK, SavingOK, TextingOK, ShapeOK
<1> QED
  BY <1>2, <1>10, <1>12, Moves

LEMMA WriteTextStep ==
  ASSUME OfferInv, NEW s \in Sessions, WriteText(s)
  PROVE  OfferInv'
<1> DEFINE d == req[s].doc
           e == req[s].edit
           before == req[s].kept
           new == req[s].text
<1>1. At(s, "writeText") /\ profile' = profile /\ deleted' = deleted
  BY DEF WriteText
<1>2. d \in Docs /\ e \in Edits /\ Carries(e, before, new)
  BY <1>1, RequestOf DEF At, CarriedOK, TextingOK
<1>3. CASE Is(text[d])
  <2>1. SaveText(d, e, new, before) /\ Answer(s, "done")
    BY <1>3 DEF WriteText
  <2>2. PICK r : r = [pc |-> "done"]
    OBVIOUS
  <2>3. req' = [req EXCEPT ![s] = r] /\ \E a \in Answers : r = [pc |-> a]
    BY <2>1, <2>2 DEF Answer, Go, Answers
  <2> HIDE DEF d, e, before, new
  <2>4. TextsOK' /\ Is(text'[d]) /\ \A c \in Docs : c # d => text'[c] = text[c]
    BY <1>1, <1>2, <1>3, <2>1, Saves DEF OfferInv
  <2>5. ServicesTexted'
    BY <2>4 DEF WriteText, OfferInv, ServicesTexted, Is, Docs
  <2>6. \A c \in Advisors : Is(text[c]) => Is(text'[c])
    BY <2>4, AdvisorsApart DEF Is
  <2> QED
    BY <1>1, <2>3, <2>4, <2>5, <2>6, Rewrites
<1>4. CASE ~Is(text[d])
  <2>1. Answer(s, "notFound") /\ UNCHANGED stored
    BY <1>4 DEF WriteText, stored
  <2> QED
    BY <2>1, Answered DEF Answers
<1> QED
  BY <1>3, <1>4

LEMMA EraseTranslationsStep ==
  ASSUME OfferInv, NEW s \in Sessions, NEW d \in Docs, EraseTranslations(s, d)
  PROVE  OfferInv'
<1>1. PICK r : r = [pc |-> "erase", doc |-> d, gone |-> {l \in Languages : text[d][l] # None}]
  OBVIOUS
<1>2. req' = [req EXCEPT ![s] = r] /\ UNCHANGED stored /\ d \in Advisors /\ Is(text[d])
  BY <1>1 DEF EraseTranslations, Begin
<1>3. CarriedOK(r) /\ r.pc = "erase"
  BY <1>1, <1>2 DEF CarriedOK, SavingOK, TextingOK, ShapeOK
<1> QED
  BY <1>2, <1>3, Moves

LEMMA EraseProfileStep ==
  ASSUME OfferInv, NEW s \in Sessions, EraseProfile(s)
  PROVE  OfferInv'
<1>1. PICK q : q = req[s]
  OBVIOUS
<1>2. /\ q.doc \in Advisors /\ Is(text[q.doc])
      /\ q = [pc |-> "erase", doc |-> q.doc, gone |-> q.gone]
  BY <1>1, RequestOf DEF EraseProfile, At, CarriedOK, TextingOK, ShapeOK
<1>3. PICK d, gone : d = q.doc /\ gone = q.gone
  OBVIOUS
<1>4. PICK r : r = [q EXCEPT !.pc = "erased"]
  OBVIOUS
<1>5. r = [pc |-> "erased", doc |-> d, gone |-> gone]
  BY <1>2, <1>3, <1>4
<1>6. CarriedOK(r) /\ r.pc = "erased"
  BY <1>2, <1>3, <1>5 DEF CarriedOK, SavingOK, TextingOK, ShapeOK
<1>7. req' = [req EXCEPT ![s] = r] /\ UNCHANGED stored
  BY <1>1, <1>4 DEF EraseProfile, Go
<1> QED
  BY <1>6, <1>7, Moves

LEMMA CommitErasureStep ==
  ASSUME OfferInv, NEW s \in Sessions, CommitErasure(s)
  PROVE  OfferInv'
<1>1. PICK d, gone : d = req[s].doc /\ gone = req[s].gone
  OBVIOUS
<1>2. d \in Advisors /\ Is(text[d])
  BY <1>1, RequestOf DEF CommitErasure, At, CarriedOK, TextingOK
<1>3. PICK blank, row :
        /\ blank = [l \in Languages |-> [name |-> None, about |-> None]]
        /\ row = [own |-> Erased,
                  th |-> IF "th" \in gone THEN None ELSE text[d].th,
                  en |-> IF "en" \in gone THEN None ELSE text[d].en]
  OBVIOUS
<1>4. /\ text' = [text EXCEPT ![d] = row] /\ kept' = [kept EXCEPT ![d] = blank]
      /\ deleted' = deleted \cup {d}
  BY <1>1, <1>3 DEF CommitErasure, Erased
<1>5. TextsOK' /\ Is(text'[d]) /\ \A c \in Docs : c # d => text'[c] = text[c]
  BY <1>2, <1>3, <1>4, Erases DEF OfferInv
<1>6. profile' = profile /\ service' = service /\ Answer(s, "done")
  BY DEF CommitErasure
<1>7. ServicesTexted'
  BY <1>5, <1>6 DEF OfferInv, ServicesTexted, Is, Docs
<1>8. \A c \in Advisors : Is(text[c]) => Is(text'[c])
  BY <1>5, AdvisorsApart DEF Is
<1>9. PICK r : r = [pc |-> "done"]
  OBVIOUS
<1>10. req' = [req EXCEPT ![s] = r] /\ \E a \in Answers : r = [pc |-> a]
  BY <1>6, <1>9 DEF Answer, Go, Answers
<1> QED
  BY <1>5, <1>6, <1>7, <1>8, <1>10, Rewrites

LEMMA DetectDeadlockStep ==
  ASSUME OfferInv, NEW s \in Sessions, DetectDeadlock(s)
  PROVE  OfferInv'
BY Answered DEF DetectDeadlock, Answers

LEMMA DeleteTextStep ==
  ASSUME OfferInv, NEW s \in Sessions, NEW d \in Docs, DeleteText(s, d)
  PROVE  OfferInv'
<1>1. PICK r : r = [pc |-> "deleteText", doc |-> d]
  OBVIOUS
<1>2. req' = [req EXCEPT ![s] = r] /\ UNCHANGED stored /\ d \in Catalogue
  BY <1>1 DEF DeleteText, Begin
<1>3. CarriedOK(r) /\ r.pc = "deleteText"
  BY <1>1, <1>2 DEF CarriedOK, SavingOK, TextingOK, ShapeOK
<1> QED
  BY <1>2, <1>3, Moves

\* A row that is no Advisor's goes, and the request is answered.
LEMMA RowGone ==
  ASSUME OfferInv, NEW s \in Sessions, NEW d \in Docs, d \notin Advisors,
         NEW a \in Answers, Answer(s, a), text' = [text EXCEPT ![d] = Gone],
         service' = service \/ service' = [service EXCEPT ![d] = Gone],
         d \in Services => service' # service \/ ~Is(service[d]),
         profile' = profile, kept' = kept, deleted' = deleted
  PROVE  OfferInv'
<1>1. TextsOK' /\ ServicesTexted'
  <2>1. TextsOK' /\ \A c \in Docs : c # d => text'[c] = text[c]
    BY Deletes DEF OfferInv
  <2> QED
    BY <2>1 DEF OfferInv, ServicesTexted, Is, Docs
<1>2. PICK r : r = [pc |-> a]
  OBVIOUS
<1>3. req' = [req EXCEPT ![s] = r] /\ \E b \in Answers : r = [pc |-> b]
  BY <1>2 DEF Answer, Go
<1>4. \A c \in Advisors : Is(text[c]) => Is(text'[c])
  BY AdvisorsApart DEF OfferInv, TextsOK
<1> QED
  BY <1>1, <1>3, <1>4, Rewrites

LEMMA DeleteRowStep ==
  ASSUME OfferInv, NEW s \in Sessions, NEW claimed \in BOOLEAN, DeleteRow(s, claimed)
  PROVE  OfferInv'
<1>1. req[s].doc \in Catalogue
  BY RequestOf DEF DeleteRow, At, CarriedOK, TextingOK
<1>2. req[s].doc \in Docs /\ req[s].doc \notin Advisors /\ req[s].doc \notin Services
  BY <1>1, AdvisorsApart, OfferAssumption DEF Docs
<1>3. \/ \E a \in Answers : Answer(s, a) /\ UNCHANGED stored
      \/ /\ Answer(s, "done") /\ text' = [text EXCEPT ![req[s].doc] = Gone]
         /\ profile' = profile /\ service' = service /\ kept' = kept /\ deleted' = deleted
  BY DEF DeleteRow, Answers, stored
<1>4. "done" \in Answers
  BY DEF Answers
<1> QED
  BY <1>2, <1>3, <1>4, RowGone, Answered

LEMMA CreateServiceStep ==
  ASSUME OfferInv, NEW s \in Sessions, NEW v \in Services, NEW c \in Categories,
         NEW p \in Profiles, NEW e \in Edits, CreateService(s, v, c, p, e)
  PROVE  OfferInv'
<1>1. CASE ReferencesHold(c, p)
  <2>1. PICK r : r = [pc |-> "insert", service |-> v, category |-> c, profile |-> p, edit |-> e]
    OBVIOUS
  <2>2. req' = [req EXCEPT ![s] = r] /\ UNCHANGED stored
    BY <1>1, <2>1 DEF CreateService, Begin
  <2>3. CarriedOK(r) /\ r.pc = "insert"
    BY <2>1 DEF CarriedOK, SavingOK, TextingOK, ShapeOK
  <2> QED
    BY <2>2, <2>3, Moves
<1>2. CASE ~ReferencesHold(c, p)
  <2>1. Begin(s, [pc |-> "badRequest"]) /\ UNCHANGED stored
    BY <1>2 DEF CreateService
  <2> QED
    BY <2>1, Refused DEF Answers
<1> QED
  BY <1>1, <1>2

\* The text of a Service changes: no Advisor's profile does.
LEMMA ServiceWritten ==
  ASSUME OfferInv, NEW s \in Sessions, NEW v \in Services, Answer(s, "done"),
         TextsOK', Is(text'[v]), profile' = profile,
         \A d \in Docs : d # v => text'[d] = text[d],
         \E row : service' = [service EXCEPT ![v] = row]
  PROVE  OfferInv'
<1>1. PICK r : r = [pc |-> "done"]
  OBVIOUS
<1>2. req' = [req EXCEPT ![s] = r] /\ \E a \in Answers : r = [pc |-> a]
  BY <1>1 DEF Answer, Go, Answers
<1>3. \A d \in Advisors : Is(text[d]) => Is(text'[d])
  BY AdvisorsApart DEF Is
<1>4. ServicesTexted'
  BY DEF OfferInv, ServicesTexted, Docs, Is
<1> QED
  BY <1>2, <1>3, <1>4, Rewrites

LEMMA InsertServiceStep ==
  ASSUME OfferInv, NEW s \in Sessions, InsertService(s)
  PROVE  OfferInv'
<1> DEFINE v == req[s].service
           e == req[s].edit
<1>1. v \in Services /\ e \in Edits
  BY RequestOf DEF InsertService, At, CarriedOK, TextingOK
<1>2. v \in Docs /\ v \notin Advisors
  BY <1>1, AdvisorsApart DEF Docs
<1>3. CASE Answer(s, "error") /\ UNCHANGED stored
  BY <1>3, Answered DEF Answers
<1>4. CASE /\ text' = [text EXCEPT ![v] = Created(e)] /\ Remember(v, e, Keeps(v, e))
           /\ Answer(s, "done") /\ profile' = profile /\ deleted' = deleted
           /\ \E row : service' = [service EXCEPT ![v] = row]
  <2>0. text[v] = None
    BY DEF InsertService
  <2> HIDE DEF v, e
  <2>1. TextsOK' /\ Is(text'[v]) /\ \A d \in Docs : d # v => text'[d] = text[d]
    BY <1>1, <1>2, <1>4, <2>0, Creates DEF OfferInv
  <2> QED
    BY <1>1, <1>4, <2>1, ServiceWritten
<1> QED
  BY <1>3, <1>4 DEF InsertService, stored

LEMMA UpdateServiceStep ==
  ASSUME OfferInv, NEW s \in Sessions, NEW v \in Services, NEW e \in Edits,
         UpdateService(s, v, e)
  PROVE  OfferInv'
<1>1. CASE Begin(s, [pc |-> "badRequest"]) /\ UNCHANGED stored
  BY <1>1, Refused DEF Answers
<1>2. ASSUME NEW p, NEW trial, UNCHANGED stored,
             Begin(s, [pc |-> "references", service |-> v, edit |-> e, profile |-> p,
                       trial |-> trial])
      PROVE  OfferInv'
  <2>1. PICK r : r = [pc |-> "references", service |-> v, edit |-> e, profile |-> p,
                      trial |-> trial]
    OBVIOUS
  <2>2. req' = [req EXCEPT ![s] = r]
    BY <1>2, <2>1 DEF Begin
  <2>3. CarriedOK(r) /\ r.pc = "references"
    BY <2>1 DEF CarriedOK, SavingOK, TextingOK, ShapeOK
  <2> QED
    BY <1>2, <2>2, <2>3, Moves
<1>3. PICK p, trial :
        Begin(s, IF p = Null THEN [pc |-> "badRequest"]
                 ELSE [pc |-> "references", service |-> v, edit |-> e, profile |-> p,
                       trial |-> trial]) /\ UNCHANGED stored
  BY DEF UpdateService
<1> QED
  BY <1>1, <1>2, <1>3

LEMMA AssertReferencesStep ==
  ASSUME OfferInv, NEW s \in Sessions, AssertReferences(s)
  PROVE  OfferInv'
<1>1. CASE Answer(s, "badRequest") /\ UNCHANGED stored
  BY <1>1, Answered DEF Answers
<1>2. CASE Go(s, [req[s] EXCEPT !.pc = "readService"]) /\ UNCHANGED stored
  <2>1. PICK q : q = req[s]
    OBVIOUS
  <2>2. q.edit \in Edits /\ q.service \in Services
    BY <2>1, RequestOf DEF AssertReferences, At, CarriedOK, TextingOK
  <2>3. PICK v, e, p, trial :
          v = q.service /\ e = q.edit /\ p = q.profile /\ trial = q.trial
    OBVIOUS
  <2>4. q = [pc |-> "references", service |-> v, edit |-> e, profile |-> p, trial |-> trial]
    BY <2>1, <2>3, RequestOf DEF AssertReferences, At, CarriedOK, ShapeOK
  <2>5. PICK r : r = [q EXCEPT !.pc = "readService"]
    OBVIOUS
  <2>6. r = [pc |-> "readService", service |-> v, edit |-> e, profile |-> p, trial |-> trial]
    BY <2>4, <2>5
  <2>7. CarriedOK(r) /\ r.pc = "readService"
    BY <2>2, <2>3, <2>6 DEF CarriedOK, SavingOK, TextingOK, ShapeOK
  <2>8. req' = [req EXCEPT ![s] = r]
    BY <1>2, <2>1, <2>5 DEF Go
  <2> QED
    BY <1>2, <2>7, <2>8, Moves
<1> QED
  BY <1>1, <1>2 DEF AssertReferences

LEMMA ReadServiceStep ==
  ASSUME OfferInv, NEW s \in Sessions, ReadService(s)
  PROVE  OfferInv'
<1>1. CASE Answer(s, "notFound") /\ UNCHANGED stored
  BY <1>1, Answered DEF Answers
<1>2. CASE ~(Answer(s, "notFound") /\ UNCHANGED stored)
  <2>1. PICK v, e, trial : v = req[s].service /\ e = req[s].edit /\ trial = req[s].trial
    OBVIOUS
  <2>2. v \in Services /\ e \in Edits
    BY <2>1, RequestOf DEF ReadService, At, CarriedOK, TextingOK
  <2>3. PICK new : new = Merged(e, Localized(v, e.language))
    OBVIOUS
  <2>4. PICK r : r = [pc |-> "writeService", service |-> v, edit |-> e, trial |-> trial,
                      text |-> new, kept |-> Keeps(v, e)]
    OBVIOUS
  <2>5. req' = [req EXCEPT ![s] = r] /\ UNCHANGED stored
    BY <1>2, <2>1, <2>3, <2>4 DEF ReadService, Go
  <2>6. Is(text[v]) /\ v \in Docs
    BY <1>2, <2>1, <2>2 DEF ReadService, OfferInv, ServicesTexted, stored, Docs
  <2>7. Carries(e, Keeps(v, e), new)
    BY <2>2, <2>3, <2>6, CarriesLocalized DEF OfferInv
  <2>8. CarriedOK(r) /\ r.pc = "writeService"
    BY <2>2, <2>4, <2>7 DEF CarriedOK, SavingOK, TextingOK, ShapeOK
  <2> QED
    BY <2>5, <2>8, Moves
<1> QED
  BY <1>1, <1>2

LEMMA WriteServiceStep ==
  ASSUME OfferInv, NEW s \in Sessions, WriteService(s)
  PROVE  OfferInv'
<1> DEFINE v == req[s].service
           e == req[s].edit
           before == req[s].kept
           new == req[s].text
<1>1. v \in Services /\ e \in Edits /\ Carries(e, before, new)
  BY RequestOf DEF WriteService, At, CarriedOK, TextingOK
<1>2. v \in Docs /\ v \notin Advisors
  BY <1>1, AdvisorsApart DEF Docs
<1>3. CASE Answer(s, "notFound") /\ UNCHANGED stored
  BY <1>3, Answered DEF Answers
<1>4. CASE /\ Is(service[v]) /\ SaveText(v, e, new, before) /\ Answer(s, "done")
           /\ profile' = profile /\ deleted' = deleted
           /\ \E row : service' = [service EXCEPT ![v] = row]
  <2> HIDE DEF v, e, before, new
  <2>1. Is(text[v])
    BY <1>1, <1>4 DEF OfferInv, ServicesTexted
  <2>2. TextsOK' /\ Is(text'[v]) /\ \A d \in Docs : d # v => text'[d] = text[d]
    BY <1>1, <1>2, <1>4, <2>1, Saves DEF OfferInv
  <2> QED
    BY <1>1, <1>4, <2>2, ServiceWritten
<1> QED
  BY <1>3, <1>4 DEF WriteService, stored

LEMMA DeleteServiceStep ==
  ASSUME OfferInv, NEW s \in Sessions, NEW v \in Services, DeleteService(s, v)
  PROVE  OfferInv'
<1>1. PICK r : r = [pc |-> "deleteService", service |-> v]
  OBVIOUS
<1>2. req' = [req EXCEPT ![s] = r] /\ UNCHANGED stored
  BY <1>1 DEF DeleteService, Begin
<1>3. CarriedOK(r) /\ r.pc = "deleteService"
  BY <1>1 DEF CarriedOK, SavingOK, TextingOK, ShapeOK
<1> QED
  BY <1>2, <1>3, Moves

LEMMA DeleteOwnedStep ==
  ASSUME OfferInv, NEW s \in Sessions, DeleteOwned(s)
  PROVE  OfferInv'
<1> DEFINE v == req[s].service
<1>1. v \in Services
  BY RequestOf DEF DeleteOwned, At, CarriedOK, TextingOK
<1>2. v \in Docs /\ v \notin Advisors
  BY <1>1, AdvisorsApart DEF Docs
<1>3. CASE \E a \in Answers : Answer(s, a) /\ UNCHANGED stored
  BY <1>3, Answered
<1>4. CASE /\ Is(service[v]) /\ Answer(s, "done") /\ profile' = profile
           /\ kept' = kept /\ deleted' = deleted
           /\ service' = [service EXCEPT ![v] = Gone] /\ text' = [text EXCEPT ![v] = Gone]
  <2> HIDE DEF v
  <2>1. service' # service
    <3>1. service'[v] = Gone
      BY <1>1, <1>4 DEF OfferInv, ServicesTexted
    <3> QED
      BY <1>4, <3>1 DEF Is
  <2>2. "done" \in Answers
    BY DEF Answers
  <2> QED
    BY <1>2, <1>4, <2>1, <2>2, RowGone
<1> QED
  BY <1>3, <1>4 DEF DeleteOwned, stored, Answers

----------------------------------------------------------------------------
(* Searches.                                                               *)

LEMMA SearchStep ==
  ASSUME OfferInv, NEW s \in Sessions, NEW wanted, Begin(s, Search(s, wanted)),
         UNCHANGED stored
  PROVE  OfferInv'
<1>1. CASE Search(s, wanted) = [pc |-> "notFound"]
  BY <1>1, Refused DEF Answers
<1>2. ASSUME NEW names, NEW named, NEW table, NEW seen,
             Search(s, wanted) = [pc |-> "read", profiles |-> names, named |-> named,
                                  table |-> table, seen |-> seen]
      PROVE  OfferInv'
  <2>1. PICK r : r = Search(s, wanted)
    OBVIOUS
  <2>2. CarriedOK(r) /\ r.pc = "read"
    BY <1>2, <2>1 DEF CarriedOK, SavingOK, TextingOK, ShapeOK
  <2>3. req' = [req EXCEPT ![s] = r]
    BY <2>1 DEF Begin
  <2> QED
    BY <2>2, <2>3, Moves
<1>3. \/ Search(s, wanted) = [pc |-> "notFound"]
      \/ \E names, named, table, seen :
           Search(s, wanted) = [pc |-> "read", profiles |-> names, named |-> named,
                                table |-> table, seen |-> seen]
  BY DEF Search
<1> QED
  BY <1>1, <1>2, <1>3

LEMMA ReadTableStep ==
  ASSUME OfferInv, NEW s \in Sessions, NEW k \in Statements, ReadTable(s, k)
  PROVE  OfferInv'
<1>1. PICK q : q = req[s]
  OBVIOUS
<1>2. PICK names, named, table, seen :
        /\ names = q.profiles /\ named = q.named /\ table = q.table /\ seen = q.seen
  OBVIOUS
<1>3. q = [pc |-> "read", profiles |-> names, named |-> named, table |-> table, seen |-> seen]
  BY <1>1, <1>2, RequestOf DEF ReadTable, At, CarriedOK, ShapeOK
<1>4. PICK cells : cells = [p \in names |-> IF k = "live" THEN Live(p) ELSE profile[p][k]]
  OBVIOUS
<1>5. PICK r : r = [q EXCEPT !.table[k] = cells]
  OBVIOUS
<1>6. r = [pc |-> "read", profiles |-> names, named |-> named,
           table |-> [table EXCEPT ![k] = cells], seen |-> seen]
  BY <1>3, <1>5
<1>7. CarriedOK(r) /\ r.pc = "read"
  BY <1>6 DEF CarriedOK, SavingOK, TextingOK, ShapeOK
<1>8. req' = [req EXCEPT ![s] = r] /\ UNCHANGED stored
  BY <1>1, <1>2, <1>4, <1>5 DEF ReadTable, Go
<1> QED
  BY <1>7, <1>8, Moves

LEMMA ShowSlotsStep ==
  ASSUME OfferInv, NEW s \in Sessions, ShowSlots(s)
  PROVE  OfferInv'
<1>1. PICK named, seen, slots :
        Go(s, [pc |-> "shown", named |-> named, seen |-> seen, slots |-> slots])
          /\ UNCHANGED stored
  BY DEF ShowSlots
<1>2. PICK r : r = [pc |-> "shown", named |-> named, seen |-> seen, slots |-> slots]
  OBVIOUS
<1>3. CarriedOK(r) /\ r.pc = "shown"
  BY <1>2 DEF CarriedOK, SavingOK, TextingOK, ShapeOK
<1> QED
  BY <1>1, <1>2, <1>3, Moves DEF Go

----------------------------------------------------------------------------
LEMMA ServeStep ==
  ASSUME OfferInv, NEW s \in Sessions, Serve(s)
  PROVE  OfferInv'
<1>1. CASE \E p \in Profiles, draft \in Drafts : UpdateProfile(s, p, draft)
  BY <1>1, UpdateProfileStep
<1>2. CASE LockProfile(s) \/ ReplaceWindows(s)
  BY <1>2, LockProfileStep, ReplaceWindowsStep
<1>3. CASE (\E p \in Profiles : DeleteProfile(s, p)) \/ IsProfileInUse(s) \/ SoftDelete(s)
  BY <1>3, DeleteProfileStep, IsProfileInUseStep, SoftDeleteStep
<1>4. CASE \E doc \in Docs, e \in Edits :
             EditCategory(s, doc, e) \/ EditSkill(s, doc, e) \/ UpdateAdvisorProfile(s, doc, e)
  BY <1>4, EditStep
<1>5. CASE LockAdvisorProfile(s) \/ WriteText(s)
  BY <1>5, LockAdvisorProfileStep, WriteTextStep
<1>6. CASE (\E doc \in Docs : DeleteText(s, doc)) \/ \E claimed \in BOOLEAN : DeleteRow(s, claimed)
  BY <1>6, DeleteTextStep, DeleteRowStep
<1>7. CASE \E v \in Services, c \in Categories, p \in Profiles, e \in Edits :
             CreateService(s, v, c, p, e)
  BY <1>7, CreateServiceStep
<1>8. CASE InsertService(s)
  BY <1>8, InsertServiceStep
<1>9. CASE (\E v \in Services, e \in Edits : UpdateService(s, v, e)) \/ AssertReferences(s)
  BY <1>9, UpdateServiceStep, AssertReferencesStep
<1>10. CASE ReadService(s) \/ WriteService(s)
  BY <1>10, ReadServiceStep, WriteServiceStep
<1>11. CASE (\E v \in Services : DeleteService(s, v)) \/ DeleteOwned(s)
  BY <1>11, DeleteServiceStep, DeleteOwnedStep
<1>12. CASE (\E v \in Services : FindSlots(s, v)) \/ OpenOn(s)
  BY <1>12, SearchStep DEF FindSlots, OpenOn
<1>13. CASE (\E k \in Statements : ReadTable(s, k)) \/ ShowSlots(s)
  BY <1>13, ReadTableStep, ShowSlotsStep
<1>14. CASE Forget(s)
  BY <1>14, ForgetStep
<1>15. CASE (\E doc \in Docs : EraseTranslations(s, doc)) \/ EraseProfile(s)
  BY <1>15, EraseTranslationsStep, EraseProfileStep
<1>16. CASE CommitErasure(s) \/ DetectDeadlock(s)
  BY <1>16, CommitErasureStep, DetectDeadlockStep
<1> QED
  BY <1>1, <1>2, <1>3, <1>4, <1>5, <1>6, <1>7, <1>8, <1>9, <1>10, <1>11, <1>12, <1>13, <1>14,
     <1>15, <1>16 DEF Serve

LEMMA OfferNext ==
  ASSUME OfferInv, [Next]_vars
  PROVE  OfferInv'
<1>1. CASE \E s \in Sessions : Serve(s)
  BY <1>1, ServeStep
<1>2. CASE \E p \in Profiles, draft \in Drafts : CreateProfile(p, draft)
  BY <1>2, CreateProfileStep
<1>3. CASE \E doc \in Docs, e \in Edits :
             CreateCategory(doc, e) \/ CreateSkill(doc, e) \/ CreateAdvisorProfile(doc, e)
  BY <1>3, CreateTextStep DEF CreateCategory, CreateSkill, CreateAdvisorProfile
<1>4. CASE UNCHANGED vars
  <2>1. /\ profile' = profile /\ service' = service /\ text' = text
        /\ kept' = kept /\ deleted' = deleted /\ req' = req
    BY <1>4 DEF vars
  <2>2. RequestsCarry'
    <3>1. SUFFICES ASSUME NEW s \in Sessions, req[s] # None PROVE CarriedOK(req[s])'
      BY <2>1 DEF OfferInv, RequestsCarry
    <3>2. CarriedOK(req[s])
      BY <3>1 DEF OfferInv, RequestsCarry
    <3>3. SavingOK(req[s])' /\ ShapeOK(req[s])'
      BY <2>1, <3>2 DEF CarriedOK, SavingOK, ShapeOK
    <3>4. TextingOK(req[s])'
      BY <2>1, <3>2 DEF CarriedOK, TextingOK
    <3> QED
      BY <3>3, <3>4 DEF CarriedOK
  <2>3. OneSaver'
    BY <2>1 DEF OfferInv, OneSaver, At
  <2>4. SchedulesOK' /\ ServicesTexted'
    BY <2>1 DEF OfferInv, SchedulesOK, ServicesTexted
  <2>5. TextsOK'
    BY <2>1 DEF OfferInv, TextsOK, KeptStands, SourceOK
  <2> QED
    BY <2>2, <2>3, <2>4, <2>5 DEF OfferInv
<1> QED
  BY <1>1, <1>2, <1>3, <1>4 DEF Next

\* The inductive invariant of what Advisors offer: what each request under
\* way has read and checked still holds of what it is about to write
\* (saveProfile(), updateOwned(), updateByUserId()), as far as nobody
\* changed it since.
THEOREM OfferInductive == Spec => []OfferInv
<1>1. Init => OfferInv
  BY InitHolds
<1>2. OfferInv /\ [Next]_vars => OfferInv'
  BY OfferNext
<1> QED
  BY <1>1, <1>2, PTL DEF Spec

\* However many saves of a profile overlap, its windows and blocked periods
\* are those of one schedule that passed the checks of assertWindows():
\* saveProfile() updates the row, and so locks it, before it replaces them.
THEOREM SchedulesStayWhole == Spec => []WholeSchedules
<1>1. OfferInv => WholeSchedules
  BY DEF OfferInv, SchedulesOK, Whole, Saved, WholeSchedules, Tables
<1> QED
  BY <1>1, OfferInductive, PTL

\* Editing a text changes no field but those the edit names, and those that
\* an edit of the same language named since it read the text; and a row's own
\* columns are its Thai text as soon as there is one, or the placeholder of a
\* deletion (updateLocalized(), updateOwned(), updateByUserId(),
\* anonymizeById()).
THEOREM TextsAreKept == Spec => []TextsKept
<1>1. ASSUME OfferInv, NEW d \in Docs, NEW l \in Languages, NEW f \in Fields
      PROVE  Stands(d, l, f, kept[d][l][f])
  BY <1>1, LocalizedKept DEF Stands, Claims, OfferInv
<1>2. ASSUME OfferInv, NEW d \in Docs, Is(text[d]), text[d].th # None
      PROVE  \/ text[d].own = text[d].th
             \/ d \in deleted /\ text[d].own = [name |-> Placeholder, about |-> Null]
  <2>1. SourceOK(d)
    BY <1>2 DEF OfferInv, TextsOK
  <2> QED
    BY <1>2, <2>1 DEF SourceOK, Erased
<1>3. OfferInv => TextsKept
  BY <1>1, <1>2 DEF TextsKept
<1> QED
  BY <1>3, OfferInductive, PTL

----------------------------------------------------------------------------
(* The slots of a day: the merge of the windows, by induction.  The library *)
(* states induction for a predicate; here it is for a set of numbers.      *)

\* Induction over the naturals, by the least number out of the set.
LEMMA Induct ==
  ASSUME NEW T \in SUBSET Nat, 0 \in T, \A k \in T : k + 1 \in T
  PROVE  T = Nat
<1> SUFFICES ASSUME T # Nat PROVE FALSE
  OBVIOUS
<1>1. PICK least \in Nat \ T : \A other \in Nat \ T : ~(other < least)
  <2> DEFINE out == Nat \ T
             R == OpToRel(<, Nat)
  <2>1. out \subseteq Nat /\ out # {}
    OBVIOUS
  <2>2. IsWellFoundedOn(R, Nat)
    BY NatLessThanWellFounded, Zenon
  <2>3. \A y, x \in Nat : y < x => <<y, x>> \in R
    BY Zenon DEF OpToRel
  <2>4. \E x \in out : \A y \in out : <<y, x>> \notin R
    <3> HIDE DEF out, R
    <3> QED
      BY <2>1, <2>2, WFMin
  <2> HIDE DEF R
  <2> QED
    BY <2>3, <2>4
<1>2. least # 0 /\ least - 1 \in Nat /\ least - 1 < least
  OBVIOUS
<1> QED
  BY <1>1, <1>2

\* The last index of the ones folded so far.
LEMMA MaxOf ==
  ASSUME NEW n \in Nat, NEW s \in SUBSET (1..n), s # {}
  PROVE  Max(s) \in s /\ \A i \in s : i <= Max(s)
<1>1. \E m \in s : \A i \in s : m >= i
  <2> DEFINE below == {k \in Nat : k > n \/ \A t \in SUBSET (1..k) : t # {} =>
                        \E m \in t : \A i \in t : m >= i}
  <2>1. 0 \in below
    <3>1. 1..0 = {}
      OBVIOUS
    <3> QED
      BY <3>1
  <2>2. ASSUME NEW k \in below PROVE k + 1 \in below
    <3> SUFFICES ASSUME NEW t \in SUBSET (1..(k + 1)), t # {}, k + 1 <= n
                 PROVE  \E m \in t : \A i \in t : m >= i
      OBVIOUS
    <3>1. CASE k + 1 \in t
      BY <3>1
    <3>2. CASE k + 1 \notin t
      <4>1. t \in SUBSET (1..k)
        BY <3>2
      <4> QED
        BY <2>2, <4>1
    <3> QED
      BY <3>1, <3>2
  <2>3. n \in below
    <3> HIDE DEF below
    <3>1. below \in SUBSET Nat
      BY DEF below
    <3> QED
      BY <2>1, <2>2, <3>1, Induct
  <2> QED
    BY <2>3
<1> QED
  BY <1>1 DEF Max

\* MergeRanges goes over the ranges one by one.
Steps(seq) ==
  CHOOSE iter : iter = [s \in SUBSET DOMAIN seq |->
    IF s = {} THEN <<>> ELSE Absorb(iter[s \ {Max(s)}], seq[Max(s)])]

LEMMA FoldsSteps ==
  ASSUME NEW seq PROVE FoldLeft(Absorb, <<>>, seq) = Steps(seq)[DOMAIN seq]
BY DEF FoldLeft, MapThenFoldSet, Steps

LEMMA StepsExist ==
  ASSUME NEW n \in Nat, NEW seq, DOMAIN seq = 1..n
  PROVE  \A s \in SUBSET (1..n) : Steps(seq)[s] =
           IF s = {} THEN <<>> ELSE Absorb(Steps(seq)[s \ {Max(s)}], seq[Max(s)])
<1> DEFINE S == 1..n
           Body(g, s) == IF s = {} THEN <<>> ELSE Absorb(g[s \ {Max(s)}], seq[Max(s)])
           Good(g, k) == \A s \in SUBSET S : Cardinality(s) <= k => g[s] = Body(g, s)
           sizes == {k \in Nat : \E g : Good(g, k)}
<1>1. \A s \in SUBSET S : IsFiniteSet(s) /\ Cardinality(s) \in Nat /\ (Cardinality(s) = 0 <=> s = {})
  <2>1. IsFiniteSet(S)
    BY FS_Interval
  <2> QED
    BY <2>1, FS_Subset, FS_CardinalityType, FS_EmptySet
<1>2. \A s \in SUBSET S : s # {} =>
        s \ {Max(s)} \in SUBSET S /\ Cardinality(s \ {Max(s)}) = Cardinality(s) - 1
  BY <1>1, MaxOf, FS_RemoveElement
<1>3. 0 \in sizes
  <2>1. Good([s \in SUBSET S |-> <<>>], 0)
    BY <1>1
  <2> QED
    BY <2>1
<1>4. ASSUME NEW k \in sizes PROVE k + 1 \in sizes
  <2>1. PICK g : Good(g, k)
    BY <1>4
  <2> DEFINE next == [s \in SUBSET S |-> Body(g, s)]
  <2>2. ASSUME NEW s \in SUBSET S, Cardinality(s) <= k + 1 PROVE next[s] = Body(next, s)
    <3>1. CASE s = {}
      BY <3>1
    <3>2. CASE s # {}
      <4> DEFINE t == s \ {Max(s)}
      <4>1. t \in SUBSET S /\ Cardinality(t) <= k
        BY <1>1, <1>2, <1>4, <2>2, <3>2
      <4>2. next[t] = g[t]
        BY <2>1, <4>1
      <4>3. next[s] = Absorb(g[t], seq[Max(s)])
        BY <3>2
      <4>4. Body(next, s) = Absorb(next[t], seq[Max(s)])
        BY <3>2
      <4> QED
        BY <4>2, <4>3, <4>4
    <3> QED
      BY <3>1, <3>2
  <2>3. \E h : Good(h, k + 1)
    BY <2>2
  <2> HIDE DEF Good
  <2> QED
    BY <1>4, <2>3
<1>5. \E g : Good(g, n)
  <2>1. sizes \in SUBSET Nat
    OBVIOUS
  <2>2. n \in sizes
    <3> HIDE DEF sizes
    <3> QED
      BY <1>3, <1>4, <2>1, Induct
  <2> QED
    BY <2>2
<1>6. PICK g : Good(g, n)
  BY <1>5
<1>7. \A s \in SUBSET S : Cardinality(s) <= n
  <2>1. IsFiniteSet(S) /\ Cardinality(S) = n
    BY FS_Interval
  <2> QED
    BY <2>1, FS_Subset
<1> DEFINE f == [s \in SUBSET S |-> g[s]]
<1>8. f = [s \in SUBSET S |-> Body(f, s)]
  <2> SUFFICES ASSUME NEW s \in SUBSET S PROVE g[s] = Body(f, s)
    OBVIOUS
  <2>1. g[s] = Body(g, s)
    BY <1>6, <1>7
  <2> QED
    BY <1>2, <2>1
<1>9. Steps(seq) = [s \in SUBSET S |-> Body(Steps(seq), s)]
  <2> HIDE DEF f
  <2> QED
    BY <1>8 DEF Steps
<1> QED
  BY <1>9

\* Ranges can be put in the order they start.
LEMMA HasLatest ==
  ASSUME NEW S \in SUBSET (Int \X Int), IsFiniteSet(S), S # {}
  PROVE  \E m \in S : \A w \in S : w[1] <= m[1]
<1> DEFINE Latest(A) == \E m \in A : \A w \in A : w[1] <= m[1]
           sizes == {k \in Nat : \A A \in SUBSET S : (A # {} /\ Cardinality(A) = k) => Latest(A)}
<1>1. \A A \in SUBSET S : IsFiniteSet(A) /\ Cardinality(A) \in Nat /\ (Cardinality(A) = 0 <=> A = {})
  BY FS_Subset, FS_CardinalityType, FS_EmptySet
<1>2. 0 \in sizes
  BY <1>1
<1>3. ASSUME NEW k \in sizes PROVE k + 1 \in sizes
  <2> SUFFICES ASSUME NEW A \in SUBSET S, A # {}, Cardinality(A) = k + 1 PROVE Latest(A)
    BY <1>3
  <2>1. PICK x \in A : TRUE
    OBVIOUS
  <2> DEFINE B == A \ {x}
  <2>2. B \in SUBSET S /\ Cardinality(B) = k
    <3>1. IsFiniteSet(A) /\ k \in Nat
      BY <1>1, <1>3
    <3>2. Cardinality(B) = Cardinality(A) - 1
      BY <2>1, <3>1, FS_RemoveElement
    <3> QED
      BY <3>1, <3>2
  <2>3. CASE B = {}
    BY <2>1, <2>3
  <2>4. CASE B # {}
    <3>1. PICK y \in B : \A w \in B : w[1] <= y[1]
      BY <1>3, <2>2, <2>4
    <3>2. x[1] \in Int /\ y[1] \in Int /\ \A w \in B : w[1] \in Int
      OBVIOUS
    <3>3. CASE x[1] <= y[1]
      BY <3>1, <3>3
    <3>4. CASE y[1] <= x[1]
      BY <3>1, <3>2, <3>4
    <3> QED
      BY <3>2, <3>3, <3>4
  <2> QED
    BY <2>3, <2>4
<1>4. sizes = Nat
  <2>1. sizes \in SUBSET Nat
    OBVIOUS
  <2> HIDE DEF sizes
  <2> QED
    BY <1>2, <1>3, <2>1, Induct
<1> HIDE DEF Latest
<1> QED
  <2>1. Latest(S)
    BY <1>1, <1>4
  <2> QED
    BY <2>1 DEF Latest

Ordered(seq) == \A i, j \in DOMAIN seq : i < j => seq[i][1] <= seq[j][1]

LEMMA OrderExists ==
  ASSUME NEW S \in SUBSET (Int \X Int), IsFiniteSet(S)
  PROVE  \E seq \in SetToSeqs(S) : Ordered(seq)
<1> DEFINE InRow(A, k) == \E f \in [1..k -> A] :
                            Ordered(f) /\ \A i, j \in 1..k : i # j => f[i] # f[j]
           sizes == {k \in Nat : \A A \in SUBSET S : Cardinality(A) = k => InRow(A, k)}
<1>1. \A A \in SUBSET S : IsFiniteSet(A) /\ Cardinality(A) \in Nat /\ (Cardinality(A) = 0 <=> A = {})
  BY FS_Subset, FS_CardinalityType, FS_EmptySet
<1>2. 0 \in sizes
  <2> SUFFICES ASSUME NEW A \in SUBSET S, Cardinality(A) = 0 PROVE InRow(A, 0)
    OBVIOUS
  <2>1. 1..0 = {}
    OBVIOUS
  <2> DEFINE f == [i \in 1..0 |-> {}]
  <2>2. f \in [1..0 -> A] /\ DOMAIN f = {}
    BY <2>1
  <2> QED
    BY <2>1, <2>2 DEF Ordered
<1>3. ASSUME NEW k \in sizes PROVE k + 1 \in sizes
  <2> SUFFICES ASSUME NEW A \in SUBSET S, Cardinality(A) = k + 1 PROVE InRow(A, k + 1)
    BY <1>3
  <2>1. A # {} /\ IsFiniteSet(A) /\ A \in SUBSET (Int \X Int) /\ k \in Nat
    BY <1>1, <1>3
  <2>2. PICK m \in A : \A w \in A : w[1] <= m[1]
    BY <2>1, HasLatest
  <2> DEFINE B == A \ {m}
  <2>3. B \in SUBSET S /\ Cardinality(B) = k
    <3>1. Cardinality(B) = Cardinality(A) - 1
      BY <2>1, <2>2, FS_RemoveElement
    <3> QED
      BY <2>1, <3>1
  <2>4. PICK g \in [1..k -> B] : Ordered(g) /\ \A i, j \in 1..k : i # j => g[i] # g[j]
    BY <1>3, <2>3
  <2> DEFINE f == [i \in 1..(k + 1) |-> IF i = k + 1 THEN m ELSE g[i]]
  <2>5. \A i \in 1..(k + 1) : i = k + 1 \/ i \in 1..k
    BY <2>1
  <2>6. f \in [1..(k + 1) -> A]
    BY <2>4, <2>5
  <2>7. \A i, j \in 1..(k + 1) : i # j => f[i] # f[j]
    BY <2>4, <2>5
  <2>8. Ordered(f)
    <3> SUFFICES ASSUME NEW i \in 1..(k + 1), NEW j \in 1..(k + 1), i < j
                 PROVE  f[i][1] <= f[j][1]
      BY DEF Ordered
    <3>1. i \in 1..k
      BY <2>1
    <3>2. CASE j = k + 1
      BY <2>2, <2>4, <3>1, <3>2
    <3>3. CASE j \in 1..k
      BY <2>4, <3>1, <3>3 DEF Ordered
    <3> QED
      BY <2>5, <3>2, <3>3
  <2> HIDE DEF f
  <2> QED
    BY <2>6, <2>7, <2>8
<1>4. sizes = Nat
  <2>1. sizes \in SUBSET Nat
    OBVIOUS
  <2> HIDE DEF sizes
  <2> QED
    BY <1>2, <1>3, <2>1, Induct
<1>5. InRow(S, Cardinality(S))
  <2> HIDE DEF InRow
  <2> QED
    BY <1>1, <1>4
<1> QED
  BY <1>5 DEF SetToSeqs

LEMMA RangesInOrder ==
  ASSUME NEW S \in SUBSET (Int \X Int), IsFiniteSet(S), NEW seq, seq = InOrder(S),
         NEW n, n = Cardinality(S)
  PROVE  /\ n \in Nat /\ seq \in [1..n -> S] /\ Ordered(seq)
         /\ \A w \in S : \E j \in 1..n : seq[j] = w
<1>1. n \in Nat
  BY FS_CardinalityType
<1>2. seq \in SetToSeqs(S) /\ Ordered(seq)
  <2>1. InOrder(S) \in SetToSeqs(S) /\ Ordered(InOrder(S))
    BY OrderExists DEF InOrder, Ordered
  <2> QED
    BY <2>1
<1>3. seq \in [1..n -> S] /\ \A i, j \in 1..n : i # j => seq[i] # seq[j]
  BY <1>2 DEF SetToSeqs
<1>4. seq \in Injection(1..n, S)
  BY <1>3 DEF Injection, IsInjective
<1>5. Cardinality(1..n) = n
  BY <1>1, FS_Interval
<1>6. seq \in Surjection(1..n, S)
  BY <1>4, <1>5, FS_Injection
<1> QED
  BY <1>1, <1>2, <1>3, <1>6 DEF Surjection

----------------------------------------------------------------------------
(* Merging the first k ranges in order: what is kept are ranges with a gap *)
(* between each two, that cover what those k do and start and end where    *)
(* one of them does.                                                       *)

Spans(m, u) == \E i \in DOMAIN m : m[i][1] <= u /\ u < m[i][2]
Covers(seq, k, u) == \E j \in 1..k : seq[j][1] <= u /\ u < seq[j][2]

Merges(m, seq, k) ==
  /\ m \in Seq(Int \X Int)
  /\ k > 0 => m # <<>> /\ m[Len(m)][1] <= seq[k][1]
  /\ \A i \in DOMAIN m : m[i][1] < m[i][2]
  /\ \A i \in DOMAIN m : \E j \in 1..k : m[i][1] = seq[j][1]
  /\ \A i \in DOMAIN m : \E j \in 1..k : m[i][2] = seq[j][2]
  /\ \A i, j \in DOMAIN m : i < j => m[i][2] < m[j][1]
  /\ \A u \in Int : Spans(m, u) <=> Covers(seq, k, u)

Forward(seq, n) ==
  /\ seq \in [1..n -> Int \X Int] /\ Ordered(seq)
  /\ \A j \in 1..n : seq[j][1] < seq[j][2]

LEMMA AppendKeeps ==
  ASSUME NEW n \in Nat, NEW seq, Forward(seq, n), NEW k \in Nat, k < n, NEW m, Merges(m, seq, k),
         m = <<>> \/ m[Len(m)][2] < seq[k + 1][1]
  PROVE  Merges(Append(m, seq[k + 1]), seq, k + 1)
<1>0. PICK l, r, new : l = Len(m) /\ r = seq[k + 1] /\ new = Append(m, r)
  OBVIOUS
<1>1. new = Append(m, r)
  BY <1>0
<1>2. r \in Int \X Int /\ r[1] \in Int /\ r[2] \in Int /\ r[1] < r[2]
  BY <1>0 DEF Forward
<1>3. /\ m \in Seq(Int \X Int) /\ l \in Nat /\ DOMAIN m = 1..l
      /\ \A i \in 1..l : m[i][1] \in Int /\ m[i][2] \in Int
      /\ l = 0 \/ m[l][2] < r[1]
  BY <1>0 DEF Merges
<1>4. /\ new \in Seq(Int \X Int) /\ Len(new) = l + 1 /\ DOMAIN new = 1..(l + 1)
      /\ new[l + 1] = r /\ \A i \in 1..l : new[i] = m[i]
  BY <1>0, <1>2, <1>3
<1>5. \A i \in 1..(l + 1) : i = l + 1 \/ i \in 1..l
  BY <1>3
<1>6. \A j \in 1..(k + 1) : j = k + 1 \/ j \in 1..k
  OBVIOUS
<1>7. \A i \in 1..l : m[i][2] < r[1]
  <2> SUFFICES ASSUME NEW i \in 1..l PROVE m[i][2] < r[1]
    OBVIOUS
  <2>1. l \in 1..l /\ m[l][2] < r[1]
    BY <1>3
  <2>2. CASE i = l
    BY <2>1, <2>2
  <2>3. CASE i # l
    <3>1. m[i][2] < m[l][1] /\ m[l][1] < m[l][2]
      <4>1. i < l
        BY <1>3, <2>3
      <4> QED
        BY <1>3, <2>1, <4>1 DEF Merges
    <3>2. m[i][2] \in Int /\ m[l][1] \in Int /\ m[l][2] \in Int
      BY <1>3, <2>1
    <3> QED
      BY <1>2, <2>1, <3>1, <3>2
  <2> QED
    BY <1>3, <2>2, <2>3
<1>8. \A i, j \in 1..(l + 1) : i < j => new[i][2] < new[j][1]
  <2> SUFFICES ASSUME NEW i \in 1..(l + 1), NEW j \in 1..(l + 1), i < j
               PROVE  new[i][2] < new[j][1]
    OBVIOUS
  <2>1. i \in 1..l
    BY <1>3
  <2>2. CASE j = l + 1
    BY <1>4, <1>7, <2>1, <2>2
  <2>3. CASE j \in 1..l
    BY <1>3, <1>4, <2>1, <2>3 DEF Merges
  <2> QED
    BY <1>5, <2>2, <2>3
<1>9. \A i \in 1..(l + 1) :
        /\ new[i][1] < new[i][2]
        /\ \E j \in 1..(k + 1) : new[i][1] = seq[j][1]
        /\ \E j \in 1..(k + 1) : new[i][2] = seq[j][2]
  <2> SUFFICES ASSUME NEW i \in 1..(l + 1)
               PROVE  /\ new[i][1] < new[i][2]
                      /\ \E j \in 1..(k + 1) : new[i][1] = seq[j][1]
                      /\ \E j \in 1..(k + 1) : new[i][2] = seq[j][2]
    OBVIOUS
  <2>1. CASE i = l + 1
    BY <1>0, <1>2, <1>4, <2>1
  <2>2. CASE i \in 1..l
    <3>1. new[i] = m[i]
      BY <1>4, <2>2
    <3>2. m[i][1] < m[i][2] /\ (\E j \in 1..k : m[i][1] = seq[j][1])
          /\ \E j \in 1..k : m[i][2] = seq[j][2]
      BY <1>3, <2>2 DEF Merges
    <3> QED
      BY <3>1, <3>2
  <2> QED
    BY <1>5, <2>1, <2>2
<1>10. ASSUME NEW u \in Int PROVE Spans(new, u) <=> Covers(seq, k + 1, u)
  <2>1. Spans(new, u) <=> Spans(m, u) \/ (r[1] <= u /\ u < r[2])
    <3>1. ASSUME Spans(new, u) PROVE Spans(m, u) \/ (r[1] <= u /\ u < r[2])
      BY <1>3, <1>4, <1>5, <3>1 DEF Spans
    <3>2. ASSUME Spans(m, u) PROVE Spans(new, u)
      <4>1. PICK i \in 1..l : m[i][1] <= u /\ u < m[i][2]
        BY <1>3, <3>2 DEF Spans
      <4>2. i \in DOMAIN new /\ new[i] = m[i]
        BY <1>3, <1>4
      <4> QED
        BY <4>1, <4>2 DEF Spans
    <3>3. ASSUME r[1] <= u, u < r[2] PROVE Spans(new, u)
      <4>1. l + 1 \in DOMAIN new
        BY <1>3, <1>4
      <4>2. new[l + 1][1] <= u /\ u < new[l + 1][2]
        BY <1>4, <3>3
      <4>3. \E i \in DOMAIN new : new[i][1] <= u /\ u < new[i][2]
        BY <4>1, <4>2, Zenon
      <4> QED
        BY <4>3 DEF Spans
    <3> QED
      BY <3>1, <3>2, <3>3
  <2>2. Covers(seq, k + 1, u) <=> Covers(seq, k, u) \/ (r[1] <= u /\ u < r[2])
    BY <1>0, <1>6 DEF Covers
  <2> QED
    BY <2>1, <2>2 DEF Merges
<1>11. Merges(new, seq, k + 1)
  <2>1. new # <<>> /\ new[Len(new)][1] <= seq[k + 1][1]
    BY <1>0, <1>2, <1>3, <1>4
  <2> QED
    BY <1>4, <1>8, <1>9, <1>10, <2>1 DEF Merges
<1> QED
  BY <1>0, <1>11

LEMMA ExtendKeeps ==
  ASSUME NEW n \in Nat, NEW seq, Forward(seq, n), NEW k \in Nat, k < n, NEW m, Merges(m, seq, k),
         m # <<>>, NEW end \in Int, m[Len(m)][2] <= end, seq[k + 1][1] <= m[Len(m)][2],
         seq[k + 1][2] <= end, end \in {m[Len(m)][2], seq[k + 1][2]},
         NEW new, new = [m EXCEPT ![Len(m)] = <<m[Len(m)][1], end>>]
  PROVE  Merges(new, seq, k + 1)
<1> DEFINE r == seq[k + 1]
           l == Len(m)
           a == m[l][1]
           b == m[l][2]
<1>1. r \in Int \X Int /\ r[1] \in Int /\ r[2] \in Int /\ r[1] < r[2]
  BY DEF Forward
<1>2. /\ m \in Seq(Int \X Int) /\ l \in Nat /\ DOMAIN m = 1..l /\ l \in 1..l
      /\ \A i \in 1..l : m[i][1] \in Int /\ m[i][2] \in Int
      /\ a \in Int /\ b \in Int /\ a < b
  BY DEF Merges
<1>3. /\ new \in Seq(Int \X Int) /\ Len(new) = l /\ DOMAIN new = 1..l
      /\ new[l] = <<a, end>> /\ \A i \in 1..l : i # l => new[i] = m[i]
  BY <1>2
<1>4. new[l][1] = a /\ new[l][2] = end /\ \A i \in 1..l : new[i][1] = m[i][1]
  BY <1>3
<1>5. \A j \in 1..(k + 1) : j = k + 1 \/ j \in 1..k
  OBVIOUS
<1>6. a <= r[1]
  <2>1. PICK j \in 1..k : a = seq[j][1]
    BY <1>2 DEF Merges
  <2> QED
    BY <1>1, <2>1 DEF Forward, Ordered
<1>7. \A i, j \in 1..l : i < j => new[i][2] < new[j][1]
  <2> SUFFICES ASSUME NEW i \in 1..l, NEW j \in 1..l, i < j PROVE new[i][2] < new[j][1]
    OBVIOUS
  <2>1. i # l /\ new[i] = m[i]
    BY <1>2, <1>3
  <2>2. m[i][2] < m[j][1]
    BY <1>2 DEF Merges
  <2> QED
    BY <1>4, <2>1, <2>2
<1>8. \A i \in 1..l :
        /\ new[i][1] < new[i][2]
        /\ \E j \in 1..(k + 1) : new[i][1] = seq[j][1]
        /\ \E j \in 1..(k + 1) : new[i][2] = seq[j][2]
  <2> SUFFICES ASSUME NEW i \in 1..l
               PROVE  /\ new[i][1] < new[i][2]
                      /\ \E j \in 1..(k + 1) : new[i][1] = seq[j][1]
                      /\ \E j \in 1..(k + 1) : new[i][2] = seq[j][2]
    OBVIOUS
  <2>1. PICK first \in 1..k, last \in 1..k :
          m[i][1] < m[i][2] /\ m[i][1] = seq[first][1] /\ m[i][2] = seq[last][2]
    BY <1>2 DEF Merges
  <2>2. first \in 1..(k + 1) /\ last \in 1..(k + 1) /\ k + 1 \in 1..(k + 1)
    OBVIOUS
  <2>3. CASE i = l /\ end = r[2]
    <3>1. new[i][1] = a /\ new[i][2] = r[2] /\ a < end
      BY <1>2, <1>4, <2>3
    <3> QED
      BY <2>1, <2>2, <2>3, <3>1
  <2>4. CASE i = l /\ end = b
    BY <1>2, <1>4, <2>1, <2>2, <2>4
  <2>5. CASE i # l
    BY <1>3, <2>1, <2>2, <2>5
  <2> QED
    BY <2>3, <2>4, <2>5
<1>9. ASSUME NEW u \in Int PROVE Spans(new, u) <=> Covers(seq, k + 1, u)
  <2>1. a <= u /\ u < end <=> (a <= u /\ u < b) \/ (r[1] <= u /\ u < r[2])
    BY <1>1, <1>2, <1>6
  <2>2. Spans(new, u) <=> Spans(m, u) \/ (a <= u /\ u < end)
    <3>1. \A i \in 1..l : i # l => (new[i][1] <= u /\ u < new[i][2] <=> m[i][1] <= u /\ u < m[i][2])
      BY <1>3
    <3> QED
      BY <1>2, <1>3, <1>4, <2>1, <3>1 DEF Spans
  <2>3. Spans(m, u) \/ (a <= u /\ u < end) <=> Spans(m, u) \/ (r[1] <= u /\ u < r[2])
    BY <1>2, <2>1 DEF Spans
  <2>4. Covers(seq, k + 1, u) <=> Covers(seq, k, u) \/ (r[1] <= u /\ u < r[2])
    BY <1>5 DEF Covers
  <2> QED
    BY <2>2, <2>3, <2>4 DEF Merges
<1>10. new # <<>> /\ new[Len(new)][1] <= seq[k + 1][1]
  BY <1>2, <1>3, <1>4, <1>6
<1>11. /\ \A i \in DOMAIN new : new[i][1] < new[i][2]
       /\ \A i \in DOMAIN new : \E j \in 1..(k + 1) : new[i][1] = seq[j][1]
       /\ \A i \in DOMAIN new : \E j \in 1..(k + 1) : new[i][2] = seq[j][2]
       /\ \A i, j \in DOMAIN new : i < j => new[i][2] < new[j][1]
  <2> HIDE DEF l
  <2> QED
    BY <1>3, <1>7, <1>8
<1> QED
  BY <1>3, <1>9, <1>10, <1>11 DEF Merges

LEMMA AbsorbKeeps ==
  ASSUME NEW n \in Nat, NEW seq, Forward(seq, n), NEW k \in Nat, k < n, NEW m, Merges(m, seq, k)
  PROVE  Merges(Absorb(m, seq[k + 1]), seq, k + 1)
<1>1. CASE m = <<>> \/ m[Len(m)][2] < seq[k + 1][1]
  <2>1. Absorb(m, seq[k + 1]) = Append(m, seq[k + 1])
    BY <1>1 DEF Absorb, Last
  <2> QED
    BY <1>1, <2>1, AppendKeeps
<1>2. CASE ~(m = <<>> \/ m[Len(m)][2] < seq[k + 1][1])
  <2> DEFINE l == Len(m)
             r == seq[k + 1]
  <2>1. /\ m \in Seq(Int \X Int) /\ l \in 1..l /\ DOMAIN m = 1..l
        /\ m[l] \in Int \X Int /\ m[l][2] \in Int /\ m[l] = <<m[l][1], m[l][2]>>
    BY <1>2 DEF Merges
  <2>2. r[1] \in Int /\ r[2] \in Int
    BY DEF Forward
  <2>3. CASE r[2] > m[l][2]
    <3>1. Absorb(m, r) = [m EXCEPT ![l] = [m[l] EXCEPT ![2] = r[2]]]
      BY <1>2, <2>3 DEF Absorb, Last
    <3>2. [m[l] EXCEPT ![2] = r[2]] = <<m[l][1], r[2]>>
      BY <2>1
    <3>3. Absorb(m, r) = [m EXCEPT ![l] = <<m[l][1], r[2]>>]
      BY <3>1, <3>2
    <3>4. m # <<>> /\ m[l][2] <= r[2] /\ r[1] <= m[l][2]
      BY <1>2, <2>1, <2>2, <2>3
    <3>5. Merges([m EXCEPT ![l] = <<m[l][1], r[2]>>], seq, k + 1)
      BY <2>2, <3>4, ExtendKeeps
    <3> QED
      BY <3>3, <3>5
  <2>4. CASE ~(r[2] > m[l][2])
    <3>1. Absorb(m, r) = m
      BY <1>2, <2>4 DEF Absorb, Last
    <3>2. m = [m EXCEPT ![l] = <<m[l][1], m[l][2]>>]
      BY <2>1
    <3>3. m # <<>> /\ r[2] <= m[l][2] /\ r[1] <= m[l][2] /\ m[l][2] <= m[l][2]
      BY <1>2, <2>1, <2>2, <2>4
    <3>4. Merges([m EXCEPT ![l] = <<m[l][1], m[l][2]>>], seq, k + 1)
      BY <2>1, <3>3, ExtendKeeps
    <3> QED
      BY <3>1, <3>2, <3>4
  <2> QED
    BY <2>3, <2>4
<1> QED
  BY <1>1, <1>2

\* What is open: ranges with gaps between them that cover what the windows do.
Reaches(r, u) == r[1] <= u /\ u < r[2]

LEMMA MergedRanges ==
  ASSUME NEW S \in SUBSET (Int \X Int), IsFiniteSet(S), \A w \in S : w[1] < w[2],
         NEW M, M = ToSet(MergeRanges(S))
  PROVE  /\ \A r \in M : /\ r[1] \in Int /\ r[2] \in Int /\ r[1] < r[2]
                         /\ (\E w \in S : r[1] = w[1]) /\ \E w \in S : r[2] = w[2]
         /\ \A r, q \in M : r = q \/ r[2] < q[1] \/ q[2] < r[1]
         /\ \A u \in Int : (\E r \in M : Reaches(r, u)) <=> \E w \in S : Reaches(w, u)
<1>1. PICK seq, n : seq = InOrder(S) /\ n = Cardinality(S)
  OBVIOUS
<1>2. /\ n \in Nat /\ seq \in [1..n -> S] /\ Ordered(seq)
      /\ \A w \in S : \E j \in 1..n : seq[j] = w
  BY <1>1, RangesInOrder
<1>3. Forward(seq, n)
  BY <1>2 DEF Forward
<1>4. \A s \in SUBSET (1..n) : Steps(seq)[s] =
        IF s = {} THEN <<>> ELSE Absorb(Steps(seq)[s \ {Max(s)}], seq[Max(s)])
  BY <1>2, StepsExist
<1> DEFINE merged == {k \in Nat : k <= n => Merges(Steps(seq)[1..k], seq, k)}
<1>5. 0 \in merged
  <2>1. 1..0 = {}
    OBVIOUS
  <2>2. Steps(seq)[1..0] = <<>>
    BY <1>4, <2>1
  <2>3. /\ <<>> \in Seq(Int \X Int) /\ DOMAIN <<>> = {}
        /\ \A u \in Int : ~Spans(<<>>, u) /\ ~Covers(seq, 0, u)
    BY <2>1 DEF Spans, Covers
  <2>4. Merges(<<>>, seq, 0)
    BY <2>3 DEF Merges
  <2> QED
    BY <2>2, <2>4
<1>6. ASSUME NEW k \in merged PROVE k + 1 \in merged
  <2> SUFFICES ASSUME k + 1 <= n PROVE Merges(Steps(seq)[1..(k + 1)], seq, k + 1)
    BY <1>6
  <2> DEFINE s == 1..(k + 1)
  <2>1. k \in Nat /\ k < n /\ Merges(Steps(seq)[1..k], seq, k)
    BY <1>2, <1>6
  <2>2. s \in SUBSET (1..n) /\ k + 1 \in s /\ \A i \in s : i <= k + 1
    BY <1>2, <2>1
  <2>3. Max(s) \in s /\ \A i \in s : i <= Max(s)
    BY <1>2, <2>2, MaxOf
  <2>4. Max(s) = k + 1
    BY <2>1, <2>2, <2>3
  <2>5. s \ {k + 1} = 1..k
    BY <2>1
  <2>6. Steps(seq)[s] = Absorb(Steps(seq)[1..k], seq[k + 1])
    <3> HIDE DEF s
    <3> QED
      BY <1>4, <2>2, <2>4, <2>5
  <2> QED
    BY <1>2, <1>3, <2>1, <2>6, AbsorbKeeps
<1>7. merged = Nat
  <2>1. merged \in SUBSET Nat
    OBVIOUS
  <2> HIDE DEF merged
  <2> QED
    BY <1>5, <1>6, <2>1, Induct
<1>8. PICK m : m = Steps(seq)[1..n]
  OBVIOUS
<1>9. MergeRanges(S) = m
  BY <1>1, <1>2, <1>8, FoldsSteps DEF MergeRanges
<1>10. Merges(m, seq, n) /\ M = {m[i] : i \in DOMAIN m}
  BY <1>2, <1>7, <1>8, <1>9 DEF ToSet
<1>11. /\ \A i \in DOMAIN m : m[i] \in Int \X Int /\ m[i][1] \in Int /\ m[i][2] \in Int
       /\ DOMAIN m \subseteq Int
  BY <1>10 DEF Merges
<1>12. ASSUME NEW r \in M
       PROVE  /\ r[1] \in Int /\ r[2] \in Int /\ r[1] < r[2]
              /\ (\E w \in S : r[1] = w[1]) /\ \E w \in S : r[2] = w[2]
  <2>1. PICK i \in DOMAIN m : r = m[i]
    BY <1>10
  <2> QED
    BY <1>2, <1>10, <1>11, <2>1 DEF Merges
<1>13. ASSUME NEW r \in M, NEW q \in M PROVE r = q \/ r[2] < q[1] \/ q[2] < r[1]
  <2>1. PICK i \in DOMAIN m, j \in DOMAIN m : r = m[i] /\ q = m[j]
    BY <1>10
  <2>2. i = j \/ i < j \/ j < i
    BY <1>11
  <2> QED
    BY <1>10, <2>1, <2>2 DEF Merges
<1>14. ASSUME NEW u \in Int
       PROVE  (\E r \in M : Reaches(r, u)) <=> \E w \in S : Reaches(w, u)
  <2>1. (\E r \in M : Reaches(r, u)) <=> Spans(m, u)
    BY <1>10 DEF Spans, Reaches
  <2>2. (\E w \in S : Reaches(w, u)) <=> Covers(seq, n, u)
    BY <1>2 DEF Covers, Reaches
  <2> QED
    BY <1>10, <2>1, <2>2 DEF Merges
<1> QED
  BY <1>12, <1>13, <1>14

LEMMA Multiple ==
  ASSUME NEW n \in Nat \ {0}, NEW x \in Int
  PROVE  x % n = 0 <=> \E q \in Int : x = n * q
<1>1. x = n * (x \div n) + (x % n) /\ x \div n \in Int
  OBVIOUS
<1>2. \A q \in Int : (n * q) % n = 0
  OBVIOUS
<1>3. ASSUME x % n = 0 PROVE \E q \in Int : x = n * q
  <2>1. x = n * (x \div n)
    BY <1>1, <1>3
  <2> QED
    BY <1>1, <2>1
<1> QED
  BY <1>2, <1>3

LEMMA Aligned ==
  ASSUME NEW n \in Nat \ {0}, NEW x \in Int, NEW a \in Int, a % n = 0
  PROVE  (x - a) % n = 0 <=> x % n = 0
<1>1. PICK p \in Int : a = n * p
  BY Multiple
<1>2. ASSUME NEW q \in Int, x - a = n * q PROVE \E r \in Int : x = n * r
  <2>1. x = n * (p + q) /\ p + q \in Int
    BY <1>1, <1>2
  <2> QED
    BY <2>1
<1>3. ASSUME NEW q \in Int, x = n * q PROVE \E r \in Int : x - a = n * r
  <2>1. x - a = n * (q - p) /\ q - p \in Int
    BY <1>1, <1>3
  <2> QED
    BY <2>1
<1>4. x - a \in Int
  OBVIOUS
<1>5. (x - a) % n = 0 <=> \E q \in Int : x - a = n * q
  BY <1>4, Multiple
<1> QED
  BY <1>2, <1>3, <1>5, Multiple

----------------------------------------------------------------------------
(* The clock of a day, which may be changed on it, and the slots that are  *)
(* derived with it: those the reference offers.                            *)

Zones == [before : Int, after : Int, change : Int]

\* A time that the clock shows at one instant only.
ShownAtOnce(zone, time) ==
  \E i \in Int : \A j \in Int : DateParts(zone, j) = time <=> j = i

\* Three rounds find an instant of every time a clock shows, however it is
\* changed that day, and refuse exactly the times it skips
\* (zonedDateTimeToUtc()).
THEOREM ConversionFindsTheTime ==
  ASSUME NEW zone \in Zones, NEW time \in Int
  PROVE  /\ ZonedDateTimeToUtc(zone, time) \in Int
         /\ Resolves(zone, time) <=> \E i \in Int : DateParts(zone, i) = time
BY DEF Zones, ZonedDateTimeToUtc, Resolves, DateParts

\* What comes before a time that is shown once comes before it on the wall.
LEMMA ClockKeepsOrder ==
  ASSUME NEW zone \in Zones, NEW time \in Int, ShownAtOnce(zone, time),
         NEW at, at = ZonedDateTimeToUtc(zone, time)
  PROVE  /\ at \in Int /\ DateParts(zone, at) = time
         /\ \A u \in Int : time <= DateParts(zone, u) <=> at <= u
<1>1. at \in Int /\ DateParts(zone, at) = time
  BY ConversionFindsTheTime DEF Resolves, ShownAtOnce
<1>2. \A j \in Int : DateParts(zone, j) = time => j = at
  BY <1>1 DEF ShownAtOnce
<1>3. PICK b, a, c \in Int : zone.before = b /\ zone.after = a /\ zone.change = c
  BY DEF Zones
<1>4. \A j \in Int : DateParts(zone, j) = IF j < c THEN j + b ELSE j + a
  BY <1>3 DEF DateParts
<1>5. /\ (time - b < c) => time - b = at
      /\ ~(time - a < c) => time - a = at
  <2>1. time - b \in Int /\ time - a \in Int
    OBVIOUS
  <2>2. (time - b < c) => DateParts(zone, time - b) = time
    BY <1>4, <2>1
  <2>3. ~(time - a < c) => DateParts(zone, time - a) = time
    BY <1>4, <2>1
  <2> QED
    BY <1>2, <2>1, <2>2, <2>3
<1>6. time = IF at < c THEN at + b ELSE at + a
  BY <1>1, <1>4
<1> SUFFICES ASSUME NEW u \in Int
             PROVE  time <= DateParts(zone, u) <=> at <= u
  BY <1>1
<1>7. DateParts(zone, u) = IF u < c THEN u + b ELSE u + a
  BY <1>4
<1> QED
  BY <1>1, <1>5, <1>6, <1>7

\* A wall-clock time in the day is an instant of the day.
LEMMA InTheDay ==
  ASSUME NEW zone \in Zones
  PROVE  /\ Day(zone) \subseteq Int
         /\ \A t \in Int : DateParts(zone, t) \in 0..Midnight => t \in Day(zone)
<1>1. PICK b, a, c \in Int : zone.before = b /\ zone.after = a /\ zone.change = c
  BY DEF Zones
<1>2. PICK most, least \in {b, a} : most = Max({b, a}) /\ least = Min({b, a})
                                     /\ most >= b /\ most >= a /\ least <= b /\ least <= a
  <2>1. Max({b, a}) = IF a >= b THEN a ELSE b
    BY DEF Max
  <2>2. Min({b, a}) = IF a <= b THEN a ELSE b
    BY DEF Min
  <2> QED
    BY <2>1, <2>2
<1>3. Day(zone) = (0 - most)..(Midnight - least)
  <2>1. {zone.before, zone.after} = {b, a}
    BY <1>1
  <2>2. Day(zone) = (0 - Max({b, a}))..(Midnight - Min({b, a}))
    BY <2>1, Zenon DEF Day
  <2> QED
    BY <1>2, <2>2
<1>4. \A t \in Int : DateParts(zone, t) = IF t < c THEN t + b ELSE t + a
  BY <1>1 DEF DateParts
<1>5. most \in Int /\ least \in Int /\ Midnight \in Int
  BY SlotsAssumption
<1>6. ASSUME NEW t \in Int, DateParts(zone, t) \in 0..Midnight PROVE t \in Day(zone)
  <2>1. 0 - most <= t /\ t <= Midnight - least
    BY <1>2, <1>4, <1>5, <1>6
  <2> QED
    BY <1>3, <1>5, <2>1
<1>7. Day(zone) \subseteq Int
  BY <1>3, <1>5
<1> QED
  BY <1>6, <1>7

\* An instant is aligned with another when the wall-clock times are, for a clock
\* that is changed by whole steps.
LEMMA AlignedOnTheWall ==
  ASSUME NEW zone \in Zones, (zone.after - zone.before) % Step = 0,
         NEW i \in Int, NEW t \in Int, DateParts(zone, i) % Step = 0
  PROVE  (t - i) % Step = 0 <=> DateParts(zone, t) % Step = 0
<1>1. PICK b, a, c \in Int : zone.before = b /\ zone.after = a /\ zone.change = c
  BY DEF Zones
<1>2. \A j \in Int : DateParts(zone, j) = IF j < c THEN j + b ELSE j + a
  BY <1>1 DEF DateParts
<1>3. Step \in Nat \ {0}
  BY SlotsAssumption
<1>4. PICK x, y \in Int : x = DateParts(zone, i) /\ y = DateParts(zone, t)
  BY <1>2
<1>5. x % Step = 0 /\ (y - x) % Step = 0 <=> x % Step = 0 /\ y % Step = 0
  BY <1>3, Aligned
<1>6. y - x = t - i \/ y - x = (t - i) + (a - b) \/ y - x = (t - i) - (a - b)
  BY <1>2, <1>4
<1>7. PICK s \in Int : s = a - b /\ s % Step = 0
  BY <1>1
<1>8. ((t - i) - s) % Step = 0 <=> (t - i) % Step = 0
  <2>1. PICK z \in Int : z = t - i
    OBVIOUS
  <2>2. (z - s) % Step = 0 <=> z % Step = 0
    BY <1>3, <1>7, Aligned
  <2> QED
    BY <2>1, <2>2
<1>9. ((t - i) + s) % Step = 0 <=> (t - i) % Step = 0
  <2>1. PICK z \in Int : z = (t - i) + s
    OBVIOUS
  <2>2. (z - s) % Step = 0 <=> z % Step = 0
    BY <1>3, <1>7, Aligned
  <2>3. z - s = t - i
    BY <2>1
  <2> QED
    BY <2>1, <2>2, <2>3
<1>10. (y - x) % Step = 0 <=> (t - i) % Step = 0
  BY <1>6, <1>7, <1>8, <1>9
<1> QED
  BY <1>4, <1>5, <1>10

\* A slot meets no blocked period when no unit of it is in one, by the clock on
\* the wall.
LEMMA BlockedOnTheWall ==
  ASSUME NEW zone \in Zones, NEW blocked, NEW t \in Int, NEW d \in Nat \ {0},
         \A p \in blocked :
           p = AllDay \/ (/\ p \in Int \X Int /\ p[1] < p[2]
                          /\ ShownAtOnce(zone, p[1]) /\ ShownAtOnce(zone, p[2]))
  PROVE  SlotIsFree(zone, <<t, t + d>>, blocked)
           <=> \A u \in t..(t + d - 1) : \A p \in blocked : ~Within(DateParts(zone, u), p)
<1>1. ASSUME NEW p \in blocked
      PROVE  (p # AllDay /\ ~Overlaps(<<t, t + d>>, Instants(zone, p)))
               <=> \A u \in t..(t + d - 1) : ~Within(DateParts(zone, u), p)
  <2>1. t \in t..(t + d - 1)
    OBVIOUS
  <2>2. CASE p = AllDay
    BY <2>1, <2>2 DEF Within
  <2>3. CASE p # AllDay
    <3>1. PICK x, y \in Int : p = <<x, y>> /\ x < y /\ ShownAtOnce(zone, x) /\ ShownAtOnce(zone, y)
      BY <2>3
    <3>2. PICK a, b : a = ZonedDateTimeToUtc(zone, x) /\ b = ZonedDateTimeToUtc(zone, y)
      OBVIOUS
    <3>3. /\ a \in Int /\ \A u \in Int : x <= DateParts(zone, u) <=> a <= u
          /\ b \in Int /\ \A u \in Int : y <= DateParts(zone, u) <=> b <= u
      BY <3>1, <3>2, ClockKeepsOrder
    <3>4. \A u \in Int : DateParts(zone, u) \in Int
      BY DEF DateParts, Zones
    <3>5. a < b
      <4>1. DateParts(zone, a) = x
        BY <3>1, <3>2, ClockKeepsOrder
      <4> QED
        BY <3>1, <3>3, <4>1
    <3>6. Overlaps(<<t, t + d>>, Instants(zone, p)) <=> t < b /\ t + d > a
      BY <3>1, <3>2 DEF Overlaps, Instants
    <3>7. \A u \in Int : Within(DateParts(zone, u), p) <=> a <= u /\ u < b
      BY <2>3, <3>1, <3>3, <3>4 DEF Within
    <3>8. ASSUME t < b, t + d > a PROVE \E u \in t..(t + d - 1) : a <= u /\ u < b
      <4>1. CASE a <= t
        BY <2>1, <3>8, <4>1
      <4>2. CASE t < a
        <5>1. a \in t..(t + d - 1)
          BY <3>3, <3>8, <4>2
        <5> QED
          BY <3>5, <5>1
      <4> QED
        BY <3>3, <4>1, <4>2
    <3>9. ASSUME NEW u \in t..(t + d - 1), a <= u, u < b PROVE t < b /\ t + d > a
      BY <3>3, <3>9
    <3> QED
      BY <2>3, <3>6, <3>7, <3>8, <3>9
  <2> QED
    BY <2>2, <2>3
<1> QED
  BY <1>1 DEF SlotIsFree

\* A time of d units is in one open range when every unit of it is open.
LEMMA WholeTimes ==
  ASSUME NEW M, NEW t \in Int, NEW d \in Nat \ {0},
         \A r \in M : r[1] \in Int /\ r[2] \in Int,
         \A r, q \in M : r = q \/ r[2] < q[1] \/ q[2] < r[1],
         \A u \in t..(t + d - 1) : \E r \in M : Reaches(r, u)
  PROVE  \E r \in M : r[1] <= t /\ t + d <= r[2]
<1>1. PICK r \in M : Reaches(r, t)
  OBVIOUS
<1> DEFINE reached == {k \in Nat : k < d => Reaches(r, t + k)}
<1>2. 0 \in reached
  BY <1>1
<1>3. ASSUME NEW k \in reached PROVE k + 1 \in reached
  <2> SUFFICES ASSUME k + 1 < d PROVE Reaches(r, t + (k + 1))
    OBVIOUS
  <2>1. k \in Nat /\ Reaches(r, t + k)
    OBVIOUS
  <2>2. PICK q \in M : Reaches(q, t + (k + 1))
    <3>1. t + (k + 1) \in t..(t + d - 1)
      BY <2>1
    <3> QED
      BY <3>1
  <2>3. r = q
    BY <2>1, <2>2 DEF Reaches
  <2> QED
    BY <2>2, <2>3
<1>4. reached = Nat
  <2>1. reached \in SUBSET Nat
    OBVIOUS
  <2> HIDE DEF reached
  <2> QED
    BY <1>2, <1>3, <2>1, Induct
<1>5. Reaches(r, t + (d - 1))
  <2>1. d - 1 \in Nat /\ d - 1 < d
    OBVIOUS
  <2> QED
    BY <1>4, <2>1
<1> QED
  BY <1>1, <1>5 DEF Reaches

\* The slots derived for a day are exactly its free time by the clock on the
\* wall, and all of that day, also when the clock is changed, as long as it
\* shows once each time that the search converts (slotsFrom(), slotIsFree()).
THEOREM SlotsExactWhateverTheClock ==
  ASSUME NEW zone \in Zones, (zone.after - zone.before) % Step = 0,
         NEW weekly, NEW specific, NEW blocked, NEW d \in Nat \ {0},
         weekly \cup specific \in SUBSET ((0..Midnight) \X (0..Midnight)),
         \A w \in weekly \cup specific : w[1] < w[2] /\ w[1] % Step = 0,
         \A p \in blocked : p = AllDay \/ (p \in Int \X Int /\ p[1] < p[2]),
         \A time \in Converted(zone, weekly, specific, blocked, d) : ShownAtOnce(zone, time)
  PROVE  /\ SlotsFrom(zone, weekly, specific, blocked, d)
              = Offered(zone, weekly, specific, blocked, d)
         /\ \A t \in SlotsFrom(zone, weekly, specific, blocked, d) : DateInTimeZone(zone, t) = 0
<1>1. PICK S : S = weekly \cup specific
  OBVIOUS
<1>2. PICK M : M = WindowsOn(weekly, specific)
  OBVIOUS
<1>3. /\ S \in SUBSET (Int \X Int) /\ IsFiniteSet(S)
      /\ \A w \in S : /\ w[1] \in 0..Midnight /\ w[2] \in 0..Midnight /\ w # AllDay
                      /\ w[1] < w[2] /\ w[1] % Step = 0
  <2>1. S \in SUBSET (Int \X Int)
    BY <1>1, SlotsAssumption
  <2>2. IsFiniteSet((0..Midnight) \X (0..Midnight))
    <3>1. IsFiniteSet(0..Midnight)
      BY FS_Interval, SlotsAssumption
    <3> QED
      BY <3>1, FS_Product
  <2>3. IsFiniteSet(S)
    BY <1>1, <2>2, FS_Subset
  <2> QED
    BY <1>1, <2>1, <2>3, SlotsAssumption
<1>4. /\ \A r \in M : /\ r[1] \in Int /\ r[2] \in Int /\ r[1] < r[2]
                      /\ (\E w \in S : r[1] = w[1]) /\ \E w \in S : r[2] = w[2]
      /\ \A r, q \in M : r = q \/ r[2] < q[1] \/ q[2] < r[1]
      /\ \A u \in Int : (\E r \in M : Reaches(r, u)) <=> \E w \in S : Reaches(w, u)
  <2>1. M = ToSet(MergeRanges(S))
    BY <1>1, <1>2 DEF WindowsOn
  <2>2. \A w \in S : w[1] < w[2]
    BY <1>3
  <2> QED
    BY <1>3, <2>1, <2>2, MergedRanges
<1>5. \A r \in M : r[1] \in 0..Midnight /\ r[2] \in 0..Midnight /\ r[1] % Step = 0
  BY <1>3, <1>4
<1>6. \A u \in Int : DateParts(zone, u) \in Int
  BY DEF DateParts, Zones
<1> DEFINE wall(u) == DateParts(zone, u)
           from(r) == ZonedDateTimeToUtc(zone, r[1])
           to(r)   == ZonedDateTimeToUtc(zone, r[2])
           N == {<<from(r), to(r)>> : r \in M}
\* The open ranges, as instants.
<1>7. ASSUME NEW r \in M
      PROVE  /\ from(r) \in Int /\ to(r) \in Int
             /\ wall(from(r)) = r[1] /\ wall(to(r)) = r[2]
             /\ \A u \in Int : r[1] <= wall(u) <=> from(r) <= u
             /\ \A u \in Int : r[2] <= wall(u) <=> to(r) <= u
  <2>1. ShownAtOnce(zone, r[1]) /\ ShownAtOnce(zone, r[2])
    <3>1. r[1] \in Converted(zone, weekly, specific, blocked, d)
      BY <1>2 DEF Converted
    <3>2. r[2] \in Converted(zone, weekly, specific, blocked, d)
      BY <1>2 DEF Converted
    <3> QED
      BY <3>1, <3>2
  <2>2. r[1] \in Int /\ r[2] \in Int
    BY <1>4
  <2> QED
    BY <2>1, <2>2, ClockKeepsOrder
<1> HIDE DEF from, to, wall
<1>8. \A u \in Int, r \in M : Reaches(r, wall(u)) <=> from(r) <= u /\ u < to(r)
  <2> SUFFICES ASSUME NEW u \in Int, NEW r \in M
               PROVE  Reaches(r, wall(u)) <=> from(r) <= u /\ u < to(r)
    OBVIOUS
  <2>1. wall(u) \in Int /\ r[1] \in Int /\ r[2] \in Int
    BY <1>4, <1>6 DEF wall
  <2>2. /\ from(r) \in Int /\ to(r) \in Int
        /\ r[1] <= wall(u) <=> from(r) <= u
        /\ r[2] <= wall(u) <=> to(r) <= u
    BY <1>7
  <2> QED
    BY <2>1, <2>2 DEF Reaches
<1>9. \A u \in Int : (\E w \in S : Within(wall(u), w)) <=> \E n \in N : Reaches(n, u)
  <2> SUFFICES ASSUME NEW u \in Int
               PROVE  (\E w \in S : Within(wall(u), w)) <=> \E n \in N : Reaches(n, u)
    OBVIOUS
  <2>1. wall(u) \in Int
    BY <1>6 DEF wall
  <2>2. (\E w \in S : Within(wall(u), w)) <=> \E w \in S : Reaches(w, wall(u))
    BY <1>3 DEF Within, Reaches
  <2>3. (\E n \in N : Reaches(n, u)) <=> \E r \in M : from(r) <= u /\ u < to(r)
    <3>1. \A r \in M : Reaches(<<from(r), to(r)>>, u) <=> from(r) <= u /\ u < to(r)
      BY DEF Reaches
    <3> QED
      BY <3>1
  <2> QED
    BY <1>4, <1>8, <2>1, <2>2, <2>3
<1>10. /\ \A n \in N : n[1] \in Int /\ n[2] \in Int
       /\ \A n, m \in N : n = m \/ n[2] < m[1] \/ m[2] < n[1]
  <2>1. \A r, q \in M : r[2] < q[1] => to(r) < from(q)
    <3> SUFFICES ASSUME NEW r \in M, NEW q \in M, r[2] < q[1] PROVE to(r) < from(q)
      OBVIOUS
    <3>1. r[2] \in Int /\ q[1] \in Int
      BY <1>4
    <3>2. /\ to(r) \in Int /\ wall(to(r)) = r[2] /\ from(q) \in Int
          /\ q[1] <= wall(to(r)) <=> from(q) <= to(r)
      BY <1>7
    <3> QED
      BY <3>1, <3>2
  <2> QED
    BY <1>4, <1>7, <2>1
<1> DEFINE Fits(t, n) == n[1] <= t /\ t + d <= n[2] /\ wall(t) % Step = 0
<1>11. ASSUME NEW t PROVE t \in Fitting(zone, weekly, specific, d)
                            <=> t \in Int /\ \E n \in N : Fits(t, n)
  <2>1. ASSUME NEW r \in M
        PROVE  t \in (LET range == Instants(zone, r)
                      IN {i \in range[1]..(range[2] - 1) :
                            (i - range[1]) % Step = 0 /\ i + d <= range[2]})
                 <=> t \in Int /\ Fits(t, <<from(r), to(r)>>)
    <3>1. PICK a, b \in Int : a = from(r) /\ b = to(r)
      BY <1>7
    <3>2. Instants(zone, r) = <<a, b>> /\ DateParts(zone, a) % Step = 0
      BY <1>5, <1>7, <3>1 DEF Instants, from, to, wall
    <3>3. \A i \in Int : (i - a) % Step = 0 <=> wall(i) % Step = 0
      BY <3>1, <3>2, AlignedOnTheWall DEF wall
    <3> QED
      BY <3>1, <3>2, <3>3
  <2>2. t \in Fitting(zone, weekly, specific, d)
          <=> \E r \in M : t \in (LET range == Instants(zone, r)
                IN {i \in range[1]..(range[2] - 1) :
                      (i - range[1]) % Step = 0 /\ i + d <= range[2]})
    BY <1>2 DEF Fitting
  <2>3. (\E n \in N : Fits(t, n)) <=> \E r \in M : Fits(t, <<from(r), to(r)>>)
    <3> HIDE DEF Fits
    <3> QED
      OBVIOUS
  <2> HIDE DEF Fits, N
  <2> QED
    BY <2>1, <2>2, <2>3
<1>12. ASSUME NEW t \in Int
       PROVE  (\E n \in N : Fits(t, n))
                <=> /\ t \in Day(zone) /\ wall(t) % Step = 0
                    /\ \A u \in t..(t + d - 1) : \E n \in N : Reaches(n, u)
  <2>1. ASSUME NEW r \in M, NEW n \in N, n = <<from(r), to(r)>>, Fits(t, n)
        PROVE  /\ t \in Day(zone) /\ wall(t) % Step = 0 /\ wall(t) \in 0..(Midnight - 1)
               /\ \A u \in t..(t + d - 1) : Reaches(n, u)
    <3>1. /\ from(r) \in Int /\ to(r) \in Int
          /\ from(r) <= t /\ t + d <= to(r)
      BY <1>7, <2>1
    <3>2. \A u \in t..(t + d - 1) : Reaches(n, u)
      BY <2>1, <3>1 DEF Reaches
    <3>3. Reaches(r, wall(t))
      BY <1>8, <3>1
    <3>4. wall(t) \in 0..(Midnight - 1)
      <4>1. /\ r[1] \in Int /\ r[2] \in Int /\ 0 <= r[1] /\ r[2] <= Midnight
            /\ Midnight \in Int /\ wall(t) \in Int
        BY <1>5, <1>6, SlotsAssumption DEF wall
      <4> QED
        BY <3>3, <4>1 DEF Reaches
    <3>5. t \in Day(zone)
      BY <3>4, InTheDay, SlotsAssumption DEF wall
    <3> QED
      BY <2>1, <3>2, <3>4, <3>5
  <2>2. ASSUME wall(t) % Step = 0, \A u \in t..(t + d - 1) : \E n \in N : Reaches(n, u)
        PROVE  \E n \in N : Fits(t, n)
    <3>1. \E n \in N : n[1] <= t /\ t + d <= n[2]
      <4> HIDE DEF N
      <4> QED
        BY <1>10, <2>2, WholeTimes
    <3> QED
      BY <2>2, <3>1
  <2> QED
    BY <2>1, <2>2
<1>13. ASSUME NEW t \in SlotsFrom(zone, weekly, specific, blocked, d)
       PROVE  DateInTimeZone(zone, t) = 0
  <2>1. t \in Int /\ \E n \in N : Fits(t, n)
    BY <1>11 DEF SlotsFrom
  <2>2. PICK r \in M : Fits(t, <<from(r), to(r)>>)
    BY <2>1
  <2>3. Reaches(r, wall(t))
    <3>1. from(r) \in Int /\ to(r) \in Int /\ from(r) <= t /\ t + d <= to(r)
      BY <1>7, <2>2
    <3> QED
      BY <1>8, <2>1, <3>1
  <2>4. wall(t) \in Int /\ 0 <= wall(t) /\ wall(t) < Midnight /\ Midnight \in Nat
    <3>1. /\ r[1] \in Int /\ r[2] \in Int /\ 0 <= r[1] /\ r[2] <= Midnight
          /\ Midnight \in Nat /\ wall(t) \in Int
      BY <1>5, <1>6, <2>1, SlotsAssumption DEF wall
    <3> QED
      BY <2>3, <3>1 DEF Reaches
  <2>5. wall(t) \div Midnight = 0
    BY <2>4
  <2> QED
    BY <2>5 DEF DateInTimeZone, wall
<1>14. ASSUME NEW t PROVE t \in SlotsFrom(zone, weekly, specific, blocked, d)
                            <=> t \in Offered(zone, weekly, specific, blocked, d)
  <2>1. t \in SlotsFrom(zone, weekly, specific, blocked, d)
          <=> /\ t \in Fitting(zone, weekly, specific, d)
              /\ SlotIsFree(zone, <<t, t + d>>, blocked)
    BY DEF SlotsFrom
  <2>2. CASE t \in Int /\ Fitting(zone, weekly, specific, d) # {}
    <3>1. t \in Offered(zone, weekly, specific, blocked, d)
            <=> /\ t \in Day(zone) /\ wall(t) % Step = 0
                /\ \A u \in t..(t + d - 1) :
                     /\ \E w \in S : Within(wall(u), w)
                     /\ \A p \in blocked : ~Within(wall(u), p)
      BY <1>1, <2>2 DEF Offered, wall
    <3>2. (\A u \in t..(t + d - 1) : \E w \in S : Within(wall(u), w))
            <=> \A u \in t..(t + d - 1) : \E n \in N : Reaches(n, u)
      <4> HIDE DEF N
      <4> QED
        BY <1>9, <2>2
    <3>3. \A p \in blocked :
            p = AllDay \/ (/\ p \in Int \X Int /\ p[1] < p[2]
                           /\ ShownAtOnce(zone, p[1]) /\ ShownAtOnce(zone, p[2]))
      <4> SUFFICES ASSUME NEW p \in blocked \ {AllDay}
                   PROVE  ShownAtOnce(zone, p[1]) /\ ShownAtOnce(zone, p[2])
        OBVIOUS
      <4>1. p[1] \in Converted(zone, weekly, specific, blocked, d)
        BY <2>2 DEF Converted
      <4>2. p[2] \in Converted(zone, weekly, specific, blocked, d)
        BY <2>2 DEF Converted
      <4> QED
        BY <4>1, <4>2
    <3>4. SlotIsFree(zone, <<t, t + d>>, blocked)
            <=> \A u \in t..(t + d - 1) : \A p \in blocked : ~Within(wall(u), p)
      BY <2>2, <3>3, BlockedOnTheWall DEF wall
    <3> HIDE DEF Fits, N
    <3> QED
      BY <1>11, <1>12, <2>1, <2>2, <3>1, <3>2, <3>4
  <2>3. CASE t \in Int /\ Fitting(zone, weekly, specific, d) = {}
    <3>1. t \in Offered(zone, weekly, specific, blocked, d)
            => /\ t \in Day(zone) /\ wall(t) % Step = 0
               /\ \A u \in t..(t + d - 1) : \E w \in S : Within(wall(u), w)
      BY <1>1 DEF Offered, wall
    <3>2. (\A u \in t..(t + d - 1) : \E w \in S : Within(wall(u), w))
            <=> \A u \in t..(t + d - 1) : \E n \in N : Reaches(n, u)
      <4> HIDE DEF N
      <4> QED
        BY <1>9, <2>3
    <3> HIDE DEF Fits, N
    <3> QED
      BY <1>11, <1>12, <2>1, <2>3, <3>1, <3>2
  <2>4. CASE t \notin Int
    <3>1. t \notin Day(zone)
      BY <2>4, InTheDay
    <3> QED
      BY <1>11, <2>1, <2>4, <3>1 DEF Offered
  <2> QED
    BY <2>2, <2>3, <2>4
<1> QED
  BY <1>13, <1>14

\* Without a change of the clock every time is shown once.
LEMMA DerivedIsOffered ==
  ASSUME NEW weekly, NEW specific, NEW blocked, NEW d \in Nat \ {0},
         weekly \cup specific \in SUBSET ((0..Midnight) \X (0..Midnight)),
         \A w \in weekly \cup specific : w[1] < w[2] /\ w[1] % Step = 0,
         \A p \in blocked : p = AllDay \/ (p \in Int \X Int /\ p[1] < p[2])
  PROVE  SlotsFrom(Steady, weekly, specific, blocked, d)
           = Offered(Steady, weekly, specific, blocked, d)
<1>1. Steady \in Zones /\ (Steady.after - Steady.before) % Step = 0
  BY SlotsAssumption DEF Steady, Zones
<1>2. \A time \in Int : ShownAtOnce(Steady, time)
  <2>1. \A j \in Int : DateParts(Steady, j) = j
    BY DEF DateParts, Steady
  <2> QED
    BY <2>1 DEF ShownAtOnce
<1>3. Converted(Steady, weekly, specific, blocked, d) \subseteq Int
  <2>1. PICK S : S = weekly \cup specific
    OBVIOUS
  <2>2. S \in SUBSET (Int \X Int) /\ \A w \in S : w[1] < w[2]
    BY <2>1, SlotsAssumption
  <2>3. IsFiniteSet(S)
    <3>1. IsFiniteSet(0..Midnight)
      BY FS_Interval, SlotsAssumption
    <3>2. IsFiniteSet((0..Midnight) \X (0..Midnight))
      BY <3>1, FS_Product
    <3> QED
      BY <2>1, <3>2, FS_Subset
  <2>4. \A r \in WindowsOn(weekly, specific) : r[1] \in Int /\ r[2] \in Int
    BY <2>1, <2>2, <2>3, MergedRanges DEF WindowsOn
  <2> QED
    BY <2>4, SlotsAssumption DEF Converted
<1> QED
  BY <1>1, <1>2, <1>3, SlotsExactWhateverTheClock

----------------------------------------------------------------------------
(* The searches.  A search knows of every profile it reads all rows there  *)
(* were since it began, and what it has of a table is of one of them.      *)

ProfileThere(p) == p \in Profiles /\ profile[p] # None

ServicesNamed ==
  \A v \in Services : Is(service[v]) =>
    service[v].profile = Null \/ ProfileThere(service[v].profile)

\* What will be named by a Service.
NamingOK(r) ==
  /\ r.pc = "insert" => ProfileThere(r.profile)
  /\ r.pc = "references" => r.edit.profile \in {None, r.profile}
  /\ r.pc \in {"readService", "writeService"} =>
       r.edit.profile = None \/ ProfileThere(r.edit.profile)

\* What a search has of table k is of a row that was current.
OfOneRow(r, k, p) ==
  \E row \in r.seen[p] : r.table[k][p] = IF k = "live" THEN ~row.deleted ELSE row[k]

SearchOK(r) ==
  r.pc = "read" =>
    /\ \A p \in r.profiles : ProfileThere(p) /\ profile[p] \in r.seen[p]
    /\ \A v \in DOMAIN r.named : r.named[v] \in r.profiles
    /\ r.table = [k \in Statements |-> r.table[k]]
    /\ r.seen = [p \in r.profiles |-> r.seen[p]]
    /\ \A p \in r.profiles : \A row \in r.seen[p] : Whole(row)
    /\ \A k \in Statements, p \in r.profiles : r.table[k] # None => OfOneRow(r, k, p)

\* The slots of a Service are derived of tables that were each current.
Derived(slots, seen) ==
  \E w, d, b \in seen : slots = SlotsFrom(Steady, w.weekly, d.specific, b.blocked, Duration)

ShownOK(r) ==
  r.pc = "shown" =>
    \A v \in DOMAIN r.named :
      /\ \A row \in r.seen[r.named[v]] : Whole(row)
      /\ IF v \in DOMAIN r.slots
         THEN /\ \E row \in r.seen[r.named[v]] : ~row.deleted
              /\ Derived(r.slots[v], r.seen[r.named[v]])
         ELSE \E row \in r.seen[r.named[v]] : row.deleted

SearchInv ==
  /\ OfferInv
  /\ ServicesNamed
  /\ \A s \in Sessions : req[s] # None =>
       NamingOK(req[s]) /\ SearchOK(req[s]) /\ ShownOK(req[s])
\* Steps that leave a request about nothing a Service or a search needs.
Quiet(r) ==
  r.pc \notin {"insert", "references", "readService", "writeService", "read", "shown"}

LEMMA QuietOK ==
  ASSUME NEW r, Quiet(r)
  PROVE  NamingOK(r) /\ SearchOK(r) /\ ShownOK(r)
BY DEF Quiet, NamingOK, SearchOK, ShownOK

\* One request goes on; no schedule changes.
LEMMA SearchMoves ==
  ASSUME SearchInv, OfferInv', NEW s \in Sessions, NEW r, req' = [req EXCEPT ![s] = r],
         profile' = profile, ServicesNamed',
         r # None => NamingOK(r) /\ SearchOK(r) /\ ShownOK(r)
  PROVE  SearchInv'
<1>1. req' = [t \in Sessions |-> IF t = s THEN r ELSE req[t]]
  BY DEF SearchInv, OfferInv, RequestsCarry
<1>2. \A q : NamingOK(q) /\ SearchOK(q) /\ ShownOK(q) => NamingOK(q)' /\ SearchOK(q)' /\ ShownOK(q)'
  <2> SUFFICES ASSUME NEW q, NamingOK(q), SearchOK(q), ShownOK(q)
               PROVE  NamingOK(q)' /\ SearchOK(q)' /\ ShownOK(q)'
    OBVIOUS
  <2>1. NamingOK(q)' /\ SearchOK(q)'
    BY DEF NamingOK, SearchOK, ProfileThere
  <2>2. ShownOK(q)'
    BY DEF ShownOK
  <2> QED
    BY <2>1, <2>2
<1> HIDE DEF NamingOK, SearchOK, ShownOK
<1> QED
  BY <1>1, <1>2 DEF SearchInv

LEMMA SameServices ==
  ASSUME SearchInv, service' = service, \A p \in Profiles : profile[p] # None => profile'[p] # None
  PROVE  ServicesNamed'
BY DEF SearchInv, ServicesNamed, ProfileThere

LEMMA QuietMoves ==
  ASSUME SearchInv, OfferInv', NEW s \in Sessions, NEW r, req' = [req EXCEPT ![s] = r],
         profile' = profile, ServicesNamed', r = None \/ Quiet(r)
  PROVE  SearchInv'
BY QuietOK, SearchMoves

\* A request is answered.
LEMMA AnswerKeeps ==
  ASSUME SearchInv, OfferInv', NEW s \in Sessions, NEW a \in Answers \ {"shown"},
         Answer(s, a) \/ Begin(s, [pc |-> a]), profile' = profile, ServicesNamed'
  PROVE  SearchInv'
<1>1. PICK r : r = [pc |-> a]
  OBVIOUS
<1>2. Quiet(r)
  BY <1>1 DEF Quiet, Answers
<1> QED
  BY <1>1, <1>2, QuietMoves DEF Answer, Go, Begin

LEMMA SearchStays ==
  ASSUME SearchInv, OfferInv', profile' = profile, service' = service, req' = req
  PROVE  SearchInv'
BY DEF SearchInv, ServicesNamed, NamingOK, SearchOK, ShownOK, ProfileThere

\* A search under way takes note of a schedule's new row.
LEMMA NotedOK ==
  ASSUME SearchInv, NEW p \in Profiles, NEW row, Whole(row), Schedules(p, row),
         NEW t \in Sessions, At(t, "read"), NEW m, m = Noting(p, row, t)
  PROVE  SearchOK(m)' /\ m.pc = "read"
<1> DEFINE q == req[t]
           note == Noting(p, row, t)
<1>1. row # None
  BY OfferAssumption DEF Whole
<1>2. profile' = [c \in Profiles |-> IF c = p THEN row ELSE profile[c]]
  BY DEF Schedules, SearchInv, OfferInv, SchedulesOK
<1>3. q.pc = "read" /\ SearchOK(q) /\ CarriedOK(q)
  BY DEF At, SearchInv, OfferInv, RequestsCarry
<1>4. PICK names, named, table, seen :
        /\ q = [pc |-> "read", profiles |-> names, named |-> named, table |-> table, seen |-> seen]
  BY <1>3 DEF CarriedOK, ShapeOK
<1>5. /\ \A c \in names : ProfileThere(c) /\ profile[c] \in seen[c]
      /\ \A v \in DOMAIN named : named[v] \in names
      /\ table = [k \in Statements |-> table[k]]
      /\ seen = [c \in names |-> seen[c]]
      /\ \A c \in names : \A w \in seen[c] : Whole(w)
      /\ \A k \in Statements, c \in names : table[k] # None =>
           \E w \in seen[c] : table[k][c] = IF k = "live" THEN ~w.deleted ELSE w[k]
  <2> HIDE DEF q
  <2> QED
    BY <1>3, <1>4 DEF SearchOK, OfOneRow
<1>6. PICK news : news = IF p \in names THEN [seen EXCEPT ![p] = seen[p] \cup {row}] ELSE seen
  OBVIOUS
<1>7. note = [pc |-> "read", profiles |-> names, named |-> named, table |-> table, seen |-> news]
  <2>1. CASE p \in names
    <3>1. note = [q EXCEPT !.seen = [q.seen EXCEPT ![p] = q.seen[p] \cup {row}]]
      BY <1>4, <2>1 DEF Noting
    <3>2. note = [pc |-> "read", profiles |-> names, named |-> named, table |-> table,
                  seen |-> [seen EXCEPT ![p] = seen[p] \cup {row}]]
      <4> HIDE DEF q, note
      <4> QED
        BY <1>4, <3>1
    <3> QED
      BY <1>6, <2>1, <3>2
  <2>2. CASE p \notin names
    BY <1>4, <1>6, <2>2 DEF Noting
  <2> QED
    BY <2>1, <2>2
<1>8. /\ \A c \in names : seen[c] \subseteq news[c] /\ profile'[c] \in news[c] /\ profile'[c] # None
      /\ news = [c \in names |-> news[c]]
      /\ \A c \in names : \A w \in news[c] : Whole(w)
  BY <1>1, <1>2, <1>5, <1>6 DEF ProfileThere
<1>9. \A k \in Statements, c \in names : table[k] # None =>
        \E w \in news[c] : table[k][c] = IF k = "live" THEN ~w.deleted ELSE w[k]
  BY <1>5, <1>8
<1>10. m = [pc |-> "read", profiles |-> names, named |-> named, table |-> table, seen |-> news]
  BY <1>7
<1> HIDE DEF note
<1> QED
  BY <1>5, <1>8, <1>9, <1>10 DEF SearchOK, OfOneRow, ProfileThere, Whole

\* A schedule comes or changes.
LEMMA SearchNotes ==
  ASSUME SearchInv, OfferInv', NEW p \in Profiles, NEW row, Whole(row), Schedules(p, row),
         \A t \in Sessions :
           \/ req'[t] = [pc |-> "done"]
           \/ req'[t] = Noting(p, row, t)
  PROVE  SearchInv'
<1>1. row # None
  BY OfferAssumption DEF Whole
<1>2. profile' = [c \in Profiles |-> IF c = p THEN row ELSE profile[c]]
  BY DEF Schedules, SearchInv, OfferInv, SchedulesOK
<1>3. ServicesNamed'
  <2>1. \A c \in Profiles : profile[c] # None => profile'[c] # None
    BY <1>1, <1>2
  <2> QED
    BY <2>1, SameServices DEF Schedules
<1>4. PICK new : new = req'
  OBVIOUS
<1>5. ASSUME NEW t \in Sessions, new[t] # None
      PROVE  (NamingOK(new[t]) /\ SearchOK(new[t]) /\ ShownOK(new[t]))'
  <2>1. CASE new[t] = [pc |-> "done"]
    <3>1. Quiet(new[t])
      BY <2>1 DEF Quiet
    <3> QED
      BY <3>1 DEF Quiet, NamingOK, SearchOK, ShownOK
  <2>2. CASE new[t] = Noting(p, row, t) /\ At(t, "read")
    <3>1. SearchOK(new[t])' /\ new[t].pc = "read"
      BY <2>2, NotedOK
    <3> QED
      BY <3>1 DEF NamingOK, ShownOK
  <2>3. CASE new[t] = Noting(p, row, t) /\ ~At(t, "read")
    <3>1. new[t] = req[t]
      BY <2>3 DEF Noting
    <3>2. NamingOK(req[t]) /\ ShownOK(req[t]) /\ req[t].pc # "read"
      BY <1>5, <2>3, <3>1 DEF SearchInv, At
    <3>3. NamingOK(new[t])' /\ SearchOK(new[t])'
      BY <1>1, <1>2, <3>1, <3>2 DEF NamingOK, SearchOK, ProfileThere
    <3>4. ShownOK(new[t])'
      BY <3>1, <3>2 DEF ShownOK
    <3> QED
      BY <3>3, <3>4
  <2> QED
    BY <1>4, <2>1, <2>2, <2>3
<1> QED
  BY <1>3, <1>4, <1>5 DEF SearchInv

\* What an editor of schedules or texts leaves its request with is quiet.
StaysQuiet(s) ==
  /\ profile' = profile /\ service' = service
  /\ \E r : (r = None \/ Quiet(r)) /\ req' = [req EXCEPT ![s] = r]

LEMMA QuietStep ==
  ASSUME SearchInv, OfferInv', NEW s \in Sessions, StaysQuiet(s)
  PROVE  SearchInv'
<1>1. ServicesNamed'
  BY SameServices DEF StaysQuiet
<1> QED
  BY <1>1, QuietMoves DEF StaysQuiet

LEMMA GoesQuiet ==
  ASSUME NEW s, NEW r, r = None \/ Quiet(r), Go(s, r) \/ Begin(s, r),
         profile' = profile, service' = service
  PROVE  StaysQuiet(s)
BY DEF Go, Begin, StaysQuiet

LEMMA AnswersQuiet ==
  ASSUME NEW s, NEW a, a \in Answers \ {"shown"}, Answer(s, a) \/ Begin(s, [pc |-> a]),
         profile' = profile, service' = service
  PROVE  StaysQuiet(s)
<1>1. PICK r : r = [pc |-> a]
  OBVIOUS
<1>2. Quiet(r)
  BY <1>1 DEF Quiet, Answers
<1> QED
  BY <1>1, <1>2, GoesQuiet DEF Answer

\* The steps of the editors of schedules, but for their commits.
LEMMA SchedulersAreQuiet ==
  ASSUME NEW s \in Sessions,
         \/ \E p \in Profiles, draft \in Drafts : UpdateProfile(s, p, draft)
         \/ LockProfile(s)
         \/ \E p \in Profiles : DeleteProfile(s, p)
         \/ IsProfileInUse(s)
  PROVE  StaysQuiet(s)
<1> USE DEF stored
<1>1. ASSUME NEW p \in Profiles, NEW draft \in Drafts, UpdateProfile(s, p, draft)
      PROVE  StaysQuiet(s)
  <2>1. PICK r : r = IF ~AssertWindows(draft) THEN [pc |-> "badRequest"]
                     ELSE IF ~Live(p) THEN [pc |-> "notFound"]
                     ELSE [pc |-> "lock", profile |-> p, draft |-> draft]
    OBVIOUS
  <2>2. Quiet(r)
    BY <2>1 DEF Quiet
  <2> QED
    BY <1>1, <2>1, <2>2, GoesQuiet DEF UpdateProfile
<1>2. CASE LockProfile(s)
  <2>1. PICK r : r = [pc |-> "replace", profile |-> req[s].profile, draft |-> req[s].draft,
                      old |-> profile[req[s].profile]]
    OBVIOUS
  <2>2. Quiet(r)
    BY <2>1 DEF Quiet
  <2> QED
    BY <1>2, <2>1, <2>2, GoesQuiet DEF LockProfile
<1>3. ASSUME NEW p \in Profiles, DeleteProfile(s, p) PROVE StaysQuiet(s)
  <2>1. PICK r : r = IF Live(p) THEN [pc |-> "inUse", profile |-> p] ELSE [pc |-> "notFound"]
    OBVIOUS
  <2>2. Quiet(r)
    BY <2>1 DEF Quiet
  <2> QED
    BY <1>3, <2>1, <2>2, GoesQuiet DEF DeleteProfile
<1>4. CASE IsProfileInUse(s)
  <2>1. PICK r : r = [pc |-> "delete", profile |-> req[s].profile]
    OBVIOUS
  <2>2. Quiet(r)
    BY <2>1 DEF Quiet
  <2>3. Answer(s, "conflict") \/ Go(s, r)
    BY <1>4, <2>1 DEF IsProfileInUse
  <2>4. profile' = profile /\ service' = service /\ "conflict" \in Answers \ {"shown"}
    BY <1>4 DEF IsProfileInUse, Answers
  <2> QED
    BY <2>2, <2>3, <2>4, GoesQuiet, AnswersQuiet
<1> QED
  BY <1>1, <1>2, <1>3, <1>4

\* The steps of the editors of texts.
LEMMA WritersAreQuiet ==
  ASSUME NEW s \in Sessions,
         \/ \E doc \in Docs, e \in Edits :
              EditCategory(s, doc, e) \/ EditSkill(s, doc, e) \/ UpdateAdvisorProfile(s, doc, e)
         \/ LockAdvisorProfile(s)
         \/ WriteText(s)
         \/ \E doc \in Docs : DeleteText(s, doc)
         \/ \E claimed \in BOOLEAN : DeleteRow(s, claimed)
         \/ \E v \in Services : DeleteService(s, v)
         \/ Forget(s)
  PROVE  StaysQuiet(s)
<1>1. ASSUME NEW doc, NEW e, EditText(s, doc, e) PROVE StaysQuiet(s)
  <2>1. PICK r : r = Editing(doc, e, Localized(doc, e.language), Keeps(doc, e))
    OBVIOUS
  <2>2. Quiet(r)
    BY <2>1 DEF Quiet, Editing
  <2> QED
    BY <1>1, <2>1, <2>2, GoesQuiet DEF EditText, stored
<1>2. CASE \E doc \in Docs, e \in Edits :
             EditCategory(s, doc, e) \/ EditSkill(s, doc, e) \/ UpdateAdvisorProfile(s, doc, e)
  <2>1. PICK doc \in Docs, e \in Edits :
          EditCategory(s, doc, e) \/ EditSkill(s, doc, e) \/ UpdateAdvisorProfile(s, doc, e)
    BY <1>2
  <2>2. CASE EditText(s, doc, e)
    BY <1>1, <2>2
  <2>3. CASE ~EditText(s, doc, e)
    <3>1. PICK r : r = [pc |-> "wait", doc |-> doc, edit |-> e,
                        seen |-> text[doc][e.language], kept |-> Keeps(doc, e)]
      OBVIOUS
    <3>2. Quiet(r)
      BY <3>1 DEF Quiet
    <3>3. Begin(s, r) /\ UNCHANGED stored
      BY <2>1, <2>3, <3>1 DEF EditCategory, EditSkill, UpdateAdvisorProfile
    <3> QED
      BY <3>2, <3>3, GoesQuiet DEF stored
  <2> QED
    BY <2>2, <2>3
<1>8. CASE LockAdvisorProfile(s)
  <2>1. PICK r : /\ Go(s, r) /\ UNCHANGED stored
                 /\ \E doc, e, current, before : r = Editing(doc, e, current, before)
    BY <1>8 DEF LockAdvisorProfile
  <2>2. Quiet(r)
    BY <2>1 DEF Quiet, Editing
  <2> QED
    BY <2>1, <2>2, GoesQuiet DEF stored
<1>3. CASE WriteText(s)
  <2>1. \E a \in Answers \ {"shown"} : Answer(s, a)
    BY <1>3 DEF WriteText, Answers
  <2> QED
    BY <1>3, <2>1, AnswersQuiet DEF WriteText
<1>4. ASSUME NEW doc \in Docs, DeleteText(s, doc) PROVE StaysQuiet(s)
  <2>1. PICK r : r = [pc |-> "deleteText", doc |-> doc]
    OBVIOUS
  <2>2. Quiet(r)
    BY <2>1 DEF Quiet
  <2> QED
    BY <1>4, <2>1, <2>2, GoesQuiet DEF DeleteText, stored
<1>5. ASSUME NEW claimed \in BOOLEAN, DeleteRow(s, claimed) PROVE StaysQuiet(s)
  <2>1. \E a \in Answers \ {"shown"} : Answer(s, a)
    BY <1>5 DEF DeleteRow, Answers
  <2> QED
    BY <1>5, <2>1, AnswersQuiet DEF DeleteRow
<1>6. ASSUME NEW v \in Services, DeleteService(s, v) PROVE StaysQuiet(s)
  <2>1. PICK r : r = [pc |-> "deleteService", service |-> v]
    OBVIOUS
  <2>2. Quiet(r)
    BY <2>1 DEF Quiet
  <2> QED
    BY <1>6, <2>1, <2>2, GoesQuiet DEF DeleteService, stored
<1>7. CASE Forget(s)
  BY <1>7, GoesQuiet DEF Forget, stored
<1> QED
  BY <1>2, <1>3, <1>4, <1>5, <1>6, <1>7, <1>8

\* The steps of a deletion.
LEMMA ErasersAreQuiet ==
  ASSUME NEW s \in Sessions,
         \/ \E doc \in Docs : EraseTranslations(s, doc)
         \/ EraseProfile(s)
         \/ CommitErasure(s)
         \/ DetectDeadlock(s)
  PROVE  StaysQuiet(s)
<1>1. ASSUME NEW doc \in Docs, EraseTranslations(s, doc) PROVE StaysQuiet(s)
  <2>1. PICK r : r = [pc |-> "erase", doc |-> doc, gone |-> {l \in Languages : text[doc][l] # None}]
    OBVIOUS
  <2>2. Quiet(r)
    BY <2>1 DEF Quiet
  <2> QED
    BY <1>1, <2>1, <2>2, GoesQuiet DEF EraseTranslations, stored
<1>2. CASE EraseProfile(s)
  <2>1. PICK r : r = [req[s] EXCEPT !.pc = "erased"]
    OBVIOUS
  <2>2. Quiet(r)
    BY <1>2, <2>1 DEF Quiet, EraseProfile, At
  <2> QED
    BY <1>2, <2>1, <2>2, GoesQuiet DEF EraseProfile, stored
<1>3. CASE CommitErasure(s)
  <2>1. Answer(s, "done") /\ profile' = profile /\ service' = service
    BY <1>3 DEF CommitErasure
  <2> QED
    BY <2>1, AnswersQuiet DEF Answers
<1>4. CASE DetectDeadlock(s)
  <2>1. Answer(s, "error") /\ profile' = profile /\ service' = service
    BY <1>4 DEF DetectDeadlock, stored
  <2> QED
    BY <2>1, AnswersQuiet DEF Answers
<1> QED
  BY <1>1, <1>2, <1>3, <1>4

\* The commits of a schedule.
LEMMA SettleKeeps ==
  ASSUME SearchInv, OfferInv', NEW s \in Sessions, NEW p \in Profiles, NEW row, Whole(row),
         Settle(s, p, row)
  PROVE  SearchInv'
<1>1. Schedules(p, row)
  BY DEF Settle
<1>2. \A t \in Sessions : req'[t] = [pc |-> "done"] \/ req'[t] = Noting(p, row, t)
  BY DEF Settle
<1> QED
  BY <1>1, <1>2, SearchNotes

LEMMA CommitsKeep ==
  ASSUME SearchInv, OfferInv', NEW s \in Sessions, ReplaceWindows(s) \/ SoftDelete(s)
  PROVE  SearchInv'
<1>1. OfferInv
  BY DEF SearchInv
<1>2. CASE ReplaceWindows(s)
  BY <1>1, <1>2, ReplacesWhole, SettleKeeps
<1>3. CASE SoftDelete(s) /\ Live(req[s].profile)
  BY <1>1, <1>3, DeletesWhole, SettleKeeps
<1>4. CASE SoftDelete(s) /\ ~Live(req[s].profile)
  <2>1. "notFound" \in Answers \ {"shown"}
    BY DEF Answers
  <2>2. Answer(s, "notFound") /\ profile' = profile /\ service' = service
    BY <1>4 DEF SoftDelete, stored
  <2> QED
    BY <2>1, <2>2, AnswersQuiet, QuietStep
<1> QED
  BY <1>2, <1>3, <1>4

LEMMA CreateProfileKeeps ==
  ASSUME SearchInv, OfferInv', NEW p \in Profiles, NEW draft \in Drafts, CreateProfile(p, draft)
  PROVE  SearchInv'
<1>1. PICK row : row = Saved(draft, FALSE)
  OBVIOUS
<1>2. Whole(row) /\ Schedules(p, row)
  BY <1>1 DEF CreateProfile, Whole
<1>3. \A t \in Sessions : req'[t] = Noting(p, row, t)
  BY DEF CreateProfile, SearchInv, SearchOK, ProfileThere, At, Noting
<1> QED
  BY <1>2, <1>3, SearchNotes

----------------------------------------------------------------------------
(* Services name profiles that are there.                                  *)

\* A Service's row changes to name what is there, or goes.
LEMMA ServiceNames ==
  ASSUME SearchInv, NEW v, NEW row, profile' = profile, service' = [service EXCEPT ![v] = row],
         Is(row) => row.profile = Null \/ ProfileThere(row.profile)
  PROVE  ServicesNamed'
BY DEF SearchInv, ServicesNamed, OfferInv, ServicesTexted, ProfileThere

LEMMA CreateServiceKeeps ==
  ASSUME SearchInv, OfferInv', NEW s \in Sessions, NEW v \in Services, NEW c \in Categories,
         NEW p \in Profiles, NEW e \in Edits, CreateService(s, v, c, p, e)
  PROVE  SearchInv'
<1>1. profile' = profile /\ service' = service
  BY DEF CreateService, stored
<1>2. CASE Begin(s, [pc |-> "badRequest"])
  BY <1>1, <1>2, AnswersQuiet, QuietStep DEF Answers
<1>3. CASE ReferencesHold(c, p)
  <2>1. PICK r : r = [pc |-> "insert", service |-> v, category |-> c, profile |-> p, edit |-> e]
    OBVIOUS
  <2>2. req' = [req EXCEPT ![s] = r]
    BY <1>3, <2>1 DEF CreateService, Begin
  <2>3. ProfileThere(p)
    BY <1>3 DEF ReferencesHold, Live, Is, ProfileThere
  <2>4. NamingOK(r) /\ SearchOK(r) /\ ShownOK(r)
    BY <2>1, <2>3 DEF NamingOK, SearchOK, ShownOK
  <2> QED
    BY <1>1, <2>2, <2>4, SameServices, SearchMoves
<1> QED
  BY <1>2, <1>3 DEF CreateService

LEMMA InsertServiceKeeps ==
  ASSUME SearchInv, OfferInv', NEW s \in Sessions, InsertService(s)
  PROVE  SearchInv'
<1>1. profile' = profile
  BY DEF InsertService
<1>2. CASE Answer(s, "error") /\ service' = service
  BY <1>1, <1>2, AnswersQuiet, QuietStep DEF Answers
<1>3. CASE \E trial : /\ Answer(s, "done")
                      /\ service' = [service EXCEPT ![req[s].service] =
                           [profile |-> req[s].profile, category |-> req[s].category,
                            trial |-> trial]]
  <2>1. ProfileThere(req[s].profile)
    BY DEF InsertService, At, SearchInv, NamingOK
  <2>2. PICK row : /\ service' = [service EXCEPT ![req[s].service] = row]
                   /\ row.profile = req[s].profile
    BY <1>3
  <2>3. ServicesNamed'
    BY <1>1, <2>1, <2>2, ServiceNames
  <2> QED
    BY <1>1, <1>3, <2>3, AnswerKeeps DEF Answers
<1> QED
  BY <1>2, <1>3 DEF InsertService

LEMMA UpdateServiceKeeps ==
  ASSUME SearchInv, OfferInv', NEW s \in Sessions, NEW v \in Services, NEW e \in Edits,
         UpdateService(s, v, e)
  PROVE  SearchInv'
<1>1. profile' = profile /\ service' = service
  BY DEF UpdateService, stored
<1>2. CASE Begin(s, [pc |-> "badRequest"])
  BY <1>1, <1>2, AnswersQuiet, QuietStep DEF Answers
<1>3. ASSUME NEW p, NEW trial, e.profile \in {None, p},
             Begin(s, [pc |-> "references", service |-> v, edit |-> e, profile |-> p,
                       trial |-> trial])
      PROVE  SearchInv'
  <2>1. PICK r : r = [pc |-> "references", service |-> v, edit |-> e, profile |-> p,
                      trial |-> trial]
    OBVIOUS
  <2>2. req' = [req EXCEPT ![s] = r]
    BY <1>3, <2>1 DEF Begin
  <2>3. NamingOK(r) /\ SearchOK(r) /\ ShownOK(r)
    BY <1>3, <2>1 DEF NamingOK, SearchOK, ShownOK
  <2> QED
    BY <1>1, <2>2, <2>3, SameServices, SearchMoves
<1>4. PICK p, trial :
        /\ p = IF e.profile = None THEN service[v].profile ELSE e.profile
        /\ Begin(s, IF p = Null THEN [pc |-> "badRequest"]
                    ELSE [pc |-> "references", service |-> v, edit |-> e, profile |-> p,
                          trial |-> trial])
  BY DEF UpdateService
<1> QED
  BY <1>2, <1>3, <1>4

LEMMA AssertReferencesKeeps ==
  ASSUME SearchInv, OfferInv', NEW s \in Sessions, AssertReferences(s)
  PROVE  SearchInv'
<1>1. profile' = profile /\ service' = service
  BY DEF AssertReferences, stored
<1>2. CASE Answer(s, "badRequest")
  BY <1>1, <1>2, AnswersQuiet, QuietStep DEF Answers
<1>3. CASE Live(req[s].profile) /\ Go(s, [req[s] EXCEPT !.pc = "readService"])
  <2>1. PICK q : q = req[s]
    OBVIOUS
  <2>2. q.edit \in Edits /\ q.edit.profile \in {None, q.profile}
    BY <2>1, RequestOf DEF AssertReferences, At, CarriedOK, TextingOK, SearchInv, NamingOK
  <2>3. PICK v, e, p, trial :
          v = q.service /\ e = q.edit /\ p = q.profile /\ trial = q.trial
    OBVIOUS
  <2>4. q = [pc |-> "references", service |-> v, edit |-> e, profile |-> p, trial |-> trial]
    BY <2>1, <2>3, RequestOf DEF AssertReferences, At, CarriedOK, ShapeOK, SearchInv
  <2>5. PICK r : r = [q EXCEPT !.pc = "readService"]
    OBVIOUS
  <2>6. r = [pc |-> "readService", service |-> v, edit |-> e, profile |-> p, trial |-> trial]
    BY <2>4, <2>5
  <2>7. e.profile = None \/ ProfileThere(e.profile)
    <3>1. e.profile \in Profiles \cup {None} /\ e.profile \in {None, p}
      BY <2>2, <2>3, OfferAssumption
    <3> QED
      BY <1>3, <2>1, <2>3, <3>1 DEF Live, Is, ProfileThere
  <2>8. NamingOK(r) /\ SearchOK(r) /\ ShownOK(r)
    BY <2>6, <2>7 DEF NamingOK, SearchOK, ShownOK
  <2>9. req' = [req EXCEPT ![s] = r]
    BY <1>3, <2>1, <2>5 DEF Go
  <2> QED
    BY <1>1, <2>8, <2>9, SameServices, SearchMoves
<1> QED
  BY <1>2, <1>3 DEF AssertReferences

LEMMA ReadServiceKeeps ==
  ASSUME SearchInv, OfferInv', NEW s \in Sessions, ReadService(s)
  PROVE  SearchInv'
<1>1. profile' = profile /\ service' = service
  BY DEF ReadService, stored
<1>2. CASE Answer(s, "notFound")
  BY <1>1, <1>2, AnswersQuiet, QuietStep DEF Answers
<1>3. CASE ~Answer(s, "notFound")
  <2>1. PICK v, e, trial, new, before :
          /\ e = req[s].edit
          /\ Go(s, [pc |-> "writeService", service |-> v, edit |-> e, trial |-> trial,
                    text |-> new, kept |-> before])
    BY <1>3 DEF ReadService
  <2>2. PICK r : r = [pc |-> "writeService", service |-> v, edit |-> e, trial |-> trial,
                      text |-> new, kept |-> before]
    OBVIOUS
  <2>3. e.profile = None \/ ProfileThere(e.profile)
    BY <2>1 DEF ReadService, At, SearchInv, NamingOK
  <2>4. NamingOK(r) /\ SearchOK(r) /\ ShownOK(r)
    BY <2>2, <2>3 DEF NamingOK, SearchOK, ShownOK
  <2> QED
    BY <1>1, <2>1, <2>2, <2>4, SameServices, SearchMoves DEF Go
<1> QED
  BY <1>2, <1>3

LEMMA WriteServiceKeeps ==
  ASSUME SearchInv, OfferInv', NEW s \in Sessions, WriteService(s)
  PROVE  SearchInv'
<1>1. profile' = profile
  BY DEF WriteService
<1>2. CASE Answer(s, "notFound") /\ service' = service
  BY <1>1, <1>2, AnswersQuiet, QuietStep DEF Answers
<1>3. CASE /\ Is(service[req[s].service]) /\ Answer(s, "done")
           /\ \E row :
                /\ service' = [service EXCEPT ![req[s].service] = row]
                /\ row.profile = IF req[s].edit.profile = None
                                 THEN service[req[s].service].profile
                                 ELSE req[s].edit.profile
  <2>1. req[s].edit.profile = None \/ ProfileThere(req[s].edit.profile)
    BY DEF WriteService, At, SearchInv, NamingOK
  <2>2. req[s].service \in Services
    BY RequestOf DEF WriteService, At, CarriedOK, TextingOK, SearchInv
  <2>3. \/ service[req[s].service].profile = Null
        \/ ProfileThere(service[req[s].service].profile)
    BY <1>3, <2>2 DEF SearchInv, ServicesNamed
  <2>4. ServicesNamed'
    BY <1>1, <1>3, <2>1, <2>3, ServiceNames
  <2> QED
    BY <1>1, <1>3, <2>4, AnswerKeeps DEF Answers
<1> QED
  BY <1>2, <1>3 DEF WriteService

LEMMA DeleteOwnedKeeps ==
  ASSUME SearchInv, OfferInv', NEW s \in Sessions, DeleteOwned(s)
  PROVE  SearchInv'
<1>1. profile' = profile /\ \E a \in Answers \ {"shown"} : Answer(s, a)
  BY DEF DeleteOwned, Answers
<1>2. ServicesNamed'
  <2>1. CASE service' = service
    BY <1>1, <2>1, SameServices
  <2>2. CASE service' = [service EXCEPT ![req[s].service] = Gone]
    BY <1>1, <2>2, ServiceNames DEF Is
  <2> QED
    BY <2>1, <2>2 DEF DeleteOwned
<1> QED
  BY <1>1, <1>2, AnswerKeeps

----------------------------------------------------------------------------
(* A search begins, reads and answers.                                     *)

LEMMA SearchBegins ==
  ASSUME SearchInv, OfferInv', NEW s \in Sessions, NEW wanted \in SUBSET Services,
         Begin(s, Search(s, wanted)), UNCHANGED stored
  PROVE  SearchInv'
<1> DEFINE found == {v \in wanted : Scheduled(v)}
           names == {service[v].profile : v \in found}
           named == [v \in found |-> service[v].profile]
           table == [k \in Statements |-> None]
           seen == [p \in names |-> {profile[p]}]
<1>1. profile' = profile /\ service' = service
  BY DEF stored
<1>2. CASE found = {}
  <2>1. Begin(s, [pc |-> "notFound"])
    BY <1>2 DEF Search
  <2> QED
    BY <1>1, <2>1, AnswersQuiet, QuietStep DEF Answers
<1>3. CASE found # {}
  <2>1. PICK r : r = [pc |-> "read", profiles |-> names, named |-> named, table |-> table,
                      seen |-> seen]
    OBVIOUS
  <2>2. req' = [req EXCEPT ![s] = r]
    BY <1>3, <2>1 DEF Begin, Search
  <2>3. \A p \in names : ProfileThere(p) /\ Whole(profile[p])
    BY DEF Scheduled, SearchInv, ServicesNamed, OfferInv, SchedulesOK, ProfileThere
  <2>4. /\ \A p \in names : profile[p] \in seen[p]
        /\ \A p \in names : \A row \in seen[p] : row = profile[p]
        /\ seen = [p \in names |-> seen[p]]
        /\ \A v \in DOMAIN named : named[v] \in names
        /\ table = [k \in Statements |-> table[k]]
        /\ \A k \in Statements : table[k] = None
    OBVIOUS
  <2>5. SearchOK(r)
    <3> HIDE DEF names, named, table, seen
    <3> QED
      BY <2>1, <2>3, <2>4 DEF SearchOK
  <2>6. NamingOK(r) /\ ShownOK(r)
    BY <2>1 DEF NamingOK, ShownOK
  <2> QED
    BY <1>1, <2>2, <2>5, <2>6, SameServices, SearchMoves
<1> QED
  BY <1>2, <1>3

LEMMA ReadTableKeeps ==
  ASSUME SearchInv, OfferInv', NEW s \in Sessions, NEW k \in Statements, ReadTable(s, k)
  PROVE  SearchInv'
<1>1. PICK q : q = req[s]
  OBVIOUS
<1>2. PICK names, named, table, seen :
        /\ names = q.profiles /\ named = q.named /\ table = q.table /\ seen = q.seen
  OBVIOUS
<1>3. q = [pc |-> "read", profiles |-> names, named |-> named, table |-> table, seen |-> seen]
  BY <1>1, <1>2, RequestOf DEF ReadTable, At, CarriedOK, ShapeOK, SearchInv
<1>4. PICK cells : cells = [p \in names |-> IF k = "live" THEN Live(p) ELSE profile[p][k]]
  OBVIOUS
<1>5. PICK r : r = [q EXCEPT !.table[k] = cells]
  OBVIOUS
<1>6. PICK next : next = [table EXCEPT ![k] = cells]
  OBVIOUS
<1>7. r = [pc |-> "read", profiles |-> names, named |-> named, table |-> next, seen |-> seen]
  BY <1>3, <1>5, <1>6
<1>8. /\ \A p \in names : ProfileThere(p) /\ profile[p] \in seen[p]
      /\ \A v \in DOMAIN named : named[v] \in names
      /\ table = [j \in Statements |-> table[j]]
      /\ seen = [p \in names |-> seen[p]]
      /\ \A p \in names : \A row \in seen[p] : Whole(row)
      /\ \A j \in Statements, p \in names : table[j] # None =>
           \E row \in seen[p] : table[j][p] = IF j = "live" THEN ~row.deleted ELSE row[j]
  <2>1. SearchOK(q)
    BY <1>1 DEF ReadTable, At, SearchInv
  <2> QED
    BY <1>3, <2>1 DEF SearchOK, OfOneRow
<1>9. /\ next[k] = cells /\ \A j \in Statements : j # k => next[j] = table[j]
      /\ next = [j \in Statements |-> next[j]]
  BY <1>6, <1>8
<1>10. \A p \in names : Live(p) <=> ~profile[p].deleted
  <2> SUFFICES ASSUME NEW p \in names PROVE Live(p) <=> ~profile[p].deleted
    OBVIOUS
  <2>1. Whole(profile[p])
    BY <1>8
  <2> QED
    BY <2>1, OfferAssumption DEF Whole, Live, Is
<1>11. \A p \in names : cells[p] = IF k = "live" THEN ~profile[p].deleted ELSE profile[p][k]
  <2>1. CASE k = "live"
    <3> SUFFICES ASSUME NEW p \in names PROVE cells[p] = ~profile[p].deleted
      BY <2>1
    <3>1. cells[p] = Live(p)
      BY <1>4, <2>1
    <3>2. CASE Live(p)
      <4>1. cells[p] /\ cells[p] = TRUE
        BY <3>1, <3>2
      <4> QED
        BY <1>10, <3>2, <4>1
    <3>3. CASE ~Live(p)
      <4>1. cells[p] = FALSE
        BY <3>1, <3>3
      <4> QED
        BY <1>10, <3>3, <4>1
    <3> QED
      BY <3>2, <3>3
  <2>2. CASE k # "live"
    BY <1>4, <2>2
  <2> QED
    BY <2>1, <2>2
<1>12. SearchOK(r)
  BY <1>7, <1>8, <1>9, <1>11 DEF SearchOK, OfOneRow
<1>13. NamingOK(r) /\ ShownOK(r)
  BY <1>7 DEF NamingOK, ShownOK
<1>14. req' = [req EXCEPT ![s] = r] /\ profile' = profile /\ service' = service
  BY <1>1, <1>2, <1>4, <1>5 DEF ReadTable, Go, stored
<1> QED
  BY <1>12, <1>13, <1>14, SameServices, SearchMoves

LEMMA ShowSlotsKeeps ==
  ASSUME SearchInv, OfferInv', NEW s \in Sessions, ShowSlots(s)
  PROVE  SearchInv'
<1>1. PICK q : q = req[s]
  OBVIOUS
<1>2. PICK found : found = {v \in DOMAIN q.named : q.table["live"][q.named[v]]}
  OBVIOUS
<1>3. PICK slots : slots = [v \in found |-> DaySlots(q, q.named[v])]
  OBVIOUS
<1>4. PICK r : r = [pc |-> "shown", named |-> q.named, seen |-> q.seen, slots |-> slots]
  OBVIOUS
<1>5. /\ req' = [req EXCEPT ![s] = r] /\ profile' = profile /\ service' = service
      /\ q.pc = "read" /\ \A k \in Statements : q.table[k] # None
  BY <1>1, <1>2, <1>3, <1>4 DEF ShowSlots, Go, stored, At
<1>6. SearchOK(q)
  BY <1>1 DEF ShowSlots, At, SearchInv
<1>7. ASSUME NEW v \in DOMAIN q.named
      PROVE  /\ \A row \in q.seen[q.named[v]] : Whole(row)
             /\ IF v \in DOMAIN slots
                THEN /\ \E row \in q.seen[q.named[v]] : ~row.deleted
                     /\ Derived(slots[v], q.seen[q.named[v]])
                ELSE \E row \in q.seen[q.named[v]] : row.deleted
  <2>1. PICK p : p = q.named[v]
    OBVIOUS
  <2>2. p \in q.profiles /\ \A row \in q.seen[p] : Whole(row)
    BY <1>5, <1>6, <1>7, <2>1 DEF SearchOK
  <2>3. \A k \in Statements : OfOneRow(q, k, p)
    BY <1>5, <1>6, <2>2 DEF SearchOK
  <2>4. \E row \in q.seen[p] : q.table["live"][p] = ~row.deleted
    BY <2>3 DEF OfOneRow, Statements
  <2>5. PICK w, d, b \in q.seen[p] :
          /\ q.table["weekly"][p] = w["weekly"] /\ q.table["specific"][p] = d["specific"]
          /\ q.table["blocked"][p] = b["blocked"]
    BY <2>3 DEF OfOneRow, Statements, Tables
  <2>6. DaySlots(q, p) = SlotsFrom(Steady, w.weekly, d.specific, b.blocked, Duration)
    BY <2>5 DEF DaySlots
  <2>7. v \in DOMAIN slots <=> q.table["live"][p]
    BY <1>2, <1>3, <2>1
  <2>8. v \in DOMAIN slots => slots[v] = DaySlots(q, p)
    BY <1>3, <2>1
  <2> QED
    BY <2>1, <2>2, <2>4, <2>6, <2>7, <2>8 DEF Derived
<1>8. ShownOK(r) /\ NamingOK(r) /\ SearchOK(r)
  BY <1>4, <1>7 DEF ShownOK, NamingOK, SearchOK
<1> QED
  BY <1>5, <1>8, SameServices, SearchMoves

----------------------------------------------------------------------------
LEMMA SearchInit == Init => SearchInv
<1> SUFFICES ASSUME Init PROVE SearchInv
  OBVIOUS
<1>1. OfferInv
  BY InitHolds
<1>2. ServicesNamed
  BY DEF Init, ServicesNamed, Legacy, Is
<1>3. \A s \in Sessions : req[s] = None
  BY DEF Init
<1> QED
  BY <1>1, <1>2, <1>3 DEF SearchInv

LEMMA SearchServe ==
  ASSUME SearchInv, OfferInv', NEW s \in Sessions, Serve(s)
  PROVE  SearchInv'
<1>1. CASE \/ \E p \in Profiles, draft \in Drafts : UpdateProfile(s, p, draft)
           \/ LockProfile(s)
           \/ \E p \in Profiles : DeleteProfile(s, p)
           \/ IsProfileInUse(s)
  BY <1>1, SchedulersAreQuiet, QuietStep
<1>2. CASE ReplaceWindows(s) \/ SoftDelete(s)
  BY <1>2, CommitsKeep
<1>3. CASE \/ \E doc \in Docs, e \in Edits :
                EditCategory(s, doc, e) \/ EditSkill(s, doc, e) \/ UpdateAdvisorProfile(s, doc, e)
           \/ LockAdvisorProfile(s)
           \/ WriteText(s)
           \/ \E doc \in Docs : DeleteText(s, doc)
           \/ \E claimed \in BOOLEAN : DeleteRow(s, claimed)
           \/ \E v \in Services : DeleteService(s, v)
           \/ Forget(s)
  BY <1>3, WritersAreQuiet, QuietStep
<1>4. CASE \E v \in Services, c \in Categories, p \in Profiles, e \in Edits :
             CreateService(s, v, c, p, e)
  BY <1>4, CreateServiceKeeps
<1>5. CASE InsertService(s) \/ \E v \in Services, e \in Edits : UpdateService(s, v, e)
  BY <1>5, InsertServiceKeeps, UpdateServiceKeeps
<1>6. CASE AssertReferences(s) \/ ReadService(s)
  BY <1>6, AssertReferencesKeeps, ReadServiceKeeps
<1>7. CASE WriteService(s) \/ DeleteOwned(s)
  BY <1>7, WriteServiceKeeps, DeleteOwnedKeeps
<1>8. CASE (\E v \in Services : FindSlots(s, v)) \/ OpenOn(s)
  <2>1. PICK wanted \in SUBSET Services : Begin(s, Search(s, wanted)) /\ UNCHANGED stored
    BY <1>8 DEF FindSlots, OpenOn
  <2> QED
    BY <2>1, SearchBegins
<1>9. CASE (\E k \in Statements : ReadTable(s, k)) \/ ShowSlots(s)
  BY <1>9, ReadTableKeeps, ShowSlotsKeeps
<1>10. CASE \/ \E doc \in Docs : EraseTranslations(s, doc)
            \/ EraseProfile(s) \/ CommitErasure(s) \/ DetectDeadlock(s)
  BY <1>10, ErasersAreQuiet, QuietStep
<1> QED
  BY <1>1, <1>2, <1>3, <1>4, <1>5, <1>6, <1>7, <1>8, <1>9, <1>10 DEF Serve

LEMMA SearchNext ==
  ASSUME SearchInv, [Next]_vars
  PROVE  SearchInv'
<1>1. OfferInv'
  BY OfferNext DEF SearchInv
<1>2. CASE \E s \in Sessions : Serve(s)
  BY <1>1, <1>2, SearchServe
<1>3. CASE \E p \in Profiles, draft \in Drafts : CreateProfile(p, draft)
  BY <1>1, <1>3, CreateProfileKeeps
<1>4. CASE \E doc \in Docs, e \in Edits :
             CreateCategory(doc, e) \/ CreateSkill(doc, e) \/ CreateAdvisorProfile(doc, e)
  BY <1>1, <1>4, SearchStays
     DEF CreateCategory, CreateSkill, CreateAdvisorProfile, CreateText
<1>5. CASE UNCHANGED vars
  BY <1>1, <1>5, SearchStays DEF vars
<1> QED
  BY <1>2, <1>3, <1>4, <1>5 DEF Next

\* The inductive invariant of the slot searches: what a search has of a
\* table of a profile is of one row that was current since it began.
THEOREM SearchInductive == Spec => []SearchInv
<1>1. Init => SearchInv
  BY SearchInit
<1>2. SearchInv /\ [Next]_vars => SearchInv'
  BY SearchNext
<1> QED
  BY <1>1, <1>2, PTL DEF Spec

\* What schedules that passed the checks derive is what the reference offers.
LEMMA DerivationAgrees ==
  ASSUME NEW x \in Drafts, NEW y \in Drafts, NEW z \in Drafts,
         AssertWindows(x), AssertWindows(y), AssertWindows(z)
  PROVE  SlotsFrom(Steady, x.weekly, y.specific, z.blocked, Duration)
           = Offered(Steady, x.weekly, y.specific, z.blocked, Duration)
<1>1. x.weekly \cup y.specific \in SUBSET ((0..Midnight) \X (0..Midnight))
  BY OfferAssumption
<1>2. \A w \in x.weekly \cup y.specific : w[1] < w[2] /\ w[1] % Step = 0
  BY DEF AssertWindows, Tidy
<1>3. \A p \in z.blocked : p = AllDay \/ (p \in Int \X Int /\ p[1] < p[2])
  BY OfferAssumption DEF AssertWindows
<1>4. Duration \in Nat \ {0}
  BY OfferAssumption
<1> QED
  BY <1>1, <1>2, <1>3, <1>4, DerivedIsOffered

\* The slots a search shows are exactly the whole free times of tables that
\* were each current at some moment of it, and a Service is left out only when
\* its profile was deleted (findSlots(), deriveSlots()).
THEOREM SlotsShownAreExact == Spec => []SlotsAreExact
<1>1. ASSUME SearchInv PROVE SlotsAreExact
  <2> SUFFICES ASSUME NEW s \in Sessions, At(s, "shown"), NEW v \in DOMAIN req[s].named
               PROVE  LET seen == req[s].seen[req[s].named[v]] IN
                      IF v \in DOMAIN req[s].slots
                      THEN /\ \E r \in seen : ~r.deleted
                           /\ \E w, d, b \in seen :
                                req[s].slots[v]
                                  = Offered(Steady, w.weekly, d.specific, b.blocked, Duration)
                      ELSE \E r \in seen : r.deleted
    BY DEF SlotsAreExact
  <2> DEFINE seen == req[s].seen[req[s].named[v]]
  <2>1. ShownOK(req[s]) /\ req[s].pc = "shown"
    BY <1>1 DEF SearchInv, At
  <2>2. \A row \in seen : Whole(row)
    BY <2>1 DEF ShownOK
  <2>3. CASE v \in DOMAIN req[s].slots
    <3>1. PICK w, d, b \in seen :
            req[s].slots[v] = SlotsFrom(Steady, w.weekly, d.specific, b.blocked, Duration)
      BY <2>1, <2>3 DEF ShownOK, Derived
    <3>2. PICK x, y, z \in Drafts :
            /\ AssertWindows(x) /\ AssertWindows(y) /\ AssertWindows(z)
            /\ w.weekly = x.weekly /\ d.specific = y.specific /\ b.blocked = z.blocked
      BY <2>2 DEF Whole, Saved
    <3>3. SlotsFrom(Steady, w.weekly, d.specific, b.blocked, Duration)
            = Offered(Steady, w.weekly, d.specific, b.blocked, Duration)
      BY <3>2, DerivationAgrees
    <3> QED
      BY <2>1, <2>3, <3>1, <3>3 DEF ShownOK
  <2>4. CASE v \notin DOMAIN req[s].slots
    BY <2>1, <2>4 DEF ShownOK
  <2> QED
    BY <2>3, <2>4
<1>2. SearchInv => SlotsAreExact
  BY <1>1
<1> QED
  BY <1>2, SearchInductive, PTL
=============================================================================
