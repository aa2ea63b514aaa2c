--------------------------- MODULE SchedulingPool ---------------------------
(***************************************************************************)
(* What one server process's requests hold while they wait: connections of *)
(* the pool (database.module.ts) and the Advisor's scheduling lock.        *)
(*                                                                         *)
(* A booking transaction keeps one connection from BEGIN to COMMIT, waits  *)
(* on it for pg_advisory_xact_lock(), and while it holds the lock reads    *)
(* the schedule through the POOL, each read on a connection of its own.    *)
(* Every other query of the API takes one connection and returns it.       *)
(* Neither the pool nor the lock gives up waiting: no timeout is set.      *)
(***************************************************************************)
EXTENDS Integers, FiniteSets

CONSTANTS
  Sessions,   \* requests in flight at once (bound)
  Clients,    \* connections of the pool
  Advisors,
  Reads,      \* queries findSlotAt() and getGlobal() make
  None

VARIABLES
  pc,       \* where each request stands
  advisor,  \* whose schedule it is about
  due,      \* pool reads it has still to start
  use,      \* what each connection is used for
  lock      \* holder of each Advisor's scheduling lock

vars == <<pc, advisor, due, use, lock>>

\* A connection is in a transaction of a session, or runs one read for it.
Uses == [by : Sessions, for : {"tx", "read"}]

ASSUME PoolAssumption ==
  /\ IsFiniteSet(Clients) /\ IsFiniteSet(Sessions)
  /\ Reads \in Nat \ {0}
  /\ None \notin Sessions /\ None \notin Uses

----------------------------------------------------------------------------
Idle == {c \in Clients : use[c] = None}
Held(s, purpose) == {c \in Clients : use[c] = [by |-> s, for |-> purpose]}

Connect(c, s, purpose) == use' = [use EXCEPT ![c] = [by |-> s, for |-> purpose]]

\* Variant: an error path that returns the read connections only.
ReleaseReads(s) ==
  use' = [c \in Clients |-> IF c \in Held(s, "read") THEN None ELSE use[c]]

Release(s) ==
  use' = [c \in Clients |-> IF c \in Held(s, "tx") \cup Held(s, "read")
                              THEN None ELSE use[c]]

Go(s, step) == pc' = [pc EXCEPT ![s] = step]

----------------------------------------------------------------------------
\* A booking request about an Advisor, or any other query of the API.
Arrive(s, a, step) ==
  /\ pc[s] = "idle"
  /\ Go(s, step)
  /\ advisor' = [advisor EXCEPT ![s] = a]
  /\ UNCHANGED <<due, use, lock>>

\* db.transaction(): BEGIN on a connection of its own.
BeginTransaction(s) ==
  /\ pc[s] = "begin"
  /\ \E c \in Idle : Connect(c, s, "tx")
  /\ Go(s, "lock")
  /\ UNCHANGED <<advisor, due, lock>>

\* lockAdvisorSchedule(), and then the reads of eligibleValues().
AcquireLock(s) ==
  /\ pc[s] = "lock"
  /\ lock[advisor[s]] = None
  /\ lock' = [lock EXCEPT ![advisor[s]] = s]
  /\ due' = [due EXCEPT ![s] = Reads]
  /\ Go(s, "derive")
  /\ UNCHANGED <<advisor, use>>

\* One more read: one after the other, or several at once (Promise.all).
StartRead(s) ==
  /\ pc[s] = "derive" /\ due[s] > 0
  /\ \E c \in Idle : Connect(c, s, "read")
  /\ due' = [due EXCEPT ![s] = @ - 1]
  /\ UNCHANGED <<pc, advisor, lock>>

\* Variant: a read that never returns its connection.
FinishReadKeeping(s) ==
  /\ pc[s] = "derive"
  /\ Held(s, "read") # {}
  /\ UNCHANGED vars

FinishRead(s) ==
  /\ pc[s] = "derive"
  /\ \E c \in Held(s, "read") : use' = [use EXCEPT ![c] = None]
  /\ UNCHANGED <<pc, advisor, due, lock>>

\* A transaction ends: COMMIT, or ROLLBACK after an exception.  The advisory
\* lock is the transaction's.
End(s) ==
  /\ Release(s)
  /\ due' = [due EXCEPT ![s] = 0]
  /\ lock' = [a \in Advisors |-> IF lock[a] = s THEN None ELSE lock[a]]
  /\ Go(s, "idle")
  /\ UNCHANGED advisor

\* INSERT, chat room, COMMIT: all on the transaction's connection.
Commit(s) ==
  /\ pc[s] = "derive" /\ due[s] = 0 /\ Held(s, "read") = {}
  /\ End(s)

\* A statement fails, or what a read returned refuses the request (no such slot,
\* 23P01).  A request that waits for a connection has nothing to fail on.
Rollback(s) ==
  /\ \/ pc[s] = "lock"
     \/ pc[s] = "derive" /\ (due[s] = 0 \/ Held(s, "read") # {})
  /\ End(s)

\* Any other query of the API.
Query(s) ==
  /\ pc[s] = "query"
  /\ \E c \in Idle : Connect(c, s, "read")
  /\ Go(s, "answer")
  /\ UNCHANGED <<advisor, due, lock>>

AnswerQuery(s) ==
  /\ pc[s] = "answer"
  /\ End(s)

----------------------------------------------------------------------------
Init ==
  /\ pc = [s \in Sessions |-> "idle"]
  /\ advisor \in [Sessions -> Advisors]
  /\ due = [s \in Sessions |-> 0]
  /\ use = [c \in Clients |-> None]
  /\ lock = [a \in Advisors |-> None]

Step(s) ==
  \/ BeginTransaction(s)
  \/ AcquireLock(s)
  \/ StartRead(s)
  \/ FinishRead(s)
  \/ Commit(s)
  \/ Query(s)
  \/ AnswerQuery(s)

Next ==
  \E s \in Sessions :
    \/ \E a \in Advisors, step \in {"begin", "query"} : Arrive(s, a, step)
    \/ Step(s)
    \/ Rollback(s)

Spec == Init /\ [][Next]_vars

\* The pool and the lock serve their waiters in turn, so a request that finds a
\* connection free, or its lock free, again and again is served; a statement
\* with a connection runs to its end.
Fairness ==
  \A s \in Sessions :
    /\ SF_vars(BeginTransaction(s)) /\ SF_vars(Query(s))
    /\ SF_vars(AcquireLock(s)) /\ SF_vars(StartRead(s))
    /\ WF_vars(FinishRead(s)) /\ WF_vars(Commit(s)) /\ WF_vars(AnswerQuery(s))

FairSpec == Spec /\ Fairness

----------------------------------------------------------------------------
Steps == {"idle", "begin", "lock", "derive", "query", "answer"}

TypeOK ==
  /\ pc \in [Sessions -> Steps]
  /\ advisor \in [Sessions -> Advisors]
  /\ due \in [Sessions -> 0..Reads]
  /\ use \in [Clients -> Uses \cup {None}]
  /\ lock \in [Advisors -> Sessions \cup {None}]

\* Waiting for something another request holds.
Waits(s) == pc[s] = "lock" \/ (pc[s] = "derive" /\ Held(s, "read") = {} /\ due[s] > 0)

\* Whenever every connection is taken, one of them is with a request that needs
\* nothing more to return it: the pool never fills up with requests that wait
\* for each other.  True while the process serves fewer requests than it has
\* connections (database.module.ts: Pool; no connectionTimeoutMillis).
PoolKeepsMoving ==
  Idle = {} =>
    \E c \in Clients : pc[use[c].by] # "idle" /\ ~Waits(use[c].by)

\* Every booking request and every other query is answered.
EveryRequestAnswered == \A s \in Sessions : pc[s] # "idle" ~> pc[s] = "idle"
=============================================================================
