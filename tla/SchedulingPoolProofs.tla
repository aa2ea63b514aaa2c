------------------------ MODULE SchedulingPoolProofs ------------------------
(***************************************************************************)
(* A process that serves fewer requests than its pool has connections      *)
(* never fills the pool with requests that wait for each other.            *)
(***************************************************************************)
EXTENDS SchedulingPool, FiniteSetTheorems, TLAPS

\* A connection is used only by a request that stands where it needs it.
UseFits ==
  \A c \in Clients : use[c] # None =>
    \/ use[c].for = "tx" /\ pc[use[c].by] \in {"lock", "derive"}
    \/ use[c].for = "read" /\ pc[use[c].by] \in {"derive", "answer"}

\* A request has one transaction.
OneTransaction ==
  \A c, d \in Clients :
    (use[c] # None /\ use[c].for = "tx" /\ use[d] = use[c]) => c = d

IInv == TypeOK /\ UseFits /\ OneTransaction

----------------------------------------------------------------------------

LEMMA InitIInv == Init => IInv
BY PoolAssumption DEF Init, IInv, TypeOK, Steps, UseFits, OneTransaction

LEMMA TypeStep == TypeOK /\ [Next]_vars => TypeOK'
<1> USE PoolAssumption
<1> SUFFICES ASSUME TypeOK, [Next]_vars PROVE TypeOK'
  OBVIOUS
<1>1. CASE UNCHANGED vars
  BY <1>1 DEF TypeOK, vars
<1>2. ASSUME NEW s \in Sessions, NEW a \in Advisors,
             NEW step \in {"begin", "query"}, Arrive(s, a, step)
      PROVE  TypeOK'
  BY <1>2 DEF TypeOK, Arrive, Go, Steps
<1>3. ASSUME NEW s \in Sessions, BeginTransaction(s) PROVE TypeOK'
  BY <1>3 DEF TypeOK, BeginTransaction, Go, Steps, Connect, Uses, Idle
<1>4. ASSUME NEW s \in Sessions, AcquireLock(s) PROVE TypeOK'
  BY <1>4 DEF TypeOK, AcquireLock, Go, Steps
<1>5. ASSUME NEW s \in Sessions, StartRead(s) PROVE TypeOK'
  BY <1>5 DEF TypeOK, StartRead, Connect, Uses, Idle
<1>6. ASSUME NEW s \in Sessions, FinishRead(s) PROVE TypeOK'
  BY <1>6 DEF TypeOK, FinishRead
<1>7. ASSUME NEW s \in Sessions, End(s) PROVE TypeOK'
  BY <1>7 DEF TypeOK, End, Release, Go, Steps
<1>8. ASSUME NEW s \in Sessions, Query(s) PROVE TypeOK'
  BY <1>8 DEF TypeOK, Query, Go, Steps, Connect, Uses, Idle
<1> QED
  BY <1>1, <1>2, <1>3, <1>4, <1>5, <1>6, <1>7, <1>8
     DEF Next, Step, Commit, Rollback, AnswerQuery

LEMMA UseStep == IInv /\ [Next]_vars => UseFits' /\ OneTransaction'
<1> USE PoolAssumption DEF IInv
<1> SUFFICES ASSUME IInv, [Next]_vars PROVE UseFits' /\ OneTransaction'
  OBVIOUS
<1>0. TypeOK'
  BY TypeStep
<1>1. CASE UNCHANGED vars
  BY <1>1 DEF UseFits, OneTransaction, vars
<1>2. ASSUME NEW s \in Sessions, NEW a \in Advisors,
             NEW step \in {"begin", "query"}, Arrive(s, a, step)
      PROVE  UseFits' /\ OneTransaction'
  <2>1. pc[s] = "idle" /\ use' = use /\ pc' = [pc EXCEPT ![s] = step]
    BY <1>2 DEF Arrive, Go
  <2>2. UseFits'
    BY <2>1 DEF UseFits, TypeOK, Uses
  <2>3. OneTransaction'
    BY <2>1 DEF OneTransaction
  <2> QED
    BY <2>2, <2>3
<1>3. ASSUME NEW s \in Sessions, BeginTransaction(s)
      PROVE  UseFits' /\ OneTransaction'
  <2>1. PICK c \in Clients : /\ use[c] = None
                             /\ use' = [use EXCEPT ![c] = [by |-> s, for |-> "tx"]]
    BY <1>3 DEF BeginTransaction, Idle, Connect
  <2>2. pc[s] = "begin" /\ pc' = [pc EXCEPT ![s] = "lock"]
    BY <1>3 DEF BeginTransaction, Go
  <2>3. UseFits'
    BY <2>1, <2>2 DEF UseFits, TypeOK, Uses
  <2>4. \A d \in Clients : use[d] # [by |-> s, for |-> "tx"]
    BY <2>2 DEF UseFits, Uses
  <2>5. OneTransaction'
    BY <2>1, <2>4 DEF OneTransaction, TypeOK, Uses
  <2> QED
    BY <2>3, <2>5
<1>4. ASSUME NEW s \in Sessions, AcquireLock(s)
      PROVE  UseFits' /\ OneTransaction'
  <2>1. pc[s] = "lock" /\ use' = use /\ pc' = [pc EXCEPT ![s] = "derive"]
    BY <1>4 DEF AcquireLock, Go
  <2>2. UseFits'
    BY <2>1 DEF UseFits, TypeOK, Uses
  <2>3. OneTransaction'
    BY <2>1 DEF OneTransaction
  <2> QED
    BY <2>2, <2>3
<1>5. ASSUME NEW s \in Sessions, StartRead(s) \/ Query(s)
      PROVE  UseFits' /\ OneTransaction'
  <2>1. PICK c \in Clients : /\ use[c] = None
                             /\ use' = [use EXCEPT ![c] = [by |-> s, for |-> "read"]]
    BY <1>5 DEF StartRead, Query, Idle, Connect
  <2>2. \/ pc[s] = "derive" /\ pc' = pc
        \/ pc[s] = "query" /\ pc' = [pc EXCEPT ![s] = "answer"]
    BY <1>5 DEF StartRead, Query, Go
  <2>3. UseFits'
    BY <2>1, <2>2 DEF UseFits, TypeOK, Uses
  <2>4. OneTransaction'
    BY <2>1 DEF OneTransaction, TypeOK, Uses
  <2> QED
    BY <2>3, <2>4
<1>6. ASSUME NEW s \in Sessions, FinishRead(s)
      PROVE  UseFits' /\ OneTransaction'
  <2>1. PICK c \in Clients : use' = [use EXCEPT ![c] = None]
    BY <1>6 DEF FinishRead, Held
  <2>2. pc' = pc
    BY <1>6 DEF FinishRead
  <2> QED
    BY <2>1, <2>2 DEF UseFits, OneTransaction, TypeOK
<1>7. ASSUME NEW s \in Sessions, End(s)
      PROVE  UseFits' /\ OneTransaction'
  <2>1. \A c \in Clients : use'[c] = IF use[c] # None /\ use[c].by = s
                                       THEN None ELSE use[c]
    BY <1>7 DEF End, Release, Held, TypeOK, Uses
  <2>2. pc' = [pc EXCEPT ![s] = "idle"]
    BY <1>7 DEF End, Go
  <2>3. UseFits'
    BY <2>1, <2>2 DEF UseFits, TypeOK, Uses
  <2>4. OneTransaction'
    BY <2>1 DEF OneTransaction
  <2> QED
    BY <2>3, <2>4
<1> QED
  BY <1>1, <1>2, <1>3, <1>4, <1>5, <1>6, <1>7
     DEF Next, Step, Commit, Rollback, AnswerQuery

\* Of any sessions and connections: each connection in use is with a request
\* that stands where it needs it, and no request has two transactions.
THEOREM Inductive == Spec => []IInv
<1>1. IInv /\ [Next]_vars => IInv'
  BY TypeStep, UseStep DEF IInv
<1> QED
  BY InitIInv, <1>1, PTL DEF Spec

\* The state is well typed whatever the requests and the size of the pool.
THEOREM TypeCorrect == Spec => []TypeOK
<1>1. IInv => TypeOK
  BY DEF IInv
<1> QED
  BY <1>1, Inductive, PTL

\* If every connection were with a request that waits, each would be the one
\* transaction of a different request: more requests than there are.
LEMMA Pigeonhole ==
  ASSUME IInv, Cardinality(Sessions) < Cardinality(Clients)
  PROVE  PoolKeepsMoving
<1> SUFFICES ASSUME Idle = {},
                    \A c \in Clients : pc[use[c].by] = "idle" \/ Waits(use[c].by)
             PROVE  FALSE
  BY DEF PoolKeepsMoving
<1>1. \A c \in Clients : use[c] \in Uses
  BY DEF Idle, IInv, TypeOK
<1>2. ASSUME NEW c \in Clients PROVE use[c].for = "tx"
  <2> SUFFICES ASSUME use[c].for = "read" PROVE FALSE
    BY <1>1 DEF Uses
  <2>1. use[c] # None /\ pc[use[c].by] \in {"derive", "answer"}
    BY <1>1, PoolAssumption DEF IInv, UseFits
  <2>2. c \in Held(use[c].by, "read")
    BY <1>1 DEF Held, Uses
  <2> QED
    BY <2>1, <2>2 DEF Waits
<1> DEFINE owner == [c \in Clients |-> use[c].by]
<1>3. owner \in [Clients -> Sessions]
  BY <1>1 DEF Uses
<1>4. \E c, d \in Clients : c # d /\ owner[c] = owner[d]
  <2> HIDE DEF owner
  <2> QED
    BY <1>3, FS_PigeonHole, PoolAssumption
<1>5. PICK c \in Clients, d \in Clients : c # d /\ use[c].by = use[d].by
  BY <1>4
<1>6. use[c] = use[d]
  BY <1>1, <1>2, <1>5 DEF Uses
<1> QED
  BY <1>1, <1>2, <1>5, <1>6, PoolAssumption DEF IInv, OneTransaction

\* With more connections than requests, a full pool always has a connection
\* that will be returned without anybody else's help.
THEOREM LargeEnoughPoolKeepsMoving ==
  Cardinality(Sessions) < Cardinality(Clients) => (Spec => []PoolKeepsMoving)
<1> SUFFICES ASSUME Cardinality(Sessions) < Cardinality(Clients)
             PROVE  Spec => []PoolKeepsMoving
  OBVIOUS
<1>1. IInv => PoolKeepsMoving
  BY Pigeonhole
<1> QED
  BY <1>1, Inductive, PTL
=============================================================================
