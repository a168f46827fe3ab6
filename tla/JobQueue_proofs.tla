--------------------------- MODULE JobQueue_proofs ---------------------------
(***************************************************************************)
(* Proofs about JobQueue, for any workers, jobs, attempts and bounds.      *)
(***************************************************************************)
EXTENDS JobQueue, FiniteSetTheorems, TLAPS

USE DEF Busy

(* The assumptions the proofs use most, without those about sequences.     *)
LEMMA ConstantTypes ==
  /\ NoWorker \notin Worker /\ NoJob \notin Job /\ IsFiniteSet(Worker)
  /\ Root \subseteq Job /\ FetchJob \subseteq Job
  /\ Follow \in [Job -> SUBSET Job]
  /\ Serves \in [Worker -> SUBSET Job]
  /\ MaxAttempts \in Nat \ {0} /\ StaleAfter \in Nat
  /\ MaxBoots \in Nat /\ Overdue \in Nat
BY QueueAssumption DEF QueueAssumption

(* Every delay of the backoff table is a number of units of time.           *)
LEMMA RetryDelayType ==
  ASSUME NEW n \in Nat \ {0}
  PROVE  RetryDelay(n) \in Nat
BY QueueAssumption DEF QueueAssumption, RetryDelay

(* A worker between a claim and its settlement has a job.                   *)
LEMMA BusyHasJob ==
  ASSUME TypeOK, NEW w \in Worker, pc[w] \in Busy
  PROVE  job[w] \in Job
BY DEF TypeOK

(* Every action keeps the type of every variable.                          *)
LEMMA TypeCorrectStep == TypeOK /\ [Next]_vars => TypeOK'
<1> SUFFICES ASSUME TypeOK, [Next]_vars
             PROVE  TypeOK'
  OBVIOUS
<1> USE ConstantTypes DEF TypeOK
<1>1. ASSUME NEW j \in Job, Enqueue(j)
      PROVE  TypeOK'
  BY <1>1 DEF Enqueue, EnqueueAll, Inserted, workerVars, history
<1>2. ASSUME NEW w \in Worker, NEW j \in Job, Claim(w, j)
      PROVE  TypeOK'
  <2>1. state' \in [Job -> {"absent", "queued", "running", "done", "dead"}]
    BY <1>2 DEF Claim, ClaimStep
  <2>2. attempts' \in [Job -> Nat] /\ lockedBy' \in [Job -> Worker \cup {NoWorker}]
    BY <1>2 DEF Claim, ClaimStep
  <2>3. dueIn' \in [Job -> Int] /\ lockedFor' \in [Job -> Nat]
    BY <1>2 DEF Claim, ClaimStep
  <2>4. pc' \in [Worker -> {"down", "idle"} \cup Busy] /\ seen' \in [Worker -> Nat]
    BY <1>2 DEF Claim, ClaimStep
  <2>5. job' \in [Worker -> Job \cup {NoJob}]
    BY <1>2 DEF Claim, ClaimStep
  <2>6. \A v \in Worker : job'[v] = NoJob <=> pc'[v] \notin Busy
    BY <1>2 DEF Claim, ClaimStep
  <2>7. QED
    BY <1>2, <2>1, <2>2, <2>3, <2>4, <2>5, <2>6 DEF Claim, ClaimStep, history
<1>3. ASSUME NEW w \in Worker, HandlerCommits(w)
      PROVE  TypeOK'
  BY <1>3 DEF HandlerCommits, EnqueueAll, Inserted, history
<1>4. ASSUME NEW w \in Worker, HandlerRaises(w)
      PROVE  TypeOK'
  BY <1>4 DEF HandlerRaises, rowVars, history
<1>5. ASSUME NEW w \in Worker, Complete(w)
      PROVE  TypeOK'
  BY <1>5 DEF Complete, history
<1>6. ASSUME NEW w \in Worker, CompleteRaises(w)
      PROVE  TypeOK'
  <2>1. job[w] \in Job
    BY <1>6, BusyHasJob DEF CompleteRaises
  <2>2. lost' \in [Job -> Nat]
    BY <1>6, <2>1 DEF CompleteRaises
  <2>3. QED
    BY <1>6, <2>2 DEF CompleteRaises, rowVars
<1>7. ASSUME NEW w \in Worker, Fail(w)
      PROVE  TypeOK'
  <2>1. PICK delay \in Nat : delay = RetryDelay(seen[w] + 1)
    BY RetryDelayType
  <2>2. /\ state' \in [Job -> {"absent", "queued", "running", "done", "dead"}]
        /\ dueIn' \in [Job -> Int] /\ degraded' \subseteq FetchJob
    <3>1. CASE LastAttempt(w)
      BY <1>7, <3>1 DEF Fail
    <3>2. CASE ~LastAttempt(w)
      <4>1. dueIn' = [dueIn EXCEPT ![job[w]] = delay]
        BY <1>7, <2>1, <3>2 DEF Fail
      <4>2. state' = [state EXCEPT ![job[w]] = "queued"] /\ UNCHANGED degraded
        BY <1>7, <3>2, Zenon DEF Fail
      <4>3. dueIn' \in [Job -> Int]
        <5>1. delay \in Int
          OBVIOUS
        <5>2. QED
          BY <4>1, <5>1
      <4>4. state' \in [Job -> {"absent", "queued", "running", "done", "dead"}]
        BY <4>2
      <4>5. QED
        BY <4>2, <4>3, <4>4
    <3>3. QED
      BY <3>1, <3>2
  <2>3. /\ pc' = [pc EXCEPT ![w] = "idle"]
        /\ job' = [job EXCEPT ![w] = NoJob]
        /\ seen' = [seen EXCEPT ![w] = 0]
        /\ lockedBy' = [lockedBy EXCEPT ![job[w]] = NoWorker]
        /\ UNCHANGED <<attempts, lockedFor, ran, lost, reclaimed, overran, boots>>
    BY <1>7 DEF Fail, history
  <2>4. QED
    BY <2>2, <2>3
<1>8. ASSUME NEW w \in Worker, Start(w)
      PROVE  TypeOK'
  BY <1>8 DEF Start, Stale
<1>9. ASSUME NEW w \in Worker, Stop(w)
      PROVE  TypeOK'
  BY <1>9 DEF Stop, rowVars, history
<1>10. ASSUME NEW w \in Worker, Crash(w)
       PROVE  TypeOK'
  BY <1>10 DEF Crash, rowVars
<1>11. CASE TimePasses
  BY <1>11 DEF TimePasses, workerVars
<1>12. CASE UNCHANGED vars
  BY <1>12 DEF vars, rowVars, workerVars, history
<1>13. QED
  BY <1>1, <1>2, <1>3, <1>4, <1>5, <1>6, <1>7, <1>8, <1>9, <1>10, <1>11,
     <1>12 DEF Next, Work

(* Every variable keeps its type, and a worker has a job exactly while it  *)
(* is busy (TypeOK).                                                       *)
THEOREM TypeCorrect == Spec => []TypeOK
<1>1. Init => TypeOK
  BY ConstantTypes DEF Init, TypeOK
<1>2. QED
  BY <1>1, TypeCorrectStep, PTL DEF Spec

-----------------------------------------------------------------------------
(***************************************************************************)
(* Exclusivity.  The row of a job that has not overrun is running, names   *)
(* its holder and is not yet stale, so no other worker can claim it and    *)
(* reclaim_stale cannot take it away.                                      *)
(***************************************************************************)
OwnRow ==
  \A j \in Job \ overran : \A w \in Worker :
    Holds(w, j) => /\ state[j] = "running"
                   /\ lockedBy[j] = w
                   /\ lockedFor[j] <= StaleAfter

(* No step of another worker, of a restart or of time touches the row of a  *)
(* job that has not overrun while it is held.                              *)
LEMMA OwnRowStep == TypeOK /\ OwnRow /\ [Next]_vars => OwnRow'
<1> SUFFICES ASSUME TypeOK, OwnRow, [Next]_vars,
                    NEW j \in Job, j \notin overran',
                    NEW v \in Worker, Holds(v, j)'
             PROVE  /\ state'[j] = "running"
                    /\ lockedBy'[j] = v
                    /\ lockedFor'[j] <= StaleAfter
  BY DEF OwnRow
<1> DEFINE Goal == /\ state'[j] = "running"
                   /\ lockedBy'[j] = v
                   /\ lockedFor'[j] <= StaleAfter
<1> USE ConstantTypes DEF TypeOK, Holds
<1>1. ASSUME NEW k \in Job, Enqueue(k)
      PROVE  Goal
  BY <1>1 DEF OwnRow, Enqueue, EnqueueAll, Inserted, workerVars, history
<1>2. ASSUME NEW w \in Worker, NEW k \in Job, Claim(w, k)
      PROVE  Goal
  <2>1. j \notin overran /\ state[k] = "queued"
    BY <1>2 DEF Claim, ClaimStep, Claimable, history
  <2>2. CASE v = w
    BY <1>2, <2>2 DEF Claim, ClaimStep
  <2>3. CASE v # w
    <3>1. Holds(v, j)
      BY <1>2, <2>3 DEF Claim, ClaimStep
    <3>2. j # k
      BY <2>1, <3>1 DEF OwnRow
    <3>3. QED
      BY <1>2, <2>1, <3>1, <3>2 DEF OwnRow, Claim, ClaimStep
  <2>4. QED
    BY <2>2, <2>3
<1>3. ASSUME NEW w \in Worker, HandlerCommits(w)
      PROVE  Goal
  BY <1>3 DEF OwnRow, HandlerCommits, EnqueueAll, Inserted, history
<1>4. ASSUME NEW w \in Worker, HandlerRaises(w)
      PROVE  Goal
  BY <1>4 DEF OwnRow, HandlerRaises, rowVars, history
<1>5. ASSUME NEW w \in Worker, Complete(w)
      PROVE  Goal
  <2>1. v # w /\ Holds(v, j) /\ j \notin overran
    BY <1>5 DEF Complete, history
  <2>2. j # job[w]
    BY <1>5, <2>1 DEF OwnRow, Complete
  <2>3. QED
    BY <1>5, <2>1, <2>2 DEF OwnRow, Complete
<1>6. ASSUME NEW w \in Worker, CompleteRaises(w)
      PROVE  Goal
  BY <1>6 DEF OwnRow, CompleteRaises, rowVars
<1>7. ASSUME NEW w \in Worker, Fail(w)
      PROVE  Goal
  <2>1. /\ pc[w] = "failing"
        /\ pc' = [pc EXCEPT ![w] = "idle"] /\ job' = [job EXCEPT ![w] = NoJob]
        /\ lockedBy' = [lockedBy EXCEPT ![job[w]] = NoWorker]
        /\ UNCHANGED <<lockedFor, overran>>
        /\ \/ state' = [state EXCEPT ![job[w]] = "dead"]
           \/ state' = [state EXCEPT ![job[w]] = "queued"]
    BY <1>7, Zenon DEF Fail, history
  <2>2. v # w /\ Holds(v, j) /\ j \notin overran
    BY <2>1
  <2>3. j # job[w]
    BY <2>1, <2>2 DEF OwnRow
  <2>4. QED
    BY <2>1, <2>2, <2>3 DEF OwnRow
<1>8. ASSUME NEW w \in Worker, Start(w)
      PROVE  Goal
  <2>1. Holds(v, j) /\ j \notin overran
    BY <1>8 DEF Start
  <2>2. j \notin Stale
    BY <2>1 DEF OwnRow, Stale
  <2>3. QED
    BY <1>8, <2>1, <2>2 DEF OwnRow, Start
<1>9. ASSUME NEW w \in Worker, Stop(w)
      PROVE  Goal
  BY <1>9 DEF OwnRow, Stop, rowVars, history
<1>10. ASSUME NEW w \in Worker, Crash(w)
       PROVE  Goal
  BY <1>10 DEF OwnRow, Crash, rowVars
<1>11. CASE TimePasses
  <2>1. Holds(v, j) /\ Held(j) /\ j \notin overran
    BY <1>11 DEF TimePasses, workerVars, Held
  <2>2. ~(lockedFor'[j] > StaleAfter)
    BY <1>11, <2>1 DEF TimePasses
  <2>3. lockedFor'[j] \in Nat
    BY <1>11 DEF TimePasses
  <2>4. QED
    BY <1>11, <2>1, <2>2, <2>3 DEF OwnRow, TimePasses
<1>12. CASE UNCHANGED vars
  BY <1>12 DEF OwnRow, vars, rowVars, workerVars, history
<1>13. QED
  BY <1>1, <1>2, <1>3, <1>4, <1>5, <1>6, <1>7, <1>8, <1>9, <1>10, <1>11, <1>12
     DEF Next, Work

(* OwnRow is an invariant.                                                 *)
LEMMA OwnRowInvariant == Spec => []OwnRow
<1>1. Init => OwnRow
  BY DEF Init, OwnRow, Holds
<1>2. QED
  BY <1>1, OwnRowStep, TypeCorrect, PTL DEF Spec

(* While no run of a job has outlasted STALE_RUNNING_AFTER, one worker     *)
(* holds it and the row names that worker (Exclusive).                     *)
THEOREM ExclusiveHolds == Spec => []Exclusive
<1>1. OwnRow => Exclusive
  BY DEF OwnRow, Exclusive
<1>2. QED
  BY <1>1, OwnRowInvariant, PTL

(* Without an overrun a settled job is never touched again: every step     *)
(* that changes a done or dead row would be one of its holder.             *)
THEOREM SettledJobsStay == Spec => SettledIsFinal
<1>1. TypeOK /\ OwnRow /\ [Next]_vars =>
        [\A j \in Job : j \notin overran /\ state[j] \in {"done", "dead"}
           => state'[j] = state[j]]_vars
  <2> SUFFICES ASSUME TypeOK, OwnRow, Next,
                      NEW j \in Job, j \notin overran,
                      state[j] \in {"done", "dead"}
               PROVE  state'[j] = state[j]
    OBVIOUS
  <2> USE ConstantTypes DEF TypeOK
  <2>1. \A w \in Worker : ~Holds(w, j)
    BY DEF OwnRow
  <2>2. ASSUME NEW k \in Job, Enqueue(k)
        PROVE  state'[j] = state[j]
    BY <2>2 DEF Enqueue, EnqueueAll, Inserted
  <2>3. ASSUME NEW w \in Worker, NEW k \in Job, Claim(w, k)
        PROVE  state'[j] = state[j]
    BY <2>3 DEF Claim, ClaimStep, Claimable
  <2>4. ASSUME NEW w \in Worker, HandlerCommits(w)
        PROVE  state'[j] = state[j]
    BY <2>4 DEF HandlerCommits, EnqueueAll, Inserted
  <2>5. ASSUME NEW w \in Worker, Complete(w)
        PROVE  state'[j] = state[j]
    BY <2>1, <2>5 DEF Complete, Holds
  <2>6. ASSUME NEW w \in Worker, Fail(w)
        PROVE  state'[j] = state[j]
    <3>1. pc[w] = "failing"
      BY <2>6, Zenon DEF Fail
    <3>2. \/ state' = [state EXCEPT ![job[w]] = "dead"]
          \/ state' = [state EXCEPT ![job[w]] = "queued"]
      BY <2>6, Zenon DEF Fail
    <3>3. QED
      BY <2>1, <3>1, <3>2 DEF Holds
  <2>7. ASSUME NEW w \in Worker, Start(w)
        PROVE  state'[j] = state[j]
    BY <2>7 DEF Start, Stale
  <2>8. CASE \E w \in Worker : HandlerRaises(w) \/ CompleteRaises(w) \/ Stop(w) \/ Crash(w)
    BY <2>8 DEF HandlerRaises, CompleteRaises, Stop, Crash, rowVars
  <2>9. CASE TimePasses
    BY <2>9 DEF TimePasses
  <2>10. QED
    BY <2>2, <2>3, <2>4, <2>5, <2>6, <2>7, <2>8, <2>9 DEF Next, Work
<1>2. QED
  BY <1>1, TypeCorrect, OwnRowInvariant, PTL DEF Spec, SettledIsFinal

-----------------------------------------------------------------------------
(***************************************************************************)
(* The ledger of effects.  A commit of a handler is either recorded (the   *)
(* row is done), about to be (its worker is completing) or lost.           *)
(***************************************************************************)
Committed(j) ==
  \/ state[j] = "done"
  \/ \E w \in Worker : Holds(w, j) /\ pc[w] = "completing"

Ledger ==
  /\ \A w \in Worker : pc[w] = "completing" => ran[job[w]] > 0
  /\ \A j \in Job : state[j] = "done" => ran[j] > 0
  /\ \A j \in Job \ overran :
       ran[j] = IF Committed(j) THEN lost[j] + 1 ELSE lost[j]

(* What is being completed, or is done, has had its effects committed.      *)
LEMMA LedgerPositiveStep ==
  TypeOK /\ Ledger /\ [Next]_vars =>
    /\ \A w \in Worker : pc'[w] = "completing" => ran'[job'[w]] > 0
    /\ \A j \in Job : state'[j] = "done" => ran'[j] > 0
<1> SUFFICES ASSUME TypeOK, Ledger, [Next]_vars
             PROVE  /\ \A w \in Worker : pc'[w] = "completing" => ran'[job'[w]] > 0
                    /\ \A j \in Job : state'[j] = "done" => ran'[j] > 0
  OBVIOUS
<1> DEFINE Goal == /\ \A w \in Worker : pc'[w] = "completing" => ran'[job'[w]] > 0
                   /\ \A j \in Job : state'[j] = "done" => ran'[j] > 0
<1> USE ConstantTypes DEF TypeOK, Ledger
<1>1. ASSUME NEW k \in Job, Enqueue(k)
      PROVE  Goal
  BY <1>1 DEF Enqueue, EnqueueAll, Inserted, workerVars
<1>2. ASSUME NEW w \in Worker, NEW k \in Job, Claim(w, k)
      PROVE  Goal
  BY <1>2 DEF Claim, ClaimStep
<1>3. ASSUME NEW w \in Worker, HandlerCommits(w)
      PROVE  Goal
  <2>1. job[w] \in Job
    BY <1>3, BusyHasJob DEF HandlerCommits
  <2>2. \A j \in Job : ran'[j] = IF j = job[w] THEN ran[j] + 1 ELSE ran[j]
    BY <1>3 DEF HandlerCommits
  <2>3. \A j \in Job : state'[j] = "done" => ran'[j] > 0
    BY <1>3, <2>2 DEF HandlerCommits, EnqueueAll, Inserted
  <2>4. ASSUME NEW v \in Worker, pc'[v] = "completing"
        PROVE  ran'[job'[v]] > 0
    <3>1. job'[v] = job[v] /\ pc[v] \in Busy
      BY <1>3, <2>4 DEF HandlerCommits
    <3>2. job[v] \in Job
      BY <3>1, BusyHasJob
    <3>3. CASE v = w
      BY <2>1, <2>2, <3>1, <3>3
    <3>4. CASE v # w
      BY <1>3, <2>2, <2>4, <3>1, <3>2, <3>4 DEF HandlerCommits
    <3>5. QED
      BY <3>3, <3>4
  <2>5. QED
    BY <2>3, <2>4
<1>4. ASSUME NEW w \in Worker, HandlerRaises(w)
      PROVE  Goal
  BY <1>4 DEF HandlerRaises, rowVars
<1>5. ASSUME NEW w \in Worker, Complete(w)
      PROVE  Goal
  BY <1>5 DEF Complete
<1>6. ASSUME NEW w \in Worker, CompleteRaises(w)
      PROVE  Goal
  BY <1>6 DEF CompleteRaises, rowVars
<1>7. ASSUME NEW w \in Worker, Fail(w)
      PROVE  Goal
  <2>1. /\ pc' = [pc EXCEPT ![w] = "idle"] /\ job' = [job EXCEPT ![w] = NoJob]
        /\ UNCHANGED ran
        /\ \/ state' = [state EXCEPT ![job[w]] = "dead"]
           \/ state' = [state EXCEPT ![job[w]] = "queued"]
    BY <1>7, Zenon DEF Fail
  <2>2. QED
    BY <2>1
<1>8. ASSUME NEW w \in Worker, Start(w)
      PROVE  Goal
  BY <1>8 DEF Start
<1>9. ASSUME NEW w \in Worker, Stop(w) \/ Crash(w)
      PROVE  Goal
  BY <1>9 DEF Stop, Crash, rowVars
<1>10. CASE TimePasses \/ UNCHANGED vars
  BY <1>10 DEF TimePasses, vars, rowVars, workerVars
<1>11. QED
  BY <1>1, <1>2, <1>3, <1>4, <1>5, <1>6, <1>7, <1>8, <1>9, <1>10 DEF Next, Work

(* Every step keeps the balance of commits, records and losses.            *)
LEMMA LedgerBalanceStep ==
  ASSUME TypeOK, OwnRow, Ledger, [Next]_vars,
         NEW j \in Job, j \notin overran'
  PROVE  ran'[j] = IF Committed(j)' THEN lost'[j] + 1 ELSE lost'[j]
<1> DEFINE Balanced == ran'[j] = IF Committed(j)' THEN lost'[j] + 1 ELSE lost'[j]
<1> USE ConstantTypes DEF TypeOK, Holds
<1>1. ASSUME j \notin overran
      PROVE  ran[j] = IF Committed(j) THEN lost[j] + 1 ELSE lost[j]
  BY <1>1 DEF Ledger
<1>2. ASSUME ran'[j] = ran[j], lost'[j] = lost[j], Committed(j)' <=> Committed(j),
             j \notin overran
      PROVE  Balanced
  BY <1>1, <1>2
<1>3. ASSUME NEW k \in Job, Enqueue(k)
      PROVE  Balanced
  <2>1. Committed(j)' <=> Committed(j)
    BY <1>3 DEF Committed, Enqueue, EnqueueAll, Inserted, workerVars
  <2>2. QED
    BY <1>2, <1>3, <2>1 DEF Enqueue, history
<1>4. ASSUME NEW w \in Worker, NEW k \in Job, Claim(w, k)
      PROVE  Balanced
  <2>1. (state'[j] = "done") <=> (state[j] = "done")
    BY <1>4 DEF Claim, ClaimStep, Claimable
  <2>2. \A v \in Worker : (pc'[v] = "completing" <=> pc[v] = "completing")
    BY <1>4 DEF Claim, ClaimStep
  <2>3. \A v \in Worker : pc[v] = "completing" => job'[v] = job[v]
    BY <1>4 DEF Claim, ClaimStep
  <2>4. Committed(j)' <=> Committed(j)
    BY <2>1, <2>2, <2>3 DEF Committed
  <2>5. QED
    BY <1>2, <1>4, <2>4 DEF Claim, ClaimStep, history
<1>5. ASSUME NEW w \in Worker, HandlerCommits(w)
      PROVE  Balanced
  <2>1. /\ pc[w] = "handling" /\ pc' = [pc EXCEPT ![w] = "completing"]
        /\ ran' = [ran EXCEPT ![job[w]] = @ + 1]
        /\ UNCHANGED <<job, lost, overran>>
    BY <1>5 DEF HandlerCommits, history
  <2>2. (state'[j] = "done") <=> (state[j] = "done")
    BY <1>5 DEF HandlerCommits, EnqueueAll, Inserted
  <2>3. CASE job[w] = j
    <3>1. state[j] = "running" /\ lockedBy[j] = w
      BY <2>1, <2>3 DEF OwnRow
    <3>2. ~Committed(j)
      BY <2>1, <2>3, <3>1 DEF OwnRow, Committed
    <3>3. Committed(j)'
      BY <2>1, <2>3 DEF Committed
    <3>4. ran[j] = lost[j]
      BY <1>1, <2>1, <3>2
    <3>5. QED
      BY <2>1, <2>3, <3>3, <3>4
  <2>4. CASE job[w] # j
    <3>1. Committed(j)' <=> Committed(j)
      BY <2>1, <2>2, <2>4 DEF Committed
    <3>2. QED
      BY <1>2, <2>1, <2>4, <3>1
  <2>5. QED
    BY <2>3, <2>4
<1>6. ASSUME NEW w \in Worker, HandlerRaises(w)
      PROVE  Balanced
  <2>1. Committed(j)' <=> Committed(j)
    BY <1>6 DEF Committed, HandlerRaises, rowVars
  <2>2. QED
    BY <1>2, <1>6, <2>1 DEF HandlerRaises, history
<1>7. ASSUME NEW w \in Worker, Complete(w)
      PROVE  Balanced
  <2>1. Committed(j)' <=> Committed(j)
    <3>1. CASE job[w] = j
      BY <1>7, <3>1 DEF Complete, Committed
    <3>2. CASE job[w] # j
      BY <1>7, <3>2 DEF Complete, Committed
    <3>3. QED
      BY <3>1, <3>2
  <2>2. QED
    BY <1>2, <1>7, <2>1 DEF Complete, history
<1>8. ASSUME NEW w \in Worker, pc[w] = "completing",
             pc'[w] \notin {"completing"}, \A v \in Worker \ {w} : pc'[v] = pc[v],
             \A v \in Worker \ {w} : job'[v] = job[v],
             lost' = [lost EXCEPT ![job[w]] = @ + 1],
             UNCHANGED <<state, ran, overran>>
      PROVE  Balanced
  <2>1. job[w] \in Job
    BY <1>8, BusyHasJob
  <2>2. CASE job[w] = j
    <3>1. state[j] = "running" /\ \A v \in Worker : Holds(v, j) => v = w
      BY <1>8, <2>2 DEF OwnRow
    <3>2. Committed(j)
      BY <1>8, <2>2 DEF Committed
    <3>3. ~Committed(j)'
      BY <1>8, <3>1 DEF Committed
    <3>4. QED
      BY <1>1, <1>8, <2>2, <3>2, <3>3
  <2>3. CASE job[w] # j
    <3>1. Committed(j)' <=> Committed(j)
      BY <1>8, <2>3 DEF Committed
    <3>2. QED
      BY <1>2, <1>8, <2>3, <3>1
  <2>4. QED
    BY <2>2, <2>3
<1>9. ASSUME NEW w \in Worker, CompleteRaises(w)
      PROVE  Balanced
  BY <1>8, <1>9 DEF CompleteRaises, rowVars
<1>10. ASSUME NEW w \in Worker, Crash(w)
       PROVE  Balanced
  <2>1. CASE pc[w] = "completing"
    BY <1>8, <1>10, <2>1 DEF Crash, rowVars
  <2>2. CASE pc[w] # "completing"
    <3>1. Committed(j)' <=> Committed(j)
      BY <1>10, <2>2 DEF Crash, rowVars, Committed
    <3>2. QED
      BY <1>2, <1>10, <2>2, <3>1 DEF Crash
  <2>3. QED
    BY <2>1, <2>2
<1>11. ASSUME NEW w \in Worker, Fail(w)
       PROVE  Balanced
  <2>1. /\ pc[w] = "failing" /\ pc' = [pc EXCEPT ![w] = "idle"]
        /\ job' = [job EXCEPT ![w] = NoJob]
        /\ UNCHANGED <<ran, lost, overran>>
        /\ \/ state' = [state EXCEPT ![job[w]] = "dead"]
           \/ state' = [state EXCEPT ![job[w]] = "queued"]
    BY <1>11, Zenon DEF Fail, history
  <2>2. job[w] = j => state[j] = "running"
    BY <2>1 DEF OwnRow
  <2>3. Committed(j)' <=> Committed(j)
    BY <2>1, <2>2 DEF Committed
  <2>4. QED
    BY <1>2, <2>1, <2>3
<1>12. ASSUME NEW w \in Worker, Start(w)
       PROVE  Balanced
  <2>1. Committed(j)' <=> Committed(j)
    BY <1>12 DEF Committed, Start, Stale
  <2>2. QED
    BY <1>2, <1>12, <2>1 DEF Start
<1>13. ASSUME NEW w \in Worker, Stop(w)
       PROVE  Balanced
  <2>1. Committed(j)' <=> Committed(j)
    BY <1>13 DEF Committed, Stop, rowVars
  <2>2. QED
    BY <1>2, <1>13, <2>1 DEF Stop, history
<1>14. CASE TimePasses
  <2>1. Committed(j)' <=> Committed(j)
    BY <1>14 DEF Committed, TimePasses, workerVars
  <2>2. j \notin overran
    BY <1>14 DEF TimePasses
  <2>3. QED
    BY <1>2, <1>14, <2>1, <2>2 DEF TimePasses
<1>15. CASE UNCHANGED vars
  <2>1. Committed(j)' <=> Committed(j)
    BY <1>15 DEF Committed, vars, rowVars, workerVars
  <2>2. QED
    BY <1>2, <1>15, <2>1 DEF vars, history
<1>16. QED
  BY <1>3, <1>4, <1>5, <1>6, <1>7, <1>9, <1>10, <1>11, <1>12, <1>13, <1>14, <1>15
     DEF Next, Work

(* The ledger is an invariant.                                             *)
LEMMA LedgerInvariant == Spec => []Ledger
<1>1. Init => Ledger
  BY DEF Init, Ledger, Committed, Holds
<1>2. TypeOK /\ OwnRow /\ Ledger /\ [Next]_vars => Ledger'
  <2> SUFFICES ASSUME TypeOK, OwnRow, Ledger, [Next]_vars
               PROVE  Ledger'
    OBVIOUS
  <2>1. \A j \in Job : j \notin overran' =>
          ran'[j] = IF Committed(j)' THEN lost'[j] + 1 ELSE lost'[j]
    BY LedgerBalanceStep
  <2>2. QED
    BY <2>1, LedgerPositiveStep DEF Ledger
<1>3. QED
  BY <1>1, <1>2, TypeCorrect, OwnRowInvariant, PTL DEF Spec

(* A handler's effects are committed once for the completion of its job,   *)
(* and once more for each commit that was lost before it was recorded      *)
(* (OnceUnlessLost).                                                       *)
THEOREM EffectsOnceUnlessLost == Spec => []OnceUnlessLost
<1>1. TypeOK /\ Ledger => OnceUnlessLost
  BY DEF TypeOK, Ledger, OnceUnlessLost, Committed
<1>2. QED
  BY <1>1, TypeCorrect, LedgerInvariant, PTL

-----------------------------------------------------------------------------
(***************************************************************************)
(* The transactional outbox and the dead-letter state.                     *)
(***************************************************************************)

(* A row never disappears, a commit is never undone, and a row appears     *)
(* only by Enqueue or with the commit of a handler that follows up with it.*)
LEMMA RowsAppear ==
  ASSUME TypeOK, [Next]_vars, NEW k \in Job
  PROVE  /\ state[k] # "absent" => state'[k] # "absent"
         /\ ran'[k] >= ran[k]
         /\ state[k] = "absent" /\ state'[k] # "absent" =>
              \/ k \in Root
              \/ \E w \in Worker : HandlerCommits(w) /\ k \in Follow[job[w]]
              \/ \E w \in Worker : Holds(w, k)
<1> DEFINE Goal == /\ state[k] # "absent" => state'[k] # "absent"
                   /\ ran'[k] >= ran[k]
                   /\ state[k] = "absent" /\ state'[k] # "absent" =>
                        \/ k \in Root
                        \/ \E w \in Worker : HandlerCommits(w) /\ k \in Follow[job[w]]
                        \/ \E w \in Worker : Holds(w, k)
<1> USE ConstantTypes DEF TypeOK
<1>1. ASSUME NEW j \in Job, Enqueue(j)
      PROVE  Goal
  BY <1>1 DEF Enqueue, EnqueueAll, Inserted
<1>2. ASSUME NEW w \in Worker, NEW j \in Job, Claim(w, j)
      PROVE  Goal
  BY <1>2 DEF Claim, ClaimStep, Claimable
<1>3. ASSUME NEW w \in Worker, HandlerCommits(w)
      PROVE  Goal
  <2>1. job[w] \in Job
    BY <1>3, BusyHasJob DEF HandlerCommits
  <2>2. ran'[k] >= ran[k]
    BY <1>3, <2>1 DEF HandlerCommits
  <2>3. /\ state[k] # "absent" => state'[k] # "absent"
        /\ state[k] = "absent" /\ state'[k] # "absent" => k \in Follow[job[w]]
    BY <1>3 DEF HandlerCommits, EnqueueAll, Inserted
  <2>4. QED
    BY <1>3, <2>2, <2>3
<1>4. ASSUME NEW w \in Worker, Complete(w)
      PROVE  Goal
  BY <1>4 DEF Complete, Holds
<1>5. ASSUME NEW w \in Worker, Fail(w)
      PROVE  Goal
  <2>1. /\ pc[w] = "failing" /\ UNCHANGED ran
        /\ \/ state' = [state EXCEPT ![job[w]] = "dead"]
           \/ state' = [state EXCEPT ![job[w]] = "queued"]
    BY <1>5, Zenon DEF Fail
  <2>2. QED
    BY <2>1 DEF Holds
<1>6. ASSUME NEW w \in Worker, Start(w)
      PROVE  Goal
  BY <1>6 DEF Start, Stale
<1>7. CASE \E w \in Worker : HandlerRaises(w) \/ CompleteRaises(w) \/ Stop(w) \/ Crash(w)
  BY <1>7 DEF HandlerRaises, CompleteRaises, Stop, Crash, rowVars
<1>8. CASE TimePasses \/ UNCHANGED vars
  BY <1>8 DEF TimePasses, vars, rowVars
<1>9. QED
  BY <1>1, <1>2, <1>3, <1>4, <1>5, <1>6, <1>7, <1>8 DEF Next, Work

(* Only a commit of its handler counts as a run of a job.                   *)
LEMMA CommitStep ==
  ASSUME TypeOK, [Next]_vars, NEW j \in Job, ran'[j] # ran[j]
  PROVE  \E w \in Worker : HandlerCommits(w) /\ job[w] = j
<1> USE ConstantTypes DEF TypeOK
<1>1. ASSUME NEW w \in Worker, HandlerCommits(w)
      PROVE  job[w] = j
  BY <1>1 DEF HandlerCommits
<1>2. ASSUME NEW w \in Worker, Fail(w)
      PROVE  FALSE
  BY <1>2, Zenon DEF Fail
<1>3. ASSUME NEW k \in Job, Enqueue(k)
      PROVE  FALSE
  BY <1>3 DEF Enqueue
<1>4. ASSUME NEW w \in Worker, NEW k \in Job, Claim(w, k)
      PROVE  FALSE
  BY <1>4 DEF Claim, ClaimStep
<1>5. CASE \E w \in Worker : \/ HandlerRaises(w) \/ Complete(w) \/ CompleteRaises(w)
                            \/ Start(w) \/ Stop(w) \/ Crash(w)
  BY <1>5 DEF HandlerRaises, Complete, CompleteRaises, Start, Stop, Crash
<1>6. CASE TimePasses \/ UNCHANGED vars
  BY <1>6 DEF TimePasses, vars
<1>7. QED
  BY <1>1, <1>2, <1>3, <1>4, <1>5, <1>6 DEF Next, Work

(* A worker holds an existing row, and the row counts its attempt.         *)
HeldRow ==
  \A w \in Worker : pc[w] \in Busy =>
    /\ state[job[w]] # "absent"
    /\ attempts[job[w]] >= seen[w] + 1

(* HeldRow is an invariant.                                                *)
LEMMA HeldRowInvariant == Spec => []HeldRow
<1>1. Init => HeldRow
  BY DEF Init, HeldRow
<1>2. TypeOK /\ HeldRow /\ [Next]_vars => HeldRow'
  <2> SUFFICES ASSUME TypeOK, HeldRow, [Next]_vars,
                      NEW v \in Worker, pc'[v] \in Busy
               PROVE  /\ state'[job'[v]] # "absent"
                      /\ attempts'[job'[v]] >= seen'[v] + 1
    BY DEF HeldRow
  <2> DEFINE Goal == /\ state'[job'[v]] # "absent"
                     /\ attempts'[job'[v]] >= seen'[v] + 1
  <2> USE ConstantTypes DEF TypeOK
  <2>1. ASSUME job'[v] = job[v], seen'[v] = seen[v], pc[v] \in Busy,
               attempts'[job[v]] >= attempts[job[v]]
        PROVE  Goal
    <3>1. job[v] \in Job
      BY <2>1, BusyHasJob
    <3>2. state'[job[v]] # "absent"
      BY <2>1, <3>1, RowsAppear DEF HeldRow
    <3>3. /\ attempts[job[v]] \in Nat /\ seen[v] \in Nat
          /\ attempts[job[v]] >= seen[v] + 1
      BY <2>1, <3>1 DEF HeldRow
    <3>4. attempts'[job[v]] \in Nat
      BY TypeCorrectStep, <3>1
    <3>5. QED
      BY <2>1, <3>2, <3>3, <3>4
  <2>2. ASSUME NEW j \in Job, Enqueue(j)
        PROVE  Goal
    <3>1. pc[v] \in Busy /\ job[v] \in Job
      BY <2>2, BusyHasJob DEF Enqueue, workerVars
    <3>2. attempts'[job[v]] = attempts[job[v]]
      BY <2>2, <3>1 DEF Enqueue, EnqueueAll, Inserted, HeldRow
    <3>3. QED
      BY <2>1, <2>2, <3>1, <3>2 DEF Enqueue, workerVars
  <2>3. ASSUME NEW w \in Worker, NEW j \in Job, Claim(w, j)
        PROVE  Goal
    <3>1. CASE v = w
      BY <2>3, <3>1 DEF Claim, ClaimStep
    <3>2. CASE v # w
      BY <2>1, <2>3, <3>2, BusyHasJob DEF Claim, ClaimStep
    <3>3. QED
      BY <3>1, <3>2
  <2>4. ASSUME NEW w \in Worker, HandlerCommits(w)
        PROVE  Goal
    <3>1. pc[v] \in Busy /\ job[v] \in Job
      BY <2>4, BusyHasJob DEF HandlerCommits
    <3>2. attempts'[job[v]] = attempts[job[v]]
      BY <2>4, <3>1 DEF HandlerCommits, EnqueueAll, Inserted, HeldRow
    <3>3. QED
      BY <2>1, <2>4, <3>1, <3>2 DEF HandlerCommits
  <2>5. ASSUME NEW w \in Worker, HandlerRaises(w) \/ CompleteRaises(w)
        PROVE  Goal
    BY <2>1, <2>5, BusyHasJob DEF HandlerRaises, CompleteRaises, rowVars
  <2>6. ASSUME NEW w \in Worker, Complete(w)
        PROVE  Goal
    BY <2>1, <2>6, BusyHasJob DEF Complete
  <2>7. ASSUME NEW w \in Worker, Fail(w)
        PROVE  Goal
    <3>1. /\ pc' = [pc EXCEPT ![w] = "idle"] /\ job' = [job EXCEPT ![w] = NoJob]
          /\ seen' = [seen EXCEPT ![w] = 0] /\ UNCHANGED attempts
      BY <2>7, Zenon DEF Fail
    <3>2. QED
      BY <2>1, <3>1, BusyHasJob
  <2>8. ASSUME NEW w \in Worker, Start(w) \/ Stop(w)
        PROVE  Goal
    BY <2>1, <2>8, BusyHasJob DEF Start, Stop, rowVars
  <2>9. ASSUME NEW w \in Worker, Crash(w)
        PROVE  Goal
    BY <2>1, <2>9, BusyHasJob DEF Crash, rowVars
  <2>10. CASE TimePasses \/ UNCHANGED vars
    BY <2>1, <2>10, BusyHasJob DEF TimePasses, vars, rowVars, workerVars
  <2>11. QED
    BY <2>2, <2>3, <2>4, <2>5, <2>6, <2>7, <2>8, <2>9, <2>10 DEF Next, Work
<1>3. QED
  BY <1>1, <1>2, TypeCorrect, PTL DEF Spec

(* Follow-up jobs exist exactly when a handler that enqueues them has      *)
(* committed (Outbox).                                                     *)
THEOREM OutboxHolds == Spec => []Outbox
<1>1. Init => Outbox
  BY DEF Init, Outbox
<1>2. TypeOK /\ HeldRow /\ Outbox /\ [Next]_vars => Outbox'
  <2> SUFFICES ASSUME TypeOK, HeldRow, Outbox, [Next]_vars
               PROVE  Outbox'
    OBVIOUS
  <2> USE ConstantTypes DEF TypeOK
  <2>1. ASSUME NEW j \in Job, ran'[j] > 0, NEW k \in Follow[j]
        PROVE  state'[k] # "absent"
    <3>1. k \in Job
      OBVIOUS
    <3>2. CASE ran[j] > 0
      BY <3>1, <3>2, RowsAppear DEF Outbox
    <3>3. CASE ~(ran[j] > 0)
      <4>1. PICK w \in Worker : HandlerCommits(w) /\ job[w] = j
        BY <2>1, <3>3, CommitStep
      <4>2. QED
        BY <3>1, <4>1 DEF HandlerCommits, EnqueueAll, Inserted
    <3>4. QED
      BY <3>2, <3>3
  <2>2. ASSUME NEW k \in Job \ Root, state'[k] # "absent"
        PROVE  \E j \in Job : k \in Follow[j] /\ ran'[j] > 0
    <3>1. CASE state[k] # "absent"
      <4>1. PICK j \in Job : k \in Follow[j] /\ ran[j] > 0
        BY <3>1 DEF Outbox
      <4>2. ran'[j] >= ran[j] /\ ran'[j] \in Nat
        BY RowsAppear, TypeCorrectStep
      <4>3. QED
        BY <4>1, <4>2
    <3>2. CASE state[k] = "absent"
      <4>1. \A w \in Worker : ~Holds(w, k)
        BY <3>2 DEF HeldRow, Holds
      <4>2. PICK w \in Worker : HandlerCommits(w) /\ k \in Follow[job[w]]
        BY <2>2, <3>2, <4>1, RowsAppear
      <4>3. job[w] \in Job
        BY <4>2, BusyHasJob DEF HandlerCommits
      <4>4. ran'[job[w]] = ran[job[w]] + 1
        BY <4>2, <4>3 DEF HandlerCommits
      <4>5. QED
        BY <4>2, <4>3, <4>4
    <3>3. QED
      BY <3>1, <3>2
  <2>3. QED
    BY <2>1, <2>2 DEF Outbox
<1>3. QED
  BY <1>1, <1>2, TypeCorrect, HeldRowInvariant, PTL DEF Spec

(* A dead row has used up its attempts, and a dead fetch has degraded its  *)
(* source (DeadOnlyWhenSpent).                                             *)
THEOREM DeadLetterHolds == Spec => []DeadOnlyWhenSpent
<1>1. Init => DeadOnlyWhenSpent
  BY DEF Init, DeadOnlyWhenSpent
<1>2. TypeOK /\ HeldRow /\ DeadOnlyWhenSpent /\ [Next]_vars => DeadOnlyWhenSpent'
  <2> SUFFICES ASSUME TypeOK, HeldRow, DeadOnlyWhenSpent, [Next]_vars,
                      NEW j \in Job, state'[j] = "dead"
               PROVE  /\ attempts'[j] >= MaxAttempts
                      /\ j \in FetchJob => j \in degraded'
    BY DEF DeadOnlyWhenSpent
  <2> DEFINE Goal == /\ attempts'[j] >= MaxAttempts
                     /\ j \in FetchJob => j \in degraded'
  <2> USE ConstantTypes DEF TypeOK
  <2>1. ASSUME state[j] = "dead", attempts'[j] = attempts[j], degraded \subseteq degraded'
        PROVE  Goal
    BY <2>1 DEF DeadOnlyWhenSpent
  <2>2. ASSUME NEW k \in Job, Enqueue(k)
        PROVE  Goal
    BY <2>1, <2>2 DEF Enqueue, EnqueueAll, Inserted
  <2>3. ASSUME NEW w \in Worker, NEW k \in Job, Claim(w, k)
        PROVE  Goal
    BY <2>1, <2>3 DEF Claim, ClaimStep
  <2>4. ASSUME NEW w \in Worker, HandlerCommits(w)
        PROVE  Goal
    BY <2>1, <2>4 DEF HandlerCommits, EnqueueAll, Inserted
  <2>5. ASSUME NEW w \in Worker, Complete(w)
        PROVE  Goal
    BY <2>1, <2>5 DEF Complete
  <2>6. ASSUME NEW w \in Worker, Fail(w)
        PROVE  Goal
    <3>1. pc[w] = "failing" /\ attempts' = attempts
      BY <2>6, Zenon DEF Fail
    <3>2. job[w] \in Job /\ attempts[job[w]] >= seen[w] + 1
      BY <3>1, BusyHasJob DEF HeldRow
    <3>3. CASE LastAttempt(w)
      <4>1. /\ state' = [state EXCEPT ![job[w]] = "dead"]
            /\ degraded' = degraded \cup ({job[w]} \cap FetchJob)
        BY <2>6, <3>3, Zenon DEF Fail
      <4>2. attempts[job[w]] >= MaxAttempts
        BY <3>2, <3>3 DEF LastAttempt
      <4>3. CASE j = job[w]
        BY <3>1, <4>1, <4>2, <4>3
      <4>4. CASE j # job[w]
        BY <2>1, <3>1, <4>1, <4>4
      <4>5. QED
        BY <4>3, <4>4
    <3>4. CASE ~LastAttempt(w)
      <4>1. state' = [state EXCEPT ![job[w]] = "queued"] /\ degraded' = degraded
        BY <2>6, <3>4, Zenon DEF Fail
      <4>2. QED
        BY <2>1, <3>1, <4>1
    <3>5. QED
      BY <3>3, <3>4
  <2>7. ASSUME NEW w \in Worker, Start(w)
        PROVE  Goal
    BY <2>1, <2>7 DEF Start
  <2>8. CASE \E w \in Worker : HandlerRaises(w) \/ CompleteRaises(w) \/ Stop(w) \/ Crash(w)
    BY <2>1, <2>8 DEF HandlerRaises, CompleteRaises, Stop, Crash, rowVars
  <2>9. CASE TimePasses \/ UNCHANGED vars
    BY <2>1, <2>9 DEF TimePasses, vars, rowVars
  <2>10. QED
    BY <2>2, <2>3, <2>4, <2>5, <2>6, <2>7, <2>8, <2>9 DEF Next, Work
<1>3. QED
  BY <1>1, <1>2, TypeCorrect, HeldRowInvariant, PTL DEF Spec

-----------------------------------------------------------------------------
(***************************************************************************)
(* The budget of claims.  A claim is one of a row that was enqueued,       *)
(* reclaimed, or failed by a worker whose snapshot was not the last one;   *)
(* there is at most one claim with each of these snapshots.  So what a row *)
(* may still be claimed is the row itself while it is not running, the     *)
(* workers that may still requeue it, and the snapshots not yet seen.      *)
(***************************************************************************)
MayRequeue(j) == {w \in Worker : job[w] = j /\ seen[w] + 1 < MaxAttempts}

Open(j) == IF state[j] \in {"absent", "queued"} THEN 1 ELSE 0

Unseen(j) == IF attempts[j] + 1 < MaxAttempts THEN MaxAttempts - 1 - attempts[j] ELSE 0

Budget(j) ==
  attempts[j] + Open(j) + Cardinality(MayRequeue(j)) + Unseen(j) <= MaxAttempts + reclaimed[j]

LEMMA RequeueType ==
  ASSUME NEW j
  PROVE  IsFiniteSet(MayRequeue(j)) /\ Cardinality(MayRequeue(j)) \in Nat
BY ConstantTypes, FS_Subset, FS_CardinalityType DEF MayRequeue

LEMMA RequeueNextType ==
  ASSUME NEW j
  PROVE  IsFiniteSet(MayRequeue(j)') /\ Cardinality(MayRequeue(j)') \in Nat
BY ConstantTypes, FS_Subset, FS_CardinalityType DEF MayRequeue

(* A step that opens a row no more often than it takes a worker from those *)
(* that may requeue it, or than it is reclaimed, stays in the budget.      *)
LEMMA BudgetKept ==
  ASSUME TypeOK, TypeOK', NEW j \in Job, Budget(j),
         attempts'[j] = attempts[j] \/ (state[j] = "absent" /\ attempts'[j] = 0),
         Open(j)' + Cardinality(MayRequeue(j)') + reclaimed[j]
           <= Open(j) + Cardinality(MayRequeue(j)) + reclaimed'[j]
  PROVE  Budget(j)'
<1> DEFINE c == Cardinality(MayRequeue(j))
           d == Cardinality(MayRequeue(j)')
           a == attempts[j]
           b == attempts'[j]
           o == Open(j)
           p == Open(j)'
           r == reclaimed[j]
           q == reclaimed'[j]
           u == Unseen(j)
           v == Unseen(j)'
           M == MaxAttempts
<1>1. a \in Nat /\ b \in Nat /\ r \in Nat /\ q \in Nat /\ M \in Nat \ {0} /\ c \in Nat /\ d \in Nat
  BY ConstantTypes, RequeueType, RequeueNextType DEF TypeOK
<1>2. o \in 0..1 /\ p \in 0..1
  BY DEF Open
<1>3. a + o + c + u <= M + r /\ p + d + r <= o + c + q
  BY DEF Budget
<1>4. u = (IF a + 1 < M THEN M - 1 - a ELSE 0) /\ v = (IF b + 1 < M THEN M - 1 - b ELSE 0)
  BY DEF Unseen
<1>5. b = a \/ b = 0
  OBVIOUS
<1>6. Budget(j)' <=> b + p + d + v <= M + q
  BY DEF Budget
<1> HIDE DEF a, b, c, d, o, p, q, r, u, v, M
<1>7. b + v <= a + u /\ u \in Nat /\ v \in Nat
  BY <1>1, <1>4, <1>5
<1>8. b + p + d + v <= M + q
  BY <1>1, <1>2, <1>3, <1>7
<1> QED
  BY <1>6, <1>8

(* A worker that settles its job, or dies, is taken from those that may    *)
(* requeue it, if it was one of them.                                      *)
LEMMA RequeueTaken ==
  ASSUME TypeOK, NEW w \in Worker, pc[w] \in Busy,
         job' = [job EXCEPT ![w] = NoJob], seen' = [seen EXCEPT ![w] = 0], NEW j \in Job
  PROVE  /\ MayRequeue(j)' = MayRequeue(j) \ {w}
         /\ Cardinality(MayRequeue(j)') <= Cardinality(MayRequeue(j))
         /\ job[w] = j /\ ~LastAttempt(w) =>
              Cardinality(MayRequeue(j)') + 1 <= Cardinality(MayRequeue(j))
<1>1. MayRequeue(j)' = MayRequeue(j) \ {w}
  BY ConstantTypes DEF TypeOK, MayRequeue
<1>2. job[w] = j /\ ~LastAttempt(w) => w \in MayRequeue(j)
  BY ConstantTypes DEF TypeOK, MayRequeue, LastAttempt
<1>3. IsFiniteSet(MayRequeue(j)) /\ Cardinality(MayRequeue(j)) \in Nat
  BY RequeueType
<1>4. Cardinality(MayRequeue(j) \ {w}) =
        IF w \in MayRequeue(j) THEN Cardinality(MayRequeue(j)) - 1 ELSE Cardinality(MayRequeue(j))
  BY <1>3, FS_RemoveElement
<1> QED
  BY <1>1, <1>2, <1>3, <1>4

(* A row is claimed at most max_attempts times, and once more for each     *)
(* time it was reclaimed, whatever overran and failed late (ClaimBudget).  *)
THEOREM ClaimBudgetHolds == Spec => []ClaimBudget
<1> DEFINE Inv == \A j \in Job : Budget(j)
<1>1. Init => Inv
  <2> SUFFICES ASSUME Init, NEW j \in Job
               PROVE  Budget(j)
    OBVIOUS
  <2>1. MayRequeue(j) = {}
    BY ConstantTypes DEF Init, MayRequeue
  <2>2. Cardinality(MayRequeue(j)) = 0
    BY <2>1, FS_EmptySet
  <2> QED
    BY <2>2, ConstantTypes DEF Init, Budget, Open, Unseen
<1>2. TypeOK /\ Inv /\ [Next]_vars => Inv'
  <2> SUFFICES ASSUME TypeOK, Inv, [Next]_vars, NEW j \in Job
               PROVE  Budget(j)'
    OBVIOUS
  <2> USE ConstantTypes
  <2>t. TypeOK' /\ Budget(j) /\ Cardinality(MayRequeue(j)) \in Nat /\ reclaimed[j] \in Nat
    BY TypeCorrectStep, RequeueType DEF TypeOK
  <2>o. Open(j) \in 0..1 /\ Open(j)' \in 0..1
    BY DEF Open
  <2>1. ASSUME UNCHANGED <<job, seen, reclaimed>>, Open(j)' <= Open(j),
               attempts'[j] = attempts[j] \/ (state[j] = "absent" /\ attempts'[j] = 0)
        PROVE  Budget(j)'
    <3>1. MayRequeue(j)' = MayRequeue(j)
      BY <2>1 DEF MayRequeue
    <3>2. Open(j)' + Cardinality(MayRequeue(j)') + reclaimed[j]
            <= Open(j) + Cardinality(MayRequeue(j)) + reclaimed'[j]
      BY <2>1, <2>t, <2>o, <3>1
    <3> QED
      BY <2>1, <2>t, <3>2, BudgetKept
  <2>2. ASSUME NEW keys \in SUBSET Job, EnqueueAll(keys)
        PROVE  /\ Open(j)' <= Open(j)
               /\ attempts'[j] = attempts[j] \/ (state[j] = "absent" /\ attempts'[j] = 0)
    BY <2>2 DEF EnqueueAll, Inserted, Open
  <2>3. ASSUME NEW k \in Job, Enqueue(k)
        PROVE  Budget(j)'
    BY <2>1, <2>2, <2>3 DEF Enqueue, workerVars, history
  <2>4. ASSUME NEW w \in Worker, HandlerCommits(w)
        PROVE  Budget(j)'
    <3>1. Follow[job[w]] \in SUBSET Job
      BY <2>4, BusyHasJob DEF HandlerCommits
    <3> QED
      BY <2>1, <2>2, <2>4, <3>1 DEF HandlerCommits, history
  <2>5. ASSUME NEW w \in Worker, HandlerRaises(w) \/ CompleteRaises(w) \/ Stop(w)
        PROVE  Budget(j)'
    BY <2>1, <2>5, <2>o DEF HandlerRaises, CompleteRaises, Stop, rowVars, history, Open
  <2>6. CASE TimePasses \/ UNCHANGED vars
    BY <2>1, <2>6, <2>o DEF TimePasses, vars, rowVars, workerVars, history, Open
  <2>7. ASSUME NEW w \in Worker, pc[w] \in Busy,
               job' = [job EXCEPT ![w] = NoJob], seen' = [seen EXCEPT ![w] = 0],
               UNCHANGED <<attempts, reclaimed>>,
               Open(j)' <= Open(j) \/ (job[w] = j /\ ~LastAttempt(w))
        PROVE  Budget(j)'
    <3>1. Cardinality(MayRequeue(j)') \in Nat
      BY RequeueNextType
    <3>c. /\ Cardinality(MayRequeue(j)') <= Cardinality(MayRequeue(j))
          /\ job[w] = j /\ ~LastAttempt(w) =>
               Cardinality(MayRequeue(j)') + 1 <= Cardinality(MayRequeue(j))
      BY <2>7, RequeueTaken
    <3>2. Open(j)' + Cardinality(MayRequeue(j)') <= Open(j) + Cardinality(MayRequeue(j))
      <4>1. CASE Open(j)' <= Open(j)
        BY <2>t, <2>o, <3>1, <3>c, <4>1
      <4>2. CASE job[w] = j /\ ~LastAttempt(w)
        BY <2>t, <2>o, <3>1, <3>c, <4>2
      <4> QED
        BY <2>7, <4>1, <4>2
    <3>3. Open(j)' + Cardinality(MayRequeue(j)') + reclaimed[j]
            <= Open(j) + Cardinality(MayRequeue(j)) + reclaimed'[j]
      BY <2>7, <2>t, <2>o, <3>1, <3>2
    <3> QED
      BY <2>7, <2>t, <3>3, BudgetKept
  <2>8. ASSUME NEW w \in Worker, Crash(w)
        PROVE  Budget(j)'
    <3>1. Open(j)' <= Open(j)
      BY <2>8, <2>o DEF Crash, rowVars, Open
    <3> QED
      BY <2>7, <2>8, <3>1 DEF Crash, rowVars
  <2>9. ASSUME NEW w \in Worker, Complete(w)
        PROVE  Budget(j)'
    <3>1. Open(j)' <= Open(j)
      BY <2>9 DEF Complete, TypeOK, Open
    <3> QED
      BY <2>7, <2>9, <3>1 DEF Complete, history
  <2>10. ASSUME NEW w \in Worker, Fail(w)
         PROVE  Budget(j)'
    <3>1. Open(j)' <= Open(j) \/ (job[w] = j /\ ~LastAttempt(w))
      <4>1. CASE LastAttempt(w)
        BY <2>10, <4>1 DEF Fail, TypeOK, Open
      <4>2. CASE ~LastAttempt(w)
        <5>1. state' = [state EXCEPT ![job[w]] = "queued"]
          BY <2>10, <4>2, Zenon DEF Fail
        <5> QED
          BY <4>2, <5>1 DEF TypeOK, Open
      <4> QED
        BY <4>1, <4>2
    <3> QED
      BY <2>7, <2>10, <3>1 DEF Fail, history
  <2>11. ASSUME NEW w \in Worker, Start(w)
         PROVE  Budget(j)'
    <3>1. UNCHANGED <<attempts, job, seen>> /\ MayRequeue(j)' = MayRequeue(j)
      BY <2>11 DEF Start, MayRequeue
    <3>2. Open(j)' + reclaimed[j] <= Open(j) + reclaimed'[j]
      <4>1. CASE j \in Stale
        <5>1. reclaimed'[j] = reclaimed[j] + 1
          BY <2>11, <4>1 DEF Start
        <5> QED
          BY <2>t, <2>o, <5>1
      <4>2. CASE j \notin Stale
        BY <2>11, <2>t, <4>2 DEF Start, Open
      <4> QED
        BY <4>1, <4>2
    <3>3. Open(j)' + Cardinality(MayRequeue(j)') + reclaimed[j]
            <= Open(j) + Cardinality(MayRequeue(j)) + reclaimed'[j]
      <4>1. reclaimed'[j] \in Nat
        BY <2>t DEF TypeOK
      <4> QED
        BY <2>t, <2>o, <3>1, <3>2, <4>1
    <3> QED
      BY <2>t, <3>1, <3>3, BudgetKept
  <2>12. ASSUME NEW w \in Worker, NEW k \in Job, Claim(w, k)
         PROVE  Budget(j)'
    <3>1. /\ pc[w] = "idle" /\ state[k] = "queued" /\ reclaimed' = reclaimed
          /\ state' = [state EXCEPT ![k] = "running"]
          /\ attempts' = [attempts EXCEPT ![k] = attempts[k] + 1]
          /\ job' = [job EXCEPT ![w] = k] /\ seen' = [seen EXCEPT ![w] = attempts[k]]
      BY <2>12 DEF Claim, ClaimStep, Claimable, history
    <3>2. job[w] = NoJob /\ w \notin MayRequeue(j)
      BY <3>1 DEF TypeOK, MayRequeue
    <3>3. CASE j # k
      <4>1. MayRequeue(j)' = MayRequeue(j)
        BY <3>1, <3>2, <3>3 DEF TypeOK, MayRequeue
      <4>2. Open(j)' = Open(j) /\ attempts'[j] = attempts[j]
        BY <3>1, <3>3 DEF TypeOK, Open
      <4> QED
        BY <2>t, <2>o, <3>1, <4>1, <4>2, BudgetKept
    <3>4. CASE j = k
      <4> DEFINE a == attempts[j]
                 c == Cardinality(MayRequeue(j))
                 d == Cardinality(MayRequeue(j)')
                 M == MaxAttempts
                 r == reclaimed[j]
      <4>1. a \in Nat /\ attempts'[j] = a + 1 /\ reclaimed'[j] = r /\ Open(j) = 1 /\ Open(j)' = 0
        BY <3>1, <3>4 DEF TypeOK, Open
      <4>2. MayRequeue(j)' = IF a + 1 < M THEN MayRequeue(j) \cup {w} ELSE MayRequeue(j)
        BY <3>1, <3>2, <3>4 DEF TypeOK, MayRequeue
      <4>3. Cardinality(MayRequeue(j) \cup {w}) = c + 1
        BY <3>2, RequeueType, FS_AddElement
      <4>4. d = IF a + 1 < M THEN c + 1 ELSE c
        BY <4>2, <4>3
      <4>5. a + 1 + c + (IF a + 1 < M THEN M - 1 - a ELSE 0) <= M + r
        BY <2>t, <4>1 DEF Budget, Unseen
      <4>6. Budget(j)' <=> (a + 1) + 0 + d + (IF (a + 1) + 1 < M THEN M - 1 - (a + 1) ELSE 0) <= M + r
        BY <4>1 DEF Budget, Unseen
      <4>7. c \in Nat /\ r \in Nat /\ M \in Nat \ {0}
        BY <2>t
      <4> HIDE DEF a, c, d, M, r
      <4>8. (a + 1) + 0 + d + (IF (a + 1) + 1 < M THEN M - 1 - (a + 1) ELSE 0) <= M + r
        BY <4>1, <4>4, <4>5, <4>7
      <4> QED
        BY <4>6, <4>8
    <3> QED
      BY <3>3, <3>4
  <2> QED
    BY <2>3, <2>4, <2>5, <2>6, <2>8, <2>9, <2>10, <2>11, <2>12 DEF Next, Work
<1>3. TypeOK /\ Inv => ClaimBudget
  <2> SUFFICES ASSUME TypeOK, NEW j \in Job, Budget(j)
               PROVE  attempts[j] <= MaxAttempts + reclaimed[j]
    BY DEF ClaimBudget
  <2>1. Open(j) \in Nat /\ Unseen(j) \in Nat /\ Cardinality(MayRequeue(j)) \in Nat
    BY ConstantTypes, RequeueType DEF TypeOK, Open, Unseen
  <2> QED
    BY <2>1, ConstantTypes DEF TypeOK, Budget
<1> QED
  BY <1>1, <1>2, <1>3, TypeCorrect, PTL DEF Spec

(* Retries end, with the budget spent and no more (RetriesBounded).        *)
THEOREM RetriesBoundedHolds == Spec => []RetriesBounded
<1>1. ClaimBudget /\ DeadOnlyWhenSpent => RetriesBounded
  BY DEF RetriesBounded
<1> QED
  BY <1>1, ClaimBudgetHolds, DeadLetterHolds, PTL

-----------------------------------------------------------------------------
(***************************************************************************)
(* Refinement: a queue none of whose runs overrun implements JobContract.  *)
(***************************************************************************)
Phase == [j \in Job |-> IF state[j] \in {"queued", "running"} THEN "pending"
                        ELSE state[j]]

Ran == {j \in Job : ran[j] > 0}

(* Claiming, requeueing and reclaiming are invisible in the contract.      *)
LEMMA PhaseUnchanged ==
  ASSUME \A j \in Job : state'[j] = state[j] \/ {state[j], state'[j]} = {"queued", "running"}
  PROVE  Phase' = Phase
<1>1. \A j \in Job : Phase'[j] = Phase[j]
  BY DEF Phase
<1>2. QED
  BY <1>1 DEF Phase

(* Every step of a queue without overruns is a step of the contract, or    *)
(* changes nothing the contract speaks of.                                 *)
LEMMA ContractStep ==
  TypeOK /\ OwnRow /\ HeldRow /\ Ledger /\ overran = {} /\ [Next]_vars
    => [Contract!Next]_Contract!vars
<1> SUFFICES ASSUME TypeOK, OwnRow, HeldRow, Ledger, overran = {}, [Next]_vars
             PROVE  \/ \E J \in SUBSET Root : Contract!Submit(J)
                    \/ \E j \in Job : Contract!Run(j) \/ Contract!Finish(j) \/ Contract!GiveUp(j)
                    \/ Phase' = Phase /\ Ran' = Ran
  BY DEF Contract!Next, Contract!vars, Phase, Ran
<1> DEFINE Goal ==
             \/ \E J \in SUBSET Root : Contract!Submit(J)
             \/ \E j \in Job : Contract!Run(j) \/ Contract!Finish(j) \/ Contract!GiveUp(j)
             \/ Phase' = Phase /\ Ran' = Ran
<1>0. ran' = ran => Ran' = Ran
  BY DEF Ran
<1> USE ConstantTypes DEF TypeOK
<1>1. ASSUME NEW w \in Worker, pc[w] \in Busy
      PROVE  job[w] \in Job /\ state[job[w]] = "running" /\ Phase[job[w]] = "pending"
  BY <1>1, BusyHasJob DEF OwnRow, Holds, Phase
<1>2. ASSUME NEW k \in Job, Enqueue(k)
      PROVE  Goal
  <2>1. CASE state[k] = "absent"
    <3>1. /\ state' = [j \in Job |-> IF j = k THEN "queued" ELSE state[j]]
          /\ ran' = ran /\ k \in Root
      BY <1>2, <2>1 DEF Enqueue, EnqueueAll, Inserted
    <3>2. Phase' = [j \in Job |-> IF j \in {k} /\ Phase[j] = "absent" THEN "pending" ELSE Phase[j]]
      BY <2>1, <3>1 DEF Phase
    <3>3. Contract!Submit({k})
      BY <1>0, <3>1, <3>2 DEF Contract!Submit, Contract!With, Phase, Ran
    <3>4. QED
      BY <3>1, <3>3
  <2>2. CASE state[k] # "absent"
    BY <1>0, <1>2, <2>2, PhaseUnchanged DEF Enqueue, EnqueueAll, Inserted
  <2>3. QED
    BY <2>1, <2>2
<1>3. ASSUME NEW w \in Worker, NEW k \in Job, Claim(w, k)
      PROVE  Goal
  BY <1>0, <1>3, PhaseUnchanged DEF Claim, ClaimStep, Claimable
<1>4. ASSUME NEW w \in Worker, NEW k \in Job, job[w] = k, HandlerCommits(w)
      PROVE  Goal
  <2>1. job[w] \in Job /\ Phase[job[w]] = "pending"
    BY <1>1, <1>4 DEF HandlerCommits
  <2>2. Ran' = Ran \cup {k}
    <3>1. ran' = [ran EXCEPT ![k] = @ + 1] /\ k \in Job
      BY <1>4, <2>1 DEF HandlerCommits
    <3> QED
      BY <3>1 DEF Ran
  <2>3. Phase' = [j \in Job |-> IF j \in Follow[k] /\ Phase[j] = "absent"
                               THEN "pending" ELSE Phase[j]]
    BY <1>4, <2>1 DEF HandlerCommits, EnqueueAll, Inserted, Phase
  <2>4. Contract!Run(k)
    BY <1>4, <2>1, <2>2, <2>3 DEF Contract!Run, Contract!With, Phase, Ran
  <2>5. QED
    BY <2>1, <2>4
<1>5. ASSUME NEW w \in Worker, NEW k \in Job, job[w] = k, Complete(w)
      PROVE  Goal
  <2>1. job[w] \in Job /\ Phase[job[w]] = "pending"
    BY <1>1, <1>5 DEF Complete
  <2>2. Ran' = Ran /\ job[w] \in Ran
    BY <1>0, <1>5, <2>1 DEF Complete, Ledger, Ran
  <2>3. Phase' = [Phase EXCEPT ![job[w]] = "done"]
    BY <1>5, <2>1 DEF Complete, Phase
  <2>4. Contract!Finish(k)
    BY <1>5, <2>1, <2>2, <2>3 DEF Contract!Finish, Phase, Ran
  <2>5. QED
    BY <2>1, <2>4
<1>6. ASSUME NEW w \in Worker, NEW k \in Job, job[w] = k, Fail(w)
      PROVE  Goal
  <2>1. /\ pc[w] = "failing" /\ ran' = ran
        /\ \/ state' = [state EXCEPT ![job[w]] = "dead"]
           \/ state' = [state EXCEPT ![job[w]] = "queued"]
    BY <1>6, Zenon DEF Fail
  <2>2. job[w] \in Job /\ state[job[w]] = "running" /\ Phase[job[w]] = "pending"
    BY <1>1, <2>1
  <2>3. CASE state' = [state EXCEPT ![job[w]] = "dead"]
    <3>1. Phase' = [Phase EXCEPT ![job[w]] = "dead"]
      BY <2>2, <2>3 DEF Phase
    <3>2. Contract!GiveUp(k)
      BY <1>0, <1>6, <2>1, <2>2, <3>1 DEF Contract!GiveUp, Phase, Ran
    <3>3. QED
      BY <2>2, <3>2
  <2>4. CASE state' = [state EXCEPT ![job[w]] = "queued"]
    BY <1>0, <2>1, <2>2, <2>4, PhaseUnchanged
  <2>5. QED
    BY <2>1, <2>3, <2>4
<1>7. ASSUME NEW w \in Worker, Start(w)
      PROVE  Goal
  BY <1>0, <1>7, PhaseUnchanged DEF Start, Stale
<1>8. CASE \E w \in Worker : HandlerRaises(w) \/ CompleteRaises(w) \/ Stop(w) \/ Crash(w)
  BY <1>0, <1>8, PhaseUnchanged DEF HandlerRaises, CompleteRaises, Stop, Crash, rowVars
<1>9. CASE TimePasses \/ UNCHANGED vars
  BY <1>0, <1>9, PhaseUnchanged DEF TimePasses, vars, rowVars
<1>10. ASSUME NEW w \in Worker, HandlerCommits(w) \/ Complete(w) \/ Fail(w)
       PROVE  Goal
  <2>1. pc[w] \in Busy
    BY <1>10, Zenon DEF HandlerCommits, Complete, Fail
  <2>2. PICK k \in Job : job[w] = k
    BY <1>1, <2>1
  <2>3. QED
    BY <1>4, <1>5, <1>6, <1>10, <2>2
<1>11. QED
  BY <1>2, <1>3, <1>7, <1>8, <1>9, <1>10 DEF Next, Work

(* A queue none of whose runs outlasts STALE_RUNNING_AFTER implements      *)
(* JobContract (KeepsContract).                                            *)
THEOREM QueueKeepsContract == PromptSpec => KeepsContract
<1>1. PromptSpec => Spec
  <2>1. [Next /\ Prompt]_vars => [Next]_vars
    OBVIOUS
  <2>2. QED
    BY <2>1, PTL DEF PromptSpec, Spec
<1>2. PromptSpec => [](overran = {})
  <2>1. Init => overran = {}
    BY DEF Init
  <2>2. overran = {} /\ [Next /\ Prompt]_vars => (overran = {})'
    BY DEF Prompt, vars, history
  <2>3. QED
    BY <2>1, <2>2, PTL DEF PromptSpec
<1>3. Init => Contract!Init
  BY DEF Init, Contract!Init
<1>4. QED
  BY <1>1, <1>2, <1>3, ContractStep, TypeCorrect, OwnRowInvariant, HeldRowInvariant,
     LedgerInvariant, PTL DEF Spec, PromptSpec, Contract!Spec, KeepsContract
=============================================================================
