------------------------------- MODULE JobQueue -------------------------------
(***************************************************************************)
(* The Postgres job queue (queue.py) and the worker loop that drains it    *)
(* (worker.py).  A row is one job, known by its idempotency key.  Every    *)
(* action is one database transaction, or what a worker process does       *)
(* between two of them.                                                    *)
(*                                                                         *)
(* Time is relative: a row keeps how long it still has to wait (run_at     *)
(* minus now) and for how long it has been locked (now minus locked_at),   *)
(* and TimePasses moves both by one unit.                                  *)
(***************************************************************************)
EXTENDS Integers, Sequences, FiniteSets

CONSTANTS
  Worker,       \* worker processes
  Job,          \* idempotency keys, kind:entity:version
  NoWorker,     \* locked_by of a row nobody holds
  NoJob,        \* what an idle worker is working on
  Root,         \* jobs that schedulers, the API or the CLI enqueue
  Follow,       \* the jobs that a job's handler enqueues in its transaction
  Serves,       \* the jobs of the kinds a worker was started for (--kinds)
  FetchJob,     \* the jobs of kind source.fetch
  MaxAttempts,  \* max_attempts of every row
  Backoff,      \* RETRY_BACKOFF_SECONDS, in units of time
  StaleAfter,   \* STALE_RUNNING_AFTER, in units of time
  MaxBoots,     \* bound: process starts in a behaviour
  Overdue       \* bound: how far in the past run_at is remembered

ASSUME QueueAssumption ==
  /\ NoWorker \notin Worker /\ NoJob \notin Job /\ IsFiniteSet(Worker)
  /\ Root \subseteq Job /\ FetchJob \subseteq Job
  /\ Follow \in [Job -> SUBSET Job]
  /\ Serves \in [Worker -> SUBSET Job]
  /\ MaxAttempts \in Nat \ {0} /\ StaleAfter \in Nat
  /\ MaxBoots \in Nat /\ Overdue \in Nat
  /\ Backoff \in Seq(Nat) /\ Backoff # <<>>

VARIABLES
  \* the jobs table
  state,        \* "absent" until enqueued, then the column
  attempts, lockedBy,
  dueIn,        \* run_at - now
  lockedFor,    \* now - locked_at
  \* each worker process
  pc,           \* where process_one is
  job,          \* the claimed Job ...
  seen,         \* ... and its `attempts`, read when it was claimed
  \* what the code outside the queue can observe
  ran,          \* how many times a job's handler has committed
  degraded,     \* fetch jobs whose source record_fetch_failure marked degraded
  \* history, read by no action
  lost,         \* commits of a handler that `complete` did not follow
  reclaimed,    \* how many times a row was reclaimed
  overran,      \* jobs that a live worker held longer than StaleAfter
  boots         \* process starts so far

rowVars == <<state, attempts, lockedBy, dueIn, lockedFor>>
workerVars == <<pc, job, seen>>
history == <<lost, reclaimed, overran, boots>>
vars == <<rowVars, workerVars, ran, degraded, history>>

Busy == {"handling", "completing", "failing"}

(* A worker process is alive and between claiming j and settling it.       *)
Holds(w, j) == pc[w] \in Busy /\ job[w] = j

Held(j) == \E w \in Worker : Holds(w, j)

Init ==
  /\ state = [j \in Job |-> "absent"]
  /\ attempts = [j \in Job |-> 0]
  /\ lockedBy = [j \in Job |-> NoWorker]
  /\ dueIn = [j \in Job |-> 0]
  /\ lockedFor = [j \in Job |-> 0]
  /\ pc = [w \in Worker |-> "down"]
  /\ job = [w \in Worker |-> NoJob]
  /\ seen = [w \in Worker |-> 0]
  /\ ran = [j \in Job |-> 0]
  /\ degraded = {}
  /\ lost = [j \in Job |-> 0]
  /\ reclaimed = [j \in Job |-> 0]
  /\ overran = {}
  /\ boots = 0

-----------------------------------------------------------------------------
(* queue.enqueue for a set of keys: a row is inserted for each key that has *)
(* none; ON CONFLICT DO NOTHING leaves the others as they are.             *)
Inserted(keys) == {j \in keys : state[j] = "absent"}

EnqueueAll(keys) ==
  /\ state' = [j \in Job |-> IF j \in Inserted(keys) THEN "queued" ELSE state[j]]
  /\ attempts' = [j \in Job |-> IF j \in Inserted(keys) THEN 0 ELSE attempts[j]]
  /\ dueIn' = [j \in Job |-> IF j \in Inserted(keys) THEN 0 ELSE dueIn[j]]
  /\ UNCHANGED <<lockedBy, lockedFor>>

(* A scheduler tick, the webhook or the CLI enqueues a job.                *)
Enqueue(j) ==
  /\ j \in Root
  /\ EnqueueAll({j})
  /\ UNCHANGED <<workerVars, ran, degraded, history>>

-----------------------------------------------------------------------------
(* Variant: reclaim_stale without the age of the lock.                     *)
StaleAtOnce == {j \in Job : state[j] = "running"}

(* worker.run starts and, once, returns to the queue every row that has    *)
(* been running for longer than STALE_RUNNING_AFTER (reclaim_stale).       *)
Stale == {j \in Job : state[j] = "running" /\ lockedFor[j] > StaleAfter}

Start(w) ==
  /\ pc[w] = "down"
  /\ boots < MaxBoots
  /\ pc' = [pc EXCEPT ![w] = "idle"]
  /\ state' = [j \in Job |-> IF j \in Stale THEN "queued" ELSE state[j]]
  /\ lockedBy' = [j \in Job |-> IF j \in Stale THEN NoWorker ELSE lockedBy[j]]
  /\ reclaimed' = [j \in Job |-> IF j \in Stale THEN reclaimed[j] + 1
                                 ELSE reclaimed[j]]
  /\ boots' = boots + 1
  /\ UNCHANGED <<attempts, dueIn, lockedFor, job, seen, ran, degraded, lost,
                 overran>>

(* SIGTERM, or --once with nothing to run: the loop ends between two jobs. *)
Stop(w) ==
  /\ pc[w] = "idle"
  /\ pc' = [pc EXCEPT ![w] = "down"]
  /\ UNCHANGED <<rowVars, job, seen, ran, degraded, history>>

(* The process dies in the middle of a job: an open transaction rolls back,*)
(* a committed one stays.  An error of the transaction that runs `fail`    *)
(* leaves the loop, which is the same.                                     *)
Crash(w) ==
  /\ pc[w] \in Busy
  /\ pc' = [pc EXCEPT ![w] = "down"]
  /\ job' = [job EXCEPT ![w] = NoJob]
  /\ seen' = [seen EXCEPT ![w] = 0]
  /\ lost' = IF pc[w] = "completing" THEN [lost EXCEPT ![job[w]] = @ + 1] ELSE lost
  /\ UNCHANGED <<rowVars, ran, degraded, reclaimed, overran, boots>>

-----------------------------------------------------------------------------
(* Variant: the claim does not look at the state of the row.               *)
ClaimableInAnyState(w) ==
  {j \in Serves[w] : state[j] # "absent" /\ dueIn[j] <= 0}

(* queue.claim with limit 1: the due row of a served kind with the oldest  *)
(* run_at; the snapshot excludes the attempt that starts now.              *)
Claimable(w) ==
  {j \in Serves[w] : state[j] = "queued" /\ dueIn[j] <= 0}

ClaimStep(w, j, count, snapshot) ==
  /\ pc[w] = "idle"
  /\ j \in Claimable(w)
  /\ \A k \in Claimable(w) : dueIn[j] <= dueIn[k]
  /\ state' = [state EXCEPT ![j] = "running"]
  /\ lockedBy' = [lockedBy EXCEPT ![j] = w]
  /\ lockedFor' = [lockedFor EXCEPT ![j] = 0]
  /\ attempts' = [attempts EXCEPT ![j] = count]
  /\ pc' = [pc EXCEPT ![w] = "handling"]
  /\ job' = [job EXCEPT ![w] = j]
  /\ seen' = [seen EXCEPT ![w] = snapshot]
  /\ UNCHANGED <<dueIn, ran, degraded, history>>

(* Variants: the snapshot is taken one too low; attempts is not counted.   *)
ClaimSnapshotLow(w, j) == ClaimStep(w, j, attempts[j] + 1, attempts[j] - 1)

ClaimUncounted(w, j) == ClaimStep(w, j, attempts[j], attempts[j])

Claim(w, j) == ClaimStep(w, j, attempts[j] + 1, attempts[j])

(* The handler's transaction commits its effects and its follow-up jobs.   *)
HandlerCommits(w) ==
  /\ pc[w] = "handling"
  /\ ran' = [ran EXCEPT ![job[w]] = @ + 1]
  /\ EnqueueAll(Follow[job[w]])
  /\ pc' = [pc EXCEPT ![w] = "completing"]
  /\ UNCHANGED <<job, seen, degraded, history>>

(* Variant: the error is swallowed and the job completed.                  *)
HandlerErrorSwallowed(w) ==
  /\ pc[w] = "handling"
  /\ pc' = [pc EXCEPT ![w] = "completing"]
  /\ UNCHANGED <<rowVars, job, seen, ran, degraded, history>>

(* The handler raises, as the one for kinds without a handler always does:  *)
(* its transaction rolls back.                                             *)
HandlerRaises(w) ==
  /\ pc[w] = "handling"
  /\ pc' = [pc EXCEPT ![w] = "failing"]
  /\ UNCHANGED <<rowVars, job, seen, ran, degraded, history>>

(* queue.complete, by id alone.                                            *)
Complete(w) ==
  /\ pc[w] = "completing"
  /\ state' = [state EXCEPT ![job[w]] = "done"]
  /\ lockedBy' = [lockedBy EXCEPT ![job[w]] = NoWorker]
  /\ pc' = [pc EXCEPT ![w] = "idle"]
  /\ job' = [job EXCEPT ![w] = NoJob]
  /\ seen' = [seen EXCEPT ![w] = 0]
  /\ UNCHANGED <<attempts, dueIn, lockedFor, ran, degraded, history>>

(* The transaction of `complete` raises inside the same try block.         *)
CompleteRaises(w) ==
  /\ pc[w] = "completing"
  /\ pc' = [pc EXCEPT ![w] = "failing"]
  /\ lost' = [lost EXCEPT ![job[w]] = @ + 1]
  /\ UNCHANGED <<rowVars, job, seen, ran, degraded, reclaimed, overran, boots>>

(* Variant: one attempt too many.                                          *)
LastAttemptLate(w) == seen[w] + 1 > MaxAttempts

(* queue.fail decides on the attempts read at the claim, not on the row's. *)
LastAttempt(w) == seen[w] + 1 >= MaxAttempts

RetryDelay(n) == Backoff[IF n < Len(Backoff) THEN n ELSE Len(Backoff)]

Fail(w) ==
  /\ pc[w] = "failing"
  /\ IF LastAttempt(w)
     THEN /\ state' = [state EXCEPT ![job[w]] = "dead"]
          /\ degraded' = degraded \cup ({job[w]} \cap FetchJob)
          /\ UNCHANGED dueIn
     ELSE /\ state' = [state EXCEPT ![job[w]] = "queued"]
          /\ dueIn' = [dueIn EXCEPT ![job[w]] = RetryDelay(seen[w] + 1)]
          /\ UNCHANGED degraded
  /\ lockedBy' = [lockedBy EXCEPT ![job[w]] = NoWorker]
  /\ pc' = [pc EXCEPT ![w] = "idle"]
  /\ job' = [job EXCEPT ![w] = NoJob]
  /\ seen' = [seen EXCEPT ![w] = 0]
  /\ UNCHANGED <<attempts, lockedFor, ran, history>>

-----------------------------------------------------------------------------
(* now() advances by one unit.  run_at is remembered Overdue units back,   *)
(* locked_at until it is stale.                                            *)
TimePasses ==
  /\ dueIn' = [j \in Job |-> IF state[j] \in {"queued", "running"}
                               /\ dueIn[j] > -Overdue
                             THEN dueIn[j] - 1 ELSE dueIn[j]]
  /\ lockedFor' = [j \in Job |-> IF state[j] = "running"
                                    /\ lockedFor[j] <= StaleAfter
                                 THEN lockedFor[j] + 1 ELSE lockedFor[j]]
  /\ overran' = overran \cup {j \in Job : Held(j) /\ lockedFor'[j] > StaleAfter}
  /\ UNCHANGED <<state, attempts, lockedBy, workerVars, ran, degraded, lost,
                 reclaimed, boots>>

(* What a worker process does by itself, job after job.                    *)
Work(w) ==
  \/ \E j \in Job : Claim(w, j)
  \/ HandlerCommits(w)
  \/ HandlerRaises(w)
  \/ Complete(w)
  \/ CompleteRaises(w)
  \/ Fail(w)

Next ==
  \/ \E j \in Job : Enqueue(j)
  \/ \E w \in Worker : Work(w)
  \/ \E w \in Worker : Start(w)
  \/ \E w \in Worker : Stop(w)
  \/ \E w \in Worker : Crash(w)
  \/ TimePasses

Spec == Init /\ [][Next]_vars

(* The behaviours in which no live worker holds a job for longer than      *)
(* STALE_RUNNING_AFTER, which is what reclaim_stale takes for granted.     *)
Prompt == overran' = {}

PromptSpec == Init /\ [][Next /\ Prompt]_vars

(* time.sleep ends, the database answers and a supervisor starts a worker  *)
(* that is down; nothing makes anyone enqueue, stop or crash.              *)
FairPromptSpec ==
  /\ PromptSpec
  /\ WF_vars(TimePasses /\ Prompt)
  /\ \A w \in Worker : WF_vars(Work(w)) /\ WF_vars(Start(w))

-----------------------------------------------------------------------------
(* The type of every variable.                                             *)
TypeOK ==
  /\ state \in [Job -> {"absent", "queued", "running", "done", "dead"}]
  /\ attempts \in [Job -> Nat]
  /\ lockedBy \in [Job -> Worker \cup {NoWorker}]
  /\ dueIn \in [Job -> Int]
  /\ lockedFor \in [Job -> Nat]
  /\ pc \in [Worker -> {"down", "idle"} \cup Busy]
  /\ job \in [Worker -> Job \cup {NoJob}]
  /\ \A w \in Worker : job[w] = NoJob <=> pc[w] \notin Busy
  /\ seen \in [Worker -> Nat]
  /\ ran \in [Job -> Nat]
  /\ degraded \subseteq FetchJob
  /\ lost \in [Job -> Nat]
  /\ reclaimed \in [Job -> Nat]
  /\ overran \subseteq Job
  /\ boots \in 0..MaxBoots

(* "Many workers can run concurrently ... without ever handing the same    *)
(* job to two of them" (queue.py): while no run of a job has outlasted     *)
(* STALE_RUNNING_AFTER, one worker holds it, and the row names that worker *)
(* - which is all that keeps `complete` and `fail`, which look at the id   *)
(* alone, from settling somebody else's run.                               *)
Exclusive ==
  \A j \in Job \ overran : \A w \in Worker :
    Holds(w, j) => /\ state[j] = "running"
                   /\ lockedBy[j] = w
                   /\ \A v \in Worker : Holds(v, j) => v = w

(* Retries are capped: a row is claimed at most max_attempts times, and at *)
(* most once more for each time reclaim_stale requeued it - even when a    *)
(* worker that was given up for dead fails the job late, with the attempt  *)
(* count of its own claim.                                                 *)
ClaimBudget == \A j \in Job : attempts[j] <= MaxAttempts + reclaimed[j]

(* The dead-letter state is reached only with the attempts spent, and the  *)
(* source of a dead fetch job has been marked degraded (worker.py: "must   *)
(* be visibly degraded, not quietly retried forever").                     *)
DeadOnlyWhenSpent ==
  \A j \in Job : state[j] = "dead" =>
    /\ attempts[j] >= MaxAttempts
    /\ j \in FetchJob => j \in degraded

(* Retries end: in the dead-letter state, with the budget spent and no     *)
(* more than that.                                                         *)
RetriesBounded == ClaimBudget /\ DeadOnlyWhenSpent

(* Handlers run at least once, and once more only for a cause: the effects *)
(* of a job are committed once for its completion and once for each commit *)
(* that a crash or a database error kept from being recorded.              *)
OnceUnlessLost ==
  \A j \in Job :
    /\ state[j] = "done" => ran[j] > 0
    /\ j \notin overran => ran[j] <= lost[j] + 1
    /\ j \notin overran /\ state[j] = "done" => ran[j] = lost[j] + 1

(* Enqueueing is transactional with the write that caused it (queue.py:    *)
(* neither "row committed, job lost" nor "job enqueued, row rolled back"): *)
(* the follow-up jobs of a committed handler exist, and a job that only    *)
(* handlers enqueue exists only if the handler of one of them committed.   *)
Outbox ==
  /\ \A j \in Job : ran[j] > 0 => \A k \in Follow[j] : state[k] # "absent"
  /\ \A k \in Job \ Root : state[k] # "absent" =>
       \E j \in Job : k \in Follow[j] /\ ran[j] > 0

(* A settled job stays settled: re-enqueueing its key, reclaiming and other*)
(* workers leave a done or dead row alone, unless a run of it overran.     *)
SettledIsFinal ==
  [][\A j \in Job : j \notin overran /\ state[j] \in {"done", "dead"}
       => state'[j] = state[j]]_vars

(* The abstract specification: queued and running rows are pending.        *)
Contract == INSTANCE JobContract WITH
  phase <- [j \in Job |-> IF state[j] \in {"queued", "running"} THEN "pending"
                          ELSE state[j]],
  ran <- {j \in Job : ran[j] > 0}

(* While no run overruns, the queue keeps the promise of JobContract.      *)
KeepsContract == Contract!Spec

(* A row whose worker died: running, and nobody is working on it.          *)
Stranded(j) == state[j] = "running" /\ ~Held(j)

(* Some worker that claims jobs of j's kind stays up from now on.          *)
Attended(j) == <>[](\E w \in Worker : pc[w] # "down" /\ j \in Serves[w])

(* Every job that was enqueued is done, dead-lettered or stranded in the   *)
(* end, as long as a worker for its kind stays up: retries, backoff and    *)
(* the order of claims starve no job.                                      *)
EventuallySettled ==
  \A j \in Job : Attended(j) =>
    (state[j] # "absent" ~> (state[j] \in {"done", "dead"} \/ Stranded(j)))
=============================================================================
