----------------------------- MODULE JobContract -----------------------------
(***************************************************************************)
(* What the queue promises the code that enqueues: a job, once it exists,  *)
(* stays until it is done or dead-lettered; its handler's effects, and the *)
(* follow-up jobs it enqueues in the same transaction, are committed at    *)
(* least once before it is reported done; nothing happens to it later.     *)
(* No workers, locks, time or retries: JobQueue implements this, and the   *)
(* stages of Pipeline use it.                                              *)
(***************************************************************************)
CONSTANTS
  Job,      \* idempotency keys
  Root,     \* jobs that the scheduler, the API or the CLI enqueue
  Follow    \* the jobs a job's handler enqueues when it succeeds

VARIABLES
  phase,    \* "absent", "pending", "done" or "dead", per job
  ran       \* jobs whose handler has committed

vars == <<phase, ran>>

Init ==
  /\ phase = [j \in Job |-> "absent"]
  /\ ran = {}

(* Jobs that exist already stay as they are.                               *)
With(J) == [j \in Job |-> IF j \in J /\ phase[j] = "absent" THEN "pending" ELSE phase[j]]

(* One transaction enqueues the jobs J.                                    *)
Submit(J) ==
  /\ UNCHANGED ran
  /\ phase' = With(J)

(* The handler commits, and with it the jobs it enqueues.                  *)
Run(j) ==
  /\ phase[j] = "pending"
  /\ ran' = ran \cup {j}
  /\ phase' = With(Follow[j])

Finish(j) ==
  /\ phase[j] = "pending"
  /\ j \in ran
  /\ phase' = [phase EXCEPT ![j] = "done"]
  /\ UNCHANGED ran

GiveUp(j) ==
  /\ phase[j] = "pending"
  /\ phase' = [phase EXCEPT ![j] = "dead"]
  /\ UNCHANGED ran

Next ==
  \/ \E j \in Job : Run(j) \/ Finish(j) \/ GiveUp(j)
  \/ \E J \in SUBSET Root : Submit(J)

Spec == Init /\ [][Next]_vars
=============================================================================
