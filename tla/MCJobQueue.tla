----------------------------- MODULE MCJobQueue -----------------------------
(* JobQueue on a small instance: a fetch job that the scheduler enqueues,   *)
(* whose handler enqueues a normalisation job; one worker for every kind,   *)
(* one started with --kinds source.fetch.                                   *)
EXTENDS JobQueue, TLC

CONSTANTS fetch, normalize, w1, w2

MCJob == {fetch, normalize}
MCFollow == (fetch :> {normalize}) @@ (normalize :> {})
MCServes == (w1 :> MCJob) @@ (w2 :> {fetch})
MCBackoff == <<1, 2>>
=============================================================================
