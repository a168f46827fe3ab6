-------------------------- MODULE MCDeadlineAlerts --------------------------
(* DeadlineAlerts with one tender, two of the four offsets and a deadline   *)
(* at most one day before the first of them.                               *)
EXTENDS DeadlineAlerts, TLC

CONSTANTS w1, w2, s1, s2
=============================================================================
