----------------------------- MODULE AlertOutbox -----------------------------
(***************************************************************************)
(* What the alerts of an organisation promise its team, whatever runs at   *)
(* the same time, fails or rolls back: an alert is raised once and for     *)
(* good, mailed only once it is raised, and marked as sent only once it is *)
(* mailed; and nobody is told that an alert went unread that was not sent. *)
(* DeadlineAlerts implements this.                                         *)
(***************************************************************************)
CONSTANTS
  Alert,
  Unread \* the alerts that each alert says went unread

VARIABLES raised, mailed, sent

vars == <<raised, mailed, sent>>

Init == raised = {} /\ mailed = {} /\ sent = {}

Raise(R) ==
  /\ \A r \in R : Unread[r] \subseteq sent
  /\ raised' = raised \cup R
  /\ UNCHANGED <<mailed, sent>>

Mail(r) ==
  /\ mailed' = mailed \cup {r}
  /\ UNCHANGED <<raised, sent>>

Mark(R) ==
  /\ sent' = sent \cup R
  /\ UNCHANGED <<raised, mailed>>

Next ==
  \/ \E R \in SUBSET (Alert \ raised) : Raise(R)
  \/ \E r \in raised : Mail(r)
  \/ \E R \in SUBSET mailed : Mark(R)

Spec == Init /\ [][Next]_vars
=============================================================================
