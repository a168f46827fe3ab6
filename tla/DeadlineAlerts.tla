---------------------------- MODULE DeadlineAlerts ----------------------------
(***************************************************************************)
(* The deadline alerts of one organisation (alerts.py) and their delivery  *)
(* (notify.py): transactions of notify.deadlines jobs raise rows of the    *)
(* notifications table, transactions of notify.send jobs mail them.  Any   *)
(* number of either may be open at once, each reads committed rows         *)
(* (Postgres READ COMMITTED), and any of them may roll back.               *)
(*                                                                         *)
(* One unit of time is a working day, so the J-n instant of a deadline has *)
(* come when n units or fewer are left; ESCALATION_AFTER is one unit, and  *)
(* no transaction lasts into the next unit.  Nothing in the code sets      *)
(* ack_at or moves a tender to the stages submitted and closed, so neither *)
(* happens here.                                                           *)
(***************************************************************************)
EXTENDS Integers, FiniteSets

CONSTANTS
  Tender,     \* notices that can be pursued: the tender of each
  Sweeper,    \* workers that run notify.deadlines
  Sender,     \* workers that run notify.send
  NoSource,   \* what a deadline alert, unlike an escalation, is raised for
  Offset,     \* DEADLINE_ALERT_OFFSETS
  Critical,   \* the offset that is escalated: J-3
  Horizon,    \* bound: working days ahead that a deadline can be
  MaxAmends,  \* bound: amendments that move a deadline
  MaxAborts,  \* bound: transactions rolled back
  MaxOutages  \* bound: times that mail stops being accepted

ASSUME AlertsAssumption ==
  /\ Horizon \in Nat /\ MaxAmends \in Nat
  /\ MaxAborts \in Nat /\ MaxOutages \in Nat
  /\ Offset \subseteq Nat \ {0} /\ Critical \in Offset /\ IsFiniteSet(Offset)
  /\ NoSource \notin Sweeper

Escalation == 0   \* the kind deadline.escalated, next to the offsets
Unpursued == -1   \* left[t] while t has no tender
EscalateAfter == 1

(* A row of notifications: the kind, the sweeper whose transaction inserted *)
(* it and, for an escalation, the inserter of the J-3 alert it is about.   *)
Alert == [tender : Tender, kind : Offset, by : Sweeper, about : {NoSource}]
           \cup
         [tender : Tender, kind : {Escalation}, by : Sweeper, about : Sweeper]

VARIABLES
  noticeLeft,  \* working days to the deadline of the notice
  left,        \* ... and of the tender
  rows,        \* committed rows of notifications
  sent,        \* those whose sent_at is set ...
  age,         \* ... and, for J-3 alerts, how many working days ago
  \* a transaction of each sweeper
  sweep,       \* "closed", "inserting" (due read), "escalating" (stale read)
  due,         \* the deadline alerts it inserts
  stale,       \* the escalations it inserts
  \* a transaction of each sender
  sending,     \* is it open
  todo,        \* pending rows it read and has yet to handle
  marked,      \* rows it delivered and set sent_at of
  smtp,        \* "up" or "down"
  \* history, read by no action
  copies,      \* transactions that mailed a row
  unmarked,    \* ... and then rolled back
  together,    \* rows that two open transactions both set out to mail
  raced,       \* <<tender, kind>> that two open sweeps both inserted
  sweeps,      \* full sweeps, one after the other, of a tender's present state
  counts,      \* tenders for which an open sweep counts as one of those
  amends, aborts, outages

sweepVars == <<sweep, due, stale>>
sendVars == <<sending, todo, marked>>
ledger == <<copies, unmarked, together>>
bounds == <<amends, aborts, outages>>
vars == <<noticeLeft, left, rows, sent, age, sweepVars, sendVars, smtp, ledger,
          raced, sweeps, counts, bounds>>

Init ==
  /\ noticeLeft \in [Tender -> 1..Horizon]
  /\ left = [t \in Tender |-> Unpursued]
  /\ rows = {} /\ sent = {}
  /\ age = [r \in Alert |-> 0]
  /\ sweep = [w \in Sweeper |-> "closed"]
  /\ due = [w \in Sweeper |-> {}]
  /\ stale = [w \in Sweeper |-> {}]
  /\ sending = [s \in Sender |-> FALSE]
  /\ todo = [s \in Sender |-> {}]
  /\ marked = [s \in Sender |-> {}]
  /\ smtp = "up"
  /\ copies = [r \in Alert |-> 0]
  /\ unmarked = [r \in Alert |-> 0]
  /\ together = {} /\ raced = {}
  /\ sweeps = [t \in Tender |-> 0]
  /\ counts = [w \in Sweeper |-> {}]
  /\ amends = 0 /\ aborts = 0 /\ outages = 0

-----------------------------------------------------------------------------
(* The present state of t changes: the sweeps that saw the old one, open or *)
(* not, no longer count.                                                   *)
Restart(T) ==
  /\ sweeps' = [t \in Tender |-> IF t \in T THEN 0 ELSE sweeps[t]]
  /\ counts' = [w \in Sweeper |-> counts[w] \ T]

(* The API's pursue creates the tender of a notice that has none, with the *)
(* notice's deadline; the tender of one that has stays as it is.           *)
Pursue(t) ==
  /\ left[t] = Unpursued
  /\ left' = [left EXCEPT ![t] = noticeLeft[t]]
  /\ Restart({t})
  /\ UNCHANGED <<noticeLeft, rows, sent, age, sweepVars, sendVars, smtp, ledger,
                 raced, bounds>>

(* upsert_notice stores an amended deadline; it does not look for a tender. *)
Amend(t, d) ==
  /\ amends < MaxAmends
  /\ noticeLeft' = [noticeLeft EXCEPT ![t] = d]
  /\ amends' = amends + 1
  /\ Restart({t})
  /\ UNCHANGED <<left, rows, sent, age, sweepVars, sendVars, smtp, ledger, raced,
                 aborts, outages>>

-----------------------------------------------------------------------------
Reached(t, o) == left[t] <= o

Raised(t, k) == \E r \in rows : r.tender = t /\ r.kind = k

(* Variants of NextOffset: already_sent is ignored; one alert that was     *)
(* raised before ends the search; the second furthest is looked for.       *)
NextOffsetAgain(t) ==
  {o \in Offset : Reached(t, o) /\ \A p \in Offset : Reached(t, p) => p <= o}

NextOffsetUnlessRaised(t) ==
  {o \in Offset : /\ Reached(t, o) /\ ~Raised(t, o)
                  /\ \A p \in Offset : Reached(t, p) => p <= o}

(* due_deadline_alerts: of a deadline still ahead, the furthest offset that *)
(* has been reached and not been raised - one, or none.                    *)
NextOffset(t) ==
  {o \in Offset : /\ Reached(t, o) /\ ~Raised(t, o)
                  /\ \A p \in Offset : Reached(t, p) /\ ~Raised(t, p) => p <= o}

(* run_deadline_alerts reads the open tenders and the rows raised so far.  *)
SweepReads(w) ==
  /\ sweep[w] = "closed"
  /\ sweep' = [sweep EXCEPT ![w] = "inserting"]
  /\ due' = [due EXCEPT ![w] =
       UNION {{[tender |-> t, kind |-> o, by |-> w, about |-> NoSource] :
                 o \in NextOffset(t)} : t \in {u \in Tender : left[u] > 0}}]
  /\ counts' = [counts EXCEPT ![w] = Tender]
  /\ UNCHANGED <<noticeLeft, left, rows, sent, age, stale, sendVars, smtp, ledger,
                 raced, sweeps, bounds>>

Topic(r) == <<r.tender, r.kind>>
Topics(R) == {Topic(r) : r \in R}

(* Variants: the alert must be two units old; the tender may have been     *)
(* escalated before.                                                       *)
StaleAlertsLate ==
  {r \in sent : /\ r.kind = Critical /\ age[r] > EscalateAfter + 1
                /\ ~Raised(r.tender, Escalation)}

StaleAlertsAgain == {r \in sent : r.kind = Critical /\ age[r] > EscalateAfter}

(* Variant: an alert that waits to be sent is unread, too.                 *)
StaleAlertsUnsent == {r \in rows : r.kind = Critical /\ ~Raised(r.tender, Escalation)}

(* The query of escalate_unacknowledged: J-3 alerts sent more than         *)
(* ESCALATION_AFTER ago, of tenders that have no escalation yet.           *)
StaleAlerts ==
  {r \in sent : /\ r.kind = Critical /\ age[r] > EscalateAfter
                /\ ~Raised(r.tender, Escalation)}

(* The rows are inserted, each with its notify.send job.  The job's key is *)
(* unique, so the insert of a second transaction for the same alert waits  *)
(* for the first to commit - and then goes on.  The same transaction then  *)
(* looks for alerts to escalate.                                           *)
SweepInserts(w) ==
  /\ sweep[w] = "inserting"
  /\ \A v \in Sweeper : sweep[v] = "escalating" =>
       Topics(due[v]) \cap Topics(due[w]) = {}
  /\ sweep' = [sweep EXCEPT ![w] = "escalating"]
  /\ stale' = [stale EXCEPT ![w] =
       {[tender |-> r.tender, kind |-> Escalation, by |-> w, about |-> r.by] :
          r \in StaleAlerts}]
  /\ UNCHANGED <<noticeLeft, left, rows, sent, age, due, counts, sendVars, smtp,
                 ledger, raced, sweeps, bounds>>

Closed(w) ==
  /\ sweep' = [sweep EXCEPT ![w] = "closed"]
  /\ due' = [due EXCEPT ![w] = {}]
  /\ stale' = [stale EXCEPT ![w] = {}]

Inserts(w) == due[w] \cup stale[w]

SweepCommits(w) ==
  /\ sweep[w] = "escalating"
  /\ rows' = rows \cup Inserts(w)
  /\ Closed(w)
  /\ raced' = raced \cup UNION {Topics(Inserts(w)) \cap Topics(Inserts(v)) :
                                  v \in Sweeper \ {w}}
  /\ sweeps' = [t \in Tender |->
       IF t \in counts[w] /\ sweeps[t] < Cardinality(Offset) THEN sweeps[t] + 1
       ELSE sweeps[t]]
  /\ counts' = [v \in Sweeper |-> IF v = w THEN {} ELSE counts[v] \ counts[w]]
  /\ UNCHANGED <<noticeLeft, left, sent, age, sendVars, smtp, ledger, bounds>>

SweepRollsBack(w) ==
  /\ sweep[w] # "closed"
  /\ aborts < MaxAborts
  /\ aborts' = aborts + 1
  /\ Closed(w)
  /\ counts' = [counts EXCEPT ![w] = {}]
  /\ UNCHANGED <<noticeLeft, left, rows, sent, age, sendVars, smtp, ledger, raced,
                 sweeps, amends, outages>>

-----------------------------------------------------------------------------
(* Variants: rows that are not committed are read; sent_at is not looked   *)
(* at; alerts about a deadline that has passed are left out.               *)
PendingUncommitted == (rows \ sent) \cup UNION {Inserts(w) : w \in Sweeper}

PendingOrSent == rows

PendingAndOpen == {r \in rows \ sent : left[r.tender] > 0}

(* The rows that run_notify_send selects.  LIMIT 100 is more than there are.*)
Pending == rows \ sent

Reading(s) == todo[s] \cup marked[s]

(* run_notify_send reads the pending rows of the org.  With none, or with  *)
(* nobody to notify, it does nothing.                                      *)
SendReads(s) ==
  /\ ~sending[s]
  /\ Pending # {}
  /\ sending' = [sending EXCEPT ![s] = TRUE]
  /\ todo' = [todo EXCEPT ![s] = Pending]
  /\ together' = together \cup (Pending \cap UNION {Reading(v) : v \in Sender \ {s}})
  /\ UNCHANGED <<noticeLeft, left, rows, sent, age, sweepVars, marked, smtp, copies,
                 unmarked, raced, sweeps, counts, bounds>>

(* ORDER BY created_at: of one tender, an offset is raised before the      *)
(* nearer ones and the escalation.  Other rows come in any order.          *)
Earliest(R) == {r \in R : \A q \in R : q.tender = r.tender => r.kind >= q.kind}

(* One row: it is mailed, and marked if the mail was accepted.  Which of   *)
(* the recipients accepted it is left out: one is enough.  So is the wait  *)
(* for the row's lock, which delays a second transaction and stops nothing.*)
Deliver(s, r) ==
  /\ r \in Earliest(todo[s])
  /\ todo' = [todo EXCEPT ![s] = @ \ {r}]
  /\ \/ /\ smtp = "up"
        /\ copies' = [copies EXCEPT ![r] = @ + 1]
        /\ marked' = [marked EXCEPT ![s] = @ \cup {r}]
     \/ /\ smtp = "down"
        /\ UNCHANGED <<copies, marked>>
  /\ UNCHANGED <<noticeLeft, left, rows, sent, age, sweepVars, sending, smtp,
                 unmarked, together, raced, sweeps, counts, bounds>>

Ended(s) ==
  /\ sending' = [sending EXCEPT ![s] = FALSE]
  /\ todo' = [todo EXCEPT ![s] = {}]
  /\ marked' = [marked EXCEPT ![s] = {}]

SendCommits(s) ==
  /\ sending[s] /\ todo[s] = {}
  /\ sent' = sent \cup marked[s]
  /\ age' = [r \in Alert |-> IF r \in marked[s] THEN 0 ELSE age[r]]
  /\ Ended(s)
  /\ UNCHANGED <<noticeLeft, left, rows, sweepVars, smtp, ledger, raced, sweeps,
                 counts, bounds>>

(* The process dies or the database fails: mail cannot be taken back.      *)
SendRollsBack(s) ==
  /\ sending[s]
  /\ aborts < MaxAborts
  /\ aborts' = aborts + 1
  /\ unmarked' = [r \in Alert |-> IF r \in marked[s] THEN unmarked[r] + 1
                                  ELSE unmarked[r]]
  /\ Ended(s)
  /\ UNCHANGED <<noticeLeft, left, rows, sent, age, sweepVars, smtp, copies, together,
                 raced, sweeps, counts, amends, outages>>

(* The mail server stops accepting mail, or accepts it again.              *)
Outage ==
  /\ \/ /\ smtp = "up" /\ outages < MaxOutages
        /\ smtp' = "down"
        /\ outages' = outages + 1
     \/ /\ smtp = "down"
        /\ smtp' = "up"
        /\ UNCHANGED outages
  /\ UNCHANGED <<noticeLeft, left, rows, sent, age, sweepVars, sendVars, ledger, raced,
                 sweeps, counts, amends, aborts>>

Sooner(n) == IF n > 0 THEN n - 1 ELSE n

DayPasses ==
  /\ \A w \in Sweeper : sweep[w] = "closed"
  /\ \A s \in Sender : ~sending[s]
  /\ noticeLeft' = [t \in Tender |-> Sooner(noticeLeft[t])]
  /\ left' = [t \in Tender |-> Sooner(left[t])]
  /\ age' = [r \in Alert |-> IF r \in sent /\ r.kind = Critical /\ age[r] <= EscalateAfter
                             THEN age[r] + 1 ELSE age[r]]
  /\ Restart(Tender)
  /\ UNCHANGED <<rows, sent, sweepVars, sendVars, smtp, ledger, raced, bounds>>

Sweep(w) == SweepReads(w) \/ SweepInserts(w) \/ SweepCommits(w)

Send(s) == SendReads(s) \/ (\E r \in Alert : Deliver(s, r)) \/ SendCommits(s)

Next ==
  \/ \E t \in Tender : Pursue(t)
  \/ \E t \in Tender, d \in 1..Horizon : Amend(t, d)
  \/ \E w \in Sweeper : Sweep(w)
  \/ \E w \in Sweeper : SweepRollsBack(w)
  \/ \E s \in Sender : Send(s)
  \/ \E s \in Sender : SendRollsBack(s)
  \/ Outage
  \/ DayPasses

Spec == Init /\ [][Next]_vars

(* The scheduler enqueues notify.deadlines and notify.send for ever, and   *)
(* workers run them (JobQueue); nothing else has to happen.                *)
FairSpec ==
  /\ Spec
  /\ \A w \in Sweeper : WF_vars(Sweep(w))
  /\ \A s \in Sender : WF_vars(Send(s))

-----------------------------------------------------------------------------
(* The type of every variable.                                             *)
TypeOK ==
  /\ noticeLeft \in [Tender -> 0..Horizon]
  /\ left \in [Tender -> {Unpursued} \cup 0..Horizon]
  /\ rows \subseteq Alert /\ sent \subseteq rows
  /\ age \in [Alert -> 0..(EscalateAfter + 1)]
  /\ sweep \in [Sweeper -> {"closed", "inserting", "escalating"}]
  /\ due \in [Sweeper -> SUBSET Alert] /\ stale \in [Sweeper -> SUBSET Alert]
  /\ sending \in [Sender -> BOOLEAN]
  /\ todo \in [Sender -> SUBSET rows] /\ marked \in [Sender -> SUBSET rows]
  /\ smtp \in {"up", "down"}
  /\ copies \in [Alert -> Nat] /\ unmarked \in [Alert -> Nat]
  /\ together \subseteq rows /\ raced \subseteq Topics(Alert)
  /\ sweeps \in [Tender -> 0..Cardinality(Offset)]
  /\ counts \in [Sweeper -> SUBSET Tender]
  /\ amends \in 0..MaxAmends /\ aborts \in 0..MaxAborts /\ outages \in 0..MaxOutages

(* The alerts that a deadline this near calls for.                         *)
Called(n) == {o \in Offset : n <= o}

(* ... and the one of them that matters most.                              *)
Nearest(n) == {o \in Called(n) : \A p \in Called(n) : o <= p}

(* Alerts are recomputed at each tick and cannot be lost ("missed-alert =  *)
(* worst product failure"): whatever else ran or rolled back meanwhile, as *)
(* many sweeps in a row as there are offsets reached have raised the       *)
(* nearest.  ADR-0012 and alerts.py have the first sweep raise that one,   *)
(* and no other; the code raises the further ones first, one per sweep, so *)
(* that the nearest comes last.                                            *)
RaisedInTime ==
  \A t \in Tender :
    left[t] > 0 /\ sweeps[t] >= Cardinality(Called(left[t])) =>
      \A o \in Nearest(left[t]) : Raised(t, o)

(* "A duplicate tick cannot double-send" (docs/DECISIONS.md), as far as it *)
(* goes: an alert has two rows only if two sweeps were open at once.       *)
RaisedOnceUnlessRaced ==
  \A q, r \in rows :
    q # r /\ Topic(q) = Topic(r) =>
      \/ Topic(r) \in raced
      \/ r.kind = Escalation /\ <<r.tender, Critical>> \in raced

(* A J-3 alert that was sent more than a day ago is escalated by the next  *)
(* sweep: "delivery is not the same as being read" (alerts.py).            *)
EscalatedInTime ==
  \A r \in sent :
    r.kind = Critical /\ age[r] > EscalateAfter /\ sweeps[r.tender] > 0 =>
      Raised(r.tender, Escalation)

(* No silent miss: sent_at is set only on alerts that were mailed.  And    *)
(* every other copy of an alert has a cause, a transaction that rolled     *)
(* back after it had mailed the alert, unless two transactions mailed it   *)
(* together.                                                               *)
MailedForCause ==
  \A r \in rows :
    /\ r \in sent => copies[r] > 0
    /\ r \notin together => copies[r] <= unmarked[r] + 1

(* An alert is sent in the end once mail is accepted, and however often    *)
(* delivery failed before: a row left NULL is retried (notify.py).         *)
DeliveredOnceMailWorks ==
  <>[](smtp = "up") => \A r \in Alert : r \in rows ~> r \in sent

(* The alert that an escalation repeats.                                   *)
Repeated(r) ==
  IF r.kind = Escalation
  THEN {[tender |-> r.tender, kind |-> Critical, by |-> r.about, about |-> NoSource]}
  ELSE {}

Outbox == INSTANCE AlertOutbox WITH
  Unread <- [r \in Alert |-> Repeated(r)],
  raised <- rows, mailed <- {r \in Alert : copies[r] > 0}

(* The outbox: rows and their mails never come apart.  Sweeps and senders  *)
(* work on what they read a while ago, and mail cannot be rolled back; yet *)
(* no row is mailed before it is committed or marked before it is mailed,  *)
(* and only an alert that was sent is escalated.                           *)
KeepsOutbox == Outbox!Spec

(* alerts.py: "a deadline that moves (which happens - that is what an      *)
(* amendment often is) therefore corrects itself": sweeps raise the alert  *)
(* that the deadline of the notice calls for most.                         *)
CorrectsItself ==
  \A t \in Tender :
    /\ left[t] # Unpursued /\ noticeLeft[t] > 0
    /\ sweeps[t] >= Cardinality(Called(noticeLeft[t]))
    => \A o \in Nearest(noticeLeft[t]) : Raised(t, o)
=============================================================================
