------------------------------- MODULE Digest -------------------------------
(***************************************************************************)
(* The daily digest (notify.py) of several organisations in their own time *)
(* zones, and the evidence freshness it counts (alerts.py).  The scheduler *)
(* enqueues a digest job for every hour and a freshness job now and then;  *)
(* a job runs when a worker comes to it, if need be hours later.           *)
(*                                                                         *)
(* A digest job is one READ COMMITTED transaction over all organisations,  *)
(* one step each: rows are committed or rolled back together, mail has     *)
(* left by then.  Of the text of a digest the model keeps whether there is *)
(* something to say.  notify.send is here only as far as it takes the rows *)
(* of the digest for alerts: DeadlineAlerts has its transactions.          *)
(***************************************************************************)
EXTENDS Integers, FiniteSets

CONSTANTS
  Org, Member, \* organisations; who each mails: org_members other than viewers
  Worker,
  None,        \* no job
  Zone,        \* hours by which the clock of an organisation is ahead
  HoursPerDay, SendHour,
  AlreadyHours, \* the interval in which a digest counts as today's
  FreshEvery,  \* PLATFORM_SCHEDULE: vault.freshness, in hours
  Expiry,      \* day on which the evidence of an organisation expires
  ExpiryWindow, \* ... and the days before that are called expiring
  \* bounds: hours, failures of a worker or of mail, hours a transaction is open
  MaxTime, MaxFailures, MaxOpen

ASSUME DigestAssumption ==
  /\ Zone \in [Org -> Nat] /\ Expiry \in [Org -> Nat]
  /\ HoursPerDay \in Nat \ {0} /\ SendHour \in Nat /\ AlreadyHours \in 1..HoursPerDay
  /\ FreshEvery \in Nat \ {0} /\ ExpiryWindow \in Nat
  /\ MaxTime \in Nat /\ MaxFailures \in Nat /\ MaxOpen \in 0..(HoursPerDay - 1)
  /\ IsFiniteSet(Org) /\ IsFiniteSet(Member)

Time == 0..MaxTime
Job == [kind : {"digest", "freshness"}, at : Time]

ASSUME NoneIsNoJob == None \notin Job

LocalHour(o, t) == (t + Zone[o]) % HoursPerDay
LocalDay(o, t) == (t + Zone[o]) \div HoursPerDay
Day(t) == t \div HoursPerDay

(* A row of notifications of kind digest.daily: created_at is the start of *)
(* the transaction.                                                        *)
Row == [org : Org, at : Time, by : Job]
About(r) == <<r.org, LocalDay(r.org, r.at)>>

VARIABLES
  now,
  fresh,     \* organisations that have matches in the state new
  status,    \* of the evidence: "valid", "expiring" or "expired"
  phase,     \* jobs: "absent", "pending" or "done"
  rows,      \* committed rows
  sent,      \* ... those whose sent_at is set
  \* a worker's transaction
  hand,      \* its job
  start,     \* when it began
  todo,      \* organisations it has not come to yet
  wrote,     \* rows it inserted
  spoke,     \* organisations that it found in their hour and with news
  \* history, read by no action
  digests,   \* digest mails, per row and member
  bare,      \* mails that notify.send made of a row, per row and member
  served,    \* organisations and days that a committed job found with news
  crowded,   \* ... whose digest two open transactions wrote
  undone,    \* ... whose digest was mailed and then rolled back
  failures

txn == <<hand, start, todo, wrote, spoke>>
mail == <<digests, bare>>
past == <<served, crowded, undone>>
vars == <<now, fresh, status, phase, rows, sent, txn, mail, past, failures>>

Init ==
  /\ now = 0
  /\ fresh \in SUBSET Org
  /\ status = [o \in Org |-> "valid"]
  /\ phase = [j \in Job |-> "absent"]
  /\ rows = {} /\ sent = {}
  /\ hand = [w \in Worker |-> None] /\ start = [w \in Worker |-> 0]
  /\ todo = [w \in Worker |-> {}] /\ wrote = [w \in Worker |-> {}]
  /\ spoke = [w \in Worker |-> {}]
  /\ digests = {} /\ bare = {}
  /\ served = {} /\ crowded = {} /\ undone = {}
  /\ failures = 0

-----------------------------------------------------------------------------
HourPasses ==
  /\ now < MaxTime
  /\ \A w \in Worker : hand[w] # None => now - start[w] < MaxOpen
  /\ now' = now + 1
  /\ UNCHANGED <<fresh, status, phase, rows, sent, txn, mail, past, failures>>

(* Matches are found, or seen by the team.                                 *)
NewsChanges(o) ==
  /\ fresh' = IF o \in fresh THEN fresh \ {o} ELSE fresh \cup {o}
  /\ UNCHANGED <<now, status, phase, rows, sent, txn, mail, past, failures>>

(* tick: one job per kind and bucket, whoever ticks and how often.         *)
Due(t) ==
  {[kind |-> "digest", at |-> t], [kind |-> "freshness", at |-> t \div FreshEvery]}

Tick ==
  /\ \E j \in Due(now) : phase[j] = "absent"
  /\ phase' = [j \in Job |-> IF j \in Due(now) /\ phase[j] = "absent" THEN "pending"
                             ELSE phase[j]]
  /\ UNCHANGED <<now, fresh, status, rows, sent, txn, mail, past, failures>>

Begins(w, j) ==
  /\ hand[w] = None /\ phase[j] = "pending" /\ \A v \in Worker : hand[v] # j
  /\ hand' = [hand EXCEPT ![w] = j]
  /\ start' = [start EXCEPT ![w] = now]
  /\ todo' = [todo EXCEPT ![w] = IF j.kind = "digest" THEN Org ELSE {}]
  /\ UNCHANGED <<now, fresh, status, phase, rows, sent, wrote, spoke, mail, past, failures>>

(* Variant: what the transaction wrote is carried into the next.           *)
EndedCarrying(w, p) ==
  /\ phase' = [phase EXCEPT ![hand[w]] = p]
  /\ hand' = [hand EXCEPT ![w] = None] /\ start' = [start EXCEPT ![w] = 0]
  /\ todo' = [todo EXCEPT ![w] = {}] /\ spoke' = [spoke EXCEPT ![w] = {}]
  /\ UNCHANGED wrote

Ended(w, p) ==
  /\ phase' = [phase EXCEPT ![hand[w]] = p]
  /\ hand' = [hand EXCEPT ![w] = None] /\ start' = [start EXCEPT ![w] = 0]
  /\ todo' = [todo EXCEPT ![w] = {}] /\ wrote' = [wrote EXCEPT ![w] = {}]
  /\ spoke' = [spoke EXCEPT ![w] = {}]

-----------------------------------------------------------------------------
Digesting(w) == hand[w] # None /\ hand[w].kind = "digest"

InSendHour(w, o) == LocalHour(o, start[w]) = SendHour

(* Variant: no digest within the last day and a half.                      *)
AlreadyLong(w, o) ==
  \E r \in rows \cup wrote[w] : r.org = o /\ 2 * r.at > 2 * start[w] - 3 * HoursPerDay

(* Variant: what the other transactions wrote in this hour is ignored.     *)
NeverAlready(w, o) == FALSE

Already(w, o) == \E r \in rows \cup wrote[w] : r.org = o /\ r.at > start[w] - AlreadyHours

HasNews(o) == o \in fresh \/ status[o] # "valid"

(* One organisation of run_daily_digest: it is skipped, or its row is      *)
(* inserted and a mail goes to each member but those that mail fails.      *)
DigestSkips(w, o) ==
  /\ Digesting(w) /\ o \in todo[w]
  /\ ~InSendHour(w, o) \/ Already(w, o) \/ ~HasNews(o)
  /\ todo' = [todo EXCEPT ![w] = @ \ {o}]
  /\ spoke' = [spoke EXCEPT ![w] =
                 IF LocalHour(o, start[w]) = SendHour /\ HasNews(o) THEN @ \cup {o} ELSE @]
  /\ UNCHANGED <<now, fresh, status, phase, rows, sent, hand, start, wrote, mail, past,
                 failures>>

DigestSends(w, o) ==
  LET r == [org |-> o, at |-> start[w], by |-> hand[w]]
  IN /\ Digesting(w) /\ o \in todo[w]
     /\ InSendHour(w, o) /\ ~Already(w, o) /\ HasNews(o)
     /\ todo' = [todo EXCEPT ![w] = @ \ {o}]
     /\ wrote' = [wrote EXCEPT ![w] = @ \cup {r}]
     /\ spoke' = [spoke EXCEPT ![w] = @ \cup {o}]
     /\ \E M \in SUBSET Member :
          /\ M = Member \/ failures < MaxFailures
          /\ failures' = IF M = Member THEN failures ELSE failures + 1
          /\ digests' = digests \cup {<<r, m, failures>> : m \in M}
     /\ crowded' = crowded \cup {About(q) : q \in {q \in UNION {wrote[v] : v \in Worker \ {w}} :
                                                     About(q) = About(r)}}
     /\ UNCHANGED <<now, fresh, status, phase, rows, sent, hand, start, bare, served, undone>>

(* The job is done, or runs again because its completion was lost.         *)
DigestCommits(w) ==
  /\ Digesting(w) /\ todo[w] = {}
  /\ rows' = rows \cup wrote[w]
  /\ served' = served \cup {<<o, LocalDay(o, start[w])>> : o \in spoke[w]}
  /\ \/ Ended(w, "done") /\ UNCHANGED failures
     \/ failures < MaxFailures /\ failures' = failures + 1 /\ Ended(w, "pending")
  /\ UNCHANGED <<now, fresh, status, sent, mail, crowded, undone>>

(* A statement fails or the worker dies: the rows go, the mail has left.   *)
Fails(w) ==
  /\ hand[w] # None
  /\ failures < MaxFailures /\ failures' = failures + 1
  /\ undone' = undone \cup {About(r) : r \in wrote[w]}
  /\ Ended(w, "pending")
  /\ UNCHANGED <<now, fresh, status, rows, sent, mail, served, crowded>>

(* run_notify_send finds sent_at NULL and mails the row once more, its     *)
(* kind for a subject; it is sent as soon as one member got it.            *)
NotifySends ==
  /\ rows \ sent # {}
  /\ sent' = rows
  /\ bare' = bare \cup ((rows \ sent) \X Member)
  /\ UNCHANGED <<now, fresh, status, phase, rows, txn, digests, past, failures>>

-----------------------------------------------------------------------------
(* What an evidence is called on day d.                                    *)
Class(o, d) ==
  CASE Expiry[o] < d -> "expired"
    [] Expiry[o] >= d /\ Expiry[o] <= d + ExpiryWindow -> "expiring"
    [] OTHER -> "valid"

(* run_vault_freshness: every status that differs is written.              *)
FreshnessCommits(w) ==
  /\ hand[w] # None /\ hand[w].kind = "freshness"
  /\ status' = [o \in Org |-> Class(o, Day(start[w]))]
  /\ \/ Ended(w, "done") /\ UNCHANGED failures
     \/ failures < MaxFailures /\ failures' = failures + 1 /\ Ended(w, "pending")
  /\ UNCHANGED <<now, fresh, rows, sent, mail, past>>

Next ==
  \/ HourPasses \/ Tick \/ NotifySends
  \/ \E o \in Org : NewsChanges(o)
  \/ \E w \in Worker :
       \/ \E j \in Job : Begins(w, j)
       \/ \E o \in Org : DigestSkips(w, o) \/ DigestSends(w, o)
       \/ DigestCommits(w) \/ FreshnessCommits(w) \/ Fails(w)

Spec == Init /\ [][Next]_vars

-----------------------------------------------------------------------------
(* The type of every variable; what an open transaction holds agrees with  *)
(* its job.                                                                *)
TypeOK ==
  /\ now \in Time /\ fresh \subseteq Org
  /\ status \in [Org -> {"valid", "expiring", "expired"}]
  /\ phase \in [Job -> {"absent", "pending", "done"}]
  /\ rows \subseteq Row /\ sent \subseteq rows
  /\ hand \in [Worker -> Job \cup {None}] /\ start \in [Worker -> Time]
  /\ todo \in [Worker -> SUBSET Org] /\ wrote \in [Worker -> SUBSET Row]
  /\ spoke \in [Worker -> SUBSET Org]
  /\ digests \subseteq Row \X Member \X (0..MaxFailures) /\ bare \subseteq Row \X Member
  /\ served \subseteq Org \X Nat /\ crowded \subseteq Org \X Nat
  /\ undone \subseteq Org \X Nat
  /\ failures \in 0..MaxFailures
  /\ \A w \in Worker : /\ hand[w] = None => wrote[w] = {} /\ spoke[w] = {}
                       /\ \A r \in wrote[w] : r.at = start[w] /\ r.by = hand[w]
                       /\ {r.org : r \in wrote[w]} \cap todo[w] = {}

(* "One digest per org per local day, enforced by the notification record" *)
(* (notify.py): whatever jobs lag, run again or overlap, a second row of a *)
(* local day means that two transactions were open when it was written,    *)
(* the only window in which the record does not show.                      *)
OneDigest ==
  \A q, r \in rows : q # r /\ About(q) = About(r) => About(r) \in crowded

(* "each org its daily digest at the configured local hour": an            *)
(* organisation in whose hour a job ran to its end, with something to say, *)
(* has its digest for that local day, whatever its zone and whatever it    *)
(* was sent the day before.                                                *)
NobodyForgotten ==
  \A s \in served : \E r \in rows : About(r) = s

(* A member has at most two mails about a local day, the digest and what   *)
(* notify.send makes of its row, unless the digest was mailed and rolled   *)
(* back, or written twice at once.                                         *)
TwoMailsAtMost ==
  \A o \in Org, m \in Member :
    \A d \in {LocalDay(o, t) : t \in Time} :
      <<o, d>> \notin crowded \cup undone =>
        Cardinality({x \in digests : x[2] = m /\ About(x[1]) = <<o, d>>})
          + Cardinality({x \in bare : x[2] = m /\ About(x[1]) = <<o, d>>}) <= 2
=============================================================================
