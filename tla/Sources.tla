------------------------------- MODULE Sources -------------------------------
(***************************************************************************)
(* The life of a polled source: the scheduler tick enqueues its fetches    *)
(* and the health sweeps (scheduler.py), a fetch pages through the portal  *)
(* from a watermark (adapters/, pipeline.py), and a sweep judges the       *)
(* source by its last success and its yield (health.py).                   *)
(*                                                                         *)
(* Records are numbered in the order in which the portal shows them, each  *)
(* on its day of publication.  A fetch is one transaction with a request   *)
(* per page, during which the portal, the clock and other workers move on; *)
(* nothing is stored before it commits.  A sweep is a read and a write.    *)
(* The queue is the contract of JobContract: one worker at a time per job, *)
(* run again when it fails or when its completion is lost.                 *)
(***************************************************************************)
EXTENDS Integers, Sequences, FiniteSets

CONSTANTS
  None,        \* no time, no job
  Worker,
  \* the clock: time is counted in minutes
  MinutesPerHour, HoursPerDay,
  MinuteParts, HourParts, \* the source's schedule: sets of ranges with a step
  HealthEvery, \* PLATFORM_SCHEDULE: source.health
  \* the portal
  PageSize, MaxOffset,
  Lookback,    \* days read by a fetch that has no watermark
  MaxRetries,
  \* thresholds of health.py
  Budget, Week, MinVolume,
  \* bounds
  MaxTime, MaxShown, MaxFailures, MaxToggles

ASSUME SourcesAssumption ==
  /\ None \notin Int
  /\ MinutesPerHour \in Nat \ {0} /\ HoursPerDay \in Nat \ {0} /\ HealthEvery \in Nat \ {0}
  /\ PageSize \in Nat \ {0} /\ MaxOffset \in Nat /\ Lookback \in Nat /\ MaxRetries \in Nat
  /\ Budget \in Nat /\ Week \in Nat /\ MinVolume \in Nat
  /\ MaxTime \in Nat /\ MaxShown \in Nat /\ MaxFailures \in Nat /\ MaxToggles \in Nat

Time == 0..MaxTime
Record == 1..MaxShown
Job == [kind : {"fetch", "health"}, at : Time]
Health == {"green", "degraded", "silent", "disabled"}

ASSUME NoneIsNoJob == None \notin Job

VARIABLES
  now,
  shown,       \* the portal: day of publication of each record
  \* the sources row
  enabled, since, success, health,
  stored,      \* raw_notices: fetched_at of each record
  phase,       \* jobs: "absent", "pending", "done" or "dead"
  alarms,      \* events: number of source.silent and source.degraded
  \* a worker
  pc,          \* "idle", "reading" or "writing"
  hand,        \* its job
  began,       \* when its transaction began: its now()
  base,        \* the watermark a fetch has read
  offset, tries,
  got,         \* what a fetch has read: the first fetched_at of each record
  latest,      \* latest_seen
  view,        \* the verdict of a sweep and the health it has read
  \* history, read by no action
  known,       \* number of records shown when a fetch began
  overtaken,   \* records shown during a fetch that ended on a later day
  cut,         \* records beyond the last page of a fetch, or before the lookback
  sweptAt,     \* when the last committed sweep read
  raced,       \* ... whether the row had changed before it wrote, or a fetch that
               \* outlasted the budget has written since
  failures, toggles

row == <<enabled, since, success, health>>
task == <<pc, hand, began, base, offset, tries, got, latest, view, known>>
past == <<overtaken, cut, sweptAt, raced>>
vars == <<now, shown, row, stored, phase, alarms, task, past, failures, toggles>>

Nothing == [r \in Record |-> None]
Unseen == [verdict |-> "green", health |-> "green", success |-> None, at |-> 0]

Init ==
  /\ now = 0 /\ shown = <<>>
  /\ enabled = TRUE /\ since = None /\ success = None /\ health = "green"
  /\ stored = Nothing
  /\ phase = [j \in Job |-> "absent"]
  /\ alarms = 0
  /\ pc = [w \in Worker |-> "idle"] /\ hand = [w \in Worker |-> None]
  /\ began = [w \in Worker |-> None] /\ base = [w \in Worker |-> None]
  /\ offset = [w \in Worker |-> 0] /\ tries = [w \in Worker |-> 0]
  /\ got = [w \in Worker |-> Nothing] /\ latest = [w \in Worker |-> None]
  /\ view = [w \in Worker |-> Unseen]
  /\ known = [w \in Worker |-> 0]
  /\ overtaken = {} /\ cut = {} /\ sweptAt = None /\ raced = FALSE
  /\ failures = 0 /\ toggles = 0

-----------------------------------------------------------------------------
(* The environment: time passes, the portal shows a record on its day of   *)
(* publication, an operator flips the kill switch.                         *)
Day(t) == t \div (MinutesPerHour * HoursPerDay)

TimePasses ==
  /\ now < MaxTime
  /\ now' = now + 1
  /\ UNCHANGED <<shown, row, stored, phase, alarms, task, past, failures, toggles>>

Publish ==
  /\ Len(shown) < MaxShown
  /\ shown' = Append(shown, Day(now))
  /\ UNCHANGED <<now, row, stored, phase, alarms, task, past, failures, toggles>>

Toggle ==
  /\ toggles < MaxToggles
  /\ toggles' = toggles + 1
  /\ enabled' = ~enabled
  /\ UNCHANGED <<now, shown, since, success, health, stored, phase, alarms, task, past,
                 failures>>

-----------------------------------------------------------------------------
(* _parse_field: the values that the comma separated parts name.           *)
Field(parts, low, high) ==
  {v \in low..high : \E p \in parts : v \in p.from..p.to /\ (v - p.from) % p.step = 0}

(* cron_matches, of minute and hour: the other three fields are left out,  *)
(* being * in the schedule of every source that seed-data.ts registers.    *)
CronMatches(t) ==
  /\ t % MinutesPerHour \in Field(MinuteParts, 0, MinutesPerHour - 1)
  /\ (t \div MinutesPerHour) % HoursPerDay \in Field(HourParts, 0, HoursPerDay - 1)

TimeBucket(t, every) == t \div every

(* What a tick enqueues: a job per source and minute, and per platform     *)
(* kind and bucket; the bucket is the version of the idempotency key.      *)
Due(t) ==
  {[kind |-> "fetch", at |-> m] : m \in {n \in {t} : enabled /\ CronMatches(n)}}
    \cup {[kind |-> "health", at |-> TimeBucket(t, HealthEvery)]}

Tick ==
  /\ \E j \in Due(now) : phase[j] = "absent"
  /\ phase' = [j \in Job |-> IF j \in Due(now) /\ phase[j] = "absent" THEN "pending"
                             ELSE phase[j]]
  /\ UNCHANGED <<now, shown, row, stored, alarms, task, past, failures, toggles>>

-----------------------------------------------------------------------------
(* Variant: a job can be claimed by two workers.                           *)
FreeAlways(w, j) == pc[w] = "idle" /\ phase[j] = "pending"

Free(w, j) ==
  /\ pc[w] = "idle"
  /\ phase[j] = "pending" /\ \A v \in Worker : hand[v] # j

(* The worker lets go of its job, which is then p.                         *)
Release(w, p) ==
  /\ pc' = [pc EXCEPT ![w] = "idle"]
  /\ hand' = [hand EXCEPT ![w] = None]
  /\ phase' = [phase EXCEPT ![hand[w]] = p]
  /\ began' = [began EXCEPT ![w] = None] /\ base' = [base EXCEPT ![w] = None]
  /\ offset' = [offset EXCEPT ![w] = 0] /\ tries' = [tries EXCEPT ![w] = 0]
  /\ got' = [got EXCEPT ![w] = Nothing] /\ latest' = [latest EXCEPT ![w] = None]
  /\ view' = [view EXCEPT ![w] = Unseen]
  /\ known' = [known EXCEPT ![w] = 0]

(* A handler that committed is done, unless its completion is lost.        *)
Settle(w) ==
  \/ Release(w, "done") /\ UNCHANGED failures
  \/ failures < MaxFailures /\ Release(w, "pending") /\ failures' = failures + 1

(* run_source_fetch reads the row: nothing to do for a disabled source.    *)
FetchSkips(w, j) ==
  /\ Free(w, j) /\ j.kind = "fetch" /\ ~enabled
  /\ phase' = [phase EXCEPT ![j] = "done"]
  /\ UNCHANGED <<now, shown, row, stored, alarms, task, past, failures, toggles>>

FetchBegins(w, j) ==
  /\ Free(w, j) /\ j.kind = "fetch" /\ enabled
  /\ pc' = [pc EXCEPT ![w] = "reading"]
  /\ hand' = [hand EXCEPT ![w] = j]
  /\ began' = [began EXCEPT ![w] = now]
  /\ base' = [base EXCEPT ![w] = since]
  /\ known' = [known EXCEPT ![w] = Len(shown)]
  /\ UNCHANGED <<now, shown, row, stored, phase, alarms, offset, tries, got, latest, view,
                 past, failures, toggles>>

(* The first day of the window: that of the watermark.                     *)
From(w) == IF base[w] = None THEN Day(now) - Lookback ELSE Day(base[w])

(* Variant: the window begins after the day of the watermark.              *)
WindowAfter(w) == {r \in DOMAIN shown : base[w] = None \/ shown[r] > From(w)}

Window(w) == {r \in DOMAIN shown : shown[r] >= From(w)}

(* One page, newest first.                                                 *)
Page(w) ==
  {r \in Window(w) : offset[w] < Len(shown) + 1 - r /\ Len(shown) + 1 - r <= offset[w] + PageSize}

LastPage(w) ==
  Cardinality(Page(w)) < PageSize \/ offset[w] + PageSize > MaxOffset

ReadPage(w) ==
  /\ pc[w] = "reading" /\ hand[w].kind = "fetch"
  /\ got' = [got EXCEPT ![w] = [r \in Record |-> IF r \in Page(w) /\ got[w][r] = None THEN now
                                                 ELSE got[w][r]]]
  /\ latest' = [latest EXCEPT ![w] = IF Page(w) = {} THEN @ ELSE now]
  /\ offset' = [offset EXCEPT ![w] = @ + PageSize]
  /\ tries' = [tries EXCEPT ![w] = 0]
  /\ pc' = [pc EXCEPT ![w] = IF LastPage(w) THEN "writing" ELSE "reading"]
  /\ UNCHANGED <<now, shown, row, stored, phase, alarms, hand, began, base, view, known, past,
                 failures, toggles>>

(* An attempt fails, and BaseAdapter.request tries again after a pause.    *)
RequestFails(w) ==
  /\ pc[w] = "reading" /\ hand[w].kind = "fetch"
  /\ failures < MaxFailures /\ tries[w] < MaxRetries
  /\ tries' = [tries EXCEPT ![w] = @ + 1]
  /\ failures' = failures + 1
  /\ UNCHANGED <<now, shown, row, stored, phase, alarms, pc, hand, began, base, offset, got,
                 latest, view, known, past, toggles>>

(* store_raw: ON CONFLICT DO NOTHING.                                      *)
StoreRaw(w) ==
  [r \in Record |-> IF stored[r] = None THEN got[w][r] ELSE stored[r]]

(* latest_seen, or the time if the window was empty.                       *)
Watermark(w) == IF latest[w] = None THEN now ELSE latest[w]

FetchCommits(w) ==
  /\ pc[w] = "writing" /\ hand[w].kind = "fetch"
  /\ stored' = StoreRaw(w)
  /\ since' = Watermark(w)
  /\ success' = began[w]
  /\ health' = "green"
  /\ overtaken' = overtaken \cup
       {r \in DOMAIN shown : r > known[w] /\ shown[r] < Day(Watermark(w))}
  /\ cut' = cut \cup {r \in 1..known[w] :
                       \/ stored'[r] = None /\ r \in Window(w) /\ offset[w] > MaxOffset
                       \/ base[w] = None /\ r \notin Window(w)}
  /\ raced' = (now - began[w] > Budget)
  /\ Settle(w)
  /\ UNCHANGED <<now, shown, enabled, alarms, sweptAt, toggles>>

(* The retries are used up, or the worker dies: nothing is stored, and the *)
(* job is tried again or dead.  A dead fetch marks its source.             *)
RecordsFailure(p) == health' = IF p = "dead" THEN "degraded" ELSE health

FetchFails(w) ==
  /\ pc[w] # "idle" /\ hand[w].kind = "fetch"
  /\ failures < MaxFailures
  /\ failures' = failures + 1
  /\ \E p \in {"pending", "dead"} : Release(w, p) /\ RecordsFailure(p)
  /\ UNCHANGED <<now, shown, enabled, since, success, stored, alarms, past, toggles>>

-----------------------------------------------------------------------------
NoticesBetween(young, old) ==
  Cardinality({r \in Record : stored[r] # None /\ young <= now - stored[r] /\ now - stored[r] < old})

(* More than 40 % fewer notices than in the week before.                   *)
YieldDown ==
  LET prev == NoticesBetween(Week, 2 * Week)
      this == NoticesBetween(0, Week)
  IN prev >= MinVolume /\ 10 * (prev - this) > 4 * prev

(* Variant: a source that never ran is not silent.                         *)
SilentIfItRan == success # None /\ now - success > Budget

Silent == success = None \/ now - success > Budget

(* evaluate, for a polled source.                                          *)
Evaluate ==
  CASE ~enabled -> "disabled"
    [] enabled /\ Silent -> "silent"
    [] enabled /\ ~Silent /\ YieldDown -> "degraded"
    [] OTHER -> "green"

(* run_source_health: the rows with their figures are read ...             *)
SweepReads(w, j) ==
  /\ Free(w, j) /\ j.kind = "health"
  /\ pc' = [pc EXCEPT ![w] = "writing"]
  /\ hand' = [hand EXCEPT ![w] = j]
  /\ view' = [view EXCEPT ![w] =
                [verdict |-> Evaluate, health |-> health, success |-> success, at |-> now]]
  /\ UNCHANGED <<now, shown, row, stored, phase, alarms, began, base, offset, tries, got,
                 latest, known, past, failures, toggles>>

(* Variant: an event per sweep, whatever the source showed before.         *)
TransitionAlways(w) == view[w].verdict \in {"silent", "degraded"}

Transition(w) == view[w].verdict # view[w].health

(* ... and a verdict that differs from the health read is written, with an *)
(* event if it is bad news.                                                *)
SweepCommits(w) ==
  /\ pc[w] = "writing" /\ hand[w].kind = "health"
  /\ health' = IF Transition(w) THEN view[w].verdict ELSE health
  /\ alarms' = IF Transition(w) /\ view[w].verdict \in {"silent", "degraded"} THEN alarms + 1
               ELSE alarms
  /\ sweptAt' = view[w].at
  /\ raced' = (view[w].health # health \/ view[w].success # success)
  /\ Settle(w)
  /\ UNCHANGED <<now, shown, enabled, since, success, stored, overtaken, cut, toggles>>

SweepFails(w) ==
  /\ pc[w] = "writing" /\ hand[w].kind = "health"
  /\ failures < MaxFailures
  /\ failures' = failures + 1
  /\ \E p \in {"pending", "dead"} : Release(w, p)
  /\ UNCHANGED <<now, shown, row, stored, alarms, past, toggles>>

Next ==
  \/ TimePasses \/ Publish \/ Toggle \/ Tick
  \/ \E w \in Worker :
       \/ \E j \in Job : FetchSkips(w, j) \/ FetchBegins(w, j) \/ SweepReads(w, j)
       \/ ReadPage(w) \/ RequestFails(w) \/ FetchCommits(w) \/ FetchFails(w)
       \/ SweepCommits(w) \/ SweepFails(w)

Spec == Init /\ [][Next]_vars

-----------------------------------------------------------------------------
(* The type of every variable; a job in hand is pending and one worker's.  *)
TypeOK ==
  /\ now \in Time
  /\ shown \in Seq(Int) /\ Len(shown) <= MaxShown
  /\ enabled \in BOOLEAN /\ since \in Time \cup {None} /\ success \in Time \cup {None}
  /\ health \in Health
  /\ stored \in [Record -> Time \cup {None}]
  /\ phase \in [Job -> {"absent", "pending", "done", "dead"}]
  /\ alarms \in Nat
  /\ pc \in [Worker -> {"idle", "reading", "writing"}]
  /\ hand \in [Worker -> Job \cup {None}]
  /\ began \in [Worker -> Time \cup {None}] /\ base \in [Worker -> Time \cup {None}]
  /\ offset \in [Worker -> Nat] /\ tries \in [Worker -> 0..MaxRetries]
  /\ got \in [Worker -> [Record -> Time \cup {None}]]
  /\ latest \in [Worker -> Time \cup {None}]
  /\ view \in [Worker -> [verdict : Health, health : Health, success : Time \cup {None},
                          at : Time]]
  /\ known \in [Worker -> 0..MaxShown]
  /\ overtaken \subseteq Record /\ cut \subseteq Record
  /\ sweptAt \in Time \cup {None} /\ raced \in BOOLEAN
  /\ failures \in 0..MaxFailures /\ toggles \in 0..MaxToggles
  /\ \A w \in Worker : /\ pc[w] = "idle" <=> hand[w] = None
                       /\ hand[w] # None => phase[hand[w]] = "pending"
  /\ \A v, w \in Worker : v # w /\ hand[v] = hand[w] => hand[v] = None

(* "Re-reading is cheap ...; skipping loses a tender" (pipeline.py): what  *)
(* is not stored is still in the next fetch's window, whatever failed or   *)
(* ran at the same time, unless it lay beyond the last page, or was shown  *)
(* while a fetch ran past midnight.                                        *)
NothingSkipped ==
  \A r \in DOMAIN shown \ (overtaken \cup cut) :
    stored[r] # None \/ since = None \/ shown[r] >= Day(since)

(* A source that shows green had succeeded within its budget at the last   *)
(* sweep, unless the row changed under that sweep or a fetch that took     *)
(* longer than the budget, and dates from its start, ended since.          *)
GreenIsFresh ==
  enabled /\ health = "green" /\ sweptAt # None /\ ~raced =>
    success # None /\ sweptAt - success <= Budget

(* "Only transitions are recorded" (health.py): no source falls silent     *)
(* without an event, and an event for a source that does not change means  *)
(* that its row changed between the sweep's read and its write.            *)
TransitionsRecorded ==
  [][/\ health' # health /\ health' = "silent" => alarms' = alarms + 1
     /\ alarms' # alarms => health' # health \/ raced']_vars
=============================================================================
