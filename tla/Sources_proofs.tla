---------------------------- MODULE Sources_proofs ----------------------------
(***************************************************************************)
(* Proofs about Sources, for any workers, schedule, page size, thresholds, *)
(* times and bounds.                                                       *)
(***************************************************************************)
EXTENDS Sources, FiniteSetTheorems, SequenceTheorems, TLAPS

LEMMA Constants ==
  /\ None \notin Int /\ None \notin Job
  /\ MinutesPerHour \in Nat \ {0} /\ HoursPerDay \in Nat \ {0} /\ HealthEvery \in Nat \ {0}
  /\ PageSize \in Nat \ {0} /\ MaxOffset \in Nat /\ Lookback \in Nat /\ MaxRetries \in Nat
  /\ Budget \in Nat /\ Week \in Nat /\ MinVolume \in Nat
  /\ MaxTime \in Nat /\ MaxShown \in Nat /\ MaxFailures \in Nat /\ MaxToggles \in Nat
BY SourcesAssumption, NoneIsNoJob

(* Days are numbered in the order of time.                                 *)
LEMMA Days ==
  ASSUME NEW t \in Nat, NEW s \in Nat, s <= t
  PROVE  Day(s) \in Int /\ Day(t) \in Int /\ Day(s) <= Day(t)
<1> DEFINE d == MinutesPerHour * HoursPerDay
<1>1. d \in Nat \ {0}
  BY Constants
<1> HIDE DEF d
<1>2. t \div d \in Int /\ s \div d \in Int /\ s \div d <= t \div d
  BY <1>1
<1> QED
  BY <1>2 DEF d, Day

-----------------------------------------------------------------------------
(* The parts of the type: the portal and the row, what a worker carries,   *)
(* the jobs in hand.                                                       *)
RowType ==
  /\ now \in Time
  /\ shown \in Seq(Int) /\ Len(shown) <= MaxShown
  /\ enabled \in BOOLEAN /\ since \in Time \cup {None} /\ success \in Time \cup {None}
  /\ health \in Health
  /\ stored \in [Record -> Time \cup {None}]
  /\ alarms \in Nat
  /\ overtaken \subseteq Record /\ cut \subseteq Record
  /\ sweptAt \in Time \cup {None} /\ raced \in BOOLEAN
  /\ failures \in 0..MaxFailures /\ toggles \in 0..MaxToggles

TaskType ==
  /\ began \in [Worker -> Time \cup {None}] /\ base \in [Worker -> Time \cup {None}]
  /\ offset \in [Worker -> Nat] /\ tries \in [Worker -> 0..MaxRetries]
  /\ got \in [Worker -> [Record -> Time \cup {None}]]
  /\ latest \in [Worker -> Time \cup {None}]
  /\ view \in [Worker -> [verdict : Health, health : Health, success : Time \cup {None},
                          at : Time]]
  /\ known \in [Worker -> 0..MaxShown]

JobType ==
  /\ phase \in [Job -> {"absent", "pending", "done", "dead"}]
  /\ pc \in [Worker -> {"idle", "reading", "writing"}]
  /\ hand \in [Worker -> Job \cup {None}]
  /\ \A w \in Worker : /\ pc[w] = "idle" <=> hand[w] = None
                       /\ hand[w] # None => phase[hand[w]] = "pending"
  /\ \A v, w \in Worker : v # w /\ hand[v] = hand[w] => hand[v] = None

LEMMA TypeParts == TypeOK <=> RowType /\ TaskType /\ JobType
BY DEF TypeOK, RowType, TaskType, JobType

LEMMA UnseenType ==
  MaxTime \in Nat => Unseen \in [verdict : Health, health : Health, success : Time \cup {None}, at : Time]
BY DEF Unseen, Health, Time

(* Letting go of a job keeps the types of the task and of the jobs.        *)
LEMMA ReleaseType ==
  ASSUME TaskType, JobType, NEW w \in Worker, pc[w] # "idle",
         NEW p \in {"pending", "done", "dead"}, Release(w, p)
  PROVE  TaskType' /\ JobType'
<1>1. TaskType'
  <2>1. /\ began' \in [Worker -> Time \cup {None}] /\ base' \in [Worker -> Time \cup {None}]
        /\ latest' \in [Worker -> Time \cup {None}]
    BY DEF TaskType, Release
  <2>2. offset' \in [Worker -> Nat] /\ tries' \in [Worker -> 0..MaxRetries] /\ known' \in [Worker -> 0..MaxShown]
    BY Constants DEF TaskType, Release
  <2>3. got' \in [Worker -> [Record -> Time \cup {None}]]
    <3>1. Nothing \in [Record -> Time \cup {None}]
      BY DEF Nothing
    <3> QED
      BY <3>1 DEF TaskType, Release
  <2>4. view' \in [Worker -> [verdict : Health, health : Health, success : Time \cup {None}, at : Time]]
    <3> HIDE DEF Unseen
    <3> QED
      BY UnseenType, Constants DEF TaskType, Release
  <2> QED
    BY <2>1, <2>2, <2>3, <2>4 DEF TaskType
<1>2. JobType'
  <2>1. hand[w] \in Job
    BY DEF JobType
  <2>2. /\ phase' \in [Job -> {"absent", "pending", "done", "dead"}]
        /\ pc' \in [Worker -> {"idle", "reading", "writing"}]
        /\ hand' \in [Worker -> Job \cup {None}]
    BY <2>1 DEF JobType, Release
  <2>3. \A v \in Worker : v # w => hand'[v] = hand[v] /\ pc'[v] = pc[v]
    BY DEF JobType, Release
  <2>4. hand'[w] = None /\ pc'[w] = "idle"
    BY DEF JobType, Release
  <2>5. ASSUME NEW v \in Worker, hand'[v] # None
        PROVE  phase'[hand'[v]] = "pending"
    <3>1. v # w /\ hand'[v] = hand[v] /\ hand[v] # hand[w] /\ hand[v] \in Job
      BY <2>1, <2>3, <2>4, <2>5, Constants DEF JobType
    <3>2. phase'[hand[v]] = phase[hand[v]]
      BY <3>1, <2>1 DEF JobType, Release
    <3> QED
      BY <2>5, <3>1, <3>2 DEF JobType
  <2>6. \A v \in Worker : pc'[v] = "idle" <=> hand'[v] = None
    BY <2>3, <2>4 DEF JobType
  <2>7. \A u, v \in Worker : u # v /\ hand'[u] = hand'[v] => hand'[u] = None
    BY <2>3, <2>4 DEF JobType
  <2> QED
    BY <2>2, <2>5, <2>6, <2>7 DEF JobType
<1> QED
  BY <1>1, <1>2

LEMMA WindowType ==
  ASSUME RowType, NEW w \in Worker
  PROVE  Window(w) \subseteq 1..Len(shown) /\ Page(w) \subseteq Record
BY Constants DEF RowType, Window, Page, Record

LEMMA TypeStep ==
  ASSUME TypeOK, [Next]_vars
  PROVE  TypeOK'
<1> USE TypeParts
<1>c. RowType /\ TaskType /\ JobType
  OBVIOUS
<1> SUFFICES RowType' /\ TaskType' /\ JobType'
  BY DEF TypeOK, RowType, TaskType, JobType
<1>1. CASE UNCHANGED vars
  BY <1>1, <1>c DEF vars, row, task, past, RowType, TaskType, JobType
<1>2. CASE TimePasses
  BY <1>2, <1>c, Constants DEF TimePasses, row, task, past, RowType, TaskType, JobType, Time
<1>3. CASE Publish
  <2>1. shown' \in Seq(Int) /\ Len(shown') <= MaxShown
    <3>1. now \in Nat /\ shown \in Seq(Int) /\ Len(shown) < MaxShown /\ shown' = Append(shown, Day(now))
      BY <1>3, <1>c, Constants DEF Publish, RowType, Time
    <3>2. Day(now) \in Int
      BY <3>1, Days
    <3> QED
      BY <3>1, <3>2, Constants
  <2> QED
    BY <1>3, <1>c, <2>1 DEF Publish, row, task, past, RowType, TaskType, JobType
<1>4. CASE Toggle
  BY <1>4, <1>c, Constants DEF Toggle, task, past, RowType, TaskType, JobType
<1>5. CASE Tick
  <2>1. phase' \in [Job -> {"absent", "pending", "done", "dead"}]
    BY <1>5, <1>c DEF Tick, JobType
  <2>2. \A j \in Job : phase[j] = "pending" => phase'[j] = "pending"
    BY <1>5 DEF Tick
  <2>3. JobType'
    BY <1>5, <1>c, <2>1, <2>2 DEF Tick, task, JobType
  <2> QED
    BY <1>5, <1>c, <2>3 DEF Tick, row, task, past, RowType, TaskType
<1>6. ASSUME NEW w \in Worker, NEW j \in Job, FetchSkips(w, j)
      PROVE  RowType' /\ TaskType' /\ JobType'
  <2>1. \A v \in Worker : hand[v] # j
    BY <1>6 DEF FetchSkips, Free
  <2>2. phase' \in [Job -> {"absent", "pending", "done", "dead"}]
    BY <1>6, <1>c DEF FetchSkips, JobType
  <2>3. \A v \in Worker : hand[v] # None => phase'[hand[v]] = phase[hand[v]]
    BY <1>6, <1>c, <2>1 DEF FetchSkips, JobType
  <2>4. JobType'
    BY <1>6, <1>c, <2>2, <2>3 DEF FetchSkips, task, JobType
  <2> QED
    BY <1>6, <1>c, <2>4 DEF FetchSkips, row, task, past, RowType, TaskType
<1>7. ASSUME NEW w \in Worker, NEW j \in Job,
             pc' = [pc EXCEPT ![w] = "reading"] \/ pc' = [pc EXCEPT ![w] = "writing"],
             hand' = [hand EXCEPT ![w] = j], Free(w, j), phase' = phase
      PROVE  JobType'
  <2>1. hand'[w] = j /\ pc'[w] # "idle" /\ \A v \in Worker : v # w => hand'[v] = hand[v] /\ pc'[v] = pc[v]
    BY <1>7, <1>c DEF JobType
  <2>2. hand' \in [Worker -> Job \cup {None}] /\ pc' \in [Worker -> {"idle", "reading", "writing"}]
    BY <1>7, <1>c DEF JobType
  <2>3. phase[j] = "pending" /\ j # None /\ \A v \in Worker : hand[v] # j
    BY <1>7, Constants DEF Free
  <2> QED
    BY <1>7, <1>c, <2>1, <2>2, <2>3 DEF JobType
<1>8. ASSUME NEW w \in Worker, NEW j \in Job, FetchBegins(w, j)
      PROVE  RowType' /\ TaskType' /\ JobType'
  <2>1. JobType'
    BY <1>7, <1>8 DEF FetchBegins
  <2>2. /\ began' \in [Worker -> Time \cup {None}] /\ base' \in [Worker -> Time \cup {None}]
        /\ known' \in [Worker -> 0..MaxShown]
    BY <1>8, <1>c, Constants DEF FetchBegins, RowType, TaskType
  <2> QED
    BY <1>8, <1>c, <2>1, <2>2 DEF FetchBegins, row, past, RowType, TaskType
<1>9. ASSUME NEW w \in Worker, NEW j \in Job, SweepReads(w, j)
      PROVE  RowType' /\ TaskType' /\ JobType'
  <2>1. JobType'
    BY <1>7, <1>9 DEF SweepReads
  <2>2. Evaluate \in Health
    BY DEF Evaluate, Health
  <2>3. [verdict |-> Evaluate, health |-> health, success |-> success, at |-> now]
          \in [verdict : Health, health : Health, success : Time \cup {None}, at : Time]
    BY <1>c, <2>2 DEF RowType
  <2>4. view' \in [Worker -> [verdict : Health, health : Health, success : Time \cup {None}, at : Time]]
    BY <1>9, <1>c, <2>3 DEF SweepReads, TaskType
  <2> QED
    BY <1>9, <1>c, <2>1, <2>4 DEF SweepReads, row, past, RowType, TaskType
<1>10. ASSUME NEW w \in Worker, ReadPage(w)
       PROVE  RowType' /\ TaskType' /\ JobType'
  <2>1. [r \in Record |-> IF r \in Page(w) /\ got[w][r] = None THEN now ELSE got[w][r]]
          \in [Record -> Time \cup {None}]
    BY <1>c DEF RowType, TaskType
  <2>2. got' \in [Worker -> [Record -> Time \cup {None}]]
    BY <1>10, <1>c, <2>1 DEF ReadPage, TaskType
  <2>3. /\ latest' \in [Worker -> Time \cup {None}]
        /\ tries' \in [Worker -> 0..MaxRetries]
    BY <1>10, <1>c, Constants DEF ReadPage, RowType, TaskType
  <2>4. offset' \in [Worker -> Nat]
    BY <1>10, <1>c, Constants DEF ReadPage, TaskType
  <2>5. JobType'
    <3>1. pc' \in [Worker -> {"idle", "reading", "writing"}] /\ pc[w] # "idle" /\ pc'[w] # "idle"
      BY <1>10, <1>c DEF ReadPage, JobType
    <3>2. \A v \in Worker : v # w => pc'[v] = pc[v]
      BY <1>10, <1>c DEF ReadPage, JobType
    <3> QED
      BY <1>10, <1>c, <3>1, <3>2 DEF ReadPage, JobType
  <2> QED
    BY <1>10, <1>c, <2>2, <2>3, <2>4, <2>5 DEF ReadPage, row, past, RowType, TaskType
<1>11. ASSUME NEW w \in Worker, RequestFails(w)
       PROVE  RowType' /\ TaskType' /\ JobType'
  <2>1. tries' \in [Worker -> 0..MaxRetries] /\ failures' \in 0..MaxFailures
    BY <1>11, <1>c, Constants DEF RequestFails, RowType, TaskType
  <2> QED
    BY <1>11, <1>c, <2>1 DEF RequestFails, row, past, RowType, TaskType, JobType
<1>12. ASSUME NEW w \in Worker, pc[w] # "idle", Settle(w)
       PROVE  TaskType' /\ JobType' /\ failures' \in 0..MaxFailures
  BY <1>12, <1>c, ReleaseType, Constants DEF Settle, RowType
<1>13. ASSUME NEW w \in Worker, FetchCommits(w)
       PROVE  RowType' /\ TaskType' /\ JobType'
  <2>1. TaskType' /\ JobType' /\ failures' \in 0..MaxFailures
    BY <1>12, <1>13 DEF FetchCommits
  <2>2. stored' \in [Record -> Time \cup {None}]
    BY <1>13, <1>c DEF FetchCommits, StoreRaw, RowType, TaskType
  <2>3. since' \in Time \cup {None} /\ success' \in Time \cup {None} /\ health' \in Health
    BY <1>13, <1>c DEF FetchCommits, Watermark, RowType, TaskType, Health
  <2>4. overtaken' \subseteq Record
    <3>1. DOMAIN shown \subseteq Record /\ overtaken \subseteq Record
      BY <1>c, Constants DEF RowType, Record
    <3> QED
      BY <1>13, <3>1 DEF FetchCommits
  <2>5. cut' \subseteq Record
    <3>1. 1..known[w] \subseteq Record /\ cut \subseteq Record
      BY <1>c, Constants DEF TaskType, RowType, Record
    <3> QED
      BY <1>13, <3>1 DEF FetchCommits
  <2>6. raced' \in BOOLEAN
    BY <1>13 DEF FetchCommits
  <2> QED
    BY <1>13, <1>c, <2>1, <2>2, <2>3, <2>4, <2>5, <2>6 DEF FetchCommits, RowType
<1>14. ASSUME NEW w \in Worker, FetchFails(w)
       PROVE  RowType' /\ TaskType' /\ JobType'
  <2>1. TaskType' /\ JobType'
    BY <1>14, <1>c, ReleaseType DEF FetchFails
  <2>2. failures' \in 0..MaxFailures
    <3>1. failures < MaxFailures /\ failures' = failures + 1
      BY <1>14 DEF FetchFails
    <3>2. failures \in 0..MaxFailures /\ MaxFailures \in Nat
      BY <1>c, Constants DEF RowType
    <3> QED
      BY <3>1, <3>2
  <2>3. health' \in Health
    BY <1>14, <1>c DEF FetchFails, RecordsFailure, RowType, Health
  <2> QED
    BY <1>14, <1>c, <2>1, <2>2, <2>3 DEF FetchFails, past, RowType
<1>15. ASSUME NEW w \in Worker, SweepCommits(w)
       PROVE  RowType' /\ TaskType' /\ JobType'
  <2>1. TaskType' /\ JobType' /\ failures' \in 0..MaxFailures
    BY <1>12, <1>15 DEF SweepCommits
  <2>2. view[w].verdict \in Health /\ view[w].at \in Time
    BY <1>c DEF TaskType
  <2>3. health' \in Health /\ alarms' \in Nat /\ sweptAt' \in Time /\ raced' \in BOOLEAN
    BY <1>15, <1>c, <2>2 DEF SweepCommits, RowType
  <2> QED
    BY <1>15, <1>c, <2>1, <2>3 DEF SweepCommits, RowType
<1>16. ASSUME NEW w \in Worker, SweepFails(w)
       PROVE  RowType' /\ TaskType' /\ JobType'
  <2>1. TaskType' /\ JobType'
    BY <1>16, <1>c, ReleaseType DEF SweepFails
  <2>2. failures' \in 0..MaxFailures
    <3>1. failures < MaxFailures /\ failures' = failures + 1
      BY <1>16 DEF SweepFails
    <3>2. failures \in 0..MaxFailures /\ MaxFailures \in Nat
      BY <1>c, Constants DEF RowType
    <3> QED
      BY <3>1, <3>2
  <2> QED
    BY <1>16, <1>c, <2>1, <2>2 DEF SweepFails, row, past, RowType
<1> QED
  BY <1>1, <1>2, <1>3, <1>4, <1>5, <1>6, <1>8, <1>9, <1>10, <1>11, <1>13, <1>14, <1>15, <1>16 DEF Next

(* Every variable keeps its type; a job in hand is pending and one         *)
(* worker's, whatever fails.                                               *)
THEOREM SourcesTyped == Spec => []TypeOK
<1>1. Init => TypeOK
  <2> SUFFICES ASSUME Init PROVE TypeOK
    OBVIOUS
  <2>1. RowType
    <3>1. shown \in Seq(Int) /\ Len(shown) = 0
      BY DEF Init
    <3>2. 0 \in 0..MaxTime /\ 0 \in 0..MaxFailures /\ 0 \in 0..MaxToggles /\ Len(shown) <= MaxShown
      BY <3>1, Constants
    <3>3. stored \in [Record -> Time \cup {None}]
      BY DEF Init, Nothing
    <3>4. enabled \in BOOLEAN /\ raced \in BOOLEAN /\ health \in Health
      BY DEF Init, Health
    <3> QED
      BY <3>1, <3>2, <3>3, <3>4 DEF Init, RowType, Time
  <2>2. Unseen \in [verdict : Health, health : Health, success : Time \cup {None}, at : Time]
    BY UnseenType, Constants
  <2>3. TaskType
    <3> HIDE DEF Unseen
    <3> QED
      BY <2>2, Constants DEF Init, TaskType, Nothing
  <2>4. JobType
    BY DEF Init, JobType
  <2> QED
    BY <2>1, <2>3, <2>4, TypeParts
<1>2. TypeOK /\ [Next]_vars => TypeOK'
  BY TypeStep
<1> QED
  BY <1>1, <1>2, PTL DEF Spec

-----------------------------------------------------------------------------
(* An event is written exactly with a transition: nothing falls silent     *)
(* without one, and one without a transition tells of a race.              *)
THEOREM TransitionsRecordedHolds == Spec => TransitionsRecorded
<1> DEFINE Recorded == /\ health' # health /\ health' = "silent" => alarms' = alarms + 1
                       /\ alarms' # alarms => health' # health \/ raced'
<1>1. [Next]_vars => [Recorded]_vars
  <2> SUFFICES ASSUME Next PROVE Recorded
    OBVIOUS
  <2>1. CASE TimePasses \/ Publish \/ Toggle \/ Tick
    BY <2>1 DEF TimePasses, Publish, Toggle, Tick, row
  <2>2. ASSUME NEW w \in Worker, NEW j \in Job,
               FetchSkips(w, j) \/ FetchBegins(w, j) \/ SweepReads(w, j)
        PROVE  Recorded
    BY <2>2 DEF FetchSkips, FetchBegins, SweepReads, row
  <2>3. ASSUME NEW w \in Worker, ReadPage(w) \/ RequestFails(w) \/ SweepFails(w)
        PROVE  Recorded
    BY <2>3 DEF ReadPage, RequestFails, SweepFails, row
  <2>4. ASSUME NEW w \in Worker, FetchCommits(w)
        PROVE  Recorded
    BY <2>4 DEF FetchCommits
  <2>5. ASSUME NEW w \in Worker, FetchFails(w)
        PROVE  Recorded
    BY <2>5 DEF FetchFails, RecordsFailure
  <2>6. ASSUME NEW w \in Worker, SweepCommits(w)
        PROVE  Recorded
    <3>1. CASE Transition(w)
      <4>1. health' = view[w].verdict /\ view[w].verdict # view[w].health
        BY <2>6, <3>1 DEF SweepCommits, Transition
      <4>2. view[w].verdict \in {"silent", "degraded"} => alarms' = alarms + 1
        BY <2>6, <3>1 DEF SweepCommits
      <4>3. health' = health => raced'
        BY <2>6, <4>1 DEF SweepCommits
      <4> QED
        BY <4>1, <4>2, <4>3
    <3>2. CASE ~Transition(w)
      BY <2>6, <3>2 DEF SweepCommits
    <3> QED
      BY <3>1, <3>2
  <2> QED
    BY <2>1, <2>2, <2>3, <2>4, <2>5, <2>6 DEF Next
<1> QED
  BY <1>1, PTL DEF Spec, TransitionsRecorded

-----------------------------------------------------------------------------
(* What keeps a green source fresh: clocks do not run ahead, and what a    *)
(* sweep is about to write was true when it read.                          *)
Sweeping(w) == pc[w] = "writing" /\ hand[w].kind = "health"
Fetching(w) == pc[w] # "idle" /\ hand[w].kind = "fetch"

Clocks ==
  /\ sweptAt # None => sweptAt <= now
  /\ \A w \in Worker : /\ Sweeping(w) => view[w].at <= now
                       /\ Fetching(w) => began[w] # None /\ began[w] <= now

Verdicts ==
  \A w \in Worker :
    Sweeping(w) /\ view[w].verdict = "green" =>
      view[w].success # None /\ view[w].at - view[w].success <= Budget

Fresh ==
  health = "green" /\ sweptAt # None /\ ~raced => success # None /\ sweptAt - success <= Budget

FreshInv == Clocks /\ Verdicts /\ Fresh

(* What a worker that has let go of its job has left.                      *)
LEMMA Released ==
  ASSUME TypeOK, NEW w \in Worker, NEW p, Release(w, p)
  PROVE  /\ pc'[w] = "idle"
         /\ \A v \in Worker : v # w =>
              /\ pc'[v] = pc[v] /\ hand'[v] = hand[v] /\ began'[v] = began[v] /\ base'[v] = base[v]
              /\ offset'[v] = offset[v] /\ got'[v] = got[v] /\ view'[v] = view[v]
              /\ known'[v] = known[v]
BY DEF TypeOK, Release

LEMMA FreshStep ==
  ASSUME TypeOK, FreshInv, [Next]_vars
  PROVE  FreshInv'
<1> USE DEF FreshInv
<1>t. now \in Nat /\ now' \in Nat /\ now <= now'
  BY Constants DEF TypeOK, Time, Next, vars, TimePasses, Publish, Toggle, Tick, FetchSkips,
     FetchBegins, SweepReads, ReadPage, RequestFails, FetchCommits, FetchFails, SweepCommits, SweepFails
<1>n. /\ sweptAt # None => sweptAt \in Nat
      /\ \A w \in Worker : view[w].at \in Nat /\ (began[w] # None => began[w] \in Nat)
  BY Constants DEF TypeOK, Time
<1>1. CASE UNCHANGED <<health, success, sweptAt, raced, task>>
  <2>1. Verdicts' /\ Fresh'
    BY <1>1 DEF task, Verdicts, Fresh, Sweeping
  <2>2. Clocks'
    BY <1>1, <1>t, <1>n DEF task, Clocks, Sweeping, Fetching
  <2> QED
    BY <2>1, <2>2
<1>2. ASSUME NEW w \in Worker, NEW j \in Job, FetchBegins(w, j)
      PROVE  FreshInv'
  <2>1. /\ \A v \in Worker : v # w => pc'[v] = pc[v] /\ hand'[v] = hand[v] /\ began'[v] = began[v]
        /\ pc'[w] = "reading" /\ hand'[w] = j /\ j.kind = "fetch" /\ began'[w] = now /\ now' = now
        /\ UNCHANGED <<health, success, sweptAt, raced, view>>
    BY <1>2 DEF FetchBegins, TypeOK, row, past
  <2>2. Clocks'
    BY <2>1, <1>t, Constants DEF Clocks, Sweeping, Fetching
  <2> QED
    BY <2>1, <2>2 DEF Verdicts, Fresh, Sweeping
<1>3. ASSUME NEW w \in Worker, NEW j \in Job, SweepReads(w, j)
      PROVE  FreshInv'
  <2>1. /\ \A v \in Worker : v # w => pc'[v] = pc[v] /\ hand'[v] = hand[v] /\ view'[v] = view[v]
        /\ hand'[w] = j /\ j.kind = "health" /\ now' = now
        /\ view'[w] = [verdict |-> Evaluate, health |-> health, success |-> success, at |-> now]
        /\ UNCHANGED <<health, success, sweptAt, raced, began>>
    BY <1>3 DEF SweepReads, TypeOK, row, past
  <2>2. Evaluate = "green" => ~Silent
    BY DEF Evaluate
  <2>3. Clocks'
    BY <2>1, <1>t DEF Clocks, Sweeping, Fetching
  <2>4. Evaluate = "green" => success # None /\ now - success <= Budget
    <3>1. success # None => success \in Nat
      BY Constants DEF TypeOK, Time
    <3> QED
      BY <2>2, <3>1, <1>t, Constants DEF Silent
  <2>5. Verdicts'
    BY <2>1, <2>4 DEF Verdicts, Sweeping
  <2> QED
    BY <2>1, <2>3, <2>5 DEF Fresh
<1>4. ASSUME NEW w \in Worker, ReadPage(w)
      PROVE  FreshInv'
  <2>1. /\ \A v \in Worker : v # w => pc'[v] = pc[v]
        /\ pc[w] = "reading" /\ hand[w].kind = "fetch" /\ now' = now
        /\ UNCHANGED <<hand, view, health, success, sweptAt, raced, began>>
    BY <1>4 DEF ReadPage, TypeOK, row, past
  <2>2. Clocks'
    BY <2>1, <1>t DEF Clocks, Sweeping, Fetching
  <2>3. Verdicts'
    BY <2>1 DEF Verdicts, Sweeping
  <2> QED
    BY <2>1, <2>2, <2>3 DEF Fresh
<1>5. ASSUME NEW w \in Worker, RequestFails(w)
      PROVE  FreshInv'
  BY <1>5 DEF RequestFails, row, past, Clocks, Verdicts, Fresh, Sweeping, Fetching
<1>6. ASSUME NEW w \in Worker, NEW p, Release(w, p), sweptAt' = sweptAt, now' = now
      PROVE  Clocks'
  BY <1>6, Released DEF Clocks, Sweeping, Fetching
<1>7. ASSUME NEW w \in Worker, NEW p, Release(w, p)
      PROVE  Verdicts'
  BY <1>7, Released DEF Verdicts, Sweeping
<1>8. ASSUME NEW w \in Worker, Settle(w)
      PROVE  \E p \in {"done", "pending"} : Release(w, p)
  BY <1>8 DEF Settle
<1>9. ASSUME NEW w \in Worker, FetchCommits(w)
      PROVE  FreshInv'
  <2>1. PICK p \in {"done", "pending"} : Release(w, p)
    BY <1>8, <1>9 DEF FetchCommits
  <2>2. Clocks'
    BY <1>6, <1>9, <2>1 DEF FetchCommits
  <2>3. began[w] # None /\ began[w] <= now /\ began[w] \in Nat
    BY <1>9, <1>n DEF FetchCommits, Clocks, Fetching
  <2>4. success' = began[w] /\ sweptAt' = sweptAt /\ raced' = (now - began[w] > Budget)
    BY <1>9 DEF FetchCommits
  <2>5. sweptAt # None /\ ~(now - began[w] > Budget) => sweptAt - began[w] <= Budget
    BY <2>3, <1>t, <1>n, Constants DEF Clocks
  <2>6. Fresh'
    BY <2>3, <2>4, <2>5 DEF Fresh
  <2> QED
    BY <1>7, <2>1, <2>2, <2>6
<1>10. ASSUME NEW w \in Worker, FetchFails(w)
       PROVE  FreshInv'
  <2>1. PICK p \in {"pending", "dead"} : Release(w, p) /\ RecordsFailure(p)
    BY <1>10 DEF FetchFails
  <2>2. Clocks'
    BY <1>6, <1>10, <2>1 DEF FetchFails, past
  <2>3. Fresh'
    BY <1>10, <2>1 DEF FetchFails, RecordsFailure, Fresh, past
  <2> QED
    BY <1>7, <2>1, <2>2, <2>3
<1>11. ASSUME NEW w \in Worker, SweepFails(w)
       PROVE  FreshInv'
  <2>1. PICK p \in {"pending", "dead"} : Release(w, p)
    BY <1>11 DEF SweepFails
  <2>2. Clocks' /\ Verdicts'
    BY <1>6, <1>7, <1>11, <2>1 DEF SweepFails, past
  <2> QED
    BY <1>11, <2>2 DEF SweepFails, Fresh, row, past
<1>12. ASSUME NEW w \in Worker, SweepCommits(w)
       PROVE  FreshInv'
  <2>1. PICK p \in {"done", "pending"} : Release(w, p)
    BY <1>8, <1>12 DEF SweepCommits
  <2>2. Sweeping(w) /\ sweptAt' = view[w].at /\ now' = now /\ success' = success
    BY <1>12 DEF SweepCommits, Sweeping
  <2>3. Clocks'
    <3>1. view[w].at <= now
      BY <2>2 DEF Clocks
    <3> QED
      BY <2>1, <2>2, <3>1, Released DEF Clocks, Sweeping, Fetching
  <2>4. ~raced' => health' = view[w].verdict /\ success = view[w].success
    BY <1>12 DEF SweepCommits, Transition
  <2>5. Fresh'
    BY <2>2, <2>4 DEF Verdicts, Fresh
  <2> QED
    BY <1>7, <2>1, <2>3, <2>5
<1>13. CASE UNCHANGED vars
  BY <1>13, <1>1 DEF vars, row, past
<1>14. CASE TimePasses \/ Publish \/ Toggle \/ Tick
  BY <1>14, <1>1 DEF TimePasses, Publish, Toggle, Tick, row, past
<1>15. ASSUME NEW w \in Worker, NEW j \in Job, FetchSkips(w, j)
       PROVE  FreshInv'
  BY <1>15, <1>1 DEF FetchSkips, row, past
<1> QED
  BY <1>2, <1>3, <1>4, <1>5, <1>9, <1>10, <1>11, <1>12, <1>13, <1>14, <1>15 DEF Next

(* A source that shows green had succeeded within its budget at the last   *)
(* sweep, for any budget and any number of workers that race for its row.  *)
THEOREM GreenIsFreshHolds == Spec => []GreenIsFresh
<1>1. Init => FreshInv
  BY Constants DEF Init, FreshInv, Clocks, Verdicts, Fresh, Sweeping, Fetching
<1>2. TypeOK /\ FreshInv /\ [Next]_vars => FreshInv'
  BY FreshStep
<1>3. FreshInv => GreenIsFresh
  BY DEF FreshInv, Fresh, GreenIsFresh
<1> QED
  BY <1>1, <1>2, <1>3, SourcesTyped, PTL DEF Spec

-----------------------------------------------------------------------------
(* What keeps a record in some window: the portal shows records in the     *)
(* order of their days, the watermark a fetch has read is one that left    *)
(* nothing behind, a fetch has what its pages showed, and it has all of    *)
(* its window when it stops before the last page it may read.              *)
Left(r) == r \in overtaken \cup cut

Ordered ==
  /\ \A r \in DOMAIN shown : shown[r] <= Day(now)
  /\ \A q, r \in DOMAIN shown : q < r => shown[q] <= shown[r]

Resting == \A w \in Worker : pc[w] = "idle" => offset[w] = 0

Passed ==
  /\ since # None => since <= now
  /\ \A w \in Worker : latest[w] # None => latest[w] <= now

Begun ==
  \A w \in Worker :
    Fetching(w) =>
      /\ known[w] <= Len(shown)
      /\ \A r \in 1..known[w] :
           Left(r) \/ stored[r] # None \/ base[w] = None \/ shown[r] >= Day(base[w])

Paged ==
  \A w \in Worker :
    Fetching(w) =>
      \A r \in 1..known[w] :
        r \in Window(w) /\ Len(shown) + 1 - r <= offset[w] => got[w][r] # None

Whole ==
  \A w \in Worker :
    Fetching(w) /\ pc[w] = "writing" /\ offset[w] <= MaxOffset =>
      \A r \in 1..known[w] : r \in Window(w) => got[w][r] # None

SkipInv == Ordered /\ Resting /\ Passed /\ Begun /\ Paged /\ Whole /\ NothingSkipped

(* A page that is not full is the last one of the window.                  *)
LEMMA ShortPage ==
  ASSUME TypeOK, Ordered, NEW w \in Worker, Cardinality(Page(w)) < PageSize,
         NEW r \in Window(w)
  PROVE  Len(shown) + 1 - r <= offset[w] + PageSize
<1> DEFINE L == Len(shown)
           o == offset[w]
           k == PageSize
           I == (L + 1 - o - k)..(L - o)
<1>0. L \in Nat /\ o \in Nat /\ k \in Nat \ {0} /\ r \in 1..L
  BY Constants DEF TypeOK, Window
<1> SUFFICES ASSUME L + 1 - r > o + k
             PROVE  FALSE
  BY <1>0
<1>1. L \in Nat /\ o \in Nat /\ k \in Nat \ {0} /\ DOMAIN shown = 1..L /\ r \in 1..L
  BY <1>0 DEF TypeOK
<1>2. \A q \in 1..L : q > r => q \in Window(w)
  <2>1. shown[r] >= From(w)
    BY DEF Window
  <2>2. From(w) \in Int /\ \A q \in 1..L : shown[q] \in Int
    <3>1. \A t \in Time : Day(t) \in Int
      <4>1. Time \subseteq Nat
        BY Constants DEF Time
      <4>2. ASSUME NEW t \in Nat
            PROVE  Day(t) \in Int
        <5>1. t <= t
          OBVIOUS
        <5> QED
          BY <5>1, Days
      <4> QED
        BY <4>1, <4>2
    <3>2. now \in Time /\ base[w] \in Time \cup {None}
      BY DEF TypeOK
    <3>3. From(w) \in Int
      BY <3>1, <3>2, Constants DEF From
    <3> QED
      BY <1>1, <3>3 DEF TypeOK
  <2> QED
    BY <1>1, <2>1, <2>2 DEF Ordered, Window
<1>3. I \subseteq Page(w)
  <2> SUFFICES ASSUME NEW q \in I
               PROVE  q \in Page(w)
    OBVIOUS
  <2>1. q \in 1..L /\ q > r /\ o < L + 1 - q /\ L + 1 - q <= o + k
    BY <1>1
  <2> QED
    BY <1>2, <2>1 DEF Page
<1>4. IsFiniteSet(Page(w))
  <2>1. IsFiniteSet(1..L)
    BY <1>1, FS_Interval
  <2>2. Page(w) \subseteq 1..L
    BY <1>1 DEF Page, Window
  <2> QED
    BY <2>1, <2>2, FS_Subset
<1>5. Cardinality(I) = k
  <2> HIDE DEF L, o, k
  <2> QED
    BY <1>1, FS_Interval
<1>6. Cardinality(I) <= Cardinality(Page(w)) /\ Cardinality(Page(w)) \in Nat
  BY <1>3, <1>4, FS_Subset, FS_CardinalityType
<1> QED
  BY <1>1, <1>5, <1>6

(* Letting go of a job, or storing records, disturbs no other fetch.       *)
LEMMA SkipRelease ==
  ASSUME TypeOK, Begun, Paged, Whole, NEW w \in Worker, NEW p, Release(w, p),
         UNCHANGED <<now, shown>>, overtaken \subseteq overtaken', cut \subseteq cut',
         \A r \in Record : stored[r] # None => stored'[r] # None
  PROVE  Begun' /\ Paged' /\ Whole'
<1>1. \A v \in Worker : Fetching(v)' => v # w /\ Fetching(v)
  BY Released DEF Fetching
<1>2. \A v \in Worker : v # w => Window(v)' = Window(v)
  BY Released DEF Window, From, Day
<1>3. \A v \in Worker : Fetching(v)' => known[v] \in 0..MaxShown
  BY DEF TypeOK
<1>4. Begun'
  <2> SUFFICES ASSUME NEW v \in Worker, Fetching(v)'
               PROVE  /\ known'[v] <= Len(shown')
                      /\ \A r \in 1..known'[v] :
                           Left(r)' \/ stored'[r] # None \/ base'[v] = None \/ shown'[r] >= Day(base'[v])
    BY DEF Begun, Day
  <2>1. /\ Fetching(v) /\ known'[v] = known[v] /\ base'[v] = base[v] /\ 1..known[v] \subseteq Record
    BY <1>1, <1>3, Released, Constants DEF Record
  <2>2. \A r \in 1..known[v] : Left(r) => Left(r)'
    BY DEF Left
  <2>3. /\ known[v] <= Len(shown)
        /\ \A r \in 1..known[v] :
             Left(r) \/ stored[r] # None \/ base[v] = None \/ shown[r] >= Day(base[v])
    BY <2>1 DEF Begun
  <2> QED
    BY <2>1, <2>2, <2>3
<1>5. Paged'
  BY <1>1, <1>2, Released DEF Paged
<1>6. Whole'
  BY <1>1, <1>2, Released DEF Whole
<1> QED
  BY <1>4, <1>5, <1>6

LEMMA SkipStep ==
  ASSUME TypeOK, SkipInv, [Next]_vars
  PROVE  SkipInv'
<1> USE DEF SkipInv
<1>n. /\ Len(shown) \in 0..MaxShown /\ DOMAIN shown = 1..Len(shown)
      /\ \A r \in DOMAIN shown : shown[r] \in Int
      /\ \A w \in Worker : known[w] \in 0..MaxShown /\ offset[w] \in Nat
  BY Constants DEF TypeOK
<1>d. \A s, t \in Time : Day(s) \in Int /\ (s <= t => Day(s) <= Day(t))
  <2>1. Time \subseteq Nat
    BY Constants DEF Time
  <2> QED
    BY <2>1, Days
<1>e. Day(now) \in Int /\ now \in Time /\ now \in Nat
  BY <1>d, Constants DEF TypeOK, Time
<1>f. \A w \in Worker : From(w) \in Int
  BY <1>d, Constants DEF From, TypeOK
<1>1. CASE UNCHANGED <<now, shown, stored, since, overtaken, cut, pc, hand, base, offset, got, known,
                       latest>>
  <2>1. \A w \in Worker : Window(w)' = Window(w) /\ (Fetching(w)' <=> Fetching(w))
    BY <1>1 DEF Window, From, Day, Fetching
  <2>2. Ordered' /\ NothingSkipped' /\ Passed' /\ Resting'
    BY <1>1 DEF Ordered, NothingSkipped, Passed, Resting, Day
  <2>3. Begun'
    BY <1>1, <2>1 DEF Begun, Left, Day
  <2>4. Paged' /\ Whole'
    BY <1>1, <2>1 DEF Paged, Whole
  <2> QED
    BY <2>2, <2>3, <2>4
<1>2. CASE TimePasses
  <2>1. /\ now' = now + 1
        /\ UNCHANGED <<shown, stored, since, overtaken, cut, pc, hand, base, offset, got, known, latest>>
    BY <1>2 DEF TimePasses, row, task, past
  <2>2. Day(now)' = Day(now + 1) /\ Day(now)' \in Int
    <3>1. Day(now + 1) \in Int
      BY <1>e, Days
    <3> QED
      BY <2>1, <3>1 DEF Day
  <2>d. Day(now) <= Day(now + 1)
    BY <1>e, Days
  <2>3. \A w \in Worker : Fetching(w)' <=> Fetching(w)
    BY <2>1 DEF Fetching
  <2>4. \A w \in Worker : Window(w)' \subseteq Window(w)
    <3> SUFFICES ASSUME NEW w \in Worker, NEW r \in DOMAIN shown, shown[r] >= From(w)'
                 PROVE  shown[r] >= From(w)
      BY <2>1 DEF Window
    <3>1. From(w) <= From(w)' /\ From(w)' \in Int
      <4>1. CASE base[w] = None
        BY <2>1, <2>2, <2>d, <4>1, <1>e, Constants DEF From
      <4>2. CASE base[w] # None
        <5>1. Day(base[w])' = Day(base[w]) /\ Day(base[w]) \in Int
          BY <2>1, <4>2, <1>d DEF Day, TypeOK
        <5> QED
          BY <2>1, <4>2, <5>1 DEF From
      <4> QED
        BY <4>1, <4>2
    <3> QED
      BY <3>1, <1>n, <1>f
  <2>5. Ordered'
    BY <2>1, <2>2, <2>d, <1>n, <1>e DEF Ordered
  <2>6. NothingSkipped'
    BY <2>1 DEF NothingSkipped, Day
  <2>7. Begun'
    BY <2>1, <2>3 DEF Begun, Left, Day
  <2>8. Paged' /\ Whole'
    BY <2>1, <2>3, <2>4 DEF Paged, Whole
  <2>9. Passed'
    BY <2>1, <1>e, Constants DEF Passed, TypeOK, Time
  <2> QED
    BY <2>1, <2>5, <2>6, <2>7, <2>8, <2>9 DEF Resting
<1>3. CASE Publish
  <2>1. UNCHANGED <<now, stored, since, overtaken, cut, pc, hand, base, offset, got, known, latest>>
    BY <1>3 DEF Publish, row, task, past
  <2>2. /\ Len(shown') = Len(shown) + 1 /\ DOMAIN shown' = 1..(Len(shown) + 1)
        /\ \A r \in 1..Len(shown) : shown'[r] = shown[r]
        /\ shown'[Len(shown) + 1] = Day(now)
    <3>1. shown \in Seq(Int) /\ shown' = Append(shown, Day(now)) /\ Day(now) \in Int
      BY <1>3, <1>e DEF Publish, TypeOK
    <3> QED
      BY <3>1
  <2>3. \A w \in Worker : /\ Fetching(w)' <=> Fetching(w)
                          /\ \A r \in 1..Len(shown) : r \in Window(w)' => r \in Window(w)
    BY <2>1, <2>2, <1>n DEF Window, From, Day, Fetching
  <2>4. Ordered'
    <3>1. Day(now)' = Day(now)
      BY <2>1 DEF Day
    <3> QED
      BY <2>2, <3>1, <1>n, <1>e DEF Ordered
  <2>5. NothingSkipped'
    <3>1. since = None \/ Day(now) >= Day(since)
      <4>1. since # None => since \in Time /\ Day(since) \in Int /\ Day(since) <= Day(now)
        BY <1>d, <1>e DEF Passed, TypeOK
      <4> QED
        BY <4>1, <1>e
    <3> QED
      BY <2>1, <2>2, <3>1, <1>n DEF NothingSkipped, Day
  <2>6. Begun'
    BY <2>1, <2>2, <2>3, <1>n DEF Begun, Left, Day
  <2>k. \A w \in Worker : Fetching(w) => 1..known[w] \subseteq 1..Len(shown)
    BY <1>n DEF Begun
  <2>7. Paged' /\ Whole'
    <3>1. ASSUME NEW w \in Worker, Fetching(w), NEW r \in 1..known[w], r \in Window(w)',
                 Len(shown') + 1 - r <= offset[w]
          PROVE  got[w][r] # None
      <4>1. r \in Window(w) /\ Len(shown) + 1 - r <= offset[w]
        BY <2>2, <2>3, <2>k, <3>1, <1>n
      <4> QED
        BY <3>1, <4>1 DEF Paged
    <3>2. Paged'
      BY <2>1, <2>3, <3>1 DEF Paged
    <3>3. Whole'
      BY <2>1, <2>3, <2>k DEF Whole
    <3> QED
      BY <3>2, <3>3
  <2>8. Passed'
    BY <2>1 DEF Passed
  <2> QED
    BY <2>1, <2>4, <2>5, <2>6, <2>7, <2>8 DEF Resting
<1>4. ASSUME NEW w \in Worker, NEW j \in Job, FetchBegins(w, j)
      PROVE  SkipInv'
  <2>1. /\ \A v \in Worker : v # w => /\ pc'[v] = pc[v] /\ hand'[v] = hand[v] /\ base'[v] = base[v]
                                     /\ known'[v] = known[v]
        /\ pc'[w] = "reading" /\ base'[w] = since /\ known'[w] = Len(shown)
        /\ UNCHANGED <<now, shown, stored, since, overtaken, cut, offset, got, latest>>
    BY <1>4 DEF FetchBegins, TypeOK, row, past
  <2>2. pc[w] = "idle" /\ offset[w] = 0
    BY <1>4 DEF FetchBegins, Free, Resting
  <2>3. \A v \in Worker : v # w => Window(v)' = Window(v) /\ (Fetching(v)' <=> Fetching(v))
    BY <2>1 DEF Window, From, Day, Fetching
  <2>4. Ordered' /\ NothingSkipped' /\ Passed' /\ Resting'
    BY <2>1 DEF Ordered, NothingSkipped, Passed, Resting, Day
  <2>5. Begun'
    <3>1. \A r \in 1..Len(shown) : Left(r) \/ stored[r] # None \/ since = None \/ shown[r] >= Day(since)
      BY <1>n DEF NothingSkipped, Left
    <3> QED
      BY <2>1, <2>3, <3>1, <1>n DEF Begun, Left, Day
  <2>6. Paged'
    <3>1. \A r \in 1..Len(shown) : ~(Len(shown) + 1 - r <= offset[w])
      BY <2>2, <1>n
    <3> QED
      BY <2>1, <2>3, <3>1 DEF Paged
  <2>7. Whole'
    BY <2>1, <2>3 DEF Whole
  <2> QED
    BY <2>4, <2>5, <2>6, <2>7
<1>5. ASSUME NEW w \in Worker, NEW j \in Job, SweepReads(w, j)
      PROVE  SkipInv'
  <2>1. /\ \A v \in Worker : v # w => pc'[v] = pc[v] /\ hand'[v] = hand[v]
        /\ pc'[w] = "writing" /\ hand'[w] = j /\ j.kind = "health"
        /\ UNCHANGED <<now, shown, stored, since, overtaken, cut, base, offset, got, known, latest>>
    BY <1>5 DEF SweepReads, TypeOK, row, past
  <2>2. \A v \in Worker : Window(v)' = Window(v) /\ (Fetching(v)' => Fetching(v) /\ pc'[v] = pc[v])
    BY <2>1 DEF Window, From, Day, Fetching
  <2>3. Ordered' /\ NothingSkipped' /\ Passed' /\ Resting'
    BY <2>1 DEF Ordered, NothingSkipped, Passed, Resting, Day
  <2>4. Begun'
    BY <2>1, <2>2 DEF Begun, Left, Day
  <2>5. Paged' /\ Whole'
    BY <2>1, <2>2 DEF Paged, Whole
  <2> QED
    BY <2>3, <2>4, <2>5
<1>6. ASSUME NEW w \in Worker, ReadPage(w)
      PROVE  SkipInv'
  <2>1. /\ \A v \in Worker : v # w => pc'[v] = pc[v] /\ offset'[v] = offset[v] /\ got'[v] = got[v]
        /\ Fetching(w) /\ pc[w] # "idle" /\ pc'[w] = IF LastPage(w) THEN "writing" ELSE "reading"
        /\ offset'[w] = offset[w] + PageSize
        /\ \A r \in Record : got'[w][r] = IF r \in Page(w) /\ got[w][r] = None THEN now ELSE got[w][r]
        /\ \A v \in Worker : latest'[v] = latest[v] \/ latest'[v] = now
        /\ UNCHANGED <<now, shown, stored, since, overtaken, cut, hand, base, known>>
    BY <1>6 DEF ReadPage, TypeOK, Fetching, row, past
  <2>2. \A v \in Worker : Window(v)' = Window(v) /\ (Fetching(v)' <=> Fetching(v))
    BY <2>1 DEF Window, From, Day, Fetching
  <2>3. now # None
    BY <1>e, Constants
  <2>4. 1..known[w] \subseteq DOMAIN shown /\ 1..known[w] \subseteq Record
    BY <2>1, <1>n, Constants DEF Begun, Record
  <2>5. \A r \in 1..known[w] :
          r \in Window(w) /\ Len(shown) + 1 - r <= offset[w] + PageSize => got'[w][r] # None
    <3> SUFFICES ASSUME NEW r \in 1..known[w], r \in Window(w),
                        Len(shown) + 1 - r <= offset[w] + PageSize
                 PROVE  got'[w][r] # None
      OBVIOUS
    <3>1. CASE Len(shown) + 1 - r <= offset[w]
      BY <2>1, <2>3, <2>4, <3>1 DEF Paged
    <3>2. CASE ~(Len(shown) + 1 - r <= offset[w])
      <4>1. r \in Page(w)
        BY <3>2, <2>4, <1>n, Constants DEF Page
      <4> QED
        BY <2>1, <2>3, <2>4, <4>1
    <3> QED
      BY <3>1, <3>2
  <2>6. Ordered' /\ NothingSkipped' /\ Resting'
    BY <2>1 DEF Ordered, NothingSkipped, Resting, Day
  <2>7. Passed'
    BY <2>1, <1>e DEF Passed
  <2>8. Begun'
    BY <2>1, <2>2 DEF Begun, Left, Day
  <2>9. Paged'
    BY <2>1, <2>2, <2>5 DEF Paged
  <2>10. Whole'
    <3>1. pc'[w] = "writing" /\ offset'[w] <= MaxOffset =>
            \A r \in 1..known[w] : r \in Window(w) => got'[w][r] # None
      <4>1. pc'[w] = "writing" /\ offset'[w] <= MaxOffset => Cardinality(Page(w)) < PageSize
        BY <2>1, <1>n, Constants DEF LastPage
      <4> QED
        BY <2>5, <4>1, ShortPage
    <3> QED
      BY <2>1, <2>2, <3>1 DEF Whole
  <2> QED
    BY <2>6, <2>7, <2>8, <2>9, <2>10
<1>7. ASSUME NEW w \in Worker, RequestFails(w)
      PROVE  SkipInv'
  BY <1>7, <1>1 DEF RequestFails, row, past
<1>8. ASSUME NEW w \in Worker, NEW p, Release(w, p), UNCHANGED now
      PROVE  Resting' /\ \A v \in Worker : latest'[v] # None => latest'[v] <= now'
  BY <1>8 DEF Release, Resting, Passed, TypeOK
<1>9. ASSUME NEW w \in Worker, NEW p, Release(w, p),
             UNCHANGED <<now, shown, stored, since, overtaken, cut>>
      PROVE  SkipInv'
  <2>1. Begun' /\ Paged' /\ Whole'
    BY <1>9, SkipRelease
  <2>2. Ordered' /\ NothingSkipped'
    BY <1>9 DEF Ordered, NothingSkipped, Day
  <2>3. Passed' /\ Resting'
    BY <1>8, <1>9 DEF Passed
  <2> QED
    BY <2>1, <2>2, <2>3
<1>10. ASSUME NEW w \in Worker, SweepCommits(w) \/ SweepFails(w) \/ FetchFails(w)
       PROVE  SkipInv'
  <2>1. PICK p \in {"done", "pending", "dead"} : Release(w, p)
    BY <1>10 DEF SweepCommits, SweepFails, FetchFails, Settle
  <2>2. UNCHANGED <<now, shown, stored, since, overtaken, cut>>
    BY <1>10 DEF SweepCommits, SweepFails, FetchFails, row, past
  <2> QED
    BY <2>1, <2>2, <1>9
<1>11. ASSUME NEW w \in Worker, FetchCommits(w)
       PROVE  SkipInv'
  <2>1. PICK p \in {"done", "pending"} : Release(w, p)
    BY <1>11 DEF FetchCommits, Settle
  <2>2. /\ Fetching(w) /\ pc[w] = "writing"
        /\ UNCHANGED <<now, shown>>
        /\ since' = Watermark(w) /\ overtaken \subseteq overtaken' /\ cut \subseteq cut'
        /\ \A r \in Record : stored'[r] = IF stored[r] = None THEN got[w][r] ELSE stored[r]
    BY <1>11 DEF FetchCommits, Fetching, StoreRaw
  <2>3. Begun' /\ Paged' /\ Whole'
    BY <2>1, <2>2, SkipRelease
  <2>4. Ordered'
    BY <2>2 DEF Ordered, Day
  <2>5. since' <= now' /\ since' \in Time
    BY <2>2, <1>e DEF Watermark, Passed, TypeOK
  <2>6. Passed' /\ Resting'
    BY <1>8, <2>1, <2>2, <2>5 DEF Passed
  <2>7. NothingSkipped'
    <3> SUFFICES ASSUME NEW r \in DOMAIN shown, r \notin overtaken', r \notin cut', stored'[r] = None
                 PROVE  shown[r] >= Day(since')
      BY <2>2 DEF NothingSkipped, Day
    <3>1. CASE r > known[w]
      <4>1. ~(shown[r] < Day(since'))
        BY <1>11, <2>2, <3>1 DEF FetchCommits
      <4> QED
        BY <4>1, <2>5, <1>d, <1>n
    <3>2. CASE ~(r > known[w])
      <4>1. r \in 1..known[w] /\ r \in Record
        <5>1. r \in 1..Len(shown) /\ Len(shown) \in 0..MaxShown /\ known[w] \in 0..MaxShown
          BY <1>n
        <5> QED
          BY <3>2, <5>1, Constants DEF Record
      <4>2. stored[r] = None /\ got[w][r] = None
        BY <2>2, <4>1
      <4>3. ~(r \in Window(w) /\ offset[w] > MaxOffset) /\ ~(base[w] = None /\ r \notin Window(w))
        BY <1>11, <4>1 DEF FetchCommits
      <4>4. ~Left(r)
        BY <2>2 DEF Left
      <4>5. r \in Window(w)
        <5>1. CASE base[w] = None
          BY <4>3, <5>1
        <5>2. CASE base[w] # None
          BY <2>2, <4>1, <4>2, <4>4, <5>2 DEF Begun, Window, From
        <5> QED
          BY <5>1, <5>2
      <4>6. offset[w] <= MaxOffset
        BY <4>3, <4>5, <1>n, Constants
      <4> QED
        BY <2>2, <4>1, <4>2, <4>5, <4>6 DEF Whole
    <3> QED
      BY <3>1, <3>2
  <2> QED
    BY <2>3, <2>4, <2>6, <2>7
<1>12. CASE UNCHANGED vars
  BY <1>12, <1>1 DEF vars, row, task, past
<1>13. CASE Toggle \/ Tick
  BY <1>13, <1>1 DEF Toggle, Tick, row, task, past
<1>14. ASSUME NEW w \in Worker, NEW j \in Job, FetchSkips(w, j)
       PROVE  SkipInv'
  BY <1>14, <1>1 DEF FetchSkips, row, task, past
<1> QED
  BY <1>2, <1>3, <1>4, <1>5, <1>6, <1>7, <1>10, <1>11, <1>12, <1>13, <1>14 DEF Next

(* Whatever fails, runs again or runs at the same time, for any schedule,  *)
(* page size and number of workers: what is not stored is still in the     *)
(* window of the next fetch.                                               *)
THEOREM NothingSkippedHolds == Spec => []NothingSkipped
<1>1. Init => SkipInv
  BY DEF Init, SkipInv, Ordered, Resting, Passed, Begun, Paged, Whole, NothingSkipped, Fetching
<1>2. TypeOK /\ SkipInv /\ [Next]_vars => SkipInv'
  BY SkipStep
<1>3. SkipInv => NothingSkipped
  BY DEF SkipInv
<1> QED
  BY <1>1, <1>2, <1>3, SourcesTyped, PTL DEF Spec
=============================================================================
