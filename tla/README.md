# Formal models of BidPilot

BidPilot watches public procurement sources, scores notices against companies' watch profiles
and follows each pursued tender to its deadline. This directory holds TLA+ models of it, the TLC
configurations that check them on small instances, and TLAPS proofs that hold for every instance.
Every definition is translated from the code; `PROJECT.json` maps each to its lines. `ingestion/`
below stands for `src/services/ingestion/bidpilot_ingestion/`, file names without a directory are
in it.

## Inventory

| Component | State it keeps | Operations | What is hard about it | What makes it correct | Modelled in |
|---|---|---|---|---|---|
| Job queue (`queue.py`) | table `jobs`: state, attempts, locked_by, locked_at, run_at, unique key | enqueue, claim, complete, fail, reclaim_stale | several workers, crashes between transactions, timeouts, settling by id alone | one worker per job, bounded retries, no lost or un-settled job, follow-ups transactional with their cause | `JobQueue` |
| Worker loop (`worker.py`) | the job in hand | run, process_one, the handler table | stops and dies at any point; is also the scheduler | at-least-once with a cause for each repetition | `JobQueue` |
| Scheduler (`scheduler.py`) | none (keys carry the time bucket) | tick, cron_matches, time_bucket | late, duplicate and concurrent ticks | one job per bucket | `Sources`, `Digest` |
| Deadline alerts (`alerts.py`) | `notifications` rows | run_deadline_alerts, run_escalations, run_vault_freshness | concurrent sweeps that read, then insert; moving deadlines | no alert missed, none doubled, unread ones escalated | `DeadlineAlerts`, `Digest` |
| Delivery (`notify.py`) | `sent_at` | run_notify_send, run_daily_digest | mail cannot be rolled back; outages, concurrent senders, time zones | sent means mailed, everything is sent in the end, one digest a day | `DeadlineAlerts`, `Digest` |
| Pipeline (`pipeline.py`, `dedupe.py`) | raw_notices, notices, notice_versions, tender_clusters, matches, `sources.cursor` | fetch, normalise, dedupe, match | at-least-once jobs in any order, amendments, concurrent clustering | nothing fetched is lost, versions ascend, a duplicate joins its twin's cluster | `Pipeline`, `Workspace` |
| Matching (`matching.py`) | none | hard filters, score | prefixes both ways, rounding, days below zero | what is excluded is out of reach; time opens nothing | `Matching` |
| Source health (`health.py`) | `sources.health`, events | run_source_health, record_fetch_failure | two writers of one column | a lost source stays visible | `Sources` |
| Adapters (`adapters/`) | none | paging, retries, parsing | the portal changes under the pages | every record shown is read once | `Sources` (paging, window, retries) |
| Inbound email (`inbound.py`, `apps/api/src/inbound`) | `tenders` | webhook, process_inbound_email | redelivery, no unique key | one candidate per link, no link dropped | `Workspace` |
| Matches API (`matches.controller.ts`) | `matches.state`, `tenders` | pursue, shortlist, dismiss | concurrent requests, rescoring | one workspace per notice | `Workspace` |
| Profile API (`profile.controller.ts`) | `company_profiles`, `watch_profiles` | bootstrap, update | count, then create | one watch profile | `Workspace` |
| AI gateway (`ai/`) | circuits, cache, `ai_usage` | complete | breaker, fallback, schema retries | calls bounded, usage never invented | `Gateway` |
| Other controllers, web, prompts, evaluation | rows of one organisation; none | reads, single-row writes, conversions | nothing concurrent | | not modelled |

How they interact: everything asynchronous goes through the `jobs` table. The worker's loop calls
the scheduler's tick, which enqueues fetches and periodic jobs; `source.fetch` enqueues
`notice.normalize`, which enqueues `notice.dedupe`, then `notice.match`; deadline sweeps and
matches enqueue `notify.send`, whose handler ignores its payload and reads the `notifications`
table. The API writes tenders and matches directly and enqueues `email.inbound`. All of these are
READ COMMITTED Postgres transactions, so an action of a model is one transaction, or one statement
of it where another transaction can come between two.

The modules meet at that table. `JobQueue` has its transactions one by one and is shown to implement
`JobContract`. Every other module takes the contract for granted: a pending job is in the hands of
one worker at a time, jobs run in any order, a job runs again when its handler or its completion
failed, and a transaction that fails leaves nothing but the mail it has sent. `Pipeline` is shown to
use its jobs in no other way, so that what the queue promises and what the pipeline needs are the same
specification. Two more abstract specifications say what a user of a component relies on:
`AlertOutbox` (implemented by `DeadlineAlerts`) and `WorkspaceContract` (implemented by `Workspace`).

## What is modelled

### Job queue and worker: `JobQueue`, `JobContract`, `MCJobQueue`, `JobQueue_proofs`

A row is known by its idempotency key (`Job`); its columns are functions of it. A worker has a
program counter for `process_one`: `handling`, then `completing` (the handler's transaction
committed) or `failing`. Each is a transaction of its own in the code, and a `Crash` can come between
any two. Time is relative: `dueIn` is run_at - now, `lockedFor` is now - locked_at, and `TimePasses`
moves both. Handlers are reduced to what the queue sees: they commit with the jobs `Follow` names,
or raise. Ghost variables (`lost`, `reclaimed`, `overran`) count what a property has to excuse and
are read by no action.

A run of a job has *overrun* when a live worker held it for longer than `STALE_RUNNING_AFTER`; that is
what `reclaim_stale` assumes never happens. `Exclusive` and the other invariants hold for jobs that
have not overrun; see below for what happens otherwise.

`JobContract` is what the rest of the system relies on: a job that is submitted is pending until it
has run and is done, or is given up; jobs are enqueued by themselves, several in one transaction
(`Submit`), or with the handler that causes them (`Run`). `JobQueue` implements it under `PromptSpec` (no
run overruns) with queued and running rows mapped to pending (`KeepsContract`).

### Deadline alerts and delivery: `DeadlineAlerts`, `AlertOutbox`, `MCDeadlineAlerts`, `DeadlineAlerts_proofs`

One organisation; a `Sweeper` runs `notify.deadlines` transactions, a `Sender` `notify.send` ones. A
sweep reads (`SweepReads`), inserts and looks for alerts to escalate (`SweepInserts`), and commits
or rolls back; the unique key of the `notify.send` job makes a second sweep with the same alert wait
for the first, and then insert its row all the same. A send transaction reads the pending rows,
mails them one by one - which no rollback undoes - and sets `sent_at` when it commits. The unit of
time is the working day, in which every offset is an integer, and no transaction lasts into the
next one.

An alert row is named by tender, kind and inserting sweeper, which is enough: once a row of a
tender and kind is committed, no sweep that starts later raises it again.

Nothing in the code writes `ack_at`, moves a tender to `submitted` or `closed`, or changes
`tenders.deadline_at` after `pursue`, so the model has no such action.

`AlertOutbox` says what the three tables come to for a team, in three sets: an alert is raised for good, mailed
only once raised, marked only once mailed, and an escalation is raised only when the alert that it repeats was
sent. `DeadlineAlerts` implements it (`KeepsOutbox`) with the committed rows as raised, the rows with a copy as
mailed and those with `sent_at` as sent; a sweep's commit raises all its rows at once. Left out: recipients of
one row (one that accepts is enough for `sent_at`), the limit of 100 rows, the wait for a row lock (it only
delays), rendering.

### Ingestion pipeline: `Pipeline`, `MCPipeline`, `Pipeline_proofs`

Fetch, normalise, dedupe and match of `pipeline.py` over the queue's contract: a pending job is in one
worker's hands at a time, jobs run in any order (backoff reorders them), and a job runs again, or
is dead, when its handler or its completion failed. A handler is a transaction that reads (`Take`)
and later writes and commits (`Normalize`, `Join` or `Found`, `Match`), with other transactions in
between, which is what READ COMMITTED allows. A payload is known by its hash (`Content`), a notice
by its source reference, a cluster by its canonical notice. `Refused` is the unique key on
`canonical_notice_id`, which a dedupe that runs twice meets.

A dedupe compares its notice with the rows its query returns, as they are then (`Shown`). `Eligible` is that
query: other notices with a cluster, in the window of 45 days, and `Near` in deadline or of the same SIREN;
`Candidates` its limit, which picks any `MaxCandidates` of them where the code takes the last created; `Alike`
what `same_tender` says of each. `Near` and `Same` are constants, any relations between what two notices show:
neither has to be transitive, nor agree with the other, and an amendment may change what a notice resembles.
`Ages` is the day on which a notice leaves the window. What the sources can say of a notice (`Says`) and the
version a payload states (`SourceVersion`: TED numbers its notices, BOAMP leaves the default) are constants too.
`alerts` has the `tender.amended` jobs, each with the version in its key and the version it was enqueued for, and
an amendment whose key exists adds none.

`Fetch` stores everything the sources show and `raw_notices` lacks. The cursor is left out here: an
overlapping window re-reads rows that conflict with what is stored, which is no step of the model.
Also left out: which watch profiles match and with what score, `merged_from` and confidence, the alerts of high
scores, the limit of a manual fetch and the offline `cluster_notices`.

What properties excuse is recorded in ghost variables: `late` (an older payload was normalised after
the newest), `crossed` (a normalisation overwrote a state it had not read), `raced` (pairs of notices whose
last dedupes were open at the same time) and `crowded` (notices whose last dedupe had more candidates than the
query returns). No action reads them.

`NoSecondCard` is about twins, two notices that would be compared and matched whatever payloads of theirs are
stored: no cluster is created for a notice whose twin has one, raced, aged and crowded apart. It does not say that
the notices of a tender share a cluster. They need not: where a third notice resembles two that do not resemble
each other, those keep their own cards, whichever of them it joins.

`StagesKeepContract`: the stages are jobs of `JobContract`. The jobs a fetch may enqueue (`Root`) are the
normalisations, each handler's follow-up (`Follow`) is the dedupe or the match of the same notice, and a job whose
handler committed while its completion was lost is pending and has run.

### Sources: `Sources`, `MCSources`, `Sources_proofs`

The life of one polled source. `Tick` is the scheduler's tick, which may come in any minute, twice in
a minute or not at all: a source's fetch when `CronMatches` names the minute (`_parse_field` is
`Field`; day, month and weekday are left out, which are `*` in all schedules of `seed-data.ts`), the health sweep once per `TimeBucket`. A fetch reads the row (`FetchBegins`, or `FetchSkips`
when the kill switch is off), then a page per step from the day of its watermark, newest first, while
the portal publishes and time passes, then commits everything at once: `StoreRaw` is ON CONFLICT DO
NOTHING, `Watermark` the time of the last record read. `FetchFails` ends the retries; a dead
fetch marks the source. A health sweep reads (`SweepReads`) and writes (`SweepCommits`), and a fetch
may commit between them. `last_success_at` is `now()`, which in Postgres is when the transaction began.

A record is its place in the order in which the portal shows them, with its day. Ghosts: `overtaken`
(shown while a fetch ran that ended on a later day), `cut` (beyond `MAX_OFFSET`, or older than the first
lookback), `raced` (the row changed under the last sweep, or a fetch that took longer than the
silence budget ended since). Left out: push sources, `coverage_report` (it only reads), parsing.

### Digest and evidence freshness: `Digest`, `MCDigest`, `Digest_proofs`

`run_daily_digest` as one transaction with a step per organisation (`DigestSkips`, `DigestSends`) for
organisations in several time zones, and `run_vault_freshness`, whose `Class` of an evidence is news
for the digest. Jobs of an hour run whenever a worker comes to them, again when a completion
is lost, and beside each other. The rows are inserted with `created_at` at the start of the transaction
and `sent_at` NULL, so `NotifySends` mails them once more. Each mail to each member may fail. Of the text
only whether there is something to say is kept. Ghosts: `served`, `crowded` (two open
transactions wrote the digest of one day), `undone` (mailed, then rolled back).

### Workspace: `Workspace`, `WorkspaceContract`, `MCWorkspace`, `Workspace_proofs`

What one organisation works with, on connections whose transactions interleave statement by statement:
the upsert of a match (`MatchReads`, `MatchWrites`) against the team's `Shortlist`, `Dismiss` and pursuit
(`PursueReads`, `PursueWrites`); a profile save (`SaveUpserts`, `SaveCounts`, `SaveCommits`), whose upsert
locks the row until the commit; and the mails: `Receive` is the webhook with its idempotency key,
`MailBegins`, a `MailOpens` per link and `MailCommits` the job. A link is the place where it first stands
in the text followed by the HTML: `Found`, `Real` and `Links` are `extract_links` with the filter of furniture
and the limit, as sets of such places. Tenders are numbered in the order of their commits, which is what
another transaction can see. Which links are furniture or name a notice, and how an address names the
organisation, are constants, since they are pure functions of text. Ghosts: `decided`, `overlapped`.

`WorkspaceContract` is what the team sees of this: every request, scoring and mail takes effect at once, on
what the ones before it left. `TakesEffectAtOnce` says that each step of `Workspace` is one of it, or none, until
two transactions have opened a tender for the same notice or link while both were under way (`overlapped`).
All other interleavings are in it, among them a decision between the two statements of a match's
upsert, and a notice that arrives between two links of a mail. What happens in the excepted case is listed
below. The abstract tenders have no numbers, which hides nothing: no two of them look alike
(`BoardShowsAll`).

### AI gateway: `Gateway`, `MCGateway`, `Gateway_proofs`

One process, one call at a time. In the repository only the evaluation harness (`scripts/run_eval.py`) and the
tests call it, no job does. `Hit` finds the answer in the cache, `Chooses` takes the
first model on the way down whose breaker is not open (looking at a breaker after its time closes it), `Refuses`
finds none. `Accepts`, `Rejects` and `TransportFails` are what an attempt can come to: a rejected answer goes
back until the retries are spent, a transport failure counts for the breaker. The store is least recently used
first with a limit and a time to live. Usage is written in the caller's transaction, which `Commits` or
`RollsBack`. An answer costs one token. The ghost `answer` keeps when each answer that is handed out was given
by a model: `AnswersInTime` bounds its age by the time to live. Left out: the Redis store (external), prompts
and schemas (data).

### Matching: `Matching`, `MCMatching`, `Matching_proofs`

`apply_hard_filters` as a sequence of named vetoes of which the first that holds is reported, and
`score_notice` as six fits, counted in sixtieths (which holds the halves, thirds and tenths of the code),
weighted and rounded half to even. Codes are sequences of digits, so that `cpv_matches` and
`nuts_matches` are the prefix order; a text is the set of words found in it. The only step is a day
that passes. `run_funnel`, which only the tests call, and embeddings, which no caller passes, are
left out.

## Runs

| Run | Instance | Shows |
|---|---|---|
| `job_queue` | a fetch job and the job it enqueues; one worker for all kinds, one for fetches; 2 attempts, 3 process starts, stale after 1 unit | one worker per job, effects once unless a commit was lost, bounded retries |
| `job_queue_contract` | the same, no overrun, fair | refinement of `JobContract`, and that jobs are settled |
| `deadline_alerts` | 1 tender, offsets 1 and 3, 4 days, 2 sweepers, 1 sender, 1 rollback | the nearest alert is raised in time, alerts are doubled only by overlapping sweeps, escalated; refinement of `AlertOutbox` |
| `alert_delivery` | offset 1, 1 sweeper, 2 senders, 1 rollback, 1 outage, 1 amendment, fair | sent means mailed; copies have a cause; everything is sent in the end |
| `alert_moved_deadline` | 1 sweeper, 1 amendment | violated: alerts follow the tender's old deadline |
| `pipeline` | 3 notices of which one resembles the others and is amended, 2 workers, 3 publications, a query of 1 candidate, 1 notice that ages, 1 failure | nothing is lost, the newest payload shows, versions account for amendments, no second card beside a twin's; refinement of `JobContract` |
| `pipeline_flag_lost` | 1 notice, 1 worker, 1 failure | violated: a second run of a normalisation clears `amended` |
| `sources` | 2 workers, 2 records on pages of 1, at most 2 pages, 2 days of 2 minutes, 1 failure, 1 flip of the switch | no record falls behind the watermark, green means fresh, events mean transitions |
| `digest` | 2 organisations an hour apart, days of 2 hours, 2 workers, 1 member, 1 failure | one digest a local day, nobody forgotten, at most two mails about it |
| `workspace` | 1 notice, 3 links of which one is a footer, 2 messages, 2 connections, 2 deliveries, 1 rollback | tenders, decisions and the watch profile under concurrent requests; refinement of `WorkspaceContract` until tenders are opened at once |
| `gateway` | 2 questions of tiers S and L, 2 models, threshold 2, reset and time to live 2, 1 cache entry, 4 calls | the breaker spares, degrading has a cause, usage is accounted for, no answer outlives its time |
| `matching` | some thirty thousand combinations of notice, filters and company, 3 days | geography excludes what cannot be reached; time opens nothing |

Why the bounds are enough. Queue: two attempts are the least with a retry and a last attempt, three starts let
two workers run and one be restarted (or a third process reclaim), a follow-up job gives the outbox something to
lose, and a lock that is stale after one unit lets a slow run, a crash and an early restart all happen. Alerts:
two offsets are the least for "furthest first" to matter, four days put the tender before, between and after
them, two transactions of a kind are the least that race, and one rollback is enough since each alert is judged
by itself; `alert_delivery` needs only a deadline alert and its escalation. Pipeline: two of the notices resemble
the third and not each other, so that a cluster of two can have a canonical notice that the third does not
resemble, and the least query that leaves candidates out has one; the third, amended, is one `same_tender` knows
and the query does not find, and states no version; the three publications are those of all notices, or of two
with an amendment before or after it was placed, or of one with an amendment taken back; two workers race and
reorder; one failure makes any stage run twice or die. The two notices that differ in nothing but their name are
interchangeable, as the workers are: symmetry is used in this run, whose properties are safety only.
Sources: two pages let a record be shown between them and one be cut, a new day begins while a fetch is open, a
budget of one minute lets a source fall silent and recover, and two workers run a fetch beside a sweep or
another fetch. Digest: an hour apart, the two organisations have their hour in different jobs and their local
days change at different times; the 20 of 24 hours that count as today's are all of a day of two. Workspace: a
link in both parts of a message, a footer before it, a limit of two and a message without an id cover what can
drop or double a link; two connections are the least that race and a rollback makes any job run again. Gateway:
two questions share a cache of one entry, one model serves two tiers so that fallbacks add to its failures, and
four calls open a breaker, let it reset and open it again. What the runs find on these instances the proofs
extend to all of them.

Named bounds: `MaxBoots`, `Overdue`, `Horizon`, `MaxAmends`, `MaxAborts`, `MaxOutages`, `MaxPublished`,
`MaxAged`, `MaxReruns`, `MaxTime`, `MaxShown`, `MaxFailures`, `MaxToggles`, `MaxOpen` (a digest transaction is
open for less than a day), `MaxDeliveries`, `MaxCalls`. `CHECK_DEADLOCK FALSE` in the pipeline, sources,
digest, workspace, gateway and matching runs, which stop when a bound is reached and nothing is left to do.

### Fairness

Only two runs assume any. `job_queue_contract`: time passes, a live worker keeps working and a supervisor
restarts a dead one (the repository leaves that to the deployment); nobody is obliged to enqueue, stop or crash,
and that no run outlasts `STALE_RUNNING_AFTER` is assumed there and nowhere else. `alert_delivery`: sweeps and
sends go on, as the scheduler and the workers see to. Mail is not obliged to work: the property is about the
behaviours in which it does from some time on. The other modules state safety only.

## Proofs

Every safety property of the passing runs is proved for all values of the constants, from the one named
assumption of the module (and from `NoneIsNoJob`). Where a property is not
inductive, the module of proofs states what has to be added:

- `JobQueue_proofs`. `TypeCorrect`. `ExclusiveHolds`, and with it `SettledJobsStay`: the row of a job that has
  not overrun is running and names its holder as long as somebody holds it, was locked for at most `StaleAfter`,
  and no two workers hold it; without the age `Start` could reclaim a held row. `EffectsOnceUnlessLost`: a
  ledger that balances commits against completions, commits not yet recorded and commits lost. `OutboxHolds`,
  `DeadLetterHolds`: a held row's snapshot of `attempts` is one below the row's. `ClaimBudgetHolds`: attempts
  are bounded by claims and reclaims, with every held snapshot counted, also those of workers given up for dead.
  `RetriesBoundedHolds` joins it with `DeadLetterHolds`. `QueueKeepsContract`: under `PromptSpec` every step is
  a step of `JobContract` or a stutter. `Outbox` and `SettledIsFinal` follow from the contract while nothing
  overruns; they are proved without that assumption, and no run checks them apart.
- `DeadlineAlerts_proofs`. `AlertsTyped`, in three parts: the calendar, the sweeps, the deliveries.
  `RaisedOnceHolds`: `RaiseInv` adds the rows that open sweeps are about to commit; a race for a J-3 alert
  excuses two escalations, which are about two rows. `MailedForCauseHolds`: `MailInv` adds the rows that open
  transactions have mailed and not yet marked, and that two hold the same row only in `together`.
  `EscalatedInTimeHolds`: `EscalateInv` adds what the sweeps that count are about to commit.
  `RaisedInTimeHolds`: `TimeInv` counts the offsets reached against the sweeps done, so that all of them have been
  raised, the nearest last; that the sweep picks the furthest offset not yet raised needs a largest element of a finite set (lemma `Furthest`). `KeepsOutboxHolds`:
  `NewRows`, what an open sweep is about to commit is its own, not yet there, and repeats an alert that was sent
  (and stays sent, however the sweep interleaves); with `MailInv` for the rows a send transaction has mailed and
  not yet marked.
- `Pipeline_proofs`. `PipelineTyped`, with `Staged` (a dedupe job exists exactly when the notice has a row, a match
  job exactly when it has a cluster) and `Compared` (the candidates a dedupe found keep having clusters).
  `NothingLostHolds`: a job whose handler committed has left its result (`Results`), and no result is taken
  away. `NewestPayloadShows`: from the commit of the newest payload's normalisation, not only from its
  completion, the notice shows it. `VersionsAccountHolds`: a notice without a row has version 0, one not crossed
  has the versions 2..n in its history, and `Announced`: the first version with a key has its alert.
  `NoSecondCardHolds`, an action property: `PlacingInv` = `Sourced` (what a notice shows is stored, so twins are
  alike now), `RacesKnown` (dedupes open together are in `raced`) and `Informed` (an open dedupe has found each
  twin that has a cluster, or is excused from it, however many were placed since it read).
  `StagesKeepContractHolds`: every step of the pipeline is a step of `JobContract` or a stutter.
- `Sources_proofs`. `SourcesTyped`. `NothingSkippedHolds`: `SkipInv` = `Ordered` (days ascend), `Resting` (a
  worker at rest carries nothing), `Passed` (the watermark is no later than now), `Begun`, `Paged` (what a fetch
  has read covers the newest records down to its offset, of those known when it began), `Whole` (a fetch that is
  writing has all of its window, or is cut) and `NothingSkipped`. `GreenIsFreshHolds` and
  `TransitionsRecordedHolds`: `FreshInv` = `Clocks`, `Verdicts` (what an open sweep is to write follows from
  what it read) and `Fresh`.
- `Digest_proofs`. `DigestTyped`; `OneDigestHolds`, `NobodyForgottenHolds` and `TwoMailsAtMostHolds` from
  `DigestInv` = `Hours` (an open transaction began in an hour of the clock and less than a day ago), `Kinds`,
  `Single` (two rows about a day, committed or open, are in `crowded`), `Spoken` (an organisation passed over
  with news has a row, the transaction's own or a committed one), `NobodyForgotten` and `Mailed` (mails are
  about rows that exist, or are undone).
- `Workspace_proofs`. `TypeOKHolds`. `TeamDecidesHolds`. `OneWatchHolds`: `WatchInv` = `OneWatch` and
  `SavesApart`, one save is past its upsert, so that the count it holds is still the count.
  `PursuitReusesHolds`: `Numbered` (numbers follow commits) and `LookedAt` (a tender of the notice that a
  pursuit did not find is younger than its look). `OneTenderPerLinkHolds`: `LinkInv` adds that a mail under way
  opens a link once; both are `OneWorkspace`. `EveryLinkOpenedHolds`: `CoverInv` = `ComeTo` (a link that a mail
  is past has a tender, committed or its own) and `Processed` (so have the links of a job that is done);
  `LinksCover` shows that the links kept are all of them or as many as the limit, by counting the places before
  each (`LimitReached`, `FirstAppearance`). `TakesEffectAtOnceHolds`: `ReadsInv`, what a transaction has read
  still holds when it commits - a notice that is scored is known and still fits, as watch profiles are only
  added; the match of a pursuit exists; and the links a mail has opened are due, once each, and recognised only
  if their notice is known. `ImplementsContract`: a workspace in which nothing overlaps (`SerialSpec`)
  implements `WorkspaceContract`. `BoardShowsAll`: its tenders differ in notice, link or origin, from `Origins`
  (a tender of a pursuit has a notice, one of a mail a link).
- `Gateway_proofs`. `GatewayTyped`, `AccountedHolds`. `BreakerSparesHolds`: `BreakersOK`, a closed breaker has counted
  the recent failures and is below the threshold, an open one has seen none since it opened.
  `DegradesOnlyOnFailureHolds`: `Degraded` adds that a breaker opens at a failure, and that the models a call went
  past had failed. `AnswersInTimeHolds`: an entry of the cache is no older than the answer it holds, and a hit
  does not renew it.
- `Matching_proofs`. `GeographyIsReachHolds`: two codes are comparable by prefix exactly when an area lies below both
  (`CommonArea`), for which every place and zone must name an area. `OnlyClosesHolds`: each fit is monotone in the
  day, and so are rounding and the sum.

### Only model-checked

- Liveness: `EventuallySettled`, `DeliveredOnceMailWorks`.
- The refinements are proved for safety. The abstract specifications state no fairness, so there is no liveness
  for them to carry over.
- The expected violations, which are counterexamples.

## Where the code and its documentation disagree

Two have a run and an entry under "findings":

- A deadline that an amendment moves does not reach the tender that copied it, though `alerts.py:11-12` says
  that sweeps correct themselves (`pipeline.py:372`; run `alert_moved_deadline`).
- A normalisation that runs twice takes its own first run for the previous state and clears the
  status `amended` (`pipeline.py:326` against `pipeline.py:14-15`; run `pipeline_flag_lost`).

The others came up while modelling. The models have the behaviour and the properties exempt it by name:

- Stale rows are reclaimed only when a process starts (`worker.py:172`): a crash followed by an early restart
  strands the job, which `worker.py:134` does not expect. `EventuallySettled` says "settled or stranded".
- A live worker that takes longer than `STALE_RUNNING_AFTER` has its job handed to a second one
  (`queue.py:224-241` against `queue.py:8-9`). `Exclusive` exempts jobs that have overrun.
- Overlapping deadline sweeps double an alert (`alerts.py:175` against `alerts.py:14`): `RaisedOnceUnlessRaced`.
- ADR-0012 (`docs/DECISIONS.md:227-238`), `alerts.py:95-97` and the docstring at `test_alerts.py:60-62` have only
  the nearest unsent offset fire. The code goes from the furthest offset down (`alerts.py:109`), and the test itself
  asserts 14: a tender pursued late gets its J-14, J-7 and J-3 alerts from three sweeps, the one that matters
  last. `RaisedInTime` asks for the nearest only, and allows as many sweeps as offsets have been reached; that
  no further one is raised no property says, since the code does raise them.
- The alert of an amendment is keyed by the version the payload states, so a second amendment of a BOAMP notice
  enqueues none (`pipeline.py:283`), although `pipeline.py:16` and `docs/STATUS.md:37` make no exception and
  `test_pipeline.py:419` takes the job for the team being told. `VersionsAccount` excuses a version whose key an
  earlier one has, and speaks of jobs only: nobody is told by them (see below).
- "A duplicate arriving days later joins its cluster rather than creating a second card" (`pipeline.py:20`), and a
  shared reference is "the cheapest and most reliable link" (`dedupe.py:181-183`). But notices with neither near
  deadlines nor one SIREN are never compared, whatever they refer to, nor those that are 45 days apart or beyond
  the last 50 (`pipeline.py:418-435`); a notice amended after its dedupe is not placed again; and two notices that
  only a third one resembles stay apart. `NoSecondCard` is about twins, and exempts `aged`, `crowded` and `raced`.
- `worker.py:88-89` and `notify.py:216-218` say that a lost, duplicated or retried `notify.send` job "cannot cause a
  double send". Two that run at once read the same rows, and one that is rolled back has mailed what the next
  mails again: `MailedForCause` exempts both.
- A fetch that dies marks its source degraded (`pipeline.py:215-236`), and the next sweep turns it green while the last
  success is within the silence budget; `GreenIsFresh` looks at that success only.
- A dedupe or match job is never enqueued a second time for a notice, so an amended one keeps the scores of the
  payload it was matched with (`pipeline.py:274`, `:509`); the last part of `NothingLost` asks for some scores only.
- `boamp.py:235` narrows the window beyond `MAX_OFFSET` according to its comment; the code returns
  (`boamp.py:261-262`), and the watermark moves on (`pipeline.py:194-211`). `NothingSkipped` exempts `cut`.
- A record shown while a fetch runs past midnight can fall behind its watermark; `NothingSkipped` exempts
  `overtaken`. A fetch that takes longer than the silence budget leaves its source green with an old
  `last_success_at`; a sweep that a fetch overtakes writes an old verdict. `GreenIsFresh` exempts `raced`.
- "60s is exact" (`worker.py:40`), but ticks are more than 60 s apart and wait for the job in hand, so the one
  minute that a cron names can be missed. `base.py:33` retries transient statuses only according to its
  comment; all errors of `raise_for_status` are retried (`base.py:154-173`).
- The digest's row is inserted unsent (`notify.py:370`) and mailed again by `notify.send` as a bare
  notification: `TwoMailsAtMost` allows two. A digest mailed and then rolled back is mailed again, a digest job
  that runs outside an organisation's hour sends it nothing, and overlapping jobs can send two (`OneDigest`).
- Pursuits of one match that overlap open two tenders (`matches.controller.ts:174`), as do overlapping deliveries
  of one mail (`inbound.py:407`). A mail about a notice already pursued opens a second tender, and one that comes
  before its notice is never linked to it; tenders from mail have no deadline and so no alerts.
- A later save of the profile does not refresh the watch profile (`profile.controller.ts:156` says it does).
- `notify.send` jobs of high scores and amendments have no row in `notifications`, and `run_notify_send` does not look
  at their payload (`worker.py:85-91`), so that nothing is mailed for them; paging through matches by cursor
  skips rows that a rescoring moves (`matches.controller.ts:100`).
- A breaker that half opens lets the whole failure budget through, where the comment promises one call
  (`gateway.py:117`): `BreakerSpares` bounds the calls by the threshold. An answer of a cheaper model is cached
  under the model asked for; usage counts the last attempt only and is rolled back with the caller, while
  the cache keeps the answer; a hit records nothing, although `gateway.py:158` says so (`Accounted`).
- A notice without codes or procedure is excluded by a filter on them, although absent data is said not to be a
  mismatch; a passed deadline passes the filters unless a minimum of days is set; a word of which normalisation
  leaves nothing is found in every text. `run_match` passes no notice types, certifications or buyers
  (`pipeline.py:601-630`).

## Hazards without a property

`PROJECT.json` lists the hazards with the properties about them. Three have none: the limit of 100 rows
in `notify.send` (`notify.py:237`; it takes a hundred rows that fail each time), a payload that reverts to an
earlier one and is never stored again (`pipeline.py:320`; the model has it, no document says what should
show), and the cron minute between two ticks (`scheduler.py:121`; ticks may miss any minute in `Sources`, and
its properties hold all the same).

## Not modelled

Row-level security (declarative SQL, covered by the repository's own tests), parsers (format conversion),
`documents.py`, prompts and the evaluation harness (pure or offline), `cluster_notices`, `merge` and `run_funnel`
(only tests call them), the web application, single-row API controllers and reads, and Postgres itself
beyond unique keys, row locks, READ COMMITTED and atomic commit.

## What could come next

A composition of `Workspace` with `DeadlineAlerts` would show the alerts of tenders that a mail opened; push
sources and the limits of manual fetches in `Sources`; and several recipients of one alert in
`DeadlineAlerts`, of which one that accepts is enough for `sent_at`.
