------------------------------ MODULE Pipeline ------------------------------
(***************************************************************************)
(* The ingestion pipeline (pipeline.py): fetch stores raw payloads, and    *)
(* jobs normalise them into notices, place the notices in clusters and     *)
(* score them.  The queue is the contract JobContract states: a pending    *)
(* job is held by one worker at a time, and runs again when its handler    *)
(* committed and its completion did not.                                   *)
(*                                                                         *)
(* A handler is one READ COMMITTED transaction: what it reads (Take), and  *)
(* its writes with their commit, other transactions in between.  A payload *)
(* is known by its content, that is by its hash.  Left out as data that no *)
(* stage reads: merged_from and confidence of a cluster, the matches of    *)
(* single profiles and the notify.send jobs of high scores.                *)
(*                                                                         *)
(* Whether two notices are compared, and taken for one tender, depends on  *)
(* what they show: two relations, neither of which need be transitive.     *)
(***************************************************************************)
EXTENDS Integers, FiniteSets

CONSTANTS
  Notice,        \* publications: source and external id
  Content,       \* content hashes
  None,          \* no content, no cluster, no job
  Near,          \* what the query of run_dedupe lets be compared: candidate and notice
  Same,          \* what same_tender takes for one tender
  SourceVersion, \* the version that a content gives of its notice: CanonicalNotice.version
  Says,          \* the contents that the source of a notice can give it
  MaxCandidates, \* MAX_CLUSTER_CANDIDATES
  Worker,
  MaxPublished,  \* bound: publications and amendments by the sources
  MaxAged,       \* bound: notices that grow older than the candidate window
  MaxReruns      \* bound: failures of a worker with a job in hand

Job == [kind : {"normalize"}, notice : Notice, content : Content]
         \cup
       [kind : {"dedupe", "match"}, notice : Notice, content : {None}]

ASSUME PipelineAssumption ==
  /\ None \notin Notice /\ None \notin Content /\ None \notin Job
  /\ Near \subseteq (Notice \X Content) \X (Notice \X Content)
  /\ Same \subseteq (Notice \X Content) \X (Notice \X Content)
  /\ SourceVersion \in [Notice -> [Content -> Nat]]
  /\ Says \in [Notice -> SUBSET Content]
  /\ MaxCandidates \in Nat /\ MaxPublished \in Nat /\ MaxAged \in Nat /\ MaxReruns \in Nat

Normalizing(n, c) == [kind |-> "normalize", notice |-> n, content |-> c]
Deduping(n) == [kind |-> "dedupe", notice |-> n, content |-> None]
Matching(n) == [kind |-> "match", notice |-> n, content |-> None]

VARIABLES
  published,  \* what the source shows of each notice
  \* tables
  raw,        \* raw_notices: notices and contents
  newest,     \* ... and the content with the latest fetched_at
  phase,      \* jobs: "absent", "pending", "done" or "dead"
  content,    \* notices: provenance.raw_content_hash, None if there is no row
  version,
  flagged,    \* ... status = amended
  history,    \* notice_versions: version and content
  alerts,     \* notify.send jobs for amendments: version of their key, version they tell of
  aged,       \* ... created_at is past the candidate window of 45 days
  clusters,   \* tender_clusters, known by their canonical_notice_id
  cluster,    \* notices.cluster_id
  scored,     \* the content that the matches of a notice were scored on
  \* a worker
  pc,         \* "idle", "handling" or "completing"
  hand,       \* its job
  seen,       \* what the handler's transaction has read
  \* history, read by no action
  ran,        \* jobs whose handler has committed
  late,       \* notices for which an older content was normalised after the newest
  crossed,    \* notices written by a normalisation that had read another state
  raced,      \* pairs of notices whose dedupes were open at the same time
  crowded,    \* notices whose dedupe left candidates out, being more than MaxCandidates
  amendments, reruns

notices == <<content, version, flagged, history, alerts>>
placing == <<clusters, cluster>>
worker == <<pc, hand, seen>>
past == <<ran, late, crossed, raced, crowded>>
vars == <<published, raw, newest, phase, notices, aged, placing, scored, worker, past,
          amendments, reruns>>

Nothing == [content |-> None, version |-> 0, alike |-> {}]

Init ==
  /\ published = [n \in Notice |-> None]
  /\ raw = {}
  /\ newest = [n \in Notice |-> None]
  /\ phase = [j \in Job |-> "absent"]
  /\ content = [n \in Notice |-> None]
  /\ version = [n \in Notice |-> 0]
  /\ flagged = [n \in Notice |-> FALSE]
  /\ history = [n \in Notice |-> {}] /\ alerts = [n \in Notice |-> {}]
  /\ aged = {}
  /\ clusters = {}
  /\ cluster = [n \in Notice |-> None]
  /\ scored = [n \in Notice |-> None]
  /\ pc = [w \in Worker |-> "idle"]
  /\ hand = [w \in Worker |-> None]
  /\ seen = [w \in Worker |-> Nothing]
  /\ ran = {} /\ late = {} /\ crossed = {} /\ raced = {} /\ crowded = {}
  /\ amendments = 0 /\ reruns = 0

-----------------------------------------------------------------------------
(* A source publishes a notice, amends it, or takes an amendment back.     *)
Publish(n, c) ==
  /\ amendments < MaxPublished
  /\ c \in Says[n] \ {published[n]}
  /\ published' = [published EXCEPT ![n] = c]
  /\ amendments' = amendments + 1
  /\ UNCHANGED <<raw, newest, phase, notices, aged, placing, scored, worker, past, reruns>>

(* Variant: a job that exists already is queued again.                     *)
EnqueuedAgain(J) == [j \in Job |-> IF j \in J THEN "pending" ELSE phase[j]]

(* enqueue: a job whose key exists stays as it is.                         *)
Enqueued(J) ==
  [j \in Job |-> IF j \in J /\ phase[j] = "absent" THEN "pending" ELSE phase[j]]

(* What the source shows and raw_notices does not hold yet.                *)
Fresh ==
  {nc \in Notice \X Content : published[nc[1]] = nc[2] /\ nc \notin raw}

(* Variant: only notices that have no row yet are normalised.              *)
NormalizeJobsOfNew ==
  {Normalizing(nc[1], nc[2]) : nc \in {mc \in Fresh : content[mc[1]] = None}}

NormalizeJobs == {Normalizing(nc[1], nc[2]) : nc \in Fresh}

(* run_source_fetch: payloads and their jobs in one transaction.  What was *)
(* stored before conflicts with its row, so overlapping windows do nothing.*)
Fetch ==
  /\ Fresh # {}
  /\ raw' = raw \cup Fresh
  /\ newest' = [n \in Notice |-> IF <<n, published[n]>> \in Fresh THEN published[n]
                                 ELSE newest[n]]
  /\ phase' = Enqueued(NormalizeJobs)
  /\ late' = late \ {nc[1] : nc \in Fresh}
  /\ UNCHANGED <<published, notices, aged, placing, scored, worker, ran, crossed, raced,
                 crowded, amendments, reruns>>

-----------------------------------------------------------------------------
(* CLUSTER_CANDIDATE_WINDOW passes: 45 days since the row of n was created.*)
(* Only a notice with a cluster is ever looked for.                        *)
Ages(n) ==
  /\ cluster[n] # None /\ n \notin aged /\ Cardinality(aged) < MaxAged
  /\ aged' = aged \cup {n}
  /\ UNCHANGED <<published, raw, newest, phase, notices, placing, scored, worker, past,
                 amendments, reruns>>

Shown(n) == <<n, content[n]>>

(* Variant: only the canonical notices of the clusters are looked for.     *)
EligibleCanonical(n) ==
  {m \in clusters \ {n} : m \notin aged /\ <<Shown(m), Shown(n)>> \in Near}

(* The notices that the query of run_dedupe selects: same country and type,*)
(* and a deadline at most a day away or the same SIREN.                    *)
Eligible(n) ==
  {m \in Notice \ {n} :
     cluster[m] # None /\ m \notin aged /\ <<Shown(m), Shown(n)>> \in Near}

(* ... of which it returns so many: the last created, in the code.         *)
Candidates(n) ==
  IF Cardinality(Eligible(n)) <= MaxCandidates THEN {Eligible(n)}
  ELSE {C \in SUBSET Eligible(n) : Cardinality(C) = MaxCandidates}

(* same_tender: a shared reference, or the buyer with deadline and title.  *)
Alike(C, n) == {m \in C : <<Shown(m), Shown(n)>> \in Same}

(* Variant: a job can be claimed by two workers.                           *)
FreeAlways(j) == phase[j] = "pending"

Free(j) == phase[j] = "pending" /\ \A w \in Worker : hand[w] # j

Handling(w, kind) == pc[w] = "handling" /\ hand[w].kind = kind

(* A worker claims a job, and its handler's transaction reads.             *)
Take(w, j) ==
  /\ pc[w] = "idle"
  /\ Free(j)
  /\ pc' = [pc EXCEPT ![w] = "handling"]
  /\ hand' = [hand EXCEPT ![w] = j]
  /\ \E C \in IF j.kind = "dedupe" THEN Candidates(j.notice) ELSE {{}} :
       /\ seen' = [seen EXCEPT ![w] =
            [content |-> content[j.notice], version |-> version[j.notice],
             alike |-> Alike(C, j.notice)]]
       /\ crowded' = IF j.kind # "dedupe" THEN crowded
                     ELSE IF C # Eligible(j.notice) THEN crowded \cup {j.notice}
                     ELSE crowded \ {j.notice}
  /\ raced' = IF j.kind # "dedupe" THEN raced
              ELSE {p \in raced : j.notice \notin p} \cup
                   {{hand[v].notice, j.notice} :
                      v \in {u \in Worker : Handling(u, "dedupe")}}
  /\ UNCHANGED <<published, raw, newest, phase, notices, aged, placing, scored, ran, late,
                 crossed, amendments, reruns>>

(* The handler's transaction commits, with the jobs J it enqueues.         *)
Committed(w, J) ==
  /\ pc' = [pc EXCEPT ![w] = "completing"]
  /\ phase' = Enqueued(J)
  /\ ran' = ran \cup {hand[w]}
  /\ UNCHANGED <<hand, seen>>

(* upsert_notice: another hash than that of the row it read is an          *)
(* amendment, with a version of its own.                                   *)
Amends(w) == seen[w].content \notin {None, hand[w].content}

(* Variant: the version is not counted up.                                 *)
NextVersionSame(w) == IF seen[w].content = None THEN 1 ELSE seen[w].version

NextVersion(w) ==
  IF Amends(w) THEN seen[w].version + 1
  ELSE IF seen[w].content = None THEN 1 ELSE seen[w].version

(* Variant: the row of a notice is inserted and never updated.             *)
StoredOnce(w) == IF seen[w].content = None THEN hand[w].content ELSE seen[w].content

Stored(w) == hand[w].content

(* A tender.amended job for version v, whose key is the version that the   *)
(* source gives: enqueue leaves a job that has this key as it is.          *)
Alerted(n, key, v) ==
  alerts[n] \cup (IF \A a \in alerts[n] : a[1] # key THEN {<<key, v>>} ELSE {})

Normalize(w) ==
  LET n == hand[w].notice
      v == NextVersion(w)
  IN /\ Handling(w, "normalize")
     /\ content' = [content EXCEPT ![n] = Stored(w)]
     /\ version' = [version EXCEPT ![n] = v]
     /\ flagged' = [flagged EXCEPT ![n] = Amends(w)]
     /\ history' = [history EXCEPT ![n] =
          IF Amends(w) /\ \A h \in @ : h[1] # v THEN @ \cup {<<v, hand[w].content>>}
          ELSE @]
     /\ alerts' = [alerts EXCEPT ![n] =
          IF Amends(w) THEN Alerted(n, SourceVersion[n][hand[w].content], v) ELSE @]
     /\ Committed(w, {Deduping(n)})
     /\ late' = IF hand[w].content # newest[n] /\ Normalizing(n, newest[n]) \in ran
                THEN late \cup {n} ELSE late
     /\ crossed' = IF content[n] # seen[w].content \/ version[n] # seen[w].version
                   THEN crossed \cup {n} ELSE crossed
     /\ UNCHANGED <<published, raw, newest, aged, placing, scored, raced, crowded,
                    amendments, reruns>>

(* run_dedupe with a match: the notice joins the cluster of a candidate -  *)
(* the latest created one, in the code.                                    *)
Join(w, m) ==
  LET n == hand[w].notice
  IN /\ Handling(w, "dedupe")
     /\ m \in seen[w].alike
     /\ cluster' = [cluster EXCEPT ![n] = cluster[m]]
     /\ Committed(w, {Matching(n)})
     /\ UNCHANGED <<published, raw, newest, notices, aged, clusters, scored, late, crossed,
                    raced, crowded, amendments, reruns>>

(* ... and without: it is the canonical member of a new cluster.           *)
Found(w) ==
  LET n == hand[w].notice
  IN /\ Handling(w, "dedupe")
     /\ seen[w].alike = {} /\ n \notin clusters
     /\ clusters' = clusters \cup {n}
     /\ cluster' = [cluster EXCEPT ![n] = n]
     /\ Committed(w, {Matching(n)})
     /\ UNCHANGED <<published, raw, newest, notices, aged, scored, late, crossed, raced,
                    crowded, amendments, reruns>>

Release(w) ==
  /\ pc' = [pc EXCEPT ![w] = "idle"]
  /\ hand' = [hand EXCEPT ![w] = None]
  /\ seen' = [seen EXCEPT ![w] = Nothing]

(* canonical_notice_id is unique: a second cluster of the notice raises,   *)
(* and the job is retried, or dead.                                        *)
Refused(w) ==
  LET n == hand[w].notice
  IN /\ Handling(w, "dedupe")
     /\ seen[w].alike = {} /\ n \in clusters
     /\ Release(w)
     /\ \E p \in {"pending", "dead"} : phase' = [phase EXCEPT ![hand[w]] = p]
     /\ UNCHANGED <<published, raw, newest, notices, aged, placing, scored, past,
                    amendments, reruns>>

(* run_match scores the content it read against every enabled profile.     *)
Match(w) ==
  /\ Handling(w, "match")
  /\ scored' = [scored EXCEPT ![hand[w].notice] = seen[w].content]
  /\ Committed(w, {})
  /\ UNCHANGED <<published, raw, newest, notices, aged, placing, late, crossed, raced,
                 crowded, amendments, reruns>>

Complete(w) ==
  /\ pc[w] = "completing"
  /\ phase' = [phase EXCEPT ![hand[w]] = "done"]
  /\ Release(w)
  /\ UNCHANGED <<published, raw, newest, notices, aged, placing, scored, past, amendments,
                 reruns>>

(* The worker dies, or a statement fails: before the commit the handler is *)
(* rolled back, after it the completion is lost.  The queue runs the job   *)
(* again, or has it dead after its last attempt.                           *)
Fail(w) ==
  /\ pc[w] # "idle"
  /\ reruns < MaxReruns
  /\ reruns' = reruns + 1
  /\ \E p \in {"pending", "dead"} : phase' = [phase EXCEPT ![hand[w]] = p]
  /\ Release(w)
  /\ UNCHANGED <<published, raw, newest, notices, aged, placing, scored, past, amendments>>

Handle(w) ==
  Normalize(w) \/ (\E m \in Notice : Join(w, m)) \/ Found(w) \/ Refused(w) \/ Match(w)

Next ==
  \/ \E n \in Notice, c \in Content : Publish(n, c)
  \/ Fetch
  \/ \E n \in Notice : Ages(n)
  \/ \E w \in Worker :
       (\E j \in Job : Take(w, j)) \/ Handle(w) \/ Complete(w) \/ Fail(w)

Spec == Init /\ [][Next]_vars

-----------------------------------------------------------------------------
(* The type of every variable; a job in hand is pending and one worker's.  *)
TypeOK ==
  /\ published \in [Notice -> Content \cup {None}]
  /\ raw \subseteq Notice \X Content
  /\ newest \in [Notice -> Content \cup {None}]
  /\ phase \in [Job -> {"absent", "pending", "done", "dead"}]
  /\ content \in [Notice -> Content \cup {None}]
  /\ version \in [Notice -> Nat] /\ flagged \in [Notice -> BOOLEAN]
  /\ history \in [Notice -> SUBSET (Nat \X Content)]
  /\ alerts \in [Notice -> SUBSET (Nat \X Nat)] /\ aged \subseteq Notice
  /\ clusters \subseteq Notice /\ cluster \in [Notice -> clusters \cup {None}]
  /\ scored \in [Notice -> Content \cup {None}]
  /\ pc \in [Worker -> {"idle", "handling", "completing"}]
  /\ hand \in [Worker -> Job \cup {None}]
  /\ seen \in [Worker -> [content : Content \cup {None}, version : Nat, alike : SUBSET Notice]]
  /\ \A w \in Worker : /\ pc[w] = "idle" <=> hand[w] = None
                       /\ hand[w] # None => phase[hand[w]] = "pending"
  /\ \A v, w \in Worker : v # w /\ hand[v] = hand[w] => hand[v] = None
  /\ ran \subseteq Job /\ late \subseteq Notice /\ crossed \subseteq Notice
  /\ raced \subseteq SUBSET Notice /\ crowded \subseteq Notice
  /\ amendments \in 0..MaxPublished /\ reruns \in 0..MaxReruns

(* "None of them can half-complete" (pipeline.py): at every moment each    *)
(* stage has left its result, or has a job that will or that is dead for   *)
(* all to see, whatever crashed and whatever ran twice.                    *)
NothingLost ==
  /\ \A n \in Notice, c \in Content : <<n, c>> \in raw =>
       \/ phase[Normalizing(n, c)] \in {"pending", "dead"}
       \/ phase[Normalizing(n, c)] = "done" /\ content[n] # None
  /\ \A n \in Notice : content[n] # None =>
       phase[Deduping(n)] \in {"pending", "dead"} \/ cluster[n] \in clusters
  /\ \A n \in Notice : cluster[n] # None =>
       phase[Matching(n)] \in {"pending", "dead"} \/ scored[n] # None

(* A notice shows the newest payload once that has been normalised,        *)
(* whatever order the jobs ran in, unless an older one was normalised      *)
(* after it.                                                               *)
UpToDateUnlessLate ==
  \A n \in Notice \ late :
    newest[n] # None /\ phase[Normalizing(n, newest[n])] = "done" =>
      content[n] = newest[n]

SourceVersionOf(n, h) == SourceVersion[n][h[2]]

(* "A changed content hash is an amendment, not an update" (pipeline.py):  *)
(* the versions of a notice account for every change of its content, none  *)
(* left out and none twice, and each has an alert job of its own unless    *)
(* the source had given its version before - which one that numbers        *)
(* nothing always has, from the second amendment on: enqueue then returns  *)
(* None, though pipeline.py's "notifies assignees" has no exception.  Two  *)
(* normalisations that crossed are left out.  Of an alert only the job is  *)
(* meant: run_notify_send does not read what it was enqueued for.          *)
VersionsAccount ==
  \A n \in Notice \ crossed :
    /\ {h[1] : h \in history[n]} = 2..version[n]
    /\ \A g, h \in history[n] : g[1] = h[1] => g = h
    /\ version[n] > 1 => <<version[n], content[n]>> \in history[n]
    /\ \A h \in history[n] :
         \/ <<SourceVersionOf(n, h), h[1]>> \in alerts[n]
         \/ \E g \in history[n] : g[1] < h[1] /\ SourceVersionOf(n, g) = SourceVersionOf(n, h)

(* Whatever m and n have shown, run_dedupe would compare them, and match.  *)
Twins(m, n) ==
  \A a, b \in Content :
    <<m, a>> \in raw /\ <<n, b>> \in raw => <<<<m, a>>, <<n, b>>>> \in Near \cap Same

(* "A duplicate arriving days later joins its cluster rather than creating *)
(* a second card" (pipeline.py): no cluster is created for a notice with a *)
(* twin that has one, unless their dedupes were open together, the twin is *)
(* older than 45 days or there were more candidates than the query returns.*)
NoSecondCard ==
  [][\A n \in clusters' \ clusters, m \in Notice :
       m # n /\ cluster[m] # None /\ Twins(m, n) =>
         {m, n} \in raced \/ m \in aged \/ n \in crowded]_vars

(* pipeline.py: a changed content hash "flags the notice `amended`", and   *)
(* stages are "safely re-runnable": a notice with an amendment in its      *)
(* history is flagged.                                                     *)
AmendedStaysFlagged ==
  \A n \in Notice \ crossed : version[n] > 1 => flagged[n]

(* What each stage enqueues when it succeeds.                              *)
NextStage ==
  [j \in Job |-> CASE j.kind = "normalize" -> {Deduping(j.notice)}
                   [] j.kind = "dedupe" -> {Matching(j.notice)}
                   [] j.kind = "match" -> {}]

Contract == INSTANCE JobContract WITH
  Root <- {j \in Job : j.kind = "normalize"}, Follow <- NextStage

(* "each stage a separate queue job so any of them can be restarted        *)
(* independently" (pipeline.py): a fetch starts jobs of the first stage    *)
(* only, every other job comes from one of the stage before it that        *)
(* committed, a stage that runs again enqueues nothing twice, and a        *)
(* settled job stays settled.                                              *)
StagesKeepContract == Contract!Spec
=============================================================================
