--------------------------- MODULE Pipeline_proofs ---------------------------
(***************************************************************************)
(* Proofs about Pipeline, for any notices, contents, workers and bounds,   *)
(* and any way of comparing notices and of telling tenders apart.          *)
(***************************************************************************)
EXTENDS Pipeline, TLAPS

Phase == {"absent", "pending", "done", "dead"}

(* What a job is, without the records it is made of.                       *)
LEMMA JobShape ==
  /\ \A n \in Notice, c \in Content : Normalizing(n, c) \in Job
  /\ \A n \in Notice : Deduping(n) \in Job /\ Matching(n) \in Job
  /\ \A j \in Job :
       /\ j.notice \in Notice /\ j.content \in Content \cup {None}
       /\ \/ j.kind = "normalize" /\ j.content \in Content /\ j = Normalizing(j.notice, j.content)
          \/ j.kind = "dedupe" /\ j = Deduping(j.notice)
          \/ j.kind = "match" /\ j = Matching(j.notice)
  /\ \A n, m, c, d : Normalizing(n, c) = Normalizing(m, d) => n = m /\ c = d
  /\ \A n, m : Deduping(n) = Deduping(m) => n = m
  /\ \A n, m : Matching(n) = Matching(m) => n = m
  /\ \A n, m, c : /\ Normalizing(n, c) # Deduping(m) /\ Normalizing(n, c) # Matching(m)
                  /\ Deduping(n) # Matching(m)
  /\ \A n, c : Normalizing(n, c).kind = "normalize" /\ Normalizing(n, c).notice = n
  /\ \A n : Deduping(n).kind = "dedupe" /\ Matching(n).kind = "match"
  /\ \A n : Deduping(n).notice = n /\ Matching(n).notice = n
BY DEF Job, Normalizing, Deduping, Matching

(* enqueue inserts the jobs that have no row, and changes no row.          *)
LEMMA EnqueuedShape ==
  ASSUME phase \in [Job -> Phase], NEW J
  PROVE  /\ Enqueued(J) \in [Job -> Phase]
         /\ \A j \in Job : j \in J => Enqueued(J)[j] # "absent"
         /\ \A j \in Job \ J : Enqueued(J)[j] = phase[j]
         /\ \A j \in Job : phase[j] # "absent" => Enqueued(J)[j] = phase[j]
         /\ \A j \in Job : Enqueued(J)[j] \in {"done", "dead"} => Enqueued(J)[j] = phase[j]
BY DEF Enqueued, Phase

(* A job exists exactly when what it works on does.                        *)
Staged ==
  /\ \A n \in Notice, c \in Content :
       <<n, c>> \in raw <=> phase[Normalizing(n, c)] # "absent"
  /\ \A n \in Notice : content[n] # None <=> phase[Deduping(n)] # "absent"
  /\ \A n \in Notice : cluster[n] # None <=> phase[Matching(n)] # "absent"
  /\ \A n \in Notice : cluster[n] # None => content[n] # None

(* The candidates a dedupe has found have clusters.                        *)
Compared == \A w \in Worker : \A m \in seen[w].alike : cluster[m] # None

Typed == TypeOK /\ Staged /\ Compared

(* What TypeOK says of the worker that an action is about.                 *)
LEMMA InHand ==
  ASSUME Typed, NEW w \in Worker, pc[w] # "idle"
  PROVE  /\ hand[w] \in Job /\ hand[w].notice \in Notice
         /\ phase[hand[w]] = "pending"
         /\ \A v \in Worker : v # w => hand[v] # hand[w]
         /\ hand[w].kind = "normalize" =>
              /\ hand[w].content \in Content
              /\ hand[w] = Normalizing(hand[w].notice, hand[w].content)
         /\ hand[w].kind = "dedupe" => hand[w] = Deduping(hand[w].notice)
         /\ hand[w].kind = "match" => hand[w] = Matching(hand[w].notice)
<1>1. hand[w] \in Job /\ phase[hand[w]] = "pending"
  BY DEF Typed, TypeOK
<1>2. \A v \in Worker : v # w => hand[v] # hand[w]
  BY <1>1, PipelineAssumption DEF Typed, TypeOK
<1>3. QED
  BY <1>1, <1>2, JobShape

-----------------------------------------------------------------------------
(* The part of the types that is about jobs and the workers that hold them.*)
Holding ==
  /\ phase \in [Job -> Phase]
  /\ pc \in [Worker -> {"idle", "handling", "completing"}]
  /\ hand \in [Worker -> Job \cup {None}]
  /\ seen \in [Worker -> [content : Content \cup {None}, version : Nat, alike : SUBSET Notice]]
  /\ \A w \in Worker : /\ pc[w] = "idle" <=> hand[w] = None
                       /\ hand[w] # None => phase[hand[w]] = "pending"
  /\ \A v, w \in Worker : v # w /\ hand[v] = hand[w] => hand[v] = None

(* ... and the rest.                                                       *)
Rows ==
  /\ published \in [Notice -> Content \cup {None}]
  /\ raw \subseteq Notice \X Content
  /\ newest \in [Notice -> Content \cup {None}]
  /\ content \in [Notice -> Content \cup {None}]
  /\ version \in [Notice -> Nat] /\ flagged \in [Notice -> BOOLEAN]
  /\ history \in [Notice -> SUBSET (Nat \X Content)] 
  /\ alerts \in [Notice -> SUBSET (Nat \X Nat)] /\ aged \subseteq Notice
  /\ clusters \subseteq Notice /\ cluster \in [Notice -> clusters \cup {None}]
  /\ scored \in [Notice -> Content \cup {None}]
  /\ ran \subseteq Job /\ late \subseteq Notice /\ crossed \subseteq Notice
  /\ raced \subseteq SUBSET Notice /\ crowded \subseteq Notice
  /\ amendments \in 0..MaxPublished /\ reruns \in 0..MaxReruns

LEMMA TypeParts == TypeOK <=> Holding /\ Rows
BY DEF TypeOK, Holding, Rows, Phase

LEMMA NothingType ==
  Nothing \in [content : Content \cup {None}, version : Nat, alike : SUBSET Notice]
BY DEF Nothing

(* A handler that commits keeps its job, and other workers theirs.         *)
LEMMA CommitKeepsHolding ==
  ASSUME Typed, NEW w \in Worker, pc[w] = "handling", NEW J, Committed(w, J)
  PROVE  Holding'
<1>1. Holding
  BY TypeParts DEF Typed
<1>2. phase' = Enqueued(J) /\ phase \in [Job -> Phase]
  BY <1>1 DEF Committed, Holding
<1>3. phase' \in [Job -> Phase]
  BY <1>2, EnqueuedShape
<1>4. \A j \in Job : phase[j] = "pending" => phase'[j] = "pending"
  BY <1>2, EnqueuedShape
<1>5. QED
  BY <1>1, <1>3, <1>4 DEF Committed, Holding

(* A worker that lets go of its job leaves other jobs as they are.         *)
LEMMA ReleaseKeepsHolding ==
  ASSUME Typed, NEW w \in Worker, pc[w] # "idle", Release(w),
         NEW p \in Phase, phase' = [phase EXCEPT ![hand[w]] = p]
  PROVE  Holding'
<1>1. Holding
  BY TypeParts DEF Typed
<1>2. hand[w] \in Job /\ \A v \in Worker : v # w => hand[v] # hand[w]
  BY InHand
<1>3. /\ pc' = [pc EXCEPT ![w] = "idle"]
      /\ hand' = [hand EXCEPT ![w] = None]
      /\ seen' = [seen EXCEPT ![w] = Nothing]
  BY DEF Release
<1>4. phase' \in [Job -> Phase]
  BY <1>1 DEF Holding
<1>5. seen' \in [Worker -> [content : Content \cup {None}, version : Nat, alike : SUBSET Notice]]
  BY <1>1, <1>3, NothingType DEF Holding
<1>6. \A v \in Worker : /\ pc'[v] = "idle" <=> hand'[v] = None
                        /\ hand'[v] # None => phase'[hand'[v]] = "pending"
  <2>1. TAKE v \in Worker
  <2>2. CASE v = w
    BY <2>2, <1>1, <1>3 DEF Holding
  <2>3. CASE v # w
    <3>1. pc'[v] = pc[v] /\ hand'[v] = hand[v]
      BY <2>3, <1>1, <1>3 DEF Holding
    <3>2. hand[v] # None => hand[v] \in Job /\ phase'[hand[v]] = phase[hand[v]]
      BY <2>3, <1>1, <1>2 DEF Holding
    <3>3. QED
      BY <3>1, <3>2, <1>1 DEF Holding
  <2>4. QED
    BY <2>2, <2>3
<1>7. QED
  BY <1>1, <1>3, <1>4, <1>5, <1>6 DEF Holding

(* What a dedupe looks for is among the notices.                           *)
LEMMA CandidatesType ==
  ASSUME NEW n, NEW C \in Candidates(n)
  PROVE  C \subseteq Eligible(n) /\ Eligible(n) \subseteq Notice
BY DEF Candidates, Eligible

(* The candidates C with which a worker takes a job.                       *)
LEMMA TakesCandidates ==
  ASSUME NEW w \in Worker, NEW j \in Job, Take(w, j)
  PROVE  \E C \in SUBSET Notice :
           /\ j.kind = "dedupe" => C \in Candidates(j.notice)
           /\ j.kind # "dedupe" => C = {}
           /\ seen' = [seen EXCEPT ![w] =
                [content |-> content[j.notice], version |-> version[j.notice],
                 alike |-> Alike(C, j.notice)]]
           /\ crowded' = IF j.kind # "dedupe" THEN crowded
                         ELSE IF C # Eligible(j.notice) THEN crowded \cup {j.notice}
                         ELSE crowded \ {j.notice}
<1>1. PICK C \in IF j.kind = "dedupe" THEN Candidates(j.notice) ELSE {{}} :
        /\ seen' = [seen EXCEPT ![w] =
             [content |-> content[j.notice], version |-> version[j.notice],
              alike |-> Alike(C, j.notice)]]
        /\ crowded' = IF j.kind # "dedupe" THEN crowded
                      ELSE IF C # Eligible(j.notice) THEN crowded \cup {j.notice}
                      ELSE crowded \ {j.notice}
  BY DEF Take
<1>2. C \subseteq Notice
  BY CandidatesType
<1> QED
  BY <1>1, <1>2

(* One step per action: the tables and the history keep their types.       *)
LEMMA RowsStep == Typed /\ [Next]_vars => Rows'
<1> SUFFICES ASSUME Typed, [Next]_vars
             PROVE  Rows'
  OBVIOUS
<1>0. Holding /\ Rows
  BY TypeParts DEF Typed
<1>1. ASSUME NEW n \in Notice, NEW c \in Content, Publish(n, c)
      PROVE  Rows'
  BY <1>0, <1>1, PipelineAssumption DEF Publish, Rows, notices, placing, past
<1>2. CASE Fetch
  <2>1. Fresh \subseteq Notice \X Content
    BY DEF Fresh
  <2>2. newest' \in [Notice -> Content \cup {None}]
    BY <1>0, <1>2 DEF Fetch, Rows
  <2>3. QED
    BY <1>0, <1>2, <2>1, <2>2 DEF Fetch, Rows, notices, placing
<1>3. ASSUME NEW w \in Worker, NEW j \in Job, Take(w, j)
      PROVE  Rows'
  <2>1. j.notice \in Notice
    BY JobShape
  <2>2. crowded' \subseteq Notice
    BY <1>0, <1>3, <2>1, TakesCandidates DEF Rows
  <2>3. \A v \in Worker : Handling(v, "dedupe") => hand[v].notice \in Notice
    BY InHand DEF Handling
  <2>4. raced' \subseteq SUBSET Notice
    BY <1>0, <1>3, <2>1, <2>3 DEF Take, Rows
  <2>5. QED
    BY <1>0, <1>3, <2>2, <2>4 DEF Take, Rows, notices, placing
<1>4. ASSUME NEW w \in Worker, Normalize(w)
      PROVE  Rows'
  <2>1. pc[w] = "handling" /\ hand[w].kind = "normalize"
    BY <1>4 DEF Normalize, Handling
  <2>2. hand[w] \in Job /\ hand[w].notice \in Notice /\ hand[w].content \in Content
    BY <2>1, InHand
  <2>3. NextVersion(w) \in Nat
    BY <1>0 DEF NextVersion, Holding
  <2>4. Amends(w) \in BOOLEAN
    BY DEF Amends
  <2>5. SourceVersion[hand[w].notice][hand[w].content] \in Nat
    BY <2>2, PipelineAssumption
  <2>6. content' \in [Notice -> Content \cup {None}] /\ version' \in [Notice -> Nat]
    BY <1>0, <1>4, <2>2, <2>3 DEF Normalize, Stored, Rows
  <2>7. flagged' \in [Notice -> BOOLEAN]
    BY <1>0, <1>4, <2>2, <2>4 DEF Normalize, Rows
  <2>8. history' \in [Notice -> SUBSET (Nat \X Content)]
    BY <1>0, <1>4, <2>2, <2>3 DEF Normalize, Rows
  <2>9. alerts' \in [Notice -> SUBSET (Nat \X Nat)]
    BY <1>0, <1>4, <2>2, <2>3, <2>5 DEF Normalize, Alerted, Rows
  <2>10. ran' \subseteq Job /\ late' \subseteq Notice /\ crossed' \subseteq Notice
    BY <1>0, <1>4, <2>2 DEF Normalize, Committed, Rows
  <2>11. QED
    BY <1>0, <1>4, <2>6, <2>7, <2>8, <2>9, <2>10 DEF Normalize, Rows, placing
<1>5. ASSUME NEW w \in Worker, NEW m \in Notice, Join(w, m)
      PROVE  Rows'
  <2>1. hand[w] \in Job /\ hand[w].notice \in Notice
    BY <1>5, InHand DEF Join, Handling
  <2>2. QED
    BY <1>0, <1>5, <2>1 DEF Join, Committed, Rows, notices
<1>6. ASSUME NEW w \in Worker, Found(w)
      PROVE  Rows'
  <2>1. hand[w] \in Job /\ hand[w].notice \in Notice
    BY <1>6, InHand DEF Found, Handling
  <2>2. clusters' = clusters \cup {hand[w].notice}
        /\ cluster' = [cluster EXCEPT ![hand[w].notice] = hand[w].notice]
    BY <1>6 DEF Found
  <2>3. cluster' \in [Notice -> clusters' \cup {None}] /\ clusters' \subseteq Notice
    BY <1>0, <2>1, <2>2 DEF Rows
  <2>4. QED
    BY <1>0, <1>6, <2>1, <2>3 DEF Found, Committed, Rows, notices
<1>7. ASSUME NEW w \in Worker, Refused(w)
      PROVE  Rows'
  BY <1>0, <1>7 DEF Refused, Rows, notices, placing, past
<1>8. ASSUME NEW w \in Worker, Match(w)
      PROVE  Rows'
  <2>1. hand[w] \in Job /\ hand[w].notice \in Notice
    BY <1>8, InHand DEF Match, Handling
  <2>2. seen[w].content \in Content \cup {None}
    BY <1>0 DEF Holding
  <2>3. QED
    BY <1>0, <1>8, <2>1, <2>2 DEF Match, Committed, Rows, notices, placing
<1>9. ASSUME NEW w \in Worker, Complete(w)
      PROVE  Rows'
  BY <1>0, <1>9 DEF Complete, Rows, notices, placing, past
<1>10. ASSUME NEW w \in Worker, Fail(w)
       PROVE  Rows'
  BY <1>0, <1>10, PipelineAssumption DEF Fail, Rows, notices, placing, past
<1>11. ASSUME NEW n \in Notice, Ages(n)
       PROVE  Rows'
  BY <1>0, <1>11 DEF Ages, Rows, notices, placing, past
<1>12. CASE UNCHANGED vars
  BY <1>0, <1>12 DEF vars, Rows, notices, placing, past
<1>13. QED
  BY <1>1, <1>2, <1>3, <1>4, <1>5, <1>6, <1>7, <1>8, <1>9, <1>10, <1>11, <1>12 DEF Next, Handle

(* ... and so do the jobs and the workers that hold them.                  *)
LEMMA HoldingStep == Typed /\ [Next]_vars => Holding'
<1> SUFFICES ASSUME Typed, [Next]_vars
             PROVE  Holding'
  OBVIOUS
<1>0. Holding /\ Rows
  BY TypeParts DEF Typed
<1>1. ASSUME NEW n \in Notice, NEW c \in Content, Publish(n, c)
      PROVE  Holding'
  BY <1>0, <1>1 DEF Publish, Holding, worker
<1>2. CASE Fetch
  <2>1. phase' = Enqueued(NormalizeJobs) /\ UNCHANGED <<pc, hand, seen>>
    BY <1>2 DEF Fetch, worker
  <2>2. phase' \in [Job -> Phase]
        /\ \A j \in Job : phase[j] = "pending" => phase'[j] = "pending"
    BY <1>0, <2>1, EnqueuedShape DEF Holding
  <2>3. QED
    BY <1>0, <2>1, <2>2 DEF Holding
<1>3. ASSUME NEW w \in Worker, NEW j \in Job, Take(w, j)
      PROVE  Holding'
  <2>1. /\ pc' = [pc EXCEPT ![w] = "handling"]
        /\ hand' = [hand EXCEPT ![w] = j]
        /\ UNCHANGED phase
        /\ phase[j] = "pending" /\ \A v \in Worker : hand[v] # j
    BY <1>3 DEF Take, Free
  <2>2. seen' \in [Worker -> [content : Content \cup {None}, version : Nat,
                              alike : SUBSET Notice]]
    <3>1. j.notice \in Notice
      BY JobShape
    <3>2. content[j.notice] \in Content \cup {None} /\ version[j.notice] \in Nat
      BY <1>0, <3>1 DEF Rows
    <3>3. \A C \in SUBSET Notice : Alike(C, j.notice) \subseteq Notice
      BY DEF Alike
    <3>4. QED
      BY <1>0, <1>3, <3>2, <3>3, TakesCandidates DEF Holding
  <2>3. j # None
    BY PipelineAssumption
  <2>4. QED
    BY <1>0, <2>1, <2>2, <2>3 DEF Holding
<1>4. ASSUME NEW w \in Worker, Normalize(w)
      PROVE  Holding'
  BY <1>4, CommitKeepsHolding DEF Normalize, Handling
<1>5. ASSUME NEW w \in Worker, NEW m \in Notice, Join(w, m)
      PROVE  Holding'
  BY <1>5, CommitKeepsHolding DEF Join, Handling
<1>6. ASSUME NEW w \in Worker, Found(w)
      PROVE  Holding'
  BY <1>6, CommitKeepsHolding DEF Found, Handling
<1>7. ASSUME NEW w \in Worker, Refused(w)
      PROVE  Holding'
  BY <1>7, ReleaseKeepsHolding DEF Refused, Handling, Phase
<1>8. ASSUME NEW w \in Worker, Match(w)
      PROVE  Holding'
  BY <1>8, CommitKeepsHolding DEF Match, Handling
<1>9. ASSUME NEW w \in Worker, Complete(w)
      PROVE  Holding'
  BY <1>9, ReleaseKeepsHolding DEF Complete, Phase
<1>10. ASSUME NEW w \in Worker, Fail(w)
       PROVE  Holding'
  BY <1>10, ReleaseKeepsHolding DEF Fail, Phase
<1>11. CASE (\E n \in Notice : Ages(n)) \/ UNCHANGED vars
  BY <1>0, <1>11 DEF Ages, vars, Holding, worker
<1>12. QED
  BY <1>1, <1>2, <1>3, <1>4, <1>5, <1>6, <1>7, <1>8, <1>9, <1>10, <1>11 DEF Next, Handle

(* Jobs follow the rows they work on: an action that enqueues J and leaves *)
(* alone the rows that other jobs work on.                                 *)
LEMMA StagedStep == Typed /\ [Next]_vars => Staged'
<1> SUFFICES ASSUME Typed, [Next]_vars
             PROVE  Staged'
  OBVIOUS
<1>0. Holding /\ Rows /\ Staged
  BY TypeParts DEF Typed
<1>a. phase \in [Job -> Phase]
  BY <1>0 DEF Holding
(* Steps that enqueue nothing and write no row that jobs work on.          *)
<1>b. ASSUME UNCHANGED <<raw, content, cluster>>,
             \A j \in Job : phase'[j] = "absent" <=> phase[j] = "absent"
      PROVE  Staged'
  BY <1>0, <1>b, JobShape DEF Staged
<1>c. ASSUME NEW w \in Worker, pc[w] # "idle", NEW p \in Phase \ {"absent"},
             phase' = [phase EXCEPT ![hand[w]] = p]
      PROVE  \A j \in Job : phase'[j] = "absent" <=> phase[j] = "absent"
  BY <1>a, <1>c, InHand
<1>1. ASSUME NEW n \in Notice, NEW c \in Content, Publish(n, c)
      PROVE  Staged'
  BY <1>1, <1>b DEF Publish, notices, placing
<1>2. CASE Fetch
  <2>1. /\ raw' = raw \cup Fresh /\ UNCHANGED <<content, cluster>>
        /\ phase' = Enqueued(NormalizeJobs)
    BY <1>2 DEF Fetch, notices, placing
  <2>2. \A n \in Notice, c \in Content : Normalizing(n, c) \in NormalizeJobs <=> <<n, c>> \in Fresh
    BY JobShape DEF NormalizeJobs, Fresh
  <2>3. \A n \in Notice : Deduping(n) \notin NormalizeJobs /\ Matching(n) \notin NormalizeJobs
    BY JobShape DEF NormalizeJobs
  <2>4. \A n \in Notice, c \in Content :
          <<n, c>> \in raw' <=> phase'[Normalizing(n, c)] # "absent"
    <3>1. TAKE n \in Notice, c \in Content
    <3>2. Normalizing(n, c) \in Job
      BY JobShape
    <3>3. CASE <<n, c>> \in Fresh
      <4>1. Normalizing(n, c) \in NormalizeJobs
        BY <2>2, <3>3
      <4>2. phase'[Normalizing(n, c)] # "absent"
        BY <1>a, <2>1, <3>2, <4>1, EnqueuedShape
      <4>3. QED
        BY <2>1, <3>3, <4>2
    <3>4. CASE <<n, c>> \notin Fresh
      <4>1. Normalizing(n, c) \in Job \ NormalizeJobs
        BY <2>2, <3>2, <3>4
      <4>2. phase'[Normalizing(n, c)] = phase[Normalizing(n, c)]
        BY <1>a, <2>1, <4>1, EnqueuedShape
      <4>3. QED
        BY <1>0, <2>1, <3>4, <4>2 DEF Staged
    <3>5. QED
      BY <3>3, <3>4
  <2>5. \A n \in Notice : /\ phase'[Deduping(n)] = phase[Deduping(n)]
                          /\ phase'[Matching(n)] = phase[Matching(n)]
    BY <1>a, <2>1, <2>3, EnqueuedShape, JobShape
  <2>6. QED
    BY <1>0, <2>1, <2>4, <2>5 DEF Staged
<1>3. ASSUME NEW w \in Worker, NEW j \in Job, Take(w, j)
      PROVE  Staged'
  BY <1>3, <1>b DEF Take, notices, placing
<1>4. ASSUME NEW w \in Worker, Normalize(w)
      PROVE  Staged'
  <2> DEFINE n == hand[w].notice
  <2>1. pc[w] = "handling" /\ hand[w].kind = "normalize"
    BY <1>4 DEF Normalize, Handling
  <2>2. hand[w] \in Job /\ n \in Notice /\ hand[w].content \in Content
    BY <2>1, InHand
  <2>3. /\ content' = [content EXCEPT ![n] = hand[w].content]
        /\ UNCHANGED <<raw, cluster>>
        /\ phase' = Enqueued({Deduping(n)})
    BY <1>4 DEF Normalize, Committed, Stored, placing
  <2>4. \A m \in Notice : content'[m] # None <=> phase'[Deduping(m)] # "absent"
    <3>1. TAKE m \in Notice
    <3>2. CASE m = n
      BY <1>0, <1>a, <2>2, <2>3, <3>2, EnqueuedShape, JobShape, PipelineAssumption DEF Rows
    <3>3. CASE m # n
      <4>1. Deduping(m) \in Job \ {Deduping(n)}
        BY <3>3, JobShape
      <4>2. phase'[Deduping(m)] = phase[Deduping(m)]
        BY <1>a, <2>3, <4>1, EnqueuedShape
      <4>3. QED
        BY <1>0, <2>3, <3>3, <4>2 DEF Rows, Staged
    <3>4. QED
      BY <3>2, <3>3
  <2>5. \A m \in Notice, c \in Content : phase'[Normalizing(m, c)] = phase[Normalizing(m, c)]
    BY <1>a, <2>3, EnqueuedShape, JobShape
  <2>6. \A m \in Notice : phase'[Matching(m)] = phase[Matching(m)]
    BY <1>a, <2>3, EnqueuedShape, JobShape
  <2>7. \A m \in Notice : content[m] # None => content'[m] # None
    BY <1>0, <2>2, <2>3, PipelineAssumption DEF Rows
  <2>8. QED
    BY <1>0, <2>3, <2>4, <2>5, <2>6, <2>7 DEF Staged
(* Both ways of placing a notice.                                          *)
<1>d. ASSUME NEW w \in Worker, Handling(w, "dedupe"), NEW k,
             k # None, cluster' = [cluster EXCEPT ![hand[w].notice] = k],
             Committed(w, {Matching(hand[w].notice)}), UNCHANGED <<raw, content>>
      PROVE  Staged'
  <2> DEFINE n == hand[w].notice
  <2>1. hand[w] = Deduping(n) /\ n \in Notice /\ phase[hand[w]] = "pending"
    BY <1>d, InHand DEF Handling
  <2>2. content[n] # None
    BY <1>0, <2>1 DEF Staged
  <2>3. phase' = Enqueued({Matching(n)})
    BY <1>d DEF Committed
  <2>4. \A m \in Notice : cluster'[m] # None <=> phase'[Matching(m)] # "absent"
    <3>1. TAKE m \in Notice
    <3>2. CASE m = n
      BY <1>0, <1>a, <1>d, <2>1, <2>3, <3>2, EnqueuedShape, JobShape DEF Rows
    <3>3. CASE m # n
      <4>1. Matching(m) \in Job \ {Matching(n)}
        BY <3>3, JobShape
      <4>2. phase'[Matching(m)] = phase[Matching(m)]
        BY <1>a, <2>3, <4>1, EnqueuedShape
      <4>3. QED
        BY <1>0, <1>d, <3>3, <4>2 DEF Rows, Staged
    <3>4. QED
      BY <3>2, <3>3
  <2>5. \A m \in Notice, c \in Content : phase'[Normalizing(m, c)] = phase[Normalizing(m, c)]
    BY <1>a, <2>3, EnqueuedShape, JobShape
  <2>6. \A m \in Notice : phase'[Deduping(m)] = phase[Deduping(m)]
    BY <1>a, <2>3, EnqueuedShape, JobShape
  <2>7. \A m \in Notice : cluster'[m] # None => content'[m] # None
    BY <1>0, <1>d, <2>1, <2>2 DEF Rows, Staged
  <2>8. QED
    BY <1>0, <1>d, <2>4, <2>5, <2>6, <2>7 DEF Staged
<1>5. ASSUME NEW w \in Worker, NEW m \in Notice, Join(w, m)
      PROVE  Staged'
  <2>1. cluster[m] # None
    BY <1>5 DEF Join, Typed, Compared
  <2>2. QED
    BY <1>5, <2>1, <1>d DEF Join, notices
<1>6. ASSUME NEW w \in Worker, Found(w)
      PROVE  Staged'
  <2>1. hand[w].notice \in Notice /\ hand[w].notice # None
    BY <1>6, InHand, PipelineAssumption DEF Found, Handling
  <2>2. QED
    BY <1>6, <2>1, <1>d DEF Found, notices
<1>7. ASSUME NEW w \in Worker, Refused(w)
      PROVE  Staged'
  BY <1>7, <1>b, <1>c DEF Refused, Handling, Phase, notices, placing
<1>8. ASSUME NEW w \in Worker, Match(w)
      PROVE  Staged'
  <2>1. phase' = Enqueued({}) /\ UNCHANGED <<raw, content, cluster>>
    BY <1>8 DEF Match, Committed, notices, placing
  <2>2. \A j \in Job : phase'[j] = phase[j]
    BY <1>a, <2>1, EnqueuedShape
  <2>3. QED
    BY <2>1, <2>2, <1>b
<1>9. ASSUME NEW w \in Worker, Complete(w)
      PROVE  Staged'
  BY <1>9, <1>b, <1>c DEF Complete, Phase, notices, placing
<1>10. ASSUME NEW w \in Worker, Fail(w)
       PROVE  Staged'
  BY <1>10, <1>b, <1>c DEF Fail, Phase, notices, placing
<1>11. CASE (\E n \in Notice : Ages(n)) \/ UNCHANGED vars
  BY <1>11, <1>b DEF Ages, vars, notices, placing
<1>12. QED
  BY <1>1, <1>2, <1>3, <1>4, <1>5, <1>6, <1>7, <1>8, <1>9, <1>10, <1>11 DEF Next, Handle

(* A candidate keeps a cluster, if not the one it had.                     *)
LEMMA ComparedStep == Typed /\ [Next]_vars => Compared'
<1> SUFFICES ASSUME Typed, [Next]_vars
             PROVE  Compared'
  OBVIOUS
<1>0. Holding /\ Rows /\ Compared
  BY TypeParts DEF Typed
<1>1. \A n \in Notice : cluster[n] # None => cluster'[n] # None
  <2>1. ASSUME NEW w \in Worker, NEW m \in Notice, Join(w, m)
        PROVE  \A n \in Notice : cluster[n] # None => cluster'[n] # None
    BY <1>0, <2>1 DEF Join, Rows, Compared
  <2>2. ASSUME NEW w \in Worker, Found(w)
        PROVE  \A n \in Notice : cluster[n] # None => cluster'[n] # None
    <3>1. hand[w].notice # None
      BY <2>2, InHand, PipelineAssumption DEF Found, Handling
    <3>2. QED
      BY <1>0, <2>2, <3>1 DEF Found, Rows
  <2>3. CASE UNCHANGED cluster
    BY <2>3
  <2>4. QED
    BY <2>1, <2>2, <2>3 DEF Next, Handle, Publish, Fetch, Ages, Take, Normalize, Refused, Match,
                            Complete, Fail, vars, placing
<1>2. \A w \in Worker : \/ seen'[w] = seen[w] \/ seen'[w].alike = {}
                        \/ \A m \in seen'[w].alike : cluster[m] # None
  <2>1. ASSUME NEW v \in Worker, NEW j \in Job, Take(v, j)
        PROVE  \A w \in Worker : \/ seen'[w] = seen[w] \/ seen'[w].alike = {}
                                \/ \A m \in seen'[w].alike : cluster[m] # None
    <3>1. \A C : \A m \in Alike(C, j.notice) : m \in C
      BY DEF Alike
    <3>2. \A C \in Candidates(j.notice) : \A m \in C : cluster[m] # None
      BY DEF Candidates, Eligible
    <3>3. PICK C \in SUBSET Notice :
            /\ j.kind = "dedupe" => C \in Candidates(j.notice)
            /\ j.kind # "dedupe" => C = {}
            /\ seen' = [seen EXCEPT ![v] =
                 [content |-> content[j.notice], version |-> version[j.notice],
                  alike |-> Alike(C, j.notice)]]
      BY <2>1, TakesCandidates
    <3>4. seen'[v].alike = Alike(C, j.notice) /\ \A w \in Worker \ {v} : seen'[w] = seen[w]
      BY <1>0, <3>3 DEF Holding
    <3>5. \A m \in Alike(C, j.notice) : cluster[m] # None
      BY <3>1, <3>2, <3>3
    <3>6. QED
      BY <3>4, <3>5
  <2>2. ASSUME NEW v \in Worker, Release(v)
        PROVE  \A w \in Worker : \/ seen'[w] = seen[w] \/ seen'[w].alike = {}
                                \/ \A m \in seen'[w].alike : cluster[m] # None
    BY <1>0, <2>2 DEF Release, Nothing, Holding
  <2>3. CASE UNCHANGED seen
    BY <2>3
  <2>4. QED
    BY <2>1, <2>2, <2>3 DEF Next, Handle, Publish, Fetch, Ages, Normalize, Join, Found, Refused,
                            Match, Complete, Fail, Committed, vars, worker
<1>3. \A w \in Worker : seen[w].alike \subseteq Notice /\ seen'[w].alike \subseteq Notice
  BY <1>0, HoldingStep DEF Holding
<1>4. QED
  BY <1>0, <1>1, <1>2, <1>3 DEF Compared

LEMMA InitTyped == Init => Typed
<1> SUFFICES ASSUME Init
             PROVE  Typed
  OBVIOUS
<1>1. Holding
  BY NothingType DEF Init, Holding, Phase
<1>2. Rows
  BY PipelineAssumption DEF Init, Rows
<1>3. Staged
  BY JobShape DEF Init, Staged
<1>4. Compared
  BY DEF Init, Compared, Nothing
<1>5. QED
  BY <1>1, <1>2, <1>3, <1>4, TypeParts DEF Typed

LEMMA TypedAlways == Spec => []Typed
<1>1. Typed /\ [Next]_vars => Typed'
  BY HoldingStep, RowsStep, StagedStep, ComparedStep, TypeParts DEF Typed, TypeOK, Holding, Rows, Phase
<1>2. QED
  BY <1>1, InitTyped, PTL DEF Spec

(* Every variable of the pipeline keeps its type, and a job in hand is     *)
(* pending and in one worker's hand (process_one).                         *)
THEOREM PipelineTyped == Spec => []TypeOK
<1>1. Typed => TypeOK
  BY DEF Typed
<1>2. QED
  BY <1>1, TypedAlways, PTL

-----------------------------------------------------------------------------
(* What the handler of a job leaves behind.                                *)
Left(j) ==
  /\ j.kind = "normalize" => content[j.notice] # None
  /\ j.kind = "dedupe" => cluster[j.notice] # None
  /\ j.kind = "match" => scored[j.notice] # None

(* A job is done, or waits for its completion, only after its handler has  *)
(* committed; what that left stays.  A match scores a content.             *)
Results ==
  /\ \A j \in ran : Left(j) /\ phase[j] # "absent"
  /\ \A j \in Job : phase[j] = "done" => j \in ran
  /\ \A w \in Worker : pc[w] = "completing" => hand[w] \in ran
  /\ \A w \in Worker : Handling(w, "match") => seen[w].content # None

(* Once there, a content, a cluster and a score are never taken away.      *)
LEMMA ResultsStay ==
  Typed /\ Results /\ [Next]_vars =>
    \A n \in Notice : /\ content[n] # None => content'[n] # None
                      /\ cluster[n] # None => cluster'[n] # None
                      /\ scored[n] # None => scored'[n] # None
<1> SUFFICES ASSUME Typed, Results, [Next]_vars, NEW n \in Notice
             PROVE  /\ content[n] # None => content'[n] # None
                    /\ cluster[n] # None => cluster'[n] # None
                    /\ scored[n] # None => scored'[n] # None
  OBVIOUS
<1>0. Holding /\ Rows /\ Compared
  BY TypeParts DEF Typed
<1>1. ASSUME NEW w \in Worker, Normalize(w)
      PROVE  (content[n] # None => content'[n] # None) /\ UNCHANGED <<cluster, scored>>
  <2>1. hand[w].content # None
    BY <1>1, InHand, PipelineAssumption DEF Normalize, Handling
  <2>2. QED
    BY <1>0, <1>1, <2>1 DEF Normalize, Stored, Rows, placing
<1>2. ASSUME NEW w \in Worker, NEW m \in Notice, Join(w, m)
      PROVE  (cluster[n] # None => cluster'[n] # None) /\ UNCHANGED <<content, scored>>
  BY <1>0, <1>2 DEF Join, Rows, Compared, notices
<1>3. ASSUME NEW w \in Worker, Found(w)
      PROVE  (cluster[n] # None => cluster'[n] # None) /\ UNCHANGED <<content, scored>>
  <2>1. hand[w].notice # None
    BY <1>3, InHand, PipelineAssumption DEF Found, Handling
  <2>2. QED
    BY <1>0, <1>3, <2>1 DEF Found, Rows, notices
<1>4. ASSUME NEW w \in Worker, Match(w)
      PROVE  (scored[n] # None => scored'[n] # None) /\ UNCHANGED <<content, cluster>>
  <2>1. seen[w].content # None
    BY <1>4 DEF Match, Results
  <2>2. QED
    BY <1>0, <1>4, <2>1 DEF Match, Rows, notices, placing
<1>5. CASE UNCHANGED <<content, cluster, scored>>
  BY <1>5
<1>6. QED
  BY <1>1, <1>2, <1>3, <1>4, <1>5
  DEF Next, Handle, Publish, Fetch, Ages, Take, Refused, Complete, Fail, vars, notices, placing

(* A handler that commits has left its result.                             *)
LEMMA CommitKeepsResults ==
  ASSUME Typed, Results, [Next]_vars, NEW w \in Worker, pc[w] = "handling", NEW J, Committed(w, J),
         Left(hand[w])'
  PROVE  Results'
<1>0. Holding /\ Rows
  BY TypeParts DEF Typed
<1>1. /\ phase' = Enqueued(J) /\ phase \in [Job -> Phase] /\ ran' = ran \cup {hand[w]}
      /\ pc' = [pc EXCEPT ![w] = "completing"] /\ UNCHANGED <<hand, seen>>
  BY <1>0 DEF Committed, Holding
<1>2. hand[w] \in Job /\ phase[hand[w]] = "pending" /\ ran \subseteq Job
  BY <1>0, InHand DEF Rows
<1>3. \A j \in ran' : Left(j)' /\ phase'[j] # "absent"
  <2>1. TAKE j \in ran'
  <2>2. phase'[j] # "absent"
    BY <1>1, <1>2, EnqueuedShape DEF Results
  <2>3. CASE j \in ran
    <3>1. Left(j) /\ j.notice \in Notice
      BY <1>2, <2>3, JobShape DEF Results
    <3>2. Left(j)'
      BY <3>1, ResultsStay DEF Left
    <3>3. QED
      BY <2>2, <3>2
  <2>4. CASE j = hand[w]
    <3>1. j' = hand[w]'
      BY <1>1, <2>4
    <3>2. Left(j)'
      BY <1>1, <2>4 DEF Left
    <3>3. QED
      BY <2>2, <3>2
  <2>5. QED
    BY <1>1, <2>3, <2>4
<1>4. \A j \in Job : phase'[j] = "done" => j \in ran'
  BY <1>1, EnqueuedShape DEF Results
<1>5. \A v \in Worker : pc'[v] = "completing" => hand'[v] \in ran'
  BY <1>0, <1>1 DEF Holding, Results
<1>6. \A v \in Worker : Handling(v, "match")' => seen'[v].content # None
  BY <1>0, <1>1 DEF Holding, Handling, Results
<1>7. QED
  BY <1>3, <1>4, <1>5, <1>6 DEF Results

LEMMA ResultsStep == Typed /\ Results /\ [Next]_vars => Results'
<1> SUFFICES ASSUME Typed, Results, [Next]_vars
             PROVE  Results'
  OBVIOUS
<1>0. Holding /\ Rows
  BY TypeParts DEF Typed
<1>a. \A j \in ran : Left(j)'
  <2>1. TAKE j \in ran
  <2>2. Left(j) /\ j.notice \in Notice
    BY <1>0, JobShape DEF Results, Rows
  <2>3. QED
    BY <2>2, ResultsStay DEF Left
<1>1. ASSUME NEW n \in Notice, NEW c \in Content, Publish(n, c)
      PROVE  Results'
  BY <1>a, <1>1 DEF Publish, Results, Handling, worker, past
<1>2. CASE Fetch
  <2>1. phase' = Enqueued(NormalizeJobs) /\ phase \in [Job -> Phase]
    BY <1>0, <1>2 DEF Fetch, Holding
  <2>2. \A j \in Job : /\ phase[j] # "absent" => phase'[j] # "absent"
                       /\ phase'[j] = "done" => phase[j] = "done"
    BY <2>1, EnqueuedShape
  <2>3. ran \subseteq Job /\ UNCHANGED <<ran, pc, hand, seen>>
    BY <1>0, <1>2 DEF Fetch, Rows, worker
  <2>4. QED
    BY <1>a, <2>2, <2>3 DEF Results, Handling
<1>3. ASSUME NEW w \in Worker, NEW j \in Job, Take(w, j)
      PROVE  Results'
  <2>1. j.kind = "match" => content[j.notice] # None
    <3>1. phase[j] = "pending"
      BY <1>3 DEF Take, Free
    <3>2. j.kind = "match" => j = Matching(j.notice) /\ j.notice \in Notice
      BY JobShape
    <3>3. QED
      BY <3>1, <3>2 DEF Typed, Staged
  <2>2. /\ pc' = [pc EXCEPT ![w] = "handling"]
        /\ hand' = [hand EXCEPT ![w] = j]
        /\ UNCHANGED <<ran, phase>>
    BY <1>3 DEF Take
  <2>3. \A v \in Worker : v # w => seen'[v] = seen[v]
    BY <1>0, <1>3 DEF Take, Holding
  <2>4. seen'[w].content = content[j.notice]
    BY <1>0, <1>3 DEF Take, Holding
  <2>5. \A v \in Worker : Handling(v, "match")' => seen'[v].content # None
    BY <1>0, <2>1, <2>2, <2>3, <2>4 DEF Holding, Handling, Results
  <2>6. \A v \in Worker : pc'[v] = "completing" => hand'[v] \in ran'
    BY <1>0, <2>2 DEF Holding, Results
  <2>7. QED
    BY <1>a, <2>2, <2>5, <2>6 DEF Results
<1>4. ASSUME NEW w \in Worker, Normalize(w)
      PROVE  Results'
  <2>1. hand[w].notice \in Notice /\ hand[w].content # None
    BY <1>4, InHand, PipelineAssumption DEF Normalize, Handling
  <2>2. content'[hand[w].notice] # None
    BY <1>0, <1>4, <2>1 DEF Normalize, Stored, Rows
  <2>3. Committed(w, {Deduping(hand[w].notice)}) /\ pc[w] = "handling"
        /\ hand[w].kind = "normalize"
    BY <1>4 DEF Normalize, Handling
  <2>4. Left(hand[w])'
    BY <2>2, <2>3 DEF Left, Committed
  <2>5. QED
    BY <2>3, <2>4, CommitKeepsResults
<1>5. ASSUME NEW w \in Worker, NEW m \in Notice, Join(w, m)
      PROVE  Results'
  <2>1. hand[w].notice \in Notice /\ cluster[m] # None
    BY <1>5, InHand DEF Join, Handling, Typed, Compared
  <2>2. cluster'[hand[w].notice] # None
    BY <1>0, <1>5, <2>1 DEF Join, Rows
  <2>3. Committed(w, {Matching(hand[w].notice)}) /\ pc[w] = "handling" /\ hand[w].kind = "dedupe"
    BY <1>5 DEF Join, Handling
  <2>4. Left(hand[w])'
    BY <2>2, <2>3 DEF Left, Committed
  <2>5. QED
    BY <2>3, <2>4, CommitKeepsResults
<1>6. ASSUME NEW w \in Worker, Found(w)
      PROVE  Results'
  <2>1. hand[w].notice \in Notice /\ hand[w].notice # None
    BY <1>6, InHand, PipelineAssumption DEF Found, Handling
  <2>2. cluster'[hand[w].notice] # None
    BY <1>0, <1>6, <2>1 DEF Found, Rows
  <2>3. Committed(w, {Matching(hand[w].notice)}) /\ pc[w] = "handling" /\ hand[w].kind = "dedupe"
    BY <1>6 DEF Found, Handling
  <2>4. Left(hand[w])'
    BY <2>2, <2>3 DEF Left, Committed
  <2>5. QED
    BY <2>3, <2>4, CommitKeepsResults
<1>7. ASSUME NEW w \in Worker, Match(w)
      PROVE  Results'
  <2>1. hand[w].notice \in Notice /\ seen[w].content # None
    BY <1>7, InHand DEF Match, Handling, Results
  <2>2. scored'[hand[w].notice] # None
    BY <1>0, <1>7, <2>1 DEF Match, Rows
  <2>3. Committed(w, {}) /\ pc[w] = "handling" /\ hand[w].kind = "match"
    BY <1>7 DEF Match, Handling
  <2>4. Left(hand[w])'
    BY <2>2, <2>3 DEF Left, Committed
  <2>5. QED
    BY <2>3, <2>4, CommitKeepsResults
(* A worker lets go of its job, which is done only if it had committed.    *)
<1>b. ASSUME NEW w \in Worker, pc[w] # "idle", Release(w), UNCHANGED ran,
             NEW p \in {"pending", "done", "dead"}, phase' = [phase EXCEPT ![hand[w]] = p],
             p = "done" => pc[w] = "completing"
      PROVE  Results'
  <2>1. hand[w] \in Job /\ phase \in [Job -> Phase] /\ ran \subseteq Job
    BY <1>0, <1>b, InHand DEF Holding, Rows
  <2>2. \A j \in ran : phase'[j] # "absent"
    BY <1>b, <2>1 DEF Results
  <2>3. \A j \in Job : phase'[j] = "done" => j \in ran'
    BY <1>b, <2>1 DEF Results
  <2>4. \A v \in Worker : /\ pc'[v] = "completing" => hand'[v] \in ran'
                          /\ Handling(v, "match")' => seen'[v].content # None
    BY <1>0, <1>b DEF Release, Holding, Handling, Results
  <2>5. QED
    BY <1>a, <1>b, <2>2, <2>3, <2>4 DEF Results
<1>8. ASSUME NEW w \in Worker, Refused(w)
      PROVE  Results'
  BY <1>8, <1>b DEF Refused, Handling, past
<1>9. ASSUME NEW w \in Worker, Complete(w)
      PROVE  Results'
  BY <1>9, <1>b DEF Complete, past
<1>10. ASSUME NEW w \in Worker, Fail(w)
       PROVE  Results'
  BY <1>10, <1>b DEF Fail, past
<1>11. CASE (\E n \in Notice : Ages(n)) \/ UNCHANGED vars
  BY <1>a, <1>11 DEF Ages, vars, Results, Handling, worker, past
<1>12. QED
  BY <1>1, <1>2, <1>3, <1>4, <1>5, <1>6, <1>7, <1>8, <1>9, <1>10, <1>11 DEF Next, Handle

LEMMA ResultsAlways == Spec => [](Typed /\ Results)
<1>1. Init => Results
  <2>1. \A w \in Worker : Init => pc[w] = "idle"
    BY DEF Init
  <2>2. QED
    BY <2>1 DEF Init, Results, Handling
<1>2. QED
  BY <1>1, TypedAlways, ResultsStep, PTL DEF Spec

(* No stage of the pipeline half-completes: a payload, a notice and a      *)
(* cluster membership each has what follows from it, or a job that will    *)
(* see to it, or one that is dead (run_source_fetch, run_normalize,        *)
(* run_dedupe and run_match).                                              *)
THEOREM NothingLostHolds == Spec => []NothingLost
<1>1. Typed /\ Results => NothingLost
  <2> SUFFICES ASSUME Typed, Results
               PROVE  NothingLost
    OBVIOUS
  <2>0. Holding /\ Rows /\ Staged
    BY TypeParts DEF Typed
  <2>1. \A j \in Job : phase[j] \in {"absent", "pending", "dead"} \/ (phase[j] = "done" /\ Left(j))
    BY <2>0 DEF Holding, Results, Phase
  <2>2. \A n \in Notice, c \in Content : <<n, c>> \in raw =>
          \/ phase[Normalizing(n, c)] \in {"pending", "dead"}
          \/ phase[Normalizing(n, c)] = "done" /\ content[n] # None
    BY <2>0, <2>1, JobShape DEF Staged, Left
  <2>3. \A n \in Notice : content[n] # None =>
          phase[Deduping(n)] \in {"pending", "dead"} \/ cluster[n] \in clusters
    <3>1. \A n \in Notice : cluster[n] # None => cluster[n] \in clusters
      BY <2>0 DEF Rows
    <3>2. QED
      BY <2>0, <2>1, <3>1, JobShape DEF Staged, Left
  <2>4. \A n \in Notice : cluster[n] # None =>
          phase[Matching(n)] \in {"pending", "dead"} \/ scored[n] # None
    BY <2>0, <2>1, JobShape DEF Staged, Left
  <2>5. QED
    BY <2>2, <2>3, <2>4 DEF NothingLost
<1>2. QED
  BY <1>1, ResultsAlways, PTL

-----------------------------------------------------------------------------
(* Unless an older content was normalised after it, the newest shows from  *)
(* the moment its handler has committed.                                   *)
NewestShows ==
  \A n \in Notice \ late :
    newest[n] # None /\ Normalizing(n, newest[n]) \in ran => content[n] = newest[n]

LEMMA NewestShowsStep == Typed /\ Results /\ NewestShows /\ [Next]_vars => NewestShows'
<1> SUFFICES ASSUME Typed, Results, NewestShows, [Next]_vars
             PROVE  NewestShows'
  OBVIOUS
<1>0. Holding /\ Rows
  BY TypeParts DEF Typed
(* A run that commits without writing a content is not a normalisation.    *)
<1>a. ASSUME NEW w \in Worker, NEW J, Committed(w, J), pc[w] = "handling",
             hand[w].kind # "normalize", UNCHANGED <<newest, content, late>>
      PROVE  NewestShows'
  <2>1. \A n \in Notice, c \in Content : Normalizing(n, c) # hand[w]
    BY <1>a, JobShape
  <2>2. \A n \in Notice : newest[n] # None => newest[n] \in Content
    BY <1>0 DEF Rows
  <2>3. QED
    BY <1>a, <2>1, <2>2 DEF NewestShows, Committed
<1>1. CASE Fetch
  <2> SUFFICES ASSUME NEW n \in Notice \ late', newest'[n] # None,
                      Normalizing(n, newest'[n]) \in ran'
               PROVE  content'[n] = newest'[n]
    BY DEF NewestShows
  <2>1. UNCHANGED <<ran, content>> /\ late' = late \ {nc[1] : nc \in Fresh}
        /\ newest' = [m \in Notice |-> IF <<m, published[m]>> \in Fresh THEN published[m]
                                        ELSE newest[m]]
    BY <1>1 DEF Fetch, notices
  <2>2. CASE <<n, published[n]>> \in Fresh
    <3>1. <<n, newest'[n]>> \notin raw /\ newest'[n] \in Content
      BY <2>1, <2>2 DEF Fresh
    <3>2. phase[Normalizing(n, newest'[n])] = "absent"
      BY <3>1 DEF Typed, Staged
    <3>3. QED
      BY <2>1, <3>2 DEF Results
  <2>3. CASE <<n, published[n]>> \notin Fresh
    <3>1. newest'[n] = newest[n]
      BY <2>1, <2>3
    <3>2. n \notin {nc[1] : nc \in Fresh}
      <4>1. ASSUME NEW nc \in Fresh, nc[1] = n
            PROVE  FALSE
        <5>1. nc \in Notice \X Content /\ nc[2] = published[n]
          BY <4>1 DEF Fresh
        <5>2. nc = <<n, published[n]>>
          BY <4>1, <5>1
        <5>3. QED
          BY <2>3, <4>1, <5>2
      <4>2. QED
        BY <4>1
    <3>3. n \notin late
      BY <2>1, <3>2
    <3>4. QED
      BY <2>1, <3>1, <3>3 DEF NewestShows
  <2>4. QED
    BY <2>2, <2>3
<1>2. ASSUME NEW w \in Worker, Normalize(w)
      PROVE  NewestShows'
  <2> SUFFICES ASSUME NEW n \in Notice \ late', newest'[n] # None,
                      Normalizing(n, newest'[n]) \in ran'
               PROVE  content'[n] = newest'[n]
    BY DEF NewestShows
  <2> DEFINE m == hand[w].notice
             c == hand[w].content
  <2>1. hand[w] = Normalizing(m, c) /\ m \in Notice /\ c \in Content
    BY <1>2, InHand DEF Normalize, Handling
  <2>2. /\ UNCHANGED newest
        /\ content' = [content EXCEPT ![m] = c]
        /\ ran' = ran \cup {hand[w]}
        /\ late' = IF c # newest[m] /\ Normalizing(m, newest[m]) \in ran
                   THEN late \cup {m} ELSE late
    BY <1>2 DEF Normalize, Committed, Stored
  <2>3. CASE n # m
    <3>1. Normalizing(n, newest[n]) # hand[w]
      BY <2>1, <2>3, JobShape
    <3>2. n \notin late /\ Normalizing(n, newest[n]) \in ran
      BY <2>2, <3>1
    <3>3. QED
      BY <1>0, <2>2, <2>3, <3>2 DEF NewestShows, Rows
  <2>4. CASE n = m /\ c = newest[m]
    BY <1>0, <2>2, <2>4 DEF Rows
  <2>5. CASE n = m /\ c # newest[m]
    <3>1. Normalizing(m, newest[m]) # hand[w]
      BY <2>1, <2>5, JobShape
    <3>2. QED
      BY <2>2, <2>5, <3>1
  <2>6. QED
    BY <2>3, <2>4, <2>5
<1>3. ASSUME NEW w \in Worker, NEW m \in Notice, Join(w, m)
      PROVE  NewestShows'
  BY <1>3, <1>a DEF Join, Handling, notices
<1>4. ASSUME NEW w \in Worker, Found(w)
      PROVE  NewestShows'
  BY <1>4, <1>a DEF Found, Handling, notices
<1>5. ASSUME NEW w \in Worker, Match(w)
      PROVE  NewestShows'
  BY <1>5, <1>a DEF Match, Handling, notices
<1>6. CASE UNCHANGED <<newest, content, ran, late>>
  BY <1>6 DEF NewestShows
<1>7. QED
  BY <1>1, <1>2, <1>3, <1>4, <1>5, <1>6
  DEF Next, Handle, Publish, Ages, Take, Refused, Complete, Fail, vars, notices, past

(* A notice shows the newest payload once that is normalised, in whatever  *)
(* order jobs run, unless an older one was normalised after it             *)
(* (run_normalize).                                                        *)
THEOREM NewestPayloadShows == Spec => []UpToDateUnlessLate
<1>1. Init => NewestShows
  BY DEF Init, NewestShows
<1>2. Typed /\ Results /\ NewestShows => UpToDateUnlessLate
  <2> SUFFICES ASSUME Typed, Results, NewestShows, NEW n \in Notice \ late, newest[n] # None,
                      phase[Normalizing(n, newest[n])] = "done"
               PROVE  content[n] = newest[n]
    BY DEF UpToDateUnlessLate
  <2>1. newest[n] \in Content
    BY DEF Typed, TypeOK
  <2>2. Normalizing(n, newest[n]) \in ran
    BY <2>1, JobShape DEF Results
  <2>3. QED
    BY <2>2 DEF NewestShows
<1>3. QED
  BY <1>1, <1>2, ResultsAlways, NewestShowsStep, PTL DEF Spec

-----------------------------------------------------------------------------
(* What the versions of one notice account for.                            *)
Accounted(n) ==
  /\ content[n] = None => version[n] = 0
  /\ content[n] # None => version[n] >= 1
  /\ {h[1] : h \in history[n]} = 2..version[n]
  /\ \A g, h \in history[n] : g[1] = h[1] => g = h
  /\ version[n] > 1 => <<version[n], content[n]>> \in history[n]

(* ... and its alerts: each is about a version, under the key of that.     *)
Announced(n) ==
  /\ \A h \in history[n] :
       \/ <<SourceVersionOf(n, h), h[1]>> \in alerts[n]
       \/ \E g \in history[n] : g[1] < h[1] /\ SourceVersionOf(n, g) = SourceVersionOf(n, h)
  /\ \A a \in alerts[n] : \E g \in history[n] : a = <<SourceVersionOf(n, g), g[1]>>

Accounts == \A n \in Notice \ crossed : Accounted(n) /\ Announced(n)

LEMMA AccountsStep == Typed /\ Accounts /\ [Next]_vars => Accounts'
<1> SUFFICES ASSUME Typed, Accounts, [Next]_vars
             PROVE  Accounts'
  OBVIOUS
<1>0. Holding /\ Rows
  BY TypeParts DEF Typed
<1>1. ASSUME NEW w \in Worker, Normalize(w)
      PROVE  Accounts'
  <2> SUFFICES ASSUME NEW n \in Notice \ crossed'
               PROVE  (Accounted(n) /\ Announced(n))'
    BY DEF Accounts
  <2> DEFINE m == hand[w].notice
             c == hand[w].content
             v == NextVersion(w)
             key == SourceVersion[m][c]
  <2>1. m \in Notice /\ c \in Content /\ c # None
    BY <1>1, InHand, PipelineAssumption DEF Normalize, Handling
  <2>2. /\ content' = [content EXCEPT ![m] = c]
        /\ version' = [version EXCEPT ![m] = v]
        /\ history' = [history EXCEPT ![m] =
             IF Amends(w) /\ \A h \in @ : h[1] # v THEN @ \cup {<<v, c>>} ELSE @]
        /\ alerts' = [alerts EXCEPT ![m] = IF Amends(w) THEN Alerted(m, key, v) ELSE @]
        /\ crossed' = IF content[m] # seen[w].content \/ version[m] # seen[w].version
                      THEN crossed \cup {m} ELSE crossed
    BY <1>1 DEF Normalize, Stored
  <2>3. n \notin crossed
    BY <2>2
  <2>4. Accounted(n) /\ Announced(n)
    BY <2>3 DEF Accounts
  <2>5. CASE n # m
    <3>1. /\ content'[n] = content[n] /\ version'[n] = version[n]
          /\ history'[n] = history[n] /\ alerts'[n] = alerts[n]
      BY <1>0, <2>2, <2>5 DEF Rows
    <3>2. QED
      BY <2>4, <3>1 DEF Accounted, Announced, SourceVersionOf
  <2>6. CASE n = m
    <3>1. seen[w].content = content[n] /\ seen[w].version = version[n]
      BY <2>2, <2>6
    <3>2. content'[n] = c /\ version'[n] = v /\ version[n] \in Nat
          /\ history[n] \subseteq Nat \X Content
      BY <1>0, <2>2, <2>6 DEF Rows
    <3>3. CASE Amends(w)
      <4>1. content[n] # None /\ v = version[n] + 1 /\ version[n] >= 1
        BY <2>4, <3>1, <3>3 DEF Amends, NextVersion, Accounted
      <4>2. \A h \in history[n] : h[1] # v /\ h[1] \in 2..version[n]
        <5>1. \A h \in history[n] : h[1] \in 2..version[n]
          BY <2>4 DEF Accounted
        <5>2. QED
          BY <3>2, <4>1, <5>1
      <4>3. history'[n] = history[n] \cup {<<v, c>>}
        BY <1>0, <2>2, <2>6, <3>3, <4>2 DEF Rows
      <4>4. {h[1] : h \in history'[n]} = 2..v
        <5>1. {h[1] : h \in history'[n]} = {h[1] : h \in history[n]} \cup {v}
          <6>1. \A x : x \in {h[1] : h \in history'[n]} <=>
                       x \in {h[1] : h \in history[n]} \/ x = <<v, c>>[1]
            BY <4>3, Zenon
          <6>2. <<v, c>>[1] = v
            OBVIOUS
          <6>3. QED
            BY <6>1, <6>2
        <5>2. 2..v = 2..version[n] \cup {v}
          BY <3>2, <4>1
        <5>3. QED
          BY <2>4, <5>1, <5>2 DEF Accounted
      <4>5. \A g, h \in history'[n] : g[1] = h[1] => g = h
        BY <2>4, <4>2, <4>3 DEF Accounted
      <4>6. /\ alerts'[n] = alerts[n] \cup (IF \A a \in alerts[n] : a[1] # key
                                           THEN {<<key, v>>} ELSE {})
            /\ \A h : SourceVersionOf(n, h)' = SourceVersionOf(n, h)
            /\ SourceVersionOf(n, <<v, c>>) = key /\ <<v, c>>[1] = v
        BY <1>0, <2>2, <2>6, <3>3 DEF Rows, Alerted, SourceVersionOf
      <4>7. Accounted(n)'
        BY <2>1, <3>2, <4>1, <4>3, <4>4, <4>5 DEF Accounted
      <4>8. \A a \in alerts'[n] : \E g \in history'[n] : a = <<SourceVersionOf(n, g), g[1]>>
        BY <2>4, <4>3, <4>6 DEF Announced
      <4>9. ASSUME NEW h \in history'[n]
            PROVE  \/ <<SourceVersionOf(n, h), h[1]>> \in alerts'[n]
                   \/ \E g \in history'[n] :
                        g[1] < h[1] /\ SourceVersionOf(n, g) = SourceVersionOf(n, h)
        <5>1. CASE h \in history[n]
          BY <2>4, <4>3, <4>6, <5>1 DEF Announced
        <5>2. CASE h = <<v, c>> /\ \A a \in alerts[n] : a[1] # key
          BY <4>6, <5>2
        <5>3. CASE h = <<v, c>> /\ \E a \in alerts[n] : a[1] = key
          <6>1. PICK a \in alerts[n] : a[1] = key
            BY <5>3
          <6>2. PICK g \in history[n] : a = <<SourceVersionOf(n, g), g[1]>>
            BY <2>4 DEF Announced
          <6>3. SourceVersionOf(n, g) = key
            BY <6>1, <6>2
          <6>4. g[1] < v
            BY <3>2, <4>1, <4>2
          <6>5. h[1] = v /\ SourceVersionOf(n, h) = key
            BY <4>6, <5>3
          <6>6. QED
            BY <4>3, <6>3, <6>4, <6>5
        <5>4. QED
          BY <4>3, <5>1, <5>2, <5>3
      <4>10. Announced(n)'
        BY <4>6, <4>8, <4>9 DEF Announced
      <4>11. QED
        BY <4>7, <4>10
    <3>4. CASE ~Amends(w)
      <4>1. history'[n] = history[n] /\ alerts'[n] = alerts[n]
        BY <1>0, <2>2, <2>6, <3>4 DEF Rows
      <4>a. Announced(n)'
        BY <2>4, <4>1 DEF Announced, SourceVersionOf
      <4>2. CASE content[n] = None
        <5>1. v = 1 /\ version[n] = 0
          BY <2>4, <3>1, <3>4, <4>2 DEF Accounted, NextVersion
        <5>2. 2..version[n] = {} /\ 2..v = {}
          BY <5>1
        <5>3. QED
          BY <2>1, <2>4, <3>2, <4>1, <4>a, <5>1, <5>2 DEF Accounted
      <4>3. CASE content[n] # None
        <5>1. v = version[n] /\ c = content[n]
          BY <2>6, <3>1, <3>4, <4>3 DEF Amends, NextVersion
        <5>2. QED
          BY <2>4, <3>2, <4>1, <4>a, <5>1 DEF Accounted
      <4>4. QED
        BY <4>2, <4>3
    <3>5. QED
      BY <3>3, <3>4
  <2>7. QED
    BY <2>5, <2>6
<1>2. CASE UNCHANGED <<content, version, history, alerts, crossed>>
  BY <1>2 DEF Accounts, Accounted, Announced, SourceVersionOf
<1>3. QED
  BY <1>1, <1>2 DEF Next, Handle, Publish, Fetch, Ages, Take, Join, Found, Refused, Match, Complete,
                   Fail, vars, notices, past

(* Every change of a notice's content is an amendment with a version of    *)
(* its own, and with an alert job of its own if the source gives it a      *)
(* version that it has not given before; unless two normalisations of the  *)
(* notice crossed (upsert_notice, run_normalize).                          *)
THEOREM VersionsAccountHolds == Spec => []VersionsAccount
<1>1. Init => Accounts
  <2>1. 2..0 = {}
    OBVIOUS
  <2>2. QED
    BY <2>1 DEF Init, Accounts, Accounted, Announced
<1>2. Accounts => VersionsAccount
  BY DEF Accounts, Accounted, Announced, VersionsAccount
<1>3. QED
  BY <1>1, <1>2, TypedAlways, AccountsStep, PTL DEF Spec
-----------------------------------------------------------------------------
(* NoSecondCard speaks of the step that creates a cluster; PlacingInv says *)
(* what the dedupe that takes the step knows: every twin with a cluster is *)
(* among the notices it has found alike, but for those excused.            *)
Excused(m, n) == {m, n} \in raced \/ m \in aged \/ n \in crowded

Informed ==
  \A w \in Worker : Handling(w, "dedupe") =>
    \A m \in Notice \ {hand[w].notice} :
      cluster[m] # None /\ Twins(m, hand[w].notice) =>
        m \in seen[w].alike \/ Excused(m, hand[w].notice)

(* Dedupes that are open at the same time are known to be.                 *)
RacesKnown ==
  \A v, w \in Worker : v # w /\ Handling(v, "dedupe") /\ Handling(w, "dedupe") =>
    {hand[v].notice, hand[w].notice} \in raced

(* A notice shows a payload that is stored.                                *)
Sourced == \A n \in Notice : content[n] # None => <<n, content[n]>> \in raw

PlacingInv == Sourced /\ RacesKnown /\ Informed

LEMMA SourcedStep == Typed /\ Sourced /\ [Next]_vars => Sourced'
<1> SUFFICES ASSUME Typed, Sourced, [Next]_vars
             PROVE  Sourced'
  OBVIOUS
<1>1. CASE UNCHANGED content /\ raw \subseteq raw'
  BY <1>1 DEF Sourced
<1>2. ASSUME NEW w \in Worker, Normalize(w)
      PROVE  Sourced'
  <2>1. /\ content' = [content EXCEPT ![hand[w].notice] = hand[w].content] /\ UNCHANGED raw
        /\ pc[w] = "handling" /\ hand[w].kind = "normalize"
    BY <1>2 DEF Normalize, Stored, Handling
  <2>2. <<hand[w].notice, hand[w].content>> \in raw /\ hand[w].notice \in Notice
    BY <2>1, InHand DEF Typed, Staged
  <2> QED
    BY <2>1, <2>2 DEF Sourced, Typed, TypeOK
<1> QED
  BY <1>1, <1>2
  DEF Next, Publish, Fetch, Ages, Take, Handle, Join, Found, Refused, Match, Complete, Fail, notices,
      vars

(* More payloads make no twins.                                            *)
LEMMA TwinsBefore ==
  ASSUME raw \subseteq raw', NEW m, NEW n, Twins(m, n)'
  PROVE  Twins(m, n)
BY DEF Twins

(* Steps that place no notice and take no dedupe.                          *)
LEMMA PlacingStays ==
  ASSUME PlacingInv, raw \subseteq raw', aged \subseteq aged', UNCHANGED <<raced, crowded, cluster>>,
         \A w \in Worker : Handling(w, "dedupe")' =>
           Handling(w, "dedupe") /\ hand'[w] = hand[w] /\ seen'[w] = seen[w]
  PROVE  RacesKnown' /\ Informed'
<1>1. RacesKnown'
  BY DEF PlacingInv, RacesKnown
<1>2. \A m, n : Twins(m, n)' => Twins(m, n)
  BY TwinsBefore
<1>3. Informed'
  BY <1>2 DEF PlacingInv, Informed, Excused
<1> QED
  BY <1>1, <1>3

(* Take: a dedupe finds its clustered twins, or is excused from it.        *)
LEMMA TakeInforms ==
  ASSUME PlacingInv, Typed, NEW w \in Worker, NEW j \in Job, Take(w, j)
  PROVE  RacesKnown' /\ Informed'
<1> DEFINE n == j.notice
<1>1. /\ pc' = [pc EXCEPT ![w] = "handling"] /\ hand' = [hand EXCEPT ![w] = j]
      /\ UNCHANGED <<raw, cluster, content, aged>>
      /\ phase[j] = "pending" /\ pc[w] = "idle" /\ \A v \in Worker : hand[v] # j
      /\ raced' = IF j.kind # "dedupe" THEN raced
                  ELSE {p \in raced : n \notin p} \cup
                       {{hand[v].notice, n} : v \in {u \in Worker : Handling(u, "dedupe")}}
  BY DEF Take, notices, placing, Free
<1>2. PICK C \in SUBSET Notice :
        /\ j.kind = "dedupe" => C \in Candidates(n)
        /\ seen' = [seen EXCEPT ![w] =
             [content |-> content[n], version |-> version[n], alike |-> Alike(C, n)]]
        /\ crowded' = IF j.kind # "dedupe" THEN crowded
                      ELSE IF C # Eligible(n) THEN crowded \cup {n} ELSE crowded \ {n}
  BY TakesCandidates
<1>3. /\ pc'[w] = "handling" /\ hand'[w] = j /\ seen'[w].alike = Alike(C, n)
      /\ \A v \in Worker \ {w} : pc'[v] = pc[v] /\ hand'[v] = hand[v] /\ seen'[v] = seen[v]
  BY <1>1, <1>2 DEF Typed, TypeOK
<1>4. /\ Handling(w, "dedupe")' <=> j.kind = "dedupe"
      /\ \A v \in Worker \ {w} : Handling(v, "dedupe")' <=> Handling(v, "dedupe")
  BY <1>3 DEF Handling
<1>5. n \in Notice
  BY JobShape
<1>6. \A m, k : Twins(m, k)' <=> Twins(m, k)
  BY <1>1 DEF Twins
<1>7. CASE j.kind # "dedupe"
  <2>1. UNCHANGED <<raced, crowded>> /\ ~ Handling(w, "dedupe")'
    BY <1>1, <1>2, <1>4, <1>7
  <2> QED
    BY <1>1, <1>3, <1>4, <2>1, PlacingStays
<1>8. CASE j.kind = "dedupe"
  <2>1. \A v \in Worker \ {w} : Handling(v, "dedupe") => hand[v].notice # n
    <3>1. j = Deduping(n)
      BY <1>8, JobShape
    <3> QED
      BY <1>1, <3>1, InHand DEF Handling
  <2>2. \A v \in Worker \ {w} : Handling(v, "dedupe") => {hand[v].notice, n} \in raced'
    BY <1>1, <1>8
  <2>3. \A p \in raced : n \notin p => p \in raced'
    BY <1>1, <1>8
  <2>4. RacesKnown'
    <3> SUFFICES ASSUME NEW u \in Worker, NEW v \in Worker, u # v,
                        Handling(u, "dedupe")', Handling(v, "dedupe")'
                 PROVE  {hand'[u].notice, hand'[v].notice} \in raced'
      BY DEF RacesKnown
    <3>1. CASE u # w /\ v # w
      <4>1. {hand[u].notice, hand[v].notice} \in raced
        BY <1>4, <3>1 DEF PlacingInv, RacesKnown
      <4>2. n \notin {hand[u].notice, hand[v].notice}
        BY <1>4, <2>1, <3>1
      <4> QED
        BY <1>3, <2>3, <3>1, <4>1, <4>2
    <3>2. CASE u = w
      <4>1. {hand'[u].notice, hand'[v].notice} = {hand[v].notice, n}
        BY <1>3, <3>2
      <4> QED
        BY <1>4, <2>2, <3>2, <4>1
    <3>3. CASE v = w
      <4>1. {hand'[u].notice, hand'[v].notice} = {hand[u].notice, n}
        BY <1>3, <3>3
      <4> QED
        BY <1>4, <2>2, <3>3, <4>1
    <3> QED
      BY <3>1, <3>2, <3>3
  <2>5. ASSUME NEW m \in Notice \ {n}, cluster[m] # None, Twins(m, n)
        PROVE  m \in Alike(C, n) \/ m \in aged' \/ n \in crowded'
    <3>1. content[m] # None /\ content[n] # None
      BY <1>1, <1>5, <1>8, <2>5, JobShape DEF Typed, Staged
    <3>2. /\ <<m, content[m]>> \in raw /\ <<n, content[n]>> \in raw
          /\ content[m] \in Content /\ content[n] \in Content
      BY <1>5, <3>1 DEF PlacingInv, Sourced, Typed, TypeOK
    <3>3. <<Shown(m), Shown(n)>> \in Near /\ <<Shown(m), Shown(n)>> \in Same
      BY <2>5, <3>2 DEF Twins, Shown
    <3>4. CASE m \in aged
      BY <1>1, <3>4
    <3>5. CASE m \notin aged /\ C # Eligible(n)
      BY <1>2, <1>8, <3>5
    <3>6. CASE m \notin aged /\ C = Eligible(n)
      <4>1. m \in C
        BY <2>5, <3>3, <3>6 DEF Eligible
      <4> QED
        BY <3>3, <4>1 DEF Alike
    <3> QED
      BY <3>4, <3>5, <3>6
  <2>6. Informed'
    <3>1. ASSUME NEW v \in Worker, Handling(v, "dedupe")', NEW k, k = hand'[v].notice,
                 NEW m \in Notice \ {k}, cluster'[m] # None, Twins(m, k)'
          PROVE  (m \in seen[v].alike \/ Excused(m, k))'
      <4>1. cluster[m] # None /\ Twins(m, k)
        BY <1>1, <1>6, <3>1
      <4>2. CASE v = w
        <5>1. k = n /\ seen'[v].alike = Alike(C, n)
          BY <1>3, <3>1, <4>2
        <5>2. m \in Alike(C, n) \/ m \in aged' \/ n \in crowded'
          BY <2>5, <3>1, <4>1, <5>1
        <5> QED
          BY <5>1, <5>2 DEF Excused
      <4>3. CASE v # w
        <5>1. /\ k = hand[v].notice /\ seen'[v] = seen[v] /\ Handling(v, "dedupe") /\ k # n
          BY <1>3, <1>4, <2>1, <3>1, <4>3
        <5>2. m \in seen[v].alike \/ Excused(m, k)
          BY <3>1, <4>1, <5>1 DEF PlacingInv, Informed
        <5>3. CASE m = n
          <6>1. {m, k} = {k, n} /\ {k, n} \in raced'
            BY <2>2, <4>3, <5>1, <5>3
          <6> QED
            BY <6>1 DEF Excused
        <5>4. CASE m # n
          <6>1. {m, k} \in raced => {m, k} \in raced'
            BY <2>3, <5>1, <5>4
          <6>2. k \in crowded => k \in crowded'
            BY <1>2, <5>1
          <6> QED
            BY <1>1, <5>1, <5>2, <6>1, <6>2 DEF Excused
        <5> QED
          BY <5>3, <5>4
      <4> QED
        BY <4>2, <4>3
    <3> QED
      BY <3>1 DEF Informed
  <2> QED
    BY <2>4, <2>6
<1> QED
  BY <1>7, <1>8

(* Join and Found: dedupes that are still open have raced with this one.   *)
LEMMA PlacedInforms ==
  ASSUME PlacingInv, Typed, NEW w \in Worker, Handling(w, "dedupe"),
         NEW k, cluster' = [cluster EXCEPT ![hand[w].notice] = k],
         pc' = [pc EXCEPT ![w] = "completing"],
         UNCHANGED <<raw, aged, raced, crowded, hand, seen>>
  PROVE  RacesKnown' /\ Informed'
<1>1. \A v \in Worker : Handling(v, "dedupe")' => Handling(v, "dedupe") /\ v # w
  BY DEF Handling, Typed, TypeOK
<1>2. RacesKnown'
  BY <1>1 DEF PlacingInv, RacesKnown
<1>3. Informed'
  <2> SUFFICES ASSUME NEW v \in Worker, Handling(v, "dedupe")',
                      NEW m \in Notice \ {hand[v].notice},
                      cluster'[m] # None, Twins(m, hand[v].notice)
               PROVE  m \in seen[v].alike \/ Excused(m, hand[v].notice)
    BY DEF Informed, Excused, Twins
  <2>1. Handling(v, "dedupe") /\ v # w
    BY <1>1
  <2>2. CASE m = hand[w].notice
    <3>1. {hand[w].notice, hand[v].notice} \in raced
      BY <2>1 DEF PlacingInv, RacesKnown
    <3> QED
      BY <2>2, <3>1 DEF Excused
  <2>3. CASE m # hand[w].notice
    <3>1. cluster[m] # None
      BY <2>3 DEF Typed, TypeOK
    <3> QED
      BY <2>1, <3>1 DEF PlacingInv, Informed
  <2> QED
    BY <2>2, <2>3
<1> QED
  BY <1>2, <1>3

LEMMA PlacingStep == Typed /\ PlacingInv /\ [Next]_vars => PlacingInv'
<1> SUFFICES ASSUME Typed, PlacingInv, [Next]_vars
             PROVE  RacesKnown' /\ Informed'
  BY SourcedStep DEF PlacingInv
<1>1. CASE \/ (\E n \in Notice, c \in Content : Publish(n, c)) \/ Fetch
           \/ (\E n \in Notice : Ages(n)) \/ UNCHANGED vars
  <2>1. /\ raw \subseteq raw' /\ aged \subseteq aged'
        /\ UNCHANGED <<raced, crowded, cluster, pc, hand, seen>>
    BY <1>1 DEF Publish, Fetch, Ages, vars, placing, worker, past
  <2> QED
    BY <2>1, PlacingStays DEF Handling
<1>2. ASSUME NEW w \in Worker, NEW j \in Job, Take(w, j)
      PROVE  RacesKnown' /\ Informed'
  BY <1>2, TakeInforms
<1>3. ASSUME NEW w \in Worker, Normalize(w) \/ Match(w)
      PROVE  RacesKnown' /\ Informed'
  <2>1. /\ pc' = [pc EXCEPT ![w] = "completing"]
        /\ UNCHANGED <<raw, aged, raced, crowded, cluster, hand, seen>>
    BY <1>3 DEF Normalize, Match, Committed, placing
  <2>2. \A v \in Worker : Handling(v, "dedupe")' => Handling(v, "dedupe")
    BY <2>1 DEF Typed, TypeOK, Handling
  <2> QED
    BY <2>1, <2>2, PlacingStays
<1>4. ASSUME NEW w \in Worker, Refused(w) \/ Complete(w) \/ Fail(w)
      PROVE  RacesKnown' /\ Informed'
  <2>1. Release(w) /\ UNCHANGED <<raw, aged, raced, crowded, cluster>>
    BY <1>4 DEF Refused, Complete, Fail, placing, past
  <2>2. \A v \in Worker : Handling(v, "dedupe")' =>
          Handling(v, "dedupe") /\ hand'[v] = hand[v] /\ seen'[v] = seen[v]
    BY <2>1 DEF Release, Typed, TypeOK, Handling
  <2> QED
    BY <2>1, <2>2, PlacingStays
<1>5. ASSUME NEW w \in Worker, NEW m \in Notice, Join(w, m)
      PROVE  RacesKnown' /\ Informed'
  <2>1. /\ Handling(w, "dedupe")
        /\ cluster' = [cluster EXCEPT ![hand[w].notice] = cluster[m]]
        /\ pc' = [pc EXCEPT ![w] = "completing"]
        /\ UNCHANGED <<raw, aged, raced, crowded, hand, seen>>
    BY <1>5 DEF Join, Committed
  <2> QED
    BY <2>1, PlacedInforms
<1>6. ASSUME NEW w \in Worker, Found(w)
      PROVE  RacesKnown' /\ Informed'
  <2>1. /\ Handling(w, "dedupe")
        /\ cluster' = [cluster EXCEPT ![hand[w].notice] = hand[w].notice]
        /\ pc' = [pc EXCEPT ![w] = "completing"]
        /\ UNCHANGED <<raw, aged, raced, crowded, hand, seen>>
    BY <1>6 DEF Found, Committed
  <2> QED
    BY <2>1, PlacedInforms
<1> QED
  BY <1>1, <1>2, <1>3, <1>4, <1>5, <1>6 DEF Next, Handle

(* A cluster is created only by the dedupe of its notice, which has found  *)
(* nothing alike.                                                          *)
LEMMA ClusterCreated ==
  ASSUME Typed, [Next]_vars, NEW n \in clusters' \ clusters
  PROVE  \E w \in Worker : Handling(w, "dedupe") /\ hand[w].notice = n /\ seen[w].alike = {}
<1>1. CASE UNCHANGED clusters
  BY <1>1
<1>2. ASSUME NEW w \in Worker, Found(w)
      PROVE  Handling(w, "dedupe") /\ hand[w].notice = n /\ seen[w].alike = {}
  BY <1>2 DEF Found
<1> QED
  BY <1>1, <1>2
  DEF Next, Publish, Fetch, Ages, Take, Handle, Normalize, Join, Refused, Match, Complete, Fail,
      placing, vars

(* "A duplicate arriving days later joins its cluster rather than creating *)
(* a second card": a dedupe creates no cluster for a notice with a twin    *)
(* that has one, unless the two were open together, the twin is out of the *)
(* window or candidates were left out (run_dedupe).                        *)
THEOREM NoSecondCardHolds == Spec => NoSecondCard
<1> DEFINE Step == \A n \in clusters' \ clusters, m \in Notice :
                     m # n /\ cluster[m] # None /\ Twins(m, n) =>
                       {m, n} \in raced \/ m \in aged \/ n \in crowded
<1>1. Init => PlacingInv
  BY DEF Init, PlacingInv, Sourced, RacesKnown, Informed, Handling
<1>2. Typed /\ PlacingInv /\ [Next]_vars => PlacingInv'
  BY PlacingStep
<1>3. Typed /\ PlacingInv /\ [Next]_vars => [Step]_vars
  <2> SUFFICES ASSUME Typed, PlacingInv, [Next]_vars,
                      NEW n \in clusters' \ clusters, NEW m \in Notice,
                      m # n, cluster[m] # None, Twins(m, n)
               PROVE  Excused(m, n)
    BY DEF Excused
  <2>1. PICK w \in Worker : /\ Handling(w, "dedupe") /\ hand[w].notice = n
                            /\ seen[w].alike = {}
    BY ClusterCreated
  <2> QED
    BY <2>1 DEF PlacingInv, Informed
<1> QED
  BY <1>1, <1>2, <1>3, TypedAlways, PTL DEF Spec, NoSecondCard

-----------------------------------------------------------------------------
(* Refinement: the stages are jobs and handlers of JobContract.            *)

(* A worker completes a job only after its handler has committed.          *)
Committing == \A w \in Worker : pc[w] = "completing" => hand[w] \in ran

LEMMA CommittingStep == Typed /\ Committing /\ [Next]_vars => Committing'
<1> SUFFICES ASSUME Typed, Committing, [Next]_vars
             PROVE  Committing'
  OBVIOUS
<1>1. Holding
  BY TypeParts DEF Typed
<1>2. ASSUME UNCHANGED <<pc, hand, ran>>
      PROVE  Committing'
  BY <1>2 DEF Committing
<1>3. ASSUME NEW w \in Worker, pc' = [pc EXCEPT ![w] = "handling"], NEW j,
             hand' = [hand EXCEPT ![w] = j], UNCHANGED ran
      PROVE  Committing'
  BY <1>1, <1>3 DEF Committing, Holding
<1>4. ASSUME NEW w \in Worker, Release(w), UNCHANGED ran
      PROVE  Committing'
  BY <1>1, <1>4 DEF Committing, Holding, Release
<1>5. ASSUME NEW w \in Worker, NEW J, Committed(w, J)
      PROVE  Committing'
  BY <1>1, <1>5 DEF Committing, Holding, Committed
<1>6. CASE \/ (\E n \in Notice, c \in Content : Publish(n, c)) \/ Fetch
           \/ (\E n \in Notice : Ages(n)) \/ UNCHANGED vars
  BY <1>2, <1>6 DEF Publish, Fetch, Ages, vars, worker, past
<1>7. ASSUME NEW w \in Worker, \E j \in Job : Take(w, j)
      PROVE  Committing'
  BY <1>3, <1>7 DEF Take
<1>8. ASSUME NEW w \in Worker, Refused(w) \/ Complete(w) \/ Fail(w)
      PROVE  Committing'
  BY <1>4, <1>8 DEF Refused, Complete, Fail, past
<1>9. ASSUME NEW w \in Worker,
             Normalize(w) \/ (\E m \in Notice : Join(w, m)) \/ Found(w) \/ Match(w)
      PROVE  Committing'
  BY <1>5, <1>9 DEF Normalize, Join, Found, Match
<1> QED
  BY <1>6, <1>7, <1>8, <1>9 DEF Next, Handle

LEMMA StageOf ==
  ASSUME NEW n \in Notice
  PROVE  /\ \A c \in Content : NextStage[Normalizing(n, c)] = {Deduping(n)}
         /\ NextStage[Deduping(n)] = {Matching(n)}
         /\ NextStage[Matching(n)] = {}
<1>1. "normalize" # "dedupe" /\ "normalize" # "match" /\ "dedupe" # "match"
  OBVIOUS
<1> QED
  BY <1>1, JobShape DEF NextStage

(* Every step of the pipeline submits first-stage jobs, is what a job of   *)
(* the contract does, or changes nothing the contract speaks of.           *)
LEMMA StagesStep ==
  Typed /\ Committing /\ [Next]_vars => [Contract!Next]_Contract!vars
<1> SUFFICES ASSUME Typed, Committing, [Next]_vars
             PROVE  [Contract!Next]_Contract!vars
  OBVIOUS
<1> DEFINE First == {j \in Job : j.kind = "normalize"}
           Goal == \/ \E J \in SUBSET First : Contract!Submit(J)
                   \/ \E j \in Job : Contract!Run(j) \/ Contract!Finish(j) \/ Contract!GiveUp(j)
                   \/ UNCHANGED <<phase, ran>>
<1>0. Goal => [Contract!Next]_Contract!vars
  BY DEF Contract!Next, Contract!vars
<1>1. phase \in [Job -> Phase]
  BY TypeParts DEF Typed, Holding
<1>2. CASE Fetch
  <2>1. NormalizeJobs \in SUBSET First
    BY JobShape DEF NormalizeJobs, Fresh
  <2>2. Contract!Submit(NormalizeJobs)
    BY <1>2 DEF Fetch, Enqueued, Contract!Submit, Contract!With
  <2> HIDE DEF First
  <2> QED
    BY <1>0, <2>1, <2>2
<1>3. ASSUME NEW w \in Worker, pc[w] = "handling", NEW J, J = NextStage[hand[w]], Committed(w, J)
      PROVE  Goal
  <2>1. hand[w] \in Job /\ phase[hand[w]] = "pending"
    BY <1>3, InHand
  <2>2. Contract!Run(hand[w])
    BY <1>3, <2>1 DEF Committed, Enqueued, Contract!Run, Contract!With
  <2> QED
    BY <2>1, <2>2
<1>4. ASSUME NEW w \in Worker, Normalize(w)
      PROVE  Goal
  <2>1. pc[w] = "handling" /\ Committed(w, {Deduping(hand[w].notice)})
    BY <1>4 DEF Normalize, Handling
  <2>2. NextStage[hand[w]] = {Deduping(hand[w].notice)}
    BY <1>4, <2>1, InHand, StageOf DEF Normalize, Handling
  <2> QED
    BY <1>3, <2>1, <2>2
<1>5. ASSUME NEW w \in Worker, (\E m \in Notice : Join(w, m)) \/ Found(w)
      PROVE  Goal
  <2>1. pc[w] = "handling" /\ Committed(w, {Matching(hand[w].notice)})
    BY <1>5 DEF Join, Found, Handling
  <2>2. NextStage[hand[w]] = {Matching(hand[w].notice)}
    BY <1>5, <2>1, InHand, StageOf DEF Join, Found, Handling
  <2> QED
    BY <1>3, <2>1, <2>2
<1>6. ASSUME NEW w \in Worker, Match(w)
      PROVE  Goal
  <2>1. pc[w] = "handling" /\ Committed(w, {})
    BY <1>6 DEF Match, Handling
  <2>2. NextStage[hand[w]] = {}
    BY <1>6, <2>1, InHand, StageOf DEF Match, Handling
  <2> QED
    BY <1>3, <2>1, <2>2
<1>7. ASSUME NEW w \in Worker, Complete(w)
      PROVE  Goal
  <2>1. /\ hand[w] \in Job /\ phase[hand[w]] = "pending" /\ hand[w] \in ran
        /\ phase' = [phase EXCEPT ![hand[w]] = "done"] /\ ran' = ran
    BY <1>7, InHand DEF Complete, Committing, past
  <2>2. Contract!Finish(hand[w])
    BY <2>1 DEF Contract!Finish
  <2> QED
    BY <2>1, <2>2
<1>8. ASSUME NEW w \in Worker, Refused(w) \/ Fail(w)
      PROVE  Goal
  <2>1. /\ hand[w] \in Job /\ phase[hand[w]] = "pending" /\ ran' = ran
        /\ \E p \in {"pending", "dead"} : phase' = [phase EXCEPT ![hand[w]] = p]
    BY <1>8, InHand DEF Refused, Fail, Handling, past
  <2>2. CASE phase' = [phase EXCEPT ![hand[w]] = "pending"]
    BY <1>1, <2>1, <2>2
  <2>3. CASE phase' = [phase EXCEPT ![hand[w]] = "dead"]
    BY <2>1, <2>3 DEF Contract!GiveUp
  <2> QED
    BY <2>1, <2>2, <2>3
<1>9. CASE \/ (\E n \in Notice, c \in Content : Publish(n, c)) \/ UNCHANGED vars
           \/ (\E n \in Notice : Ages(n)) \/ (\E w \in Worker, j \in Job : Take(w, j))
  BY <1>0, <1>9 DEF Publish, Ages, Take, vars, past
<1> HIDE DEF Goal
<1> QED
  BY <1>0, <1>2, <1>4, <1>5, <1>6, <1>7, <1>8, <1>9 DEF Next, Handle

(* The pipeline uses the queue as JobContract allows: its fetches start    *)
(* jobs of the first stage, each committed stage enqueues the next at most *)
(* once, and what is settled stays so.                                     *)
THEOREM StagesKeepContractHolds == Spec => StagesKeepContract
<1>1. Init => Committing
  BY DEF Init, Committing
<1>2. Init => Contract!Init
  BY DEF Init, Contract!Init
<1> QED
  BY TypedAlways, CommittingStep, StagesStep, <1>1, <1>2, PTL
     DEF Spec, Contract!Spec, StagesKeepContract
=============================================================================
