---------------------------- MODULE Gateway_proofs ----------------------------
(***************************************************************************)
(* Proofs about Gateway, for any questions, models, tiers, thresholds,     *)
(* times and bounds.                                                       *)
(***************************************************************************)
EXTENDS Gateway, FiniteSetTheorems, SequenceTheorems, TLAPS

LEMMA Constants ==
  /\ None \notin Int /\ None \notin Question
  /\ TierOf \in [Question -> Tier] /\ ModelOf \in [Tier -> Model]
  /\ MaxRetries \in Nat /\ Threshold \in Nat \ {0} /\ Reset \in Nat \ {0}
  /\ TTL \in Nat \ {0} /\ MaxEntries \in Nat \ {0}
  /\ MaxTime \in Nat /\ MaxCalls \in Nat
BY GatewayAssumption

-----------------------------------------------------------------------------
(* The parts of the type: the cache, the call, the rest.                   *)
Known(s) ==
  \A i \in DOMAIN s : /\ s[i].at <= now
                      /\ \A j \in DOMAIN s : s[i].q = s[j].q => i = j

CacheType == cache \in Seq(Entry) /\ Len(cache) <= MaxEntries /\ Known(cache)

CallType ==
  /\ question \in Question \cup {None} /\ tier \in Tier /\ attempt \in 0..(MaxRetries + 1)
  /\ caching \in BOOLEAN /\ billing \in BOOLEAN /\ since \in Time
  /\ question # None => attempt >= 1 /\ tier <= TierOf[question] /\ since <= now

BreakerType ==
  /\ failures \in [Model -> Nat] /\ openedAt \in [Model -> Time \cup {None}]
  /\ streak \in [Model -> SUBSET (Time \X Nat)]

RestType ==
  /\ now \in Time
  /\ pending \in Nat /\ usage \in Nat /\ spent \in Nat /\ lost \in BOOLEAN
  /\ answer \in [q : Question \cup {None}, tier : Tier, at : Time, age : Nat]
  /\ calls \in 0..MaxCalls

LEMMA TypeParts == TypeOK <=> CacheType /\ CallType /\ BreakerType /\ RestType
BY DEF TypeOK, CacheType, Known, CallType, BreakerType, RestType

(* Taking a question out leaves the other entries in their order.          *)
LEMMA OthersKeep ==
  ASSUME CacheType, now \in Nat, NEW q \in Question
  PROVE  /\ Others(q) \in Seq(Entry) /\ Len(Others(q)) <= MaxEntries
         /\ EntryOf(q) # {} => Len(Others(q)) = Len(cache) - 1
         /\ Known(Others(q))
         /\ \A i \in DOMAIN Others(q) : Others(q)[i].q # q
         /\ \A k \in DOMAIN Others(q) : \E l \in DOMAIN cache : Others(q)[k] = cache[l]
<1> USE Constants DEF CacheType
<1>1. CASE EntryOf(q) = {}
  BY <1>1 DEF Others, EntryOf
<1>2. CASE EntryOf(q) # {}
  <2> DEFINE i == CHOOSE i \in EntryOf(q) : TRUE
             s == SubSeq(cache, 1, i - 1) \o SubSeq(cache, i + 1, Len(cache))
  <2>1. i \in 1..Len(cache) /\ cache[i].q = q
    BY <1>2 DEF EntryOf
  <2>2. Others(q) = s
    BY <1>2 DEF Others, RemoveAt
  <2> HIDE DEF i
  <2> DEFINE a == SubSeq(cache, 1, i - 1)
             b == SubSeq(cache, i + 1, Len(cache))
  <2>3. /\ a \in Seq(Entry) /\ Len(a) = i - 1 /\ \A k \in 1..(i - 1) : a[k] = cache[k]
        /\ b \in Seq(Entry) /\ Len(b) = Len(cache) - i
        /\ \A k \in 1..(Len(cache) - i) : b[k] = cache[i + k]
    BY <2>1
  <2>4. /\ s \in Seq(Entry) /\ Len(s) = Len(cache) - 1
        /\ \A k \in 1..Len(s) : s[k] = IF k < i THEN cache[k] ELSE cache[k + 1]
    <3> HIDE DEF a, b
    <3>0. a \in Seq(Entry) /\ b \in Seq(Entry)
      BY <2>3
    <3>1. /\ a \o b \in Seq(Entry) /\ Len(a \o b) = Len(a) + Len(b)
          /\ \A k \in 1..(Len(a) + Len(b)) :
               (a \o b)[k] = IF k <= Len(a) THEN a[k] ELSE b[k - Len(a)]
      BY ONLY <3>0, ConcatProperties
    <3>2. s = a \o b
      BY DEF a, b
    <3> HIDE DEF s
    <3>3. Len(a) \in Nat /\ Len(b) \in Nat /\ Len(cache) \in Nat /\ i \in 1..Len(cache)
      BY <2>1, <2>3
    <3>4. ASSUME NEW k \in 1..Len(s)
          PROVE  s[k] = IF k < i THEN cache[k] ELSE cache[k + 1]
      <4>1. CASE k < i
        BY <2>3, <3>1, <3>2, <3>3, <3>4, <4>1
      <4>2. CASE ~ k < i
        <5>1. s[k] = b[k - Len(a)] /\ k - Len(a) \in 1..(Len(cache) - i)
          BY <2>3, <3>1, <3>2, <3>3, <3>4, <4>2
        <5>2. b[k - Len(a)] = cache[i + (k - Len(a))] /\ i + (k - Len(a)) = k + 1
          BY <2>3, <3>3, <5>1
        <5> QED
          BY <4>2, <5>1, <5>2
      <4> QED
        BY <4>1, <4>2
    <3>5. s \in Seq(Entry) /\ Len(s) = Len(a) + Len(b)
      BY <3>1, <3>2
    <3>6. Len(s) = Len(cache) - 1
      BY <2>3, <3>3, <3>5
    <3> QED
      BY <3>4, <3>5, <3>6
  <2> HIDE DEF s
  <2>5. \A k \in DOMAIN s : \E l \in DOMAIN cache :
          s[k] = cache[l] /\ l # i /\ l = IF k < i THEN k ELSE k + 1
    <3>1. DOMAIN s = 1..Len(s) /\ DOMAIN cache = 1..Len(cache) /\ Len(cache) \in Nat
      BY <2>4
    <3>2. SUFFICES ASSUME NEW k \in 1..Len(s)
                   PROVE  \E l \in 1..Len(cache) :
                            s[k] = cache[l] /\ l # i /\ l = IF k < i THEN k ELSE k + 1
      BY <3>1
    <3>3. CASE k < i
      BY <2>1, <2>4, <3>1, <3>3
    <3>4. CASE ~ k < i
      <4>1. k + 1 \in 1..Len(cache) /\ s[k] = cache[k + 1]
        BY <2>1, <2>4, <3>1, <3>4
      <4> QED
        BY <2>1, <3>1, <3>4, <4>1
    <3> QED
      BY <3>3, <3>4
  <2>6. Known(s)
    <3>1. Known(cache) /\ DOMAIN s = 1..Len(s) /\ DOMAIN cache = 1..Len(cache)
      BY <2>4
    <3>2. SUFFICES ASSUME NEW j \in DOMAIN s, NEW k \in DOMAIN s
                   PROVE  s[j].at <= now /\ (s[j].q = s[k].q => j = k)
      BY DEF Known
    <3>3. PICK l \in DOMAIN cache : s[j] = cache[l] /\ l # i /\ l = IF j < i THEN j ELSE j + 1
      BY <2>5
    <3>4. PICK r \in DOMAIN cache : s[k] = cache[r] /\ r # i /\ r = IF k < i THEN k ELSE k + 1
      BY <2>5
    <3> QED
      BY <2>1, <3>1, <3>3, <3>4 DEF Known
  <2>7. \A k \in DOMAIN s : s[k].q # q
    BY <2>1, <2>5 DEF Known
  <2> QED
    BY <2>2, <2>4, <2>5, <2>6, <2>7
<1> QED
  BY <1>1, <1>2

(* ... and putting an entry of it last keeps every question there once.    *)
LEMMA AppendKeeps ==
  ASSUME CacheType, now \in Nat, NEW q \in Question, NEW e \in Entry, e.q = q, e.at <= now
  PROVE  /\ Append(Others(q), e) \in Seq(Entry) /\ Known(Append(Others(q), e))
         /\ Len(Append(Others(q), e)) = Len(Others(q)) + 1
BY OthersKeep DEF Known

(* Dropping the oldest entry keeps the cache within its limit.             *)
LEMMA TrimKeeps ==
  ASSUME NEW s \in Seq(Entry), Len(s) <= MaxEntries + 1, Known(s)
  PROVE  Trimmed(s) \in Seq(Entry) /\ Len(Trimmed(s)) <= MaxEntries /\ Known(Trimmed(s))
<1> USE Constants
<1>1. CASE Len(s) > MaxEntries
  <2>1. /\ Tail(s) \in Seq(Entry) /\ Len(Tail(s)) = Len(s) - 1
        /\ \A k \in 1..Len(Tail(s)) : Tail(s)[k] = s[k + 1]
    BY <1>1
  <2>2. Known(Tail(s))
    BY <2>1 DEF Known
  <2> QED
    BY <1>1, <2>1, <2>2 DEF Trimmed
<1>2. CASE ~ Len(s) > MaxEntries
  BY <1>2 DEF Trimmed
<1> QED
  BY <1>1, <1>2

LEMMA CacheStep == TypeOK /\ [Next]_vars => CacheType'
<1> SUFFICES ASSUME TypeOK, [Next]_vars
             PROVE  CacheType'
  OBVIOUS
<1>0. CacheType /\ CallType /\ RestType /\ now \in Nat
  BY TypeParts, Constants DEF RestType, Time
<1> USE <1>0, Constants
<1>1. CASE TimePasses
  <2>1. cache' = cache /\ now' = now + 1
    BY <1>1 DEF TimePasses
  <2>2. \A i \in DOMAIN cache : cache[i].at \in Int /\ cache[i].at <= now
    <3>1. \A i \in DOMAIN cache : cache[i] \in Entry
      BY DEF CacheType
    <3> QED
      BY <3>1 DEF CacheType, Known, Entry, Time
  <2>3. Known(cache)'
    BY <2>1, <2>2 DEF CacheType, Known
  <2> QED
    BY <2>1, <2>3 DEF CacheType
<1>2. ASSUME NEW q \in Question, Hit(q)
      PROVE  CacheType'
  <2>1. PICK i \in EntryOf(q) : cache' = Append(Others(q), cache[i])
    BY <1>2 DEF Hit
  <2>2. i \in DOMAIN cache /\ cache[i].q = q /\ cache[i] \in Entry /\ cache[i].at <= now
    BY DEF EntryOf, CacheType, Known
  <2>3. /\ cache' \in Seq(Entry) /\ Known(cache') /\ Len(cache') = Len(Others(q)) + 1
    BY <2>1, <2>2, AppendKeeps
  <2>4. Len(Others(q)) = Len(cache) - 1
    BY <2>2, OthersKeep
  <2> QED
    BY <1>2, <2>3, <2>4 DEF Hit, CacheType, Known
<1>3. ASSUME NEW q \in Question, NEW use \in BOOLEAN, Refuses(q, use)
      PROVE  CacheType'
  BY <1>3, OthersKeep DEF Refuses, CacheType, Known
<1>4. ASSUME NEW q \in Question, NEW use \in BOOLEAN, NEW bill \in BOOLEAN, Chooses(q, use, bill)
      PROVE  CacheType'
  BY <1>4, OthersKeep DEF Chooses, CacheType, Known
<1>5. CASE Accepts
  <2> DEFINE e == [q |-> question, tier |-> tier, at |-> now, expires |-> now + TTL]
  <2>1. CASE caching
    <3>1. e \in Entry /\ e.q = question /\ e.at = now /\ question \in Question
      BY <1>5 DEF Accepts, CallType, RestType, Entry, Time
    <3>2. cache' = Trimmed(Append(Others(question), e)) /\ now' = now
      BY <1>5, <2>1 DEF Accepts
    <3> HIDE DEF e
    <3>3. Append(Others(question), e) \in Seq(Entry) /\ Known(Append(Others(question), e))
          /\ Len(Append(Others(question), e)) <= MaxEntries + 1
      BY <3>1, AppendKeeps, OthersKeep
    <3>4. Trimmed(Append(Others(question), e)) \in Seq(Entry)
          /\ Len(Trimmed(Append(Others(question), e))) <= MaxEntries
          /\ Known(Trimmed(Append(Others(question), e)))
      BY <3>3, TrimKeeps
    <3> QED
      BY <3>2, <3>4 DEF CacheType, Known
  <2>2. CASE ~caching
    BY <1>5, <2>2 DEF Accepts, CacheType, Known
  <2> QED
    BY <2>1, <2>2
<1>6. CASE Rejects
  BY <1>6 DEF Rejects, CacheType, Known
<1>7. CASE TransportFails
  BY <1>7 DEF TransportFails, CacheType, Known
<1>8. CASE Commits \/ RollsBack \/ UNCHANGED vars
  BY <1>8 DEF Commits, RollsBack, vars, CacheType, Known
<1> QED
  BY <1>1, <1>2, <1>3, <1>4, <1>5, <1>6, <1>7, <1>8 DEF Next

LEMMA EndsTyped == Ends => CallType'
<1> SUFFICES ASSUME Ends
             PROVE  CallType'
  OBVIOUS
<1>1. question' = None /\ caching' = FALSE /\ billing' = FALSE
  BY DEF Ends
<1>2. tier' \in Tier /\ attempt' \in 0..(MaxRetries + 1) /\ since' \in Time
  BY Constants DEF Ends, Tier, Time
<1> QED
  BY <1>1, <1>2 DEF CallType

LEMMA CallStep == TypeOK /\ [Next]_vars => CallType'
<1> SUFFICES ASSUME TypeOK, [Next]_vars
             PROVE  CallType'
  OBVIOUS
<1>0. CallType /\ RestType
  BY TypeParts
<1> USE <1>0, Constants DEF CallType
<1>1. CASE TimePasses
  BY <1>1 DEF TimePasses, call, RestType, Time
<1>2. ASSUME NEW q \in Question, Hit(q)
      PROVE  CallType'
  BY <1>2 DEF Hit, call
<1>3. ASSUME NEW q \in Question, NEW use \in BOOLEAN, Refuses(q, use)
      PROVE  CallType'
  BY <1>3 DEF Refuses, call
<1>4. ASSUME NEW q \in Question, NEW use \in BOOLEAN, NEW bill \in BOOLEAN, Chooses(q, use, bill)
      PROVE  CallType'
  <2>1. tier' \in Tier /\ tier' <= TierOf[q]
    BY <1>4 DEF Chooses, Candidates
  <2> QED
    BY <1>4, <2>1 DEF Chooses, RestType, Time
<1>5. CASE Accepts
  BY <1>5, EndsTyped DEF Accepts
<1>6. CASE Rejects
  <2>1. CASE LastAttempt
    BY <1>6, <2>1, EndsTyped DEF Rejects
  <2>2. CASE ~LastAttempt
    BY <1>6, <2>2 DEF Rejects, LastAttempt
  <2> QED
    BY <2>1, <2>2
<1>7. CASE TransportFails
  BY <1>7, EndsTyped DEF TransportFails
<1>8. CASE Commits \/ RollsBack \/ UNCHANGED vars
  BY <1>8 DEF Commits, RollsBack, vars, call
<1> QED
  BY <1>1, <1>2, <1>3, <1>4, <1>5, <1>6, <1>7, <1>8 DEF Next

LEMMA BreakerStep == TypeOK /\ [Next]_vars => BreakerType'
<1> SUFFICES ASSUME TypeOK, [Next]_vars
             PROVE  BreakerType'
  OBVIOUS
<1>0. CallType /\ RestType /\ BreakerType
  BY TypeParts
<1> USE <1>0, Constants DEF BreakerType
<1>1. CASE TimePasses
  BY <1>1 DEF TimePasses, breakers, RestType, Time
<1>2. ASSUME NEW q \in Question, Hit(q)
      PROVE  BreakerType'
  BY <1>2 DEF Hit, breakers
<1>3. ASSUME NEW q \in Question, NEW use \in BOOLEAN, Refuses(q, use)
      PROVE  BreakerType'
  BY <1>3 DEF Refuses, breakers
<1>4. ASSUME NEW q \in Question, NEW use \in BOOLEAN, NEW bill \in BOOLEAN, Chooses(q, use, bill)
      PROVE  BreakerType'
  BY <1>4 DEF Chooses, Candidates
<1>5. CASE Accepts \/ Rejects
  BY <1>5 DEF Accepts, Rejects, Answered, Called, CallType
<1>7. CASE TransportFails
  BY <1>7 DEF TransportFails, Called, CallType, RestType
<1>8. CASE Commits \/ RollsBack \/ UNCHANGED vars
  BY <1>8 DEF Commits, RollsBack, vars, breakers
<1> QED
  BY <1>1, <1>2, <1>3, <1>4, <1>5, <1>7, <1>8 DEF Next

LEMMA RestStep == TypeOK /\ [Next]_vars => RestType'
<1> SUFFICES ASSUME TypeOK, [Next]_vars
             PROVE  RestType'
  OBVIOUS
<1>0. CacheType /\ CallType /\ RestType
  BY TypeParts
<1> USE <1>0, Constants DEF RestType, money
<1>1. CASE TimePasses
  BY <1>1 DEF TimePasses, Time
<1>2. ASSUME NEW q \in Question, Hit(q)
      PROVE  RestType'
  <2>1. PICK i \in EntryOf(q) : answer' = Returned(q, cache[i])
    BY <1>2 DEF Hit
  <2>2. cache[i] \in Entry /\ cache[i].at <= now
    BY DEF EntryOf, CacheType, Known
  <2> QED
    BY <1>2, <2>1, <2>2 DEF Hit, Returned, Entry, Time
<1>3. ASSUME NEW q \in Question, NEW use \in BOOLEAN, Refuses(q, use)
      PROVE  RestType'
  BY <1>3 DEF Refuses
<1>4. ASSUME NEW q \in Question, NEW use \in BOOLEAN, NEW bill \in BOOLEAN, Chooses(q, use, bill)
      PROVE  RestType'
  BY <1>4 DEF Chooses
<1>5. CASE Accepts
  <2>1. answer' = [q |-> question, tier |-> tier, at |-> now, age |-> now - now]
    BY <1>5 DEF Accepts, Returned
  <2>2. answer' \in [q : Question \cup {None}, tier : Tier, at : Time, age : Nat]
    BY <2>1 DEF CallType, Time
  <2> QED
    BY <1>5, <2>2 DEF Accepts, Answered, Billed, CallType, Time
<1>6. CASE Rejects
  BY <1>6 DEF Rejects, Answered
<1>7. CASE TransportFails
  BY <1>7 DEF TransportFails
<1>8. CASE Commits
  BY <1>8 DEF Commits
<1>9. CASE RollsBack
  BY <1>9 DEF RollsBack
<1>10. CASE UNCHANGED vars
  BY <1>10 DEF vars
<1> QED
  BY <1>1, <1>2, <1>3, <1>4, <1>5, <1>6, <1>7, <1>8, <1>9, <1>10 DEF Next

LEMMA TypeInit == Init => TypeOK
<1> SUFFICES ASSUME Init
             PROVE  TypeOK
  OBVIOUS
<1> USE Constants DEF Init
<1>1. CacheType
  BY DEF CacheType, Known
<1>2. CallType
  <2>1. question = None /\ caching = FALSE /\ billing = FALSE
    OBVIOUS
  <2>2. tier \in Tier /\ attempt \in 0..(MaxRetries + 1) /\ since \in Time
    BY DEF Tier, Time
  <2> QED
    BY <2>1, <2>2 DEF CallType
<1>3. BreakerType
  BY DEF BreakerType
<1>4. RestType
  <2>1. answer \in [q : Question \cup {None}, tier : Tier, at : Time, age : Nat]
    BY DEF NoAnswer, Time, Tier
  <2>2. lost \in BOOLEAN
    OBVIOUS
  <2>3. now \in Time /\ pending \in Nat /\ usage \in Nat /\ spent \in Nat /\ calls \in 0..MaxCalls
    BY DEF Time
  <2> QED
    BY <2>1, <2>2, <2>3 DEF RestType
<1> QED
  BY <1>1, <1>2, <1>3, <1>4, TypeParts

(* Every variable keeps its type; the cache stays within its limit and     *)
(* holds every question once.                                              *)
THEOREM GatewayTyped == Spec => []TypeOK
<1>1. TypeOK /\ [Next]_vars => TypeOK'
  <2> SUFFICES ASSUME TypeOK, [Next]_vars
               PROVE  TypeOK'
    OBVIOUS
  <2>1. CacheType' /\ CallType' /\ BreakerType' /\ RestType'
    BY CacheStep, CallStep, BreakerStep, RestStep
  <2> QED
    BY <2>1 DEF TypeOK, CacheType, Known, CallType, BreakerType, RestType
<1> QED
  BY TypeInit, <1>1, PTL DEF Spec

-----------------------------------------------------------------------------
(* Usage, the cache and the caller's transaction: every answer is counted  *)
(* in ai_usage, is going to be, or is known to be lost.                    *)
THEOREM AccountedHolds == Spec => []Accounted
<1>1. Init => Accounted
  BY DEF Init, Accounted
<1>2. TypeOK /\ Accounted /\ [Next]_vars => Accounted'
  <2> SUFFICES ASSUME TypeOK, Accounted, [Next]_vars
               PROVE  Accounted'
    OBVIOUS
  <2>0. pending \in Nat /\ usage \in Nat /\ spent \in Nat /\ lost \in BOOLEAN /\ billing \in BOOLEAN
    BY DEF TypeOK
  <2> USE <2>0 DEF Accounted, money
  <2>1. CASE Accepts
    <3>1. CASE billing
      BY <2>1, <3>1 DEF Accepts, Answered, Billed
    <3>2. CASE ~billing
      <4>1. lost' = TRUE
        BY <2>1, <3>2 DEF Accepts
      <4>2. pending' = pending + 0 /\ usage' = usage /\ spent' = spent + 1
        BY <2>1, <3>2 DEF Accepts, Answered, Billed
      <4> QED
        BY <4>1, <4>2
    <3> QED
      BY <3>1, <3>2
  <2>2. CASE Rejects
    BY <2>2 DEF Rejects, Answered
  <2>3. CASE Commits \/ RollsBack
    BY <2>3 DEF Commits, RollsBack
  <2>4. CASE TimePasses \/ TransportFails \/ UNCHANGED vars
    BY <2>4 DEF TimePasses, TransportFails, vars
  <2>5. ASSUME NEW q \in Question,
               \/ Hit(q)
               \/ \E use \in BOOLEAN : Refuses(q, use) \/ \E bill \in BOOLEAN : Chooses(q, use, bill)
        PROVE  Accounted'
    BY <2>5 DEF Hit, Refuses, Chooses
  <2> QED
    BY <2>1, <2>2, <2>3, <2>4, <2>5 DEF Next
<1> QED
  BY GatewayTyped, <1>1, <1>2, PTL DEF Spec
-----------------------------------------------------------------------------
(* The failures of a model that are less than the reset time ago.          *)
Recent(m) == {f \in streak[m] : now - f[1] < Reset}

(* A breaker that is closed has counted the recent failures and is below   *)
(* the threshold; one that is open has seen no failure since it opened,    *)
(* and is not called.                                                      *)
BreakerOK(m) ==
  /\ IsFiniteSet(streak[m]) /\ \A f \in streak[m] : f[1] <= now
  /\ openedAt[m] = None => failures[m] < Threshold /\ Cardinality(Recent(m)) <= failures[m]
  /\ openedAt[m] # None => /\ openedAt[m] <= now
                           /\ Cardinality(Recent(m)) <= Threshold
                           /\ \A f \in streak[m] : f[1] <= openedAt[m]

BreakersOK ==
  /\ \A m \in Model : BreakerOK(m)
  /\ question # None => openedAt[Called] = None

LEMMA RecentFinite ==
  ASSUME NEW m \in Model, IsFiniteSet(streak[m])
  PROVE  IsFiniteSet(Recent(m)) /\ Cardinality(Recent(m)) \in Nat
BY FS_Subset, FS_CardinalityType DEF Recent

(* Failures only grow older.                                               *)
LEMMA RecentAges ==
  ASSUME TypeOK, NEW m \in Model, IsFiniteSet(streak[m]), streak'[m] = streak[m],
         now' = now \/ now' = now + 1
  PROVE  Cardinality(Recent(m)') <= Cardinality(Recent(m))
<1>1. Recent(m)' \subseteq Recent(m)
  <2>1. now \in Nat /\ \A f \in streak[m] : f[1] \in Nat
    BY TypeParts DEF BreakerType, RestType, Time
  <2> QED
    BY <2>1, Constants DEF Recent
<1> QED
  BY <1>1, RecentFinite, FS_Subset

LEMMA BreakersStep == TypeOK /\ TypeOK' /\ BreakersOK /\ [Next]_vars => BreakersOK'
<1> SUFFICES ASSUME TypeOK, TypeOK', BreakersOK, [Next]_vars
             PROVE  BreakersOK'
  OBVIOUS
<1>0. /\ now \in Nat /\ failures \in [Model -> Nat] /\ openedAt \in [Model -> Time \cup {None}]
      /\ streak \in [Model -> SUBSET (Time \X Nat)]
      /\ question \in Question \cup {None} /\ tier \in Tier /\ Called \in Model /\ Time \subseteq Nat
      /\ None \notin Time /\ calls \in Nat
      /\ \A m \in Model : BreakerOK(m) /\ Cardinality(Recent(m)) \in Nat
      /\ \A m \in Model : \A f \in streak[m] : f[1] \in Nat
  <2>1. /\ now \in Nat /\ failures \in [Model -> Nat] /\ openedAt \in [Model -> Time \cup {None}]
        /\ streak \in [Model -> SUBSET (Time \X Nat)]
        /\ question \in Question \cup {None} /\ tier \in Tier /\ Time \subseteq Nat
        /\ calls \in Nat
    <3>1. Time \subseteq Nat /\ 0..MaxCalls \subseteq Nat
      BY Constants DEF Time
    <3>2. now \in Time /\ calls \in 0..MaxCalls
      BY DEF TypeOK
    <3> QED
      BY <3>1, <3>2 DEF TypeOK
  <2>2. None \notin Time /\ Called \in Model
    BY <2>1, Constants DEF Called, Time
  <2>3. \A m \in Model : BreakerOK(m) /\ IsFiniteSet(streak[m])
    BY DEF BreakersOK, BreakerOK
  <2>4. \A m \in Model : Cardinality(Recent(m)) \in Nat
    BY <2>3, RecentFinite
  <2>5. ASSUME NEW m \in Model, NEW f \in streak[m]
        PROVE  f[1] \in Nat
    <3>1. f \in Time \X Nat
      BY <2>1
    <3> QED
      BY <2>1, <3>1
  <2> QED
    BY <2>1, <2>2, <2>3, <2>4, <2>5
<1> USE Constants
<1>1. ASSUME NEW m \in Model, streak'[m] = streak[m], openedAt'[m] = openedAt[m],
             failures'[m] = failures[m], now' = now \/ now' = now + 1
      PROVE  BreakerOK(m)'
  <2>1. Cardinality(Recent(m)') <= Cardinality(Recent(m))
    BY <1>0, <1>1, RecentAges DEF BreakerOK
  <2>2. Cardinality(Recent(m)') \in Nat
    BY <1>0, <1>1, RecentFinite, FS_Subset, FS_CardinalityType DEF BreakerOK, Recent
  <2>3. \A f \in streak[m] : f[1] \in Nat
    BY <1>0
  <2>4. BreakerOK(m) /\ now \in Nat /\ failures[m] \in Nat /\ openedAt[m] \in Nat \cup {None}
        /\ Cardinality(Recent(m)) \in Nat
    BY <1>0
  <2>5. \A f \in streak'[m] : f[1] <= now'
    BY <1>1, <2>3, <2>4 DEF BreakerOK
  <2>6. CASE openedAt[m] = None
    <3>1. failures[m] < Threshold /\ Cardinality(Recent(m)) <= failures[m]
      BY <2>4, <2>6 DEF BreakerOK
    <3>2. Cardinality(Recent(m)') <= failures[m]
      BY <2>1, <2>2, <2>4, <3>1
    <3> QED
      BY <1>1, <2>4, <2>5, <2>6, <3>1, <3>2 DEF BreakerOK
  <2>7. CASE openedAt[m] # None
    <3>1. openedAt[m] <= now /\ Cardinality(Recent(m)) <= Threshold
          /\ \A f \in streak[m] : f[1] <= openedAt[m]
      BY <2>4, <2>7 DEF BreakerOK
    <3>2. Cardinality(Recent(m)') <= Threshold /\ openedAt[m] <= now'
      BY <1>1, <2>1, <2>2, <2>4, <2>7, <3>1
    <3> QED
      BY <1>1, <2>4, <2>5, <2>7, <3>1, <3>2 DEF BreakerOK
  <2> QED
    BY <2>6, <2>7
<1>2. CASE UNCHANGED <<breakers, streak, question, tier>> /\ (now' = now \/ now' = now + 1)
  BY <1>0, <1>1, <1>2 DEF breakers, BreakersOK, Called
<1>3. CASE TimePasses
  BY <1>2, <1>3 DEF TimePasses, call
<1>4. CASE Commits \/ RollsBack \/ UNCHANGED vars
  BY <1>2, <1>4 DEF Commits, RollsBack, vars, call
<1>5. ASSUME NEW q \in Question, NEW use \in BOOLEAN, Hit(q) \/ Refuses(q, use)
      PROVE  BreakersOK'
  BY <1>2, <1>5 DEF Hit, Refuses, call
<1>6. ASSUME NEW q \in Question, NEW use \in BOOLEAN, NEW bill \in BOOLEAN, Chooses(q, use, bill)
      PROVE  BreakersOK'
  <2>1. PICK t \in Candidates(q) :
          /\ tier' = t
          /\ failures' = IF openedAt[ModelOf[t]] = None THEN failures
                         ELSE [failures EXCEPT ![ModelOf[t]] = 0]
          /\ openedAt' = [openedAt EXCEPT ![ModelOf[t]] = None]
    BY <1>6 DEF Chooses
  <2>2. t \in Tier /\ ~IsOpen(ModelOf[t]) /\ ModelOf[t] \in Model
    BY DEF Candidates
  <2>3. streak' = streak /\ now' = now
    BY <1>6 DEF Chooses
  <2>4. ASSUME NEW m \in Model
        PROVE  BreakerOK(m)'
    <3>1. CASE m # ModelOf[t] \/ openedAt[m] = None
      BY <1>0, <1>1, <2>1, <2>2, <2>3, <3>1
    <3>2. CASE m = ModelOf[t] /\ openedAt[m] # None
      <4>1. now - openedAt[m] >= Reset /\ \A f \in streak[m] : f[1] <= openedAt[m] /\ f[1] \in Nat
        <5>1. BreakerOK(m) /\ openedAt[m] \in Nat /\ \A f \in streak[m] : f[1] \in Nat
          BY <1>0, <3>2
        <5> QED
          BY <1>0, <2>2, <3>2, <5>1 DEF IsOpen, BreakerOK
      <4>2. Recent(m) = {}
        <5>1. openedAt[m] \in Nat /\ now \in Nat
          BY <1>0, <3>2
        <5> QED
          BY <4>1, <5>1 DEF Recent
      <4>3. Recent(m)' = {} /\ Cardinality(Recent(m)') = 0
        BY <2>3, <4>2, FS_EmptySet DEF Recent
      <4>4. openedAt'[m] = None /\ failures'[m] = 0
        BY <1>0, <2>1, <2>2, <3>2
      <4> QED
        BY <1>0, <2>3, <4>3, <4>4 DEF BreakerOK
    <3> QED
      BY <3>1, <3>2
  <2>5. openedAt'[ModelOf[tier']] = None
    BY <1>0, <2>1, <2>2
  <2> QED
    BY <2>4, <2>5 DEF BreakersOK, Called
<1>7. CASE Accepts \/ Rejects
  <2>1. /\ streak' = [streak EXCEPT ![Called] = {}] /\ now' = now
        /\ failures' = [failures EXCEPT ![Called] = 0]
        /\ openedAt' = [openedAt EXCEPT ![Called] = None]
    BY <1>7 DEF Accepts, Rejects, Answered
  <2>2. ASSUME NEW m \in Model
        PROVE  BreakerOK(m)'
    <3>1. CASE m # Called
      BY <1>0, <1>1, <2>1, <3>1
    <3>2. CASE m = Called
      <4>1. streak'[m] = {} /\ failures'[m] = 0 /\ openedAt'[m] = None
        BY <1>0, <2>1, <3>2
      <4>2. Recent(m)' = {} /\ IsFiniteSet({}) /\ Cardinality({}) = 0
        BY <4>1, FS_EmptySet DEF Recent
      <4> QED
        BY <4>1, <4>2 DEF BreakerOK
    <3> QED
      BY <3>1, <3>2
  <2>3. question' # None => tier' = tier
    BY <1>7 DEF Accepts, Rejects, Ends
  <2> QED
    BY <1>0, <2>1, <2>2, <2>3 DEF BreakersOK, Called
<1>8. CASE TransportFails
  <2>1. /\ failures' = [failures EXCEPT ![Called] = @ + 1]
        /\ openedAt' = [openedAt EXCEPT ![Called] = IF Trips(failures'[Called]) THEN now ELSE @]
        /\ streak' = [streak EXCEPT ![Called] = @ \cup {<<now, calls>>}]
        /\ question # None /\ question' = None /\ now' = now
    BY <1>8 DEF TransportFails, Ends
  <2>2. ASSUME NEW m \in Model
        PROVE  BreakerOK(m)'
    <3>1. CASE m # Called
      BY <1>0, <1>1, <2>1, <3>1
    <3>2. CASE m = Called
      <4> DEFINE f == <<now, calls>>
      <4>1. openedAt[m] = None /\ failures[m] < Threshold /\ Cardinality(Recent(m)) <= failures[m]
        BY <1>0, <2>1, <3>2 DEF BreakersOK, BreakerOK
      <4>2. streak'[m] = streak[m] \cup {f} /\ failures'[m] = failures[m] + 1
            /\ openedAt'[m] = IF failures[m] + 1 >= Threshold THEN now ELSE None
        BY <1>0, <2>1, <3>2, <4>1 DEF Trips
      <4>3. f[1] = now /\ f \in Time \X Nat
        BY <1>0 DEF TypeOK
      <4>4. Recent(m)' = Recent(m) \cup {f}
        BY <1>0, <2>1, <4>2, <4>3 DEF Recent
      <4>5. /\ IsFiniteSet(streak'[m]) /\ IsFiniteSet(Recent(m)')
            /\ Cardinality(Recent(m)') <= Cardinality(Recent(m)) + 1
            /\ Cardinality(Recent(m)') \in Nat
        <5>1. IsFiniteSet(streak[m]) /\ IsFiniteSet(Recent(m))
          BY <1>0, RecentFinite DEF BreakerOK
        <5>2. IsFiniteSet(streak[m] \cup {f}) /\ IsFiniteSet(Recent(m) \cup {f})
          BY <5>1, FS_AddElement
        <5>3. /\ Cardinality(Recent(m) \cup {f}) \in Nat
              /\ Cardinality(Recent(m) \cup {f}) <= Cardinality(Recent(m)) + 1
          <6>1. Cardinality(Recent(m)) \in Nat
            BY <1>0
          <6>2. Cardinality(Recent(m) \cup {f}) =
                  IF f \in Recent(m) THEN Cardinality(Recent(m)) ELSE Cardinality(Recent(m)) + 1
            BY <5>1, FS_AddElement
          <6> HIDE DEF f
          <6> QED
            BY <6>1, <6>2
        <5> QED
          BY <4>2, <4>4, <5>1, <5>2, <5>3
      <4>6. \A g \in streak'[m] : g[1] <= now
        BY <1>0, <4>2, <4>3 DEF BreakerOK
      <4>7. failures[m] \in Nat
        BY <1>0
      <4> QED
        BY <1>0, <2>1, <4>1, <4>2, <4>5, <4>6, <4>7 DEF BreakerOK
    <3> QED
      BY <3>1, <3>2
  <2> QED
    BY <2>1, <2>2 DEF BreakersOK
<1> QED
  BY <1>3, <1>4, <1>5, <1>6, <1>7, <1>8 DEF Next

LEMMA BreakersInit == Init => BreakersOK
<1> SUFFICES ASSUME Init
             PROVE  BreakersOK
  OBVIOUS
<1>1. ASSUME NEW m \in Model
      PROVE  BreakerOK(m)
  <2>1. streak[m] = {} /\ failures[m] = 0 /\ openedAt[m] = None
    BY DEF Init
  <2>2. Recent(m) = {} /\ IsFiniteSet({}) /\ Cardinality({}) = 0
    BY <2>1, FS_EmptySet DEF Recent
  <2> QED
    BY <2>1, <2>2, Constants DEF BreakerOK
<1> QED
  BY <1>1 DEF BreakersOK, Init

(* For any threshold, reset time and number of tiers that share a model,   *)
(* a model that does not answer is called no more often than the threshold *)
(* within a reset time: resetting the whole count, as is_open does, is     *)
(* safe because the failures it forgets are as old as the opening.         *)
THEOREM BreakerSparesHolds == Spec => []BreakerSpares
<1>2. TypeOK /\ BreakersOK => BreakerSpares
  <2> SUFFICES ASSUME TypeOK, BreakersOK, NEW m \in Model
               PROVE  Cardinality(Recent(m)) <= Threshold
    BY DEF BreakerSpares, Recent
  <2>1. BreakerOK(m) /\ Cardinality(Recent(m)) \in Nat /\ failures[m] \in Nat
    BY RecentFinite DEF BreakersOK, BreakerOK, TypeOK
  <2> QED
    BY <2>1, Constants DEF BreakerOK
<1> QED
  BY GatewayTyped, BreakersInit, BreakersStep, <1>2, PTL DEF Spec
-----------------------------------------------------------------------------
(* A breaker opens at a failure, and while a call runs the breakers that   *)
(* it went past stay as they were.                                         *)
OpenedAtFailure ==
  \A m \in Model : openedAt[m] # None => \E f \in streak[m] : f[1] = openedAt[m]

WentPast ==
  question # None =>
    \A t \in Tier : t > tier /\ t <= TierOf[question] =>
      openedAt[ModelOf[t]] # None /\ since - openedAt[ModelOf[t]] < Reset

Degraded == BreakersOK /\ OpenedAtFailure /\ WentPast

LEMMA DegradedStep == TypeOK /\ TypeOK' /\ Degraded /\ [Next]_vars => Degraded'
<1> SUFFICES ASSUME TypeOK, TypeOK', Degraded, [Next]_vars
             PROVE  OpenedAtFailure' /\ WentPast'
  BY BreakersStep DEF Degraded
<1>0. /\ openedAt \in [Model -> Time \cup {None}] /\ failures \in [Model -> Nat]
      /\ streak \in [Model -> SUBSET (Time \X Nat)]
      /\ question \in Question \cup {None} /\ tier \in Tier /\ Called \in Model
      /\ \A t \in Tier : ModelOf[t] \in Model
      /\ question # None => openedAt[Called] = None
      /\ None \notin Time
  <2>1. None \notin Time
    BY Constants DEF Time
  <2>2. question # None => openedAt[Called] = None
    BY DEF Degraded, BreakersOK
  <2>3. tier \in Tier /\ \A t \in Tier : ModelOf[t] \in Model
    BY Constants DEF TypeOK
  <2> QED
    BY <2>1, <2>2, <2>3 DEF TypeOK, Called
<1> USE DEF Degraded
<1>2. CASE UNCHANGED <<breakers, streak, question, tier, since>>
  BY <1>2 DEF breakers, OpenedAtFailure, WentPast
<1>3. CASE TimePasses \/ Commits \/ RollsBack \/ UNCHANGED vars
  BY <1>2, <1>3 DEF TimePasses, Commits, RollsBack, vars, call
<1>4. ASSUME NEW q \in Question, NEW use \in BOOLEAN, Hit(q) \/ Refuses(q, use)
      PROVE  OpenedAtFailure' /\ WentPast'
  BY <1>2, <1>4 DEF Hit, Refuses, call
<1>5. ASSUME NEW q \in Question, NEW use \in BOOLEAN, NEW bill \in BOOLEAN, Chooses(q, use, bill)
      PROVE  OpenedAtFailure' /\ WentPast'
  <2>1. PICK t \in Candidates(q) :
          /\ \A u \in Candidates(q) : u <= t
          /\ tier' = t
          /\ openedAt' = [openedAt EXCEPT ![ModelOf[t]] = None]
    BY <1>5 DEF Chooses
  <2>2. t \in Tier /\ ModelOf[t] \in Model /\ ~IsOpen(ModelOf[t])
    BY <1>0 DEF Candidates
  <2>3. streak' = streak /\ question' = q /\ since' = now
    BY <1>5 DEF Chooses
  <2>4. OpenedAtFailure'
    BY <1>0, <2>1, <2>2, <2>3 DEF OpenedAtFailure
  <2>5. ASSUME NEW u \in Tier, u > t, u <= TierOf[q]
        PROVE  openedAt'[ModelOf[u]] # None /\ now - openedAt'[ModelOf[u]] < Reset
    <3>1. u \notin Candidates(q)
      BY <2>1, <2>2, <2>5, Constants DEF Tier
    <3>2. IsOpen(ModelOf[u])
      BY <2>5, <3>1 DEF Candidates
    <3>3. ModelOf[u] # ModelOf[t] /\ ModelOf[u] \in Model
      BY <1>0, <2>2, <3>2
    <3> QED
      BY <1>0, <2>1, <2>2, <3>2, <3>3 DEF IsOpen
  <2> QED
    BY <2>1, <2>3, <2>4, <2>5 DEF WentPast
<1>6. CASE Accepts \/ Rejects
  <2>1. /\ streak' = [streak EXCEPT ![Called] = {}]
        /\ openedAt' = [openedAt EXCEPT ![Called] = None]
        /\ question # None
    BY <1>6 DEF Accepts, Rejects, Answered
  <2>2. OpenedAtFailure'
    BY <1>0, <2>1 DEF OpenedAtFailure
  <2>3. question' # None => question' = question /\ tier' = tier /\ since' = since
    BY <1>6 DEF Accepts, Rejects, Ends
  <2>4. openedAt' = openedAt
    BY <1>0, <2>1
  <2> QED
    BY <2>2, <2>3, <2>4 DEF WentPast
<1>7. CASE TransportFails
  <2>1. /\ openedAt' = [openedAt EXCEPT ![Called] = IF Trips(failures'[Called]) THEN now ELSE @]
        /\ streak' = [streak EXCEPT ![Called] = @ \cup {<<now, calls>>}]
        /\ question # None /\ question' = None
    BY <1>7 DEF TransportFails, Ends
  <2>2. ASSUME NEW m \in Model, openedAt'[m] # None
        PROVE  \E f \in streak'[m] : f[1] = openedAt'[m]
    <3>1. CASE m # Called
      BY <1>0, <2>1, <2>2, <3>1 DEF OpenedAtFailure
    <3>2. CASE m = Called
      <4>1. openedAt'[m] = now /\ <<now, calls>> \in streak'[m] /\ <<now, calls>>[1] = now
        BY <1>0, <2>1, <2>2, <3>2
      <4> QED
        BY <4>1
    <3> QED
      BY <3>1, <3>2
  <2> QED
    BY <2>1, <2>2 DEF OpenedAtFailure, WentPast
<1> QED
  BY <1>3, <1>4, <1>5, <1>6, <1>7 DEF Next

(* A call runs on a cheaper model only if each model above it had failed   *)
(* within the reset time before the call chose, for any assignment of      *)
(* models to tiers.                                                        *)
THEOREM DegradesOnlyOnFailureHolds == Spec => []DegradesOnlyOnFailure
<1>1. Init => Degraded
  <2> SUFFICES ASSUME Init
               PROVE  Degraded
    OBVIOUS
  <2>1. BreakersOK
    BY BreakersInit
  <2> QED
    BY <2>1 DEF Init, Degraded, OpenedAtFailure, WentPast
<1>2. TypeOK /\ Degraded => DegradesOnlyOnFailure
  <2> SUFFICES ASSUME TypeOK, Degraded, question # None, NEW t \in Tier, t > tier,
                      t <= TierOf[question]
               PROVE  \E f \in streak[ModelOf[t]] : since - f[1] < Reset
    BY DEF DegradesOnlyOnFailure
  <2>1. ModelOf[t] \in Model /\ openedAt[ModelOf[t]] # None
        /\ since - openedAt[ModelOf[t]] < Reset
    BY Constants DEF Degraded, WentPast
  <2> QED
    BY <2>1 DEF Degraded, OpenedAtFailure
<1> QED
  BY GatewayTyped, DegradedStep, <1>1, <1>2, PTL DEF Spec

-----------------------------------------------------------------------------
(* An entry keeps the time to live it was stored with, and comes from no   *)
(* tier above that of its question.                                        *)
Lasting(e) == e.expires = e.at + TTL /\ e.tier <= TierOf[e.q]

AllLasting(s) == \A i \in DOMAIN s : Lasting(s[i])

CacheLasts == AllLasting(cache)

LEMMA OthersLasting ==
  ASSUME TypeOK, AllLasting(cache), NEW q \in Question
  PROVE  /\ Others(q) \in Seq(Entry) /\ AllLasting(Others(q))
         /\ \A e \in Entry : Lasting(e) => AllLasting(Append(Others(q), e))
                                          /\ AllLasting(Trimmed(Append(Others(q), e)))
<1>1. CacheType /\ now \in Nat
  BY TypeParts DEF RestType, Time
<1>2. Others(q) \in Seq(Entry) /\ AllLasting(Others(q))
  BY <1>1, OthersKeep DEF AllLasting
<1>3. ASSUME NEW e \in Entry, Lasting(e)
      PROVE  AllLasting(Append(Others(q), e)) /\ AllLasting(Trimmed(Append(Others(q), e)))
  <2> DEFINE s == Append(Others(q), e)
  <2>1. s \in Seq(Entry) /\ Len(s) > 0
    BY <1>2
  <2>2. AllLasting(s)
    BY <1>2, <1>3 DEF AllLasting
  <2> HIDE DEF s
  <2>3. /\ Tail(s) \in Seq(Entry) /\ Len(Tail(s)) = Len(s) - 1
        /\ \A k \in 1..Len(Tail(s)) : Tail(s)[k] = s[k + 1]
    BY <2>1
  <2>4. \A k \in DOMAIN Tail(s) : k \in 1..Len(Tail(s)) /\ k + 1 \in DOMAIN s
    BY <2>1, <2>3
  <2>5. AllLasting(Tail(s))
    BY <2>2, <2>3, <2>4 DEF AllLasting
  <2>6. AllLasting(s) /\ AllLasting(Trimmed(s))
    BY <2>2, <2>5 DEF Trimmed
  <2> QED
    BY <2>6 DEF s
<1> QED
  BY <1>2, <1>3

LEMMA LastingStep ==
  TypeOK /\ CacheLasts /\ AnswersInTime /\ [Next]_vars => CacheLasts' /\ AnswersInTime'
<1> SUFFICES ASSUME TypeOK, AllLasting(cache), AnswersInTime, [Next]_vars
             PROVE  AllLasting(cache') /\ AnswersInTime'
  BY DEF CacheLasts
<1> USE Constants
<1>0. CacheType /\ CallType /\ RestType
  BY TypeParts
<1>1. CASE UNCHANGED <<cache, answer>>
  BY <1>1 DEF AnswersInTime
<1>2. ASSUME NEW q \in Question, Hit(q)
      PROVE  AllLasting(cache') /\ AnswersInTime'
  <2>1. PICK i \in EntryOf(q) : cache' = Append(Others(q), cache[i]) /\ answer' = Returned(q, cache[i])
    BY <1>2 DEF Hit
  <2>2. PICK k \in EntryOf(q) : now < cache[k].expires
    BY <1>2 DEF Hit, Cached
  <2>3. i \in DOMAIN cache /\ k = i /\ cache[i].q = q /\ cache[i] \in Entry /\ Lasting(cache[i])
    BY <1>0, <2>1, <2>2 DEF EntryOf, CacheType, Known, AllLasting
  <2>4. AllLasting(cache')
    BY <2>1, <2>3, OthersLasting
  <2>5. now - cache[i].at < TTL
    <3>1. now \in Int /\ cache[i].at \in Int /\ TTL \in Int
      BY <1>0, <2>3 DEF RestType, Entry, Time
    <3>2. now < cache[i].at + TTL
      BY <2>2, <2>3 DEF Lasting
    <3> QED
      BY <3>1, <3>2
  <2>6. AnswersInTime'
    BY <2>1, <2>3, <2>5 DEF AnswersInTime, Returned, Lasting
  <2> QED
    BY <2>4, <2>6
<1>3. CASE Accepts
  <2> DEFINE e == [q |-> question, tier |-> tier, at |-> now, expires |-> now + TTL]
  <2>1. /\ question \in Question /\ tier <= TierOf[question] /\ now \in Time /\ now \in Int
        /\ tier \in Tier /\ now - now = 0
    BY <1>0, <1>3 DEF Accepts, CallType, RestType, Time
  <2>2. e \in Entry /\ Lasting(e)
    BY <2>1 DEF Entry, Lasting, Time
  <2>3. /\ cache' = IF caching THEN Trimmed(Append(Others(question), e)) ELSE cache
        /\ answer' = Returned(question, e)
    BY <1>3 DEF Accepts
  <2>4. AnswersInTime'
    BY <2>1, <2>3 DEF AnswersInTime, Returned
  <2>5. AllLasting(cache')
    <3> HIDE DEF e
    <3> QED
      BY <2>1, <2>2, <2>3, OthersLasting
  <2> QED
    BY <2>4, <2>5
<1>4. ASSUME NEW q \in Question, NEW use \in BOOLEAN,
             Refuses(q, use) \/ \E bill \in BOOLEAN : Chooses(q, use, bill)
      PROVE  AllLasting(cache') /\ AnswersInTime'
  <2>1. cache' \in {Others(q), cache} /\ answer' = answer
    BY <1>4 DEF Refuses, Chooses
  <2> QED
    BY <2>1, OthersLasting DEF AnswersInTime
<1>5. CASE TimePasses \/ Rejects \/ TransportFails \/ Commits \/ RollsBack \/ UNCHANGED vars
  BY <1>1, <1>5 DEF TimePasses, Rejects, TransportFails, Commits, RollsBack, vars
<1> QED
  BY <1>2, <1>3, <1>4, <1>5 DEF Next

(* However often a question is asked, and whichever tier its call came     *)
(* down to, no answer is returned once its time to live is over.           *)
THEOREM AnswersInTimeHolds == Spec => []AnswersInTime
<1>1. Init => CacheLasts /\ AnswersInTime
  BY DEF Init, CacheLasts, AllLasting, AnswersInTime, NoAnswer
<1> QED
  BY GatewayTyped, LastingStep, <1>1, PTL DEF Spec
=============================================================================
