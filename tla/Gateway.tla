------------------------------- MODULE Gateway -------------------------------
(***************************************************************************)
(* The model gateway (ai/gateway.py, ai/cache.py): one process, one call   *)
(* at a time.  A call looks in the cache, picks the model of its tier or,  *)
(* where the breaker of that model is open, of a cheaper one, sends an     *)
(* answer that does not fit the schema back a limited number of times, and *)
(* records its tokens in the transaction of the caller.                    *)
(*                                                                         *)
(* The provider is the environment: it answers, well or not, or fails, at  *)
(* any time.  A question is a prompt with its input, an answer is known by *)
(* the tier that gave it and when; each costs one token.                   *)
(***************************************************************************)
EXTENDS Integers, Sequences, FiniteSets, SequencesExt

CONSTANTS
  Question, Model,
  None,           \* no time, no question
  TierOf,         \* tier of a question's prompt: 1 for S, 2 for M, 3 for L
  ModelOf,        \* the model configured for each tier
  MaxRetries,     \* MAX_SCHEMA_RETRIES
  Threshold,      \* CIRCUIT_FAILURE_THRESHOLD
  Reset,          \* CIRCUIT_RESET_SECONDS
  TTL, MaxEntries, \* of the cache
  MaxTime, MaxCalls \* bounds

Tier == 1..3

ASSUME GatewayAssumption ==
  /\ None \notin Int /\ None \notin Question
  /\ TierOf \in [Question -> Tier] /\ ModelOf \in [Tier -> Model]
  /\ MaxRetries \in Nat /\ Threshold \in Nat \ {0} /\ Reset \in Nat \ {0}
  /\ TTL \in Nat \ {0} /\ MaxEntries \in Nat \ {0}
  /\ MaxTime \in Nat /\ MaxCalls \in Nat

Time == 0..MaxTime
Entry == [q : Question, tier : Tier, at : Time, expires : Nat]

VARIABLES
  now,
  failures, openedAt, \* the breaker of each model
  cache,     \* entries, the least recently used first
  \* the call
  question,  \* None when there is no call
  tier,      \* of the model that it has come down to
  attempt,
  caching, billing, \* allow_cache; org_id and a connection are given
  \* the transaction of the caller
  pending,   \* tokens that it will add to ai_usage
  usage,     \* tokens in ai_usage
  \* history, read by no action
  since,     \* when the call chose its model
  streak,    \* times of the failures of each model since it last answered
  answer,    \* the last one returned: question, tier, when it was given, age on return
  spent,     \* tokens of all answers
  lost,      \* an answer was rejected, not billed, or billed and rolled back
  calls

breakers == <<failures, openedAt>>
call == <<question, tier, attempt, caching, billing, since>>
money == <<pending, usage, spent, lost>>
vars == <<now, breakers, cache, call, money, streak, answer, calls>>

NoAnswer == [q |-> None, tier |-> 1, at |-> 0, age |-> 0]

Init ==
  /\ now = 0
  /\ failures = [m \in Model |-> 0] /\ openedAt = [m \in Model |-> None]
  /\ cache = <<>>
  /\ question = None /\ tier = 1 /\ attempt = 0 /\ caching = FALSE /\ billing = FALSE
  /\ since = 0
  /\ pending = 0 /\ usage = 0 /\ spent = 0 /\ lost = FALSE
  /\ streak = [m \in Model |-> {}]
  /\ answer = NoAnswer
  /\ calls = 0

-----------------------------------------------------------------------------
TimePasses ==
  /\ now < MaxTime
  /\ now' = now + 1
  /\ UNCHANGED <<breakers, cache, call, money, streak, answer, calls>>

EntryOf(q) == {i \in DOMAIN cache : cache[i].q = q}

(* The entries of other questions, in their order.                         *)
Others(q) ==
  IF EntryOf(q) = {} THEN cache ELSE RemoveAt(cache, CHOOSE i \in EntryOf(q) : TRUE)

Cached(q) == \E i \in EntryOf(q) : now < cache[i].expires

Returned(q, e) == [q |-> q, tier |-> e.tier, at |-> e.at, age |-> now - e.at]

(* Variant: an entry that is used lives on.                                *)
HitRenews(q) ==
  /\ question = None /\ calls < MaxCalls
  /\ Cached(q)
  /\ \E i \in EntryOf(q) :
       /\ cache' = Append(Others(q), [cache[i] EXCEPT !.expires = now + TTL])
       /\ answer' = Returned(q, cache[i])
  /\ calls' = calls + 1
  /\ UNCHANGED <<now, breakers, call, money, streak>>

(* A hit moves the entry to the end; nothing is called, nothing is billed. *)
Hit(q) ==
  /\ question = None /\ calls < MaxCalls
  /\ Cached(q)
  /\ \E i \in EntryOf(q) :
       /\ cache' = Append(Others(q), cache[i])
       /\ answer' = Returned(q, cache[i])
  /\ calls' = calls + 1
  /\ UNCHANGED <<now, breakers, call, money, streak>>

(* Variant: a breaker that is open stays open.                             *)
IsOpenForever(m) == openedAt[m] # None

IsOpen(m) == openedAt[m] # None /\ now - openedAt[m] < Reset

(* FALLBACK_TIER: down, never up.                                          *)
Candidates(q) == {t \in Tier : t <= TierOf[q] /\ ~IsOpen(ModelOf[t])}

(* A call that finds no answer in the cache chooses its model: the first   *)
(* on the way down whose breaker is not open.  A breaker whose time has    *)
(* passed is as good as new.                                               *)
Chooses(q, use, bill) ==
  /\ question = None /\ calls < MaxCalls
  /\ use => ~Cached(q)
  /\ cache' = IF use THEN Others(q) ELSE cache
  /\ \E t \in Candidates(q) :
       /\ \A u \in Candidates(q) : u <= t
       /\ tier' = t
       /\ failures' = IF openedAt[ModelOf[t]] = None THEN failures
                      ELSE [failures EXCEPT ![ModelOf[t]] = 0]
       /\ openedAt' = [openedAt EXCEPT ![ModelOf[t]] = None]
  /\ question' = q /\ attempt' = 1 /\ caching' = use /\ billing' = bill /\ since' = now
  /\ calls' = calls + 1
  /\ UNCHANGED <<now, money, streak, answer>>

(* CircuitOpenError: every breaker on the way is open.                     *)
Refuses(q, use) ==
  /\ question = None /\ calls < MaxCalls
  /\ use => ~Cached(q)
  /\ Candidates(q) = {}
  /\ cache' = IF use THEN Others(q) ELSE cache
  /\ calls' = calls + 1
  /\ UNCHANGED <<now, breakers, call, money, streak, answer>>

-----------------------------------------------------------------------------
Ends ==
  /\ question' = None /\ tier' = 1 /\ attempt' = 0 /\ caching' = FALSE /\ billing' = FALSE
  /\ since' = 0

Called == ModelOf[tier]

(* record_success                                                          *)
Answered ==
  /\ failures' = [failures EXCEPT ![Called] = 0]
  /\ openedAt' = [openedAt EXCEPT ![Called] = None]
  /\ streak' = [streak EXCEPT ![Called] = {}]
  /\ spent' = spent + 1

(* Variant: the store may be one over its limit.                           *)
TrimmedLate(s) == IF Len(s) > MaxEntries + 1 THEN Tail(s) ELSE s

(* The store drops its oldest entries.                                     *)
Trimmed(s) == IF Len(s) > MaxEntries THEN Tail(s) ELSE s

(* Variant: the tokens of the attempts before are charged once more.       *)
BilledPerAttempt(bill) == IF bill THEN attempt + 1 ELSE 0

Billed(bill) == IF bill THEN 1 ELSE 0

(* An answer that fits is cached as that of the model asked for, and the   *)
(* tokens of this attempt are recorded.                                    *)
Accepts ==
  /\ question # None
  /\ Answered
  /\ LET e == [q |-> question, tier |-> tier, at |-> now, expires |-> now + TTL]
     IN /\ cache' = IF caching THEN Trimmed(Append(Others(question), e)) ELSE cache
        /\ answer' = Returned(question, e)
  /\ pending' = pending + Billed(billing)
  /\ lost' = (lost \/ ~billing)
  /\ Ends
  /\ UNCHANGED <<now, usage, calls>>

LastAttempt == attempt = MaxRetries + 1

(* SchemaViolation: the answer goes back, or SchemaValidationError.        *)
Rejects ==
  /\ question # None
  /\ Answered
  /\ lost' = TRUE
  /\ IF LastAttempt THEN Ends
     ELSE /\ attempt' = attempt + 1
          /\ UNCHANGED <<question, tier, caching, billing, since>>
  /\ UNCHANGED <<now, cache, answer, pending, usage, calls>>

(* Variant: the breaker opens one failure late.                            *)
TripsLate(n) == n > Threshold

Trips(n) == n >= Threshold

(* record_failure, and GatewayError.                                       *)
TransportFails ==
  /\ question # None
  /\ failures' = [failures EXCEPT ![Called] = @ + 1]
  /\ openedAt' = [openedAt EXCEPT ![Called] = IF Trips(failures'[Called]) THEN now ELSE @]
  /\ streak' = [streak EXCEPT ![Called] = @ \cup {<<now, calls>>}]
  /\ Ends
  /\ UNCHANGED <<now, cache, money, answer, calls>>

(* The caller's transaction ends; the cache outlives a rollback.           *)
Commits ==
  /\ question = None /\ pending > 0
  /\ usage' = usage + pending /\ pending' = 0
  /\ UNCHANGED <<now, breakers, cache, call, spent, lost, streak, answer, calls>>

RollsBack ==
  /\ question = None /\ pending > 0
  /\ pending' = 0 /\ lost' = TRUE
  /\ UNCHANGED <<now, breakers, cache, call, usage, spent, streak, answer, calls>>

Next ==
  \/ TimePasses \/ Accepts \/ Rejects \/ TransportFails \/ Commits \/ RollsBack
  \/ \E q \in Question :
       \/ Hit(q)
       \/ \E use \in BOOLEAN : Refuses(q, use) \/ \E bill \in BOOLEAN : Chooses(q, use, bill)

Spec == Init /\ [][Next]_vars

-----------------------------------------------------------------------------
(* The type of every variable; the cache holds a question once, no more    *)
(* entries than it may, and none that was given later than now.            *)
TypeOK ==
  /\ now \in Time
  /\ failures \in [Model -> Nat] /\ openedAt \in [Model -> Time \cup {None}]
  /\ cache \in Seq(Entry) /\ Len(cache) <= MaxEntries
  /\ \A i \in DOMAIN cache : /\ cache[i].at <= now
                             /\ \A j \in DOMAIN cache : cache[i].q = cache[j].q => i = j
  /\ question \in Question \cup {None} /\ tier \in Tier /\ attempt \in 0..(MaxRetries + 1)
  /\ caching \in BOOLEAN /\ billing \in BOOLEAN /\ since \in Time
  /\ pending \in Nat /\ usage \in Nat /\ spent \in Nat /\ lost \in BOOLEAN
  /\ streak \in [Model -> SUBSET (Time \X Nat)]
  /\ answer \in [q : Question \cup {None}, tier : Tier, at : Time, age : Nat]
  /\ calls \in 0..MaxCalls
  /\ question # None => attempt >= 1 /\ tier <= TierOf[question] /\ since <= now

(* "The provider has failed repeatedly and is not being called"            *)
(* (gateway.py): within any CIRCUIT_RESET_SECONDS a model that does not    *)
(* answer is called no more often than the threshold, also by the calls    *)
(* that come down to it, and after the breaker let calls through again.    *)
BreakerSpares ==
  \A m \in Model : Cardinality({f \in streak[m] : now - f[1] < Reset}) <= Threshold

(* "Down, never up", and not without need: a call runs on a cheaper model  *)
(* only if each model above it had failed within the reset time, so that   *)
(* the next call after that time picks up a provider that has recovered.   *)
DegradesOnlyOnFailure ==
  question # None =>
    \A t \in Tier : t > tier /\ t <= TierOf[question] =>
      \E f \in streak[ModelOf[t]] : since - f[1] < Reset

(* No organisation is charged for an answer that the provider did not      *)
(* give: hits are free, and only rejected, unattributed or rolled back     *)
(* answers are missing from ai_usage.                                      *)
Accounted ==
  /\ usage + pending <= spent
  /\ ~lost => usage + pending = spent

(* "Short enough that a corrected prompt is not served from yesterday for  *)
(* a week" (cache.py) bounds the age of what is served - a corrected prompt*)
(* has a key of its own: an answer is returned for less than TTL, however  *)
(* often it is asked for in between, and to a question whose tier is not   *)
(* below the one that gave it.                                             *)
AnswersInTime ==
  answer.q # None => answer.age < TTL /\ answer.tier <= TierOf[answer.q]
=============================================================================
