---------------------------- MODULE Digest_proofs ----------------------------
(***************************************************************************)
(* Proofs about Digest, for any organisations, members, workers, zones,    *)
(* days and bounds.                                                        *)
(***************************************************************************)
EXTENDS Digest, FiniteSetTheorems, TLAPS

LEMMA Constants ==
  /\ Zone \in [Org -> Nat] /\ Expiry \in [Org -> Nat]
  /\ HoursPerDay \in Nat \ {0} /\ SendHour \in Nat /\ AlreadyHours \in 1..HoursPerDay
  /\ FreshEvery \in Nat \ {0} /\ ExpiryWindow \in Nat
  /\ MaxTime \in Nat /\ MaxFailures \in Nat /\ MaxOpen \in 0..(HoursPerDay - 1)
  /\ None \notin Job
BY DigestAssumption, NoneIsNoJob

(* Two numbers with one remainder are the same if their quotients are, or  *)
(* if they are less than the divisor apart.                                *)
LEMMA Division ==
  ASSUME NEW x \in Nat, NEW d \in Nat \ {0}
  PROVE  /\ x = d * (x \div d) + (x % d)
         /\ x \div d \in Int /\ x % d \in Int
<1>1. x = d * (x \div d) + (x % d)
  OBVIOUS
<1>2. x \div d \in Int /\ x % d \in Int
  OBVIOUS
<1> QED
  BY <1>1, <1>2

LEMMA SameMultiple ==
  ASSUME NEW a \in Int, NEW b \in Int, NEW m \in Int, NEW d \in Nat \ {0},
         d * a + m > d * b + m - d, d * a + m < d * b + m + d
  PROVE  a = b
OBVIOUS

LEMMA SameRest ==
  ASSUME NEW x \in Nat, NEW y \in Nat, NEW d \in Nat \ {0}, x % d = y % d,
         x \div d = y \div d \/ (x > y - d /\ x < y + d)
  PROVE  x = y
<1>1. PICK a \in Int, b \in Int, m \in Int :
        /\ a = x \div d /\ b = y \div d /\ m = x % d
        /\ x = d * a + m /\ y = d * b + m
  <2>1. x = d * (x \div d) + (x % d) /\ x \div d \in Int /\ x % d \in Int
    BY Division
  <2>2. y = d * (y \div d) + (y % d) /\ y \div d \in Int
    BY Division
  <2> QED
    BY <2>1, <2>2
<1>2. CASE a = b
  BY <1>1, <1>2
<1>3. CASE a # b
  <2>1. d * a + m > d * b + m - d /\ d * a + m < d * b + m + d
    BY <1>1, <1>3
  <2> QED
    BY <1>3, <2>1, SameMultiple
<1> QED
  BY <1>2, <1>3

(* So the hours of an organisation come round: two in the same place of a  *)
(* day are the same if they are of one day, or less than a day apart.      *)
LEMMA SameHour ==
  ASSUME NEW o \in Org, NEW s \in Nat, NEW t \in Nat, LocalHour(o, s) = LocalHour(o, t),
         LocalDay(o, s) = LocalDay(o, t) \/ (s > t - HoursPerDay /\ s < t + HoursPerDay)
  PROVE  s = t
<1>1. HoursPerDay \in Nat \ {0} /\ Zone[o] \in Nat
  BY Constants
<1>2. PICK x \in Nat, y \in Nat : x = s + Zone[o] /\ y = t + Zone[o]
  BY <1>1
<1>3. x % HoursPerDay = y % HoursPerDay
  BY <1>2 DEF LocalHour
<1>4. CASE LocalDay(o, s) = LocalDay(o, t)
  <2>1. x \div HoursPerDay = y \div HoursPerDay
    BY <1>2, <1>4 DEF LocalDay
  <2> QED
    BY <1>1, <1>2, <1>3, <2>1, SameRest
<1>5. CASE s > t - HoursPerDay /\ s < t + HoursPerDay
  <2>1. x > y - HoursPerDay /\ x < y + HoursPerDay
    BY <1>1, <1>2, <1>5
  <2>2. x = y
    BY <1>1, <1>3, <2>1, SameRest
  <2> QED
    BY <1>1, <1>2, <2>2
<1> QED
  BY <1>4, <1>5

LEMMA DayType ==
  ASSUME NEW o \in Org, NEW t \in Time
  PROVE  t \in Nat /\ LocalDay(o, t) \in Nat
<1>1. t \in Nat /\ Zone[o] \in Nat /\ HoursPerDay \in Nat \ {0}
  BY Constants DEF Time
<1> QED
  BY <1>1 DEF LocalDay

-----------------------------------------------------------------------------
(* The parts of the type: what is committed, the transactions, the mail.   *)
DataType ==
  /\ now \in Time /\ fresh \subseteq Org
  /\ status \in [Org -> {"valid", "expiring", "expired"}]
  /\ phase \in [Job -> {"absent", "pending", "done"}]
  /\ rows \subseteq Row /\ sent \subseteq rows
  /\ failures \in 0..MaxFailures

TxnType ==
  /\ hand \in [Worker -> Job \cup {None}] /\ start \in [Worker -> Time]
  /\ todo \in [Worker -> SUBSET Org] /\ wrote \in [Worker -> SUBSET Row]
  /\ spoke \in [Worker -> SUBSET Org]
  /\ \A w \in Worker : /\ hand[w] = None => wrote[w] = {} /\ spoke[w] = {}
                       /\ \A r \in wrote[w] : r.at = start[w] /\ r.by = hand[w]
                       /\ {r.org : r \in wrote[w]} \cap todo[w] = {}

MailType ==
  /\ digests \subseteq Row \X Member \X (0..MaxFailures) /\ bare \subseteq Row \X Member
  /\ served \subseteq Org \X Nat /\ crowded \subseteq Org \X Nat
  /\ undone \subseteq Org \X Nat

LEMMA TypeParts == TypeOK <=> DataType /\ TxnType /\ MailType
BY DEF TypeOK, DataType, TxnType, MailType

LEMMA AboutType ==
  ASSUME NEW r \in Row
  PROVE  About(r) \in Org \X Nat
BY DayType DEF Row, About

LEMMA EndedType ==
  ASSUME DataType, TxnType, NEW w \in Worker, hand[w] # None,
         NEW p \in {"pending", "done"}, Ended(w, p)
  PROVE  TxnType' /\ phase' \in [Job -> {"absent", "pending", "done"}]
<1>1. /\ hand' \in [Worker -> Job \cup {None}] /\ todo' \in [Worker -> SUBSET Org]
      /\ wrote' \in [Worker -> SUBSET Row] /\ spoke' \in [Worker -> SUBSET Org]
  BY DEF TxnType, Ended
<1>2. start' \in [Worker -> Time]
  BY Constants DEF TxnType, Ended, Time
<1>3. /\ hand'[w] = None /\ wrote'[w] = {} /\ spoke'[w] = {} /\ todo'[w] = {}
      /\ \A v \in Worker : v # w => /\ hand'[v] = hand[v] /\ wrote'[v] = wrote[v] /\ spoke'[v] = spoke[v]
                                   /\ todo'[v] = todo[v] /\ start'[v] = start[v]
  BY DEF TxnType, Ended
<1>4. TxnType'
  BY <1>1, <1>2, <1>3 DEF TxnType
<1>5. phase' \in [Job -> {"absent", "pending", "done"}]
  BY DEF DataType, Ended
<1> QED
  BY <1>4, <1>5

LEMMA TypeStep ==
  ASSUME TypeOK, [Next]_vars
  PROVE  TypeOK'
<1>c. DataType /\ TxnType /\ MailType
  BY TypeParts
<1> SUFFICES DataType' /\ TxnType' /\ MailType'
  BY DEF TypeOK, DataType, TxnType, MailType
<1>1. CASE UNCHANGED vars
  BY <1>1, <1>c DEF vars, txn, mail, past, DataType, TxnType, MailType
<1>2. CASE HourPasses
  <2>1. now' \in Time
    BY <1>2, <1>c, Constants DEF HourPasses, DataType, Time
  <2> QED
    BY <1>2, <1>c, <2>1 DEF HourPasses, txn, mail, past, DataType, TxnType, MailType
<1>3. ASSUME NEW o \in Org, NewsChanges(o)
      PROVE  DataType' /\ TxnType' /\ MailType'
  BY <1>3, <1>c DEF NewsChanges, txn, mail, past, DataType, TxnType, MailType
<1>4. CASE Tick
  BY <1>4, <1>c DEF Tick, txn, mail, past, DataType, TxnType, MailType
<1>5. ASSUME NEW w \in Worker, NEW j \in Job, Begins(w, j)
      PROVE  DataType' /\ TxnType' /\ MailType'
  <2>1. /\ hand[w] = None /\ hand'[w] = j /\ start' \in [Worker -> Time]
        /\ hand' \in [Worker -> Job \cup {None}] /\ todo' \in [Worker -> SUBSET Org]
        /\ \A v \in Worker : v # w => hand'[v] = hand[v] /\ start'[v] = start[v] /\ todo'[v] = todo[v]
        /\ UNCHANGED <<wrote, spoke>>
    BY <1>5, <1>c DEF Begins, DataType, TxnType
  <2>2. wrote[w] = {}
    BY <1>c, <2>1 DEF TxnType
  <2>3. TxnType'
    BY <1>c, <2>1, <2>2, Constants DEF TxnType
  <2> QED
    BY <1>5, <1>c, <2>3 DEF Begins, mail, past, DataType, MailType
<1>6. ASSUME NEW w \in Worker, NEW o \in Org, DigestSkips(w, o)
      PROVE  DataType' /\ TxnType' /\ MailType'
  <2>1. /\ hand[w] # None /\ UNCHANGED <<hand, start, wrote>>
        /\ todo' \in [Worker -> SUBSET Org] /\ spoke' \in [Worker -> SUBSET Org]
        /\ \A v \in Worker : todo'[v] \subseteq todo[v] /\ (v # w => spoke'[v] = spoke[v])
    BY <1>6, <1>c DEF DigestSkips, Digesting, TxnType
  <2>2. TxnType'
    BY <1>c, <2>1 DEF TxnType
  <2> QED
    BY <1>6, <1>c, <2>2 DEF DigestSkips, mail, past, DataType, MailType
<1>7. ASSUME NEW w \in Worker, NEW o \in Org, DigestSends(w, o)
      PROVE  DataType' /\ TxnType' /\ MailType'
  <2> DEFINE r == [org |-> o, at |-> start[w], by |-> hand[w]]
  <2>1. /\ hand[w] # None /\ hand[w] \in Job /\ start[w] \in Time /\ UNCHANGED <<hand, start>>
        /\ todo' = [todo EXCEPT ![w] = @ \ {o}]
        /\ wrote' = [wrote EXCEPT ![w] = @ \cup {r}]
        /\ spoke' = [spoke EXCEPT ![w] = @ \cup {o}]
    BY <1>7, <1>c, Constants DEF DigestSends, Digesting, TxnType
  <2>2. r \in Row /\ r.org = o /\ r.at = start[w] /\ r.by = hand[w]
    BY <2>1 DEF Row
  <2>3. TxnType'
    <3> HIDE DEF r
    <3>1. /\ todo' \in [Worker -> SUBSET Org] /\ spoke' \in [Worker -> SUBSET Org]
          /\ wrote' \in [Worker -> SUBSET Row]
      BY <1>c, <2>1, <2>2 DEF TxnType
    <3>2. \A v \in Worker : v # w => todo'[v] = todo[v] /\ wrote'[v] = wrote[v] /\ spoke'[v] = spoke[v]
      BY <1>c, <2>1 DEF TxnType
    <3>3. todo'[w] = todo[w] \ {o} /\ wrote'[w] = wrote[w] \cup {r}
      BY <1>c, <2>1 DEF TxnType
    <3>4. {q.org : q \in wrote'[w]} \cap todo'[w] = {}
      BY <1>c, <2>2, <3>3 DEF TxnType
    <3> QED
      BY <1>c, <2>1, <2>2, <3>1, <3>2, <3>3, <3>4 DEF TxnType
  <2>4. failures' \in 0..MaxFailures /\ failures \in 0..MaxFailures
    BY <1>7, <1>c, Constants DEF DigestSends, DataType
  <2>5. digests' \subseteq Row \X Member \X (0..MaxFailures)
    <3> HIDE DEF r
    <3>1. PICK M \in SUBSET Member : digests' = digests \cup {<<r, m, failures>> : m \in M}
      BY <1>7 DEF DigestSends, r
    <3> QED
      BY <1>c, <2>2, <2>4, <3>1 DEF MailType
  <2>6. crowded' \subseteq Org \X Nat
    <3>1. UNION {wrote[v] : v \in Worker \ {w}} \subseteq Row
      BY <1>c DEF TxnType
    <3>2. crowded' \subseteq crowded \cup {About(q) : q \in UNION {wrote[v] : v \in Worker \ {w}}}
      BY <1>7 DEF DigestSends
    <3> QED
      BY <1>c, <3>1, <3>2, AboutType DEF MailType
  <2> QED
    BY <1>7, <1>c, <2>3, <2>4, <2>5, <2>6 DEF DigestSends, DataType, MailType
<1>8. ASSUME NEW w \in Worker, DigestCommits(w)
      PROVE  DataType' /\ TxnType' /\ MailType'
  <2>1. TxnType' /\ phase' \in [Job -> {"absent", "pending", "done"}]
    BY <1>8, <1>c, EndedType DEF DigestCommits, Digesting
  <2>2. failures' \in 0..MaxFailures
    BY <1>8, <1>c, Constants DEF DigestCommits, DataType
  <2>3. rows' \subseteq Row /\ rows \subseteq rows'
    BY <1>8, <1>c DEF DigestCommits, DataType, TxnType
  <2>4. served' \subseteq Org \X Nat
    <3>1. \A o \in spoke[w] : LocalDay(o, start[w]) \in Nat /\ o \in Org
      BY <1>c, DayType DEF TxnType
    <3> QED
      BY <1>8, <1>c, <3>1 DEF DigestCommits, MailType
  <2> QED
    BY <1>8, <1>c, <2>1, <2>2, <2>3, <2>4 DEF DigestCommits, mail, DataType, MailType
<1>9. ASSUME NEW w \in Worker, Fails(w)
      PROVE  DataType' /\ TxnType' /\ MailType'
  <2>1. TxnType' /\ phase' \in [Job -> {"absent", "pending", "done"}]
    BY <1>9, <1>c, EndedType DEF Fails
  <2>2. failures' \in 0..MaxFailures
    BY <1>9, <1>c, Constants DEF Fails, DataType
  <2>3. undone' \subseteq Org \X Nat
    BY <1>9, <1>c, AboutType DEF Fails, TxnType, MailType
  <2> QED
    BY <1>9, <1>c, <2>1, <2>2, <2>3 DEF Fails, mail, DataType, MailType
<1>10. CASE NotifySends
  BY <1>10, <1>c DEF NotifySends, txn, past, DataType, TxnType, MailType
<1>11. ASSUME NEW w \in Worker, FreshnessCommits(w)
       PROVE  DataType' /\ TxnType' /\ MailType'
  <2>1. TxnType' /\ phase' \in [Job -> {"absent", "pending", "done"}]
    BY <1>11, <1>c, EndedType DEF FreshnessCommits
  <2>2. failures' \in 0..MaxFailures
    BY <1>11, <1>c, Constants DEF FreshnessCommits, DataType
  <2>3. status' \in [Org -> {"valid", "expiring", "expired"}]
    BY <1>11 DEF FreshnessCommits, Class
  <2> QED
    BY <1>11, <1>c, <2>1, <2>2, <2>3 DEF FreshnessCommits, mail, past, DataType, MailType
<1> QED
  BY <1>1, <1>2, <1>3, <1>4, <1>5, <1>6, <1>7, <1>8, <1>9, <1>10, <1>11 DEF Next

(* Every variable keeps its type, and what an open transaction wrote dates *)
(* from its start and is its job's.                                        *)
THEOREM DigestTyped == Spec => []TypeOK
<1>1. Init => TypeOK
  <2> SUFFICES ASSUME Init PROVE DataType /\ TxnType /\ MailType
    BY TypeParts
  <2>1. DataType /\ TxnType
    BY Constants DEF Init, DataType, TxnType, Time
  <2>2. MailType
    BY DEF Init, MailType
  <2> QED
    BY <2>1, <2>2
<1>2. TypeOK /\ [Next]_vars => TypeOK'
  BY TypeStep
<1> QED
  BY <1>1, <1>2, PTL DEF Spec

-----------------------------------------------------------------------------
(* What the properties rest on: rows are of their organisation's hour, and *)
(* of the past; a transaction is not open for a day; two rows of a local   *)
(* day were written side by side; who a job has spoken for has a row; a    *)
(* mail belongs to a row that is there, or was rolled back.                *)
Written == rows \cup UNION {wrote[w] : w \in Worker}

Hours ==
  /\ \A r \in Written : LocalHour(r.org, r.at) = SendHour /\ r.at <= now
  /\ \A w \in Worker : start[w] <= now /\ (hand[w] # None => now - start[w] <= MaxOpen)

Kinds == \A w \in Worker : wrote[w] # {} => Digesting(w)

Single ==
  \A q, r \in Written : q # r /\ About(q) = About(r) => About(r) \in crowded

Spoken ==
  \A w \in Worker : \A o \in spoke[w] :
    \E r \in rows \cup wrote[w] : About(r) = <<o, LocalDay(o, start[w])>>

Mailed ==
  /\ \A x \in digests : x[1] \in Written \/ About(x[1]) \in undone
  /\ \A x, y \in digests :
       x[2] = y[2] /\ About(x[1]) = About(y[1]) =>
         x = y \/ About(x[1]) \in crowded \cup undone
  /\ \A x \in bare : x[1] \in sent

DigestInv == Hours /\ Kinds /\ Single /\ Spoken /\ NobodyForgotten /\ Mailed

(* The row of a digest shares its local day only with rows of transactions *)
(* that are open, and is then marked.                                      *)
LEMMA SendsAlone ==
  ASSUME TypeOK, DigestInv, NEW w \in Worker, NEW o \in Org, DigestSends(w, o),
         NEW q \in Written, About(q) = <<o, LocalDay(o, start[w])>>
  PROVE  About(q) \in crowded'
<1>1. q \in Row /\ start[w] \in Time /\ start[w] \in Nat /\ q.at \in Nat
  BY Constants DEF TypeOK, Written, Row, Time
<1>2. q.org = o /\ LocalDay(o, q.at) = LocalDay(o, start[w])
  BY DEF About
<1>3. LocalHour(o, q.at) = SendHour /\ LocalHour(o, start[w]) = SendHour
  BY <1>2 DEF DigestInv, Hours, DigestSends, InSendHour
<1>4. q.at = start[w]
  BY <1>1, <1>2, <1>3, SameHour
<1>5. q \notin rows \cup wrote[w]
  <2>1. q.at > start[w] - AlreadyHours
    BY <1>1, <1>4, Constants
  <2> QED
    BY <1>2, <2>1 DEF DigestSends, Already
<1>6. q \in UNION {wrote[v] : v \in Worker \ {w}}
  BY <1>5 DEF Written
<1> QED
  BY <1>6 DEF DigestSends, About

(* What counts as sent is the digest of the day.                           *)
LEMMA AlreadyToday ==
  ASSUME TypeOK, DigestInv, NEW w \in Worker, hand[w] # None, NEW o \in Org,
         LocalHour(o, start[w]) = SendHour, Already(w, o)
  PROVE  \E r \in rows \cup wrote[w] : About(r) = <<o, LocalDay(o, start[w])>>
<1>1. PICK r \in rows \cup wrote[w] : r.org = o /\ r.at > start[w] - AlreadyHours
  BY DEF Already
<1>2. r \in Written /\ r \in Row
  BY DEF Written, TypeOK
<1>3. r.at \in Nat /\ start[w] \in Nat /\ now \in Nat
  BY <1>2, Constants DEF TypeOK, Row, Time
<1>4. LocalHour(o, r.at) = LocalHour(o, start[w]) /\ r.at <= now /\ now - start[w] <= MaxOpen
  BY <1>1, <1>2 DEF DigestInv, Hours
<1>5. r.at > start[w] - HoursPerDay /\ r.at < start[w] + HoursPerDay
  BY <1>1, <1>3, <1>4, Constants
<1>6. r.at = start[w]
  BY <1>3, <1>4, <1>5, SameHour
<1> QED
  BY <1>1, <1>6 DEF About

(* An action that writes nothing in a transaction and passes no time.      *)
LEMMA Quiet ==
  ASSUME DigestInv, UNCHANGED <<rows, wrote, now, start, hand, spoke, sent, mail, past>>
  PROVE  DigestInv'
BY DEF DigestInv, Written, Hours, Kinds, Digesting, Single, Spoken, NobodyForgotten, Mailed, mail, past

(* The transaction of w ends, and what it wrote is committed or undone.    *)
LEMMA EndedInv ==
  ASSUME TypeOK, DigestInv, NEW w \in Worker, NEW p, Ended(w, p),
         UNCHANGED <<now, sent, mail, crowded>>, rows \subseteq rows',
         rows' \subseteq rows \cup wrote[w], undone \subseteq undone',
         \A r \in wrote[w] : r \in rows' \/ About(r) \in undone'
  PROVE  Hours' /\ Kinds' /\ Single' /\ Spoken' /\ Mailed'
<1>1. /\ hand'[w] = None /\ wrote'[w] = {} /\ spoke'[w] = {} /\ start'[w] = 0
      /\ \A v \in Worker : v # w => /\ hand'[v] = hand[v] /\ wrote'[v] = wrote[v] /\ spoke'[v] = spoke[v]
                                   /\ start'[v] = start[v]
  BY DEF TypeOK, Ended
<1>2. Written' \subseteq Written
  BY <1>1 DEF Written
<1>3. \A r \in Written : r \in Written' \/ About(r) \in undone'
  BY <1>1 DEF Written
<1>4. Hours'
  <2>1. now \in Nat
    BY Constants DEF TypeOK, Time
  <2>2. \A r \in Written' : LocalHour(r.org, r.at) = SendHour /\ r.at <= now
    BY <1>2 DEF DigestInv, Hours
  <2> QED
    BY <1>1, <2>1, <2>2 DEF DigestInv, Hours, LocalHour
<1>5. Single'
  BY <1>2 DEF DigestInv, Single, About, LocalDay
<1>6. Spoken'
  <2> SUFFICES ASSUME NEW v \in Worker, NEW o \in spoke'[v]
               PROVE  \E r \in rows' \cup wrote'[v] : About(r) = <<o, LocalDay(o, start'[v])>>
    BY DEF Spoken, About, LocalDay
  <2>1. v # w /\ o \in spoke[v]
    BY <1>1
  <2> QED
    BY <1>1, <2>1 DEF DigestInv, Spoken
<1>7. Mailed'
  BY <1>3 DEF DigestInv, Mailed, About, LocalDay, mail
<1>8. Kinds'
  BY <1>1 DEF DigestInv, Kinds, Digesting
<1> QED
  BY <1>4, <1>5, <1>6, <1>7, <1>8

LEMMA DigestStep ==
  ASSUME TypeOK, DigestInv, [Next]_vars
  PROVE  DigestInv'
<1>1. CASE UNCHANGED vars \/ Tick \/ \E o \in Org : NewsChanges(o)
  BY <1>1, Quiet DEF vars, txn, Tick, NewsChanges
<1>2. CASE HourPasses
  <2>1. /\ now' = now + 1 /\ UNCHANGED <<rows, wrote, start, hand, spoke, sent, mail, past>>
        /\ \A w \in Worker : hand[w] # None => now - start[w] < MaxOpen
    BY <1>2 DEF HourPasses, txn
  <2>2. now \in Nat /\ (\A w \in Worker : start[w] \in Nat) /\ \A r \in Written : r.at \in Nat
    BY Constants DEF TypeOK, Time, Written, Row
  <2>3. Written' = Written
    BY <2>1 DEF Written
  <2>4. Hours' /\ Kinds'
    <3>1. Hours'
      BY <2>1, <2>2, <2>3, Constants DEF DigestInv, Hours, LocalHour
    <3>2. Kinds'
      BY <2>1 DEF DigestInv, Kinds, Digesting
    <3> QED
      BY <3>1, <3>2
  <2>5. Single' /\ Mailed'
    BY <2>1, <2>3 DEF DigestInv, Single, Mailed, About, LocalDay, mail, past
  <2>6. Spoken' /\ NobodyForgotten'
    BY <2>1 DEF DigestInv, Spoken, NobodyForgotten, About, LocalDay, past
  <2> QED
    BY <2>4, <2>5, <2>6 DEF DigestInv
<1>3. ASSUME NEW w \in Worker, NEW j \in Job, Begins(w, j)
      PROVE  DigestInv'
  <2>1. /\ hand[w] = None /\ start'[w] = now /\ now' = now
        /\ \A v \in Worker : v # w => hand'[v] = hand[v] /\ start'[v] = start[v]
        /\ UNCHANGED <<rows, wrote, spoke, sent, mail, past>>
    BY <1>3 DEF Begins, TypeOK
  <2>2. spoke[w] = {} /\ now \in Nat /\ now - now <= MaxOpen
    BY <2>1, Constants DEF TypeOK, Time
  <2>3. Written' = Written
    BY <2>1 DEF Written
  <2>k. wrote[w] = {}
    BY <2>1 DEF TypeOK
  <2>4. Hours' /\ Kinds'
    BY <2>1, <2>2, <2>3, <2>k DEF DigestInv, Hours, Kinds, Digesting, LocalHour
  <2>5. Single' /\ Mailed' /\ NobodyForgotten'
    BY <2>1, <2>3 DEF DigestInv, Single, Mailed, NobodyForgotten, About, LocalDay, mail, past
  <2>6. Spoken'
    BY <2>1, <2>2 DEF DigestInv, Spoken, About, LocalDay
  <2> QED
    BY <2>4, <2>5, <2>6 DEF DigestInv
<1>4. ASSUME NEW w \in Worker, NEW o \in Org, DigestSkips(w, o)
      PROVE  DigestInv'
  <2>1. /\ hand[w] # None /\ UNCHANGED <<rows, wrote, now, start, hand, sent, mail, past>>
        /\ \A v \in Worker : v # w => spoke'[v] = spoke[v]
        /\ spoke'[w] = IF LocalHour(o, start[w]) = SendHour /\ HasNews(o) THEN spoke[w] \cup {o}
                       ELSE spoke[w]
    BY <1>4 DEF DigestSkips, Digesting, TypeOK
  <2>2. Written' = Written
    BY <2>1 DEF Written
  <2>3. Hours' /\ Kinds' /\ Single' /\ Mailed' /\ NobodyForgotten'
    BY <2>1, <2>2 DEF DigestInv, Hours, Kinds, Digesting, Single, Mailed, NobodyForgotten, About, LocalDay, LocalHour,
       mail, past
  <2>4. LocalHour(o, start[w]) = SendHour /\ HasNews(o) =>
          \E r \in rows \cup wrote[w] : About(r) = <<o, LocalDay(o, start[w])>>
    BY <1>4, <2>1, AlreadyToday DEF DigestSkips, InSendHour
  <2>5. Spoken'
    BY <2>1, <2>4 DEF DigestInv, Spoken, About, LocalDay
  <2> QED
    BY <2>3, <2>5 DEF DigestInv
<1>5. ASSUME NEW w \in Worker, NEW o \in Org, DigestSends(w, o)
      PROVE  DigestInv'
  <2> DEFINE r == [org |-> o, at |-> start[w], by |-> hand[w]]
             day == <<o, LocalDay(o, start[w])>>
  <2>1. /\ hand[w] # None /\ hand[w] \in Job /\ LocalHour(o, start[w]) = SendHour
        /\ UNCHANGED <<rows, now, start, hand, sent, bare, served, undone>>
        /\ \A v \in Worker : v # w => spoke'[v] = spoke[v] /\ wrote'[v] = wrote[v]
        /\ spoke'[w] = spoke[w] \cup {o} /\ wrote'[w] = wrote[w] \cup {r}
        /\ crowded \subseteq crowded'
    BY <1>5, Constants DEF DigestSends, Digesting, InSendHour, TypeOK
  <2>2. Written' = Written \cup {r}
    BY <2>1 DEF Written
  <2>3. About(r) = day /\ r.org = o /\ r.at = start[w]
    BY DEF About
  <2>4. \A q \in Written : About(q) = day => About(q) \in crowded'
    BY <1>5, SendsAlone
  <2>5. PICK M \in SUBSET Member : digests' = digests \cup {<<r, m, failures>> : m \in M}
    BY <1>5 DEF DigestSends
  <2> HIDE DEF r
  <2>k. Kinds'
    <3>1. Digesting(w)
      BY <1>5 DEF DigestSends
    <3> QED
      BY <2>1, <3>1 DEF DigestInv, Kinds, Digesting
  <2>6. Hours'
    BY <2>1, <2>2, <2>3 DEF DigestInv, Hours, LocalHour
  <2>7. Single'
    BY <2>1, <2>2, <2>3, <2>4 DEF DigestInv, Single, About, LocalDay
  <2>8. Spoken'
    <3>1. \A q : About(q)' = About(q)
      BY DEF About, LocalDay
    <3>2. \A v \in Worker : \A i \in spoke[v] :
            \E q \in rows' \cup wrote'[v] : About(q) = <<i, LocalDay(i, start[v])>>
      BY <2>1 DEF DigestInv, Spoken
    <3>3. \E q \in rows' \cup wrote'[w] : About(q) = day
      BY <2>1, <2>3
    <3> QED
      BY <2>1, <3>2, <3>3 DEF Spoken, About, LocalDay
  <2>9. NobodyForgotten'
    BY <2>1 DEF DigestInv, NobodyForgotten, About, LocalDay
  <2>10. Mailed'
    <3>1. \A x \in digests' : x \in digests \/ x[1] = r
      BY <2>5
    <3>2. \A x \in digests' : x[1] \in Written' \/ About(x[1]) \in undone'
      BY <2>1, <2>2, <3>1 DEF DigestInv, Mailed
    <3>3. ASSUME NEW x \in digests, About(x[1]) = day
          PROVE  About(x[1]) \in crowded' \cup undone'
      BY <2>1, <2>4, <3>3 DEF DigestInv, Mailed
    <3>4. \A x, y \in {<<r, m, failures>> : m \in M} : x[1] = r /\ (x[2] = y[2] => x = y)
      OBVIOUS
    <3>5. \A x, y \in digests' :
            x[2] = y[2] /\ About(x[1]) = About(y[1]) =>
              x = y \/ About(x[1]) \in crowded' \cup undone'
      <4> SUFFICES ASSUME NEW x \in digests', NEW y \in digests', x[2] = y[2],
                          About(x[1]) = About(y[1]), x # y
                   PROVE  About(x[1]) \in crowded' \cup undone'
        OBVIOUS
      <4>1. CASE x \in digests /\ y \in digests
        BY <2>1, <4>1 DEF DigestInv, Mailed
      <4>2. CASE x \notin digests \/ y \notin digests
        <5>1. About(x[1]) = day /\ (x \in digests \/ y \in digests)
          BY <2>3, <2>5, <3>4, <4>2
        <5> QED
          BY <5>1, <3>3
      <4> QED
        BY <4>1, <4>2
    <3> QED
      BY <2>1, <3>2, <3>5 DEF DigestInv, Mailed, About, LocalDay
  <2> QED
    BY <2>k, <2>6, <2>7, <2>8, <2>9, <2>10 DEF DigestInv
<1>6. ASSUME NEW w \in Worker, DigestCommits(w)
      PROVE  DigestInv'
  <2>1. PICK p \in {"done", "pending"} : Ended(w, p)
    BY <1>6 DEF DigestCommits
  <2>2. /\ UNCHANGED <<now, sent, mail, crowded, undone>> /\ rows' = rows \cup wrote[w]
        /\ served' = served \cup {<<o, LocalDay(o, start[w])>> : o \in spoke[w]}
    BY <1>6 DEF DigestCommits
  <2>3. Hours' /\ Kinds' /\ Single' /\ Spoken' /\ Mailed'
    BY <2>1, <2>2, EndedInv
  <2>4. NobodyForgotten'
    BY <2>2 DEF DigestInv, NobodyForgotten, Spoken, About, LocalDay
  <2> QED
    BY <2>3, <2>4 DEF DigestInv
<1>7. ASSUME NEW w \in Worker, Fails(w)
      PROVE  DigestInv'
  <2>1. Ended(w, "pending") /\ UNCHANGED <<rows, now, sent, mail, served, crowded>>
        /\ undone' = undone \cup {About(r) : r \in wrote[w]}
    BY <1>7 DEF Fails
  <2>2. Hours' /\ Kinds' /\ Single' /\ Spoken' /\ Mailed'
    BY <2>1, EndedInv
  <2> QED
    BY <2>1, <2>2 DEF DigestInv, NobodyForgotten, About, LocalDay
<1>8. CASE NotifySends
  <2>1. /\ UNCHANGED <<rows, wrote, now, start, hand, spoke, digests, past>>
        /\ sent \subseteq sent' /\ sent' = rows
        /\ bare' = bare \cup ((rows \ sent) \X Member)
    BY <1>8 DEF NotifySends, txn, TypeOK
  <2>2. Hours' /\ Kinds' /\ Single' /\ Spoken' /\ NobodyForgotten'
    BY <2>1 DEF DigestInv, Written, Hours, Kinds, Digesting, Single, Spoken, NobodyForgotten, About, LocalDay, LocalHour,
       past
  <2>3. \A x \in bare' : x[1] \in sent'
    BY <2>1 DEF DigestInv, Mailed
  <2>4. Mailed'
    BY <2>1, <2>3 DEF DigestInv, Mailed, Written, About, LocalDay, past
  <2> QED
    BY <2>2, <2>4 DEF DigestInv
<1>9. ASSUME NEW w \in Worker, FreshnessCommits(w)
      PROVE  DigestInv'
  <2>1. PICK p \in {"done", "pending"} : Ended(w, p)
    BY <1>9 DEF FreshnessCommits
  <2>2. UNCHANGED <<rows, now, sent, mail, served, crowded, undone>>
    BY <1>9 DEF FreshnessCommits, past
  <2>3. wrote[w] = {}
    BY <1>9 DEF FreshnessCommits, DigestInv, Kinds, Digesting
  <2>4. Hours' /\ Kinds' /\ Single' /\ Spoken' /\ Mailed'
    BY <2>1, <2>2, <2>3, EndedInv
  <2> QED
    BY <2>2, <2>4 DEF DigestInv, NobodyForgotten, About, LocalDay
<1> QED
  BY <1>1, <1>2, <1>3, <1>4, <1>5, <1>6, <1>7, <1>8, <1>9 DEF Next

LEMMA DigestInvariant == Spec => []DigestInv
<1>1. Init => DigestInv
  BY Constants DEF Init, DigestInv, Written, Hours, Kinds, Single, Spoken, NobodyForgotten, Mailed
<1>2. TypeOK /\ DigestInv /\ [Next]_vars => DigestInv'
  BY DigestStep
<1> QED
  BY <1>1, <1>2, DigestTyped, PTL DEF Spec

(* Two rows of one local day were written by transactions open at once,    *)
(* for any zones, any send hour and any job that lags or runs again.       *)
THEOREM OneDigestHolds == Spec => []OneDigest
<1>1. DigestInv => OneDigest
  BY DEF DigestInv, Single, OneDigest, Written
<1> QED
  BY <1>1, DigestInvariant, PTL

(* An organisation in whose hour a job ran to its end with news has its    *)
(* digest for that local day, however long the interval called today is,   *)
(* up to a whole day.                                                      *)
THEOREM NobodyForgottenHolds == Spec => []NobodyForgotten
<1>1. DigestInv => NobodyForgotten
  BY DEF DigestInv
<1> QED
  BY <1>1, DigestInvariant, PTL

LEMMA AtMostOne ==
  ASSUME NEW S, \A x, y \in S : x = y
  PROVE  Cardinality(S) \in 0..1
<1>1. CASE S = {}
  BY <1>1, FS_EmptySet
<1>2. CASE S # {}
  <2>1. PICK x : S = {x}
    BY <1>2
  <2> QED
    BY <2>1, FS_Singleton
<1> QED
  BY <1>1, <1>2

(* A member is mailed at most twice about a local day, unless its digest   *)
(* was rolled back after the mail or written by two transactions at once.  *)
THEOREM TwoMailsAtMostHolds == Spec => []TwoMailsAtMost
<1>1. TypeOK /\ DigestInv => TwoMailsAtMost
  <2> SUFFICES ASSUME TypeOK, DigestInv, NEW o \in Org, NEW m \in Member, NEW d,
                      <<o, d>> \notin crowded \cup undone
               PROVE  Cardinality({x \in digests : x[2] = m /\ About(x[1]) = <<o, d>>})
                        + Cardinality({x \in bare : x[2] = m /\ About(x[1]) = <<o, d>>}) <= 2
    BY DEF TwoMailsAtMost
  <2> DEFINE D == {x \in digests : x[2] = m /\ About(x[1]) = <<o, d>>}
             B == {x \in bare : x[2] = m /\ About(x[1]) = <<o, d>>}
  <2>1. \A x, y \in D : x = y
    BY DEF DigestInv, Mailed
  <2>2. \A x, y \in B : x = y
    <3> SUFFICES ASSUME NEW x \in B, NEW y \in B
                 PROVE  x = y
      OBVIOUS
    <3>1. x[1] \in Written /\ y[1] \in Written
      BY DEF DigestInv, Mailed, TypeOK, Written
    <3>2. x[1] = y[1]
      BY <3>1 DEF DigestInv, Single
    <3> QED
      BY <3>2 DEF TypeOK
  <2>3. Cardinality(D) \in 0..1 /\ Cardinality(B) \in 0..1
    BY <2>1, <2>2, AtMostOne
  <2> HIDE DEF D, B
  <2>4. Cardinality(D) + Cardinality(B) <= 2
    BY <2>3
  <2> QED
    BY <2>4 DEF D, B
<1> QED
  BY <1>1, DigestTyped, DigestInvariant, PTL
=============================================================================
