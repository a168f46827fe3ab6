--------------------------- MODULE Workspace_proofs ---------------------------
(***************************************************************************)
(* Proofs about Workspace, for any notices, messages, links, connections   *)
(* and bounds.                                                             *)
(***************************************************************************)
EXTENDS Workspace, FiniteSetTheorems, FunctionTheorems, WellFoundedInduction, TLAPS

LEMMA Constants ==
  /\ None \notin Notice /\ None \notin Url /\ None \notin Nat
  /\ MaxDeliveries \in Nat /\ MaxFailures \in Nat /\ MaxLinks \in Nat
BY WorkspaceAssumption

-----------------------------------------------------------------------------
(* The links of a message.                                                 *)
LEMMA BodyType ==
  ASSUME NEW m \in Message
  PROVE  /\ Body(m) \in Seq(Url) /\ Len(Body(m)) \in Nat
         /\ DOMAIN Body(m) = 1..Len(Body(m))
         /\ \A i \in DOMAIN Body(m) : Body(m)[i] \in Url
<1>1. Text[m] \in Seq(Url) /\ Html[m] \in Seq(Url)
  BY WorkspaceAssumption
<1>2. Body(m) \in Seq(Url)
  BY <1>1 DEF Body
<1> HIDE DEF Body
<1> QED
  BY <1>2

LEMMA LinksType ==
  ASSUME NEW m \in Message
  PROVE  /\ Links(m) \subseteq Real(m, Found(m)) /\ Real(m, Found(m)) \subseteq Found(m)
         /\ Found(m) \subseteq DOMAIN Body(m) /\ DOMAIN Body(m) \subseteq Nat
         /\ Found(m) \subseteq Nat /\ IsFiniteSet(Found(m)) /\ IsFiniteSet(DOMAIN Body(m))
<1>1. IsFiniteSet(1..Len(Body(m)))
  BY BodyType, FS_Interval
<1>2. Found(m) \in SUBSET (1..Len(Body(m)))
  BY BodyType DEF Found
<1> QED
  BY <1>1, <1>2, BodyType, FS_Subset DEF Links, Real, FirstOf, Found

LEMMA Least ==
  ASSUME NEW S \in SUBSET Nat, S # {}
  PROVE  \E i \in S : \A h \in S : i <= h
<1>1. PICK i \in S : \A h \in S : ~(<<h, i>> \in OpToRel(<, Nat))
  BY NatLessThanWellFounded, WFMin
<1>2. \A h \in S : ~(h < i)
  BY <1>1 DEF OpToRel
<1> QED
  BY <1>2

(* A link that is not furniture appears somewhere first; extract_links     *)
(* keeps it there and nowhere else.                                        *)
LEMMA FirstAppearance ==
  ASSUME NEW m \in Message, NEW u \in ToSet(Body(m))
  PROVE  \E i \in Found(m) : Body(m)[i] = u
<1> DEFINE S == {i \in DOMAIN Body(m) : Body(m)[i] = u}
<1>1. S \in SUBSET Nat /\ S # {}
  BY LinksType DEF ToSet
<1>2. PICK i \in S : \A h \in S : i <= h
  BY <1>1, Least
<1>3. \A h \in 1..(i - 1) : h \in DOMAIN Body(m) /\ h \in Nat /\ ~(i <= h)
  BY BodyType
<1> QED
  BY <1>2, <1>3 DEF Found

LEMMA FoundOnce ==
  ASSUME NEW m \in Message, NEW i \in Found(m), NEW h \in Found(m), Body(m)[i] = Body(m)[h]
  PROVE  i = h
<1>1. i \in Nat /\ h \in Nat /\ 1 <= i /\ 1 <= h
  BY BodyType DEF Found
<1>2. ~(h < i) /\ ~(i < h)
  BY <1>1 DEF Found
<1> QED
  BY <1>1, <1>2

(* The limit drops nothing before it is reached.                           *)
LEMMA LimitReached ==
  ASSUME NEW S \in SUBSET Nat, IsFiniteSet(S), FirstOf(S) # S
  PROVE  Cardinality(FirstOf(S)) >= MaxLinks
<1> DEFINE Upto(i) == {h \in S : h <= i}
           Late == S \ FirstOf(S)
<1>1. PICK k \in Late : \A h \in Late : k <= h
  <2>1. Late \in SUBSET Nat /\ Late # {}
    BY DEF FirstOf
  <2> HIDE DEF Late
  <2> QED
    BY <2>1, Least
<1> DEFINE Before == Upto(k) \ {k}
<1>2. k \in Nat /\ k \in Upto(k) /\ ~(Cardinality(Upto(k)) <= MaxLinks)
  BY <1>1 DEF FirstOf
<1>3. Upto(k) \in SUBSET S
  OBVIOUS
<1>4. IsFiniteSet(Upto(k)) /\ Cardinality(Upto(k)) \in Nat
  BY <1>3, FS_Subset, FS_CardinalityType
<1>5. IsFiniteSet(Before) /\ Cardinality(Before) = Cardinality(Upto(k)) - 1
  <2> HIDE DEF Upto
  <2> QED
    BY <1>2, <1>4, FS_RemoveElement
<1>6. Before \in SUBSET FirstOf(S)
  <2> SUFFICES ASSUME NEW h \in Before
               PROVE  h \in FirstOf(S)
    OBVIOUS
  <2>1. h \in S /\ h \in Nat /\ ~(k <= h)
    BY <1>2
  <2> QED
    BY <1>1, <2>1
<1>7. FirstOf(S) \in SUBSET S
  BY DEF FirstOf
<1>8. IsFiniteSet(FirstOf(S)) /\ Cardinality(FirstOf(S)) \in Nat
  BY <1>7, FS_Subset, FS_CardinalityType
<1>9. Cardinality(Before) <= Cardinality(FirstOf(S))
  <2> HIDE DEF Before
  <2> QED
    BY <1>6, <1>8, FS_Subset
<1> HIDE DEF Upto, Before
<1> QED
  BY <1>2, <1>4, <1>5, <1>8, <1>9, Constants

(* Any tenders that cover the links of a message cover all that are not    *)
(* furniture, or as many as the limit.                                     *)
LEMMA LinksCover ==
  ASSUME NEW m \in Message, NEW T, \A i \in Links(m) : \E t \in T : t.url = Body(m)[i]
  PROVE  LET real == {u \in ToSet(Body(m)) : u \notin Boilerplate}
             open == {u \in real : \E t \in T : t.url = u}
         IN open = real \/ Cardinality(open) >= MaxLinks
<1> DEFINE real == {u \in ToSet(Body(m)) : u \notin Boilerplate}
           open == {u \in real : \E t \in T : t.url = u}
           R == Real(m, Found(m))
           f == [i \in Links(m) |-> Body(m)[i]]
<1>1. R \in SUBSET Nat /\ IsFiniteSet(R) /\ Links(m) = FirstOf(R)
  BY LinksType, FS_Subset DEF Links
<1>2. CASE FirstOf(R) = R
  <2>1. ASSUME NEW u \in real
        PROVE  \E t \in T : t.url = u
    <3>1. PICK i \in Found(m) : Body(m)[i] = u
      BY FirstAppearance
    <3>2. i \in Links(m)
      BY <1>1, <1>2, <3>1 DEF Real
    <3> QED
      BY <3>1, <3>2
  <2> QED
    BY <2>1
<1>3. CASE FirstOf(R) # R
  <2>1. Cardinality(Links(m)) >= MaxLinks
    BY <1>1, <1>3, LimitReached
  <2>2. f \in Injection(Links(m), open)
    <3>1. \A i \in Links(m) : f[i] \in open
      BY LinksType DEF ToSet, Real
    <3>2. \A i, h \in Links(m) : f[i] = f[h] => i = h
      BY LinksType, FoundOnce
    <3> HIDE DEF open
    <3> QED
      BY <3>1, <3>2, Fun_IsInj
  <2>3. IsFiniteSet(open)
    <3> DEFINE D == DOMAIN Body(m)
               V == {Body(m)[i] : i \in D}
               g == [i \in D |-> Body(m)[i]]
    <3>1. g \in Surjection(D, V)
      BY Fun_IsSurj
    <3>2. IsFiniteSet(D)
      BY LinksType
    <3>3. IsFiniteSet(V)
      <4> HIDE DEF D, V, g
      <4> QED
        BY <3>1, <3>2, FS_Surjection
    <3>4. open \in SUBSET V
      BY BodyType DEF ToSet
    <3> HIDE DEF V, open
    <3> QED
      BY <3>3, <3>4, FS_Subset
  <2>4. Cardinality(Links(m)) <= Cardinality(open)
    <3> HIDE DEF f, open
    <3> QED
      BY <2>2, <2>3, FS_Injection
  <2>5. IsFiniteSet(Links(m)) /\ Cardinality(Links(m)) \in Nat
    <3>1. Links(m) \in SUBSET R
      BY LinksType
    <3> QED
      BY <1>1, <3>1, FS_Subset, FS_CardinalityType
  <2>6. Cardinality(open) \in Nat
    <3> HIDE DEF open
    <3> QED
      BY <2>3, FS_CardinalityType
  <2>7. Cardinality(open) >= MaxLinks
    <3> HIDE DEF open
    <3> QED
      BY <2>1, <2>4, <2>5, <2>6, Constants
  <2> QED
    BY <2>7
<1> QED
  BY <1>2, <1>3

-----------------------------------------------------------------------------
(* The shape of tenders and transactions.                                  *)
Opened == [id : Nat, notice : Notice \cup {None}, url : Url, origin : {"email"}]

Pursue == [kind : {"pursue"}, notice : Notice, existing : BOOLEAN, from : Nat]
Save == [kind : {"profile"}, given : BOOLEAN, families : SUBSET Family, count : Nat \cup {None}]
Match == [kind : {"match"}, notice : Notice, fits : BOOLEAN]
Mail == {x \in [kind : {"mail"}, job : MailJob, todo : SUBSET Nat, opened : SUBSET Opened] :
           x.todo \subseteq Links(x.job.message)}

AnyTxn == {Idle} \cup Pursue \cup Save \cup Match \cup Mail

Shape ==
  /\ txn \in [Connection -> AnyTxn]
  /\ tenders \subseteq Tender /\ ids \in Nat
  /\ state \in [Notice -> State] /\ decided \in [Notice -> State]
  /\ reason \in [Notice -> Reason \cup {None}]
  /\ profile \in BOOLEAN /\ families \subseteq Family /\ watches \in Seq(SUBSET Family)
  /\ known \subseteq Notice
  /\ scoring \in [Notice -> {"absent", "pending", "done"}]
  /\ mailing \in [MailJob -> {"absent", "pending", "done"}]
  /\ deliveries \in 0..MaxDeliveries /\ failures \in 0..MaxFailures
  /\ overlapped \subseteq Notice \cup Url

LEMMA Kinds ==
  ASSUME NEW x \in AnyTxn
  PROVE  /\ x.kind = "idle" <=> x = Idle
         /\ x.kind = "pursue" <=> x \in Pursue
         /\ x.kind = "profile" <=> x \in Save
         /\ x.kind = "match" <=> x \in Match
         /\ x.kind = "mail" <=> x \in Mail
BY DEF AnyTxn, Idle, Pursue, Save, Match, Mail

LEMMA ShapeInit == Init => Shape
<1> SUFFICES ASSUME Init
             PROVE  Shape
  OBVIOUS
<1>1. /\ txn \in [Connection -> AnyTxn] /\ tenders \subseteq Tender /\ ids \in Nat
      /\ state \in [Notice -> State] /\ decided \in [Notice -> State]
      /\ reason \in [Notice -> Reason \cup {None}]
  BY DEF Init, AnyTxn, State
<1>2. watches \in Seq(SUBSET Family)
  BY DEF Init
<1>3. /\ profile \in BOOLEAN /\ families \subseteq Family
      /\ known \subseteq Notice /\ scoring \in [Notice -> {"absent", "pending", "done"}]
      /\ overlapped \subseteq Notice \cup Url
  BY DEF Init
<1>4. /\ mailing \in [MailJob -> {"absent", "pending", "done"}]
      /\ deliveries \in 0..MaxDeliveries /\ failures \in 0..MaxFailures
  BY Constants DEF Init
<1> QED
  BY <1>1, <1>2, <1>3, <1>4 DEF Shape

(* Of the steps only these write what transactions are about.              *)
LEMMA MailOpensTo ==
  ASSUME Shape, NEW c \in Connection, MailOpens(c)
  PROVE  \E i \in txn[c].todo, o \in SUBSET Opened :
           LET m == txn[c].job.message
               u == Body(m)[i]
               t == [id |-> i, notice |-> NoticeOf(u), url |-> u, origin |-> "email"]
           IN /\ txn[c] \in Mail /\ i \in Nat /\ i \in Links(m) /\ u \in Url /\ t \in Opened
              /\ o = IF OpenForLink(tenders \cup txn[c].opened, u) THEN txn[c].opened
                     ELSE txn[c].opened \cup {t}
              /\ txn' = [txn EXCEPT ![c] = [kind |-> "mail", job |-> txn[c].job,
                                            todo |-> txn[c].todo \ {i}, opened |-> o]]
              /\ UNCHANGED <<tenders, ids, overlapped, mailing>>
<1> DEFINE x == txn[c]
           m == x.job.message
<1>1. x \in Mail
  BY Kinds DEF Shape, MailOpens
<1>2. m \in Message
  BY <1>1 DEF Mail, MailJob
<1>3. PICK i \in x.todo :
        txn' = [txn EXCEPT ![c].todo = @ \ {i},
                           ![c].opened = IF OpenForLink(tenders \cup @, Body(m)[i]) THEN @
                                     ELSE @ \cup {[id |-> i, notice |-> NoticeOf(Body(m)[i]),
                                                   url |-> Body(m)[i], origin |-> "email"]}]
  BY DEF MailOpens
<1> DEFINE u == Body(m)[i]
           t == [id |-> i, notice |-> NoticeOf(u), url |-> u, origin |-> "email"]
           o == IF OpenForLink(tenders \cup x.opened, u) THEN x.opened ELSE x.opened \cup {t}
<1>4. i \in Nat /\ i \in Links(m) /\ u \in Url
  BY <1>1, <1>2, BodyType, LinksType DEF Mail
<1>5. NoticeOf(u) \in Notice \cup {None}
  BY DEF NoticeOf, Shape
<1>6. t \in Opened
  BY <1>4, <1>5 DEF Opened
<1>7. o \in SUBSET Opened
  BY <1>1, <1>6 DEF Mail
<1>8. txn' = [txn EXCEPT ![c] = [[x EXCEPT !.todo = @ \ {i}] EXCEPT !.opened = o]]
  BY <1>3 DEF Shape
<1>9. [[x EXCEPT !.todo = @ \ {i}] EXCEPT !.opened = o]
        = [kind |-> "mail", job |-> x.job, todo |-> x.todo \ {i}, opened |-> o]
  <2> DEFINE z == [x EXCEPT !.todo = @ \ {i}]
  <2>1. x \in [kind : {"mail"}, job : MailJob, todo : SUBSET Nat, opened : SUBSET Opened]
    BY <1>1 DEF Mail
  <2>2. z = [kind |-> "mail", job |-> x.job, todo |-> x.todo \ {i}, opened |-> x.opened]
    <3> HIDE DEF x, o
    <3> QED
      BY <2>1
  <2>3. [z EXCEPT !.opened = o]
          = [kind |-> "mail", job |-> x.job, todo |-> x.todo \ {i}, opened |-> o]
    <3> HIDE DEF x, o, z
    <3> QED
      BY <2>2
  <2> QED
    BY <2>3
<1>10. UNCHANGED <<tenders, ids, overlapped, mailing>>
  BY DEF MailOpens, mails
<1>11. txn' = [txn EXCEPT ![c] = [kind |-> "mail", job |-> x.job, todo |-> x.todo \ {i},
                                 opened |-> o]]
  BY <1>8, <1>9
<1> HIDE DEF t
<1>12. \E q \in SUBSET Opened :
         /\ q = IF OpenForLink(tenders \cup x.opened, u) THEN x.opened ELSE x.opened \cup {t}
         /\ txn' = [txn EXCEPT ![c] = [kind |-> "mail", job |-> x.job, todo |-> x.todo \ {i},
                                       opened |-> q]]
  BY <1>7, <1>11
<1> QED
  BY <1>1, <1>4, <1>6, <1>10, <1>12 DEF t

LEMMA ShapeOfOpened ==
  ASSUME Shape, NEW c \in Connection, MailOpens(c)
  PROVE  txn' \in [Connection -> AnyTxn]
<1>1. PICK i \in txn[c].todo, o \in SUBSET Opened :
        /\ txn[c] \in Mail
        /\ txn' = [txn EXCEPT ![c] = [kind |-> "mail", job |-> txn[c].job,
                                      todo |-> txn[c].todo \ {i}, opened |-> o]]
  BY MailOpensTo
<1>2. [kind |-> "mail", job |-> txn[c].job, todo |-> txn[c].todo \ {i}, opened |-> o] \in Mail
  BY <1>1 DEF Mail
<1> QED
  BY <1>1, <1>2 DEF Shape, AnyTxn

LEMMA ShapeOfCounted ==
  ASSUME Shape, NEW c \in Connection, SaveCounts(c)
  PROVE  txn' \in [Connection -> AnyTxn]
<1>1. txn[c] \in Save
  BY Kinds DEF Shape, SaveCounts
<1>2. [txn[c] EXCEPT !.count = Len(watches)] \in Save
  BY <1>1 DEF Save, Shape
<1>3. txn' = [txn EXCEPT ![c] = [txn[c] EXCEPT !.count = Len(watches)]]
  BY DEF SaveCounts, Shape
<1> QED
  BY <1>2, <1>3 DEF Shape, AnyTxn

LEMMA ShapeOfCommitted ==
  ASSUME Shape, NEW c \in Connection, MailCommits(c)
  PROVE  /\ tenders' \subseteq Tender /\ overlapped' \subseteq Notice \cup Url
         /\ txn[c] \in Mail /\ ids \in Nat /\ Len(Body(txn[c].job.message)) \in Nat
         /\ ids' \in Nat
<1>1. txn[c] \in Mail
  BY Kinds DEF Shape, MailCommits
<1>2. ASSUME NEW t \in txn[c].opened
      PROVE  [t EXCEPT !.id = @ + ids] \in Tender /\ t.url \in Url
  <2>1. t \in Opened /\ ids \in Nat
    BY <1>1 DEF Mail, Shape
  <2>2. t.id + ids \in Nat
    BY <2>1 DEF Opened
  <2> QED
    BY <2>1, <2>2 DEF Opened, Tender
<1>3. Len(Body(txn[c].job.message)) \in Nat
  BY <1>1, BodyType DEF Mail, MailJob
<1> QED
  <2>1. tenders' \subseteq Tender
    BY <1>2 DEF MailCommits, Shape
  <2>2. overlapped' \subseteq Notice \cup Url
    <3> DEFINE O == {t.url : t \in {s \in txn[c].opened : OpenForLink(tenders, s.url)}}
    <3>1. O \subseteq Url
      BY <1>2
    <3>2. overlapped' = overlapped \cup O
      BY DEF MailCommits
    <3> QED
      BY <3>1, <3>2 DEF Shape
  <2>3. ids' \in Nat
    BY <1>3 DEF MailCommits, Shape
  <2> QED
    BY <1>1, <1>3, <2>1, <2>2, <2>3 DEF Shape

LEMMA ShapeStep == Shape /\ [Next]_vars => Shape'
<1> SUFFICES ASSUME Shape, [Next]_vars
             PROVE  Shape'
  OBVIOUS
<1> USE Constants DEF Shape
<1>1. CASE Bootstrap
  BY <1>1 DEF Bootstrap, matches, mails
<1>2. ASSUME NEW n \in Notice, Ingest(n)
      PROVE  Shape'
  BY <1>2 DEF Ingest, matches, setup, mails
<1>3. ASSUME NEW n \in Notice, Shortlist(n) \/ Dismiss(n)
      PROVE  Shape'
  BY <1>3 DEF Shortlist, Dismiss, Transition, State, setup, mails
<1>4. ASSUME NEW m \in Message, Receive(m)
      PROVE  Shape'
  <2>1. mailing' \in [MailJob -> {"absent", "pending", "done"}]
    BY <1>4 DEF Receive
  <2>2. deliveries' \in 0..MaxDeliveries
    BY <1>4 DEF Receive
  <2> QED
    BY <1>4, <2>1, <2>2 DEF Receive, matches, setup
<1>5. ASSUME NEW c \in Connection, NEW n \in Notice, MatchReads(c, n)
      PROVE  Shape'
  BY <1>5 DEF MatchReads, AnyTxn, Match, matches, setup, mails
<1>6. ASSUME NEW c \in Connection, NEW n \in Notice, PursueReads(c, n)
      PROVE  Shape'
  BY <1>6 DEF PursueReads, AnyTxn, Pursue, matches, setup, mails
<1>7. ASSUME NEW c \in Connection, NEW given \in BOOLEAN, NEW F \in SUBSET Family,
             SaveUpserts(c, given, F)
      PROVE  Shape'
  BY <1>7 DEF SaveUpserts, AnyTxn, Save, matches, setup, mails
<1>8. ASSUME NEW c \in Connection, NEW j \in MailJob, MailBegins(c, j)
      PROVE  Shape'
  <2> DEFINE D == IF Resolves(j.message) THEN Links(j.message) ELSE {}
             y == [kind |-> "mail", job |-> j, opened |-> {}, todo |-> D]
  <2>1. D \in SUBSET Nat /\ D \subseteq Links(j.message)
    BY LinksType DEF MailJob
  <2>2. y \in Mail
    <3> HIDE DEF D
    <3> QED
      BY <2>1 DEF Mail
  <2>3. txn' = [txn EXCEPT ![c] = y]
    BY <1>8 DEF MailBegins
  <2> HIDE DEF y
  <2>4. txn' \in [Connection -> AnyTxn]
    BY <2>2, <2>3 DEF AnyTxn
  <2> QED
    BY <1>8, <2>4 DEF MailBegins, matches, setup, mails
<1>9. ASSUME NEW c \in Connection, MatchWrites(c)
      PROVE  Shape'
  <2>1. txn[c] \in Match
    BY <1>9, Kinds DEF MatchWrites
  <2> QED
    BY <1>9, <2>1 DEF MatchWrites, Settled, Rescored, Match, AnyTxn, State, setup, mails
<1>10. ASSUME NEW c \in Connection, PursueWrites(c)
       PROVE  Shape'
  <2>1. txn[c] \in Pursue
    BY <1>10, Kinds DEF PursueWrites
  <2>2. /\ tenders' \subseteq Tender /\ ids' \in Nat /\ overlapped' \subseteq Notice \cup Url
    BY <1>10, <2>1 DEF PursueWrites, Pursue, Tender
  <2> QED
    BY <1>10, <2>1, <2>2 DEF PursueWrites, Pursue, AnyTxn, State, setup, mails
<1>11. ASSUME NEW c \in Connection, SaveCounts(c)
       PROVE  Shape'
  BY <1>11, ShapeOfCounted DEF SaveCounts, matches, setup, mails
<1>12. ASSUME NEW c \in Connection, SaveCommits(c)
       PROVE  Shape'
  <2>1. txn[c] \in Save
    BY <1>12, Kinds DEF SaveCommits
  <2> QED
    BY <1>12, <2>1 DEF SaveCommits, Save, AnyTxn, matches, mails
<1>13. ASSUME NEW c \in Connection, MailOpens(c)
       PROVE  Shape'
  BY <1>13, ShapeOfOpened DEF MailOpens, matches, setup, mails
<1>14. ASSUME NEW c \in Connection, MailCommits(c)
       PROVE  Shape'
  <2>1. PICK p \in {"done", "pending"} :
          Settled(p) /\ mailing' = [mailing EXCEPT ![txn[c].job] = p]
    BY <1>14 DEF MailCommits
  <2>2. mailing' \in [MailJob -> {"absent", "pending", "done"}]
    BY <2>1
  <2>3. failures' \in 0..MaxFailures
    BY <2>1 DEF Settled
  <2> QED
    BY <1>14, <2>2, <2>3, ShapeOfCommitted DEF MailCommits, AnyTxn, matches, setup
<1>15. ASSUME NEW c \in Connection, RollsBack(c)
       PROVE  Shape'
  BY <1>15 DEF RollsBack, AnyTxn, matches, setup, mails
<1>16. CASE UNCHANGED vars
  BY <1>16 DEF vars, matches, setup, mails
<1> HIDE DEF Shape
<1> QED
  BY <1>1, <1>2, <1>3, <1>4, <1>5, <1>6, <1>7, <1>8, <1>9, <1>10, <1>11, <1>12, <1>13,
     <1>14, <1>15, <1>16 DEF Next

(* The tables, the transactions in hand and the mails keep the shape that   *)
(* the statements of every handler rely on.                                *)
THEOREM ShapeHolds == Spec => []Shape
<1>1. Shape /\ [Next]_vars => Shape'
  BY ShapeStep
<1> QED
  BY ShapeInit, <1>1, PTL DEF Spec

-----------------------------------------------------------------------------
(* A match that has not been made has no decision and no reason.           *)
Undecided == \A n \in Notice : state[n] = "none" => decided[n] = "new" /\ reason[n] = None

(* The team's decision outlives every rescoring, in whatever order jobs    *)
(* and requests interleave or roll back.                                   *)
THEOREM TeamDecidesHolds == Spec => []TeamDecides
<1> DEFINE I == Undecided /\ TeamDecides
<1>1. Init => I
  BY DEF Init, Undecided, TeamDecides
<1>2. Shape /\ I /\ [Next]_vars => I'
  <2> SUFFICES ASSUME Shape, I, [Next]_vars
               PROVE  I'
    OBVIOUS
  <2>0. /\ state \in [Notice -> State] /\ decided \in [Notice -> State]
        /\ reason \in [Notice -> Reason \cup {None}]
    BY DEF Shape
  <2> USE <2>0 DEF Undecided, TeamDecides
  <2>1. CASE UNCHANGED <<matches, decided>>
    BY <2>1 DEF matches
  <2>2. ASSUME NEW n \in Notice, NEW s \in {"shortlisted", "dismissed"}, NEW r \in Reason \cup {None},
               Transition(n, s, r), s = "shortlisted" => r = None
        PROVE  I'
    BY <2>2 DEF Transition
  <2>3. ASSUME NEW n \in Notice, Shortlist(n) \/ Dismiss(n)
        PROVE  I'
    BY <2>2, <2>3 DEF Shortlist, Dismiss
  <2>4. ASSUME NEW c \in Connection, MatchWrites(c)
        PROVE  I'
    <3>1. state' = Rescored(txn[c].notice, txn[c].fits) /\ reason' = reason /\ decided' = decided
      BY <2>4 DEF MatchWrites
    <3> QED
      BY <3>1 DEF Rescored
  <2>5. ASSUME NEW c \in Connection, PursueWrites(c)
        PROVE  I'
    <3>1. /\ state' = [state EXCEPT ![txn[c].notice] = "pursued"]
          /\ decided' = [decided EXCEPT ![txn[c].notice] = "pursued"] /\ reason' = reason
      BY <2>5 DEF PursueWrites
    <3> QED
      BY <3>1
  <2>6. CASE Bootstrap \/ UNCHANGED vars
    BY <2>1, <2>6 DEF Bootstrap, vars
  <2>8. ASSUME NEW c \in Connection,
               \/ \E n \in Notice : MatchReads(c, n) \/ PursueReads(c, n)
               \/ \E given \in BOOLEAN, F \in SUBSET Family : SaveUpserts(c, given, F)
               \/ \E j \in MailJob : MailBegins(c, j)
        PROVE  I'
    BY <2>1, <2>8 DEF MatchReads, PursueReads, SaveUpserts, MailBegins
  <2>9. ASSUME NEW c \in Connection,
               SaveCounts(c) \/ SaveCommits(c) \/ MailOpens(c) \/ MailCommits(c) \/ RollsBack(c)
        PROVE  I'
    BY <2>1, <2>9 DEF SaveCounts, SaveCommits, MailOpens, MailCommits, RollsBack
  <2>10. CASE \E n \in Notice : Ingest(n)
    BY <2>1, <2>10 DEF Ingest
  <2>11. CASE \E m \in Message : Receive(m)
    BY <2>1, <2>11 DEF Receive
  <2> QED
    BY <2>3, <2>4, <2>5, <2>6, <2>8, <2>9, <2>10, <2>11 DEF Next
<1>3. I => TeamDecides
  OBVIOUS
<1> QED
  BY ShapeHolds, <1>1, <1>2, <1>3, PTL DEF Spec

-----------------------------------------------------------------------------
(* One save at a time is past its upsert, and what it counted still holds. *)
Saving(c) == txn[c].kind = "profile"

SavesApart ==
  /\ \A c, d \in Connection : Saving(c) /\ Saving(d) => c = d
  /\ \A c \in Connection : Saving(c) =>
       /\ txn[c].given \/ txn[c].families = {}
       /\ txn[c].count # None => txn[c].count = Len(watches)

WatchInv == SavesApart /\ OneWatch

LEMMA WatchStep == Shape /\ WatchInv /\ [Next]_vars => WatchInv'
<1> SUFFICES ASSUME Shape, WatchInv, [Next]_vars
             PROVE  WatchInv'
  OBVIOUS
<1>0. txn \in [Connection -> AnyTxn] /\ watches \in Seq(SUBSET Family)
  BY DEF Shape
<1> USE <1>0, Constants
<1>1. ASSUME UNCHANGED <<watches, families>>,
             \A c \in Connection : txn'[c] = txn[c] \/ ~Saving(c)'
      PROVE  WatchInv'
  BY <1>1 DEF WatchInv, SavesApart, Saving, OneWatch
<1>2. CASE UNCHANGED <<watches, families, txn>>
  BY <1>1, <1>2
<1>3. ASSUME NEW c \in Connection, NEW x \in AnyTxn, x.kind # "profile",
             txn' = [txn EXCEPT ![c] = x], UNCHANGED <<watches, families>>
      PROVE  WatchInv'
  BY <1>1, <1>3 DEF Saving
<1>4. CASE Bootstrap \/ UNCHANGED vars
  BY <1>2, <1>4 DEF Bootstrap, vars, setup
<1>5. ASSUME NEW n \in Notice, Ingest(n) \/ Shortlist(n) \/ Dismiss(n)
      PROVE  WatchInv'
  BY <1>2, <1>5 DEF Ingest, Shortlist, Dismiss, Transition, setup
<1>6. ASSUME NEW m \in Message, Receive(m)
      PROVE  WatchInv'
  BY <1>2, <1>6 DEF Receive, setup
<1>7. ASSUME NEW c \in Connection, MatchWrites(c) \/ PursueWrites(c) \/ RollsBack(c) \/ MailCommits(c)
      PROVE  WatchInv'
  <2>1. txn' = [txn EXCEPT ![c] = Idle] /\ UNCHANGED <<watches, families>>
    BY <1>7 DEF MatchWrites, PursueWrites, RollsBack, MailCommits, setup
  <2>2. Idle \in AnyTxn /\ Idle.kind # "profile"
    BY DEF AnyTxn, Idle
  <2> QED
    BY <1>3, <2>1, <2>2
<1>8. ASSUME NEW c \in Connection, NEW n \in Notice, MatchReads(c, n) \/ PursueReads(c, n)
      PROVE  WatchInv'
  BY <1>1, <1>8 DEF MatchReads, PursueReads, Saving, setup
<1>9. ASSUME NEW c \in Connection, NEW j \in MailJob, MailBegins(c, j)
      PROVE  WatchInv'
  BY <1>1, <1>9 DEF MailBegins, Saving, setup
<1>10. ASSUME NEW c \in Connection, MailOpens(c)
       PROVE  WatchInv'
  <2>1. txn'[c].kind = "mail"
    <3>1. PICK i \in txn[c].todo, o \in SUBSET Opened :
            txn' = [txn EXCEPT ![c] = [kind |-> "mail", job |-> txn[c].job,
                                       todo |-> txn[c].todo \ {i}, opened |-> o]]
      BY <1>10, MailOpensTo
    <3> QED
      BY <3>1
  <2>2. \A d \in Connection : d # c => txn'[d] = txn[d]
    BY <1>10 DEF MailOpens
  <2> QED
    BY <1>1, <1>10, <2>1, <2>2 DEF MailOpens, Saving, setup
<1>11. ASSUME NEW c \in Connection, NEW given \in BOOLEAN, NEW F \in SUBSET Family,
              SaveUpserts(c, given, F)
       PROVE  WatchInv'
  <2>1. /\ txn' = [txn EXCEPT ![c] = [kind |-> "profile", given |-> given, families |-> F,
                                      count |-> None]]
        /\ UNCHANGED <<watches, families>> /\ (given \/ F = {})
        /\ \A d \in Connection : ~Saving(d)
    BY <1>11 DEF SaveUpserts, RowFree, Saving, setup
  <2> QED
    BY <2>1 DEF WatchInv, SavesApart, Saving, OneWatch
<1>12. ASSUME NEW c \in Connection, SaveCounts(c)
       PROVE  WatchInv'
  <2>1. txn[c] \in Save /\ Saving(c) /\ UNCHANGED <<watches, families>>
    BY <1>12, Kinds DEF SaveCounts, Saving, setup
  <2>2. txn'[c] = [txn[c] EXCEPT !.count = Len(watches)]
        /\ \A d \in Connection : d # c => txn'[d] = txn[d]
    BY <1>12 DEF SaveCounts
  <2>3. /\ txn'[c].kind = "profile" /\ txn'[c].given = txn[c].given
        /\ txn'[c].families = txn[c].families /\ txn'[c].count = Len(watches)
    BY <2>1, <2>2 DEF Save
  <2>4. OneWatch'
    BY <2>1 DEF WatchInv, OneWatch
  <2>5. \A d \in Connection : Saving(d) => d = c
    BY <2>1 DEF WatchInv, SavesApart
  <2>6. \A d \in Connection : Saving(d)' <=> Saving(d)
    BY <2>1, <2>2, <2>3 DEF Saving
  <2>7. (txn[c].given \/ txn[c].families = {}) /\ UNCHANGED watches
    BY <2>1 DEF WatchInv, SavesApart
  <2> QED
    BY <2>3, <2>4, <2>5, <2>6, <2>7 DEF WatchInv, SavesApart
<1>13. ASSUME NEW c \in Connection, SaveCommits(c)
       PROVE  WatchInv'
  <2>1. txn[c] \in Save /\ Saving(c) /\ txn[c].count # None
    BY <1>13, Kinds DEF SaveCommits, Saving
  <2>2. /\ txn'[c] = Idle /\ \A d \in Connection : d # c => txn'[d] = txn[d]
        /\ watches' = IF txn[c].count = 0 /\ txn[c].families # {}
                      THEN Append(watches, txn[c].families) ELSE watches
        /\ families' = IF txn[c].given THEN txn[c].families ELSE families
    BY <1>13 DEF SaveCommits
  <2>3. txn[c].count = Len(watches) /\ (txn[c].given \/ txn[c].families = {})
        /\ txn[c].families \in SUBSET Family
    BY <2>1 DEF WatchInv, SavesApart, Save
  <2>4. SavesApart'
    BY <2>1, <2>2 DEF WatchInv, SavesApart, Saving, Idle
  <2>5. CASE Len(watches) = 0 /\ txn[c].families # {}
    <3>1. watches' = Append(watches, txn[c].families)
      BY <2>2, <2>3, <2>5
    <3>2. Len(watches') = 1
      BY <2>3, <2>5, <3>1
    <3> QED
      BY <2>4, <3>2 DEF WatchInv, OneWatch
  <2>6. CASE ~(Len(watches) = 0 /\ txn[c].families # {})
    <3>1. watches' = watches
      BY <2>2, <2>3, <2>6
    <3>2. Len(watches) \in Nat /\ Len(watches) <= 1 /\ (families # {} => Len(watches) = 1)
      BY DEF WatchInv, OneWatch
    <3>3. CASE txn[c].given /\ txn[c].families # {}
      <4>1. Len(watches) = 1
        <5>1. Len(watches) # 0
          BY <2>6, <3>3
        <5> QED
          BY ONLY <3>2, <5>1
      <4> QED
        BY <2>4, <3>1, <4>1 DEF WatchInv, OneWatch
    <3>4. CASE ~txn[c].given
      BY <2>2, <2>4, <3>1, <3>2, <3>4 DEF WatchInv, OneWatch
    <3>5. CASE txn[c].given /\ txn[c].families = {}
      BY <2>2, <2>4, <3>1, <3>2, <3>5 DEF WatchInv, OneWatch
    <3> QED
      BY <3>3, <3>4, <3>5
  <2> QED
    BY <2>5, <2>6
<1> QED
  BY <1>4, <1>5, <1>6, <1>7, <1>8, <1>9, <1>10, <1>11, <1>12, <1>13 DEF Next

LEMMA WatchInit == Init => WatchInv
BY DEF Init, WatchInv, SavesApart, Saving, Idle, OneWatch

(* The lock on the profile's row keeps simultaneous saves from making two  *)
(* watch profiles, and no order of them leaves families without one.       *)
THEOREM OneWatchHolds == Spec => []OneWatch
<1>1. WatchInv => OneWatch
  BY DEF WatchInv
<1> QED
  BY ShapeHolds, WatchInit, WatchStep, <1>1, PTL DEF Spec

-----------------------------------------------------------------------------
(* Tenders are numbered in the order of their commits.                     *)
Numbered ==
  /\ \A t \in tenders : t.id < ids
  /\ \A t, u \in tenders : t.id = u.id => t = u

(* What a pursuit that found nothing has looked at is still all there was. *)
LookedAt ==
  \A c \in Connection :
    txn[c].kind = "pursue" =>
      /\ txn[c].from <= ids
      /\ ~txn[c].existing => \A t \in tenders : t.notice = txn[c].notice => t.id >= txn[c].from

PursuitInv == LookedAt /\ PursuitReuses

(* A message opens one tender for a link, each with the number of its link.*)
OpenedOnce ==
  \A c \in Connection :
    txn[c].kind = "mail" =>
      \A t \in txn[c].opened : /\ t.id \notin txn[c].todo /\ t.origin = "email"
                               /\ t.id <= Len(Body(txn[c].job.message))
                               /\ \A u \in txn[c].opened : t.url = u.url \/ t.id = u.id => t = u

LinkInv == OpenedOnce /\ OneTenderPerLink

(* A step that leaves the tenders alone and starts no pursuit and no mail. *)
LEMMA TendersStay ==
  ASSUME Numbered, PursuitInv, LinkInv, UNCHANGED <<tenders, ids, overlapped>>,
         \A c \in Connection : txn'[c] = txn[c] \/ txn'[c].kind \notin {"pursue", "mail"}
  PROVE  Numbered' /\ PursuitInv' /\ LinkInv'
<1>1. Numbered' /\ PursuitReuses' /\ OneTenderPerLink'
  BY DEF Numbered, PursuitInv, LinkInv, PursuitReuses, OneTenderPerLink
<1>2. LookedAt'
  BY DEF PursuitInv, LookedAt
<1>3. OpenedOnce'
  BY DEF LinkInv, OpenedOnce
<1> QED
  BY <1>1, <1>2, <1>3 DEF PursuitInv, LinkInv

LEMMA TendersByPursuit ==
  ASSUME Shape, Numbered, PursuitInv, LinkInv, NEW c \in Connection, PursueWrites(c)
  PROVE  Numbered' /\ PursuitInv' /\ LinkInv'
<1>1. /\ txn[c] \in Pursue /\ txn[c].kind = "pursue"
      /\ txn'[c] = Idle /\ \A d \in Connection : d # c => txn'[d] = txn[d]
  BY Kinds DEF PursueWrites, Shape
<1>2. \A d \in Connection : txn'[d] = txn[d] \/ txn'[d].kind \notin {"pursue", "mail"}
  BY <1>1 DEF Idle
<1>3. CASE txn[c].existing
  BY <1>2, <1>3, TendersStay DEF PursueWrites
<1>4. CASE ~txn[c].existing
  <2> DEFINE n == txn[c].notice
             new == [id |-> ids, notice |-> n, url |-> None, origin |-> "match"]
  <2>1. /\ tenders' = tenders \cup {new} /\ ids' = ids + 1
        /\ overlapped' = overlapped \cup
             {t.notice : t \in {s \in tenders : s.notice = n /\ s.id >= txn[c].from}}
    BY <1>4 DEF PursueWrites
  <2>2. /\ new.id = ids /\ new.notice = n /\ new.url = None /\ new.origin = "match" /\ n \in Notice
        /\ txn[c].from \in Nat /\ ids \in Nat /\ None \notin Notice
        /\ \A t \in tenders : t.id \in Nat /\ t.id < ids
    BY <1>1, Constants DEF Pursue, Shape, Tender, Numbered
  <2> HIDE DEF new
  <2>3. Numbered'
    BY <2>1, <2>2 DEF Numbered
  <2>4. \A t \in tenders : t.notice = n => n \in overlapped'
    BY <1>1, <1>4, <2>1 DEF PursuitInv, LookedAt
  <2>5. PursuitReuses'
    <3> SUFFICES ASSUME NEW t \in tenders', NEW u \in tenders', t.notice # None,
                        t.notice = u.notice, t.id < u.id, u.origin = "match"
                 PROVE  t.notice \in overlapped'
      BY DEF PursuitReuses
    <3>1. CASE u = new
      BY <2>1, <2>2, <2>4, <3>1
    <3>2. CASE u # new
      <4>1. u \in tenders /\ u.id < ids
        BY <2>1, <2>2, <3>2
      <4>2. t \in tenders
        BY <2>1, <2>2, <4>1
      <4> QED
        BY <2>1, <4>1, <4>2 DEF PursuitInv, PursuitReuses
    <3> QED
      BY <3>1, <3>2
  <2>6. LookedAt'
    <3>0. \A d \in Connection : txn'[d].kind = "pursue" => txn'[d].from <= ids'
      <4> SUFFICES ASSUME NEW d \in Connection, txn'[d].kind = "pursue"
                   PROVE  txn[d].from <= ids + 1 /\ txn'[d] = txn[d]
        BY <2>1
      <4>1. d # c /\ txn'[d] = txn[d]
        BY <1>1 DEF Idle
      <4>2. txn[d].from \in Nat
        BY <4>1, Kinds DEF Shape, Pursue
      <4> QED
        BY <2>2, <4>1, <4>2 DEF PursuitInv, LookedAt
    <3> SUFFICES ASSUME NEW d \in Connection, txn'[d].kind = "pursue", ~txn'[d].existing,
                        NEW t \in tenders', t.notice = txn'[d].notice
                 PROVE  t.id >= txn'[d].from
      BY <3>0 DEF LookedAt
    <3>1. d # c /\ txn'[d] = txn[d]
      BY <1>1 DEF Idle
    <3>2. CASE t \in tenders
      BY <3>1, <3>2 DEF PursuitInv, LookedAt
    <3>3. CASE t = new
      BY <2>2, <3>1, <3>3 DEF PursuitInv, LookedAt
    <3> QED
      BY <2>1, <3>2, <3>3
  <2>7. OneTenderPerLink'
    BY <2>1, <2>2 DEF LinkInv, OneTenderPerLink
  <2>8. OpenedOnce'
    BY <1>1, <1>2 DEF LinkInv, OpenedOnce
  <2> QED
    BY <2>3, <2>5, <2>6, <2>7, <2>8 DEF PursuitInv, LinkInv
<1> QED
  BY <1>3, <1>4
LEMMA TendersByMail ==
  ASSUME Shape, Numbered, PursuitInv, LinkInv, NEW c \in Connection, MailCommits(c)
  PROVE  Numbered' /\ PursuitInv' /\ LinkInv'
<1> DEFINE O == txn[c].opened
           len == Len(Body(txn[c].job.message))
           moved(t) == [t EXCEPT !.id = @ + ids]
<1>1. /\ txn[c] \in Mail /\ txn[c].kind = "mail"
      /\ txn'[c] = Idle /\ \A d \in Connection : d # c => txn'[d] = txn[d]
  BY ShapeOfCommitted DEF MailCommits, Shape
<1>2. /\ O \subseteq Opened /\ len \in Nat /\ ids \in Nat
      /\ \A t \in tenders : t.id \in Nat /\ t.id < ids
  BY <1>1, ShapeOfCommitted DEF Mail, Shape, Tender, Numbered
<1>3. \A t \in O : /\ moved(t).id = t.id + ids /\ moved(t).notice = t.notice
                   /\ moved(t).url = t.url /\ moved(t).origin = t.origin /\ t.id \in Nat
  BY <1>2 DEF Opened
<1>4. /\ tenders' = tenders \cup {moved(t) : t \in O} /\ ids' = ids + len + 1
      /\ overlapped' = overlapped \cup {t.url : t \in {s \in O : OpenForLink(tenders, s.url)}}
  BY DEF MailCommits
<1> HIDE DEF O, moved, len
<1>5. Numbered'
  <2>1. \A t \in O : t.id <= len /\ \A u \in O : t.id = u.id => t = u
    BY <1>1 DEF LinkInv, OpenedOnce, O, len
  <2>2. \A t \in tenders' : t.id < ids'
    BY <1>2, <1>3, <1>4, <2>1
  <2>3. ASSUME NEW t \in tenders', NEW u \in tenders', t.id = u.id
        PROVE  t = u
    <3>1. CASE t \in tenders /\ u \in tenders
      BY <2>3, <3>1 DEF Numbered
    <3>2. CASE t \notin tenders /\ u \notin tenders
      <4>1. PICK x \in O : t = moved(x)
        BY <1>4, <3>2
      <4>2. PICK y \in O : u = moved(y)
        BY <1>4, <3>2
      <4>3. x.id = y.id
        BY <1>2, <1>3, <2>3, <4>1, <4>2
      <4> QED
        BY <2>1, <4>1, <4>2, <4>3
    <3>3. CASE t \in tenders /\ u \notin tenders
      BY <1>2, <1>3, <1>4, <2>3, <3>3
    <3>4. CASE t \notin tenders /\ u \in tenders
      BY <1>2, <1>3, <1>4, <2>3, <3>4
    <3> QED
      BY <3>1, <3>2, <3>3, <3>4
  <2> QED
    BY <2>2, <2>3 DEF Numbered
<1>6. LookedAt'
  <2>1. ASSUME NEW d \in Connection, txn'[d].kind = "pursue"
        PROVE  /\ txn'[d].from <= ids'
               /\ ~txn'[d].existing =>
                    \A t \in tenders' : t.notice = txn'[d].notice => t.id >= txn'[d].from
    <3>1. d # c /\ txn'[d] = txn[d]
      BY <1>1, <2>1 DEF Idle
    <3>2. txn[d].from \in Nat /\ txn[d].from <= ids
      BY <2>1, <3>1, Kinds DEF PursuitInv, LookedAt, Shape, Pursue
    <3>3. \A t \in tenders' : t \in tenders \/ t.id >= ids
      BY <1>2, <1>3, <1>4
    <3>4. \A t \in tenders' : t.id \in Nat
      BY <1>2, <1>3, <1>4
    <3>5. ~txn[d].existing => \A t \in tenders : t.notice = txn[d].notice => t.id >= txn[d].from
      BY <2>1, <3>1 DEF PursuitInv, LookedAt
    <3> QED
      BY <1>2, <1>4, <3>1, <3>2, <3>3, <3>4, <3>5
  <2> QED
    BY <2>1 DEF LookedAt
<1>7. PursuitReuses'
  <2> SUFFICES ASSUME NEW t \in tenders', NEW u \in tenders', t.notice # None,
                      t.notice = u.notice, t.id < u.id, u.origin = "match"
               PROVE  t.notice \in overlapped'
    BY DEF PursuitReuses
  <2>1. \A x \in O : moved(x).origin = "email"
    BY <1>1, <1>3 DEF LinkInv, OpenedOnce, O
  <2>2. u \in tenders
    BY <1>4, <2>1
  <2>3. t \in tenders
    BY <1>2, <1>3, <1>4, <2>2
  <2> QED
    BY <1>4, <2>2, <2>3 DEF PursuitInv, PursuitReuses
<1>8. OneTenderPerLink'
  <2> SUFFICES ASSUME NEW t \in tenders', NEW u \in tenders', t # u, t.url # None, t.url = u.url
               PROVE  t.url \in overlapped'
    BY DEF OneTenderPerLink
  <2>1. ASSUME NEW x \in tenders, NEW y \in O, x.url = moved(y).url
        PROVE  x.url \in overlapped'
    BY <1>3, <1>4, <2>1 DEF OpenForLink
  <2>2. ASSUME NEW x \in O, NEW y \in O, moved(x).url = moved(y).url
        PROVE  moved(x) = moved(y)
    BY <1>1, <1>3, <2>2 DEF LinkInv, OpenedOnce, O
  <2>3. CASE t \in tenders /\ u \in tenders
    BY <1>4, <2>3 DEF LinkInv, OneTenderPerLink
  <2> QED
    BY <1>4, <2>1, <2>2, <2>3
<1>9. OpenedOnce'
  BY <1>1 DEF LinkInv, OpenedOnce, Idle
<1> QED
  BY <1>5, <1>6, <1>7, <1>8, <1>9 DEF PursuitInv, LinkInv

LEMMA MailOpensOnce ==
  ASSUME Shape, Numbered, PursuitInv, LinkInv, NEW c \in Connection, MailOpens(c)
  PROVE  Numbered' /\ PursuitInv' /\ LinkInv'
<1> DEFINE x == txn[c]
           m == x.job.message
<1>1. PICK i \in x.todo, o \in SUBSET Opened :
        LET u == Body(m)[i]
            t == [id |-> i, notice |-> NoticeOf(u), url |-> u, origin |-> "email"]
        IN /\ x \in Mail /\ i \in Nat /\ i \in Links(m)
           /\ o = IF OpenForLink(tenders \cup x.opened, u) THEN x.opened ELSE x.opened \cup {t}
           /\ txn' = [txn EXCEPT ![c] = [kind |-> "mail", job |-> x.job,
                                         todo |-> x.todo \ {i}, opened |-> o]]
           /\ UNCHANGED <<tenders, ids, overlapped>>
  BY MailOpensTo
<1> DEFINE u == Body(m)[i]
           t == [id |-> i, notice |-> NoticeOf(u), url |-> u, origin |-> "email"]
           y == [kind |-> "mail", job |-> x.job, todo |-> x.todo \ {i}, opened |-> o]
<1>2. t.id = i /\ t.url = u /\ t.origin = "email"
  OBVIOUS
<1>3. x.kind = "mail" /\ m \in Message
  BY <1>1 DEF Mail, MailJob
<1>4. /\ i <= Len(Body(m))
      /\ \A s \in x.opened : /\ s.id \notin x.todo /\ s.origin = "email"
                             /\ s.id <= Len(Body(m))
      /\ \A r, s \in x.opened : r.url = s.url \/ r.id = s.id => r = s
  BY <1>1, <1>3, BodyType, LinksType DEF LinkInv, OpenedOnce
<1>5. o = x.opened \/ (o = x.opened \cup {t} /\ \A s \in x.opened : s.url # u)
  BY <1>1 DEF OpenForLink
<1>6. y.kind = "mail" /\ y.job = x.job /\ y.todo = x.todo \ {i} /\ y.opened = o
  OBVIOUS
<1>7. txn'[c] = y /\ \A d \in Connection : d # c => txn'[d] = txn[d]
  BY <1>1 DEF Shape
<1> HIDE DEF u, t, y
<1>8. \A r \in o : /\ r.id \notin x.todo \ {i} /\ r.origin = "email"
                   /\ r.id <= Len(Body(m))
                   /\ \A s \in o : r.url = s.url \/ r.id = s.id => r = s
  BY <1>2, <1>4, <1>5
<1>9. OpenedOnce'
  BY <1>6, <1>7, <1>8 DEF LinkInv, OpenedOnce
<1>10. LookedAt'
  BY <1>1, <1>6, <1>7 DEF PursuitInv, LookedAt
<1> QED
  BY <1>1, <1>9, <1>10 DEF Numbered, PursuitInv, LinkInv, PursuitReuses, OneTenderPerLink

LEMMA TendersStep == Shape /\ Numbered /\ PursuitInv /\ LinkInv /\ [Next]_vars
                       => Numbered' /\ PursuitInv' /\ LinkInv'
<1> SUFFICES ASSUME Shape, Numbered, PursuitInv, LinkInv, [Next]_vars
             PROVE  Numbered' /\ PursuitInv' /\ LinkInv'
  OBVIOUS
<1> USE TendersStay DEF Shape
<1>1. CASE UNCHANGED <<tenders, ids, overlapped, txn>>
  BY <1>1
<1>2. CASE Bootstrap \/ UNCHANGED vars
  BY <1>1, <1>2 DEF Bootstrap, vars
<1>3. ASSUME NEW n \in Notice, Ingest(n) \/ Shortlist(n) \/ Dismiss(n)
      PROVE  Numbered' /\ PursuitInv' /\ LinkInv'
  BY <1>1, <1>3 DEF Ingest, Shortlist, Dismiss, Transition
<1>4. ASSUME NEW m \in Message, Receive(m)
      PROVE  Numbered' /\ PursuitInv' /\ LinkInv'
  BY <1>1, <1>4 DEF Receive
<1>5. ASSUME NEW c \in Connection, MatchWrites(c) \/ RollsBack(c) \/ SaveCommits(c)
      PROVE  Numbered' /\ PursuitInv' /\ LinkInv'
  BY <1>5 DEF MatchWrites, RollsBack, SaveCommits, Idle
<1>6. ASSUME NEW c \in Connection, NEW n \in Notice, MatchReads(c, n)
      PROVE  Numbered' /\ PursuitInv' /\ LinkInv'
  BY <1>6 DEF MatchReads
<1>7. ASSUME NEW c \in Connection, NEW given \in BOOLEAN, NEW F \in SUBSET Family,
             SaveUpserts(c, given, F)
      PROVE  Numbered' /\ PursuitInv' /\ LinkInv'
  BY <1>7 DEF SaveUpserts
<1>8. ASSUME NEW c \in Connection, SaveCounts(c)
      PROVE  Numbered' /\ PursuitInv' /\ LinkInv'
  <2>1. txn[c] \in Save
    BY <1>8, Kinds DEF SaveCounts
  <2>2. txn'[c].kind = "profile"
    BY <1>8, <2>1 DEF SaveCounts, Save
  <2> QED
    BY <1>8, <2>2 DEF SaveCounts
<1>9. ASSUME NEW c \in Connection, NEW n \in Notice, PursueReads(c, n)
      PROVE  Numbered' /\ PursuitInv' /\ LinkInv'
  <2>1. /\ txn' = [txn EXCEPT ![c] = [kind |-> "pursue", notice |-> n,
                                      existing |-> Existing(n) # {}, from |-> ids]]
        /\ UNCHANGED <<tenders, ids, overlapped>>
    BY <1>9 DEF PursueReads
  <2>2. LookedAt'
    <3>1. ASSUME NEW d \in Connection, d # c, txn'[d].kind = "pursue"
          PROVE  /\ txn'[d].from <= ids
                 /\ ~txn'[d].existing =>
                      \A t \in tenders : t.notice = txn'[d].notice => t.id >= txn'[d].from
      BY <2>1, <3>1 DEF PursuitInv, LookedAt
    <3>2. txn'[c].from = ids /\ txn'[c].notice = n /\ txn'[c].existing = (Existing(n) # {})
      BY <2>1
    <3>3. ~txn'[c].existing => \A t \in tenders : t.notice # n
      BY <3>2 DEF Existing
    <3>4. ids \in Nat /\ ids <= ids
      OBVIOUS
    <3> QED
      BY <2>1, <3>1, <3>2, <3>3, <3>4 DEF LookedAt
  <2>3. OpenedOnce'
    BY <2>1 DEF LinkInv, OpenedOnce
  <2> QED
    BY <2>1, <2>2, <2>3 DEF Numbered, PursuitInv, LinkInv, PursuitReuses, OneTenderPerLink
<1>10. ASSUME NEW c \in Connection, NEW j \in MailJob, MailBegins(c, j)
       PROVE  Numbered' /\ PursuitInv' /\ LinkInv'
  <2>1. /\ UNCHANGED <<tenders, ids, overlapped>>
        /\ \A d \in Connection : d # c => txn'[d] = txn[d]
        /\ txn'[c].kind = "mail" /\ txn'[c].opened = {}
    BY <1>10 DEF MailBegins
  <2>2. LookedAt'
    BY <2>1 DEF PursuitInv, LookedAt
  <2>3. OpenedOnce'
    BY <2>1 DEF LinkInv, OpenedOnce
  <2> QED
    BY <2>1, <2>2, <2>3 DEF Numbered, PursuitInv, LinkInv, PursuitReuses, OneTenderPerLink
<1> QED
  BY <1>2, <1>3, <1>4, <1>5, <1>6, <1>7, <1>8, <1>9, <1>10,
     TendersByPursuit, TendersByMail, MailOpensOnce DEF Next

LEMMA TendersInit == Init => Numbered /\ PursuitInv /\ LinkInv
BY DEF Init, Idle, Numbered, PursuitInv, LookedAt, PursuitReuses, LinkInv, OpenedOnce,
       OneTenderPerLink

(* For any interleaving of pursuits and mails, a pursuit opens a tender    *)
(* beside another of its notice only if that one was committed after the   *)
(* pursuit had looked.                                                     *)
THEOREM PursuitReusesHolds == Spec => []PursuitReuses
<1>1. PursuitInv => PursuitReuses
  BY DEF PursuitInv
<1> QED
  BY ShapeHolds, TendersInit, TendersStep, <1>1, PTL DEF Spec

(* ... and a link is opened twice only by messages whose transactions      *)
(* overlap, whatever is delivered again or rolled back.                    *)
THEOREM OneTenderPerLinkHolds == Spec => []OneTenderPerLink
<1>1. LinkInv => OneTenderPerLink
  BY DEF LinkInv
<1> QED
  BY ShapeHolds, TendersInit, TendersStep, <1>1, PTL DEF Spec

(* Together: one workspace for a thing (OneWorkspace).                     *)
THEOREM OneWorkspaceHolds == Spec => []OneWorkspace
<1>1. PursuitReuses /\ OneTenderPerLink => OneWorkspace
  BY DEF OneWorkspace
<1> QED
  BY <1>1, PursuitReusesHolds, OneTenderPerLinkHolds, PTL

(* Every variable has its type at every step, tenders keep numbers of      *)
(* their own, and a mail never opens one ahead of the link it has come to. *)
THEOREM TypeOKHolds == Spec => []TypeOK
<1>1. Shape /\ Numbered /\ LinkInv => TypeOK
  <2> SUFFICES ASSUME Shape, Numbered, LinkInv
               PROVE  TypeOK
    OBVIOUS
  <2>1. AnyTxn \subseteq Txn
    <3>1. Opened \subseteq Tender
      BY DEF Opened, Tender
    <3>2. Mail \subseteq [kind : {"mail"}, job : MailJob, todo : SUBSET Nat, opened : SUBSET Tender]
      BY <3>1 DEF Mail
    <3> QED
      BY <3>2 DEF AnyTxn, Txn, Pursue, Save, Match
  <2>2. txn \in [Connection -> Txn]
    BY <2>1 DEF Shape
  <2>3. \A c \in Connection : txn[c].kind = "mail" => \A t \in txn[c].opened : t.id \notin txn[c].todo
    BY DEF LinkInv, OpenedOnce
  <2> QED
    BY <2>2, <2>3 DEF Shape, Numbered, TypeOK
<1> QED
  BY ShapeHolds, TendersInit, TendersStep, <1>1, PTL DEF Spec

-----------------------------------------------------------------------------
(* A mail under way has a tender, committed or its own, for each link it   *)
(* has come to; a processed one has committed tenders for all its links.   *)
ComeTo ==
  \A c \in Connection :
    txn[c].kind = "mail" /\ Resolves(txn[c].job.message) =>
      \A i \in Links(txn[c].job.message) \ txn[c].todo :
        \E t \in tenders \cup txn[c].opened : t.url = Body(txn[c].job.message)[i]

Processed ==
  \A j \in MailJob :
    mailing[j] = "done" /\ Resolves(j.message) =>
      \A i \in Links(j.message) : \E t \in tenders : t.url = Body(j.message)[i]

CoverInv == ComeTo /\ Processed

(* Tenders are never deleted: what was covered stays so.                   *)
LEMMA CoverStays ==
  ASSUME CoverInv, tenders \subseteq tenders',
         \A c \in Connection : txn'[c] = txn[c] \/ txn'[c].kind # "mail",
         \A j \in MailJob : mailing'[j] = "done" => mailing[j] = "done"
  PROVE  CoverInv'
<1>1. ComeTo'
  BY DEF CoverInv, ComeTo
<1>2. Processed'
  BY DEF CoverInv, Processed
<1> QED
  BY <1>1, <1>2 DEF CoverInv

LEMMA CoverByOpening ==
  ASSUME Shape, CoverInv, NEW c \in Connection, MailOpens(c)
  PROVE  CoverInv'
<1> DEFINE x == txn[c]
           m == x.job.message
<1>1. PICK i \in x.todo, o \in SUBSET Opened :
        LET u == Body(m)[i]
            t == [id |-> i, notice |-> NoticeOf(u), url |-> u, origin |-> "email"]
        IN /\ x \in Mail
           /\ o = IF OpenForLink(tenders \cup x.opened, u) THEN x.opened ELSE x.opened \cup {t}
           /\ txn' = [txn EXCEPT ![c] = [kind |-> "mail", job |-> x.job,
                                         todo |-> x.todo \ {i}, opened |-> o]]
           /\ UNCHANGED <<tenders, mailing>>
  BY MailOpensTo
<1> DEFINE u == Body(m)[i]
           t == [id |-> i, notice |-> NoticeOf(u), url |-> u, origin |-> "email"]
           y == [kind |-> "mail", job |-> x.job, todo |-> x.todo \ {i}, opened |-> o]
<1>2. x.opened \subseteq o /\ \E s \in tenders \cup o : s.url = u
  <2>1. CASE OpenForLink(tenders \cup x.opened, u)
    BY <1>1, <2>1 DEF OpenForLink
  <2>2. CASE ~OpenForLink(tenders \cup x.opened, u)
    <3>1. o = x.opened \cup {t} /\ t.url = u
      BY <1>1, <2>2
    <3> HIDE DEF t
    <3> QED
      BY <3>1
  <2> QED
    BY <2>1, <2>2
<1>3. y.kind = "mail" /\ y.job = x.job /\ y.todo = x.todo \ {i} /\ y.opened = o
  OBVIOUS
<1>4. /\ txn'[c] = y /\ \A d \in Connection : d # c => txn'[d] = txn[d]
      /\ x.kind = "mail" /\ UNCHANGED <<tenders, mailing>>
  BY <1>1 DEF Shape, Mail
<1> HIDE DEF t, y
<1>5. ASSUME Resolves(m), NEW h \in Links(m) \ (x.todo \ {i})
      PROVE  \E s \in tenders \cup o : s.url = Body(m)[h]
  <2>1. CASE h = i
    BY <1>2, <2>1
  <2>2. CASE h # i
    BY <1>2, <1>4, <1>5, <2>2 DEF CoverInv, ComeTo
  <2> QED
    BY <2>1, <2>2
<1>6. ComeTo'
  BY <1>3, <1>4, <1>5 DEF CoverInv, ComeTo
<1>7. Processed'
  BY <1>4 DEF CoverInv, Processed
<1> QED
  BY <1>6, <1>7 DEF CoverInv

LEMMA CoverByCommit ==
  ASSUME Shape, CoverInv, NEW c \in Connection, MailCommits(c)
  PROVE  CoverInv'
<1> DEFINE m == txn[c].job.message
           moved(t) == [t EXCEPT !.id = @ + ids]
<1>1. txn[c] \in Mail /\ txn[c].kind = "mail" /\ txn[c].todo = {} /\ txn[c].job \in MailJob
  BY ShapeOfCommitted DEF MailCommits, Mail
<1>2. tenders' = tenders \cup {moved(t) : t \in txn[c].opened}
  BY DEF MailCommits
<1>3. \A t \in txn[c].opened : moved(t).url = t.url
  BY <1>1 DEF Mail, Opened
<1>4. txn' = [txn EXCEPT ![c] = Idle]
      /\ \E p \in {"done", "pending"} : mailing' = [mailing EXCEPT ![txn[c].job] = p]
  BY DEF MailCommits
<1>5. \A j \in MailJob : j # txn[c].job => mailing'[j] = mailing[j]
  BY <1>4 DEF Shape
<1> HIDE DEF moved
<1>6. ASSUME Resolves(m), NEW i \in Links(m)
      PROVE  \E t \in tenders' : t.url = Body(m)[i]
  <2>1. PICK t \in tenders \cup txn[c].opened : t.url = Body(m)[i]
    BY <1>1, <1>6 DEF CoverInv, ComeTo
  <2>2. CASE t \in tenders
    BY <1>2, <2>1, <2>2
  <2>3. CASE t \in txn[c].opened
    BY <1>2, <1>3, <2>1, <2>3
  <2> QED
    BY <2>2, <2>3
<1>7. Processed'
  <2>1. ASSUME NEW j \in MailJob, mailing'[j] = "done", Resolves(j.message), j # txn[c].job,
               NEW i \in Links(j.message)
        PROVE  \E t \in tenders' : t.url = Body(j.message)[i]
    BY <1>2, <1>5, <2>1 DEF CoverInv, Processed
  <2> QED
    BY <1>6, <2>1 DEF Processed
<1>8. ComeTo'
  BY <1>2, <1>4 DEF CoverInv, ComeTo, Idle, Shape
<1> QED
  BY <1>7, <1>8 DEF CoverInv

LEMMA CoverStep == Shape /\ CoverInv /\ [Next]_vars => CoverInv'
<1> SUFFICES ASSUME Shape, CoverInv, [Next]_vars
             PROVE  CoverInv'
  OBVIOUS
<1> USE CoverStays DEF Shape
<1>1. CASE Bootstrap \/ UNCHANGED vars
  BY <1>1 DEF Bootstrap, vars, mails
<1>2. ASSUME NEW n \in Notice, Ingest(n) \/ Shortlist(n) \/ Dismiss(n)
      PROVE  CoverInv'
  BY <1>2 DEF Ingest, Shortlist, Dismiss, Transition, mails
<1>3. ASSUME NEW m \in Message, Receive(m)
      PROVE  CoverInv'
  <2>1. \A j \in MailJob : mailing'[j] = "done" => mailing[j] = "done"
    BY <1>3 DEF Receive
  <2> QED
    BY <1>3, <2>1 DEF Receive
<1>4. ASSUME NEW c \in Connection, MatchWrites(c) \/ PursueWrites(c) \/ RollsBack(c) \/ SaveCommits(c)
      PROVE  CoverInv'
  <2>1. txn' = [txn EXCEPT ![c] = Idle] /\ tenders \subseteq tenders' /\ mailing' = mailing
    BY <1>4 DEF MatchWrites, PursueWrites, RollsBack, SaveCommits, mails
  <2> QED
    BY <2>1 DEF Idle
<1>5. ASSUME NEW c \in Connection, NEW n \in Notice, MatchReads(c, n) \/ PursueReads(c, n)
      PROVE  CoverInv'
  BY <1>5 DEF MatchReads, PursueReads, mails
<1>6. ASSUME NEW c \in Connection, NEW given \in BOOLEAN, NEW F \in SUBSET Family,
             SaveUpserts(c, given, F)
      PROVE  CoverInv'
  BY <1>6 DEF SaveUpserts, mails
<1>7. ASSUME NEW c \in Connection, SaveCounts(c)
      PROVE  CoverInv'
  <2>1. txn[c] \in Save
    BY <1>7, Kinds DEF SaveCounts
  <2>2. txn'[c].kind = "profile"
    BY <1>7, <2>1 DEF SaveCounts, Save
  <2> QED
    BY <1>7, <2>2 DEF SaveCounts, mails
<1>8. ASSUME NEW c \in Connection, NEW j \in MailJob, MailBegins(c, j)
      PROVE  CoverInv'
  <2>1. /\ UNCHANGED <<tenders, mailing>>
        /\ \A d \in Connection : d # c => txn'[d] = txn[d]
        /\ txn'[c].kind = "mail" /\ txn'[c].job = j
        /\ txn'[c].todo = IF Resolves(j.message) THEN Links(j.message) ELSE {}
    BY <1>8 DEF MailBegins, mails
  <2>2. ComeTo'
    <3> SUFFICES ASSUME NEW d \in Connection, txn'[d].kind = "mail",
                        Resolves(txn'[d].job.message),
                        NEW i \in Links(txn'[d].job.message) \ txn'[d].todo
                 PROVE  \E t \in tenders \cup txn'[d].opened : t.url = Body(txn'[d].job.message)[i]
      BY <2>1 DEF ComeTo
    <3>1. d # c
      BY <2>1
    <3> QED
      BY <2>1, <3>1 DEF CoverInv, ComeTo
  <2>3. Processed'
    BY <2>1 DEF CoverInv, Processed
  <2> QED
    BY <2>2, <2>3 DEF CoverInv
<1> QED
  BY <1>1, <1>2, <1>3, <1>4, <1>5, <1>6, <1>7, <1>8, CoverByOpening, CoverByCommit DEF Next

LEMMA CoverInit == Init => CoverInv
BY DEF Init, Idle, CoverInv, ComeTo, Processed

(* Whatever is delivered twice, rolled back or processed at the same time, *)
(* a processed message has a tender for each of its links that is not      *)
(* furniture, or for as many as the limit allows.                          *)
THEOREM EveryLinkOpenedHolds == Spec => []EveryLinkOpened
<1>1. Init => CoverInv
  BY CoverInit
<1>2. CoverInv => EveryLinkOpened
  <2> SUFFICES ASSUME CoverInv, NEW j \in MailJob, mailing[j] = "done",
                      To[j.message] \in {"exact", "folded"}
               PROVE  LET real == {u \in ToSet(Body(j.message)) : u \notin Boilerplate}
                          open == {u \in real : \E t \in tenders : t.url = u}
                      IN open = real \/ Cardinality(open) >= MaxLinks
    BY DEF EveryLinkOpened
  <2>1. j.message \in Message
    BY DEF MailJob
  <2>2. \A i \in Links(j.message) : \E t \in tenders : t.url = Body(j.message)[i]
    BY DEF CoverInv, Processed, Resolves
  <2> QED
    BY <2>1, <2>2, LinksCover
<1> QED
  BY ShapeHolds, CoverStep, <1>1, <1>2, PTL DEF Spec

-----------------------------------------------------------------------------
(***************************************************************************)
(* Refinement: transactions that open no tender twice take effect at once, *)
(* as WorkspaceContract says.                                              *)
(***************************************************************************)
Fits(n) == \E i \in DOMAIN watches : watches[i] \cap Families[n] # {}
Board == {Shown(t) : t \in tenders}
Due(m) == IF Resolves(m) THEN {Body(m)[i] : i \in Links(m)} ELSE {}

(* What a transaction has read and goes by still holds when it commits.    *)
ReadHolds(c) ==
  LET x == txn[c]
  IN /\ x.kind = "pursue" => /\ state[x.notice] # "none"
                             /\ x.existing => \E t \in tenders : t.notice = x.notice
     /\ x.kind = "match" => x.notice \in known /\ (x.fits => Fits(x.notice))
     /\ x.kind = "mail" =>
          LET m == x.job.message
          IN /\ x.todo # {} => Resolves(m)
             /\ \A t \in x.opened :
                  /\ t.url \in Due(m)
                  /\ t.notice # None => t.notice = Names[t.url] /\ t.notice \in known

ReadsInv ==
  /\ \A n \in Notice : scoring[n] # "absent" => n \in known
  /\ \A c \in Connection : ReadHolds(c)

(* Notices, matches, watch profiles and tenders stay once they are there.  *)
Stays ==
  /\ known \subseteq known' /\ tenders \subseteq tenders'
  /\ \A n \in Notice : Fits(n) => Fits(n)'
  /\ \A n \in Notice : state[n] # "none" => state'[n] # "none"

LEMMA ReadsStay ==
  ASSUME Shape, ReadsInv, Stays, NEW c \in Connection, txn'[c] = txn[c]
  PROVE  ReadHolds(c)'
<1>1. ReadHolds(c)
  BY DEF ReadsInv
<1>2. txn[c].kind \in {"pursue", "match"} => txn[c].notice \in Notice
  BY Kinds DEF Shape, Pursue, Match
<1>3. \A m : Due(m)' = Due(m)
  BY DEF Due, Resolves, Links, FirstOf, Real, Found, Body
<1> QED
  BY <1>1, <1>2, <1>3 DEF ReadHolds, Stays

LEMMA ReadsKept ==
  ASSUME Shape, ReadsInv, Stays,
         \A c \in Connection : txn'[c] = txn[c] \/ ReadHolds(c)',
         \A n \in Notice : scoring'[n] # "absent" => n \in known'
  PROVE  ReadsInv'
<1>1. \A c \in Connection : ReadHolds(c)'
  BY ReadsStay
<1> QED
  BY <1>1 DEF ReadsInv

LEMMA StaysWith ==
  ASSUME known' = known, tenders' = tenders, watches' = watches, state' = state
  PROVE  Stays
BY DEF Stays, Fits

LEMMA IdleHolds ==
  ASSUME NEW c \in Connection, txn'[c].kind \in {"idle", "profile"}
  PROVE  ReadHolds(c)'
BY DEF ReadHolds

(* A watch profile that is made is appended.                               *)
LEMMA WatchesGrow ==
  ASSUME Shape, ReadsInv, NEW c \in Connection, SaveCommits(c)
  PROVE  \A n \in Notice : Fits(n) => Fits(n)'
<1>1. txn[c] \in Save /\ watches \in Seq(SUBSET Family)
  BY Kinds DEF Shape, SaveCommits
<1>2. CASE watches' = watches
  BY <1>2 DEF Fits
<1>3. CASE watches' = Append(watches, txn[c].families)
  <2>1. txn[c].families \in SUBSET Family
    BY <1>1 DEF Save
  <2>2. \A i \in DOMAIN watches : i \in DOMAIN watches' /\ watches'[i] = watches[i]
    BY <1>1, <1>3, <2>1
  <2> QED
    BY <2>2 DEF Fits
<1> QED
  BY <1>2, <1>3 DEF SaveCommits

LEMMA ReadsOfMail ==
  ASSUME Shape, ReadsInv, NEW c \in Connection, MailOpens(c)
  PROVE  ReadHolds(c)'
<1> DEFINE x == txn[c]
           m == x.job.message
<1>1. PICK i \in x.todo, o \in SUBSET Opened :
        LET u == Body(m)[i]
            t == [id |-> i, notice |-> NoticeOf(u), url |-> u, origin |-> "email"]
        IN /\ x \in Mail /\ i \in Links(m)
           /\ o = IF OpenForLink(tenders \cup x.opened, u) THEN x.opened ELSE x.opened \cup {t}
           /\ txn' = [txn EXCEPT ![c] = [kind |-> "mail", job |-> x.job,
                                         todo |-> x.todo \ {i}, opened |-> o]]
  BY MailOpensTo
<1> DEFINE u == Body(m)[i]
           t == [id |-> i, notice |-> NoticeOf(u), url |-> u, origin |-> "email"]
           y == [kind |-> "mail", job |-> x.job, todo |-> x.todo \ {i}, opened |-> o]
<1>2. t.url = u /\ t.notice = NoticeOf(u)
  OBVIOUS
<1>3. y.kind = "mail" /\ y.job = x.job /\ y.todo = x.todo \ {i} /\ y.opened = o
  OBVIOUS
<1>4. x.kind = "mail" /\ ReadHolds(c) /\ i \in x.todo
  BY <1>1 DEF Mail, ReadsInv
<1>5. o \subseteq x.opened \cup {t}
  BY <1>1
<1>6. Resolves(m) /\ u \in Due(m)
  BY <1>1, <1>4 DEF ReadHolds, Due
<1>7. t.notice # None => t.notice = Names[t.url] /\ t.notice \in known
  BY <1>2 DEF NoticeOf
<1>8. txn'[c] = y /\ known' = known
  BY <1>1 DEF Shape, MailOpens
<1> HIDE DEF t, y, u
<1>9. \A r \in o : /\ r.url \in Due(m)
                   /\ r.notice # None => r.notice = Names[r.url] /\ r.notice \in known
  BY <1>2, <1>4, <1>5, <1>6, <1>7 DEF ReadHolds
<1>10. txn'[c].kind = "mail" /\ txn'[c].job.message = m /\ txn'[c].opened = o
  BY <1>3, <1>8
<1>11. \A r \in txn'[c].opened :
         /\ r.url \in Due(txn'[c].job.message)
         /\ r.notice # None => r.notice = Names[r.url] /\ r.notice \in known'
  BY <1>8, <1>9, <1>10
<1>12. Resolves(txn'[c].job.message)
  BY <1>6, <1>10
<1> HIDE DEF x, m
<1> QED
  BY <1>10, <1>11, <1>12 DEF ReadHolds, Due, Resolves, Links, FirstOf, Real, Found, Body

LEMMA ReadsStep == Shape /\ ReadsInv /\ [Next]_vars => ReadsInv'
<1> SUFFICES ASSUME Shape, ReadsInv, [Next]_vars
             PROVE  ReadsInv'
  OBVIOUS
<1>1. ASSUME Stays, UNCHANGED <<scoring, watches>>,
             \A c \in Connection : txn'[c] = txn[c] \/ ReadHolds(c)'
      PROVE  ReadsInv'
  BY <1>1, ReadsKept DEF ReadsInv, Stays
<1>2. ASSUME UNCHANGED <<known, tenders, watches, state, scoring>>,
             \A c \in Connection : txn'[c] = txn[c] \/ ReadHolds(c)'
      PROVE  ReadsInv'
  BY <1>1, <1>2, StaysWith
<1>3. CASE Bootstrap \/ UNCHANGED vars
  BY <1>2, <1>3 DEF Bootstrap, vars, matches, setup
<1>4. ASSUME NEW n \in Notice, Ingest(n)
      PROVE  ReadsInv'
  <2>1. /\ known' = known \cup {n} /\ scoring' = [scoring EXCEPT ![n] = "pending"]
        /\ UNCHANGED <<tenders, watches, state, txn>>
    BY <1>4 DEF Ingest, matches, setup
  <2>2. Stays
    BY <2>1 DEF Stays, Fits
  <2>3. \A k \in Notice : scoring'[k] # "absent" => k \in known'
    BY <2>1 DEF ReadsInv, Shape
  <2> QED
    BY <2>1, <2>2, <2>3, ReadsKept DEF ReadsInv
<1>5. ASSUME NEW n \in Notice, Shortlist(n) \/ Dismiss(n)
      PROVE  ReadsInv'
  <2>1. /\ UNCHANGED <<known, tenders, watches, scoring, txn>>
        /\ \A k \in Notice : state[k] # "none" => state'[k] # "none"
    BY <1>5 DEF Shortlist, Dismiss, Transition, setup, Shape
  <2>2. Stays
    BY <2>1 DEF Stays, Fits
  <2> QED
    BY <1>1, <2>1, <2>2
<1>6. ASSUME NEW m \in Message, Receive(m)
      PROVE  ReadsInv'
  BY <1>2, <1>6 DEF Receive, matches, setup
<1>7. ASSUME NEW c \in Connection, NEW n \in Notice, MatchReads(c, n)
      PROVE  ReadsInv'
  <2> DEFINE fits == \E i \in DOMAIN watches : watches[i] \cap Families[n] # {}
  <2>1. /\ txn' = [txn EXCEPT ![c] = [kind |-> "match", notice |-> n, fits |-> fits]]
        /\ UNCHANGED <<known, tenders, watches, state, scoring>> /\ scoring[n] = "pending"
    BY <1>7 DEF MatchReads, matches, setup
  <2>2. txn'[c].kind = "match" /\ txn'[c].notice = n /\ txn'[c].fits = fits
    BY <2>1 DEF Shape
  <2>3. n \in known /\ (fits => Fits(n))
    BY <2>1 DEF ReadsInv, Fits
  <2> HIDE DEF fits
  <2>4. ReadHolds(c)'
    BY <2>1, <2>2, <2>3 DEF ReadHolds, Fits
  <2> QED
    BY <1>2, <2>1, <2>4 DEF Shape
<1>8. ASSUME NEW c \in Connection, NEW n \in Notice, PursueReads(c, n)
      PROVE  ReadsInv'
  <2>1. /\ txn' = [txn EXCEPT ![c] = [kind |-> "pursue", notice |-> n,
                                      existing |-> Existing(n) # {}, from |-> ids]]
        /\ UNCHANGED <<known, tenders, watches, state, scoring>> /\ state[n] # "none"
    BY <1>8 DEF PursueReads, matches, setup
  <2>2. txn'[c].kind = "pursue" /\ txn'[c].notice = n /\ txn'[c].existing = (Existing(n) # {})
    BY <2>1 DEF Shape
  <2>3. txn'[c].existing => \E t \in tenders' : t.notice = n
    BY <2>1, <2>2 DEF Existing
  <2>4. ReadHolds(c)'
    BY <2>1, <2>2, <2>3 DEF ReadHolds
  <2> QED
    BY <1>2, <2>1, <2>4 DEF Shape
<1>9. ASSUME NEW c \in Connection, MatchWrites(c)
      PROVE  ReadsInv'
  <2>1. txn[c] \in Match /\ txn[c].notice \in known /\ txn[c].notice \in Notice
    BY <1>9, Kinds DEF MatchWrites, Shape, ReadsInv, ReadHolds, Match
  <2>2. /\ UNCHANGED <<known, tenders, watches>> /\ txn' = [txn EXCEPT ![c] = Idle]
        /\ state' = Rescored(txn[c].notice, txn[c].fits)
        /\ \E p : scoring' = [scoring EXCEPT ![txn[c].notice] = p]
    BY <1>9 DEF MatchWrites, setup
  <2>3. Stays
    BY <2>2 DEF Stays, Fits, Rescored, Shape
  <2>4. \A k \in Notice : scoring'[k] # "absent" => k \in known'
    BY <2>1, <2>2 DEF ReadsInv, Shape
  <2>5. \A d \in Connection : txn'[d] = txn[d] \/ ReadHolds(d)'
    BY <2>2, IdleHolds DEF Shape, Idle
  <2> QED
    BY <2>2, <2>3, <2>4, <2>5, ReadsKept DEF ReadsInv
<1>10. ASSUME NEW c \in Connection, PursueWrites(c)
       PROVE  ReadsInv'
  <2>1. /\ UNCHANGED <<known, watches, scoring>> /\ txn' = [txn EXCEPT ![c] = Idle]
        /\ state' = [state EXCEPT ![txn[c].notice] = "pursued"] /\ tenders \subseteq tenders'
    BY <1>10 DEF PursueWrites, setup
  <2>2. Stays
    BY <2>1 DEF Stays, Fits, Shape
  <2> QED
    BY <1>1, <2>1, <2>2, IdleHolds DEF Shape, Idle
<1>11. ASSUME NEW c \in Connection, NEW given \in BOOLEAN, NEW F \in SUBSET Family,
              SaveUpserts(c, given, F)
       PROVE  ReadsInv'
  <2>1. txn'[c].kind = "profile"
    BY <1>11 DEF SaveUpserts, Shape
  <2> QED
    BY <1>2, <1>11, <2>1, IdleHolds DEF SaveUpserts, Shape, matches, setup
<1>12. ASSUME NEW c \in Connection, SaveCounts(c)
       PROVE  ReadsInv'
  <2>1. txn[c] \in Save
    BY <1>12, Kinds DEF SaveCounts, Shape
  <2>2. txn'[c].kind = "profile"
    BY <1>12, <2>1 DEF SaveCounts, Save, Shape
  <2> QED
    BY <1>2, <1>12, <2>2, IdleHolds DEF SaveCounts, Shape, matches, setup
<1>13. ASSUME NEW c \in Connection, SaveCommits(c)
       PROVE  ReadsInv'
  <2>1. /\ UNCHANGED <<known, tenders, state, scoring>> /\ txn' = [txn EXCEPT ![c] = Idle]
    BY <1>13 DEF SaveCommits, matches
  <2>2. Stays
    BY <1>13, <2>1, WatchesGrow DEF Stays
  <2>3. \A d \in Connection : txn'[d] = txn[d] \/ ReadHolds(d)'
    BY <2>1, IdleHolds DEF Shape, Idle
  <2> QED
    BY <1>13, <2>1, <2>2, <2>3, WatchesGrow, ReadsKept DEF ReadsInv
<1>14. ASSUME NEW c \in Connection, NEW j \in MailJob, MailBegins(c, j)
       PROVE  ReadsInv'
  <2>1. txn' = [txn EXCEPT ![c] = [kind |-> "mail", job |-> j, opened |-> {},
                                   todo |-> IF Resolves(j.message) THEN Links(j.message) ELSE {}]]
        /\ UNCHANGED <<known, tenders, watches, state, scoring>>
    BY <1>14 DEF MailBegins, matches, setup
  <2>2. /\ txn'[c].kind = "mail" /\ txn'[c].job = j /\ txn'[c].opened = {}
        /\ txn'[c].todo # {} => Resolves(j.message)
    BY <2>1 DEF Shape
  <2>3. ReadHolds(c)'
    BY <2>2 DEF ReadHolds, Due, Resolves, Links, FirstOf, Real, Found, Body
  <2> QED
    BY <1>2, <2>1, <2>3 DEF Shape
<1>15. ASSUME NEW c \in Connection, MailOpens(c)
       PROVE  ReadsInv'
  BY <1>2, <1>15, ReadsOfMail DEF MailOpens, Shape, matches, setup
<1>16. ASSUME NEW c \in Connection, MailCommits(c)
       PROVE  ReadsInv'
  <2>1. /\ UNCHANGED <<known, watches, state, scoring>> /\ txn' = [txn EXCEPT ![c] = Idle]
        /\ tenders \subseteq tenders'
    BY <1>16 DEF MailCommits, matches, setup
  <2>2. Stays
    BY <2>1 DEF Stays, Fits
  <2> QED
    BY <1>1, <2>1, <2>2, IdleHolds DEF Shape, Idle
<1>17. ASSUME NEW c \in Connection, RollsBack(c)
       PROVE  ReadsInv'
  BY <1>2, <1>17, IdleHolds DEF RollsBack, Shape, Idle, matches, setup
<1> QED
  BY <1>3, <1>4, <1>5, <1>6, <1>7, <1>8, <1>9, <1>10, <1>11, <1>12, <1>13, <1>14, <1>15, <1>16, <1>17
     DEF Next

LEMMA ReadsInit == Init => ReadsInv
BY DEF Init, Idle, ReadsInv, ReadHolds

(* What the team sees of a tender.                                         *)
LEMMA OnBoard ==
  /\ \A t : Shown(t).notice = t.notice /\ Shown(t).url = t.url
  /\ \A n : (\E b \in Board : b.notice = n) <=> (\E t \in tenders : t.notice = n)
  /\ \A u : (\E b \in Board : b.url = u) <=> (\E t \in tenders : t.url = u)
<1>1. \A t : Shown(t).notice = t.notice /\ Shown(t).url = t.url
  BY DEF Shown
<1> QED
  BY <1>1 DEF Board

(* A pursuit that opens a tender is the only one of its notice.            *)
LEMMA ContractByPursuit ==
  ASSUME Shape, LookedAt, ReadsInv, NEW c \in Connection, PursueWrites(c), overlapped' = {}
  PROVE  \E n \in Notice : Contract!Pursue(n)
<1> DEFINE n == txn[c].notice
           new == [id |-> ids, notice |-> n, url |-> None, origin |-> "match"]
<1>1. /\ txn[c] \in Pursue /\ txn[c].kind = "pursue" /\ n \in Notice /\ state[n] # "none"
      /\ txn[c].existing => \E t \in tenders : t.notice = n
      /\ ~txn[c].existing => \A t \in tenders : t.notice = n => t.id >= txn[c].from
  BY Kinds DEF PursueWrites, Shape, Pursue, ReadsInv, ReadHolds, LookedAt
<1>2. /\ state' = [state EXCEPT ![n] = "pursued"]
      /\ UNCHANGED <<known, reason, profile, families, watches>>
  BY DEF PursueWrites, setup
<1>3. Board' = IF \E b \in Board : b.notice = n THEN Board
               ELSE Board \cup {[notice |-> n, url |-> None, origin |-> "match"]}
  <2>1. CASE txn[c].existing
    <3>1. tenders' = tenders
      BY <2>1 DEF PursueWrites
    <3>2. \E b \in Board : b.notice = n
      BY <1>1, <2>1, OnBoard
    <3> QED
      BY <3>1, <3>2 DEF Board, Shown
  <2>2. CASE ~txn[c].existing
    <3>1. /\ tenders' = tenders \cup {new}
          /\ \A t \in tenders : ~(t.notice = n /\ t.id >= txn[c].from)
      BY <2>2 DEF PursueWrites
    <3>2. ~\E b \in Board : b.notice = n
      BY <1>1, <2>2, <3>1, OnBoard
    <3>3. Shown(new) = [notice |-> n, url |-> None, origin |-> "match"]
      BY DEF Shown
    <3>4. Board' = Board \cup {Shown(new)}
      <4> HIDE DEF new
      <4> QED
        BY <3>1 DEF Board, Shown
    <3> QED
      BY <3>2, <3>3, <3>4
  <2> QED
    BY <2>1, <2>2
<1>4. Contract!Pursue(n)
  BY <1>1, <1>2, <1>3 DEF Contract!Pursue, Board
<1> QED
  BY <1>1, <1>4

(* A match is made of a notice that still fits the watch profile.          *)
LEMMA ContractByScore ==
  ASSUME Shape, ReadsInv, NEW c \in Connection, MatchWrites(c)
  PROVE  (\E n \in Notice : Contract!Score(n)) \/ UNCHANGED Contract!vars
<1> DEFINE n == txn[c].notice
<1>1. /\ txn[c] \in Match /\ n \in Notice /\ n \in known
      /\ txn[c].fits => Fits(n)
  BY Kinds DEF MatchWrites, Shape, Match, ReadsInv, ReadHolds
<1>2. /\ state' = Rescored(n, txn[c].fits)
      /\ UNCHANGED <<known, reason, profile, families, watches, tenders>>
  BY DEF MatchWrites, setup
<1>3. CASE txn[c].fits /\ state[n] = "none"
  <2>1. state' = [state EXCEPT ![n] = "new"]
    BY <1>2, <1>3 DEF Rescored
  <2>2. Board' = Board
    BY <1>2 DEF Board, Shown
  <2>3. Contract!Score(n)
    BY <1>1, <1>2, <1>3, <2>1, <2>2 DEF Contract!Score, Fits, Board
  <2> QED
    BY <1>1, <2>3
<1>4. CASE ~(txn[c].fits /\ state[n] = "none")
  <2>1. state' = state
    BY <1>2, <1>4 DEF Rescored, Shape
  <2> QED
    BY <1>2, <2>1 DEF Contract!vars, Shown
<1> QED
  BY <1>3, <1>4

(* A save makes the watch profile if there is none when it commits.        *)
LEMMA ContractBySave ==
  ASSUME Shape, WatchInv, ReadsInv, NEW c \in Connection, SaveCommits(c)
  PROVE  \E given \in BOOLEAN, F \in SUBSET Family : Contract!Save(given, F)
<1> DEFINE g == txn[c].given
           G == txn[c].families
<1>1. /\ txn[c] \in Save /\ g \in BOOLEAN /\ G \in SUBSET Family
      /\ watches \in Seq(SUBSET Family) /\ (g \/ G = {}) /\ txn[c].count = Len(watches)
  BY Kinds DEF SaveCommits, Shape, Save, WatchInv, SavesApart, Saving
<1>2. /\ UNCHANGED <<known, state, reason, tenders>> /\ profile' = TRUE
      /\ watches' = IF txn[c].count = 0 /\ G # {} THEN Append(watches, G) ELSE watches
      /\ families' = IF g THEN G ELSE families
  BY DEF SaveCommits, matches
<1> HIDE DEF g, G
<1>3. watches' = IF watches = << >> /\ G # {} THEN <<G>> ELSE watches
  <2>1. CASE watches = << >>
    <3>1. Append(<< >>, G) = <<G>> /\ Len(watches) = 0
      BY <1>1, <2>1
    <3> QED
      BY <1>1, <1>2, <2>1, <3>1
  <2>2. CASE watches # << >>
    <3>1. Len(watches) # 0
      BY <1>1, <2>2
    <3> QED
      BY <1>1, <1>2, <2>2, <3>1
  <2> QED
    BY <2>1, <2>2
<1>4. Board' = Board
  BY <1>2 DEF Board, Shown
<1>5. PICK a \in BOOLEAN, A \in SUBSET Family : a = g /\ A = G
  BY <1>1
<1>6. Contract!Save(a, A)
  BY <1>1, <1>2, <1>3, <1>4, <1>5 DEF Contract!Save, Board
<1> QED
  BY <1>6

(* The tenders of a mail are those of the links that have none when it     *)
(* commits: no other transaction has opened one meanwhile.                 *)
LEMMA ContractByMail ==
  ASSUME Shape, OpenedOnce, ComeTo, ReadsInv, NEW c \in Connection, MailCommits(c),
         overlapped' = {}
  PROVE  \E m \in Message : Contract!Mail(m)
<1> DEFINE O == txn[c].opened
           m == txn[c].job.message
           moved(t) == [t EXCEPT !.id = @ + ids]
           missing == {u \in Due(m) : \A b \in Board : b.url # u}
           recognised == {u \in missing : \E t \in O : t.url = u /\ t.notice # None}
           tender(u) == [notice |-> IF u \in recognised THEN Names[u] ELSE None, url |-> u,
                         origin |-> "email"]
<1>1. /\ txn[c] \in Mail /\ txn[c].kind = "mail" /\ txn[c].todo = {}
      /\ O \subseteq Opened /\ m \in Message
  BY Kinds DEF MailCommits, Shape, Mail, MailJob
<1>2. /\ UNCHANGED <<known, state, reason, profile, families, watches>>
      /\ tenders' = tenders \cup {moved(t) : t \in O}
      /\ \A t \in O : ~OpenForLink(tenders, t.url)
  <2>1. tenders' = tenders \cup {moved(t) : t \in O}
    BY DEF MailCommits
  <2>2. {t.url : t \in {s \in O : OpenForLink(tenders, s.url)}} = {}
    BY DEF MailCommits
  <2> QED
    BY <2>1, <2>2 DEF MailCommits, matches, setup
<1>3. \A t \in O : /\ t.url \in Due(m) /\ t.origin = "email"
                   /\ t.notice # None => t.notice = Names[t.url] /\ t.notice \in known
                   /\ \A s \in O : t.url = s.url => t = s
  BY <1>1 DEF ReadsInv, ReadHolds, OpenedOnce
<1>4. \A t \in O : t.url \in missing
  BY <1>2, <1>3, OnBoard DEF OpenForLink
<1>5. ASSUME NEW u \in missing
      PROVE  \E t \in O : t.url = u
  <2>1. Resolves(m) /\ \E i \in Links(m) : u = Body(m)[i]
    BY DEF Due
  <2>2. \E t \in tenders \cup O : t.url = u
    BY <1>1, <2>1 DEF ComeTo
  <2>3. \A t \in tenders : t.url # u
    BY OnBoard
  <2> QED
    BY <2>2, <2>3
<1>6. \A t \in O : Shown(moved(t)) = tender(t.url)
  <2> SUFFICES ASSUME NEW t \in O
               PROVE  Shown(moved(t)) = tender(t.url)
    OBVIOUS
  <2>1. Shown(moved(t)) = [notice |-> t.notice, url |-> t.url, origin |-> t.origin]
    BY <1>1 DEF Shown, Opened
  <2>2. t.url \in recognised <=> t.notice # None
    BY <1>3, <1>4
  <2> HIDE DEF recognised, moved
  <2> QED
    BY <1>3, <2>1, <2>2
<1>7. Board' = Board \cup {tender(u) : u \in missing}
  <2>1. Board' = Board \cup {Shown(moved(t)) : t \in O}
    <3> HIDE DEF moved, O
    <3> QED
      BY <1>2 DEF Board, Shown
  <2>2. {Shown(moved(t)) : t \in O} = {tender(u) : u \in missing}
    <3> HIDE DEF moved, O, tender, missing
    <3> QED
      BY <1>4, <1>5, <1>6
  <2> QED
    BY <2>1, <2>2
<1>8. recognised \in SUBSET {u \in missing : Names[u] \in known}
  BY <1>3
<1> HIDE DEF recognised
<1>9. Contract!Mail(m)
  BY <1>1, <1>2, <1>7, <1>8 DEF Contract!Mail, Board, Due
<1> QED
  BY <1>1, <1>9

(* What the abstract workspace sees of a step that leaves these alone.     *)
LEMMA ContractStutters ==
  ASSUME UNCHANGED <<known, state, reason, profile, families, watches, tenders>>
  PROVE  UNCHANGED Contract!vars
BY DEF Contract!vars, Shown

LEMMA ContractStep ==
  Shape /\ LookedAt /\ OpenedOnce /\ ComeTo /\ WatchInv /\ ReadsInv
    /\ [Next]_vars /\ overlapped' = {} => [Contract!Next]_(Contract!vars)
<1> SUFFICES ASSUME Shape, LookedAt, OpenedOnce, ComeTo, WatchInv, ReadsInv,
                    [Next]_vars, overlapped' = {}
             PROVE  Contract!Next \/ UNCHANGED Contract!vars
  OBVIOUS
<1>1. CASE UNCHANGED vars
  BY <1>1, ContractStutters DEF vars, matches, setup
<1>2. CASE Bootstrap
  <2>1. Board' = Board
    BY <1>2 DEF Bootstrap, Board, Shown
  <2>2. Contract!Bootstrap
    BY <1>2, <2>1 DEF Bootstrap, Contract!Bootstrap, Board, matches
  <2> QED
    BY <2>2 DEF Contract!Next
<1>3. ASSUME NEW n \in Notice, Ingest(n)
      PROVE  Contract!Next
  <2>1. Board' = Board
    BY <1>3 DEF Ingest, Board, Shown, setup
  <2>2. Contract!Ingest(n)
    BY <1>3, <2>1 DEF Ingest, Contract!Ingest, Board, matches, setup
  <2> QED
    BY <2>2 DEF Contract!Next
<1>4. ASSUME NEW n \in Notice, Shortlist(n) \/ Dismiss(n)
      PROVE  Contract!Next
  <2>1. Board' = Board
    BY <1>4 DEF Shortlist, Dismiss, Transition, Board, Shown, setup
  <2>2. ASSUME NEW s, NEW r, Transition(n, s, r)
        PROVE  Contract!Decide(n, s, r)
    BY <2>1, <2>2 DEF Transition, Contract!Decide, Board, setup
  <2>3. CASE Shortlist(n)
    BY <2>2, <2>3 DEF Shortlist, Contract!Next
  <2>4. CASE Dismiss(n)
    BY <2>2, <2>4 DEF Dismiss, Contract!Next
  <2> QED
    BY <1>4, <2>3, <2>4
<1>5. ASSUME NEW m \in Message, Receive(m)
      PROVE  UNCHANGED Contract!vars
  BY <1>5, ContractStutters DEF Receive, matches, setup
<1>6. ASSUME NEW c \in Connection, NEW n \in Notice, MatchReads(c, n) \/ PursueReads(c, n)
      PROVE  UNCHANGED Contract!vars
  BY <1>6, ContractStutters DEF MatchReads, PursueReads, matches, setup
<1>7. ASSUME NEW c \in Connection, NEW given \in BOOLEAN, NEW F \in SUBSET Family,
             SaveUpserts(c, given, F)
      PROVE  UNCHANGED Contract!vars
  BY <1>7, ContractStutters DEF SaveUpserts, matches, setup
<1>8. ASSUME NEW c \in Connection, NEW j \in MailJob, MailBegins(c, j)
      PROVE  UNCHANGED Contract!vars
  BY <1>8, ContractStutters DEF MailBegins, matches, setup
<1>9. ASSUME NEW c \in Connection, SaveCounts(c) \/ MailOpens(c) \/ RollsBack(c)
      PROVE  UNCHANGED Contract!vars
  BY <1>9, ContractStutters DEF SaveCounts, MailOpens, RollsBack, matches, setup
<1>10. ASSUME NEW c \in Connection, PursueWrites(c), overlapped' = {}
       PROVE  Contract!Next
  BY <1>10, ContractByPursuit DEF Contract!Next
<1>11. ASSUME NEW c \in Connection, MatchWrites(c)
       PROVE  Contract!Next \/ UNCHANGED Contract!vars
  BY <1>11, ContractByScore DEF Contract!Next
<1>12. ASSUME NEW c \in Connection, SaveCommits(c)
       PROVE  Contract!Next
  BY <1>12, ContractBySave DEF Contract!Next
<1>13. ASSUME NEW c \in Connection, MailCommits(c), overlapped' = {}
       PROVE  Contract!Next
  BY <1>13, ContractByMail DEF Contract!Next
<1> QED
  BY <1>1, <1>2, <1>3, <1>4, <1>5, <1>6, <1>7, <1>8, <1>9, <1>10, <1>11, <1>12, <1>13 DEF Next

(* Whatever commits between their statements, requests, scorings and mails *)
(* that do not open a tender of the same thing at once take effect one     *)
(* after the other, each at its last statement (TakesEffectAtOnce).        *)
THEOREM TakesEffectAtOnceHolds == Spec => TakesEffectAtOnce
<1>1. Init => Contract!Init
  BY DEF Init, Contract!Init
<1>2. Init => CoverInv
  BY CoverInit
<1>3. PursuitInv => LookedAt
  BY DEF PursuitInv
<1>4. LinkInv => OpenedOnce
  BY DEF LinkInv
<1>5. CoverInv => ComeTo
  BY DEF CoverInv
<1>6. Shape /\ LookedAt /\ OpenedOnce /\ ComeTo /\ WatchInv /\ ReadsInv /\ [Next]_vars
        => [overlapped' = {} => [Contract!Next]_(Contract!vars)]_vars
  BY ContractStep
<1> QED
  BY <1>1, <1>2, <1>3, <1>4, <1>5, <1>6, ShapeHolds, TendersInit, TendersStep, CoverStep,
     WatchInit, WatchStep, ReadsInit, ReadsStep, PTL DEF Spec, TakesEffectAtOnce

(* The workspace as it is used most: no two transactions open a tender of  *)
(* the same notice or link at once.  Everything else interleaves.          *)
SerialSpec == Init /\ [][Next /\ overlapped' = {}]_vars

LEMMA SerialIsSpec == SerialSpec => Spec
<1>1. [Next /\ overlapped' = {}]_vars => [Next]_vars
  OBVIOUS
<1> QED
  BY <1>1, PTL DEF SerialSpec, Spec

LEMMA NothingOverlaps == SerialSpec => [](overlapped = {})
<1>1. Init => overlapped = {}
  BY DEF Init
<1>2. overlapped = {} /\ [Next /\ overlapped' = {}]_vars => (overlapped = {})'
  BY DEF vars
<1> QED
  BY <1>1, <1>2, PTL DEF SerialSpec

(* It implements WorkspaceContract.                                        *)
THEOREM ImplementsContract == SerialSpec => Contract!Spec
<1>1. [Next]_vars /\ [overlapped' = {} => [Contract!Next]_(Contract!vars)]_vars
        /\ (overlapped = {})' => [Contract!Next]_(Contract!vars)
  <2> SUFFICES ASSUME UNCHANGED vars
               PROVE  UNCHANGED Contract!vars
    OBVIOUS
  <2> QED
    BY ContractStutters DEF vars, matches, setup
<1> QED
  BY <1>1, SerialIsSpec, NothingOverlaps, TakesEffectAtOnceHolds,
     PTL DEF SerialSpec, Spec, TakesEffectAtOnce, Contract!Spec

(* A tender has its link, or the notice of the pursuit that opened it.     *)
Origins ==
  \A t \in tenders : t.url # None \/ (t.origin = "match" /\ t.notice # None)

LEMMA OriginsStep == Shape /\ Origins /\ [Next]_vars => Origins'
<1> SUFFICES ASSUME Shape, Origins, [Next]_vars
             PROVE  Origins'
  OBVIOUS
<1>1. CASE UNCHANGED tenders
  BY <1>1 DEF Origins
<1>2. ASSUME NEW c \in Connection, PursueWrites(c)
      PROVE  Origins'
  <2> DEFINE new == [id |-> ids, notice |-> txn[c].notice, url |-> None, origin |-> "match"]
  <2>1. txn[c].notice # None
    BY <1>2, Kinds, Constants DEF PursueWrites, Shape, Pursue
  <2>2. new.origin = "match" /\ new.notice # None
    BY <2>1
  <2> HIDE DEF new
  <2>3. tenders' = tenders \/ tenders' = tenders \cup {new}
    BY <1>2 DEF PursueWrites, new
  <2> QED
    BY <2>2, <2>3 DEF Origins
<1>3. ASSUME NEW c \in Connection, MailCommits(c)
      PROVE  Origins'
  <2> DEFINE O == txn[c].opened
             moved(t) == [t EXCEPT !.id = @ + ids]
  <2>1. tenders' = tenders \cup {moved(t) : t \in O}
    BY <1>3 DEF MailCommits
  <2>2. O \subseteq Opened
    BY <1>3, ShapeOfCommitted DEF Mail
  <2>3. \A t \in O : moved(t).url # None
    BY <2>2, Constants DEF Opened
  <2> HIDE DEF moved, O
  <2> QED
    BY <2>1, <2>3 DEF Origins
<1>4. ASSUME NEW c \in Connection,
             MatchWrites(c) \/ SaveCounts(c) \/ SaveCommits(c) \/ MailOpens(c) \/ RollsBack(c)
      PROVE  UNCHANGED tenders
  BY <1>4 DEF MatchWrites, SaveCounts, SaveCommits, MailOpens, RollsBack
<1>5. ASSUME NEW c \in Connection, NEW n \in Notice, MatchReads(c, n) \/ PursueReads(c, n)
      PROVE  UNCHANGED tenders
  BY <1>5 DEF MatchReads, PursueReads
<1>6. ASSUME NEW c \in Connection, NEW given \in BOOLEAN, NEW F \in SUBSET Family,
             SaveUpserts(c, given, F)
      PROVE  UNCHANGED tenders
  BY <1>6 DEF SaveUpserts
<1>7. ASSUME NEW c \in Connection, NEW j \in MailJob, MailBegins(c, j)
      PROVE  UNCHANGED tenders
  BY <1>7 DEF MailBegins
<1>8. ASSUME NEW n \in Notice, Ingest(n) \/ Shortlist(n) \/ Dismiss(n)
      PROVE  UNCHANGED tenders
  BY <1>8 DEF Ingest, Shortlist, Dismiss, Transition
<1>9. ASSUME NEW m \in Message, Receive(m)
      PROVE  UNCHANGED tenders
  BY <1>9 DEF Receive
<1>10. CASE Bootstrap \/ UNCHANGED vars
  BY <1>1, <1>10 DEF Bootstrap, vars
<1> QED
  BY <1>1, <1>2, <1>3, <1>4, <1>5, <1>6, <1>7, <1>8, <1>9, <1>10 DEF Next

(* The contract's tenders, which have no numbers, hide nothing then: those *)
(* that look alike are one.                                                *)
NoTwins == \A t, u \in tenders : Shown(t) = Shown(u) => t = u

THEOREM BoardShowsAll == SerialSpec => []NoTwins
<1>1. Init => Origins
  BY DEF Init, Origins
<1>2. Shape /\ Numbered /\ Origins /\ PursuitInv /\ LinkInv /\ overlapped = {} => NoTwins
  <2> SUFFICES ASSUME Shape, Numbered, Origins, PursuitReuses, OneTenderPerLink, overlapped = {},
                      NEW t \in tenders, NEW u \in tenders, Shown(t) = Shown(u)
               PROVE  t = u
    BY DEF NoTwins, PursuitInv, LinkInv
  <2>1. t.notice = u.notice /\ t.url = u.url /\ t.origin = u.origin
    BY DEF Shown
  <2>2. CASE t.url # None
    BY <2>1, <2>2 DEF OneTenderPerLink
  <2>3. CASE t.url = None
    <3>1. t.notice # None /\ t.origin = "match"
      BY <2>3 DEF Origins
    <3>2. ~(t.id < u.id) /\ ~(u.id < t.id)
      BY <2>1, <3>1 DEF PursuitReuses
    <3>3. t.id \in Nat /\ u.id \in Nat
      BY DEF Shape, Tender
    <3>4. t.id = u.id
      BY <3>2, <3>3
    <3> QED
      BY <3>4 DEF Numbered
  <2> QED
    BY <2>2, <2>3
<1> QED
  BY <1>1, <1>2, SerialIsSpec, NothingOverlaps, ShapeHolds, TendersInit, TendersStep,
     OriginsStep, PTL DEF Spec
=============================================================================
