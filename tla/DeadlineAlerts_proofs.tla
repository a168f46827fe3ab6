------------------------ MODULE DeadlineAlerts_proofs ------------------------
(***************************************************************************)
(* Proofs about DeadlineAlerts, for any tenders, sweepers, senders,        *)
(* offsets and bounds.                                                     *)
(***************************************************************************)
EXTENDS DeadlineAlerts, FiniteSetTheorems, WellFoundedInduction, TLAPS

LEMMA OffsetCount == Cardinality(Offset) \in Nat
BY AlertsAssumption, FS_CardinalityType

LEMMA Constants ==
  /\ Offset \subseteq Nat \ {0} /\ Critical \in Offset /\ NoSource \notin Sweeper
  /\ Horizon \in Nat /\ MaxAmends \in Nat /\ MaxAborts \in Nat /\ MaxOutages \in Nat
BY AlertsAssumption

-----------------------------------------------------------------------------
(* The three parts of the type: the calendar, the sweeps, the deliveries.  *)
CalendarType ==
  /\ noticeLeft \in [Tender -> 0..Horizon]
  /\ left \in [Tender -> {Unpursued} \cup 0..Horizon]
  /\ age \in [Alert -> 0..(EscalateAfter + 1)]
  /\ sweeps \in [Tender -> 0..Cardinality(Offset)]
  /\ counts \in [Sweeper -> SUBSET Tender]
  /\ amends \in 0..MaxAmends /\ aborts \in 0..MaxAborts /\ outages \in 0..MaxOutages

SweepType ==
  /\ rows \subseteq Alert
  /\ sweep \in [Sweeper -> {"closed", "inserting", "escalating"}]
  /\ due \in [Sweeper -> SUBSET Alert] /\ stale \in [Sweeper -> SUBSET Alert]
  /\ raced \subseteq Topics(Alert)

SendType ==
  /\ sent \subseteq rows
  /\ sending \in [Sender -> BOOLEAN]
  /\ todo \in [Sender -> SUBSET rows] /\ marked \in [Sender -> SUBSET rows]
  /\ smtp \in {"up", "down"}
  /\ copies \in [Alert -> Nat] /\ unmarked \in [Alert -> Nat]
  /\ together \subseteq rows

LEMMA TypeParts == TypeOK <=> CalendarType /\ SweepType /\ SendType
BY DEF TypeOK, CalendarType, SweepType, SendType

LEMMA CalendarStep == CalendarType /\ [Next]_vars => CalendarType'
<1> SUFFICES ASSUME CalendarType, [Next]_vars
             PROVE  CalendarType'
  OBVIOUS
<1> USE OffsetCount, Constants DEF CalendarType
<1>1. ASSUME NEW t \in Tender, Pursue(t)
      PROVE  CalendarType'
  BY <1>1 DEF Pursue, Restart, bounds
<1>2. ASSUME NEW t \in Tender, NEW d \in 1..Horizon, Amend(t, d)
      PROVE  CalendarType'
  BY <1>2 DEF Amend, Restart
<1>3. ASSUME NEW w \in Sweeper, SweepReads(w)
      PROVE  CalendarType'
  BY <1>3 DEF SweepReads, bounds
<1>4. ASSUME NEW w \in Sweeper, SweepInserts(w)
      PROVE  CalendarType'
  BY <1>4 DEF SweepInserts, bounds
<1>5. ASSUME NEW w \in Sweeper, SweepCommits(w)
      PROVE  CalendarType'
  BY <1>5 DEF SweepCommits, bounds
<1>6. ASSUME NEW w \in Sweeper, SweepRollsBack(w)
      PROVE  CalendarType'
  BY <1>6 DEF SweepRollsBack
<1>7. ASSUME NEW s \in Sender, SendReads(s)
      PROVE  CalendarType'
  BY <1>7 DEF SendReads, bounds
<1>8. ASSUME NEW s \in Sender, NEW r \in Alert, Deliver(s, r)
      PROVE  CalendarType'
  BY <1>8 DEF Deliver, bounds
<1>9. ASSUME NEW s \in Sender, SendCommits(s)
      PROVE  CalendarType'
  BY <1>9 DEF SendCommits, bounds, EscalateAfter
<1>10. ASSUME NEW s \in Sender, SendRollsBack(s)
       PROVE  CalendarType'
  BY <1>10 DEF SendRollsBack
<1>11. CASE Outage
  BY <1>11 DEF Outage
<1>12. CASE DayPasses
  <2>1. noticeLeft' \in [Tender -> 0..Horizon] /\ left' \in [Tender -> {Unpursued} \cup 0..Horizon]
    BY <1>12 DEF DayPasses, Sooner, Unpursued
  <2>2. age' \in [Alert -> 0..(EscalateAfter + 1)]
    BY <1>12 DEF DayPasses, EscalateAfter
  <2>3. QED
    BY <1>12, <2>1, <2>2 DEF DayPasses, Restart, bounds
<1>13. CASE UNCHANGED vars
  BY <1>13 DEF vars, bounds
<1>14. QED
  BY <1>1, <1>2, <1>3, <1>4, <1>5, <1>6, <1>7, <1>8, <1>9, <1>10, <1>11, <1>12, <1>13
  DEF Next, Sweep, Send

(* What a sweep sets out to insert are alerts.                             *)
LEMMA DueType ==
  ASSUME NEW w \in Sweeper, NEW t \in Tender, NEW o \in Offset
  PROVE  [tender |-> t, kind |-> o, by |-> w, about |-> NoSource] \in Alert
BY DEF Alert

LEMMA StaleType ==
  ASSUME SweepType, SendType, NEW w \in Sweeper, NEW r \in StaleAlerts
  PROVE  /\ r \in rows /\ r \in sent /\ r.kind = Critical /\ r.tender \in Tender
         /\ r.by \in Sweeper /\ ~Raised(r.tender, Escalation)
         /\ r = [tender |-> r.tender, kind |-> Critical, by |-> r.by, about |-> NoSource]
         /\ [tender |-> r.tender, kind |-> Escalation, by |-> w, about |-> r.by] \in Alert
BY Constants DEF SweepType, SendType, StaleAlerts, Alert, Escalation

LEMMA SweepStep == SweepType /\ SendType /\ [Next]_vars => SweepType'
<1> SUFFICES ASSUME SweepType, SendType, [Next]_vars
             PROVE  SweepType'
  OBVIOUS
<1>1. ASSUME NEW w \in Sweeper, SweepReads(w)
      PROVE  SweepType'
  <2> DEFINE D == UNION {{[tender |-> t, kind |-> o, by |-> w, about |-> NoSource] :
                            o \in NextOffset(t)} : t \in {u \in Tender : left[u] > 0}}
  <2>1. D \subseteq Alert
    BY DueType DEF NextOffset
  <2>2. due' = [due EXCEPT ![w] = D]
    BY <1>1 DEF SweepReads
  <2>3. due' \in [Sweeper -> SUBSET Alert]
    BY <2>1, <2>2 DEF SweepType
  <2>4. QED
    BY <1>1, <2>3 DEF SweepReads, SweepType
<1>2. ASSUME NEW w \in Sweeper, SweepInserts(w)
      PROVE  SweepType'
  <2> DEFINE S == {[tender |-> r.tender, kind |-> Escalation, by |-> w, about |-> r.by] :
                     r \in StaleAlerts}
  <2>1. S \subseteq Alert
    BY StaleType
  <2>2. stale' = [stale EXCEPT ![w] = S]
    BY <1>2 DEF SweepInserts
  <2>3. stale' \in [Sweeper -> SUBSET Alert]
    BY <2>1, <2>2 DEF SweepType
  <2>4. QED
    BY <1>2, <2>3 DEF SweepInserts, SweepType
<1>3. ASSUME NEW w \in Sweeper, SweepCommits(w)
      PROVE  SweepType'
  <2>1. Inserts(w) \subseteq Alert
    BY DEF Inserts, SweepType
  <2>2. UNION {Topics(Inserts(w)) \cap Topics(Inserts(v)) : v \in Sweeper \ {w}}
          \subseteq Topics(Alert)
    BY <2>1 DEF Topics
  <2>3. QED
    BY <1>3, <2>1, <2>2 DEF SweepCommits, Closed, SweepType
<1>4. ASSUME NEW w \in Sweeper, SweepRollsBack(w)
      PROVE  SweepType'
  BY <1>4 DEF SweepRollsBack, Closed, SweepType
<1>5. CASE UNCHANGED <<rows, sweepVars, raced>>
  BY <1>5 DEF SweepType, sweepVars
<1>6. QED
  BY <1>1, <1>2, <1>3, <1>4, <1>5
  DEF Next, Sweep, Send, Pursue, Amend, SendReads, Deliver, SendCommits, SendRollsBack,
      Outage, DayPasses, vars, sweepVars

LEMMA SendStep == SweepType /\ SendType /\ [Next]_vars => SendType'
<1> SUFFICES ASSUME SweepType, SendType, [Next]_vars
             PROVE  SendType'
  OBVIOUS
<1>1. ASSUME NEW s \in Sender, SendReads(s)
      PROVE  SendType'
  BY <1>1 DEF SendReads, Pending, Reading, SendType
<1>2. ASSUME NEW s \in Sender, NEW r \in Alert, Deliver(s, r)
      PROVE  SendType'
  <2>1. r \in rows
    BY <1>2 DEF Deliver, Earliest, SendType
  <2>2. todo' \in [Sender -> SUBSET rows] /\ marked' \in [Sender -> SUBSET rows]
    BY <1>2, <2>1 DEF Deliver, SendType
  <2>3. copies' \in [Alert -> Nat]
    BY <1>2 DEF Deliver, SendType
  <2>4. QED
    BY <1>2, <2>2, <2>3 DEF Deliver, SendType
<1>3. ASSUME NEW s \in Sender, SendCommits(s)
      PROVE  SendType'
  BY <1>3 DEF SendCommits, Ended, ledger, SendType
<1>4. ASSUME NEW s \in Sender, SendRollsBack(s)
      PROVE  SendType'
  BY <1>4 DEF SendRollsBack, Ended, SendType
<1>5. ASSUME NEW w \in Sweeper, SweepCommits(w)
      PROVE  SendType'
  <2>1. rows \subseteq rows'
    BY <1>5 DEF SweepCommits
  <2>2. QED
    BY <1>5, <2>1 DEF SweepCommits, sendVars, ledger, SendType
<1>6. CASE Outage
  BY <1>6 DEF Outage, sendVars, ledger, SendType
<1>7. CASE UNCHANGED <<rows, sent, sendVars, smtp, ledger>>
  BY <1>7 DEF SendType, sendVars, ledger
<1>8. QED
  BY <1>1, <1>2, <1>3, <1>4, <1>5, <1>6, <1>7
  DEF Next, Sweep, Send, Pursue, Amend, SweepReads, SweepInserts, SweepRollsBack,
      DayPasses, vars

LEMMA InitTyped == Init => CalendarType /\ SweepType /\ SendType
<1> SUFFICES ASSUME Init
             PROVE  CalendarType /\ SweepType /\ SendType
  OBVIOUS
<1>1. CalendarType
  BY OffsetCount, Constants DEF Init, CalendarType, EscalateAfter
<1>2. SweepType
  BY DEF Init, SweepType
<1>3. SendType
  BY DEF Init, SendType
<1>4. QED
  BY <1>1, <1>2, <1>3

(* Every variable keeps its type (alerts.py, notify.py).                   *)
THEOREM AlertsTyped == Spec => []TypeOK
<1> DEFINE Typed == CalendarType /\ SweepType /\ SendType
<1>1. Init => Typed
  BY InitTyped
<1>2. Typed /\ [Next]_vars => Typed'
  BY CalendarStep, SweepStep, SendStep
<1>3. Typed => TypeOK
  BY TypeParts
<1>4. QED
  BY <1>1, <1>2, <1>3, PTL DEF Spec

-----------------------------------------------------------------------------
(* RaisedOnceUnlessRaced is not inductive: it says nothing of the rows that *)
(* open sweeps are about to commit.  RaiseInv does: they are alerts of the *)
(* sweep's own, and a second row on a topic, committed or on its way, is   *)
(* excused by a race.                                                      *)
Excused(t, k) == <<t, k>> \in raced \/ (k = Escalation /\ <<t, Critical>> \in raced)

OwnAlerts ==
  \A w \in Sweeper :
    /\ \A r \in due[w] : r.kind \in Offset /\ r.by = w
    /\ \A r \in stale[w] : r.kind = Escalation

RowsExcused ==
  \A q, r \in rows :
    q # r /\ q.tender = r.tender /\ q.kind = r.kind => Excused(r.tender, r.kind)

InsertsExcused ==
  \A w \in Sweeper : \A r \in Inserts(w), q \in rows :
    q.tender = r.tender /\ q.kind = r.kind => Excused(r.tender, r.kind)

TwinsExcused ==
  \A w \in Sweeper : \A q, r \in Inserts(w) :
    q # r /\ q.tender = r.tender /\ q.kind = r.kind => Excused(r.tender, r.kind)

RaiseInv == OwnAlerts /\ RowsExcused /\ InsertsExcused /\ TwinsExcused

LEMMA OffsetAlert ==
  ASSUME NEW r \in Alert, r.kind \in Offset
  PROVE  /\ r = [tender |-> r.tender, kind |-> r.kind, by |-> r.by, about |-> NoSource]
         /\ r.kind # Escalation
BY Constants DEF Alert, Escalation

(* An excuse holds for good.                                               *)
LEMMA ExcuseStays ==
  ASSUME NEW t, NEW k, raced \subseteq raced'
  PROVE  Excused(t, k) => Excused(t, k)'
BY DEF Excused

(* SweepReads: what is found due has not been raised.                      *)
LEMMA ReadsExcused ==
  ASSUME RaiseInv, SweepType, NEW w \in Sweeper, SweepReads(w)
  PROVE  RaiseInv'
<1> DEFINE D == UNION {{[tender |-> t, kind |-> o, by |-> w, about |-> NoSource] :
                          o \in NextOffset(t)} : t \in {u \in Tender : left[u] > 0}}
<1>1. /\ due' = [due EXCEPT ![w] = D]
      /\ UNCHANGED <<rows, stale, raced>>
  BY DEF SweepReads
<1>2. \A r \in D : /\ r.kind \in Offset /\ r.by = w /\ r \in Alert
                   /\ ~Raised(r.tender, r.kind)
  BY DueType DEF NextOffset
<1>3. \A t, k : Excused(t, k)' <=> Excused(t, k)
  BY <1>1 DEF Excused
<1>4. \A v \in Sweeper : Inserts(v)' = IF v = w THEN D \cup stale[w] ELSE Inserts(v)
  BY <1>1 DEF Inserts, SweepType
<1>5. OwnAlerts'
  BY <1>1, <1>2 DEF OwnAlerts, SweepType, RaiseInv
<1>6. RowsExcused'
  BY <1>1, <1>3 DEF RowsExcused, RaiseInv
<1>7. InsertsExcused'
  <2>1. \A r \in D, q \in rows : ~(q.tender = r.tender /\ q.kind = r.kind)
    BY <1>2 DEF Raised
  <2>2. \A r \in stale[w] : r \in Inserts(w)
    BY DEF Inserts
  <2>3. QED
    BY <1>1, <1>3, <1>4, <2>1, <2>2 DEF InsertsExcused, RaiseInv
<1>8. TwinsExcused'
  <2>1. ASSUME NEW q \in D, NEW r \in D, q.tender = r.tender, q.kind = r.kind
        PROVE  q = r
    BY <1>2, <2>1, OffsetAlert
  <2>2. ASSUME NEW q \in D, NEW r \in stale[w]
        PROVE  q.kind # r.kind
    BY <1>2, OffsetAlert DEF OwnAlerts, RaiseInv
  <2>3. \A r \in stale[w] : r \in Inserts(w)
    BY DEF Inserts
  <2>4. QED
    BY <1>3, <1>4, <2>1, <2>2, <2>3 DEF TwinsExcused, RaiseInv
<1>9. QED
  BY <1>5, <1>6, <1>7, <1>8 DEF RaiseInv

(* SweepInserts: what is found stale has not been escalated, and two       *)
(* escalations of a tender are about two J-3 alerts, which were excused.   *)
LEMMA InsertsKeepExcused ==
  ASSUME RaiseInv, SweepType, SendType, NEW w \in Sweeper, SweepInserts(w)
  PROVE  RaiseInv'
<1> DEFINE S == {[tender |-> r.tender, kind |-> Escalation, by |-> w, about |-> r.by] :
                   r \in StaleAlerts}
<1>1. /\ stale' = [stale EXCEPT ![w] = S]
      /\ UNCHANGED <<rows, due, raced>>
  BY DEF SweepInserts
<1>2. \A e \in S : /\ e.kind = Escalation /\ e \in Alert
                   /\ ~Raised(e.tender, Escalation)
  BY StaleType
<1>3. \A t, k : Excused(t, k)' <=> Excused(t, k)
  BY <1>1 DEF Excused
<1>4. \A v \in Sweeper : Inserts(v)' = IF v = w THEN due[w] \cup S ELSE Inserts(v)
  BY <1>1 DEF Inserts, SweepType
<1>5. OwnAlerts'
  BY <1>1, <1>2 DEF OwnAlerts, SweepType, RaiseInv
<1>6. RowsExcused'
  BY <1>1, <1>3 DEF RowsExcused, RaiseInv
<1>7. \A r \in due[w] : r \in Inserts(w) /\ r.kind # Escalation
  BY OffsetAlert DEF Inserts, OwnAlerts, RaiseInv, SweepType
<1>8. InsertsExcused'
  <2>1. \A r \in S, q \in rows : ~(q.tender = r.tender /\ q.kind = r.kind)
    BY <1>2 DEF Raised
  <2>2. QED
    BY <1>1, <1>3, <1>4, <1>7, <2>1 DEF InsertsExcused, RaiseInv
<1>9. TwinsExcused'
  <2>1. ASSUME NEW d \in S, NEW e \in S, d # e, d.tender = e.tender
        PROVE  Excused(e.tender, Escalation)
    <3>1. PICK q \in StaleAlerts :
            d = [tender |-> q.tender, kind |-> Escalation, by |-> w, about |-> q.by]
      OBVIOUS
    <3>2. PICK r \in StaleAlerts :
            e = [tender |-> r.tender, kind |-> Escalation, by |-> w, about |-> r.by]
      OBVIOUS
    <3>3. q # r /\ q.tender = r.tender /\ e.tender = r.tender
      BY <2>1, <3>1, <3>2
    <3>4. /\ q \in rows /\ r \in rows
          /\ q.kind = Critical /\ r.kind = Critical
      BY StaleType
    <3>5. Excused(r.tender, Critical)
      BY <3>3, <3>4 DEF RowsExcused, RaiseInv
    <3>6. QED
      BY <3>3, <3>5, Constants DEF Excused, Escalation
  <2>2. QED
    BY <1>2, <1>3, <1>4, <1>7, <2>1 DEF TwinsExcused, RaiseInv
<1>10. QED
  BY <1>5, <1>6, <1>8, <1>9 DEF RaiseInv

(* SweepCommits: what another open sweep inserts too is now raced.         *)
LEMMA CommitsExcused ==
  ASSUME RaiseInv, SweepType, NEW w \in Sweeper, SweepCommits(w)
  PROVE  RaiseInv'
<1>1. /\ rows' = rows \cup Inserts(w)
      /\ raced \subseteq raced'
      /\ due' = [due EXCEPT ![w] = {}] /\ stale' = [stale EXCEPT ![w] = {}]
  BY DEF SweepCommits, Closed
<1>2. \A t, k : Excused(t, k) => Excused(t, k)'
  BY <1>1, ExcuseStays
<1>3. \A v \in Sweeper : Inserts(v)' = IF v = w THEN {} ELSE Inserts(v)
  BY <1>1 DEF Inserts, SweepType
<1>4. OwnAlerts'
  BY <1>1 DEF OwnAlerts, SweepType, RaiseInv
<1>5. RowsExcused'
  <2>1. ASSUME NEW q \in rows, NEW r \in Inserts(w), q.tender = r.tender, q.kind = r.kind
        PROVE  Excused(r.tender, r.kind)
    BY <2>1 DEF InsertsExcused, RaiseInv
  <2>2. ASSUME NEW q \in Inserts(w), NEW r \in Inserts(w), q # r,
               q.tender = r.tender, q.kind = r.kind
        PROVE  Excused(r.tender, r.kind)
    BY <2>2 DEF TwinsExcused, RaiseInv
  <2>3. ASSUME NEW q \in rows, NEW r \in rows, q # r, q.tender = r.tender, q.kind = r.kind
        PROVE  Excused(r.tender, r.kind)
    BY <2>3 DEF RowsExcused, RaiseInv
  <2>4. \A q, r \in rows \cup Inserts(w) :
          q # r /\ q.tender = r.tender /\ q.kind = r.kind => Excused(r.tender, r.kind)
    BY <2>1, <2>2, <2>3
  <2>5. QED
    BY <1>1, <1>2, <2>4 DEF RowsExcused
<1>6. InsertsExcused'
  <2>1. ASSUME NEW v \in Sweeper \ {w}, NEW r \in Inserts(v), NEW q \in Inserts(w),
               q.tender = r.tender, q.kind = r.kind
        PROVE  Excused(r.tender, r.kind)'
    <3>1. Topic(q) = Topic(r)
      BY <2>1 DEF Topic
    <3>2. Topic(r) \in Topics(Inserts(w)) \cap Topics(Inserts(v))
      BY <3>1 DEF Topics
    <3>3. Topic(r) \in raced'
      BY <3>2 DEF SweepCommits
    <3>4. QED
      BY <3>3 DEF Excused, Topic
  <2>2. ASSUME NEW v \in Sweeper, NEW r \in Inserts(v), NEW q \in rows,
               q.tender = r.tender, q.kind = r.kind
        PROVE  Excused(r.tender, r.kind)'
    BY <1>2, <2>2 DEF InsertsExcused, RaiseInv
  <2>3. QED
    BY <1>1, <1>3, <2>1, <2>2 DEF InsertsExcused
<1>7. TwinsExcused'
  BY <1>2, <1>3 DEF TwinsExcused, RaiseInv
<1>8. QED
  BY <1>4, <1>5, <1>6, <1>7 DEF RaiseInv

LEMMA RaiseStep == RaiseInv /\ SweepType /\ SendType /\ [Next]_vars => RaiseInv'
<1> SUFFICES ASSUME RaiseInv, SweepType, SendType, [Next]_vars
             PROVE  RaiseInv'
  OBVIOUS
<1>1. ASSUME NEW w \in Sweeper, SweepReads(w)
      PROVE  RaiseInv'
  BY <1>1, ReadsExcused
<1>2. ASSUME NEW w \in Sweeper, SweepInserts(w)
      PROVE  RaiseInv'
  BY <1>2, InsertsKeepExcused
<1>3. ASSUME NEW w \in Sweeper, SweepCommits(w)
      PROVE  RaiseInv'
  BY <1>3, CommitsExcused
<1>4. ASSUME NEW w \in Sweeper, SweepRollsBack(w)
      PROVE  RaiseInv'
  <2>1. /\ UNCHANGED <<rows, raced>>
        /\ due' = [due EXCEPT ![w] = {}] /\ stale' = [stale EXCEPT ![w] = {}]
    BY <1>4 DEF SweepRollsBack, Closed
  <2>2. \A v \in Sweeper : Inserts(v)' = IF v = w THEN {} ELSE Inserts(v)
    BY <2>1 DEF Inserts, SweepType
  <2>3. OwnAlerts'
    BY <2>1 DEF OwnAlerts, SweepType, RaiseInv
  <2>4. \A t, k : Excused(t, k)' <=> Excused(t, k)
    BY <2>1 DEF Excused
  <2>5. QED
    BY <2>1, <2>2, <2>3, <2>4 DEF RowsExcused, InsertsExcused, TwinsExcused, RaiseInv
<1>5. CASE UNCHANGED <<rows, sweepVars, raced>>
  <2>1. UNCHANGED <<rows, due, stale, raced>>
    BY <1>5 DEF sweepVars
  <2>2. /\ \A v \in Sweeper : Inserts(v)' = Inserts(v)
        /\ \A t, k : Excused(t, k)' <=> Excused(t, k)
    BY <2>1 DEF Inserts, Excused
  <2>3. QED
    BY <2>1, <2>2
    DEF OwnAlerts, RowsExcused, InsertsExcused, TwinsExcused, RaiseInv
<1>6. QED
  BY <1>1, <1>2, <1>3, <1>4, <1>5
  DEF Next, Sweep, Send, Pursue, Amend, SendReads, Deliver, SendCommits, SendRollsBack,
      Outage, DayPasses, vars, sweepVars

(* An alert has two rows only if two deadline sweeps were open at once     *)
(* (run_deadline_alerts, _escalate_for_org).                               *)
THEOREM RaisedOnceHolds == Spec => []RaisedOnceUnlessRaced
<1> DEFINE Inv == CalendarType /\ SweepType /\ SendType /\ RaiseInv
<1>1. Init => Inv
  BY InitTyped
  DEF Init, RaiseInv, OwnAlerts, RowsExcused, InsertsExcused, TwinsExcused, Inserts
<1>2. Inv /\ [Next]_vars => Inv'
  BY CalendarStep, SweepStep, SendStep, RaiseStep
<1>3. Inv => RaisedOnceUnlessRaced
  BY DEF RaiseInv, RowsExcused, RaisedOnceUnlessRaced, Excused, Topic
<1>4. QED
  BY <1>1, <1>2, <1>3, PTL DEF Spec

-----------------------------------------------------------------------------
(* MailedForCause counts what was mailed and says nothing of the open      *)
(* transactions that have mailed a row and not marked it for good.  MailInv *)
(* counts those rows as held too, and says that outside together no two    *)
(* transactions, open or committed, hold the same row.                     *)
Held(r) == r \in sent \/ \E s \in Sender : r \in marked[s]

OpenReads ==
  \A s \in Sender : /\ ~sending[s] => todo[s] = {} /\ marked[s] = {}
                    /\ todo[s] \cap marked[s] = {}

OneReader ==
  \A s \in Sender : \A r \in Reading(s) :
    /\ r \in sent => r \in together
    /\ \A v \in Sender \ {s} : r \in Reading(v) => r \in together

HeldMailed == \A r \in Alert : Held(r) => copies[r] > 0

CopiesAccount ==
  \A r \in Alert \ together :
    IF Held(r) THEN copies[r] <= unmarked[r] + 1 ELSE copies[r] <= unmarked[r]

MailInv == OpenReads /\ OneReader /\ HeldMailed /\ CopiesAccount

LEMMA ReadsMail ==
  ASSUME MailInv, SendType, NEW s \in Sender, SendReads(s)
  PROVE  MailInv'
<1>1. /\ todo' = [todo EXCEPT ![s] = rows \ sent]
      /\ sending' = [sending EXCEPT ![s] = TRUE]
      /\ UNCHANGED <<sent, marked, copies, unmarked>>
      /\ todo[s] = {} /\ marked[s] = {}
  BY DEF SendReads, Pending, MailInv, OpenReads
<1>2. /\ together \subseteq together'
      /\ \A r \in rows \ sent, v \in Sender \ {s} : r \in Reading(v) => r \in together'
  BY DEF SendReads, Pending
<1>3. \A v \in Sender : Reading(v)' = IF v = s THEN rows \ sent ELSE Reading(v)
  BY <1>1 DEF Reading, SendType
<1>4. OpenReads'
  BY <1>1 DEF OpenReads, MailInv, SendType
<1>5. OneReader'
  BY <1>1, <1>2, <1>3 DEF OneReader, MailInv
<1>6. \A r : Held(r)' <=> Held(r)
  BY <1>1 DEF Held
<1>7. HeldMailed' /\ CopiesAccount'
  BY <1>1, <1>2, <1>6 DEF HeldMailed, CopiesAccount, MailInv
<1>8. QED
  BY <1>4, <1>5, <1>7 DEF MailInv

(* Deliver: a row that is mailed outside together was not held before.     *)
LEMMA DeliverMail ==
  ASSUME MailInv, SendType, NEW s \in Sender, NEW r \in Alert, Deliver(s, r)
  PROVE  MailInv'
<1>1. /\ r \in todo[s]
      /\ todo' = [todo EXCEPT ![s] = @ \ {r}]
      /\ UNCHANGED <<sent, sending, unmarked, together>>
  BY DEF Deliver, Earliest
<1>2. CASE smtp = "up"
  <2>1. /\ copies' = [copies EXCEPT ![r] = @ + 1]
        /\ marked' = [marked EXCEPT ![s] = @ \cup {r}]
    BY <1>2 DEF Deliver
  <2>2. \A v \in Sender : Reading(v)' = Reading(v)
    BY <1>1, <2>1 DEF Reading, SendType
  <2>3. OpenReads'
    BY <1>1, <2>1 DEF OpenReads, MailInv, SendType
  <2>4. OneReader'
    BY <1>1, <2>2 DEF OneReader, MailInv
  <2>5. \A q \in Alert : Held(q)' <=> Held(q) \/ q = r
    BY <1>1, <2>1 DEF Held, SendType
  <2>6. \A q \in Alert : copies'[q] = IF q = r THEN copies[q] + 1 ELSE copies[q]
    BY <2>1 DEF SendType
  <2>7. HeldMailed'
    BY <2>5, <2>6 DEF HeldMailed, MailInv, SendType
  <2>8. ASSUME r \notin together
        PROVE  ~Held(r)
    <3>1. r \in Reading(s) /\ r \notin marked[s]
      BY <1>1 DEF Reading, OpenReads, MailInv
    <3>2. r \notin sent /\ \A v \in Sender \ {s} : r \notin Reading(v)
      BY <2>8, <3>1 DEF OneReader, MailInv
    <3>3. QED
      BY <3>1, <3>2 DEF Held, Reading
  <2>9. CopiesAccount'
    BY <1>1, <2>5, <2>6, <2>8 DEF CopiesAccount, MailInv, SendType
  <2>10. QED
    BY <2>3, <2>4, <2>7, <2>9 DEF MailInv
<1>3. CASE smtp = "down"
  <2>1. UNCHANGED <<copies, marked>>
    BY <1>3 DEF Deliver
  <2>2. \A v \in Sender : Reading(v)' \subseteq Reading(v)
    BY <1>1, <2>1 DEF Reading, SendType
  <2>3. OpenReads'
    BY <1>1, <2>1 DEF OpenReads, MailInv, SendType
  <2>4. OneReader'
    BY <1>1, <2>2 DEF OneReader, MailInv
  <2>5. \A q : Held(q)' <=> Held(q)
    BY <1>1, <2>1 DEF Held
  <2>6. HeldMailed' /\ CopiesAccount'
    BY <1>1, <2>1, <2>5 DEF HeldMailed, CopiesAccount, MailInv
  <2>7. QED
    BY <2>3, <2>4, <2>6 DEF MailInv
<1>4. QED
  BY <1>2, <1>3 DEF SendType

(* A transaction that ends reads and marks nothing any more.               *)
LEMMA EndedReads ==
  ASSUME MailInv, SendType, NEW s \in Sender, Ended(s)
  PROVE  /\ OpenReads'
         /\ \A v \in Sender : Reading(v)' = IF v = s THEN {} ELSE Reading(v)
         /\ \A v \in Sender : marked'[v] = IF v = s THEN {} ELSE marked[v]
BY DEF Ended, OpenReads, MailInv, SendType, Reading

LEMMA CommitsMail ==
  ASSUME MailInv, SendType, NEW s \in Sender, SendCommits(s)
  PROVE  MailInv'
<1>1. sent' = sent \cup marked[s] /\ UNCHANGED <<copies, unmarked, together>>
  BY DEF SendCommits, ledger
<1>2. /\ OpenReads'
      /\ \A v \in Sender : Reading(v)' = IF v = s THEN {} ELSE Reading(v)
      /\ \A v \in Sender : marked'[v] = IF v = s THEN {} ELSE marked[v]
  BY EndedReads DEF SendCommits
<1>3. OneReader'
  <2>1. \A r \in marked[s] : r \in Reading(s)
    BY DEF Reading
  <2>2. QED
    BY <1>1, <1>2, <2>1 DEF OneReader, MailInv
<1>4. \A r : Held(r)' <=> Held(r)
  BY <1>1, <1>2 DEF Held
<1>5. HeldMailed' /\ CopiesAccount'
  BY <1>1, <1>4 DEF HeldMailed, CopiesAccount, MailInv
<1>6. QED
  BY <1>2, <1>3, <1>5 DEF MailInv

(* SendRollsBack: a row is no longer held by s, and its mail is accounted  *)
(* for by the rollback.                                                    *)
LEMMA RollsBackMail ==
  ASSUME MailInv, SendType, NEW s \in Sender, SendRollsBack(s)
  PROVE  MailInv'
<1>1. UNCHANGED <<sent, copies, together>>
  BY DEF SendRollsBack
<1>2. /\ OpenReads'
      /\ \A v \in Sender : Reading(v)' = IF v = s THEN {} ELSE Reading(v)
      /\ \A v \in Sender : marked'[v] = IF v = s THEN {} ELSE marked[v]
  BY EndedReads DEF SendRollsBack
<1>3. OneReader'
  BY <1>1, <1>2 DEF OneReader, MailInv
<1>4. \A r \in Alert : /\ Held(r)' => Held(r)
                       /\ Held(r) => Held(r)' \/ r \in marked[s]
  BY <1>1, <1>2 DEF Held
<1>5. \A r \in Alert :
        unmarked'[r] = IF r \in marked[s] THEN unmarked[r] + 1 ELSE unmarked[r]
  BY DEF SendRollsBack
<1>6. HeldMailed'
  BY <1>1, <1>4 DEF HeldMailed, MailInv
<1>7. CopiesAccount'
  <2>1. SUFFICES ASSUME NEW r \in Alert \ together
                 PROVE  IF Held(r)' THEN copies[r] <= unmarked'[r] + 1
                        ELSE copies[r] <= unmarked'[r]
    BY <1>1 DEF CopiesAccount
  <2>2. copies[r] \in Nat /\ unmarked[r] \in Nat
    BY DEF SendType
  <2>3. IF Held(r) THEN copies[r] <= unmarked[r] + 1 ELSE copies[r] <= unmarked[r]
    BY DEF CopiesAccount, MailInv
  <2>4. CASE r \in marked[s]
    <3>1. Held(r)
      BY <2>4 DEF Held
    <3>2. QED
      BY <1>5, <2>2, <2>3, <2>4, <3>1
  <2>5. CASE r \notin marked[s]
    BY <1>4, <1>5, <2>3, <2>5
  <2>6. QED
    BY <2>4, <2>5
<1>8. QED
  BY <1>2, <1>3, <1>6, <1>7 DEF MailInv

LEMMA MailStep == MailInv /\ SendType /\ [Next]_vars => MailInv'
<1> SUFFICES ASSUME MailInv, SendType, [Next]_vars
             PROVE  MailInv'
  OBVIOUS
<1>1. ASSUME NEW s \in Sender, SendReads(s)
      PROVE  MailInv'
  BY <1>1, ReadsMail
<1>2. ASSUME NEW s \in Sender, NEW r \in Alert, Deliver(s, r)
      PROVE  MailInv'
  BY <1>2, DeliverMail
<1>3. ASSUME NEW s \in Sender, SendCommits(s)
      PROVE  MailInv'
  BY <1>3, CommitsMail
<1>4. ASSUME NEW s \in Sender, SendRollsBack(s)
      PROVE  MailInv'
  BY <1>4, RollsBackMail
<1>5. CASE UNCHANGED <<sent, sendVars, ledger>>
  <2>1. UNCHANGED <<sent, sending, todo, marked, copies, unmarked, together>>
    BY <1>5 DEF sendVars, ledger
  <2>2. /\ \A v \in Sender : Reading(v)' = Reading(v)
        /\ \A r : Held(r)' <=> Held(r)
    BY <2>1 DEF Reading, Held
  <2>3. QED
    BY <2>1, <2>2 DEF MailInv, OpenReads, OneReader, HeldMailed, CopiesAccount
<1>6. QED
  BY <1>1, <1>2, <1>3, <1>4, <1>5
  DEF Next, Sweep, Send, Pursue, Amend, SweepReads, SweepInserts, SweepCommits,
      SweepRollsBack, Outage, DayPasses, vars

(* sent_at is set only on alerts that were mailed; every further copy was  *)
(* mailed by a transaction that rolled back or by two that read the alert  *)
(* at once (run_notify_send).                                              *)
THEOREM MailedForCauseHolds == Spec => []MailedForCause
<1> DEFINE Inv == CalendarType /\ SweepType /\ SendType /\ MailInv
<1>1. Init => Inv
  <2>1. Init => MailInv
    BY DEF Init, MailInv, OpenReads, OneReader, HeldMailed, CopiesAccount, Held, Reading
  <2>2. QED
    BY <2>1, InitTyped
<1>2. Inv /\ [Next]_vars => Inv'
  BY CalendarStep, SweepStep, SendStep, MailStep
<1>3. Inv => MailedForCause
  <2>1. SUFFICES ASSUME Inv, NEW r \in rows
                 PROVE  /\ r \in sent => copies[r] > 0
                        /\ r \notin together => copies[r] <= unmarked[r] + 1
    BY DEF MailedForCause
  <2>2. r \in Alert /\ copies[r] \in Nat /\ unmarked[r] \in Nat
    BY <2>1 DEF SweepType, SendType
  <2>3. r \in sent => copies[r] > 0
    BY <2>1, <2>2 DEF HeldMailed, Held, MailInv
  <2>4. r \notin together => copies[r] <= unmarked[r] + 1
    BY <2>1, <2>2 DEF CopiesAccount, MailInv
  <2>5. QED
    BY <2>3, <2>4
<1>4. QED
  BY <1>1, <1>2, <1>3, PTL DEF Spec

-----------------------------------------------------------------------------
(* EscalatedInTime takes an open sweep on trust that counts for a tender:  *)
(* EscalateInv says what that sweep will commit.                           *)
Unread(r) == r \in sent /\ r.kind = Critical /\ age[r] > EscalateAfter

Escalates(w, t) == \E e \in stale[w] : e.tender = t /\ e.kind = Escalation

OpenSweepsEscalate ==
  \A w \in Sweeper : \A r \in rows :
    sweep[w] = "escalating" /\ r.tender \in counts[w] /\ Unread(r) =>
      Raised(r.tender, Escalation) \/ Escalates(w, r.tender)

EscalateInv == OpenSweepsEscalate /\ EscalatedInTime

(* What is raised stays raised, whatever is committed.                     *)
LEMMA RaisedStays ==
  ASSUME NEW t, NEW k, rows \subseteq rows'
  PROVE  Raised(t, k) => Raised(t, k)'
BY DEF Raised

LEMMA EscalateStep ==
  EscalateInv /\ CalendarType /\ SweepType /\ SendType /\ [Next]_vars => EscalateInv'
<1> SUFFICES ASSUME EscalateInv, CalendarType, SweepType, SendType, [Next]_vars
             PROVE  EscalateInv'
  OBVIOUS
<1> USE DEF EscalateInv
<1>1. ASSUME NEW T \in SUBSET Tender, Restart(T), UNCHANGED <<rows, sent, age, sweep, stale>>
      PROVE  EscalateInv'
  <2>1. \A t, k : Raised(t, k)' <=> Raised(t, k)
    BY <1>1 DEF Raised
  <2>2. \A w \in Sweeper : counts'[w] \subseteq counts[w]
    BY <1>1 DEF Restart
  <2>3. \A t \in Tender : sweeps'[t] > 0 => sweeps[t] > 0
    BY <1>1 DEF Restart
  <2>4. \A r \in sent : r.tender \in Tender
    BY DEF SendType, SweepType, Alert
  <2>5. QED
    BY <1>1, <2>1, <2>2, <2>3, <2>4
    DEF OpenSweepsEscalate, EscalatedInTime, Unread, Escalates
<1>2. ASSUME NEW w \in Sweeper, SweepReads(w)
      PROVE  EscalateInv'
  BY <1>2
  DEF SweepReads, OpenSweepsEscalate, EscalatedInTime, Unread, Escalates, Raised, SweepType,
      CalendarType
<1>3. ASSUME NEW w \in Sweeper, SweepInserts(w)
      PROVE  EscalateInv'
  <2>1. /\ stale' = [stale EXCEPT ![w] =
             {[tender |-> r.tender, kind |-> Escalation, by |-> w, about |-> r.by] :
                r \in StaleAlerts}]
        /\ sweep' = [sweep EXCEPT ![w] = "escalating"]
        /\ UNCHANGED <<rows, sent, age, counts, sweeps>>
    BY <1>3 DEF SweepInserts
  <2>2. ASSUME NEW r \in rows, Unread(r)
        PROVE  Raised(r.tender, Escalation) \/ Escalates(w, r.tender)'
    <3>1. CASE r \in StaleAlerts
      <4> DEFINE e == [tender |-> r.tender, kind |-> Escalation, by |-> w, about |-> r.by]
      <4>1. e \in stale'[w]
        BY <2>1, <3>1 DEF SweepType
      <4>2. QED
        BY <4>1 DEF Escalates
    <3>2. CASE r \notin StaleAlerts
      BY <2>2, <3>2 DEF Unread, StaleAlerts
    <3>3. QED
      BY <3>1, <3>2
  <2>3. \A t, k : Raised(t, k)' <=> Raised(t, k)
    BY <2>1 DEF Raised
  <2>4. \A v \in Sweeper \ {w} : sweep'[v] = sweep[v] /\ stale'[v] = stale[v]
    BY <2>1 DEF SweepType
  <2>5. OpenSweepsEscalate'
    BY <2>1, <2>2, <2>3, <2>4 DEF OpenSweepsEscalate, Unread, Escalates
  <2>6. QED
    BY <2>1, <2>3, <2>5 DEF EscalatedInTime
<1>4. ASSUME NEW w \in Sweeper, SweepCommits(w)
      PROVE  EscalateInv'
  <2>1. /\ rows' = rows \cup Inserts(w)
        /\ sweep' = [sweep EXCEPT ![w] = "closed"]
        /\ stale' = [stale EXCEPT ![w] = {}]
        /\ counts' = [v \in Sweeper |-> IF v = w THEN {} ELSE counts[v] \ counts[w]]
        /\ UNCHANGED <<sent, age>>
        /\ sweep[w] = "escalating"
    BY <1>4 DEF SweepCommits, Closed
  <2>2. \A t, k : Raised(t, k) => Raised(t, k)'
    BY <2>1, RaisedStays
  <2>3. \A t : Escalates(w, t) => Raised(t, Escalation)'
    BY <2>1 DEF Escalates, Raised, Inserts
  <2>4. \A t \in Tender : sweeps'[t] > 0 => sweeps[t] > 0 \/ t \in counts[w]
    BY <1>4 DEF SweepCommits
  <2>5. \A r \in sent : r \in rows /\ r.tender \in Tender
    BY DEF SendType, SweepType, Alert
  <2>6. EscalatedInTime'
    BY <2>1, <2>2, <2>3, <2>4, <2>5 DEF EscalatedInTime, OpenSweepsEscalate, Unread
  <2>7. \A v \in Sweeper \ {w} : sweep'[v] = sweep[v] /\ stale'[v] = stale[v]
    BY <2>1 DEF SweepType
  <2>8. sweep'[w] = "closed"
    BY <2>1 DEF SweepType
  <2>9. OpenSweepsEscalate'
    BY <2>1, <2>2, <2>5, <2>7, <2>8 DEF OpenSweepsEscalate, Unread, Escalates
  <2>10. QED
    BY <2>6, <2>9
<1>5. ASSUME NEW w \in Sweeper, SweepRollsBack(w)
      PROVE  EscalateInv'
  BY <1>5
  DEF SweepRollsBack, Closed, OpenSweepsEscalate, EscalatedInTime, Unread, Escalates, Raised,
      SweepType, CalendarType
<1>6. ASSUME NEW s \in Sender, SendCommits(s)
      PROVE  EscalateInv'
  <2>1. /\ sent' = sent \cup marked[s]
        /\ age' = [r \in Alert |-> IF r \in marked[s] THEN 0 ELSE age[r]]
        /\ UNCHANGED <<rows, sweep, stale, counts, sweeps>>
    BY <1>6 DEF SendCommits, sweepVars
  <2>2. \A r \in Alert : Unread(r)' => Unread(r)
    BY <2>1 DEF Unread, EscalateAfter
  <2>3. sent' \subseteq Alert /\ rows \subseteq Alert
    BY <2>1 DEF SendType, SweepType
  <2>4. \A t, k : Raised(t, k)' <=> Raised(t, k)
    BY <2>1 DEF Raised
  <2>5. QED
    BY <2>1, <2>2, <2>3, <2>4
    DEF OpenSweepsEscalate, EscalatedInTime, Unread, Escalates
<1>7. CASE DayPasses
  <2>1. /\ \A w \in Sweeper : sweep'[w] = "closed"
        /\ \A t \in Tender : sweeps'[t] = 0
        /\ UNCHANGED sent
    BY <1>7 DEF DayPasses, Restart, sweepVars
  <2>2. \A r \in sent : r.tender \in Tender
    BY DEF SendType, SweepType, Alert
  <2>3. QED
    BY <2>1, <2>2 DEF OpenSweepsEscalate, EscalatedInTime
<1>8. CASE UNCHANGED <<rows, sent, age, sweep, stale, counts, sweeps>>
  BY <1>8 DEF OpenSweepsEscalate, EscalatedInTime, Unread, Escalates, Raised
<1>9. ASSUME NEW t \in Tender, Pursue(t)
      PROVE  EscalateInv'
  <2>1. {t} \in SUBSET Tender
    OBVIOUS
  <2>2. Restart({t}) /\ UNCHANGED <<rows, sent, age, sweep, stale>>
    BY <1>9 DEF Pursue, sweepVars
  <2>3. QED
    BY <1>1, <2>1, <2>2
<1>10. ASSUME NEW t \in Tender, NEW d \in 1..Horizon, Amend(t, d)
       PROVE  EscalateInv'
  <2>1. {t} \in SUBSET Tender
    OBVIOUS
  <2>2. Restart({t}) /\ UNCHANGED <<rows, sent, age, sweep, stale>>
    BY <1>10 DEF Amend, sweepVars
  <2>3. QED
    BY <1>1, <2>1, <2>2
<1>11. QED
  BY <1>2, <1>3, <1>4, <1>5, <1>6, <1>7, <1>8, <1>9, <1>10
  DEF Next, Sweep, Send, SendReads, Deliver, SendRollsBack, Outage, vars, sweepVars

(* A J-3 alert that was sent more than a day ago is escalated by the next  *)
(* sweep, also when its deadline has passed or it was raised twice         *)
(* (escalate_unacknowledged).                                              *)
THEOREM EscalatedInTimeHolds == Spec => []EscalatedInTime
<1> DEFINE Inv == CalendarType /\ SweepType /\ SendType /\ EscalateInv
<1>1. Init => Inv
  <2>1. Init => EscalateInv
    BY DEF Init, EscalateInv, OpenSweepsEscalate, EscalatedInTime
  <2>2. QED
    BY <2>1, InitTyped
<1>2. Inv /\ [Next]_vars => Inv'
  BY CalendarStep, SweepStep, SendStep, EscalateStep
<1>3. Inv => EscalatedInTime
  BY DEF EscalateInv
<1>4. QED
  BY <1>1, <1>2, <1>3, PTL DEF Spec
-----------------------------------------------------------------------------
(* RaisedInTime counts sweeps; TimeInv says what they have raised and what *)
(* the open ones that count will have: one offset more than sweeps have    *)
(* been counted, until none is missing.  An open sweep may find its alert  *)
(* raised by one that counts no more, which has then done its work for it. *)
Reaching(t) == Called(left[t])

Up(t) == {o \in Reaching(t) : Raised(t, o)}

Soon(w, t) ==
  {o \in Reaching(t) : Raised(t, o) \/ \E r \in due[w] : r.tender = t /\ r.kind = o}

Kept(t) == left[t] > 0 => Up(t) = Reaching(t) \/ sweeps[t] <= Cardinality(Up(t))

Keeping(w, t) ==
  t \in counts[w] /\ left[t] > 0 =>
    Soon(w, t) = Reaching(t) \/ sweeps[t] < Cardinality(Soon(w, t))

TimeInv == \A t \in Tender : Kept(t) /\ \A w \in Sweeper : Keeping(w, t)

LEMMA OffsetsFinite ==
  ASSUME NEW S \in SUBSET Offset
  PROVE  /\ IsFiniteSet(S) /\ Cardinality(S) \in Nat
         /\ \A T \in SUBSET S : /\ Cardinality(T) <= Cardinality(S) /\ Cardinality(T) \in Nat
                                /\ Cardinality(S) = Cardinality(T) => S = T
<1>1. IsFiniteSet(S)
  BY AlertsAssumption, FS_Subset
<1>2. \A T \in SUBSET S : /\ Cardinality(T) <= Cardinality(S) /\ IsFiniteSet(T)
                          /\ Cardinality(S) = Cardinality(T) => S = T
  BY <1>1, FS_Subset
<1> QED
  BY <1>1, <1>2, FS_CardinalityType

(* The furthest of some offsets: the one with the fewest beyond it.        *)
LEMMA Furthest ==
  ASSUME NEW S \in SUBSET Offset, S # {}
  PROVE  \E o \in S : \A p \in S : p <= o
<1> DEFINE Beyond(o) == {p \in S : p > o}
           C == {Cardinality(Beyond(o)) : o \in S}
<1>1. \A o \in S : Beyond(o) \in SUBSET Offset /\ Cardinality(Beyond(o)) \in Nat
  BY OffsetsFinite
<1>2. C \in SUBSET Nat /\ C # {}
  BY <1>1
<1>3. PICK c \in C : \A d \in C : ~(<<d, c>> \in OpToRel(<, Nat))
  <2> HIDE DEF C
  <2> QED
    BY <1>2, NatLessThanWellFounded, WFMin
<1>4. PICK o \in S : c = Cardinality(Beyond(o))
  BY <1>3
<1>5. ASSUME NEW p \in S, p > o
      PROVE  FALSE
  <2>1. o \in Nat /\ p \in Nat
    BY Constants
  <2>2. Beyond(p) \in SUBSET Beyond(o) /\ p \in Beyond(o) /\ p \notin Beyond(p)
    <3>1. \A q \in S : q \in Nat
      BY Constants
    <3>2. \A q \in S : q > p => q > o
      BY <1>5, <2>1, <3>1
    <3>3. ~(p > p)
      BY <2>1
    <3> HIDE DEF C
    <3> QED
      BY <1>5, <3>2, <3>3
  <2>3. Cardinality(Beyond(p)) <= Cardinality(Beyond(o))
        /\ Cardinality(Beyond(p)) # Cardinality(Beyond(o))
    <3> HIDE DEF Beyond
    <3> QED
      BY <1>1, <2>2, OffsetsFinite
  <2>4. Cardinality(Beyond(p)) \in C /\ Cardinality(Beyond(p)) \in Nat /\ c \in Nat
    BY <1>1, <1>2
  <2>5. Cardinality(Beyond(p)) < c
    <3> HIDE DEF Beyond
    <3> QED
      BY <1>1, <1>4, <2>3, <2>4
  <2>6. <<Cardinality(Beyond(p)), c>> \in OpToRel(<, Nat)
    <3> HIDE DEF Beyond
    <3> QED
      BY <2>4, <2>5 DEF OpToRel
  <2> QED
    BY <1>3, <2>4, <2>6
<1> QED
  BY <1>5, Constants

(* While an offset is missing, a sweep that reads finds the furthest one.  *)
LEMMA FindsMissing ==
  ASSUME NEW t \in Tender, Up(t) # Reaching(t)
  PROVE  \E o \in NextOffset(t) : o \in Reaching(t) /\ o \notin Up(t)
<1> DEFINE M == {o \in Offset : Reached(t, o) /\ ~Raised(t, o)}
<1>1. M # {} /\ M \in SUBSET Offset
  BY DEF Up, Reaching, Called, Reached
<1>2. PICK o \in M : \A p \in M : p <= o
  <2> HIDE DEF M
  <2> QED
    BY <1>1, Furthest
<1>3. o \in NextOffset(t)
  BY <1>2 DEF NextOffset
<1> QED
  BY <1>2, <1>3 DEF Up, Reaching, Called, Reached

LEMMA Grows ==
  ASSUME NEW S \in SUBSET Offset, NEW T \in SUBSET S, NEW n \in Nat
  PROVE  /\ n <= Cardinality(T) => n <= Cardinality(S)
         /\ n < Cardinality(T) => n < Cardinality(S)
<1>1. /\ Cardinality(T) <= Cardinality(S)
      /\ Cardinality(T) \in Nat /\ Cardinality(S) \in Nat
  BY OffsetsFinite
<1> QED
  BY <1>1

LEMMA SoonIsOffsets ==
  ASSUME NEW t, NEW w
  PROVE  /\ Up(t) \in SUBSET Soon(w, t) /\ Soon(w, t) \in SUBSET Reaching(t)
         /\ Reaching(t) \in SUBSET Offset
BY DEF Up, Soon, Reaching, Called

LEMMA SweepsType ==
  ASSUME CalendarType, NEW t \in Tender
  PROVE  sweeps[t] \in Nat
BY OffsetCount DEF CalendarType

(* The present state of some tenders changes and counting starts again.    *)
LEMMA RestartKeeps ==
  ASSUME TimeInv, CalendarType, NEW T \in SUBSET Tender, Restart(T), UNCHANGED <<rows, due>>,
         \A t \in Tender \ T : left'[t] = left[t]
  PROVE  TimeInv'
<1> SUFFICES ASSUME NEW t \in Tender
             PROVE  Kept(t)' /\ \A w \in Sweeper : Keeping(w, t)'
  BY DEF TimeInv
<1>1. CASE t \in T
  <2>1. sweeps'[t] = 0 /\ \A w \in Sweeper : t \notin counts'[w]
    BY <1>1 DEF Restart
  <2>2. Cardinality(Up(t)') \in Nat
    BY OffsetsFinite DEF Up, Reaching, Called
  <2> QED
    BY <2>1, <2>2 DEF Kept, Keeping
<1>2. CASE t \notin T
  <2>1. /\ left'[t] = left[t] /\ sweeps'[t] = sweeps[t]
        /\ \A w \in Sweeper : t \in counts'[w] => t \in counts[w]
    BY <1>2 DEF Restart
  <2>2. /\ Up(t)' = Up(t) /\ Reaching(t)' = Reaching(t)
        /\ \A w \in Sweeper : Soon(w, t)' = Soon(w, t)
    BY <2>1 DEF Up, Soon, Reaching, Raised
  <2> QED
    BY <2>1, <2>2 DEF TimeInv, Kept, Keeping
<1> QED
  BY <1>1, <1>2

(* SweepReads                                                              *)
LEMMA ReadsKeep ==
  ASSUME TimeInv, CalendarType, SweepType, NEW w \in Sweeper, SweepReads(w)
  PROVE  TimeInv'
<1> DEFINE D == UNION {{[tender |-> t, kind |-> o, by |-> w, about |-> NoSource] :
                          o \in NextOffset(t)} : t \in {u \in Tender : left[u] > 0}}
<1>1. /\ due' = [due EXCEPT ![w] = D] /\ counts' = [counts EXCEPT ![w] = Tender]
      /\ UNCHANGED <<rows, left, sweeps>>
  BY DEF SweepReads
<1> SUFFICES ASSUME NEW t \in Tender
             PROVE  Kept(t)' /\ \A v \in Sweeper : Keeping(v, t)'
  BY DEF TimeInv
<1>2. Up(t)' = Up(t) /\ Reaching(t)' = Reaching(t) /\ Kept(t)'
  BY <1>1 DEF Up, Reaching, Raised, Kept, TimeInv
<1>3. ASSUME NEW v \in Sweeper, v # w
      PROVE  Keeping(v, t)'
  <2>1. due'[v] = due[v] /\ counts'[v] = counts[v]
    BY <1>1, <1>3 DEF SweepType, CalendarType
  <2>2. Soon(v, t)' = Soon(v, t)
    BY <1>1, <2>1 DEF Soon, Reaching, Raised
  <2> QED
    BY <1>1, <1>2, <2>1, <2>2 DEF Keeping, TimeInv
<1>4. ASSUME left[t] > 0, Up(t) # Reaching(t)
      PROVE  sweeps[t] < Cardinality(Soon(w, t)')
  <2>1. PICK o \in NextOffset(t) : o \in Reaching(t) /\ o \notin Up(t)
    BY <1>4, FindsMissing
  <2>2. [tender |-> t, kind |-> o, by |-> w, about |-> NoSource] \in due'[w]
    BY <1>1, <1>4, <2>1 DEF SweepType
  <2>3. o \in Soon(w, t)' /\ Up(t) \in SUBSET Soon(w, t)'
    BY <1>1, <2>1, <2>2 DEF Soon, Up, Reaching, Raised
  <2>4. Soon(w, t)' \in SUBSET Offset
    BY DEF Soon, Reaching, Called
  <2>5. /\ Cardinality(Up(t)) <= Cardinality(Soon(w, t)')
        /\ Cardinality(Up(t)) # Cardinality(Soon(w, t)')
        /\ Cardinality(Up(t)) \in Nat /\ Cardinality(Soon(w, t)') \in Nat
    BY <2>1, <2>3, <2>4, OffsetsFinite
  <2>6. sweeps[t] <= Cardinality(Up(t)) /\ sweeps[t] \in Nat
    BY <1>4, SweepsType DEF TimeInv, Kept
  <2> QED
    BY <2>5, <2>6
<1>5. ASSUME Up(t) = Reaching(t)
      PROVE  Soon(w, t)' = Reaching(t)'
  BY <1>1, <1>5 DEF Up, Soon, Reaching, Raised
<1>6. Keeping(w, t)'
  BY <1>1, <1>4, <1>5 DEF Keeping
<1> QED
  BY <1>2, <1>3, <1>6

(* SweepCommits: what was to be raised soon is up now.                     *)
LEMMA CommitsKeep ==
  ASSUME TimeInv, CalendarType, SweepType, NEW w \in Sweeper, SweepCommits(w)
  PROVE  TimeInv'
<1>1. /\ rows' = rows \cup Inserts(w)
      /\ due' = [due EXCEPT ![w] = {}]
      /\ counts' = [v \in Sweeper |-> IF v = w THEN {} ELSE counts[v] \ counts[w]]
      /\ UNCHANGED left
  BY DEF SweepCommits, Closed
<1> SUFFICES ASSUME NEW t \in Tender
             PROVE  Kept(t)' /\ \A v \in Sweeper : Keeping(v, t)'
  BY DEF TimeInv
<1>2. \A o : Raised(t, o) => Raised(t, o)'
  BY <1>1, RaisedStays
<1>3. \A o : (\E r \in due[w] : r.tender = t /\ r.kind = o) => Raised(t, o)'
  BY <1>1 DEF Raised, Inserts
<1>4. /\ Reaching(t)' = Reaching(t) /\ Reaching(t) \in SUBSET Offset
      /\ Up(t)' \in SUBSET Reaching(t) /\ Up(t) \in SUBSET Up(t)'
      /\ Soon(w, t) \in SUBSET Up(t)'
  BY <1>1, <1>2, <1>3 DEF Reaching, Called, Up, Soon
<1>5. /\ sweeps[t] \in Nat
      /\ sweeps'[t] = sweeps[t] \/ (t \in counts[w] /\ sweeps'[t] = sweeps[t] + 1)
  BY SweepsType DEF SweepCommits
<1>6. Kept(t)'
  <2> SUFFICES ASSUME left[t] > 0
               PROVE  Up(t)' = Reaching(t) \/ sweeps'[t] <= Cardinality(Up(t)')
    BY <1>1, <1>4 DEF Kept
  <2>1. CASE sweeps'[t] = sweeps[t]
    <3>1. Up(t) = Reaching(t) \/ sweeps[t] <= Cardinality(Up(t))
      BY DEF TimeInv, Kept
    <3>2. CASE Up(t) = Reaching(t)
      BY <1>4, <3>2
    <3>3. CASE sweeps[t] <= Cardinality(Up(t))
      <4>1. Up(t)' \in SUBSET Offset
        BY <1>4
      <4> QED
        BY <1>4, <1>5, <2>1, <3>3, <4>1, Grows
    <3> QED
      BY <3>1, <3>2, <3>3
  <2>2. CASE t \in counts[w] /\ sweeps'[t] = sweeps[t] + 1
    <3>1. Soon(w, t) = Reaching(t) \/ sweeps[t] < Cardinality(Soon(w, t))
      BY <2>2 DEF TimeInv, Keeping
    <3>2. CASE Soon(w, t) = Reaching(t)
      BY <1>4, <3>2
    <3>3. CASE sweeps[t] < Cardinality(Soon(w, t))
      <4>1. Up(t)' \in SUBSET Offset
        BY <1>4
      <4>2. sweeps[t] < Cardinality(Up(t)') /\ Cardinality(Up(t)') \in Nat
        BY <1>4, <1>5, <3>3, <4>1, Grows, OffsetsFinite
      <4> QED
        BY <1>5, <2>2, <4>2
    <3> QED
      BY <3>1, <3>2, <3>3
  <2> QED
    BY <1>5, <2>1, <2>2
<1>7. ASSUME NEW v \in Sweeper
      PROVE  Keeping(v, t)'
  <2> SUFFICES ASSUME t \in counts'[v], left[t] > 0
               PROVE  Soon(v, t)' = Reaching(t) \/ sweeps'[t] < Cardinality(Soon(v, t)')
    BY <1>1, <1>4 DEF Keeping
  <2>1. v # w /\ t \in counts[v] /\ t \notin counts[w]
    BY <1>1
  <2>2. sweeps'[t] = sweeps[t]
    BY <1>5, <2>1
  <2>3. due'[v] = due[v]
    BY <1>1, <2>1 DEF SweepType
  <2>4. Soon(v, t) \in SUBSET Soon(v, t)' /\ Soon(v, t)' \in SUBSET Reaching(t)
    BY <1>1, <1>2, <2>3 DEF Soon, Reaching
  <2>5. Soon(v, t) = Reaching(t) \/ sweeps[t] < Cardinality(Soon(v, t))
    BY <2>1 DEF TimeInv, Keeping
  <2>6. CASE Soon(v, t) = Reaching(t)
    BY <2>4, <2>6
  <2>7. CASE sweeps[t] < Cardinality(Soon(v, t))
    <3>1. Soon(v, t)' \in SUBSET Offset
      BY <1>4, <2>4
    <3> QED
      BY <1>5, <2>2, <2>4, <2>7, <3>1, Grows
  <2> QED
    BY <2>5, <2>6, <2>7
<1> QED
  BY <1>6, <1>7

LEMMA TimeStep ==
  TimeInv /\ CalendarType /\ SweepType /\ [Next]_vars => TimeInv'
<1> SUFFICES ASSUME TimeInv, CalendarType, SweepType, [Next]_vars
             PROVE  TimeInv'
  OBVIOUS
<1>1. ASSUME NEW t \in Tender, Pursue(t)
      PROVE  TimeInv'
  <2>1. Restart({t}) /\ UNCHANGED <<rows, due>> /\ \A u \in Tender \ {t} : left'[u] = left[u]
    BY <1>1 DEF Pursue, sweepVars, CalendarType
  <2> QED
    BY <2>1, RestartKeeps
<1>2. ASSUME NEW t \in Tender, NEW d \in 1..Horizon, Amend(t, d)
      PROVE  TimeInv'
  <2>1. Restart({t}) /\ UNCHANGED <<rows, due, left>>
    BY <1>2 DEF Amend, sweepVars
  <2> QED
    BY <2>1, RestartKeeps
<1>3. CASE DayPasses
  <2>1. Restart(Tender) /\ UNCHANGED <<rows, due>>
    BY <1>3 DEF DayPasses, sweepVars
  <2> QED
    BY <2>1, RestartKeeps
<1>4. ASSUME NEW w \in Sweeper, SweepReads(w)
      PROVE  TimeInv'
  BY <1>4, ReadsKeep
<1>5. ASSUME NEW w \in Sweeper, SweepCommits(w)
      PROVE  TimeInv'
  BY <1>5, CommitsKeep
<1>6. ASSUME NEW w \in Sweeper, SweepRollsBack(w)
      PROVE  TimeInv'
  <2>1. /\ due' = [due EXCEPT ![w] = {}] /\ counts' = [counts EXCEPT ![w] = {}]
        /\ UNCHANGED <<rows, left, sweeps>>
    BY <1>6 DEF SweepRollsBack, Closed
  <2>2. \A t \in Tender : Up(t)' = Up(t) /\ Reaching(t)' = Reaching(t) /\ Kept(t)'
    BY <2>1 DEF Up, Reaching, Raised, Kept, TimeInv
  <2>3. ASSUME NEW t \in Tender, NEW v \in Sweeper
        PROVE  Keeping(v, t)'
    <3>1. CASE v = w
      BY <2>1, <3>1 DEF Keeping, CalendarType
    <3>2. CASE v # w
      <4>1. due'[v] = due[v] /\ counts'[v] = counts[v]
        BY <2>1, <3>2 DEF SweepType, CalendarType
      <4>2. Soon(v, t)' = Soon(v, t)
        BY <2>1, <4>1 DEF Soon, Reaching, Raised
      <4> QED
        BY <2>1, <2>2, <4>1, <4>2 DEF Keeping, TimeInv
    <3> QED
      BY <3>1, <3>2
  <2> QED
    BY <2>2, <2>3 DEF TimeInv
<1>7. CASE UNCHANGED <<rows, due, left, sweeps, counts>>
  BY <1>7 DEF TimeInv, Kept, Keeping, Up, Soon, Reaching, Raised
<1> QED
  BY <1>1, <1>2, <1>3, <1>4, <1>5, <1>6, <1>7
  DEF Next, Sweep, SweepInserts, Send, SendReads, Deliver, SendCommits, SendRollsBack, Outage,
      vars, sweepVars

(* "Missed-alert = worst product failure": as many sweeps in a row as      *)
(* offsets have been reached have raised the alert of the nearest,         *)
(* whatever else ran or rolled back meanwhile (due_deadline_alerts).       *)
THEOREM RaisedInTimeHolds == Spec => []RaisedInTime
<1> DEFINE Inv == CalendarType /\ SweepType /\ SendType /\ TimeInv
<1>1. Init => Inv
  <2>1. Init => TimeInv
    <3>1. ASSUME Init, NEW t \in Tender
          PROVE  Kept(t) /\ \A w \in Sweeper : Keeping(w, t)
      BY <3>1 DEF Init, Kept, Keeping, Unpursued
    <3> QED
      BY <3>1 DEF TimeInv
  <2> QED
    BY <2>1, InitTyped
<1>2. Inv /\ [Next]_vars => Inv'
  BY CalendarStep, SweepStep, SendStep, TimeStep
<1>3. Inv => RaisedInTime
  <2> SUFFICES ASSUME Inv, NEW t \in Tender, left[t] > 0,
                      sweeps[t] >= Cardinality(Reaching(t)), Up(t) # Reaching(t)
               PROVE  FALSE
    BY DEF RaisedInTime, Up, Reaching, Nearest
  <2>1. Up(t) \in SUBSET Reaching(t) /\ Reaching(t) \in SUBSET Offset
    BY DEF Up, Reaching, Called
  <2>2. /\ Cardinality(Up(t)) <= Cardinality(Reaching(t))
        /\ Cardinality(Up(t)) # Cardinality(Reaching(t))
        /\ Cardinality(Up(t)) \in Nat /\ Cardinality(Reaching(t)) \in Nat
    BY <2>1, OffsetsFinite
  <2>3. sweeps[t] <= Cardinality(Up(t)) /\ sweeps[t] \in Nat
    BY SweepsType DEF TimeInv, Kept
  <2> QED
    BY <2>2, <2>3
<1>4. QED
  BY <1>1, <1>2, <1>3, PTL DEF Spec

-----------------------------------------------------------------------------
(***************************************************************************)
(* Refinement: the alerts keep the promises of AlertOutbox.  What an open  *)
(* sweep will insert was not raised by any sweep, and whatever it escalates *)
(* was sent.                                                               *)
(***************************************************************************)
Mailed == {r \in Alert : copies[r] > 0}

NewRows ==
  \A w \in Sweeper : \A r \in Inserts(w) :
    r.by = w /\ r \notin rows /\ Repeated(r) \subseteq sent

LEMMA NewRowsStep == NewRows /\ SweepType /\ SendType /\ [Next]_vars => NewRows'
<1> SUFFICES ASSUME NewRows, SweepType, SendType, [Next]_vars
             PROVE  NewRows'
  OBVIOUS
<1>1. ASSUME UNCHANGED rows, sent \subseteq sent',
             \A w \in Sweeper : \A r \in Inserts(w)' :
               r \in Inserts(w) \/ (r.by = w /\ r \notin rows /\ Repeated(r) \subseteq sent)
      PROVE  NewRows'
  BY <1>1 DEF NewRows, Repeated
<1>2. ASSUME NEW w \in Sweeper, SweepReads(w)
      PROVE  NewRows'
  <2> DEFINE D == UNION {{[tender |-> t, kind |-> o, by |-> w, about |-> NoSource] :
                            o \in NextOffset(t)} : t \in {u \in Tender : left[u] > 0}}
  <2>1. due' = [due EXCEPT ![w] = D] /\ UNCHANGED <<stale, rows, sent>>
    BY <1>2 DEF SweepReads
  <2>2. ASSUME NEW r \in D
        PROVE  r.by = w /\ r \notin rows /\ Repeated(r) \subseteq sent
    <3>1. PICK t \in Tender, o \in Offset :
            /\ r = [tender |-> t, kind |-> o, by |-> w, about |-> NoSource]
            /\ o \in NextOffset(t)
      BY DEF NextOffset
    <3>2. ~Raised(t, o)
      BY <3>1 DEF NextOffset
    <3>3. r.tender = t /\ r.kind = o /\ r.by = w /\ o # Escalation
      BY <3>1, Constants DEF Escalation
    <3> QED
      BY <3>2, <3>3 DEF Raised, Repeated
  <2> HIDE DEF D
  <2>3. \A v \in Sweeper : \A r \in Inserts(v)' : r \in Inserts(v) \/ (v = w /\ r \in D)
    BY <2>1 DEF Inserts, SweepType
  <2> QED
    BY <1>1, <2>1, <2>2, <2>3
<1>3. ASSUME NEW w \in Sweeper, SweepInserts(w)
      PROVE  NewRows'
  <2> DEFINE S == {[tender |-> r.tender, kind |-> Escalation, by |-> w, about |-> r.by] :
                     r \in StaleAlerts}
  <2>1. stale' = [stale EXCEPT ![w] = S] /\ UNCHANGED <<due, rows, sent>>
    BY <1>3 DEF SweepInserts
  <2>2. ASSUME NEW e \in S
        PROVE  e.by = w /\ e \notin rows /\ Repeated(e) \subseteq sent
    <3>1. PICK r \in StaleAlerts :
            e = [tender |-> r.tender, kind |-> Escalation, by |-> w, about |-> r.by]
      OBVIOUS
    <3>2. /\ e.tender = r.tender /\ e.kind = Escalation /\ e.by = w /\ e.about = r.by
      BY <3>1
    <3>3. /\ r \in sent /\ ~Raised(r.tender, Escalation)
          /\ r = [tender |-> r.tender, kind |-> Critical, by |-> r.by, about |-> NoSource]
      BY StaleType
    <3>4. Repeated(e) = {r}
      BY <3>2, <3>3 DEF Repeated
    <3> QED
      BY <3>2, <3>3, <3>4 DEF Raised
  <2> HIDE DEF S
  <2>3. \A v \in Sweeper : \A r \in Inserts(v)' : r \in Inserts(v) \/ (v = w /\ r \in S)
    BY <2>1 DEF Inserts, SweepType
  <2> QED
    BY <1>1, <2>1, <2>2, <2>3
<1>4. ASSUME NEW w \in Sweeper, SweepCommits(w)
      PROVE  NewRows'
  <2>1. /\ rows' = rows \cup Inserts(w) /\ UNCHANGED sent
        /\ due' = [due EXCEPT ![w] = {}] /\ stale' = [stale EXCEPT ![w] = {}]
    BY <1>4 DEF SweepCommits, Closed
  <2>2. \A v \in Sweeper : Inserts(v)' = IF v = w THEN {} ELSE Inserts(v)
    BY <2>1 DEF Inserts, SweepType
  <2>3. \A v \in Sweeper \ {w} : Inserts(v) \cap Inserts(w) = {}
    BY DEF NewRows
  <2> QED
    BY <2>1, <2>2, <2>3 DEF NewRows, Repeated
<1>5. ASSUME NEW w \in Sweeper, SweepRollsBack(w)
      PROVE  NewRows'
  <2>1. /\ UNCHANGED <<rows, sent>>
        /\ due' = [due EXCEPT ![w] = {}] /\ stale' = [stale EXCEPT ![w] = {}]
    BY <1>5 DEF SweepRollsBack, Closed
  <2>2. \A v \in Sweeper : Inserts(v)' \subseteq Inserts(v)
    BY <2>1 DEF Inserts, SweepType
  <2> QED
    BY <1>1, <2>1, <2>2
<1>6. CASE UNCHANGED <<rows, sweepVars>> /\ sent \subseteq sent'
  <2>1. \A v \in Sweeper : Inserts(v)' = Inserts(v)
    BY <1>6 DEF Inserts, sweepVars
  <2> QED
    BY <1>1, <1>6, <2>1
<1> QED
  BY <1>2, <1>3, <1>4, <1>5, <1>6
  DEF Next, Sweep, Send, Pursue, Amend, SendReads, Deliver, SendCommits, SendRollsBack,
      Outage, DayPasses, vars, sweepVars

LEMMA OutboxStep ==
  NewRows /\ SweepType /\ SendType /\ MailInv /\ [Next]_vars
    => [Outbox!Next]_(Outbox!vars)
<1> SUFFICES ASSUME NewRows, SweepType, SendType, MailInv, [Next]_vars
             PROVE  Outbox!Next \/ UNCHANGED Outbox!vars
  OBVIOUS
<1>1. ASSUME UNCHANGED <<rows, copies, sent>>
      PROVE  UNCHANGED Outbox!vars
  BY <1>1 DEF Outbox!vars
<1>2. ASSUME NEW w \in Sweeper, SweepCommits(w)
      PROVE  Outbox!Next
  <2> DEFINE R == Inserts(w)
  <2>1. rows' = rows \cup R /\ UNCHANGED <<copies, sent>>
    BY <1>2 DEF SweepCommits, ledger
  <2>2. R \in SUBSET (Alert \ rows) /\ \A r \in R : Repeated(r) \subseteq sent
    BY DEF NewRows, Inserts, SweepType
  <2> HIDE DEF R
  <2>3. Outbox!Raise(R)
    BY <2>1, <2>2 DEF Outbox!Raise
  <2> QED
    BY <2>2, <2>3 DEF Outbox!Next
<1>3. ASSUME NEW s \in Sender, NEW r \in Alert, Deliver(s, r)
      PROVE  Outbox!Next \/ UNCHANGED Outbox!vars
  <2>1. CASE smtp = "up"
    <3>1. copies' = [copies EXCEPT ![r] = @ + 1] /\ UNCHANGED <<rows, sent>>
      BY <1>3, <2>1 DEF Deliver
    <3>2. r \in rows /\ copies \in [Alert -> Nat]
      BY <1>3 DEF Deliver, Earliest, SendType
    <3>3. Mailed' = Mailed \cup {r}
      BY <3>1, <3>2 DEF Mailed
    <3>4. Outbox!Mail(r)
      BY <3>1, <3>3 DEF Outbox!Mail, Mailed
    <3> QED
      BY <3>2, <3>4 DEF Outbox!Next
  <2>2. CASE smtp = "down"
    BY <1>1, <1>3, <2>2 DEF Deliver
  <2> QED
    BY <1>3, <2>1, <2>2 DEF Deliver
<1>4. ASSUME NEW s \in Sender, SendCommits(s)
      PROVE  Outbox!Next
  <2>1. sent' = sent \cup marked[s] /\ UNCHANGED <<rows, copies>>
    BY <1>4 DEF SendCommits, ledger
  <2>2. marked[s] \in SUBSET Mailed
    BY DEF MailInv, HeldMailed, Held, Mailed, SendType, SweepType
  <2>3. Outbox!Mark(marked[s])
    BY <2>1 DEF Outbox!Mark
  <2> QED
    BY <2>2, <2>3 DEF Outbox!Next, Mailed
<1>5. CASE UNCHANGED <<rows, copies, sent>>
  BY <1>1, <1>5
<1> QED
  BY <1>2, <1>3, <1>4, <1>5
  DEF Next, Sweep, Send, Pursue, Amend, SweepReads, SweepInserts, SweepRollsBack, SendReads,
      SendRollsBack, Outage, DayPasses, vars, ledger

(* Sweeps and senders may go by what they read long ago and may roll back  *)
(* at any time: an alert is mailed only when its row is committed, marked  *)
(* only when it is mailed, and escalated only when it was sent             *)
(* (run_deadline_alerts, _escalate_for_org, run_notify_send).              *)
THEOREM KeepsOutboxHolds == Spec => KeepsOutbox
<1> DEFINE Inv == CalendarType /\ SweepType /\ SendType /\ MailInv /\ NewRows
<1>1. Init => Inv
  <2>1. Init => MailInv /\ NewRows
    BY DEF Init, MailInv, OpenReads, OneReader, HeldMailed, CopiesAccount, Held, Reading,
           NewRows, Inserts
  <2> QED
    BY <2>1, InitTyped
<1>2. Inv /\ [Next]_vars => Inv'
  BY CalendarStep, SweepStep, SendStep, MailStep, NewRowsStep
<1>3. Init => Outbox!Init
  BY DEF Init, Outbox!Init
<1>4. Inv /\ [Next]_vars => [Outbox!Next]_(Outbox!vars)
  BY OutboxStep
<1> QED
  BY <1>1, <1>2, <1>3, <1>4, PTL DEF Spec, Outbox!Spec, KeepsOutbox
=============================================================================
