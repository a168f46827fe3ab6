------------------------------ MODULE Workspace ------------------------------
(***************************************************************************)
(* What an organisation works with: its matches and the team's decisions   *)
(* on them (matches.controller.ts), its profile and the watch profile made *)
(* of it (profile.controller.ts), and the tenders that pursuits and        *)
(* forwarded alert mails open (inbound.controller.ts, inbound.py).         *)
(*                                                                         *)
(* Requests and jobs are READ COMMITTED transactions on a connection: one  *)
(* step per statement that another may come between, else one step.  Mails *)
(* are known by the links in them, links by what recognise and             *)
(* is_boilerplate make of them.  A score is not modelled, nor the          *)
(* notify.send of a high one, which adds no row for notify.send to find.   *)
(***************************************************************************)
EXTENDS Integers, Sequences, FiniteSets, SequencesExt

CONSTANTS
  Notice, Family, Url, Message, Connection,
  None,
  Families,    \* CPV families of each notice
  Names,       \* the notice whose source and external id a link carries
  Boilerplate, \* links of the mail itself
  To,          \* how the address names an organisation
  Text, Html,  \* links in the parts of a message
  HasId,       \* messages that carry a message id
  MaxLinks,
  MaxDeliveries, MaxFailures \* bounds

ASSUME WorkspaceAssumption ==
  /\ None \notin Notice /\ None \notin Url /\ None \notin Nat
  /\ Families \in [Notice -> SUBSET Family]
  /\ Names \in [Url -> Notice \cup {None}] /\ Boilerplate \subseteq Url
  /\ To \in [Message -> {"exact", "folded", "unreadable", "unknown"}]
  /\ Text \in [Message -> Seq(Url)] /\ Html \in [Message -> Seq(Url)]
  /\ HasId \subseteq Message
  /\ MaxLinks \in Nat /\ MaxDeliveries \in Nat /\ MaxFailures \in Nat

State == {"none", "new", "shortlisted", "dismissed", "pursued"}
Reason == {"too_far", "wrong_domain"}

(* A job of a message is known by its message id, or by the delivery.      *)
MailJob == [message : Message, delivery : 0..MaxDeliveries]

Tender == [id : Nat, notice : Notice \cup {None}, url : Url \cup {None},
           origin : {"match", "email"}]

Idle == [kind |-> "idle"]
Txn ==
  {Idle}
    \cup [kind : {"pursue"}, notice : Notice, existing : BOOLEAN, from : Nat]
    \cup [kind : {"profile"}, given : BOOLEAN, families : SUBSET Family, count : Nat \cup {None}]
    \cup [kind : {"match"}, notice : Notice, fits : BOOLEAN]
    \cup [kind : {"mail"}, job : MailJob, todo : SUBSET Nat, opened : SUBSET Tender]

VARIABLES
  known,       \* notices
  scoring,     \* notice.match job of each notice: "absent", "pending" or "done"
  state, reason, \* matches
  profile,     \* company_profiles: there is a row
  families,    \* ... and its cpv_families
  watches,     \* watch_profiles: the filters of each, in order of creation
  tenders,
  ids,         \* the next number: tenders are numbered in the order of their commits
  mailing,     \* email.inbound jobs: "absent", "pending" or "done"
  txn,         \* what a connection is doing
  \* history, read by no action
  deliveries,
  decided,     \* the last decision of the team on a match
  overlapped,  \* links and notices whose tenders came from overlapping transactions
  failures

matches == <<state, reason>>
setup == <<profile, families, watches>>
mails == <<mailing, deliveries>>
vars == <<known, scoring, matches, setup, tenders, ids, mails, txn, decided, overlapped, failures>>

Init ==
  /\ known = {} /\ scoring = [n \in Notice |-> "absent"]
  /\ state = [n \in Notice |-> "none"] /\ reason = [n \in Notice |-> None]
  /\ profile = FALSE /\ families = {} /\ watches = <<>>
  /\ tenders = {} /\ ids = 0
  /\ mailing = [j \in MailJob |-> "absent"]
  /\ txn = [c \in Connection |-> Idle]
  /\ deliveries = 0
  /\ decided = [n \in Notice |-> "new"]
  /\ overlapped = {} /\ failures = 0

-----------------------------------------------------------------------------
(* The pipeline stores a notice and enqueues its match job, once for all.  *)
Ingest(n) ==
  /\ n \notin known
  /\ known' = known \cup {n}
  /\ scoring' = [scoring EXCEPT ![n] = "pending"]
  /\ UNCHANGED <<matches, setup, tenders, ids, mails, txn, decided, overlapped, failures>>

(* A job that committed is done, or runs again when its completion is lost.*)
Settled(p) ==
  \/ p = "done" /\ UNCHANGED failures
  \/ p = "pending" /\ failures < MaxFailures /\ failures' = failures + 1

(* run_match reads the notice and the watch profiles ...                   *)
MatchReads(c, n) ==
  /\ txn[c] = Idle
  /\ scoring[n] = "pending" /\ \A d \in Connection : txn[d].kind = "match" => txn[d].notice # n
  /\ txn' = [txn EXCEPT ![c] =
               [kind |-> "match", notice |-> n,
                fits |-> \E i \in DOMAIN watches : watches[i] \cap Families[n] # {}]]
  /\ UNCHANGED <<known, scoring, matches, setup, tenders, ids, mails, decided, overlapped, failures>>

(* Variant: the upsert writes every column of the row.                     *)
RescoredAsNew(n, fits) == [state EXCEPT ![n] = IF fits THEN "new" ELSE @]

(* ... and upserts a match: a row that is there keeps its state.           *)
Rescored(n, fits) == [state EXCEPT ![n] = IF fits /\ @ = "none" THEN "new" ELSE @]

MatchWrites(c) ==
  /\ txn[c].kind = "match"
  /\ state' = Rescored(txn[c].notice, txn[c].fits)
  /\ \E p \in {"done", "pending"} :
       Settled(p) /\ scoring' = [scoring EXCEPT ![txn[c].notice] = p]
  /\ txn' = [txn EXCEPT ![c] = Idle]
  /\ UNCHANGED <<known, reason, setup, tenders, ids, mails, decided, overlapped>>

-----------------------------------------------------------------------------
(* A team member decides: whatever the state of the match.                 *)
Transition(n, s, r) ==
  /\ state[n] # "none"
  /\ state' = [state EXCEPT ![n] = s]
  /\ reason' = [reason EXCEPT ![n] = r]
  /\ decided' = [decided EXCEPT ![n] = s]
  /\ UNCHANGED <<known, scoring, setup, tenders, ids, mails, txn, overlapped, failures>>

Shortlist(n) == Transition(n, "shortlisted", None)
Dismiss(n) == \E r \in Reason : Transition(n, "dismissed", r)

(* Variant: only tenders that a pursuit opened are looked at.              *)
ExistingOfPursuits(n) == {t \in tenders : t.notice = n /\ t.origin = "match"}

Existing(n) == {t \in tenders : t.notice = n}

(* pursue reads the match and looks for a tender of its notice ...         *)
PursueReads(c, n) ==
  /\ txn[c] = Idle
  /\ state[n] # "none"
  /\ txn' = [txn EXCEPT ![c] =
               [kind |-> "pursue", notice |-> n, existing |-> Existing(n) # {}, from |-> ids]]
  /\ UNCHANGED <<known, scoring, matches, setup, tenders, ids, mails, decided, overlapped, failures>>

(* ... and opens one if there was none.  The reason of an earlier dismissal*)
(* stays.                                                                  *)
PursueWrites(c) ==
  LET n == txn[c].notice
  IN /\ txn[c].kind = "pursue"
     /\ IF txn[c].existing THEN UNCHANGED <<tenders, ids, overlapped>>
        ELSE /\ tenders' = tenders \cup
                  {[id |-> ids, notice |-> n, url |-> None, origin |-> "match"]}
             /\ ids' = ids + 1
             /\ overlapped' = overlapped \cup
                  {t.notice : t \in {s \in tenders : s.notice = n /\ s.id >= txn[c].from}}
     /\ state' = [state EXCEPT ![n] = "pursued"]
     /\ decided' = [decided EXCEPT ![n] = "pursued"]
     /\ txn' = [txn EXCEPT ![c] = Idle]
     /\ UNCHANGED <<known, scoring, reason, setup, mails, failures>>

-----------------------------------------------------------------------------
(* The registry lookup keeps the identity; the suggestions are not saved.  *)
Bootstrap ==
  /\ \A c \in Connection : txn[c].kind # "profile"
  /\ profile' = TRUE
  /\ UNCHANGED <<known, scoring, matches, families, watches, tenders, ids, mails, txn, decided,
                 overlapped, failures>>

(* Variant: the statement takes no lock.                                   *)
RowAtOnce(c) == TRUE

(* The upsert waits for the row of the organisation.                       *)
RowFree(c) == \A d \in Connection : txn[d].kind # "profile"

(* update: the profile is upserted, families that are not given are kept.  *)
SaveUpserts(c, given, F) ==
  /\ txn[c] = Idle
  /\ RowFree(c)
  /\ given \/ F = {}
  /\ txn' = [txn EXCEPT ![c] = [kind |-> "profile", given |-> given, families |-> F, count |-> None]]
  /\ UNCHANGED <<known, scoring, matches, setup, tenders, ids, mails, decided, overlapped, failures>>

(* ... then the watch profiles are counted,                                *)
SaveCounts(c) ==
  /\ txn[c].kind = "profile" /\ txn[c].count = None
  /\ txn' = [txn EXCEPT ![c].count = Len(watches)]
  /\ UNCHANGED <<known, scoring, matches, setup, tenders, ids, mails, decided, overlapped, failures>>

(* ... and the first one is made, of the families just given.              *)
SaveCommits(c) ==
  /\ txn[c].kind = "profile" /\ txn[c].count # None
  /\ watches' = IF txn[c].count = 0 /\ txn[c].families # {}
                THEN Append(watches, txn[c].families) ELSE watches
  /\ profile' = TRUE
  /\ families' = IF txn[c].given THEN txn[c].families ELSE families
  /\ txn' = [txn EXCEPT ![c] = Idle]
  /\ UNCHANGED <<known, scoring, matches, tenders, ids, mails, decided, overlapped, failures>>

-----------------------------------------------------------------------------
(* receive: one job per message id; without one, each delivery has its own.*)
Receive(m) ==
  LET j == [message |-> m, delivery |-> IF m \in HasId THEN 0 ELSE deliveries]
  IN /\ deliveries < MaxDeliveries
     /\ deliveries' = deliveries + 1
     /\ mailing' = [mailing EXCEPT ![j] = IF @ = "absent" THEN "pending" ELSE @]
     /\ UNCHANGED <<known, scoring, matches, setup, tenders, ids, txn, decided, overlapped, failures>>

(* The links of a message in their order; one is known by its position.    *)
Body(m) == Text[m] \o Html[m]

(* extract_links: every link once, where it first appears.                 *)
Found(m) == {i \in DOMAIN Body(m) : \A h \in 1..(i - 1) : Body(m)[h] # Body(m)[i]}

FirstOf(S) == {i \in S : Cardinality({h \in S : h <= i}) <= MaxLinks}
Real(m, S) == {i \in S : Body(m)[i] \notin Boilerplate}

(* Variant: the limit applies to all links, then boilerplate is left out.  *)
LinksOfLimited(m) == Real(m, FirstOf(Found(m)))

(* Boilerplate is left out, then the limit applies.                        *)
Links(m) == FirstOf(Real(m, Found(m)))

(* _resolve_org: the address as it is, or whatever its case.               *)
Resolves(m) == To[m] \in {"exact", "folded"}

(* recognise, and the notice if it is there already.                       *)
NoticeOf(u) == IF Names[u] \in known THEN Names[u] ELSE None

(* Mail that names no organisation is rejected: none of its links counts.  *)
MailBegins(c, j) ==
  /\ txn[c] = Idle
  /\ mailing[j] = "pending" /\ \A d \in Connection : txn[d].kind = "mail" => txn[d].job # j
  /\ txn' = [txn EXCEPT ![c] =
               [kind |-> "mail", job |-> j, opened |-> {},
                todo |-> IF Resolves(j.message) THEN Links(j.message) ELSE {}]]
  /\ UNCHANGED <<known, scoring, matches, setup, tenders, ids, mails, decided, overlapped, failures>>

OpenForLink(T, u) == \E t \in T : t.url = u

(* The next link: a tender, unless one of its URL is committed or its own. *)
MailOpens(c) ==
  /\ txn[c].kind = "mail"
  /\ \E i \in txn[c].todo :
       LET u == Body(txn[c].job.message)[i]
       IN /\ \A h \in txn[c].todo : i <= h
          /\ txn' = [txn EXCEPT ![c].todo = @ \ {i},
                       ![c].opened = IF OpenForLink(tenders \cup @, u) THEN @
                                     ELSE @ \cup {[id |-> i, notice |-> NoticeOf(u), url |-> u,
                                                   origin |-> "email"]}]
  /\ UNCHANGED <<known, scoring, matches, setup, tenders, ids, mails, decided, overlapped, failures>>

(* The event of the message, and the commit.                               *)
MailCommits(c) ==
  /\ txn[c].kind = "mail" /\ txn[c].todo = {}
  /\ tenders' = tenders \cup {[t EXCEPT !.id = @ + ids] : t \in txn[c].opened}
  /\ ids' = ids + Len(Body(txn[c].job.message)) + 1
  /\ overlapped' = overlapped \cup {t.url : t \in {s \in txn[c].opened :
                                                    OpenForLink(tenders, s.url)}}
  /\ \E p \in {"done", "pending"} :
       Settled(p) /\ mailing' = [mailing EXCEPT ![txn[c].job] = p]
  /\ txn' = [txn EXCEPT ![c] = Idle]
  /\ UNCHANGED <<known, scoring, matches, setup, deliveries, decided>>

(* Variant: the tenders of each link are committed at once.                *)
RollsBackPartly(c) ==
  /\ txn[c] # Idle
  /\ failures < MaxFailures /\ failures' = failures + 1
  /\ tenders' = tenders \cup (IF txn[c].kind = "mail" THEN txn[c].opened ELSE {})
  /\ txn' = [txn EXCEPT ![c] = Idle]
  /\ UNCHANGED <<known, scoring, matches, setup, ids, mails, decided, overlapped>>

(* A transaction rolls back; its job is still pending.                     *)
RollsBack(c) ==
  /\ txn[c] # Idle
  /\ failures < MaxFailures /\ failures' = failures + 1
  /\ txn' = [txn EXCEPT ![c] = Idle]
  /\ UNCHANGED <<known, scoring, matches, setup, tenders, ids, mails, decided, overlapped>>

Next ==
  \/ Bootstrap
  \/ \E n \in Notice : Ingest(n) \/ Shortlist(n) \/ Dismiss(n)
  \/ \E m \in Message : Receive(m)
  \/ \E c \in Connection :
       \/ \E n \in Notice : MatchReads(c, n) \/ PursueReads(c, n)
       \/ \E given \in BOOLEAN, F \in SUBSET Family : SaveUpserts(c, given, F)
       \/ \E j \in MailJob : MailBegins(c, j)
       \/ MatchWrites(c) \/ PursueWrites(c) \/ SaveCounts(c) \/ SaveCommits(c)
       \/ MailOpens(c) \/ MailCommits(c) \/ RollsBack(c)

Spec == Init /\ [][Next]_vars

-----------------------------------------------------------------------------
(* The type of every variable; a tender has its own number, and a mail     *)
(* under way has opened none for a link it has not come to.                *)
TypeOK ==
  /\ known \subseteq Notice
  /\ scoring \in [Notice -> {"absent", "pending", "done"}]
  /\ state \in [Notice -> State] /\ reason \in [Notice -> Reason \cup {None}]
  /\ profile \in BOOLEAN /\ families \subseteq Family /\ watches \in Seq(SUBSET Family)
  /\ tenders \subseteq Tender /\ ids \in Nat
  /\ mailing \in [MailJob -> {"absent", "pending", "done"}]
  /\ txn \in [Connection -> Txn]
  /\ deliveries \in 0..MaxDeliveries
  /\ decided \in [Notice -> State]
  /\ overlapped \subseteq Notice \cup Url
  /\ failures \in 0..MaxFailures
  /\ \A t \in tenders : t.id < ids /\ \A u \in tenders : t.id = u.id => t = u
  /\ \A c \in Connection : txn[c].kind = "mail" => \A t \in txn[c].opened : t.id \notin txn[c].todo

(* "Idempotent: pursuing twice must not create a second workspace for one  *)
(* notice" (matches.controller.ts): a pursuit opens no tender beside one   *)
(* of its notice, from whatever origin, but for one that was committed     *)
(* after the pursuit had looked.                                           *)
PursuitReuses ==
  \A t, u \in tenders :
    t.notice # None /\ t.notice = u.notice /\ t.id < u.id /\ u.origin = "match" =>
      t.notice \in overlapped

(* "Idempotent by (org, url): portals resend alerts and webhooks retry,    *)
(* and neither should open a second workspace for the same consultation"   *)
(* (inbound.py): only overlapping jobs open two tenders for a link.        *)
OneTenderPerLink ==
  \A t, u \in tenders : t # u /\ t.url # None /\ t.url = u.url => t.url \in overlapped

(* A pursuit opens no second workspace for a notice, a mail none for a     *)
(* link, however often it is repeated.  A mail looks at links only: what   *)
(* comes by mail after the pursuit of its notice, or with two links to one *)
(* notice, has a tender of its own.                                        *)
OneWorkspace == PursuitReuses /\ OneTenderPerLink

(* The state of a match is the team's last decision: scoring it again does *)
(* not bring a dismissed match back, and a reason stays with a match that  *)
(* was dismissed, or pursued since.                                        *)
TeamDecides ==
  \A n \in Notice : /\ state[n] \in {"none", decided[n]}
                    /\ reason[n] # None => state[n] \in {"dismissed", "pursued"}

(* "Confirming a profile creates one if the org has none - otherwise       *)
(* onboarding would end with an empty inbox" (profile.controller.ts): an   *)
(* organisation with families in its profile watches, and the order of     *)
(* upsert and count keeps simultaneous saves from making two.              *)
OneWatch ==
  /\ Len(watches) <= 1
  /\ families # {} => Len(watches) = 1

(* "A real tender filtered out silently is exactly the miss this product   *)
(* exists to prevent" (inbound.py): a processed message of the             *)
(* organisation has a tender for each of its links that is not furniture,  *)
(* or for as many as the limit allows.                                     *)
EveryLinkOpened ==
  \A j \in MailJob :
    mailing[j] = "done" /\ To[j.message] \in {"exact", "folded"} =>
      LET real == {u \in ToSet(Body(j.message)) : u \notin Boilerplate}
          open == {u \in real : \E t \in tenders : t.url = u}
      IN open = real \/ Cardinality(open) >= MaxLinks

(* A tender as the team sees it.                                           *)
Shown(t) == [notice |-> t.notice, url |-> t.url, origin |-> t.origin]

Contract == INSTANCE WorkspaceContract WITH
  Opens <- [m \in Message |-> IF Resolves(m) THEN {Body(m)[i] : i \in Links(m)} ELSE {}],
  tenders <- {Shown(t) : t \in tenders}

(* Every request, scoring and mail takes effect in one step, that of its   *)
(* last statement, although other transactions commit between its          *)
(* statements: what it read still holds, and nothing of it is seen before. *)
(* So it is as long as no two transactions have opened a tender of the     *)
(* same notice or link at once.                                            *)
TakesEffectAtOnce ==
  Contract!Init /\ [][overlapped' = {} => [Contract!Next]_(Contract!vars)]_vars
=============================================================================
