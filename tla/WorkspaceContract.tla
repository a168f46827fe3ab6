-------------------------- MODULE WorkspaceContract --------------------------
(***************************************************************************)
(* What a team relies on when it works on its board: each request, each    *)
(* scoring and each mail takes effect at once, on what the ones before it  *)
(* left.  No connections, statements, jobs, retries or rollbacks:          *)
(* Workspace implements this as long as no two transactions open a tender  *)
(* for the same thing at the same time.                                    *)
(***************************************************************************)
CONSTANTS
  Notice, Family, Message, Reason, None,
  Families, \* CPV families of each notice
  Names,    \* the notice that a link names, or None
  Opens     \* the links of each message that are to have a tender

VARIABLES
  known,           \* notices
  state, reason,   \* matches
  profile, families, \* the company profile
  watches,         \* CPV families of the watch profiles
  tenders

vars == <<known, state, reason, profile, families, watches, tenders>>

Init ==
  /\ known = {}
  /\ state = [n \in Notice |-> "none"] /\ reason = [n \in Notice |-> None]
  /\ profile = FALSE /\ families = {} /\ watches = <<>>
  /\ tenders = {}

Ingest(n) ==
  /\ known' = known \cup {n}
  /\ UNCHANGED <<state, reason, profile, families, watches, tenders>>

(* A notice that fits a watch profile becomes a match, once.             *)
Score(n) ==
  /\ n \in known /\ state[n] = "none"
  /\ \E i \in DOMAIN watches : watches[i] \cap Families[n] # {}
  /\ state' = [state EXCEPT ![n] = "new"]
  /\ UNCHANGED <<known, reason, profile, families, watches, tenders>>

Decide(n, s, r) ==
  /\ state[n] # "none"
  /\ state' = [state EXCEPT ![n] = s] /\ reason' = [reason EXCEPT ![n] = r]
  /\ UNCHANGED <<known, profile, families, watches, tenders>>

(* A notice has one workspace, whoever opened it.                          *)
Pursue(n) ==
  /\ state[n] # "none"
  /\ state' = [state EXCEPT ![n] = "pursued"]
  /\ tenders' = IF \E t \in tenders : t.notice = n THEN tenders
                ELSE tenders \cup {[notice |-> n, url |-> None, origin |-> "match"]}
  /\ UNCHANGED <<known, reason, profile, families, watches>>

Bootstrap ==
  /\ profile' = TRUE
  /\ UNCHANGED <<known, state, reason, families, watches, tenders>>

(* The first families that are confirmed are watched.                      *)
Save(given, F) ==
  /\ given \/ F = {}
  /\ profile' = TRUE
  /\ families' = IF given THEN F ELSE families
  /\ watches' = IF watches = <<>> /\ F # {} THEN <<F>> ELSE watches
  /\ UNCHANGED <<known, state, reason, tenders>>

(* One tender for each link that has none, all at once.  Recognised: links *)
(* whose notice was there when they were looked at.                        *)
Mail(m) ==
  LET missing == {u \in Opens[m] : \A t \in tenders : t.url # u}
  IN /\ \E recognised \in SUBSET {u \in missing : Names[u] \in known} :
          tenders' = tenders \cup
            {[notice |-> IF u \in recognised THEN Names[u] ELSE None, url |-> u,
              origin |-> "email"] : u \in missing}
     /\ UNCHANGED <<known, state, reason, profile, families, watches>>

Next ==
  \/ Bootstrap
  \/ \E n \in Notice :
       \/ Ingest(n) \/ Score(n) \/ Pursue(n)
       \/ Decide(n, "shortlisted", None) \/ \E r \in Reason : Decide(n, "dismissed", r)
  \/ \E given \in BOOLEAN, F \in SUBSET Family : Save(given, F)
  \/ \E m \in Message : Mail(m)

Spec == Init /\ [][Next]_vars
=============================================================================
