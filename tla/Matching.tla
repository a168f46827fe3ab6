------------------------------ MODULE Matching ------------------------------
(***************************************************************************)
(* The matching funnel (matching.py): the vetoes of a watch profile, then  *)
(* a score of six weighted factors, for a notice and a company, while the  *)
(* deadline of the notice comes closer.                                    *)
(*                                                                         *)
(* CPV and NUTS codes are sequences, so that their hierarchy is the prefix *)
(* order; a text is the set of the words and certifications found in it.   *)
(* Fits are counted in sixtieths, which holds the halves, thirds and       *)
(* tenths of the code, and points in sixtieths of a point.  Left out: the  *)
(* wording of details, and embeddings, which no caller passes.             *)
(***************************************************************************)
EXTENDS Integers, Sequences, SequencesExt, FiniteSets

CONSTANTS
  Notices, Filters, Companies, \* inputs: records as below
  Areas,       \* the finest NUTS codes
  None, Star,
  Blank,       \* words of which normalize_text leaves nothing
  Runway,      \* COMFORTABLE_RUNWAY_DAYS
  InstantThreshold,
  MaxTime      \* bound, in days

(* A NUTS code names the areas below it.                                   *)
Names(code) == code \in Seq(Nat) /\ \E area \in Areas : IsPrefix(code, area)

ASSUME MatchingAssumption ==
  /\ None \notin Int /\ Areas \subseteq Seq(Nat)
  /\ Runway \in Nat \ {0} /\ InstantThreshold \in Nat
  /\ MaxTime \in Nat
  /\ \A n \in Notices : /\ n.deadline \in Nat \cup {None} /\ n.amount \in Nat \cup {None}
                        /\ n.codes \in Seq(Seq(Nat))
                        /\ \A place \in n.places : Names(place) /\ Len(place) <= 5
  /\ \A f \in Filters : /\ f.minDays \in Nat \cup {None}
                        /\ \A zone \in f.nuts : Names(zone) /\ zone # <<>>
  /\ \A c \in Companies : /\ c.revenue \in Nat /\ c.national \in BOOLEAN
                          /\ IsFiniteSet(c.keywords)

VARIABLES now, notice, filters, company

vars == <<now, notice, filters, company>>

Init ==
  /\ now = 0
  /\ notice \in Notices /\ filters \in Filters /\ company \in Companies

DayPasses ==
  /\ now < MaxTime
  /\ now' = now + 1
  /\ UNCHANGED <<notice, filters, company>>

Next == DayPasses

Spec == Init /\ [][Next]_vars

-----------------------------------------------------------------------------
(* family.rstrip("*"): a family of stars alone is the prefix of any code.  *)
Stripped(family) ==
  CHOOSE p \in {SubSeq(family, 1, k) : k \in 0..Len(family)} :
    /\ \A i \in (Len(p) + 1)..Len(family) : family[i] = Star
    /\ p # <<>> => p[Len(p)] # Star

(* cpv_matches: a code below one of the families.                          *)
CpvMatches(code, families) ==
  \E family \in families : family # <<>> /\ IsPrefix(Stripped(family), code)

(* Variant: only a place inside a zone matches.                            *)
NutsInside(code, zones) == \E zone \in zones : zone # <<>> /\ IsPrefix(zone, code)

(* nuts_matches: one of the two lies in the other.                         *)
NutsMatches(code, zones) ==
  \E zone \in zones : zone # <<>> /\ (IsPrefix(zone, code) \/ IsPrefix(code, zone))

(* normalize_text(word) in haystack                                        *)
InText(word) == word \in notice.words \cup Blank

DeadlineTooClose ==
  filters.minDays # None /\ notice.deadline # None /\ notice.deadline - now < filters.minDays

AmountOutOfRange ==
  /\ notice.amount # None
  /\ \/ filters.amountMin # None /\ notice.amount < filters.amountMin
     \/ filters.amountMax # None /\ notice.amount > filters.amountMax

(* apply_hard_filters: the vetoes in their order, and the first that holds.*)
Vetoes ==
  << <<"notice_type_excluded", filters.types # {} /\ notice.type \notin filters.types>>,
     <<"country_excluded", filters.countries # {} /\ notice.country \notin filters.countries>>,
     <<"cpv_mismatch", filters.families # {} /\ ~\E i \in DOMAIN notice.codes :
                          CpvMatches(notice.codes[i], filters.families)>>,
     <<"geography_excluded", filters.nuts # {} /\ notice.places # {} /\
                             ~\E place \in notice.places : NutsMatches(place, filters.nuts)>>,
     <<"deadline_too_close", DeadlineTooClose>>,
     <<"amount_out_of_range", AmountOutOfRange>>,
     <<"procedure_excluded", filters.procedures # {} /\
                             notice.procedure \notin filters.procedures>>,
     <<"excluded_keyword_present", \E word \in filters.exclude : InText(word)>>,
     <<"required_keyword_missing", filters.include # {} /\
                                   ~\E word \in filters.include : InText(word)>> >>

Outcome ==
  LET failing == {i \in DOMAIN Vetoes : Vetoes[i][2]}
  IN IF failing = {} THEN "pass" ELSE Vetoes[Min(failing)][1]

-----------------------------------------------------------------------------
Most(a, b) == IF a >= b THEN a ELSE b
Least(a, b) == IF a <= b THEN a ELSE b

(* _activity_fit: the share of the codes, or of three keywords.            *)
ActivityFit ==
  LET hits == {i \in DOMAIN notice.codes : CpvMatches(notice.codes[i], company.families)}
      cpv == IF notice.codes = <<>> THEN 0 ELSE (60 * Cardinality(hits)) \div Len(notice.codes)
      keywords == Least(60, 20 * Cardinality({word \in company.keywords : InText(word)}))
  IN Most(cpv, keywords)

(* _geographic_fit: unknown is neutral; a finer place fits better.         *)
GeographicFit ==
  LET hits == {place \in notice.places : NutsMatches(place, company.zones)}
      best == CHOOSE d \in {Len(place) : place \in hits} : \A place \in hits : Len(place) <= d
  IN CASE company.national -> 60
       [] ~company.national /\ (notice.places = {} \/ company.zones = {}) -> 30
       [] ~company.national /\ notice.places # {} /\ company.zones # {} /\ hits = {} -> 0
       [] OTHER -> Least(60, 42 + 6 * (best - 2))

(* _size_fit: material but not existential.                                *)
SizeFit ==
  LET ratio == (60 * notice.amount) \div company.revenue
  IN IF notice.amount = None \/ company.revenue = 0 THEN 30
     ELSE IF 2 * notice.amount > company.revenue THEN Most(0, 60 - ratio)
     ELSE Least(60, 30 + ratio)

CertificationFit == IF notice.certifications \subseteq company.certifications THEN 60 ELSE 0

BuyerFamiliarity == IF notice.buyer \in company.buyers THEN 60 ELSE 0

(* Variant: days are counted from the deadline, either way.                *)
ComfortEitherWay ==
  LET days == IF notice.deadline >= now THEN notice.deadline - now ELSE now - notice.deadline
  IN IF notice.deadline = None THEN 30 ELSE Least(60, (60 * days) \div Runway)

DeadlineComfort ==
  CASE notice.deadline = None -> 30
    [] notice.deadline # None /\ notice.deadline <= now -> 0
    [] OTHER -> Least(60, (60 * (notice.deadline - now)) \div Runway)

(* DEFAULT_WEIGHTS, in percent.                                            *)
Weights == [activity |-> 35, geographic |-> 20, size |-> 15, certification |-> 10,
            buyer |-> 5, deadline |-> 15]

Fits == [activity |-> ActivityFit, geographic |-> GeographicFit, size |-> SizeFit,
         certification |-> CertificationFit, buyer |-> BuyerFamiliarity,
         deadline |-> DeadlineComfort]

Factor == DOMAIN Weights

Points(k) == Most(0, Least(60, Fits[k])) * Weights[k]

(* round: halves go to the even neighbour.                                 *)
Rounded(p) ==
  LET s == p \div 60
      r == p % 60
  IN IF r > 30 \/ (r = 30 /\ s % 2 = 1) THEN s + 1 ELSE s

Total ==
  Points("activity") + Points("geographic") + Points("size") + Points("certification")
    + Points("buyer") + Points("deadline")

(* score_notice                                                            *)
Score == Rounded(Total)

(* The threshold of run_match.                                             *)
Instant == Outcome = "pass" /\ Score >= InstantThreshold

-----------------------------------------------------------------------------

(* "Either way the work is reachable" (matching.py): a notice is excluded  *)
(* on geography exactly if none of the finest areas that its places cover  *)
(* is in the zones, and all filters before let it through; a notice with   *)
(* no place never is.                                                      *)
Covered(codes) == {area \in Areas : \E code \in codes : IsPrefix(code, area)}

GeographyIsReach ==
  filters.nuts # {} /\ notice.places # {} =>
    /\ Outcome = "geography_excluded" => Covered(notice.places) \cap Covered(filters.nuts) = {}
    /\ Outcome \in {"deadline_too_close", "amount_out_of_range", "pass"} =>
         Covered(notice.places) \cap Covered(filters.nuts) # {}

(* Waiting opens no door: as days pass a score never rises, and a notice   *)
(* that a filter excludes is not let in later.                             *)
OnlyCloses ==
  [][Score' <= Score /\ (Outcome # "pass" => Outcome' # "pass")]_vars
=============================================================================
