---------------------------- MODULE Matching_proofs ----------------------------
(***************************************************************************)
(* Proofs about Matching, for any notices, watch profiles and companies.   *)
(***************************************************************************)
EXTENDS Matching, FiniteSetTheorems, WellFoundedInduction, TLAPS

Given == notice \in Notices /\ filters \in Filters /\ company \in Companies /\ now \in Nat

LEMMA Inputs ==
  ASSUME Given
  PROVE  /\ None \notin Int /\ Runway \in Nat \ {0} /\ Areas \subseteq Seq(Nat)
         /\ notice.deadline \in Nat \cup {None} /\ notice.amount \in Nat \cup {None}
         /\ notice.codes \in Seq(Seq(Nat))
         /\ \A place \in notice.places : Names(place) /\ Len(place) <= 5
         /\ filters.minDays \in Nat \cup {None}
         /\ \A zone \in filters.nuts : Names(zone) /\ zone # <<>>
         /\ company.revenue \in Nat /\ company.national \in BOOLEAN
         /\ IsFiniteSet(company.keywords)
BY MatchingAssumption DEF Given

LEMMA GivenStays == Spec => []Given
<1>1. Init => Given
  BY DEF Init, Given
<1>2. Given /\ [Next]_vars => Given'
  BY DEF Given, Next, DayPasses, vars
<1> QED
  BY <1>1, <1>2, PTL DEF Spec

-----------------------------------------------------------------------------
(* A set of naturals has a least element.                                  *)
LEMMA LeastNat ==
  ASSUME NEW S \in SUBSET Nat, S # {}
  PROVE  \E x \in S : \A y \in S : x <= y
<1>1. PICK x \in S : \A y \in S : ~(<<y, x>> \in OpToRel(<, Nat))
  BY NatLessThanWellFounded, WFMin
<1>2. \A y \in S : ~(y < x)
  BY <1>1 DEF OpToRel
<1> QED
  BY <1>2

LEMMA LeastInSet ==
  ASSUME NEW S \in SUBSET Nat, S # {}
  PROVE  Min(S) \in S
BY LeastNat DEF Min

(* The veto that is reported, the first of nine, holds.                    *)
LEMMA FirstOf ==
  ASSUME NEW V, NEW out, NEW failing, \A i \in 1..9 : V[i][1] # "pass",
         \A i : i \in failing <=> i \in 1..9 /\ V[i][2],
         out = IF failing = {} THEN "pass" ELSE V[Min(failing)][1]
  PROVE  /\ out = "pass" <=> \A i \in 1..9 : ~V[i][2]
         /\ out # "pass" => \E i \in 1..9 : /\ V[i][2] /\ out = V[i][1]
                                           /\ \A j \in 1..9 : V[j][2] => i <= j
<1>1. failing # {} => Min(failing) \in failing /\ \A j \in failing : Min(failing) <= j
  <2>1. failing \in SUBSET Nat
    OBVIOUS
  <2> QED
    BY <2>1, LeastNat DEF Min
<1>2. CASE failing = {}
  BY <1>2
<1>3. CASE failing # {}
  <2>1. PICK m : m = Min(failing)
    OBVIOUS
  <2>2. m \in 1..9 /\ V[m][2] /\ out = V[m][1] /\ \A j \in 1..9 : V[j][2] => m <= j
    BY <1>1, <1>3, <2>1
  <2> QED
    BY <2>2
<1> QED
  BY <1>2, <1>3

LEMMA Reported ==
  /\ Outcome = "pass" <=> \A i \in 1..9 : ~Vetoes[i][2]
  /\ Outcome # "pass" => \E i \in 1..9 : /\ Vetoes[i][2] /\ Outcome = Vetoes[i][1]
                                        /\ \A j \in 1..9 : Vetoes[j][2] => i <= j
<1> DEFINE V == Vetoes
           failing == {i \in DOMAIN V : V[i][2]}
<1>1. DOMAIN V = 1..9 /\ \A i \in 1..9 : V[i][1] # "pass"
  BY DEF Vetoes
<1>2. Outcome = IF failing = {} THEN "pass" ELSE V[Min(failing)][1]
  BY DEF Outcome
<1>3. \A i : i \in failing <=> i \in 1..9 /\ V[i][2]
  BY <1>1
<1>4. V = Vetoes
  OBVIOUS
<1> HIDE DEF failing, V
<1>5. Outcome = "pass" <=> \A i \in 1..9 : ~V[i][2]
  BY <1>1, <1>2, <1>3, FirstOf
<1>6. Outcome # "pass" => \E i \in 1..9 : /\ V[i][2] /\ Outcome = V[i][1]
                                        /\ \A j \in 1..9 : V[j][2] => i <= j
  BY <1>1, <1>2, <1>3, FirstOf
<1> QED
  BY <1>4, <1>5, <1>6

LEMMA ReportedNext == Outcome' = "pass" => \A i \in 1..9 : ~Vetoes[i][2]'
<1> DEFINE V == Vetoes'
           failing == {i \in DOMAIN V : V[i][2]}
<1>1. DOMAIN V = 1..9 /\ \A i \in 1..9 : V[i][1] # "pass"
  BY DEF Vetoes
<1>2. Outcome' = IF failing = {} THEN "pass" ELSE V[Min(failing)][1]
  BY DEF Outcome
<1>3. \A i : i \in failing <=> i \in 1..9 /\ V[i][2]
  BY <1>1
<1>4. \A i \in 1..9 : V[i][2] <=> Vetoes[i][2]'
  OBVIOUS
<1> HIDE DEF failing, V
<1>5. Outcome' = "pass" => \A i \in 1..9 : ~V[i][2]
  BY <1>1, <1>2, <1>3, FirstOf
<1> QED
  BY <1>4, <1>5

-----------------------------------------------------------------------------
(* Two codes name a common area exactly if one is a prefix of the other.   *)
LEMMA PrefixPoints ==
  ASSUME NEW s \in Seq(Nat), NEW t \in Seq(Nat)
  PROVE  IsPrefix(s, t) <=> Len(s) <= Len(t) /\ \A i \in 1..Len(s) : s[i] = t[i]
<1>1. Len(s) \in Nat /\ Len(t) \in Nat
  OBVIOUS
<1>2. ASSUME Len(s) <= Len(t)
      PROVE  SubSeq(s, 1, Len(s)) = SubSeq(t, 1, Len(s)) <=> \A i \in 1..Len(s) : s[i] = t[i]
  <2>1. /\ SubSeq(s, 1, Len(s)) = [i \in 1..Len(s) |-> s[i]]
        /\ SubSeq(t, 1, Len(s)) = [i \in 1..Len(s) |-> t[i]]
    BY <1>1, <1>2
  <2> QED
    BY <2>1
<1> QED
  BY <1>2 DEF IsPrefix

LEMMA CommonArea ==
  ASSUME NEW a \in Seq(Nat), NEW b \in Seq(Nat), NEW c \in Seq(Nat)
  PROVE  /\ IsPrefix(a, c) /\ IsPrefix(b, c) => IsPrefix(a, b) \/ IsPrefix(b, a)
         /\ IsPrefix(a, b) /\ IsPrefix(b, c) => IsPrefix(a, c)
<1>1. Len(a) \in Nat /\ Len(b) \in Nat /\ Len(c) \in Nat
  OBVIOUS
<1>2. ASSUME IsPrefix(a, c), IsPrefix(b, c)
      PROVE  IsPrefix(a, b) \/ IsPrefix(b, a)
  BY <1>1, <1>2, PrefixPoints
<1>3. ASSUME IsPrefix(a, b), IsPrefix(b, c)
      PROVE  IsPrefix(a, c)
  BY <1>1, <1>3, PrefixPoints
<1> QED
  BY <1>2, <1>3

LEMMA MatchIsCommon ==
  ASSUME NEW place, NEW zone, Names(place), Names(zone), zone # <<>>, Areas \subseteq Seq(Nat)
  PROVE  NutsMatches(place, {zone}) <=> \E area \in Areas : IsPrefix(place, area) /\ IsPrefix(zone, area)
<1>1. place \in Seq(Nat) /\ zone \in Seq(Nat)
  BY DEF Names
<1>2. NutsMatches(place, {zone}) <=> IsPrefix(zone, place) \/ IsPrefix(place, zone)
  BY DEF NutsMatches
<1>3. ASSUME IsPrefix(zone, place) \/ IsPrefix(place, zone)
      PROVE  \E area \in Areas : IsPrefix(place, area) /\ IsPrefix(zone, area)
  BY <1>1, <1>3, CommonArea DEF Names
<1>4. ASSUME NEW area \in Areas, IsPrefix(place, area), IsPrefix(zone, area)
      PROVE  IsPrefix(zone, place) \/ IsPrefix(place, zone)
  BY <1>1, <1>4, CommonArea
<1> QED
  BY <1>2, <1>3, <1>4

(* Geography excludes exactly what cannot be reached, for any places and   *)
(* zones, and whatever the other filters say.                              *)
THEOREM GeographyIsReachHolds == Spec => []GeographyIsReach
<1>1. ASSUME Given
      PROVE  GeographyIsReach
  <2> SUFFICES ASSUME filters.nuts # {}, notice.places # {}
               PROVE  /\ Outcome = "geography_excluded" =>
                           Covered(notice.places) \cap Covered(filters.nuts) = {}
                      /\ Outcome \in {"deadline_too_close", "amount_out_of_range", "pass"} =>
                           Covered(notice.places) \cap Covered(filters.nuts) # {}
    BY DEF GeographyIsReach
  <2>1. Vetoes[4][2] <=> ~\E place \in notice.places : NutsMatches(place, filters.nuts)
    BY DEF Vetoes
  <2>2. \A place \in notice.places :
          NutsMatches(place, filters.nuts) <=> \E zone \in filters.nuts : NutsMatches(place, {zone})
    BY DEF NutsMatches
  <2>3. \A place \in notice.places : \A zone \in filters.nuts :
          NutsMatches(place, {zone}) <=>
            \E area \in Areas : IsPrefix(place, area) /\ IsPrefix(zone, area)
    BY <1>1, Inputs, MatchIsCommon
  <2>4. Vetoes[4][2] <=> Covered(notice.places) \cap Covered(filters.nuts) = {}
    BY <2>1, <2>2, <2>3 DEF Covered
  <2>5. Outcome = "geography_excluded" => Vetoes[4][2]
    <3>1. \A i \in 1..9 : Vetoes[i][1] = "geography_excluded" => i = 4
      BY DEF Vetoes
    <3> QED
      BY <3>1, Reported
  <2>6. Outcome \in {"deadline_too_close", "amount_out_of_range"} => ~Vetoes[4][2]
    <3>1. \A i \in 1..9 : Vetoes[i][1] \in {"deadline_too_close", "amount_out_of_range"} => i > 4
      BY DEF Vetoes
    <3> QED
      BY <3>1, Reported
  <2>7. Outcome = "pass" => ~Vetoes[4][2]
    BY Reported
  <2> QED
    BY <2>4, <2>5, <2>6, <2>7
<1> QED
  BY <1>1, GivenStays, PTL

-----------------------------------------------------------------------------
(* Waiting only adds to the vetoes.                                        *)
LEMMA VetoesStay ==
  ASSUME Given, DayPasses, NEW i \in 1..9, Vetoes[i][2]
  PROVE  Vetoes[i][2]'
<1>1. now' = now + 1 /\ UNCHANGED <<notice, filters, company>>
  BY DEF DayPasses
<1>2. CASE i = 5
  <2>1. DeadlineTooClose
    BY <1>2 DEF Vetoes
  <2>2. DeadlineTooClose'
    BY <1>1, <2>1, Inputs DEF DeadlineTooClose, Given
  <2> QED
    BY <1>2, <2>2 DEF Vetoes
<1>3. CASE i # 5
  <2>1. Vetoes[i][2]' <=> Vetoes[i][2]
    <3>1. (\A word : InText(word)' = InText(word)) /\ AmountOutOfRange' = AmountOutOfRange
      BY <1>1 DEF InText, AmountOutOfRange
    <3>2. i \in {1, 2, 3, 4, 6, 7, 8, 9}
      BY <1>3
    <3>3. i \in {1, 2, 3, 4} => Vetoes[i]' = Vetoes[i]
      BY <1>1 DEF Vetoes
    <3>4. i \in {6, 7} => Vetoes[i]' = Vetoes[i]
      BY <1>1, <3>1 DEF Vetoes
    <3>5. i = 8 => (Vetoes[i][2]' <=> Vetoes[i][2])
      <4>1. (\E word \in filters.exclude : InText(word))' <=> \E word \in filters.exclude : InText(word)
        BY <1>1 DEF InText
      <4> QED
        BY <4>1 DEF Vetoes
    <3>6. i = 9 => (Vetoes[i][2]' <=> Vetoes[i][2])
      <4>1. (\E word \in filters.include : InText(word))' <=> \E word \in filters.include : InText(word)
        BY <1>1 DEF InText
      <4> QED
        BY <1>1, <4>1 DEF Vetoes
    <3> QED
      BY <3>2, <3>3, <3>4, <3>5, <3>6
  <2> QED
    BY <2>1
<1> QED
  BY <1>2, <1>3

LEMMA VetoedStays ==
  ASSUME Given, DayPasses, Outcome # "pass"
  PROVE  Outcome' # "pass"
<1>1. PICK i \in 1..9 : Vetoes[i][2]
  BY Reported
<1>2. Vetoes[i][2]'
  BY <1>1, VetoesStay
<1>3. Outcome' = "pass" => \A j \in 1..9 : ~Vetoes[j][2]'
  BY ReportedNext
<1> QED
  BY <1>2, <1>3

-----------------------------------------------------------------------------
(* The points of every factor are numbers, and those of the deadline do    *)
(* not grow as it comes closer.                                            *)
LEMMA Quotients ==
  ASSUME NEW x \in Nat, NEW y \in Nat, x <= y, NEW d \in Nat \ {0}
  PROVE  x \div d \in Nat /\ x \div d <= y \div d
OBVIOUS

LEMMA ActivityType ==
  ASSUME Given
  PROVE  ActivityFit \in Int
<1> DEFINE hits == {i \in DOMAIN notice.codes : CpvMatches(notice.codes[i], company.families)}
           words == {word \in company.keywords : InText(word)}
<1>1. Len(notice.codes) \in Nat /\ DOMAIN notice.codes = 1..Len(notice.codes)
  BY Inputs
<1>2. IsFiniteSet(hits) /\ IsFiniteSet(words)
  <2>1. IsFiniteSet(1..Len(notice.codes)) /\ IsFiniteSet(company.keywords)
    <3>1. ASSUME NEW n \in Nat
          PROVE  IsFiniteSet(1..n)
      BY FS_Interval
    <3>2. IsFiniteSet(company.keywords)
      BY Inputs
    <3> QED
      BY <1>1, <3>1, <3>2
  <2>2. hits \subseteq 1..Len(notice.codes) /\ words \subseteq company.keywords
    BY <1>1
  <2> QED
    BY <2>1, <2>2, FS_Subset
<1>3. Cardinality(hits) \in Nat /\ Cardinality(words) \in Nat
  BY <1>2, FS_CardinalityType
<1>4. notice.codes # <<>> => Len(notice.codes) \in Nat \ {0}
  BY Inputs
<1>5. notice.codes # <<>> => (60 * Cardinality(hits)) \div Len(notice.codes) \in Int
  <2> HIDE DEF hits
  <2>1. 60 * Cardinality(hits) \in Nat
    BY <1>3
  <2> QED
    BY <2>1, <1>4, Quotients
<1>6. ActivityFit = Most(IF notice.codes = <<>> THEN 0 ELSE (60 * Cardinality(hits)) \div Len(notice.codes),
                         Least(60, 20 * Cardinality(words)))
  BY DEF ActivityFit
<1> HIDE DEF hits, words
<1> QED
  BY <1>3, <1>5, <1>6 DEF Most, Least

LEMMA GeographicType ==
  ASSUME Given
  PROVE  GeographicFit \in Int
<1> DEFINE hits == {place \in notice.places : NutsMatches(place, company.zones)}
           D == {Len(place) : place \in hits}
           best == CHOOSE d \in D : \A place \in hits : Len(place) <= d
<1>1. \A place \in hits : Len(place) \in Nat /\ Len(place) <= 5
  BY Inputs DEF Names
<1>2. hits # {} => best \in Nat
  <2> SUFFICES ASSUME hits # {}
               PROVE  best \in Nat
    OBVIOUS
  <2> HIDE DEF hits
  <2> DEFINE B == {5 - d : d \in D}
  <2>d. D # {} /\ \A d \in D : d \in Nat /\ d <= 5
    BY <1>1
  <2>h. \A place \in hits : Len(place) \in D
    OBVIOUS
  <2> HIDE DEF D
  <2>1. B \in SUBSET Nat /\ B # {}
    BY <2>d
  <2>2. PICK b \in B : \A c \in B : b <= c
    <3> HIDE DEF B
    <3> QED
      BY <2>1, LeastNat
  <2>3. PICK e \in D : b = 5 - e
    BY <2>2
  <2>4. \A place \in hits : Len(place) <= e
    <3>1. \A d \in D : b <= 5 - d
      BY <2>2
    <3> QED
      BY <2>3, <2>d, <2>h, <3>1
  <2>5. best \in D
    BY <2>3, <2>4
  <2> QED
    BY <2>d, <2>5
<1>3. GeographicFit \in {60, 30, 0, Least(60, 42 + 6 * (best - 2))}
  BY DEF GeographicFit
<1>4. hits = {} => GeographicFit \in {60, 30, 0}
  BY Inputs DEF GeographicFit
<1> HIDE DEF hits, best
<1> QED
  BY <1>2, <1>3, <1>4 DEF Least

LEMMA SizeType ==
  ASSUME Given
  PROVE  SizeFit \in Int
<1>1. CASE notice.amount = None \/ company.revenue = 0
  BY <1>1 DEF SizeFit
<1>2. CASE ~(notice.amount = None \/ company.revenue = 0)
  <2>1. notice.amount \in Nat /\ company.revenue \in Nat \ {0}
    BY <1>2, Inputs
  <2>2. (60 * notice.amount) \div company.revenue \in Nat
    BY <2>1, Quotients
  <2> QED
    BY <1>2, <2>2 DEF SizeFit, Most, Least
<1> QED
  BY <1>1, <1>2

LEMMA ComfortFalls ==
  ASSUME Given, DayPasses
  PROVE  DeadlineComfort \in Int /\ DeadlineComfort' \in Int /\ DeadlineComfort' <= DeadlineComfort
<1>1. now' = now + 1 /\ now \in Nat /\ notice' = notice
  BY DEF DayPasses, Given
<1>2. CASE notice.deadline = None
  BY <1>1, <1>2 DEF DeadlineComfort
<1>3. CASE notice.deadline # None /\ notice.deadline <= now
  BY <1>1, <1>3, Inputs DEF DeadlineComfort
<1>4. CASE notice.deadline # None /\ ~(notice.deadline <= now)
  <2> DEFINE x == 60 * (notice.deadline - (now + 1))
             y == 60 * (notice.deadline - now)
  <2>1. x \in Nat /\ y \in Nat /\ x <= y /\ Runway \in Nat \ {0}
    <3>1. notice.deadline \in Nat /\ Runway \in Nat \ {0}
      BY <1>4, Inputs
    <3>2. ASSUME NEW d \in Nat, d > now
          PROVE  /\ 60 * (d - (now + 1)) \in Nat /\ 60 * (d - now) \in Nat
                 /\ 60 * (d - (now + 1)) <= 60 * (d - now)
      BY <1>1, <3>2
    <3>3. notice.deadline > now
      BY <1>1, <1>4, <3>1
    <3> QED
      BY <3>1, <3>2, <3>3
  <2>2. DeadlineComfort = Least(60, y \div Runway)
    BY <1>4 DEF DeadlineComfort
  <2>3. DeadlineComfort' = 0 \/ DeadlineComfort' = Least(60, x \div Runway)
    BY <1>1, <1>4 DEF DeadlineComfort
  <2> HIDE DEF x, y
  <2>4. x \div Runway \in Nat /\ y \div Runway \in Nat /\ x \div Runway <= y \div Runway
    BY <2>1, Quotients
  <2> QED
    BY <2>2, <2>3, <2>4 DEF Least
<1> QED
  BY <1>2, <1>3, <1>4

(* The points of one factor, of a fit that is a number.                    *)
Clamped(x, weight) == Most(0, Least(60, x)) * weight

LEMMA Clamps ==
  ASSUME NEW x \in Int, NEW y \in Int, x <= y, NEW weight \in Nat
  PROVE  Clamped(x, weight) \in Nat /\ Clamped(x, weight) <= Clamped(y, weight)
<1> DEFINE a == Most(0, Least(60, x))
           b == Most(0, Least(60, y))
<1>1. a \in Nat /\ b \in Nat /\ a <= b
  BY DEF Most, Least
<1> HIDE DEF a, b
<1>2. a * weight \in Nat /\ a * weight <= b * weight
  BY <1>1
<1> QED
  BY <1>2 DEF Clamped, a, b

LEMMA Rounds ==
  ASSUME NEW p \in Nat, NEW q \in Nat, p <= q
  PROVE  Rounded(p) <= Rounded(q)
BY DEF Rounded

LEMMA TotalIs ==
  Total = Clamped(ActivityFit, 35) + Clamped(GeographicFit, 20) + Clamped(SizeFit, 15)
            + Clamped(CertificationFit, 10) + Clamped(BuyerFamiliarity, 5)
            + Clamped(DeadlineComfort, 15)
<1>1. /\ Points("activity") = Clamped(ActivityFit, 35)
      /\ Points("geographic") = Clamped(GeographicFit, 20)
      /\ Points("size") = Clamped(SizeFit, 15)
      /\ Points("certification") = Clamped(CertificationFit, 10)
      /\ Points("buyer") = Clamped(BuyerFamiliarity, 5)
      /\ Points("deadline") = Clamped(DeadlineComfort, 15)
  BY DEF Points, Fits, Weights, Clamped
<1> QED
  BY <1>1 DEF Total

LEMMA TotalIsNext ==
  Total' = Clamped(ActivityFit', 35) + Clamped(GeographicFit', 20) + Clamped(SizeFit', 15)
             + Clamped(CertificationFit', 10) + Clamped(BuyerFamiliarity', 5)
             + Clamped(DeadlineComfort', 15)
<1>1. /\ Points("activity")' = Clamped(ActivityFit', 35)
      /\ Points("geographic")' = Clamped(GeographicFit', 20)
      /\ Points("size")' = Clamped(SizeFit', 15)
      /\ Points("certification")' = Clamped(CertificationFit', 10)
      /\ Points("buyer")' = Clamped(BuyerFamiliarity', 5)
      /\ Points("deadline")' = Clamped(DeadlineComfort', 15)
  BY DEF Points, Fits, Weights, Clamped
<1> QED
  BY <1>1 DEF Total

LEMMA Sums ==
  ASSUME NEW a \in Nat, NEW g \in Nat, NEW s \in Nat, NEW c \in Nat, NEW f \in Nat,
         NEW d \in Nat, NEW e \in Nat, e <= d
  PROVE  /\ a + g + s + c + f + d \in Nat /\ a + g + s + c + f + e \in Nat
         /\ a + g + s + c + f + e <= a + g + s + c + f + d
OBVIOUS

LEMMA ScoreFalls ==
  ASSUME Given, DayPasses
  PROVE  Score' <= Score
<1> DEFINE a == Clamped(ActivityFit, 35)
           g == Clamped(GeographicFit, 20)
           s == Clamped(SizeFit, 15)
           c == Clamped(CertificationFit, 10)
           f == Clamped(BuyerFamiliarity, 5)
           d == Clamped(DeadlineComfort, 15)
           e == Clamped(DeadlineComfort', 15)
<1>1. a \in Nat /\ g \in Nat /\ s \in Nat /\ c \in Nat /\ f \in Nat /\ d \in Nat
  <2>1. CertificationFit \in Int /\ BuyerFamiliarity \in Int
    BY DEF CertificationFit, BuyerFamiliarity
  <2> QED
    <3>1. \A x \in Int, weight \in Nat : Clamped(x, weight) \in Nat
      BY Clamps
    <3> QED
      BY <2>1, <3>1, ActivityType, GeographicType, SizeType, ComfortFalls
<1>2. /\ ActivityFit' = ActivityFit /\ GeographicFit' = GeographicFit /\ SizeFit' = SizeFit
      /\ CertificationFit' = CertificationFit /\ BuyerFamiliarity' = BuyerFamiliarity
  BY DEF DayPasses, ActivityFit, InText, GeographicFit, SizeFit, CertificationFit,
     BuyerFamiliarity
<1>3. e \in Nat /\ e <= d
  BY ComfortFalls, Clamps
<1>4. Total = a + g + s + c + f + d
  BY TotalIs
<1>5. Total' = a + g + s + c + f + e
  BY <1>2, TotalIsNext
<1> HIDE DEF a, g, s, c, f, d, e
<1>6. Total \in Nat /\ Total' \in Nat /\ Total' <= Total
  BY <1>1, <1>3, <1>4, <1>5, Sums
<1> QED
  BY <1>6, Rounds DEF Score

(* As days pass no score rises, and no notice that a filter excluded is    *)
(* let in, for any notice, watch profile and company.                      *)
THEOREM OnlyClosesHolds == Spec => OnlyCloses
<1>1. Given /\ [Next]_vars => [Score' <= Score /\ (Outcome # "pass" => Outcome' # "pass")]_vars
  BY ScoreFalls, VetoedStays DEF Next
<1> QED
  BY <1>1, GivenStays, PTL DEF Spec, OnlyCloses
=============================================================================
