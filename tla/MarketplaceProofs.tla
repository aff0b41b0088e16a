-------------------------- MODULE MarketplaceProofs --------------------------
(***************************************************************************)
(* Proofs about the marketplace, for every number of relays, operators,    *)
(* names, dialogs, polls and tables: of ListingRules, the prices and       *)
(* announcements of an operator, the list of domains that is made of them, *)
(* the messages and records on the way to it and the codes of keys; of     *)
(* Discovery, the page that collects operators from relays; and of         *)
(* MarketplaceViews, the identity that is connected, the registration      *)
(* dialog and the Manage tab.                                              *)
(*                                                                         *)
(* Discovery and the views have an inductive invariant each.  That of the  *)
(* views is a conjunction of three, one for each scene: a step of one      *)
(* scene leaves the variables of the other two alone.  The loops of the    *)
(* rules are recursive functions: such a function is first shown to exist, *)
(* by the least number of turns for which there is none, and then what     *)
(* each turn keeps, by the least turn that does not.                       *)
(***************************************************************************)
EXTENDS ListingRules, Discovery, MarketplaceViews, FiniteSetTheorems,
        WellFoundedInduction, TLAPS

-----------------------------------------------------------------------------
(* Least and greatest numbers.  Induction is by the least counterexample.  *)

LEMMA LeastNatural ==
  ASSUME NEW T \in SUBSET Nat, T # {}
  PROVE  \E x \in T : \A y \in T : x <= y
<1>1. \E x \in T : \A y \in T : ~(<<y, x>> \in OpToRel(<, Nat))
  BY NatLessThanWellFounded, WFMin, Zenon
<1>2. \A x, y \in Nat : y < x => <<y, x>> \in OpToRel(<, Nat)
  BY Zenon DEF OpToRel
<1>3. \E x \in T : \A y \in T : ~(y < x)
  BY <1>1, <1>2, Zenon
<1>4. QED
  BY <1>3

LEMMA GreatestNatural ==
  ASSUME NEW T \in SUBSET Nat, T # {}, NEW b \in Nat, \A x \in T : x <= b
  PROVE  \E x \in T : \A y \in T : y <= x
<1>1. {b - x : x \in T} \in SUBSET Nat /\ {b - x : x \in T} # {}
  <2>1. \A x \in T : b - x \in Nat
    OBVIOUS
  <2>2. QED
    BY <2>1
<1>2. PICK z \in {b - x : x \in T} : \A y \in {b - x : x \in T} : z <= y
  BY <1>1, LeastNatural
<1>3. PICK x \in T : z = b - x
  BY <1>2
<1>4. \A y \in T : b - x <= b - y
  BY <1>2, <1>3
<1>5. QED
  BY <1>4

-----------------------------------------------------------------------------
(* Price lists: what the service accepts and quotes, and the page shows.   *)

LEMMA TierTypes ==
  ASSUME NEW tiers \in Seq(Tier), NEW i \in DOMAIN tiers
  PROVE  i \in Nat /\ tiers[i].max_length \in Int /\ tiers[i].price \in Nat
<1>1. tiers[i] \in Tier /\ i \in Nat
  OBVIOUS
<1>2. QED
  BY <1>1 DEF Tier

(* Tiers the service accepts.                                              *)

\* validate_tiers looks at neighbours only; the whole list ascends.
LEMMA TiersAscend ==
  ASSUME NEW tiers \in Seq(Tier), ValidateTiers(tiers),
         NEW i \in DOMAIN tiers, NEW j \in DOMAIN tiers, i < j
  PROVE  tiers[i].max_length < tiers[j].max_length
<1> DEFINE T == {k \in DOMAIN tiers : i < k /\ ~(tiers[i].max_length < tiers[k].max_length)}
<1>1. DOMAIN tiers = 1 .. Len(tiers) /\ Len(tiers) \in Nat
  OBVIOUS
<1>2. \A k \in DOMAIN tiers : tiers[k].max_length \in Int
  BY TierTypes
<1>3. SUFFICES ASSUME T # {} PROVE FALSE
  OBVIOUS
<1>4. T \in SUBSET Nat
  BY <1>1
<1>5. PICK k \in T : \A l \in T : k <= l
  BY <1>3, <1>4, LeastNatural
<1> HIDE DEF T
<1>6. k \in DOMAIN tiers /\ i < k /\ ~(tiers[i].max_length < tiers[k].max_length)
  BY <1>5 DEF T
<1>7. k - 1 \in DOMAIN tiers /\ k = (k - 1) + 1
  BY <1>1, <1>6
<1>8. tiers[k - 1].max_length < tiers[k].max_length
  BY <1>6, <1>7 DEF ValidateTiers
<1>9. CASE k = i + 1
  BY <1>1, <1>6, <1>8, <1>9
<1>10. CASE k # i + 1
  <2>1. i < k - 1 /\ ~(k <= k - 1)
    BY <1>1, <1>6, <1>10
  <2>2. k - 1 \notin T
    BY <1>5, <2>1
  <2>3. tiers[i].max_length < tiers[k - 1].max_length
    BY <1>7, <2>1, <2>2 DEF T
  <2>4. QED
    BY <1>2, <1>6, <1>7, <1>8, <2>3
<1>11. QED
  BY <1>9, <1>10

\* The first tier that fits is also the first in the order of the lengths.
LEMMA FirstsAgree ==
  ASSUME NEW tiers \in Seq(Tier), ValidateTiers(tiers),
         NEW P \in SUBSET (DOMAIN tiers), P # {}
  PROVE  FirstOf(P) = FirstSorted(tiers, P)
<1>1. P \in SUBSET Nat
  OBVIOUS
<1>2. PICK k \in P : \A j \in P : k <= j
  BY <1>1, LeastNatural
<1>3. FirstOf(P) = k
  BY <1>1, <1>2 DEF FirstOf
<1>4. \A j \in P : tiers[j].max_length \in Int
  BY TierTypes
<1>5. \A j \in P : k = j \/ tiers[k].max_length < tiers[j].max_length
  BY <1>1, <1>2, TiersAscend
<1>6. \A j \in P : SortsBefore(tiers, k, j)
  BY <1>1, <1>2, <1>5 DEF SortsBefore
<1>7. ASSUME NEW i \in P, \A j \in P : SortsBefore(tiers, i, j) PROVE i = k
  <2>1. SortsBefore(tiers, i, k)
    BY <1>7
  <2>2. QED
    BY <1>4, <1>5, <2>1 DEF SortsBefore
<1>8. FirstSorted(tiers, P) = k
  BY <1>2, <1>6, <1>7 DEF FirstSorted
<1>9. QED
  BY <1>3, <1>8

\* The marketplace names the price the service quotes, for every policy the
\* service accepts and every length (pricing.js:13-25, payment.rs).
THEOREM ServiceAndMarketplaceAgree ==
  ASSUME NEW tiers \in Seq(Tier) PROVE PricesAgree(tiers)
<1> SUFFICES ASSUME ValidateTiers(tiers), NEW length \in 0 .. MaxLength + 1
             PROVE  PriceForLength(tiers, length) = ServicePrice(tiers, length)
  BY DEF PricesAgree
<1> DEFINE fits == {i \in DOMAIN tiers : tiers[i].max_length >= length}
<1>1. CASE tiers = << >> \/ fits = {}
  BY <1>1 DEF PriceForLength, ServicePrice, PolicyPrice
<1>2. CASE tiers # << >> /\ fits # {}
  <2>1. FirstOf(fits) = FirstSorted(tiers, fits)
    BY <1>2, FirstsAgree
  <2>2. QED
    BY <1>2, <2>1 DEF PriceForLength, ServicePrice, PolicyPrice
<1>3. QED
  BY <1>1, <1>2

-----------------------------------------------------------------------------
(* The summary of any list of tiers.                                       *)

\* One of the tiers that fit comes first in the order of the marketplace.
LEMMA SomeIsFirst ==
  ASSUME NEW tiers \in Seq(Tier), NEW P \in SUBSET (DOMAIN tiers), P # {},
         \A i \in P : tiers[i].max_length \in Nat
  PROVE  /\ FirstSorted(tiers, P) \in P
         /\ \A j \in P : SortsBefore(tiers, FirstSorted(tiers, P), j)
<1> DEFINE lengths == {tiers[i].max_length : i \in P}
<1>1. PICK l \in lengths : \A m \in lengths : l <= m
  <2>1. lengths \in SUBSET Nat /\ lengths # {}
    OBVIOUS
  <2>2. QED
    BY <2>1, LeastNatural
<1> DEFINE shortest == {i \in P : tiers[i].max_length = l}
<1>2. PICK k \in shortest : \A j \in shortest : k <= j
  <2>1. shortest \in SUBSET Nat /\ shortest # {}
    BY <1>1, TierTypes
  <2>2. QED
    BY <2>1, LeastNatural
<1>3. \A j \in P : SortsBefore(tiers, k, j)
  <2> SUFFICES ASSUME NEW j \in P PROVE SortsBefore(tiers, k, j)
    OBVIOUS
  <2>1. l <= tiers[j].max_length
    BY <1>1
  <2>2. l \in Nat /\ tiers[j].max_length \in Nat
    BY <1>1
  <2>3. tiers[k].max_length = l
    BY <1>2
  <2>4. CASE tiers[j].max_length = l
    BY <1>2, <2>3, <2>4 DEF SortsBefore
  <2>5. CASE tiers[j].max_length # l
    BY <2>1, <2>2, <2>3, <2>5 DEF SortsBefore
  <2>6. QED
    BY <2>4, <2>5
<1>4. k \in P
  BY <1>2
<1>5. QED
  BY <1>3, <1>4 DEF FirstSorted

\* A segment starts after every kept tier that is shorter.
LEMMA SegmentStartIs ==
  ASSUME NEW tiers \in Seq(Tier), NEW i \in KeptTiers(tiers)
  PROVE  /\ SegmentStart(tiers, i) \in 1 .. tiers[i].max_length
         /\ \A j \in KeptTiers(tiers) : tiers[j].max_length < tiers[i].max_length
                => tiers[j].max_length < SegmentStart(tiers, i)
         /\ \/ SegmentStart(tiers, i) = 1
            \/ \E j \in KeptTiers(tiers) : /\ tiers[j].max_length < tiers[i].max_length
                                          /\ SegmentStart(tiers, i) = tiers[j].max_length + 1
<1> DEFINE below == {k \in KeptTiers(tiers) : tiers[k].max_length < tiers[i].max_length}
           shorter == {0} \cup {tiers[j].max_length : j \in below}
<1>1. \A k \in KeptTiers(tiers) : tiers[k].max_length \in Nat \ {0}
  BY TierTypes DEF KeptTiers
<1>2. shorter \in SUBSET Nat /\ shorter # {} /\ \A x \in shorter : x <= tiers[i].max_length - 1
  BY <1>1
<1>3. PICK l \in shorter : \A m \in shorter : m <= l
  <2>1. tiers[i].max_length - 1 \in Nat
    BY <1>1
  <2> HIDE DEF shorter
  <2>2. QED
    BY <1>2, <2>1, GreatestNatural
<1>4. SegmentStart(tiers, i) = 1 + l
  <2>1. \A x \in shorter : (\A m \in shorter : m <= x) => x = l
    <3> HIDE DEF shorter
    <3>1. QED
      BY <1>2, <1>3
  <2>2. SegmentStart(tiers, i) = 1 + CHOOSE x \in shorter : \A m \in shorter : m <= x
    BY DEF SegmentStart
  <2> HIDE DEF shorter
  <2>3. QED
    BY <1>3, <2>1, <2>2
<1>5. l \in Nat /\ l <= tiers[i].max_length - 1
  <2> HIDE DEF shorter
  <2>1. QED
    BY <1>2, <1>3
<1>6. SegmentStart(tiers, i) \in 1 .. tiers[i].max_length
  BY <1>1, <1>4, <1>5
<1>7. \A j \in below : tiers[j].max_length <= l
  BY <1>3
<1>8. l = 0 \/ \E j \in below : l = tiers[j].max_length
  BY <1>3
<1>9. QED
  BY <1>1, <1>4, <1>5, <1>6, <1>7, <1>8

LongestKept(tiers) ==
  {i \in KeptTiers(tiers) :
     \A j \in KeptTiers(tiers) : tiers[j].max_length <= tiers[i].max_length}

SegmentOf(tiers, i) ==
  [start |-> SegmentStart(tiers, i),
   end   |-> IF i \in LongestKept(tiers) /\ tiers[i].max_length >= MaxLength
             THEN Open ELSE tiers[i].max_length,
   text  |-> FormatSats(tiers[i].price)]

BeyondOf(tiers, i) ==
  [start |-> tiers[i].max_length + 1, end |-> Open, text |-> <<"unavailable">>]

LEMMA SummaryIs ==
  ASSUME NEW tiers, KeptTiers(tiers) # {}
  PROVE  TierSummary(tiers) =
           {SegmentOf(tiers, i) : i \in KeptTiers(tiers)}
           \cup {BeyondOf(tiers, i) :
                    i \in {k \in LongestKept(tiers) : tiers[k].max_length < MaxLength}}
  BY DEF TierSummary, SegmentOf, BeyondOf, LongestKept

LEMMA LengthFacts ==
  \A length \in 1 .. MaxLength :
     length \in Nat /\ length >= 1 /\ length <= MaxLength /\ MaxLength = 64
  BY DEF MaxLength

Covers(s, length) == s.start <= length /\ (s.end = Open \/ length <= s.end)

\* Where a tier fits, the segment of the first one is the only one that covers the
\* length.
LEMMA FittingSegment ==
  ASSUME NEW tiers \in Seq(Tier), NEW length \in 1 .. MaxLength,
         NEW f \in DOMAIN tiers, tiers[f].max_length >= length,
         \A j \in DOMAIN tiers : tiers[j].max_length >= length => SortsBefore(tiers, f, j)
  PROVE  /\ f \in KeptTiers(tiers) /\ Covers(SegmentOf(tiers, f), length)
         /\ \A g \in KeptTiers(tiers) : Covers(SegmentOf(tiers, g), length) => g = f
         /\ \A g \in LongestKept(tiers) : ~Covers(BeyondOf(tiers, g), length)
<1>1. \A j \in DOMAIN tiers : j \in Nat /\ tiers[j].max_length \in Int
  BY TierTypes
<1>2. length \in Nat /\ length >= 1 /\ length <= MaxLength /\ MaxLength = 64
  BY LengthFacts
<1>3. f \in KeptTiers(tiers)
  BY <1>1, <1>2 DEF KeptTiers, SortsBefore
<1>4. \A j \in KeptTiers(tiers) :
         j \in DOMAIN tiers /\ tiers[j].max_length >= 1
  BY DEF KeptTiers
<1>5. \A j \in KeptTiers(tiers) : tiers[j].max_length < tiers[f].max_length
                                => tiers[j].max_length < length
  BY <1>1, <1>2, <1>4 DEF SortsBefore
<1>6. SegmentStart(tiers, f) <= length
  BY <1>1, <1>2, <1>3, <1>4, <1>5, SegmentStartIs
<1>7. Covers(SegmentOf(tiers, f), length)
  BY <1>1, <1>2, <1>6 DEF Covers, SegmentOf, Open
<1>8. ASSUME NEW g \in KeptTiers(tiers), Covers(SegmentOf(tiers, g), length) PROVE g = f
  <2>1. SegmentStart(tiers, g) <= length
    BY <1>8 DEF Covers, SegmentOf
  <2>2. tiers[g].max_length >= length
    <3>1. tiers[g].max_length >= MaxLength \/ length <= tiers[g].max_length
      BY <1>2, <1>4, <1>8 DEF Covers, SegmentOf, Open
    <3>2. QED
      BY <1>1, <1>2, <1>4, <3>1
  <2>3. ~(tiers[f].max_length < tiers[g].max_length)
    <3>1. SegmentStart(tiers, g) \in Int
      BY SegmentStartIs
    <3>2. tiers[f].max_length < tiers[g].max_length => tiers[f].max_length < SegmentStart(tiers, g)
      BY <1>3, SegmentStartIs
    <3>3. QED
      BY <1>1, <1>2, <2>1, <3>1, <3>2
  <2>4. tiers[f].max_length = tiers[g].max_length
    BY <1>1, <1>4, <2>2, <2>3 DEF SortsBefore
  <2>5. QED
    BY <1>1, <1>3, <1>4, <2>4 DEF KeptTiers
<1>9. ASSUME NEW g \in LongestKept(tiers) PROVE ~Covers(BeyondOf(tiers, g), length)
  <2>1. tiers[f].max_length <= tiers[g].max_length /\ g \in DOMAIN tiers
    BY <1>3, <1>4 DEF LongestKept
  <2>2. QED
    BY <1>1, <1>2, <2>1 DEF Covers, BeyondOf
<1>10. QED
  BY <1>3, <1>7, <1>8, <1>9

\* Where no tier fits, only what follows the longest tier covers the length.
LEMMA BeyondSegment ==
  ASSUME NEW tiers \in Seq(Tier), NEW length \in 1 .. MaxLength,
         KeptTiers(tiers) # {}, \A j \in DOMAIN tiers : tiers[j].max_length < length
  PROVE  /\ \E g \in LongestKept(tiers) : /\ tiers[g].max_length < MaxLength
                                         /\ Covers(BeyondOf(tiers, g), length)
         /\ \A g \in KeptTiers(tiers) : ~Covers(SegmentOf(tiers, g), length)
<1>1. \A j \in KeptTiers(tiers) :
         j \in DOMAIN tiers /\ tiers[j].max_length \in Nat /\ tiers[j].max_length >= 1
  BY TierTypes DEF KeptTiers
<1>2. length \in Nat /\ length >= 1 /\ length <= MaxLength /\ MaxLength = 64
  BY LengthFacts
<1>3. PICK g \in LongestKept(tiers) : TRUE
  <2> DEFINE lengths == {tiers[j].max_length : j \in KeptTiers(tiers)}
  <2>1. lengths \in SUBSET Nat /\ lengths # {} /\ \A x \in lengths : x <= length
    BY <1>1, <1>2
  <2>2. PICK x \in lengths : \A y \in lengths : y <= x
    <3> HIDE DEF lengths
    <3>1. QED
      BY <1>2, <2>1, GreatestNatural
  <2>3. PICK j \in KeptTiers(tiers) : tiers[j].max_length = x
    BY <2>2
  <2>4. j \in LongestKept(tiers)
    BY <2>2, <2>3 DEF LongestKept
  <2>5. QED
    BY <2>4
<1>4. g \in KeptTiers(tiers)
  BY <1>3 DEF LongestKept
<1>5. tiers[g].max_length < MaxLength /\ Covers(BeyondOf(tiers, g), length)
  BY <1>1, <1>2, <1>4 DEF Covers, BeyondOf
<1>6. ASSUME NEW h \in KeptTiers(tiers) PROVE ~Covers(SegmentOf(tiers, h), length)
  <2>1. tiers[h].max_length < length /\ tiers[h].max_length # 0 /\ ~(tiers[h].max_length >= MaxLength)
    BY <1>1, <1>2
  <2>2. SegmentOf(tiers, h).end = tiers[h].max_length
    BY <2>1 DEF SegmentOf
  <2>3. QED
    BY <1>1, <1>2, <2>1, <2>2 DEF Covers, Open
<1>7. QED
  BY <1>3, <1>5, <1>6

\* For every list of tiers, in any order and with any lengths, the summary has
\* one text for each length a name may have, and it is that of its price
\* (pricing.js:69-105).
THEOREM SummaryTellsEveryPrice ==
  ASSUME NEW tiers \in Seq(Tier) PROVE SummaryTellsPrice(tiers)
<1> SUFFICES ASSUME tiers = << >> \/ KeptTiers(tiers) # {}, NEW length \in 1 .. MaxLength
             PROVE  SummaryTexts(tiers, length) = {PriceText(PriceForLength(tiers, length))}
  BY DEF SummaryTellsPrice
<1>1. SummaryTexts(tiers, length) = {s.text : s \in {r \in TierSummary(tiers) : Covers(r, length)}}
  BY DEF SummaryTexts, Covers
<1>2. CASE tiers = << >>
  <2>1. KeptTiers(tiers) = {}
    BY <1>2 DEF KeptTiers
  <2>2. TierSummary(tiers) = {[start |-> 1, end |-> Open, text |-> <<"free">>]}
    BY <2>1 DEF TierSummary
  <2>3. SummaryTexts(tiers, length) = {<<"free">>}
    <3>1. PICK s \in TierSummary(tiers) : s.start = 1 /\ s.end = Open /\ s.text = <<"free">>
      BY <2>2
    <3>2. Covers(s, length) /\ \A r \in TierSummary(tiers) : r = s
      BY <2>2, <3>1 DEF Covers, MaxLength
    <3>3. QED
      BY <1>1, <3>1, <3>2
  <2>4. PriceText(PriceForLength(tiers, length)) = <<"free">>
    BY <1>2 DEF PriceForLength, PriceText, FormatSats, Unavailable
  <2>5. QED
    BY <2>3, <2>4
<1> DEFINE fits == {i \in DOMAIN tiers : tiers[i].max_length >= length}
<1>3. CASE tiers # << >> /\ fits # {}
  <2>1. \A i \in fits : tiers[i].max_length \in Nat
    BY TierTypes
  <2>2. PICK f \in fits : f = FirstSorted(tiers, fits) /\ \A j \in fits : SortsBefore(tiers, f, j)
    BY <1>3, <2>1, SomeIsFirst
  <2>3. /\ f \in KeptTiers(tiers) /\ Covers(SegmentOf(tiers, f), length)
        /\ \A g \in KeptTiers(tiers) : Covers(SegmentOf(tiers, g), length) => g = f
        /\ \A g \in LongestKept(tiers) : ~Covers(BeyondOf(tiers, g), length)
    <3>1. f \in DOMAIN tiers /\ tiers[f].max_length >= length
      BY <2>2
    <3>2. \A j \in DOMAIN tiers : tiers[j].max_length >= length => SortsBefore(tiers, f, j)
      BY <2>2
    <3>3. QED
      BY <3>1, <3>2, FittingSegment
  <2>4. {r \in TierSummary(tiers) : Covers(r, length)} = {SegmentOf(tiers, f)}
    BY <2>3, SummaryIs
  <2>5. SummaryTexts(tiers, length) = {FormatSats(tiers[f].price)}
    <3>1. SegmentOf(tiers, f).text = FormatSats(tiers[f].price)
      BY DEF SegmentOf
    <3>2. QED
      BY <1>1, <2>4, <3>1
  <2>6. PriceForLength(tiers, length) = tiers[f].price /\ tiers[f].price \in Nat
    BY <1>3, <2>2, TierTypes DEF PriceForLength
  <2>7. QED
    BY <2>5, <2>6 DEF PriceText, Unavailable
<1>4. CASE tiers # << >> /\ fits = {}
  <2>1. \A j \in DOMAIN tiers : tiers[j].max_length < length
    BY <1>4, TierTypes
  <2>2. KeptTiers(tiers) # {}
    BY <1>4
  <2>3. /\ \E g \in LongestKept(tiers) : /\ tiers[g].max_length < MaxLength
                                       /\ Covers(BeyondOf(tiers, g), length)
        /\ \A g \in KeptTiers(tiers) : ~Covers(SegmentOf(tiers, g), length)
    BY <2>1, <2>2, BeyondSegment
  <2>4. \A r \in TierSummary(tiers) : Covers(r, length) => r.text = <<"unavailable">>
    BY <2>2, <2>3, SummaryIs DEF BeyondOf
  <2>5. \E r \in TierSummary(tiers) : Covers(r, length)
    BY <2>2, <2>3, SummaryIs
  <2>6. SummaryTexts(tiers, length) = {<<"unavailable">>}
    BY <1>1, <2>4, <2>5
  <2>7. PriceForLength(tiers, length) = Unavailable
    BY <1>4 DEF PriceForLength
  <2>8. QED
    BY <2>6, <2>7 DEF PriceText
<1>5. QED
  BY <1>2, <1>3, <1>4

-----------------------------------------------------------------------------
(* Announcements: what the service and the page accept.                    *)

LEMMA LabelsMatch ==
    ASSUME NEW chars \in Seq(Characters)
    PROVE  MatchesLabel(chars) <=>
              /\ chars # << >>
              /\ \A k \in DOMAIN chars : chars[k] \in Alphanumeric \cup {Hyphen}
              /\ chars[1] # Hyphen /\ chars[Len(chars)] # Hyphen
<1>1. Hyphen \notin Alphanumeric
  BY Zenon DEF Hyphen, Alphanumeric
<1>2. DOMAIN chars = 1 .. Len(chars) /\ Len(chars) \in Nat /\ (chars # << >> <=> Len(chars) >= 1)
  OBVIOUS
<1>3. CASE Len(chars) = 0
  BY <1>2, <1>3 DEF MatchesLabel
<1>4. CASE Len(chars) = 1
  BY <1>1, <1>2, <1>4 DEF MatchesLabel
<1>5. CASE Len(chars) >= 2
  <2>1. 1 \in DOMAIN chars /\ Len(chars) \in DOMAIN chars
    BY <1>2, <1>5
  <2>2. \A k \in DOMAIN chars : k = 1 \/ k = Len(chars) \/ k \in 2 .. Len(chars) - 1
    BY <1>2, <1>5
  <2>3. \A k \in 2 .. Len(chars) - 1 : k \in DOMAIN chars
    BY <1>2, <1>5
  <2>4. MatchesLabel(chars) <=> /\ chars[1] \in Alphanumeric /\ chars[Len(chars)] \in Alphanumeric
                                /\ \A k \in 2 .. Len(chars) - 1 : chars[k] \in Alphanumeric \cup {Hyphen}
    BY <1>5 DEF MatchesLabel
  <2>5. chars # << >>
    BY <1>2, <1>5
  <2>6. QED
    BY <1>1, <2>1, <2>2, <2>3, <2>4, <2>5
<1>6. QED
  BY <1>2, <1>3, <1>4, <1>5

\* Both sides have the same public hosts: the regular expression says of a label
\* what the loop over its characters does.
LEMMA HostsAreJudgedAlike ==
    ASSUME NEW host \in Seq(HostLabel)
    PROVE  IsPublicHost(host) <=> IsPublicHostService(host)
<1>1. \A i \in DOMAIN host : host[i].chars \in Seq(Characters)
  <2>1. \A i \in DOMAIN host : host[i] \in HostLabel
    OBVIOUS
  <2>2. QED
    BY <2>1 DEF HostLabel
<1>2. \A i \in DOMAIN host :
        MatchesLabel(host[i].chars) <=>
              /\ host[i].chars # << >>
              /\ \A k \in DOMAIN host[i].chars : host[i].chars[k] \in Alphanumeric \cup {Hyphen}
              /\ host[i].chars[1] # Hyphen /\ host[i].chars[Len(host[i].chars)] # Hyphen
  BY <1>1, LabelsMatch
<1>3. QED
  BY <1>2 DEF IsPublicHost, IsPublicHostService, HasPlainLabels

\* A host that is public and parses is what it is parsed to.
LEMMA PublicIsParsed ==
    ASSUME NEW d \in AnnouncedDomain, IsPublicHost(d.host), Parses(d)
    PROVE  ParseDomain(d) = d
<1>1. /\ d.host \in Seq(HostLabel)
      /\ d = [host |-> d.host, idna |-> d.idna, at |-> d.at, low |-> d.low]
  BY DEF AnnouncedDomain
<1>2. \A i \in DOMAIN d.host : d.host[i] \in HostLabel
  BY <1>1
<1>3. \A i \in DOMAIN d.host : \A k \in DOMAIN d.host[i].chars :
        d.host[i].chars[k] \in Alphanumeric \cup {Hyphen}
  BY <1>1, HostsAreJudgedAlike DEF IsPublicHostService, HasPlainLabels
<1>4. d.idna = d.host /\ d.at = d.low
  <2>1. d.idna # << >>
    BY DEF Parses
  <2>2. QED
    BY <1>3, <2>1, Zenon DEF AnnouncedDomain, HasAscii
<1>5. \A i \in DOMAIN d.host : LowerLabel(d.host[i]) = d.host[i]
  <2> SUFFICES ASSUME NEW i \in DOMAIN d.host
               PROVE  LowerLabel(d.host[i]) = d.host[i]
    OBVIOUS
  <2>1. PICK l : l = d.host[i]
    OBVIOUS
  <2>2. l \in [chars : Seq(Characters), reserved : BOOLEAN]
    BY <1>2, <2>1 DEF HostLabel
  <2>3. "A" \notin Alphanumeric \cup {Hyphen}
    BY Zenon DEF Hyphen, Alphanumeric
  <2>4. [k \in DOMAIN l.chars |-> IF l.chars[k] = "A" THEN "a" ELSE l.chars[k]] = l.chars
    BY <1>3, <2>1, <2>2, <2>3
  <2>5. QED
    BY <2>1, <2>2, <2>4 DEF LowerLabel
<1>6. LowerHost(d.idna) = d.host
  BY <1>1, <1>4, <1>5 DEF LowerHost
<1>7. QED
  BY <1>1, <1>4, <1>6 DEF ParseDomain

LEMMA DomainsAreJudgedAlike ==
    ASSUME NEW event \in AnnouncementEvent,
           NEW parsed, parsed = [i \in DOMAIN event.domains |-> ParseDomain(event.domains[i])],
           \A i \in DOMAIN event.domains : ParseDomain(event.domains[i]) = event.domains[i]
    PROVE  /\ SortedAndUnique(parsed) <=> SortedAndUnique(event.domains)
           /\ (\A i \in DOMAIN parsed : IsPublicHostService(parsed[i].host)) <=>
                 \A i \in DOMAIN event.domains : IsPublicHost(event.domains[i].host)
<1>1. event.domains \in Seq(AnnouncedDomain)
  BY DEF AnnouncementEvent
<1>2. parsed = event.domains
  BY <1>1
<1>3. \A i \in DOMAIN event.domains : event.domains[i].host \in Seq(HostLabel)
  <2>1. \A i \in DOMAIN event.domains : event.domains[i] \in AnnouncedDomain
    BY <1>1
  <2>2. QED
    BY <2>1 DEF AnnouncedDomain
<1>4. QED
  BY <1>2, <1>3, HostsAreJudgedAlike

\* What both sides ask of the d tag.
Named(event) ==
    /\ event.kind
    /\ event.dtags # << >>
    /\ event.dtags[1].prefix
    /\ NormalizedOrigin(event.dtags[1].origin)
    /\ IsPublicHost(event.dtags[1].origin.host)
    /\ event.json = "object"
    /\ event.schema = 1
    /\ event.status # "retired"
    /\ event.origin = event.dtags[1].origin
    /\ event.registration = event.dtags[1].origin
    /\ event.domains # << >>

LEMMA ListedMeans ==
    ASSUME NEW event \in AnnouncementEvent, NEW now
    PROVE  LET parsed == [i \in DOMAIN event.domains |-> ParseDomain(event.domains[i])] IN
           ValidateEvent(event, now) <=>
              /\ Named(event) /\ Deserializes(event)
              /\ event.terms \in {"none", "https"}
              /\ SortedAndUnique(parsed)
              /\ \A i \in DOMAIN parsed : IsPublicHostService(parsed[i].host)
              /\ \A i \in DOMAIN event.expirations : ServiceExpiration(event.expirations[i], now)
<1> DEFINE parsed == [i \in DOMAIN event.domains |-> ParseDomain(event.domains[i])]
<1>1. event.dtags # << >> =>
        (IsPublicHost(event.dtags[1].origin.host) <=> IsPublicHostService(event.dtags[1].origin.host))
  <2>1. event.dtags # << >> => event.dtags[1].origin.host \in Seq(HostLabel)
    <3>1. event.dtags \in Seq(DTag)
      BY DEF AnnouncementEvent
    <3>2. event.dtags # << >> => event.dtags[1] \in DTag
      BY <3>1
    <3>3. event.dtags # << >> => event.dtags[1].origin \in Origin
      BY <3>2 DEF DTag
    <3>4. QED
      BY <3>3 DEF Origin
  <2>2. QED
    BY <2>1, HostsAreJudgedAlike
<1>2. Deserializes(event) => event.json = "object"
  BY Zenon DEF Deserializes
<1> HIDE DEF parsed
<1>3. ValidateEvent(event, now) <=>
              /\ event.kind /\ event.dtags # << >> /\ event.dtags[1].prefix
              /\ NormalizedOrigin(event.dtags[1].origin)
              /\ IsPublicHostService(event.dtags[1].origin.host)
              /\ event.origin = event.dtags[1].origin
              /\ event.registration = event.dtags[1].origin
              /\ Deserializes(event) /\ event.schema = 1 /\ event.status # "retired"
              /\ event.domains # << >>
              /\ event.terms \in {"none", "https"}
              /\ SortedAndUnique(parsed)
              /\ \A i \in DOMAIN parsed : IsPublicHostService(parsed[i].host)
              /\ \A i \in DOMAIN event.expirations : ServiceExpiration(event.expirations[i], now)
  BY Zenon DEF ValidateEvent, parsed
<1>4. QED
  BY <1>1, <1>2, <1>3, Zenon DEF Named, parsed

LEMMA ShownMeans ==
    ASSUME NEW event \in AnnouncementEvent, NEW now
    PROVE  ValidateAnnouncement(event, now) = "ok" <=>
              /\ Named(event) /\ event.t
              /\ event.terms # "http"
              /\ SortedAndUnique(event.domains)
              /\ \A i \in DOMAIN event.domains : IsPublicHost(event.domains[i].host)
              /\ ExpirationsHold(event, now)
  BY DEF ValidateAnnouncement, Named, NormalizedOrigin

(* An announcement that the page accepts and the service does not has a    *)
(* content that does not deserialize (as when a domain has more than 253   *)
(* characters or bad punycode), an empty link to its terms or a huge       *)
(* expiration; one that only the service accepts has no t tag, a signed    *)
(* expiration or a domain that parsing changes: in upper case,             *)
(* international or with spaces (announcement.js, discovery.rs).           *)
THEOREM ValidatorsAlwaysAgree ==
    ASSUME NEW event \in AnnouncementEvent, NEW now
    PROVE  ValidatorsAgree(event, now)
<1> DEFINE parsed == [i \in DOMAIN event.domains |-> ParseDomain(event.domains[i])]
<1>0. DOMAIN parsed = DOMAIN event.domains
  OBVIOUS
<1> HIDE DEF parsed
<1>1. ASSUME ValidateAnnouncement(event, now) = "ok", ~Lenient(event)
      PROVE  ValidateEvent(event, now)
  <2>1. /\ Named(event) /\ event.terms # "http"
        /\ SortedAndUnique(event.domains)
        /\ \A i \in DOMAIN event.domains : IsPublicHost(event.domains[i].host)
        /\ ExpirationsHold(event, now)
    BY <1>1, ShownMeans
  <2>2. Deserializes(event) /\ event.terms # "empty"
        /\ \A i \in DOMAIN event.expirations : event.expirations[i].form # "huge"
    BY <1>1, Zenon DEF Lenient
  <2>3. event.terms \in {"none", "https"}
    BY <2>1, <2>2 DEF AnnouncementEvent
  <2>4. \A i \in DOMAIN event.domains : event.domains[i] \in AnnouncedDomain
    BY DEF AnnouncementEvent
  <2>5. \A i \in DOMAIN event.domains : ParseDomain(event.domains[i]) = event.domains[i]
    BY <2>1, <2>2, <2>4, PublicIsParsed DEF Deserializes
  <2>6. /\ SortedAndUnique(parsed)
        /\ \A i \in DOMAIN parsed : IsPublicHostService(parsed[i].host)
    BY <2>1, <2>5, DomainsAreJudgedAlike DEF parsed
  <2>7. \A i \in DOMAIN event.expirations : ServiceExpiration(event.expirations[i], now)
    BY <2>1, <2>2 DEF ExpirationsHold, MarketplaceExpiration, ServiceExpiration
  <2>8. QED
    BY <2>1, <2>2, <2>3, <2>6, <2>7, ListedMeans, Zenon DEF parsed
<1>2. ASSUME ValidateEvent(event, now), ~Strict(event)
      PROVE  ValidateAnnouncement(event, now) = "ok"
  <2>1. /\ Named(event) /\ event.terms \in {"none", "https"}
        /\ SortedAndUnique(parsed)
        /\ \A i \in DOMAIN parsed : IsPublicHostService(parsed[i].host)
        /\ \A i \in DOMAIN event.expirations : ServiceExpiration(event.expirations[i], now)
    BY <1>2, ListedMeans, Zenon DEF parsed
  <2>2. /\ event.t
        /\ \A i \in DOMAIN event.expirations : event.expirations[i].form # "signed"
        /\ \A i \in DOMAIN event.domains : ParseDomain(event.domains[i]) = event.domains[i]
    BY <1>2, Zenon DEF Strict, Announced
  <2>3. /\ SortedAndUnique(event.domains)
        /\ \A i \in DOMAIN event.domains : IsPublicHost(event.domains[i].host)
    BY <2>1, <2>2, DomainsAreJudgedAlike DEF parsed
  <2>4. ExpirationsHold(event, now)
    BY <2>1, <2>2 DEF ExpirationsHold, MarketplaceExpiration, ServiceExpiration
  <2>5. event.terms # "http"
    BY <2>1
  <2>6. QED
    BY <2>1, <2>2, <2>3, <2>4, <2>5, ShownMeans
<1>3. QED
  BY <1>1, <1>2, Zenon DEF ValidatorsAgree

\* The last usable entry of a domain.
Greatest(entries, usable, d, i) ==
    /\ entries[i].domain = d
    /\ \A j \in usable : entries[j].domain = d => j <= i

DomainsUsed(entries, usable) == {entries[k].domain : k \in usable}

\* The entry that counts: there is one for every domain that a usable entry is about.
LEMMA LastForFacts ==
    ASSUME NEW n \in Nat, NEW entries, NEW usable \in SUBSET (1 .. n),
           NEW d \in DomainsUsed(entries, usable)
    PROVE  \E i \in usable : /\ Greatest(entries, usable, d, i)
                             /\ LastFor(usable, entries, d) = entries[i]
<1> DEFINE T == {j \in usable : entries[j].domain = d}
<1>1. T \in SUBSET Nat /\ T # {} /\ \A j \in T : j <= n
  <2>1. \A j \in usable : j \in Nat /\ j <= n
    OBVIOUS
  <2>2. \E k \in usable : entries[k].domain = d
    BY DEF DomainsUsed
  <2>3. QED
    BY <2>1, <2>2
<1>2. PICK x \in T : \A y \in T : y <= x
  <2> HIDE DEF T
  <2>1. QED
    BY <1>1, GreatestNatural
<1>3. x \in usable /\ Greatest(entries, usable, d, x)
  BY <1>2 DEF Greatest
<1>4. /\ (CHOOSE i \in usable : Greatest(entries, usable, d, i)) \in usable
      /\ Greatest(entries, usable, d, CHOOSE i \in usable : Greatest(entries, usable, d, i))
  BY <1>3, Zenon
<1>5. LastFor(usable, entries, d) = entries[CHOOSE i \in usable : Greatest(entries, usable, d, i)]
  BY Zenon DEF LastFor, Greatest
<1>6. QED
  BY <1>4, <1>5, Zenon

\* The usable entries of the list without entry i are those of the list.
Moved(entries, i, old, new) ==
    /\ i \notin old
    /\ old \in SUBSET DOMAIN entries
    /\ new \in SUBSET DOMAIN Without(entries, i)
    /\ \A j \in DOMAIN Without(entries, i) :
          j \in new <=> (IF j < i THEN j ELSE j + 1) \in old

\* An entry that is not usable can be taken out of the list: what is usable moves
\* with its index, and the last entry of a domain stays the last.
LEMMA WithoutFacts ==
    ASSUME NEW S, NEW entries \in Seq(S), NEW i \in DOMAIN entries,
           NEW old, NEW new, Moved(entries, i, old, new)
    PROVE  /\ DomainsUsed(entries, old) = DomainsUsed(Without(entries, i), new)
           /\ \A d \in DomainsUsed(entries, old) :
                 LastFor(old, entries, d) = LastFor(new, Without(entries, i), d)
<1> DEFINE short == Without(entries, i)
           place(j) == IF j < i THEN j ELSE j + 1
           back(j) == IF j < i THEN j ELSE j - 1
<1>1. /\ DOMAIN entries = 1 .. Len(entries) /\ Len(entries) \in Nat /\ Len(entries) - 1 \in Nat
      /\ DOMAIN short = 1 .. Len(entries) - 1
      /\ \A j \in DOMAIN short : short[j] = entries[place(j)]
      /\ i \in 1 .. Len(entries)
  BY DEF Without
<1>2. \A j \in new : place(j) \in old /\ short[j] = entries[place(j)]
  BY <1>1 DEF Moved
<1>3. \A j \in old : back(j) \in new /\ place(back(j)) = j /\ short[back(j)] = entries[j]
  <2> SUFFICES ASSUME NEW j \in old
               PROVE  back(j) \in new /\ place(back(j)) = j /\ short[back(j)] = entries[j]
    OBVIOUS
  <2>1. j # i /\ j \in 1 .. Len(entries)
    BY <1>1 DEF Moved
  <2>2. back(j) \in DOMAIN short /\ place(back(j)) = j
    BY <1>1, <2>1
  <2>3. QED
    BY <1>1, <2>2 DEF Moved
<1>4. old \in SUBSET (1 .. Len(entries)) /\ new \in SUBSET (1 .. Len(entries) - 1)
  BY <1>1 DEF Moved
<1>5. DomainsUsed(entries, old) = DomainsUsed(short, new)
  <2> HIDE DEF short, place, back
  <2>1. QED
    BY <1>2, <1>3 DEF DomainsUsed
<1>6. ASSUME NEW d \in DomainsUsed(entries, old)
      PROVE  LastFor(old, entries, d) = LastFor(new, short, d)
  <2>1. PICK a \in old : /\ Greatest(entries, old, d, a)
                         /\ LastFor(old, entries, d) = entries[a]
    BY <1>1, <1>4, LastForFacts
  <2>2. PICK b \in new : /\ Greatest(short, new, d, b)
                         /\ LastFor(new, short, d) = short[b]
    <3> HIDE DEF short
    <3>1. d \in DomainsUsed(short, new)
      BY <1>5
    <3>2. QED
      BY <1>1, <1>4, <3>1, LastForFacts
  <2>3. place(b) \in old /\ place(b) <= a
    <3>1. entries[place(b)].domain = d
      BY <1>2, <2>2 DEF Greatest
    <3>2. QED
      BY <1>2, <2>1, <3>1 DEF Greatest
  <2>4. back(a) \in new /\ back(a) <= b
    <3>1. short[back(a)].domain = d
      BY <1>3, <2>1 DEF Greatest
    <3>2. QED
      BY <1>3, <2>2, <3>1 DEF Greatest
  <2>5. place(b) = a
    <3>1. a \in Nat /\ b \in Nat /\ i \in Nat /\ a # i
      BY <1>1, <1>4 DEF Moved
    <3>2. QED
      BY <2>3, <2>4, <3>1
  <2>6. QED
    BY <1>2, <2>1, <2>2, <2>5
<1>7. QED
  BY <1>5, <1>6

\* A count of one of the announced domains that is a number of users.
UsableCount(announced, e) ==
    e.domain \in announced /\ e.count.form = "integer" /\ e.count.value >= 0

LEMMA CountsKept ==
    ASSUME NEW S, NEW event, event.users \in Seq(S), NEW i \in DOMAIN event.users,
           ~UsableCount(Announced(event), event.users[i]),
           NEW shorter, shorter.domains = event.domains,
           shorter.users = Without(event.users, i)
    PROVE  SanitizeUserCounts(event) = SanitizeUserCounts(shorter)
<1> DEFINE entries == event.users
           short == Without(entries, i)
           old == {k \in DOMAIN entries : UsableCount(Announced(event), entries[k])}
           new == {k \in DOMAIN short : UsableCount(Announced(event), short[k])}
<1>1. /\ SanitizeUserCounts(event) =
           [d \in DomainsUsed(entries, old) |-> LastFor(old, entries, d).count.value]
      /\ SanitizeUserCounts(shorter) =
           [d \in DomainsUsed(short, new) |-> LastFor(new, short, d).count.value]
  <2>1. Announced(shorter) = Announced(event)
    BY DEF Announced
  <2>2. QED
    BY <2>1, Zenon DEF SanitizeUserCounts, UsableCount, DomainsUsed
<1>2. \A j \in DOMAIN short : j \in new <=> (IF j < i THEN j ELSE j + 1) \in old
  <2>1. \A j \in DOMAIN short : /\ short[j] = entries[IF j < i THEN j ELSE j + 1]
                                /\ (IF j < i THEN j ELSE j + 1) \in DOMAIN entries
    BY DEF Without
  <2> HIDE DEF short, entries
  <2>2. QED
    BY <2>1
<1>3. Moved(entries, i, old, new)
  BY <1>2 DEF Moved
<1>4. entries \in Seq(S) /\ i \in DOMAIN entries
  OBVIOUS
<1> HIDE DEF old, new, entries
<1>5. /\ DomainsUsed(entries, old) = DomainsUsed(short, new)
      /\ \A d \in DomainsUsed(entries, old) :
            LastFor(old, entries, d) = LastFor(new, short, d)
  BY <1>3, <1>4, WithoutFacts
<1> HIDE DEF short
<1>6. QED
  BY <1>1, <1>5

LEMMA NamesKept ==
    ASSUME NEW S, NEW event, event.reserved \in Seq(S), NEW i \in DOMAIN event.reserved,
           event.reserved[i].domain \notin Announced(event),
           NEW shorter, shorter.domains = event.domains,
           shorter.reserved = Without(event.reserved, i)
    PROVE  SanitizeReservedNames(event) = SanitizeReservedNames(shorter)
<1> DEFINE entries == event.reserved
           short == Without(entries, i)
           old == {k \in DOMAIN entries : entries[k].domain \in Announced(event)}
           new == {k \in DOMAIN short : short[k].domain \in Announced(event)}
<1>1. /\ SanitizeReservedNames(event) =
           [d \in DomainsUsed(entries, old) |-> LastFor(old, entries, d).names \ {NoText}]
      /\ SanitizeReservedNames(shorter) =
           [d \in DomainsUsed(short, new) |-> LastFor(new, short, d).names \ {NoText}]
  <2>1. Announced(shorter) = Announced(event)
    BY DEF Announced
  <2>2. QED
    BY <2>1, Zenon DEF SanitizeReservedNames, DomainsUsed
<1>2. \A j \in DOMAIN short : j \in new <=> (IF j < i THEN j ELSE j + 1) \in old
  <2>1. \A j \in DOMAIN short : /\ short[j] = entries[IF j < i THEN j ELSE j + 1]
                                /\ (IF j < i THEN j ELSE j + 1) \in DOMAIN entries
    BY DEF Without
  <2> HIDE DEF short, entries
  <2>2. QED
    BY <2>1
<1>3. Moved(entries, i, old, new)
  BY <1>2 DEF Moved
<1>4. entries \in Seq(S) /\ i \in DOMAIN entries
  OBVIOUS
<1> HIDE DEF old, new, entries
<1>5. /\ DomainsUsed(entries, old) = DomainsUsed(short, new)
      /\ \A d \in DomainsUsed(entries, old) :
            LastFor(old, entries, d) = LastFor(new, short, d)
  BY <1>3, <1>4, WithoutFacts
<1> HIDE DEF short
<1>6. QED
  BY <1>1, <1>5

(* However many entries the optional lists have, one that is malformed or  *)
(* about a domain of somebody else neither counts nor hides another.       *)
THEOREM BadEntriesAreAlwaysDropped ==
    ASSUME NEW event \in AnnouncementEvent
    PROVE  BadEntriesAreDropped(event)
<1>0. event.users \in Seq(UserCount) /\ event.reserved \in Seq(ReservedNames)
  BY DEF AnnouncementEvent
<1>1. ASSUME NEW i \in DOMAIN event.users,
             ~UsableCount(Announced(event), event.users[i])
      PROVE  SanitizeUserCounts(event) =
               SanitizeUserCounts([event EXCEPT !.users = Without(@, i)])
  <2> DEFINE shorter == [event EXCEPT !.users = Without(@, i)]
  <2>1. shorter.domains = event.domains /\ shorter.users = Without(event.users, i)
    BY DEF AnnouncementEvent
  <2> HIDE DEF shorter
  <2>2. SanitizeUserCounts(event) = SanitizeUserCounts(shorter)
    BY <1>0, <1>1, <2>1, CountsKept
  <2>3. QED
    BY <2>2 DEF shorter
<1>2. ASSUME NEW i \in DOMAIN event.reserved,
             event.reserved[i].domain \notin Announced(event)
      PROVE  SanitizeReservedNames(event) =
               SanitizeReservedNames([event EXCEPT !.reserved = Without(@, i)])
  <2> DEFINE shorter == [event EXCEPT !.reserved = Without(@, i)]
  <2>1. shorter.domains = event.domains /\ shorter.reserved = Without(event.reserved, i)
    BY DEF AnnouncementEvent
  <2> HIDE DEF shorter
  <2>2. SanitizeReservedNames(event) = SanitizeReservedNames(shorter)
    BY <1>0, <1>2, <2>1, NamesKept
  <2>3. QED
    BY <2>2 DEF shorter
<1>3. QED
  BY <1>1, <1>2, Zenon DEF BadEntriesAreDropped, UsableCount

-----------------------------------------------------------------------------
(* The list of domains.                                                    *)

LEMMA PriceTypes ==
  ASSUME NEW tiers \in Seq(Tier), NEW length \in Nat
  PROVE  PriceForLength(tiers, length) \in Nat \cup {Unavailable}
<1> DEFINE fits == {i \in DOMAIN tiers : tiers[i].max_length >= length}
<1>1. CASE tiers = << >> \/ fits = {}
  BY <1>1 DEF PriceForLength
<1>2. CASE tiers # << >> /\ fits # {}
  <2>1. \A i \in fits : tiers[i].max_length \in Nat /\ tiers[i].price \in Nat
    BY TierTypes
  <2>2. FirstSorted(tiers, fits) \in fits
    BY <1>2, <2>1, SomeIsFirst
  <2>3. PriceForLength(tiers, length) = tiers[FirstSorted(tiers, fits)].price
    BY <1>2 DEF PriceForLength
  <2>4. QED
    BY <2>1, <2>2, <2>3
<1>3. QED
  BY <1>1, <1>2

IsRow(row) ==
  /\ row.domain \in Int
  /\ row.tiers \in Seq(Tier)
  /\ row.usersCount \in Nat \cup {NoCount}

IsRowList(list) == \E n \in Nat : DOMAIN list = 1 .. n /\ \A i \in 1 .. n : IsRow(list[i])

LEMMA RowTypes ==
  ASSUME NEW operator, IsOperator(operator), NEW domain \in Int
  PROVE  IsRow(RowOf(operator, domain))
<1> DEFINE row == RowOf(operator, domain)
<1>1. row.domain = domain /\ row.tiers = Lookup(operator.pricing, domain, << >>)
  BY DEF RowOf
<1>2. row.tiers \in Seq(Tier)
  BY <1>1 DEF Lookup, IsOperator
<1>3. row.usersCount =
        CASE UsersSource(operator, domain) = "announced"   -> operator.userCounts[domain]
          [] UsersSource(operator, domain) = "unavailable" -> NoCount
          [] UsersSource(operator, domain) = "observed"    -> operator.usersCount
  BY DEF RowOf
<1> HIDE DEF row
<1>4. row.usersCount \in Nat \cup {NoCount}
  BY <1>3 DEF UsersSource, IsOperator
<1>5. IsRow(row)
  BY <1>1, <1>2, <1>4 DEF IsRow
<1>6. QED
  BY <1>5 DEF row

\* A badge that says "loading" waits for a scan, and a count that is shown is the one
\* announced for its domain, or the scan's where none is announced (app.js:242-247).
THEOREM BadgesAlwaysEnd ==
  ASSUME NEW ops, \A i \in DOMAIN ops : IsOperator(ops[i])
  PROVE  BadgesEnd(ops)
<1> SUFFICES ASSUME NEW i \in DOMAIN ops,
                    NEW k \in DOMAIN ops[i].verifiedDomains
             PROVE  LET operator == ops[i]
                        domain == operator.verifiedDomains[k]
                        badge  == UsersBadge(RowOf(operator, domain))
                        scanned == DOMAIN operator.userCounts = {}
                    IN  /\ badge[1] = "loading" => scanned /\ operator.usersCount = NoCount
                        /\ badge[1] = "users" =>
                             badge[2] = IF scanned THEN operator.usersCount
                                        ELSE operator.userCounts[domain]
  BY Zenon DEF BadgesEnd
<1>1. PICK operator : operator = ops[i]
  OBVIOUS
<1>2. PICK domain : domain = operator.verifiedDomains[k]
  OBVIOUS
<1>3. PICK row : row = RowOf(operator, domain)
  OBVIOUS
<1>4. row.usersSource = UsersSource(operator, domain)
  BY <1>3 DEF RowOf
<1>5. row.usersCount =
        CASE UsersSource(operator, domain) = "announced"   -> operator.userCounts[domain]
          [] UsersSource(operator, domain) = "unavailable" -> NoCount
          [] UsersSource(operator, domain) = "observed"    -> operator.usersCount
  BY <1>3 DEF RowOf
<1>6. domain \in DOMAIN operator.userCounts => operator.userCounts[domain] # NoCount
  BY <1>1 DEF IsOperator, NoCount
<1>7. /\ UsersBadge(row)[1] = "loading" =>
           DOMAIN operator.userCounts = {} /\ operator.usersCount = NoCount
      /\ UsersBadge(row)[1] = "users" =>
           UsersBadge(row)[2] = IF DOMAIN operator.userCounts = {} THEN operator.usersCount
                                ELSE operator.userCounts[domain]
  BY <1>4, <1>5, <1>6 DEF UsersSource, UsersBadge
<1>8. QED
  BY <1>1, <1>2, <1>3, <1>7, Zenon

\* The free filter keeps the rows whose chip says "free" (browse.js:85-97).
THEOREM FilterAlwaysMatchesChips ==
  ASSUME NEW list, IsRowList(list), NEW name, name.length \in Nat
  PROVE  FilterMatchesChips(list, name)
<1> SUFFICES ASSUME name # Untyped, NEW i \in DOMAIN list
             PROVE  /\ PriceForLength(list[i].tiers, name.length) = 0
                       /\ ~IsReserved(list[i], name)
                    <=> DomainRow(list[i], name, FALSE).chip = <<"free">>
  BY Zenon DEF FilterMatchesChips, FilterRows
<1> DEFINE row == list[i]
           price == PriceForLength(row.tiers, name.length)
<1>1. DomainRow(row, name, FALSE).chip = NamePrice(row, name)
  BY DEF DomainRow
<1>2. price \in Nat \cup {Unavailable}
  BY PriceTypes DEF IsRow, IsRowList
<1>3. NamePrice(row, name) = IF IsReserved(row, name) THEN <<"reserved">> ELSE PriceText(price)
  BY Zenon DEF NamePrice
<1> HIDE DEF price
<1>4. PriceText(price) = <<"free">> <=> price = 0
  BY <1>2 DEF PriceText, FormatSats, Unavailable
<1>5. <<"reserved">> # <<"free">>
  OBVIOUS
<1>6. QED
  BY <1>1, <1>3, <1>4, <1>5, Zenon DEF price

(* The order of the rows.                                                  *)

\* The sign of a comparison orders the values, and what is missing comes last.
LEMMA ValuesAreOrdered ==
  ASSUME NEW a \in Nat \cup {-1}, NEW b \in Nat \cup {-1}, NEW c \in Nat \cup {-1},
         NEW descending \in BOOLEAN
  PROVE  LET C(x, y) == CompareValues(x, y, -1, descending)
         IN  /\ C(a, b) \in Int /\ C(b, a) \in Int /\ C(a, c) \in Int
             /\ C(a, b) = 0 <=> a = b
             /\ C(a, b) < 0 <=> C(b, a) > 0
             /\ C(a, b) < 0 /\ C(b, c) < 0 => C(a, c) < 0
             /\ a # -1 /\ b = -1 => C(a, b) < 0
  BY DEF CompareValues

\* The primary comparison, before the domains are compared.
Primary(a, b, by, length) ==
  CASE by = "price" -> CompareValues(PriceForLength(a.tiers, length),
                                     PriceForLength(b.tiers, length), Unavailable, FALSE)
    [] by = "users" -> CompareValues(a.usersCount, b.usersCount, NoCount, TRUE)
    [] by = "alpha" -> 0

RowIsMissing(row, by, length) ==
  \/ by = "price" /\ PriceForLength(row.tiers, length) = Unavailable
  \/ by = "users" /\ row.usersCount = NoCount

\* What a row is compared by.
Value(row, by, length) ==
  CASE by = "price" -> PriceForLength(row.tiers, length)
    [] by = "users" -> row.usersCount
    [] by = "alpha" -> 0

\* The comparator orders three rows: it is antisymmetric and transitive, ties only rows
\* of one domain and puts a row that has no value last.
InOrder(a, b, c, by, length) ==
  LET C(x, y) == CompareRows(x, y, by, length)
  IN  /\ C(a, b) \in Int /\ C(b, a) \in Int
      /\ C(a, b) < 0 <=> C(b, a) > 0
      /\ C(a, b) = 0 <=> C(b, a) = 0
      /\ C(a, b) = 0 => a.domain = b.domain
      /\ C(a, b) < 0 /\ C(b, c) <= 0 => C(a, c) < 0
      /\ C(a, b) <= 0 /\ C(b, c) < 0 => C(a, c) < 0
      /\ C(a, b) = 0 /\ C(b, c) = 0 => C(a, c) = 0
      /\ ~RowIsMissing(a, by, length) /\ RowIsMissing(b, by, length) => C(a, b) < 0

LEMMA RowsAreOrdered ==
  ASSUME NEW a, NEW b, NEW c, IsRow(a), IsRow(b), IsRow(c),
         NEW by \in {"alpha", "price", "users"}, NEW length \in Nat
  PROVE  InOrder(a, b, c, by, length)
<1> DEFINE V(x) == Value(x, by, length)
           C(x, y) == CompareRows(x, y, by, length)
           D(x, y) == Primary(x, y, by, length)
<1>1. /\ V(a) \in Nat \cup {-1} /\ V(b) \in Nat \cup {-1} /\ V(c) \in Nat \cup {-1}
      /\ a.domain \in Int /\ b.domain \in Int /\ c.domain \in Int
  BY PriceTypes DEF IsRow, Value, Unavailable, NoCount
<1>2. \A x, y : C(x, y) = IF D(x, y) # 0 THEN D(x, y) ELSE x.domain - y.domain
  BY Zenon DEF CompareRows, Primary
<1>3. PICK descending \in BOOLEAN : descending = (by = "users")
  OBVIOUS
<1>4. \A x, y : by # "alpha" => D(x, y) = CompareValues(V(x), V(y), -1, descending)
  BY <1>3 DEF Primary, Value, Unavailable, NoCount
<1>5. \A x, y : by = "alpha" => D(x, y) = 0
  BY DEF Primary
<1>6. \A x : by # "alpha" => (RowIsMissing(x, by, length) <=> V(x) = -1)
  BY DEF RowIsMissing, Value, Unavailable, NoCount
<1>7. \A x : by = "alpha" => ~RowIsMissing(x, by, length)
  BY DEF RowIsMissing
<1> HIDE DEF V, C, D
<1>8. CASE by = "alpha"
  <2>1. /\ C(a, b) = a.domain - b.domain /\ C(b, a) = b.domain - a.domain
        /\ C(a, c) = a.domain - c.domain /\ C(b, c) = b.domain - c.domain
    BY <1>2, <1>5, <1>8
  <2>2. QED
    BY <1>1, <1>7, <1>8, <2>1 DEF C, InOrder
<1>9. CASE by # "alpha"
  <2>1. /\ D(a, b) = CompareValues(V(a), V(b), -1, descending)
        /\ D(b, a) = CompareValues(V(b), V(a), -1, descending)
        /\ D(a, c) = CompareValues(V(a), V(c), -1, descending)
        /\ D(b, c) = CompareValues(V(b), V(c), -1, descending)
    BY <1>4, <1>9
  <2>2. /\ D(a, b) \in Int /\ D(b, a) \in Int /\ D(a, c) \in Int /\ D(b, c) \in Int
        /\ D(a, b) = 0 <=> V(a) = V(b)
        /\ D(b, a) = 0 <=> V(a) = V(b)
        /\ D(a, c) = 0 <=> V(a) = V(c)
        /\ D(b, c) = 0 <=> V(b) = V(c)
        /\ D(a, b) < 0 <=> D(b, a) > 0
        /\ D(b, a) < 0 <=> D(a, b) > 0
        /\ D(a, b) < 0 /\ D(b, c) < 0 => D(a, c) < 0
        /\ V(a) # -1 /\ V(b) = -1 => D(a, b) < 0
    BY <1>1, <2>1, ValuesAreOrdered
  <2>3. /\ V(a) = V(b) => D(a, c) = D(b, c)
        /\ V(b) = V(c) => D(a, c) = D(a, b)
    BY <2>1
  <2>4. /\ C(a, b) = IF D(a, b) # 0 THEN D(a, b) ELSE a.domain - b.domain
        /\ C(b, a) = IF D(b, a) # 0 THEN D(b, a) ELSE b.domain - a.domain
        /\ C(a, c) = IF D(a, c) # 0 THEN D(a, c) ELSE a.domain - c.domain
        /\ C(b, c) = IF D(b, c) # 0 THEN D(b, c) ELSE b.domain - c.domain
    BY <1>2
  <2>5. ~RowIsMissing(a, by, length) /\ RowIsMissing(b, by, length) => D(a, b) < 0
    BY <1>6, <1>9, <2>2
  <2>6. QED
    BY <1>1, <2>2, <2>3, <2>4, <2>5 DEF C, InOrder
<1>10. QED
  BY <1>8, <1>9
\* Under a strict total order of the numbers 1 to n each has a place of its own.
LEMMA PlacesAreTaken ==
  ASSUME NEW n \in Nat, NEW R,
         \A i \in 1 .. n : <<i, i>> \notin R,
         \A i, j \in 1 .. n : i # j => <<i, j>> \in R \/ <<j, i>> \in R,
         \A i, j, k \in 1 .. n : <<i, j>> \in R /\ <<j, k>> \in R => <<i, k>> \in R,
         NEW place \in [1 .. n -> Int],
         \A i \in 1 .. n : place[i] = 1 + Cardinality({j \in 1 .. n : <<j, i>> \in R})
  PROVE  /\ \A i, j \in 1 .. n : <<i, j>> \in R <=> place[i] < place[j]
         /\ place \in Bijection(1 .. n, 1 .. n)
<1> DEFINE before(i) == {j \in 1 .. n : <<j, i>> \in R}
<1>1. IsFiniteSet(1 .. n) /\ Cardinality(1 .. n) = n
  BY FS_Interval
<1>2. ASSUME NEW i \in 1 .. n
      PROVE  IsFiniteSet(before(i)) /\ Cardinality(before(i)) \in 0 .. n - 1
  <2>1. before(i) \in SUBSET ((1 .. n) \ {i})
    OBVIOUS
  <2>2. IsFiniteSet((1 .. n) \ {i}) /\ Cardinality((1 .. n) \ {i}) = n - 1
    BY <1>1, FS_RemoveElement
  <2> HIDE DEF before
  <2>3. IsFiniteSet(before(i)) /\ Cardinality(before(i)) <= n - 1
    BY <2>1, <2>2, FS_Subset
  <2>4. QED
    BY <2>3, FS_CardinalityType
<1>3. place \in [1 .. n -> 1 .. n]
  <2> HIDE DEF before
  <2>1. \A i \in 1 .. n : place[i] = 1 + Cardinality(before(i))
    BY DEF before
  <2>2. QED
    BY <1>2, <2>1
<1>4. ASSUME NEW i \in 1 .. n, NEW j \in 1 .. n, <<i, j>> \in R
      PROVE  place[i] < place[j]
  <2>1. before(i) \in SUBSET before(j) /\ i \in before(j) /\ i \notin before(i)
    BY <1>4
  <2> HIDE DEF before
  <2>2. Cardinality(before(i)) <= Cardinality(before(j))
    BY <1>2, <2>1, FS_Subset
  <2>3. Cardinality(before(i)) # Cardinality(before(j))
    BY <1>2, <2>1, FS_Subset
  <2>4. place[i] = 1 + Cardinality(before(i)) /\ place[j] = 1 + Cardinality(before(j))
    BY DEF before
  <2>5. QED
    BY <1>2, <2>2, <2>3, <2>4
<1>5. \A i, j \in 1 .. n : <<i, j>> \in R <=> place[i] < place[j]
  <2> SUFFICES ASSUME NEW i \in 1 .. n, NEW j \in 1 .. n, place[i] < place[j]
               PROVE  <<i, j>> \in R
    BY <1>4
  <2>1. place[i] \in Int /\ place[j] \in Int
    OBVIOUS
  <2>2. i # j /\ ~(place[j] < place[i])
    BY <2>1, SMTT(30)
  <2>3. QED
    BY <1>4, <2>2
<1>6. \A i, j \in 1 .. n : i # j => place[i] # place[j]
  <2> SUFFICES ASSUME NEW i \in 1 .. n, NEW j \in 1 .. n, i # j PROVE place[i] # place[j]
    OBVIOUS
  <2>1. place[i] \in Int /\ place[j] \in Int
    OBVIOUS
  <2>2. CASE <<i, j>> \in R
    BY <1>4, <2>1, <2>2
  <2>3. CASE <<j, i>> \in R
    BY <1>4, <2>1, <2>3
  <2>4. QED
    BY <2>2, <2>3
<1>7. place \in Injection(1 .. n, 1 .. n)
  BY <1>3, <1>6 DEF Injection, IsInjective
<1>8. place \in Surjection(1 .. n, 1 .. n)
  BY <1>1, <1>7, FS_Injection
<1>9. QED
  BY <1>5, <1>7, <1>8 DEF Bijection

\* f[k] is where the row at place k of the sorted list stood.
Rearranged(sorted, list, f, by, length) ==
  /\ \A k \in DOMAIN list : sorted[k] = list[f[k]]
  /\ \A j, k \in DOMAIN list : j < k =>
       \/ CompareRows(list[f[j]], list[f[k]], by, length) < 0
       \/ CompareRows(list[f[j]], list[f[k]], by, length) = 0 /\ f[j] < f[k]

\* Sorting rearranges the rows, and leaves the ones that compare equal in the order
\* they had (sortRows of browse.js).
THEOREM SortRearranges ==
  ASSUME NEW list, IsRowList(list),
         NEW by \in {"alpha", "price", "users"}, NEW length \in Nat
  PROVE  /\ DOMAIN SortRows(list, by, length) = DOMAIN list
         /\ \E f \in Bijection(DOMAIN list, DOMAIN list) :
              Rearranged(SortRows(list, by, length), list, f, by, length)
<1>0. PICK n \in Nat : DOMAIN list = 1 .. n /\ \A i \in 1 .. n : IsRow(list[i])
  BY DEF IsRowList
<1> DEFINE C(i, j) == CompareRows(list[i], list[j], by, length)
           Before(i, j) == C(i, j) < 0 \/ (C(i, j) = 0 /\ i < j)
           R == {p \in (1 .. n) \X (1 .. n) : Before(p[1], p[2])}
           place == [i \in 1 .. n |-> 1 + Cardinality({j \in 1 .. n : <<j, i>> \in R})]
           f == [k \in 1 .. n |-> CHOOSE i \in 1 .. n : place[i] = k]
<1>1. \A i, j, k \in 1 .. n :
         /\ C(i, j) \in Int /\ C(j, i) \in Int
         /\ C(i, j) < 0 <=> C(j, i) > 0
         /\ C(i, j) = 0 <=> C(j, i) = 0
         /\ C(i, j) < 0 /\ C(j, k) <= 0 => C(i, k) < 0
         /\ C(i, j) <= 0 /\ C(j, k) < 0 => C(i, k) < 0
         /\ C(i, j) = 0 /\ C(j, k) = 0 => C(i, k) = 0
  <2> SUFFICES ASSUME NEW i \in 1 .. n, NEW j \in 1 .. n, NEW k \in 1 .. n
               PROVE  InOrder(list[i], list[j], list[k], by, length)
    BY DEF InOrder
  <2>1. QED
    BY <1>0, RowsAreOrdered
<1> HIDE DEF C
<1>2. \A i, j \in 1 .. n : <<i, j>> \in R <=> Before(i, j)
  OBVIOUS
<1>3. \A i \in 1 .. n : ~Before(i, i)
  BY <1>1
<1>4. \A i, j \in 1 .. n : i # j => Before(i, j) \/ Before(j, i)
  BY <1>1
<1>5. ASSUME NEW i \in 1 .. n, NEW j \in 1 .. n, NEW k \in 1 .. n,
             Before(i, j), Before(j, k)
      PROVE  Before(i, k)
  <2>1. /\ C(i, j) \in Int /\ C(j, k) \in Int
        /\ C(i, j) < 0 /\ C(j, k) <= 0 => C(i, k) < 0
        /\ C(i, j) <= 0 /\ C(j, k) < 0 => C(i, k) < 0
        /\ C(i, j) = 0 /\ C(j, k) = 0 => C(i, k) = 0
    BY <1>1
  <2>2. QED
    BY <1>5, <2>1
<1>6. place \in [1 .. n -> Int]
  <2>1. ASSUME NEW i \in 1 .. n
        PROVE  Cardinality({j \in 1 .. n : <<j, i>> \in R}) \in Int
    <3>1. {j \in 1 .. n : <<j, i>> \in R} \in SUBSET (1 .. n)
      OBVIOUS
    <3>2. IsFiniteSet(1 .. n)
      BY FS_Interval
    <3> HIDE DEF R
    <3>3. IsFiniteSet({j \in 1 .. n : <<j, i>> \in R})
      BY <3>1, <3>2, FS_Subset, Zenon
    <3>4. QED
      BY <3>3, FS_CardinalityType
  <2> HIDE DEF R
  <2>2. QED
    BY <2>1
<1>7. \A i \in 1 .. n : place[i] = 1 + Cardinality({j \in 1 .. n : <<j, i>> \in R})
  OBVIOUS
<1> HIDE DEF R, place, Before
<1>8. /\ \A i, j \in 1 .. n : <<i, j>> \in R <=> place[i] < place[j]
      /\ place \in Bijection(1 .. n, 1 .. n)
  <2>1. /\ \A i \in 1 .. n : <<i, i>> \notin R
        /\ \A i, j \in 1 .. n : i # j => <<i, j>> \in R \/ <<j, i>> \in R
        /\ \A i, j, k \in 1 .. n : <<i, j>> \in R /\ <<j, k>> \in R => <<i, k>> \in R
    BY <1>2, <1>3, <1>4, <1>5
  <2>2. QED
    BY <1>6, <1>7, <2>1, PlacesAreTaken
<1>9. /\ \A k \in 1 .. n : \E i \in 1 .. n : place[i] = k
      /\ \A i \in 1 .. n : place[i] \in 1 .. n
  BY <1>8 DEF Bijection, Surjection
<1>10. \A k \in 1 .. n : f[k] \in 1 .. n /\ place[f[k]] = k
  BY <1>9
<1>11. f \in Bijection(1 .. n, 1 .. n)
  <2>1. f \in [1 .. n -> 1 .. n]
    BY <1>10
  <2> HIDE DEF f
  <2>2. \A j, k \in 1 .. n : f[j] = f[k] => j = k
    BY <1>10
  <2>3. \A i \in 1 .. n : \E k \in 1 .. n : f[k] = i
    <3> SUFFICES ASSUME NEW i \in 1 .. n PROVE \E k \in 1 .. n : f[k] = i
      OBVIOUS
    <3>1. place[i] \in 1 .. n /\ place[f[place[i]]] = place[i]
      BY <1>9, <1>10
    <3>2. f[place[i]] = i
      BY <1>8, <1>10, <3>1 DEF Bijection, Injection, IsInjective
    <3>3. QED
      BY <3>1, <3>2
  <2>4. QED
    BY <2>1, <2>2, <2>3 DEF Bijection, Injection, IsInjective, Surjection
<1>12. SortRows(list, by, length) = [k \in 1 .. n |-> list[f[k]]]
  <2>1. \A i \in 1 .. n : {j \in 1 .. n : <<j, i>> \in R} = {j \in 1 .. n : Before(j, i)}
    BY <1>2
  <2> DEFINE P(i) == 1 + Cardinality({j \in DOMAIN list : Before(j, i)})
             old(k) == CHOOSE i \in DOMAIN list : P(i) = k
  <2>2. \A i \in 1 .. n : P(i) = place[i]
    BY <1>0, <1>7, <2>1
  <2>3. SortRows(list, by, length) = [k \in DOMAIN list |-> list[old(k)]]
    BY Zenon DEF SortRows, Before, C
  <2> HIDE DEF P
  <2>4. \A k \in 1 .. n : old(k) = f[k]
    BY <1>0, <2>2
  <2> HIDE DEF old, f
  <2>5. QED
    BY <1>0, <2>3, <2>4
<1> HIDE DEF f
<1>13. \A j, k \in 1 .. n : j < k => Before(f[j], f[k])
  BY <1>2, <1>8, <1>10
<1>14. QED
  BY <1>0, <1>11, <1>12, <1>13 DEF Before, C, Rearranged

\* The comparator is an order that ties only rows of one domain, and what has no price
\* or count comes last (browse.js:146-149).
THEOREM SortIsAlwaysSound ==
  ASSUME NEW list, IsRowList(list),
         NEW by \in {"alpha", "price", "users"}, NEW length \in Nat
  PROVE  SortIsSound(list, by, length)
<1>0. PICK n \in Nat : DOMAIN list = 1 .. n /\ \A i \in 1 .. n : IsRow(list[i])
  BY DEF IsRowList
<1> DEFINE all == {list[i] : i \in DOMAIN list}
           C(a, b) == CompareRows(a, b, by, length)
           sorted == SortRows(list, by, length)
<1>1. \A a \in all : IsRow(a)
  BY <1>0
<1> HIDE DEF all
<1>2. \A a, b, c \in all :
         /\ C(a, b) \in Int /\ C(b, a) \in Int
         /\ C(a, b) < 0 <=> C(b, a) > 0
         /\ C(a, b) = 0 <=> C(b, a) = 0
         /\ C(a, b) = 0 => a.domain = b.domain
         /\ C(a, b) < 0 /\ C(b, c) <= 0 => C(a, c) < 0
         /\ ~RowIsMissing(a, by, length) /\ RowIsMissing(b, by, length) => C(a, b) < 0
  <2> SUFFICES ASSUME NEW a \in all, NEW b \in all, NEW c \in all
               PROVE  InOrder(a, b, c, by, length)
    BY DEF InOrder
  <2>1. QED
    BY <1>1, RowsAreOrdered
<1>3. PICK f \in Bijection(DOMAIN list, DOMAIN list) :
        Rearranged(sorted, list, f, by, length)
  BY SortRearranges
<1>4. DOMAIN sorted = 1 .. n
  BY <1>0, SortRearranges
<1>5. \A k \in 1 .. n : f[k] \in 1 .. n /\ list[f[k]] \in all
  BY <1>0 DEF Bijection, Injection, all
<1> HIDE DEF sorted, C
<1>6. \A a, b \in all : /\ ~(C(a, b) < 0 /\ C(b, a) < 0)
                        /\ C(a, b) = 0 => C(b, a) = 0 /\ a.domain = b.domain
  BY <1>2
<1>7. \A a, b, c \in all : C(a, b) < 0 /\ ~(C(c, b) < 0) => C(a, c) < 0
  <2> SUFFICES ASSUME NEW a \in all, NEW b \in all, NEW c \in all, C(a, b) < 0, ~(C(c, b) < 0)
               PROVE  C(a, c) < 0
    OBVIOUS
  <2>1. C(b, c) \in Int /\ C(c, b) \in Int /\ (C(b, c) > 0 <=> C(c, b) < 0)
    BY <1>2
  <2>2. C(b, c) <= 0
    BY <2>1
  <2>3. QED
    BY <1>2, <2>2
<1>8. \A i, j \in DOMAIN sorted :
         i < j /\ RowIsMissing(sorted[i], by, length) => RowIsMissing(sorted[j], by, length)
  <2> SUFFICES ASSUME NEW i \in 1 .. n, NEW j \in 1 .. n, i < j,
                      RowIsMissing(sorted[i], by, length), ~RowIsMissing(sorted[j], by, length)
               PROVE  FALSE
    BY <1>4
  <2>1. PICK a \in all, b \in all : a = list[f[i]] /\ b = list[f[j]]
    BY <1>5
  <2>2. C(b, a) < 0
    BY <1>0, <1>2, <1>3, <2>1 DEF Rearranged, C
  <2>3. C(a, b) <= 0 /\ C(a, b) \in Int
    BY <1>0, <1>2, <1>3, <2>1 DEF Rearranged, C
  <2>4. C(b, a) < 0 <=> C(a, b) > 0
    BY <1>2
  <2>5. QED
    BY <2>2, <2>3, <2>4
<1>9. QED
  BY <1>6, <1>7, <1>8, Zenon DEF SortIsSound, RowIsMissing, C, all, sorted

-----------------------------------------------------------------------------
(* The rows of a list of operators.                                        *)

\* What is flattened is a sequence of the same elements: there is a function that does
\* the first k steps, for every k, and its values are such sequences.
LEMMA FlatIsSequence ==
  ASSUME NEW T, NEW s \in Seq(Seq(T)) PROVE Seqs!FlattenSeq(s) \in Seq(T)
<1> DEFINE L == Len(s)
           FlatTo(f, k) == f = [i \in 1 .. k |-> IF i = 1 THEN s[i] ELSE f[i - 1] \o s[i]]
           flatten[i \in 1 .. Len(s)] == IF i = 1 THEN s[i] ELSE flatten[i - 1] \o s[i]
<1>1. L \in Nat /\ \A i \in 1 .. L : s[i] \in Seq(T)
  OBVIOUS
<1>2. CASE L = 0
  <2>1. s = << >>
    BY <1>2
  <2>2. << >> \in Seq(T)
    OBVIOUS
  <2>3. QED
    BY <1>2, <2>1, <2>2, Zenon DEF Seqs!FlattenSeq
<1>3. CASE L # 0
  <2>1. \A k \in Nat : \E f : FlatTo(f, k)
    <3> DEFINE wrong == {k \in Nat : ~\E f : FlatTo(f, k)}
    <3> SUFFICES ASSUME wrong # {} PROVE FALSE
      OBVIOUS
    <3>1. PICK k \in wrong : \A j \in wrong : k <= j
      <4>1. wrong \in SUBSET Nat
        OBVIOUS
      <4> HIDE DEF wrong
      <4>2. QED
        BY <4>1, LeastNatural
    <3>2. k \in Nat /\ ~\E f : FlatTo(f, k)
      BY <3>1
    <3>3. k # 0
      <4> DEFINE f == [i \in 1 .. 0 |-> 0]
      <4>1. FlatTo(f, 0)
        OBVIOUS
      <4>2. QED
        BY <3>2, <4>1
    <3>4. PICK f : FlatTo(f, k - 1)
      <4>1. k - 1 \in Nat /\ ~(k <= k - 1)
        BY <3>2, <3>3
      <4>2. k - 1 \notin wrong
        BY <3>1, <4>1, Zenon
      <4>3. QED
        BY <4>1, <4>2, Zenon
    <3> DEFINE g == [i \in 1 .. k |-> IF i = k THEN IF k = 1 THEN s[k] ELSE f[k - 1] \o s[k]
                                      ELSE f[i]]
    <3>5. \A i \in 1 .. k : g[i] = IF i = 1 THEN s[i] ELSE g[i - 1] \o s[i]
      <4> SUFFICES ASSUME NEW i \in 1 .. k
                   PROVE  g[i] = IF i = 1 THEN s[i] ELSE g[i - 1] \o s[i]
        OBVIOUS
      <4>1. CASE i = k
        <5>1. i # 1 => g[i - 1] = f[k - 1]
          BY <3>2, <3>3, <4>1
        <5>2. g[i] = IF k = 1 THEN s[k] ELSE f[k - 1] \o s[k]
          BY <4>1
        <5> HIDE DEF g
        <5>3. QED
          BY <4>1, <5>1, <5>2, Zenon
      <4>2. CASE i # k
        <5>1. i \in 1 .. k - 1
          BY <3>2, <4>2
        <5>2. f[i] = IF i = 1 THEN s[i] ELSE f[i - 1] \o s[i]
          BY <3>4, <5>1, Zenon
        <5>3. i # 1 => g[i - 1] = f[i - 1]
          BY <3>2, <5>1
        <5>4. g[i] = f[i]
          BY <4>2
        <5> HIDE DEF g
        <5>5. QED
          BY <5>2, <5>3, <5>4, Zenon
      <4>3. QED
        BY <4>1, <4>2
    <3>6. FlatTo(g, k)
      BY <3>5, Zenon
    <3>7. QED
      BY <3>2, <3>6
  <2>2. FlatTo(flatten, L)
    BY <1>1, <2>1, Zenon
  <2> HIDE DEF flatten
  <2>3. \A i \in 1 .. L : flatten[i] = IF i = 1 THEN s[i] ELSE flatten[i - 1] \o s[i]
    BY <2>2, Zenon
  <2>4. \A i \in 1 .. L : flatten[i] \in Seq(T)
    <3> DEFINE wrong == {i \in 1 .. L : flatten[i] \notin Seq(T)}
    <3> SUFFICES ASSUME wrong # {} PROVE FALSE
      OBVIOUS
    <3>1. PICK i \in wrong : \A j \in wrong : i <= j
      <4>1. wrong \in SUBSET Nat
        BY <1>1
      <4> HIDE DEF wrong
      <4>2. QED
        BY <4>1, LeastNatural
    <3>2. i \in 1 .. L /\ flatten[i] \notin Seq(T)
      BY <3>1
    <3>3. CASE i = 1
      BY <1>1, <2>3, <3>2, <3>3
    <3>4. CASE i # 1
      <4>1. i - 1 \in 1 .. L /\ ~(i <= i - 1)
        BY <1>1, <3>2, <3>4
      <4>2. flatten[i - 1] \in Seq(T)
        BY <3>1, <4>1
      <4>3. flatten[i - 1] \o s[i] \in Seq(T)
        BY <1>1, <3>2, <4>2
      <4>4. QED
        BY <2>3, <3>2, <3>4, <4>3
    <3>5. QED
      BY <3>3, <3>4
  <2>5. flatten[L] \in Seq(T)
    BY <1>1, <1>3, <2>4
  <2>6. QED
    BY <1>3, <2>5, Zenon DEF Seqs!FlattenSeq, flatten
<1>4. QED
  BY <1>2, <1>3

LEMMA RowsAreRows ==
  ASSUME NEW n \in Nat, NEW ops, DOMAIN ops = 1 .. n,
         \A i \in 1 .. n : IsOperator(ops[i])
  PROVE  IsRowList(BuildRows(ops))
<1> DEFINE own(i) == {RowOf(ops[i], ops[i].verifiedDomains[k]) :
                        k \in DOMAIN ops[i].verifiedDomains}
           T == UNION {own(i) : i \in 1 .. n}
           rowsOf(i) == [k \in DOMAIN ops[i].verifiedDomains |->
                           RowOf(ops[i], ops[i].verifiedDomains[k])]
           s == [i \in 1 .. n |-> rowsOf(i)]
<1>1. \A i \in 1 .. n : \E k \in Nat : /\ DOMAIN ops[i].verifiedDomains = 1 .. k
                                      /\ ops[i].verifiedDomains \in [1 .. k -> Int]
  BY DEF IsOperator
<1>2. ASSUME NEW r \in T PROVE IsRow(r)
  <2>1. PICK i \in 1 .. n : r \in own(i)
    OBVIOUS
  <2>2. PICK k \in DOMAIN ops[i].verifiedDomains :
          r = RowOf(ops[i], ops[i].verifiedDomains[k])
    BY <2>1
  <2>3. ops[i].verifiedDomains[k] \in Int
    BY <1>1
  <2>4. QED
    BY <2>2, <2>3, RowTypes
<1>3. \A i \in 1 .. n : rowsOf(i) \in Seq(T)
  <2> SUFFICES ASSUME NEW i \in 1 .. n PROVE rowsOf(i) \in Seq(T)
    OBVIOUS
  <2>1. PICK k \in Nat : DOMAIN ops[i].verifiedDomains = 1 .. k
    BY <1>1
  <2>2. \A j \in 1 .. k : RowOf(ops[i], ops[i].verifiedDomains[j]) \in T
    BY <2>1
  <2> HIDE DEF T
  <2>3. QED
    BY <2>1, <2>2
<1> HIDE DEF T, rowsOf
<1>4. s \in Seq(Seq(T))
  BY <1>3
<1>5. BuildRows(ops) = Seqs!FlattenSeq(s)
  BY Zenon DEF BuildRows, rowsOf
<1> HIDE DEF s
<1>6. BuildRows(ops) \in Seq(T)
  BY <1>4, <1>5, FlatIsSequence
<1>7. QED
  BY <1>2, <1>6 DEF IsRowList

-----------------------------------------------------------------------------
(* The queue of a relay connection.                                        *)

Node == [value : Nat, next : Nat, prev : Nat]
NodeQueue == [heap : Seq(Node), first : Nat, last : Nat]

\* The linked list q holds the messages of the sequence m: they are the last nodes
\* that were made, each linked to the next one.
Holds(q, m) ==
  /\ q \in NodeQueue
  /\ m = << >> => q.first = Queue!Null /\ q.last = Queue!Null
  /\ m # << >> =>
       /\ q.last = Len(q.heap)
       /\ q.first = Len(q.heap) - Len(m) + 1
       /\ q.first > 0
       /\ \A i \in 1 .. Len(m) : q.heap[q.first + i - 1].value = m[i]
       /\ \A i \in q.first .. q.last - 1 : q.heap[i].next = i + 1

LEMMA EnqueueHolds ==
  ASSUME NEW q, NEW m \in Seq(Nat), NEW value \in Nat, Holds(q, m)
  PROVE  Holds(Queue!Enqueue(q, value), Append(m, value))
<1> DEFINE new == Len(q.heap) + 1
           node == Queue!QueueNode(value)
           heap == Append(q.heap, node)
           longer == Append(m, value)
<1>1. /\ q.heap \in Seq(Node) /\ q.first \in Nat /\ q.last \in Nat
      /\ Len(q.heap) \in Nat
  BY DEF Holds, NodeQueue
<1>2. node \in Node /\ node.value = value
  BY DEF Queue!QueueNode, Queue!Null, Node
<1>3. /\ heap \in Seq(Node) /\ Len(heap) = new
      /\ heap[new] = node
      /\ \A i \in 1 .. Len(q.heap) : heap[i] = q.heap[i] /\ heap[i] \in Node
  <2> HIDE DEF node
  <2>1. QED
    BY <1>1, <1>2
<1>4. /\ longer \in Seq(Nat) /\ Len(longer) = Len(m) + 1 /\ longer # << >>
      /\ longer[Len(m) + 1] = value
      /\ \A i \in 1 .. Len(m) : longer[i] = m[i]
  OBVIOUS
<1> HIDE DEF heap, longer, node
<1>5. CASE q.last = Queue!Null
  <2>1. m = << >> /\ Len(m) = 0
    BY <1>1, <1>5 DEF Holds, Queue!Null
  <2>2. Queue!Enqueue(q, value) = [heap |-> heap, first |-> new, last |-> new]
    BY <1>5 DEF Queue!Enqueue, heap, node
  <2>3. QED
    BY <1>1, <1>2, <1>3, <1>4, <2>1, <2>2 DEF Holds, NodeQueue
<1>6. CASE q.last # Queue!Null
  <2>1. /\ m # << >> /\ Len(m) > 0
        /\ q.last = Len(q.heap) /\ q.first = Len(q.heap) - Len(m) + 1 /\ q.first > 0
    BY <1>6 DEF Holds
  <2> DEFINE linked == [heap EXCEPT ![new].prev = q.last, ![q.last].next = new]
  <2>2. Queue!Enqueue(q, value) = [heap |-> linked, first |-> q.first, last |-> new]
    BY <1>6 DEF Queue!Enqueue, heap, node
  <2>3. q.last # new /\ q.last \in 1 .. Len(q.heap)
    BY <1>1, <2>1
  <2>4. /\ linked \in Seq(Node) /\ Len(linked) = new
        /\ linked[new].value = value
        /\ \A i \in 1 .. Len(q.heap) : linked[i].value = heap[i].value
        /\ linked[q.last].next = new
        /\ \A i \in 1 .. Len(q.heap) : i # q.last => linked[i].next = heap[i].next
    <3>1. \A i \in 1 .. new : heap[i] \in Node
      BY <1>1, <1>2, <1>3
    <3>2. DOMAIN heap = 1 .. new
      BY <1>3
    <3>3. \A i \in 1 .. new :
             linked[i] = IF i = q.last THEN [heap[i] EXCEPT !.next = new]
                         ELSE IF i = new THEN [heap[i] EXCEPT !.prev = q.last]
                         ELSE heap[i]
      BY <2>3, <3>2
    <3>4. DOMAIN linked = 1 .. new
      BY <3>2
    <3>5. new \in Nat
      BY <1>1
    <3>6. linked = [i \in 1 .. new |-> linked[i]]
      BY <3>2
    <3> HIDE DEF linked, new
    <3>7. ASSUME NEW i \in 1 .. new
          PROVE  /\ linked[i] \in Node
                 /\ linked[i].value = heap[i].value
                 /\ linked[i].next = IF i = q.last THEN new ELSE heap[i].next
      <4>1. heap[i] \in [value : Nat, next : Nat, prev : Nat]
        BY <3>1 DEF Node
      <4>2. CASE i = q.last
        BY <3>3, <3>5, <4>1, <4>2 DEF Node
      <4>3. CASE i # q.last
        BY <1>1, <3>3, <4>1, <4>3 DEF Node
      <4>4. QED
        BY <4>2, <4>3
    <3>8. linked \in Seq(Node) /\ Len(linked) = new
      BY <3>5, <3>6, <3>7
    <3>9. 1 .. Len(q.heap) \subseteq 1 .. new /\ new \in 1 .. new
      BY <1>1 DEF new
    <3>10. QED
      BY <1>2, <1>3, <2>3, <3>7, <3>8, <3>9
  <2> HIDE DEF linked
  <2>5. \A i \in 1 .. Len(longer) : linked[q.first + i - 1].value = longer[i]
    <3> SUFFICES ASSUME NEW i \in 1 .. Len(longer)
                 PROVE  linked[q.first + i - 1].value = longer[i]
      OBVIOUS
    <3>1. CASE i = Len(m) + 1
      BY <1>1, <1>4, <2>1, <2>4, <3>1
    <3>2. CASE i # Len(m) + 1
      <4>1. i \in 1 .. Len(m) /\ q.first + i - 1 \in 1 .. Len(q.heap)
        BY <1>1, <1>4, <2>1, <3>2
      <4>2. q.heap[q.first + i - 1].value = m[i]
        BY <2>1, <4>1 DEF Holds
      <4>3. QED
        BY <1>3, <1>4, <2>4, <4>1, <4>2
    <3>3. QED
      BY <3>1, <3>2
  <2>6. \A i \in q.first .. new - 1 : linked[i].next = i + 1
    <3> SUFFICES ASSUME NEW i \in q.first .. new - 1 PROVE linked[i].next = i + 1
      OBVIOUS
    <3>1. i \in 1 .. Len(q.heap)
      BY <1>1, <2>1
    <3>2. CASE i = q.last
      BY <2>1, <2>4, <3>2
    <3>3. CASE i # q.last
      <4>1. i \in q.first .. q.last - 1
        BY <1>1, <2>1, <3>3
      <4>2. q.heap[i].next = i + 1
        BY <2>1, <4>1 DEF Holds
      <4>3. QED
        BY <1>3, <2>4, <3>1, <3>3, <4>2
    <3>4. QED
      BY <3>2, <3>3
  <2>7. [heap |-> linked, first |-> q.first, last |-> new] \in NodeQueue
    BY <1>1, <2>4 DEF NodeQueue
  <2>8. q.first = Len(linked) - Len(longer) + 1
    BY <1>1, <1>4, <2>1, <2>4
  <2> HIDE DEF new
  <2>9. Holds([heap |-> linked, first |-> q.first, last |-> new], longer)
    BY <1>4, <2>1, <2>4, <2>5, <2>6, <2>7, <2>8 DEF Holds
  <2>10. QED
    BY <2>2, <2>9 DEF longer
<1>7. QED
  BY <1>5, <1>6

LEMMA DequeueHolds ==
  ASSUME NEW q, NEW m \in Seq(Nat), Holds(q, m)
  PROVE  LET d == Queue!Dequeue(q)
         IN  /\ d.value = IF m = << >> THEN Queue!Null ELSE Head(m)
             /\ Holds(d.queue, IF m = << >> THEN << >> ELSE Tail(m))
<1>1. /\ q.heap \in Seq(Node) /\ q.first \in Nat /\ q.last \in Nat
      /\ Len(q.heap) \in Nat /\ Len(m) \in Nat
  BY DEF Holds, NodeQueue
<1>2. CASE m = << >>
  BY <1>2 DEF Holds, Queue!Dequeue
<1>3. CASE m # << >>
  <2>1. /\ q.last = Len(q.heap) /\ q.first = Len(q.heap) - Len(m) + 1 /\ q.first > 0
        /\ Len(m) > 0
    BY <1>3 DEF Holds
  <2>2. q.first # Queue!Null
    BY <2>1 DEF Queue!Null
  <2>3. q.heap[q.first].value = Head(m)
    <3>1. q.heap[q.first + 1 - 1].value = m[1]
      BY <1>1, <1>3, <2>1 DEF Holds
    <3>2. QED
      BY <1>1, <2>1, <3>1
  <2>4. /\ Tail(m) \in Seq(Nat) /\ Len(Tail(m)) = Len(m) - 1
        /\ \A i \in 1 .. Len(Tail(m)) : Tail(m)[i] = m[i + 1]
    BY <1>3
  <2>5. CASE q.first = q.last
    <3>1. Tail(m) = << >>
      BY <1>1, <2>1, <2>4, <2>5
    <3> DEFINE empty == [q EXCEPT !.first = Queue!Null, !.last = Queue!Null]
    <3>2. Queue!Dequeue(q) = [value |-> q.heap[q.first].value, queue |-> empty]
      BY <2>2, <2>5 DEF Queue!Dequeue
    <3>3. empty \in NodeQueue /\ empty.first = Queue!Null /\ empty.last = Queue!Null
      BY <1>1 DEF Holds, NodeQueue, Queue!Null
    <3> HIDE DEF empty
    <3>4. Holds(empty, << >>)
      BY <3>3 DEF Holds
    <3>5. Queue!Dequeue(q).value = Head(m) /\ Queue!Dequeue(q).queue = empty
      BY <2>3, <3>2
    <3>6. QED
      BY <1>3, <3>1, <3>4, <3>5, Zenon
  <2>6. CASE q.first # q.last
    <3>1. q.heap[q.first].next = q.first + 1 /\ Tail(m) # << >>
      <4>1. q.first \in q.first .. q.last - 1 /\ Len(Tail(m)) > 0
        BY <1>1, <2>1, <2>4, <2>6
      <4>2. Tail(m) # << >>
        <5>1. PICK rest \in Seq(Nat) : rest = Tail(m)
          BY <2>4
        <5>2. Len(rest) > 0
          BY <4>1, <5>1, Zenon
        <5>3. rest # << >>
          BY <5>2
        <5>4. QED
          BY <5>1, <5>3, Zenon
      <4>3. q.heap[q.first].next = q.first + 1
        BY <1>3, <4>1 DEF Holds
      <4>4. QED
        BY <4>2, <4>3
    <3> DEFINE shorter == [q EXCEPT !.first = q.first + 1]
    <3>2. Queue!Dequeue(q) = [value |-> q.heap[q.first].value, queue |-> shorter]
      BY <2>2, <2>6, <3>1 DEF Queue!Dequeue
    <3>3. /\ shorter \in NodeQueue /\ shorter.heap = q.heap
          /\ shorter.first = q.first + 1 /\ shorter.last = q.last
      BY <1>1 DEF Holds, NodeQueue
    <3> HIDE DEF shorter
    <3>4. \A i \in 1 .. Len(Tail(m)) : q.heap[q.first + i].value = Tail(m)[i]
      <4> SUFFICES ASSUME NEW i \in 1 .. Len(Tail(m))
                   PROVE  q.heap[q.first + i].value = Tail(m)[i]
        OBVIOUS
      <4>1. i + 1 \in 1 .. Len(m) /\ q.first + (i + 1) - 1 = q.first + i
        BY <1>1, <2>4
      <4>2. q.heap[q.first + (i + 1) - 1].value = m[i + 1]
        BY <1>3, <4>1 DEF Holds
      <4>3. QED
        BY <2>4, <4>1, <4>2
    <3>5. \A i \in q.first + 1 .. q.last - 1 : q.heap[i].next = i + 1
      BY <1>1, <1>3 DEF Holds
    <3>6. Holds(shorter, Tail(m))
      <4>1. \A i \in 1 .. Len(Tail(m)) : (q.first + 1) + i - 1 = q.first + i
        BY <1>1
      <4>2. \A i \in 1 .. Len(Tail(m)) : shorter.heap[shorter.first + i - 1].value = Tail(m)[i]
        BY <3>3, <3>4, <4>1
      <4>3. shorter.last = Len(shorter.heap) /\ shorter.first = Len(shorter.heap) - Len(Tail(m)) + 1
        BY <1>1, <2>1, <2>4, <3>3
      <4>4. shorter.first > 0
        BY <1>1, <3>3
      <4>5. QED
        BY <3>1, <3>3, <3>5, <4>2, <4>3, <4>4 DEF Holds
    <3>7. QED
      BY <1>3, <2>3, <3>2, <3>6
  <2>7. QED
    BY <2>5, <2>6
<1>4. QED
  BY <1>2, <1>3

\* The run of a sequence of turns: the queue, the sequence that it stands for, what was
\* taken from it and what a sequence would have given.
QueueTurn(operations, n, s) ==
  IF operations[n] = "add"
  THEN [s EXCEPT !.queue = Queue!Enqueue(@, n), !.model = Append(@, n)]
  ELSE LET d == Queue!Dequeue(s.queue) IN
       [queue |-> d.queue, taken |-> Append(s.taken, d.value),
        model |-> IF s.model = << >> THEN << >> ELSE Tail(s.model),
        left |-> Append(s.left, IF s.model = << >> THEN Queue!Null ELSE Head(s.model))]

FreshRun == [queue |-> Queue!EmptyQueue, taken |-> << >>, model |-> << >>, left |-> << >>]

RunState(s) ==
  /\ s = [queue |-> s.queue, taken |-> s.taken, model |-> s.model, left |-> s.left]
  /\ s.model \in Seq(Nat)
  /\ Holds(s.queue, s.model)
  /\ s.taken = s.left

LEMMA QueueTurnHolds ==
  ASSUME NEW operations, NEW n \in Nat, NEW s, RunState(s)
  PROVE  RunState(QueueTurn(operations, n, s))
<1>1. CASE operations[n] = "add"
  <2> DEFINE added == [queue |-> Queue!Enqueue(s.queue, n), taken |-> s.taken,
                       model |-> Append(s.model, n), left |-> s.left]
  <2>1. QueueTurn(operations, n, s) = added
    <3>1. PICK a, b, c, d : s = [queue |-> a, taken |-> b, model |-> c, left |-> d]
      BY DEF RunState
    <3>2. QED
      BY <1>1, <3>1 DEF QueueTurn
  <2>2. Holds(Queue!Enqueue(s.queue, n), Append(s.model, n)) /\ Append(s.model, n) \in Seq(Nat)
    BY EnqueueHolds DEF RunState
  <2>3. QED
    BY <2>1, <2>2 DEF RunState
<1>2. CASE operations[n] # "add"
  <2>1. PICK d : d = Queue!Dequeue(s.queue)
    OBVIOUS
  <2>2. PICK rest : rest = IF s.model = << >> THEN << >> ELSE Tail(s.model)
    OBVIOUS
  <2>3. PICK head : head = IF s.model = << >> THEN Queue!Null ELSE Head(s.model)
    OBVIOUS
  <2>4. d.value = head /\ Holds(d.queue, rest)
    BY <2>1, <2>2, <2>3, DequeueHolds DEF RunState
  <2>5. rest \in Seq(Nat)
    BY <2>2 DEF RunState
  <2>6. QueueTurn(operations, n, s) = [queue |-> d.queue, taken |-> Append(s.taken, d.value),
                                  model |-> rest, left |-> Append(s.left, head)]
    BY <1>2, <2>1, <2>2, <2>3, Zenon DEF QueueTurn
  <2>7. QED
    BY <2>4, <2>5, <2>6 DEF RunState
<1>3. QED
  BY <1>1, <1>2

\* Messages leave the queue in the order they came in (bundle:2436-2480).  A recursive
\* function is one that satisfies its equation if there is one: for the first n turns
\* there is one for every n, by the least n for which there is none.
THEOREM QueueIsAlwaysFifo ==
  ASSUME NEW operations \in Seq({"add", "take"}) PROVE Queue!QueueIsFifo(operations)
<1> DEFINE L == Len(operations)
           RunOf(f, k) == f = [n \in 0 .. k |-> IF n = 0 THEN FreshRun
                                               ELSE QueueTurn(operations, n, f[n - 1])]
           step[n \in 0 .. Len(operations)] ==
             IF n = 0 THEN FreshRun ELSE QueueTurn(operations, n, step[n - 1])
<1>1. L \in Nat
  OBVIOUS
<1>2. \A k \in Nat : \E f : RunOf(f, k)
  <2> DEFINE wrong == {k \in Nat : ~\E f : RunOf(f, k)}
  <2> SUFFICES ASSUME wrong # {} PROVE FALSE
    OBVIOUS
  <2>1. PICK k \in wrong : \A j \in wrong : k <= j
    <3>1. wrong \in SUBSET Nat
      OBVIOUS
    <3> HIDE DEF wrong
    <3>2. QED
      BY <3>1, LeastNatural
  <2>2. k \in Nat /\ ~\E f : RunOf(f, k)
    BY <2>1
  <2>3. k # 0
    <3> DEFINE f == [n \in 0 .. 0 |-> FreshRun]
    <3>1. RunOf(f, 0)
      OBVIOUS
    <3>2. QED
      BY <2>2, <3>1
  <2>4. PICK f : RunOf(f, k - 1)
    <3>1. k - 1 \in Nat /\ ~(k <= k - 1)
      BY <2>2, <2>3
    <3>2. k - 1 \notin wrong
      BY <2>1, <3>1, Zenon
    <3>3. QED
      BY <3>1, <3>2, Zenon
  <2> DEFINE g == [n \in 0 .. k |-> IF n = k THEN QueueTurn(operations, k, f[k - 1]) ELSE f[n]]
  <2>5. RunOf(g, k)
    <3>1. \A n \in 0 .. k : g[n] = IF n = 0 THEN FreshRun ELSE QueueTurn(operations, n, g[n - 1])
      <4> SUFFICES ASSUME NEW n \in 0 .. k
                   PROVE  g[n] = IF n = 0 THEN FreshRun ELSE QueueTurn(operations, n, g[n - 1])
        OBVIOUS
      <4>1. CASE n = k
        BY <2>2, <2>3, <4>1
      <4>2. CASE n # k
        <5>1. n \in 0 .. k - 1
          BY <2>2, <4>2
        <5>2. f[n] = IF n = 0 THEN FreshRun ELSE QueueTurn(operations, n, f[n - 1])
          BY <2>4, <5>1
        <5>3. n # 0 => g[n - 1] = f[n - 1]
          BY <2>2, <5>1
        <5>4. g[n] = f[n]
          BY <4>2
        <5> HIDE DEF g
        <5>5. QED
          BY <5>2, <5>3, <5>4
      <4>3. QED
        BY <4>1, <4>2
    <3>2. QED
      BY <3>1, Zenon
  <2>6. QED
    BY <2>2, <2>5
<1>3. RunOf(step, L)
  BY <1>1, <1>2
<1> HIDE DEF step
<1>4. \A n \in 0 .. L : RunState(step[n])
  <2> DEFINE wrong == {n \in 0 .. L : ~RunState(step[n])}
  <2> SUFFICES ASSUME wrong # {} PROVE FALSE
    OBVIOUS
  <2>1. PICK n \in wrong : \A j \in wrong : n <= j
    <3>1. wrong \in SUBSET Nat
      BY <1>1
    <3> HIDE DEF wrong
    <3>2. QED
      BY <3>1, LeastNatural
  <2>2. n \in 0 .. L /\ n \in Nat /\ ~RunState(step[n])
    BY <1>1, <2>1
  <2>3. CASE n = 0
    <3>1. step[n] = FreshRun
      BY <1>3, <2>2, <2>3
    <3>2. RunState(FreshRun)
      BY DEF FreshRun, RunState, Holds, NodeQueue, Queue!EmptyQueue, Queue!Null
    <3>3. QED
      BY <2>2, <3>1, <3>2
  <2>4. CASE n # 0
    <3>1. step[n] = QueueTurn(operations, n, step[n - 1])
      BY <1>3, <2>2, <2>4
    <3>2. RunState(step[n - 1])
      BY <1>1, <2>1, <2>2, <2>4
    <3>3. QED
      BY <2>2, <3>1, <3>2, QueueTurnHolds
  <2>5. QED
    BY <2>3, <2>4
<1>5. step[L].taken = step[L].left
  <2>1. L \in 0 .. L
    BY <1>1
  <2>2. RunState(step[L])
    BY <1>4, <2>1, Zenon
  <2>3. QED
    BY <2>2, Zenon DEF RunState
<1>6. QED
  BY <1>5, Zenon DEF Queue!QueueIsFifo, step, QueueTurn, FreshRun

-----------------------------------------------------------------------------
(* The counter of an operator's backup records.                            *)

\* An event that the counter is to count for an operator that was asked for.
IsRecord(event, batch) ==
  /\ Checks!Authentic(event) /\ event.pubkey \in batch
  /\ event.kind = AnnouncementKind /\ Checks!DTag(event) \in BackupTags

RecordKey(event) == <<event.pubkey, Checks!DTag(event)>>

\* What an event that a relay sends does to the counter.
CountTurn(batch, event, aggregator) ==
  IF Checks!Delivered({Checks!CountFilter(batch)}, event)
  THEN Checks!OnBackupEvent(aggregator, Checks!Verified(event))
  ELSE aggregator

CountRecord(event, aggregator) ==
  IF RecordKey(event) \in aggregator.seen THEN aggregator
  ELSE [seen |-> aggregator.seen \cup {RecordKey(event)},
        counts |-> [aggregator.counts EXCEPT ![event.pubkey] = @ + 1]]

LEMMA OnlyRecordsCount ==
  ASSUME NEW event \in RelayEvent, NEW batch, NEW aggregator
  PROVE  CountTurn(batch, event, aggregator) =
           IF IsRecord(event, batch) THEN CountRecord(event, aggregator) ELSE aggregator
<1>1. event.mark = "none" /\ event.signed \in {"valid", "invalid", "throws"}
  BY DEF RelayEvent
<1>2. Checks!VerifyEvent(event) = "valid" <=> Checks!Authentic(event)
  BY <1>1 DEF Checks!VerifyEvent, Checks!ValidateEvent, Checks!Authentic
<1>3. Checks!MatchFilters({Checks!CountFilter(batch)}, event)
        <=> event.kind = AnnouncementKind /\ event.pubkey \in batch
  <2> DEFINE filter == Checks!CountFilter(batch)
  <2>1. /\ DOMAIN filter = {"kinds", "authors"}
        /\ filter.kinds = {AnnouncementKind} /\ filter.authors = batch
    BY DEF Checks!CountFilter
  <2> HIDE DEF filter
  <2>2. Checks!MatchFilter(filter, event)
          <=> event.kind = AnnouncementKind /\ event.pubkey \in batch
    BY <2>1 DEF Checks!MatchFilter
  <2>3. QED
    BY <2>2 DEF Checks!MatchFilters, filter
<1>4. Checks!Delivered({Checks!CountFilter(batch)}, event)
        <=> /\ Checks!Authentic(event) /\ event.pubkey \in batch
            /\ event.kind = AnnouncementKind
  BY <1>2, <1>3 DEF Checks!Delivered
<1>5. CASE ~Checks!Delivered({Checks!CountFilter(batch)}, event)
  BY <1>4, <1>5 DEF CountTurn, IsRecord
<1>6. CASE Checks!Delivered({Checks!CountFilter(batch)}, event)
  <2>1. Checks!Authentic(event) /\ event.pubkey \in batch /\ event.kind = AnnouncementKind
    BY <1>4, <1>6
  <2> DEFINE marked == [event EXCEPT !.mark = "valid"]
  <2>2. Checks!VerifyEvent(event) = "valid"
    BY <1>2, <2>1
  <2>3. Checks!Verified(event) = marked
    BY <2>2 DEF Checks!Verified
  <2>4. /\ marked.mark = "valid" /\ marked.pubkey = event.pubkey
        /\ marked.kind = event.kind /\ marked.tags = event.tags
    BY DEF RelayEvent
  <2> HIDE DEF marked
  <2>5. Checks!VerifyEvent(marked) = "valid"
    BY <2>4 DEF Checks!VerifyEvent
  <2>6. Checks!DTag(marked) = Checks!DTag(event)
    BY <2>4, Zenon DEF Checks!DTag
  <2>7. CountTurn(batch, event, aggregator) = Checks!AddEvent(aggregator, marked)
    BY <1>6, <2>3, <2>5 DEF CountTurn, Checks!OnBackupEvent
  <2>8. IsRecord(event, batch) <=> Checks!DTag(event) \in BackupTags
    BY <2>1 DEF IsRecord
  <2>9. Checks!AddEvent(aggregator, marked) =
          IF Checks!DTag(event) \in BackupTags THEN CountRecord(event, aggregator)
          ELSE aggregator
    BY <2>1, <2>4, <2>6, Zenon DEF Checks!AddEvent, CountRecord, RecordKey
  <2>10. QED
    BY <2>7, <2>8, <2>9
<1>7. QED
  BY <1>5, <1>6

\* The names of an operator's records among the keys that were seen.
NamesSeen(seen, p) == {k[2] : k \in {x \in seen : x[1] = p}}

KeysUntil(events, batch, n) ==
  {RecordKey(events[i]) : i \in {j \in 1 .. n : IsRecord(events[j], batch)}}

\* The counter after some events: it has seen the records among them, and counted the
\* names of each operator's.
Counted(aggregator, seen, keys) ==
  /\ aggregator = [seen |-> seen, counts |-> aggregator.counts]
  /\ IsFiniteSet(seen)
  /\ aggregator.counts \in [keys -> Nat]
  /\ \A p \in keys : /\ IsFiniteSet(NamesSeen(seen, p))
                     /\ aggregator.counts[p] = Cardinality(NamesSeen(seen, p))

LEMMA RecordIsCounted ==
  ASSUME NEW event, NEW keys, event.pubkey \in keys, NEW seen, NEW aggregator,
         Counted(aggregator, seen, keys),
         \A k \in seen : k = <<k[1], k[2]>>
  PROVE  Counted(CountRecord(event, aggregator), seen \cup {RecordKey(event)}, keys)
<1> DEFINE key == RecordKey(event)
           more == seen \cup {key}
<1>1. aggregator.seen = seen
  BY DEF Counted
<1>2. key = <<event.pubkey, Checks!DTag(event)>>
  BY DEF RecordKey
<1>3. CASE key \in seen
  <2>1. more = seen
    BY <1>3
  <2>2. CountRecord(event, aggregator) = aggregator
    BY <1>1, <1>3 DEF CountRecord
  <2>3. QED
    BY <2>1, <2>2
<1>4. CASE key \notin seen
  <2> DEFINE counts == [aggregator.counts EXCEPT ![event.pubkey] = @ + 1]
  <2>1. CountRecord(event, aggregator) = [seen |-> more, counts |-> counts]
    BY <1>1, <1>4 DEF CountRecord
  <2>2. IsFiniteSet(more)
    BY FS_AddElement DEF Counted
  <2>3. NamesSeen(more, event.pubkey) = NamesSeen(seen, event.pubkey) \cup {Checks!DTag(event)}
    <3> HIDE DEF key
    <3>1. key[1] = event.pubkey /\ key[2] = Checks!DTag(event)
      BY <1>2
    <3>2. QED
      BY <3>1 DEF NamesSeen
  <2>4. Checks!DTag(event) \notin NamesSeen(seen, event.pubkey)
    BY <1>2, <1>4 DEF NamesSeen
  <2>5. \A p \in keys : p # event.pubkey => NamesSeen(more, p) = NamesSeen(seen, p)
    <3> HIDE DEF key
    <3>1. key[1] = event.pubkey
      BY <1>2
    <3>2. QED
      BY <3>1 DEF NamesSeen
  <2>6. /\ counts \in [keys -> Nat]
        /\ counts[event.pubkey] = aggregator.counts[event.pubkey] + 1
        /\ \A p \in keys : p # event.pubkey => counts[p] = aggregator.counts[p]
    BY DEF Counted
  <2> HIDE DEF counts, more
  <2>7. ASSUME NEW p \in keys
        PROVE  IsFiniteSet(NamesSeen(more, p)) /\ counts[p] = Cardinality(NamesSeen(more, p))
    <3>1. IsFiniteSet(NamesSeen(seen, p)) /\ aggregator.counts[p] = Cardinality(NamesSeen(seen, p))
      BY DEF Counted
    <3>2. CASE p = event.pubkey
      BY <2>3, <2>4, <2>6, <3>1, <3>2, FS_AddElement
    <3>3. CASE p # event.pubkey
      BY <2>5, <2>6, <3>1, <3>3
    <3>4. QED
      BY <3>2, <3>3
  <2>8. Counted([seen |-> more, counts |-> counts], more, keys)
    BY <2>2, <2>6, <2>7 DEF Counted
  <2>9. QED
    BY <2>1, <2>8 DEF more
<1>5. QED
  BY <1>3, <1>4

\* The number of an operator's users that the page shows is the number of its backup
\* records, whatever else the relays send, how often and in which order (counts.js).
THEOREM RecordsAreAlwaysCounted ==
  ASSUME NEW events \in Seq(RelayEvent), NEW keys, NEW batch \in SUBSET keys
  PROVE  Checks!RecordsAreCounted(events, batch, keys)
<1> DEFINE L == Len(events)
           RunOf(f, k) == f = [n \in 0 .. k |-> IF n = 0 THEN Checks!NewAggregator(keys)
                                               ELSE CountTurn(batch, events[n], f[n - 1])]
           aggregator[n \in 0 .. Len(events)] ==
             IF n = 0 THEN Checks!NewAggregator(keys)
             ELSE CountTurn(batch, events[n], aggregator[n - 1])
           seen(n) == KeysUntil(events, batch, n)
<1>1. L \in Nat
  OBVIOUS
<1>2. \A k \in Nat : \E f : RunOf(f, k)
  <2> DEFINE wrong == {k \in Nat : ~\E f : RunOf(f, k)}
  <2> SUFFICES ASSUME wrong # {} PROVE FALSE
    OBVIOUS
  <2>1. PICK k \in wrong : \A j \in wrong : k <= j
    <3>1. wrong \in SUBSET Nat
      OBVIOUS
    <3> HIDE DEF wrong
    <3>2. QED
      BY <3>1, LeastNatural
  <2>2. k \in Nat /\ ~\E f : RunOf(f, k)
    BY <2>1
  <2>3. k # 0
    <3> DEFINE f == [n \in 0 .. 0 |-> Checks!NewAggregator(keys)]
    <3>1. RunOf(f, 0)
      OBVIOUS
    <3>2. QED
      BY <2>2, <3>1
  <2>4. PICK f : RunOf(f, k - 1)
    <3>1. k - 1 \in Nat /\ ~(k <= k - 1)
      BY <2>2, <2>3
    <3>2. k - 1 \notin wrong
      BY <2>1, <3>1, Zenon
    <3>3. QED
      BY <3>1, <3>2, Zenon
  <2> DEFINE g == [n \in 0 .. k |-> IF n = k THEN CountTurn(batch, events[k], f[k - 1]) ELSE f[n]]
  <2>5. RunOf(g, k)
    <3>1. \A n \in 0 .. k : g[n] = IF n = 0 THEN Checks!NewAggregator(keys)
                                   ELSE CountTurn(batch, events[n], g[n - 1])
      <4> SUFFICES ASSUME NEW n \in 0 .. k
                   PROVE  g[n] = IF n = 0 THEN Checks!NewAggregator(keys)
                                 ELSE CountTurn(batch, events[n], g[n - 1])
        OBVIOUS
      <4>1. CASE n = k
        BY <2>2, <2>3, <4>1
      <4>2. CASE n # k
        <5>1. n \in 0 .. k - 1
          BY <2>2, <4>2
        <5>2. f[n] = IF n = 0 THEN Checks!NewAggregator(keys)
                     ELSE CountTurn(batch, events[n], f[n - 1])
          BY <2>4, <5>1
        <5>3. n # 0 => g[n - 1] = f[n - 1]
          BY <2>2, <5>1
        <5>4. g[n] = f[n]
          BY <4>2
        <5> HIDE DEF g
        <5>5. QED
          BY <5>2, <5>3, <5>4
      <4>3. QED
        BY <4>1, <4>2
    <3>2. QED
      BY <3>1, Zenon
  <2>6. QED
    BY <2>2, <2>5
<1>3. RunOf(aggregator, L)
  BY <1>1, <1>2
<1> HIDE DEF aggregator
<1>4. \A n \in 0 .. L : \A k \in seen(n) : k = <<k[1], k[2]>>
  BY DEF KeysUntil, RecordKey
<1>5. \A n \in 0 .. L : Counted(aggregator[n], seen(n), keys)
  <2> DEFINE wrong == {n \in 0 .. L : ~Counted(aggregator[n], seen(n), keys)}
  <2> SUFFICES ASSUME wrong # {} PROVE FALSE
    OBVIOUS
  <2>1. PICK n \in wrong : \A j \in wrong : n <= j
    <3>1. wrong \in SUBSET Nat
      BY <1>1
    <3> HIDE DEF wrong
    <3>2. QED
      BY <3>1, LeastNatural
  <2>2. n \in 0 .. L /\ n \in Nat /\ ~Counted(aggregator[n], seen(n), keys)
    BY <1>1, <2>1
  <2>3. CASE n = 0
    <3>1. aggregator[n] = Checks!NewAggregator(keys)
      BY <1>3, <2>2, <2>3
    <3>2. seen(0) = {}
      BY DEF KeysUntil
    <3>3. \A p \in keys : NamesSeen({}, p) = {}
      BY DEF NamesSeen
    <3>4. Counted(Checks!NewAggregator(keys), {}, keys)
      BY <3>3, FS_EmptySet DEF Counted, Checks!NewAggregator
    <3>5. QED
      BY <2>2, <2>3, <3>1, <3>2, <3>4
  <2>4. CASE n # 0
    <3>1. aggregator[n] = CountTurn(batch, events[n], aggregator[n - 1])
      BY <1>3, <2>2, <2>4
    <3>2. Counted(aggregator[n - 1], seen(n - 1), keys) /\ n - 1 \in 0 .. L
      BY <1>1, <2>1, <2>2, <2>4
    <3>3. events[n] \in RelayEvent
      BY <1>1, <2>2, <2>4
    <3>4. 1 .. n = (1 .. n - 1) \cup {n}
      BY <2>2, <2>4
    <3>5. CASE IsRecord(events[n], batch)
      <4>1. seen(n) = seen(n - 1) \cup {RecordKey(events[n])}
        BY <3>4, <3>5 DEF KeysUntil
      <4>2. events[n].pubkey \in keys
        BY <3>5 DEF IsRecord
      <4>3. aggregator[n] = CountRecord(events[n], aggregator[n - 1])
        BY <3>1, <3>3, <3>5, OnlyRecordsCount
      <4>4. \A k \in seen(n - 1) : k = <<k[1], k[2]>>
        BY <1>4, <3>2
      <4> HIDE DEF seen
      <4>5. QED
        BY <2>2, <3>2, <4>1, <4>2, <4>3, <4>4, RecordIsCounted
    <3>6. CASE ~IsRecord(events[n], batch)
      <4>1. seen(n) = seen(n - 1)
        BY <3>4, <3>6 DEF KeysUntil
      <4>2. aggregator[n] = aggregator[n - 1]
        BY <3>1, <3>3, <3>6, OnlyRecordsCount
      <4>3. QED
        BY <2>2, <3>2, <4>1, <4>2
    <3>7. QED
      BY <3>5, <3>6
  <2>5. QED
    BY <2>3, <2>4
<1>6. Counted(aggregator[L], seen(L), keys)
  BY <1>1, <1>5
<1> DEFINE records(p) == {Checks!DTag(events[i]) : i \in {j \in DOMAIN events :
                            /\ Checks!Authentic(events[j]) /\ events[j].pubkey = p
                            /\ events[j].kind = AnnouncementKind
                            /\ Checks!DTag(events[j]) \in BackupTags}}
<1>7. ASSUME NEW p \in keys
      PROVE  aggregator[L].counts[p] = IF p \in batch THEN Cardinality(records(p)) ELSE 0
  <2>1. aggregator[L].counts[p] = Cardinality(NamesSeen(seen(L), p))
    BY <1>6 DEF Counted
  <2>2. CASE p \in batch
    <3>1. NamesSeen(seen(L), p) = records(p)
      <4>1. DOMAIN events = 1 .. L
        OBVIOUS
      <4>2. ASSUME NEW x \in NamesSeen(seen(L), p) PROVE x \in records(p)
        <5>1. PICK k \in seen(L) : k[1] = p /\ x = k[2]
          BY <4>2 DEF NamesSeen
        <5>2. PICK i \in 1 .. L : IsRecord(events[i], batch) /\ k = RecordKey(events[i])
          BY <5>1 DEF KeysUntil
        <5>3. events[i].pubkey = p /\ x = Checks!DTag(events[i])
          BY <5>1, <5>2 DEF RecordKey
        <5>4. QED
          BY <4>1, <5>2, <5>3 DEF IsRecord
      <4>3. ASSUME NEW x \in records(p) PROVE x \in NamesSeen(seen(L), p)
        <5>1. PICK i \in 1 .. L : /\ Checks!Authentic(events[i]) /\ events[i].pubkey = p
                                  /\ events[i].kind = AnnouncementKind
                                  /\ Checks!DTag(events[i]) \in BackupTags
                                  /\ x = Checks!DTag(events[i])
          BY <4>1, <4>3
        <5>2. IsRecord(events[i], batch)
          BY <2>2, <5>1 DEF IsRecord
        <5>3. RecordKey(events[i]) \in seen(L)
          BY <5>2 DEF KeysUntil
        <5>4. RecordKey(events[i])[1] = p /\ RecordKey(events[i])[2] = x
          BY <5>1 DEF RecordKey
        <5>5. QED
          BY <5>3, <5>4 DEF NamesSeen
      <4> HIDE DEF records, seen
      <4>4. QED
        BY <4>2, <4>3
    <3>2. QED
      BY <2>1, <2>2, <3>1
  <2>3. CASE p \notin batch
    <3>1. NamesSeen(seen(L), p) = {}
      BY <2>3 DEF NamesSeen, KeysUntil, RecordKey, IsRecord
    <3>2. QED
      BY <2>1, <2>3, <3>1, FS_EmptySet
  <2>4. QED
    BY <2>2, <2>3
<1>8. \A p \in keys : aggregator[L].counts[p] =
                       IF p \in batch THEN Checks!Cardinality(records(p)) ELSE 0
  <2>1. \A S : Checks!Cardinality(S) = Cardinality(S)
    BY Zenon DEF Checks!Cardinality, Cardinality
  <2> HIDE DEF records
  <2>2. QED
    BY <1>7, <2>1
<1>9. QED
  BY <1>8, Zenon DEF Checks!RecordsAreCounted, aggregator, CountTurn

-----------------------------------------------------------------------------
(* Codes.  A key's bits are grouped by five, and by eight again: a group   *)
(* and its number determine each other, so that what is written reads      *)
(* back.  The register of the checksum is a set of places, and a turn of   *)
(* it is injective because the low five places of the generators are       *)
(* independent: a letter that is changed changes every register after it,  *)
(* and so the checksum.                                                    *)

\* f[k] is the value after k turns of a loop.
IsLoop(f, n, V, start, turn) ==
  /\ f \in [0 .. n -> V]
  /\ f[0] = start
  /\ \A k \in 1 .. n : f[k] = turn[<<k, f[k - 1]>>]

\* A loop of n turns that starts with a value of V and makes one of another is a
\* function: were there a number of turns for which there is none, there would be a
\* least one.
LEMMA LoopExists ==
  ASSUME NEW n \in Nat, NEW V, NEW start \in V, NEW turn \in [(1 .. n) \X V -> V]
  PROVE  \E f : IsLoop(f, n, V, start, turn)
<1> USE DEF IsLoop
<1> DEFINE Loop(f, m) == IsLoop(f, m, V, start, turn)
           wrong == {m \in 0 .. n : ~\E f : Loop(f, m)}
<1>1. wrong = {}
  <2> SUFFICES ASSUME wrong # {} PROVE FALSE
    OBVIOUS
  <2>1. PICK m \in wrong : \A j \in wrong : m <= j
    <3>1. wrong \in SUBSET Nat
      OBVIOUS
    <3> HIDE DEF wrong
    <3>2. QED
      BY <3>1, LeastNatural
  <2>2. m \in 0 .. n /\ ~\E f : Loop(f, m)
    BY <2>1
  <2>3. m # 0
    <3> DEFINE f == [k \in 0 .. 0 |-> start]
    <3>1. Loop(f, 0)
      OBVIOUS
    <3>2. QED
      BY <2>2, <3>1
  <2>4. m - 1 \in 0 .. n /\ ~(m <= m - 1)
    BY <2>2, <2>3
  <2>5. PICK f : Loop(f, m - 1)
    <3>1. m - 1 \notin wrong
      BY <2>1, <2>4, Zenon
    <3>2. QED
      BY <2>4, <3>1, Zenon
  <2> DEFINE g == [k \in 0 .. m |-> IF k = m THEN turn[<<m, f[m - 1]>>] ELSE f[k]]
  <2>6. Loop(g, m)
    <3>1. f[m - 1] \in V /\ <<m, f[m - 1]>> \in (1 .. n) \X V
      BY <2>2, <2>4, <2>5
    <3>2. turn[<<m, f[m - 1]>>] \in V
      BY <3>1
    <3>3. g \in [0 .. m -> V]
      BY <2>2, <2>5, <3>2
    <3>4. g[0] = start
      BY <2>2, <2>3, <2>5
    <3>5. \A k \in 1 .. m : g[k] = turn[<<k, g[k - 1]>>]
      <4> SUFFICES ASSUME NEW k \in 1 .. m PROVE g[k] = turn[<<k, g[k - 1]>>]
        OBVIOUS
      <4>1. k - 1 # m /\ k \in 0 .. m /\ k - 1 \in 0 .. m
        BY <2>2
      <4>2. g[k - 1] = f[k - 1]
        BY <4>1
      <4>3. CASE k = m
        BY <4>1, <4>2, <4>3
      <4>4. CASE k # m
        <5>1. g[k] = f[k] /\ k \in 1 .. m - 1
          BY <2>2, <4>1, <4>4
        <5>2. QED
          BY <2>5, <4>2, <5>1
      <4>5. QED
        BY <4>3, <4>4
    <3>6. QED
      BY <3>3, <3>4, <3>5
  <2>7. QED
    BY <2>2, <2>6, Zenon
<1>2. PICK f : Loop(f, n)
  <2>1. n \in 0 .. n /\ n \notin wrong
    BY <1>1
  <2>2. QED
    BY <2>1, Zenon
<1>3. QED
  BY <1>2
-----------------------------------------------------------------------------
(* The text of a key.                                                      *)

\* A word is made of its five bits, and a byte of its eight.
LEMMA WordBits ==
  ASSUME NEW w \in 0..31
  PROVE  /\ \A k \in 0..4 : Bit(w, k) \in {0, 1}
         /\ w = 16 * Bit(w, 4) + 8 * Bit(w, 3) + 4 * Bit(w, 2) + 2 * Bit(w, 1) + Bit(w, 0)
<1>1. \A k \in 0..4 : k = 0 \/ k = 1 \/ k = 2 \/ k = 3 \/ k = 4
  OBVIOUS
<1>2. /\ Bit(w, 0) = w % 2 /\ Bit(w, 1) = (w \div 2) % 2 /\ Bit(w, 2) = (w \div 4) % 2
      /\ Bit(w, 3) = (w \div 8) % 2 /\ Bit(w, 4) = (w \div 16) % 2
  BY DEF Bit
<1>3. /\ w = 2 * (w \div 2) + (w % 2)
      /\ w \div 2 = 2 * (w \div 4) + ((w \div 2) % 2)
      /\ w \div 4 = 2 * (w \div 8) + ((w \div 4) % 2)
      /\ w \div 8 = 2 * (w \div 16) + ((w \div 8) % 2)
      /\ w \div 16 = 2 * (w \div 32) + ((w \div 16) % 2)
      /\ w \div 32 = 0
  OBVIOUS
<1>4. \A k \in 0..4 : Bit(w, k) \in {0, 1}
  BY <1>1, <1>2
<1>5. w = 16 * ((w \div 16) % 2) + 8 * ((w \div 8) % 2) + 4 * ((w \div 4) % 2) +
      2 * ((w \div 2) % 2) + (w % 2)
  BY <1>3
<1>6. QED
  BY <1>2, <1>4, <1>5

LEMMA ByteBits ==
  ASSUME NEW w \in 0..255
  PROVE  /\ \A k \in 0..7 : Bit(w, k) \in {0, 1}
         /\ w = 128 * Bit(w, 7) + 64 * Bit(w, 6) + 32 * Bit(w, 5) + 16 * Bit(w, 4) +
            8 * Bit(w, 3) + 4 * Bit(w, 2) + 2 * Bit(w, 1) + Bit(w, 0)
<1>1. \A k \in 0..7 : k = 0 \/ k = 1 \/ k = 2 \/ k = 3 \/ k = 4 \/ k = 5 \/ k = 6 \/ k = 7
  OBVIOUS
<1>2. /\ Bit(w, 0) = w % 2 /\ Bit(w, 1) = (w \div 2) % 2 /\ Bit(w, 2) = (w \div 4) % 2
      /\ Bit(w, 3) = (w \div 8) % 2 /\ Bit(w, 4) = (w \div 16) % 2
      /\ Bit(w, 5) = (w \div 32) % 2 /\ Bit(w, 6) = (w \div 64) % 2
      /\ Bit(w, 7) = (w \div 128) % 2
  BY DEF Bit
<1>3. /\ w = 2 * (w \div 2) + (w % 2)
      /\ w \div 2 = 2 * (w \div 4) + ((w \div 2) % 2)
      /\ w \div 4 = 2 * (w \div 8) + ((w \div 4) % 2)
      /\ w \div 8 = 2 * (w \div 16) + ((w \div 8) % 2)
      /\ w \div 16 = 2 * (w \div 32) + ((w \div 16) % 2)
      /\ w \div 32 = 2 * (w \div 64) + ((w \div 32) % 2)
      /\ w \div 64 = 2 * (w \div 128) + ((w \div 64) % 2)
      /\ w \div 128 = 2 * (w \div 256) + ((w \div 128) % 2)
      /\ w \div 256 = 0
  OBVIOUS
<1>4. \A k \in 0..7 : Bit(w, k) \in {0, 1}
  BY <1>1, <1>2
<1>5. w = 128 * ((w \div 128) % 2) + 64 * ((w \div 64) % 2) + 32 * ((w \div 32) % 2) +
      16 * ((w \div 16) % 2) + 8 * ((w \div 8) % 2) + 4 * ((w \div 4) % 2) +
      2 * ((w \div 2) % 2) + (w % 2)
  BY <1>3
<1>6. QED
  BY <1>2, <1>4, <1>5

LEMMA BitsOfWord ==
  ASSUME NEW a \in {0, 1}, NEW b \in {0, 1}, NEW c \in {0, 1}, NEW d \in {0, 1}, NEW e \in {0, 1}
  PROVE  LET w == 16 * a + 8 * b + 4 * c + 2 * d + e
         IN  /\ w \in 0..31
             /\ Bit(w, 4) = a /\ Bit(w, 3) = b /\ Bit(w, 2) = c /\ Bit(w, 1) = d /\ Bit(w, 0) = e
<1> DEFINE w == 16 * a + 8 * b + 4 * c + 2 * d + e
<1>1. w \in 0..31
  OBVIOUS
<1>2. /\ w % 2 = e /\ (w \div 2) % 2 = d /\ (w \div 4) % 2 = c
      /\ (w \div 8) % 2 = b /\ (w \div 16) % 2 = a
  OBVIOUS
<1>3. QED
  BY <1>1, <1>2 DEF Bit

LEMMA BitsOfByte ==
  ASSUME NEW a \in {0, 1}, NEW b \in {0, 1}, NEW c \in {0, 1}, NEW d \in {0, 1},
         NEW e \in {0, 1}, NEW f \in {0, 1}, NEW g \in {0, 1}, NEW h \in {0, 1}
  PROVE  LET w == 128 * a + 64 * b + 32 * c + 16 * d + 8 * e + 4 * f + 2 * g + h
         IN  /\ w \in 0..255
             /\ Bit(w, 7) = a /\ Bit(w, 6) = b /\ Bit(w, 5) = c /\ Bit(w, 4) = d /\
                Bit(w, 3) = e /\ Bit(w, 2) = f /\ Bit(w, 1) = g /\ Bit(w, 0) = h
<1> DEFINE w == 128 * a + 64 * b + 32 * c + 16 * d + 8 * e + 4 * f + 2 * g + h
<1>1. w \in 0..255
  OBVIOUS
<1>2. /\ w % 2 = h /\ (w \div 2) % 2 = g /\ (w \div 4) % 2 = f
      /\ (w \div 8) % 2 = e /\ (w \div 16) % 2 = d
      /\ (w \div 32) % 2 = c /\ (w \div 64) % 2 = b /\ (w \div 128) % 2 = a
  OBVIOUS
<1>3. QED
  BY <1>1, <1>2 DEF Bit

\* The bit at a place, zero past the end.
At(bits, k) == IF k <= Len(bits) THEN bits[k] ELSE 0

LEMMA NumberTurns ==
  ASSUME NEW bits \in Seq({0, 1}), NEW i \in Nat \ {0}, NEW n \in Nat
  PROVE  \E s : /\ Number(bits, i, n) = s[n]
                /\ s[0] = 0
                /\ \A k \in 1 .. n : s[k] = 2 * s[k - 1] + At(bits, i + k - 1)
<1> DEFINE turn == [p \in (1 .. n) \X Nat |-> 2 * p[2] + At(bits, i + p[1] - 1)]
           number[k \in 0 .. n] ==
             IF k = 0 THEN 0
             ELSE 2 * number[k - 1] + IF i + k - 1 <= Len(bits) THEN bits[i + k - 1] ELSE 0
           Loop(f) == f = [k \in 0 .. n |->
             IF k = 0 THEN 0
             ELSE 2 * f[k - 1] + IF i + k - 1 <= Len(bits) THEN bits[i + k - 1] ELSE 0]
<1>1. \A k \in 1 .. n : At(bits, i + k - 1) \in {0, 1}
  BY DEF At
<1>2. turn \in [(1 .. n) \X Nat -> Nat]
  <2>1. \A k \in 1 .. n, x \in Nat : 2 * x + At(bits, i + k - 1) \in Nat
    <3>1. \A x \in Nat, y \in {0, 1} : 2 * x + y \in Nat
      OBVIOUS
    <3>2. QED
      BY <1>1, <3>1, Zenon
  <2>2. \A p \in (1 .. n) \X Nat : p[1] \in 1 .. n /\ p[2] \in Nat
    OBVIOUS
  <2>3. \A p \in (1 .. n) \X Nat : 2 * p[2] + At(bits, i + p[1] - 1) \in Nat
    BY <2>1, <2>2, Zenon
  <2>4. QED
    BY <2>3, Zenon
<1>3. PICK f : IsLoop(f, n, Nat, 0, turn)
  <2>1. 0 \in Nat
    OBVIOUS
  <2> HIDE DEF turn
  <2>2. QED
    BY <1>2, <2>1, LoopExists, Zenon
<1>4. /\ f \in [0 .. n -> Nat]
      /\ f[0] = 0
      /\ \A k \in 1 .. n : f[k] = 2 * f[k - 1] + At(bits, i + k - 1)
  <2>1. /\ f \in [0 .. n -> Nat]
        /\ f[0] = 0
        /\ \A k \in 1 .. n : f[k] = turn[<<k, f[k - 1]>>]
    BY <1>3, Zenon DEF IsLoop
  <2>2. \A k \in 1 .. n : f[k - 1] \in Nat
    BY <2>1
  <2>3. \A k \in 1 .. n, x \in Nat : turn[<<k, x>>] = 2 * x + At(bits, i + k - 1)
    OBVIOUS
  <2> HIDE DEF turn
  <2>4. QED
    BY <2>1, <2>2, <2>3, Zenon
<1>5. \A k \in 0 .. n : f[k] = IF k = 0 THEN 0 ELSE 2 * f[k - 1] + At(bits, i + k - 1)
  <2>1. \A k \in 0 .. n : k = 0 \/ k \in 1 .. n
    OBVIOUS
  <2>2. QED
    BY <1>4, <2>1
<1>6. Loop(f)
  <2>1. f = [k \in 0 .. n |-> f[k]]
    BY <1>4
  <2>2. QED
    BY <1>5, <2>1 DEF At
<1>7. Loop(number)
  BY <1>6, Zenon
<1> HIDE DEF number
<1>8. /\ number[0] = 0
      /\ \A k \in 1 .. n : number[k] = 2 * number[k - 1] + At(bits, i + k - 1)
  <2>1. \A k \in 0 .. n : number[k] = IF k = 0 THEN 0
             ELSE 2 * number[k - 1] + IF i + k - 1 <= Len(bits) THEN bits[i + k - 1] ELSE 0
    BY <1>7, Zenon
  <2>2. QED
    BY <2>1 DEF At
<1>9. Number(bits, i, n) = number[n]
  BY Zenon DEF Number, number
<1>10. QED
  BY <1>8, <1>9, Zenon

LEMMA NumberOfFive ==
  ASSUME NEW bits \in Seq({0, 1}), NEW i \in Nat \ {0}
  PROVE  Number(bits, i, 5) = 16 * At(bits, i) + 8 * At(bits, i + 1) + 4 * At(bits, i + 2) +
         2 * At(bits, i + 3) + At(bits, i + 4)
<1>1. \A k \in Nat : k >= i => At(bits, k) \in 0..1
  BY DEF At
<1>2. PICK s : /\ Number(bits, i, 5) = s[5]
               /\ s[0] = 0
               /\ \A k \in 1 .. 5 : s[k] = 2 * s[k - 1] + At(bits, i + k - 1)
  <2>1. 5 \in Nat
    OBVIOUS
  <2>2. QED
    BY <2>1, NumberTurns, Zenon
<1> DEFINE a == At(bits, i)
           b == At(bits, i + 1)
           c == At(bits, i + 2)
           d == At(bits, i + 3)
           e == At(bits, i + 4)
<1>3. /\ s[0] = 0
      /\ s[1] = 2 * s[0] + a
      /\ s[2] = 2 * s[1] + b
      /\ s[3] = 2 * s[2] + c
      /\ s[4] = 2 * s[3] + d
      /\ s[5] = 2 * s[4] + e
  BY <1>2
<1>4. /\ a \in 0..1 /\ b \in 0..1 /\ c \in 0..1 /\ d \in 0..1 /\ e \in 0..1
  BY <1>1
<1> HIDE DEF a, b, c, d, e
<1>5. s[5] = 16 * a + 8 * b + 4 * c + 2 * d + e
  BY <1>3, <1>4
<1>6. QED
  BY <1>2, <1>5, Zenon DEF a, b, c, d, e

LEMMA NumberOfEight ==
  ASSUME NEW bits \in Seq({0, 1}), NEW i \in Nat \ {0}
  PROVE  Number(bits, i, 8) = 128 * At(bits, i) + 64 * At(bits, i + 1) + 32 * At(bits, i + 2) +
         16 * At(bits, i + 3) + 8 * At(bits, i + 4) + 4 * At(bits, i + 5) + 2 * At(bits, i + 6) +
         At(bits, i + 7)
<1>1. \A k \in Nat : k >= i => At(bits, k) \in 0..1
  BY DEF At
<1>2. PICK s : /\ Number(bits, i, 8) = s[8]
               /\ s[0] = 0
               /\ \A k \in 1 .. 8 : s[k] = 2 * s[k - 1] + At(bits, i + k - 1)
  <2>1. 8 \in Nat
    OBVIOUS
  <2>2. QED
    BY <2>1, NumberTurns, Zenon
<1> DEFINE a == At(bits, i)
           b == At(bits, i + 1)
           c == At(bits, i + 2)
           d == At(bits, i + 3)
           e == At(bits, i + 4)
           f == At(bits, i + 5)
           g == At(bits, i + 6)
           h == At(bits, i + 7)
<1>3. /\ s[0] = 0
      /\ s[1] = 2 * s[0] + a
      /\ s[2] = 2 * s[1] + b
      /\ s[3] = 2 * s[2] + c
      /\ s[4] = 2 * s[3] + d
      /\ s[5] = 2 * s[4] + e
      /\ s[6] = 2 * s[5] + f
      /\ s[7] = 2 * s[6] + g
      /\ s[8] = 2 * s[7] + h
  BY <1>2
<1>4. /\ a \in 0..1 /\ b \in 0..1 /\ c \in 0..1 /\ d \in 0..1 /\ e \in 0..1 /\ f \in 0..1 /\
         g \in 0..1 /\ h \in 0..1
  BY <1>1
<1> HIDE DEF a, b, c, d, e, f, g, h
<1>5. s[8] = 128 * a + 64 * b + 32 * c + 16 * d + 8 * e + 4 * f + 2 * g + h
  BY <1>3, <1>4
<1>6. QED
  BY <1>2, <1>5, Zenon DEF a, b, c, d, e, f, g, h

\* The number whose bits are b[n - 1], .., b[0].
Five(b) == 16 * b[4] + 8 * b[3] + 4 * b[2] + 2 * b[1] + b[0]
Eight(b) == 128 * b[7] + 64 * b[6] + 32 * b[5] + 16 * b[4] + 8 * b[3] + 4 * b[2] + 2 * b[1] + b[0]

\* The bits of the j-th group of n, the last of the group first.
Group(bits, n, j) == [k \in 0 .. n - 1 |-> At(bits, n * j - k)]

LEMMA FiveFacts ==
  ASSUME NEW b \in [0 .. 4 -> 0 .. 1], NEW c \in [0 .. 4 -> 0 .. 1]
  PROVE  /\ Five(b) \in 0 .. 31
         /\ Five(b) = Five(c) => b = c
         /\ Five(b) = 0 => b = [k \in 0 .. 4 |-> 0]
<1>1. /\ b[0] \in 0 .. 1 /\ b[1] \in 0 .. 1 /\ b[2] \in 0 .. 1 /\ b[3] \in 0 .. 1 /\
         b[4] \in 0 .. 1
      /\ c[0] \in 0 .. 1 /\ c[1] \in 0 .. 1 /\ c[2] \in 0 .. 1 /\ c[3] \in 0 .. 1 /\
         c[4] \in 0 .. 1
  OBVIOUS
<1>2. Five(b) \in 0 .. 31
  BY <1>1 DEF Five
<1>3. \A k \in 0 .. 4 : k = 0 \/ k = 1 \/ k = 2 \/ k = 3 \/ k = 4
  OBVIOUS
<1>4. ASSUME Five(b) = Five(c) PROVE b = c
  <2>1. b[0] = c[0] /\ b[1] = c[1] /\ b[2] = c[2] /\ b[3] = c[3] /\ b[4] = c[4]
    BY <1>1, <1>4 DEF Five
  <2>2. \A k \in 0 .. 4 : b[k] = c[k]
    BY <1>3, <2>1
  <2>3. QED
    BY <2>2
<1>5. ASSUME Five(b) = 0 PROVE b = [k \in 0 .. 4 |-> 0]
  <2>1. b[0] = 0 /\ b[1] = 0 /\ b[2] = 0 /\ b[3] = 0 /\ b[4] = 0
    BY <1>1, <1>5 DEF Five
  <2>2. \A k \in 0 .. 4 : b[k] = 0
    BY <1>3, <2>1
  <2>3. QED
    BY <2>2
<1>6. QED
  BY <1>2, <1>4, <1>5

LEMMA FiveNumber ==
  ASSUME NEW bits \in Seq({0, 1}), NEW j \in Nat \ {0}
  PROVE  /\ Group(bits, 5, j) \in [0 .. 4 -> 0 .. 1]
         /\ Number(bits, 1 + (j - 1) * 5, 5) = Five(Group(bits, 5, j))
<1> DEFINE i == 5 * j - 4
           b == Group(bits, 5, j)
<1>1. i \in Nat \ {0} /\ i = 1 + (j - 1) * 5
  OBVIOUS
<1>2. i + 1 = 5 * j - 3 /\ i + 2 = 5 * j - 2 /\ i + 3 = 5 * j - 1
      /\ i + 4 = 5 * j - 0
  OBVIOUS
<1>3. \A k \in 0 .. 4 : b[k] = At(bits, 5 * j - k) /\ At(bits, 5 * j - k) \in 0 .. 1
  BY DEF Group, At
<1>4. b[0] = At(bits, 5 * j - 0) /\ b[1] = At(bits, 5 * j - 1) /\ b[2] = At(bits, 5 * j - 2) /\
      b[3] = At(bits, 5 * j - 3) /\ b[4] = At(bits, 5 * j - 4)
  <2>1. 0 \in 0 .. 4 /\ 1 \in 0 .. 4 /\ 2 \in 0 .. 4 /\ 3 \in 0 .. 4 /\ 4 \in 0 .. 4
    OBVIOUS
  <2> HIDE DEF b
  <2>2. QED
    BY <1>3, <2>1, Zenon
<1>5. b \in [0 .. 4 -> 0 .. 1]
  BY <1>3 DEF Group
<1> HIDE DEF i
<1>6. Number(bits, i, 5) = 16 * At(bits, i) + 8 * At(bits, i + 1) + 4 * At(bits, i + 2) +
      2 * At(bits, i + 3) + At(bits, i + 4)
  BY <1>1, NumberOfFive, Zenon
<1> HIDE DEF b
<1>7. Number(bits, i, 5) = Five(b)
  <2>1. b[4] = At(bits, i)
    BY <1>4, Zenon DEF i
  <2>2. b[0] = At(bits, i + 4) /\ b[1] = At(bits, i + 3) /\ b[2] = At(bits, i + 2) /\
        b[3] = At(bits, i + 1)
    BY <1>2, <1>4, Zenon
  <2>3. QED
    BY <1>6, <2>1, <2>2 DEF Five
<1>8. QED
  BY <1>1, <1>5, <1>7, Zenon DEF b

LEMMA Nibbles ==
  ASSUME NEW b1 \in 0 .. 1, NEW b2 \in 0 .. 1, NEW b3 \in 0 .. 1, NEW b4 \in 0 .. 1,
         NEW c1 \in 0 .. 1, NEW c2 \in 0 .. 1, NEW c3 \in 0 .. 1, NEW c4 \in 0 .. 1
  PROVE  /\ 8 * b1 + 4 * b2 + 2 * b3 + b4 \in 0 .. 15
         /\ 8 * b1 + 4 * b2 + 2 * b3 + b4 = 8 * c1 + 4 * c2 + 2 * c3 + c4
              => b1 = c1 /\ b2 = c2 /\ b3 = c3 /\ b4 = c4
OBVIOUS

LEMMA EightFacts ==
  ASSUME NEW b \in [0 .. 7 -> 0 .. 1], NEW c \in [0 .. 7 -> 0 .. 1]
  PROVE  /\ Eight(b) \in 0 .. 255
         /\ Eight(b) = Eight(c) => b = c
         /\ Eight(b) = 0 => b = [k \in 0 .. 7 |-> 0]
<1>1. /\ b[0] \in 0 .. 1 /\ b[1] \in 0 .. 1 /\ b[2] \in 0 .. 1 /\ b[3] \in 0 .. 1 /\
         b[4] \in 0 .. 1 /\ b[5] \in 0 .. 1 /\ b[6] \in 0 .. 1 /\ b[7] \in 0 .. 1
      /\ c[0] \in 0 .. 1 /\ c[1] \in 0 .. 1 /\ c[2] \in 0 .. 1 /\ c[3] \in 0 .. 1 /\
         c[4] \in 0 .. 1 /\ c[5] \in 0 .. 1 /\ c[6] \in 0 .. 1 /\ c[7] \in 0 .. 1
  OBVIOUS
<1>2. Eight(b) \in 0 .. 255
  BY <1>1 DEF Eight
<1>3. \A k \in 0 .. 7 : k = 0 \/ k = 1 \/ k = 2 \/ k = 3 \/ k = 4 \/ k = 5 \/ k = 6 \/ k = 7
  OBVIOUS
<1>4. ASSUME Eight(b) = Eight(c) PROVE b = c
  <2>1. b[0] = c[0] /\ b[1] = c[1] /\ b[2] = c[2] /\ b[3] = c[3] /\ b[4] = c[4] /\ b[5] = c[5] /\
        b[6] = c[6] /\ b[7] = c[7]
    <3> DEFINE h == 8 * b[7] + 4 * b[6] + 2 * b[5] + b[4]
               l == 8 * b[3] + 4 * b[2] + 2 * b[1] + b[0]
               hc == 8 * c[7] + 4 * c[6] + 2 * c[5] + c[4]
               lc == 8 * c[3] + 4 * c[2] + 2 * c[1] + c[0]
    <3>1. h \in 0 .. 15 /\ l \in 0 .. 15 /\ hc \in 0 .. 15 /\ lc \in 0 .. 15
      BY <1>1, Nibbles
    <3>2. Eight(b) = 16 * h + l /\ Eight(c) = 16 * hc + lc
      BY <1>1 DEF Eight
    <3>3. h = hc => b[4] = c[4] /\ b[5] = c[5] /\ b[6] = c[6] /\ b[7] = c[7]
      BY <1>1, Nibbles
    <3>4. l = lc => b[0] = c[0] /\ b[1] = c[1] /\ b[2] = c[2] /\ b[3] = c[3]
      BY <1>1, Nibbles
    <3> HIDE DEF h, l, hc, lc
    <3>5. h = hc /\ l = lc
      <4>1. 16 * h + l = 16 * hc + lc
        BY <1>4, <3>2, Zenon
      <4>2. QED
        BY <3>1, <4>1, SMTT(60)
    <3>6. QED
      BY <3>3, <3>4, <3>5
  <2>2. \A k \in 0 .. 7 : b[k] = c[k]
    BY <1>3, <2>1
  <2>3. QED
    BY <2>2
<1>5. ASSUME Eight(b) = 0 PROVE b = [k \in 0 .. 7 |-> 0]
  <2>1. b[0] = 0 /\ b[1] = 0 /\ b[2] = 0 /\ b[3] = 0 /\ b[4] = 0 /\ b[5] = 0 /\ b[6] = 0 /\
        b[7] = 0
    BY <1>1, <1>5 DEF Eight
  <2>2. \A k \in 0 .. 7 : b[k] = 0
    BY <1>3, <2>1
  <2>3. QED
    BY <2>2
<1>6. QED
  BY <1>2, <1>4, <1>5

LEMMA EightNumber ==
  ASSUME NEW bits \in Seq({0, 1}), NEW j \in Nat \ {0}
  PROVE  /\ Group(bits, 8, j) \in [0 .. 7 -> 0 .. 1]
         /\ Number(bits, 1 + (j - 1) * 8, 8) = Eight(Group(bits, 8, j))
<1> DEFINE i == 8 * j - 7
           b == Group(bits, 8, j)
<1>1. i \in Nat \ {0} /\ i = 1 + (j - 1) * 8
  OBVIOUS
<1>2. i + 1 = 8 * j - 6 /\ i + 2 = 8 * j - 5 /\ i + 3 = 8 * j - 4 /\ i + 4 = 8 * j - 3 /\
      i + 5 = 8 * j - 2 /\ i + 6 = 8 * j - 1
      /\ i + 7 = 8 * j - 0
  OBVIOUS
<1>3. \A k \in 0 .. 7 : b[k] = At(bits, 8 * j - k) /\ At(bits, 8 * j - k) \in 0 .. 1
  BY DEF Group, At
<1>4. b[0] = At(bits, 8 * j - 0) /\ b[1] = At(bits, 8 * j - 1) /\ b[2] = At(bits, 8 * j - 2) /\
      b[3] = At(bits, 8 * j - 3) /\ b[4] = At(bits, 8 * j - 4) /\ b[5] = At(bits, 8 * j - 5) /\
      b[6] = At(bits, 8 * j - 6) /\ b[7] = At(bits, 8 * j - 7)
  <2>1. 0 \in 0 .. 7 /\ 1 \in 0 .. 7 /\ 2 \in 0 .. 7 /\ 3 \in 0 .. 7 /\ 4 \in 0 .. 7 /\
        5 \in 0 .. 7 /\ 6 \in 0 .. 7 /\ 7 \in 0 .. 7
    OBVIOUS
  <2> HIDE DEF b
  <2>2. QED
    BY <1>3, <2>1, Zenon
<1>5. b \in [0 .. 7 -> 0 .. 1]
  BY <1>3 DEF Group
<1> HIDE DEF i
<1>6. Number(bits, i, 8) = 128 * At(bits, i) + 64 * At(bits, i + 1) + 32 * At(bits, i + 2) +
      16 * At(bits, i + 3) + 8 * At(bits, i + 4) + 4 * At(bits, i + 5) + 2 * At(bits, i + 6) +
      At(bits, i + 7)
  BY <1>1, NumberOfEight, Zenon
<1> HIDE DEF b
<1>7. Number(bits, i, 8) = Eight(b)
  <2>1. b[7] = At(bits, i)
    BY <1>4, Zenon DEF i
  <2>2. b[0] = At(bits, i + 7) /\ b[1] = At(bits, i + 6) /\ b[2] = At(bits, i + 5) /\
        b[3] = At(bits, i + 4) /\ b[4] = At(bits, i + 3) /\ b[5] = At(bits, i + 2) /\
        b[6] = At(bits, i + 1)
    BY <1>2, <1>4, Zenon
  <2>3. QED
    BY <1>6, <2>1, <2>2 DEF Eight
<1>8. QED
  BY <1>1, <1>5, <1>7, Zenon DEF b

LEMMA Elements ==
  ASSUME NEW T, NEW s \in Seq(T)
  PROVE  \A j \in 1 .. Len(s) : s[j] \in T
OBVIOUS

LEMMA BitsOfWords ==
  ASSUME NEW data \in Seq(0 .. 31)
  PROVE  /\ Bits(data, 5) \in Seq({0, 1}) /\ Len(Bits(data, 5)) = 5 * Len(data)
         /\ \A j \in 1 .. Len(data) : Five(Group(Bits(data, 5), 5, j)) = data[j]
<1> DEFINE bits == Bits(data, 5)
           size == 5 * Len(data)
<1>1. size \in Nat
  OBVIOUS
<1>2. \A k \in 1 .. size : 1 + ((k - 1) \div 5) \in 1 .. Len(data) /\ 4 - ((k - 1) % 5) \in 0 .. 4
  OBVIOUS
<1> HIDE DEF size
<1>0. \A j \in 1 .. Len(data) : data[j] \in 0 .. 31
  BY Elements, Zenon
<1>3. \A k \in 1 .. size : data[1 + ((k - 1) \div 5)] \in 0 .. 31
  BY <1>0, <1>2, Zenon
<1> USE DEF size
<1>4. \A k \in 1 .. size : Bit(data[1 + ((k - 1) \div 5)], 4 - ((k - 1) % 5)) \in {0, 1}
  <2> SUFFICES ASSUME NEW k \in 1 .. size
               PROVE  Bit(data[1 + ((k - 1) \div 5)], 4 - ((k - 1) % 5)) \in {0, 1}
    OBVIOUS
  <2> DEFINE w == data[1 + ((k - 1) \div 5)]
             place == 4 - ((k - 1) % 5)
  <2>1. w \in 0 .. 31 /\ place \in 0 .. 4
    BY <1>2, <1>3
  <2> HIDE DEF w, place
  <2>2. \A m \in 0 .. 4 : Bit(w, m) \in {0, 1}
    BY <2>1, WordBits, Zenon
  <2>3. QED
    BY <2>1, <2>2, Zenon DEF w, place
<1>5. bits = [k \in 1 .. size |-> Bit(data[1 + ((k - 1) \div 5)], 4 - ((k - 1) % 5))]
  <2>1. \A k \in 1 .. size : 5 - 1 - ((k - 1) % 5) = 4 - ((k - 1) % 5)
    OBVIOUS
  <2>2. bits = [k \in 1 .. size |-> Bit(data[1 + ((k - 1) \div 5)], 5 - 1 - ((k - 1) % 5))]
    BY Zenon DEF Bits
  <2> HIDE DEF bits, size
  <2>3. QED
    BY <2>1, <2>2, Zenon
<1>6. bits \in [1 .. size -> {0, 1}]
  <2> HIDE DEF bits, size
  <2>1. QED
    BY <1>4, <1>5, Zenon
<1>7. bits \in Seq({0, 1}) /\ Len(bits) = size
  <2> HIDE DEF bits, size
  <2>1. QED
    BY <1>1, <1>6
<1>8. ASSUME NEW j \in 1 .. Len(data) PROVE Five(Group(bits, 5, j)) = data[j]
  <2>1. \A k \in 0 .. 4 : 5 * j - k \in 1 .. size
    OBVIOUS
  <2>2. \A k \in 0 .. 4 : 1 + ((5 * j - k - 1) \div 5) = j /\ 4 - ((5 * j - k - 1) % 5) = k
    OBVIOUS
  <2> HIDE DEF bits, size
  <2>3. \A k \in 0 .. 4 : bits[5 * j - k] = Bit(data[j], k)
    BY <1>5, <2>1, <2>2, Zenon
  <2>4. \A k \in 0 .. 4 : Group(bits, 5, j)[k] = Bit(data[j], k)
    <3>1. \A k \in 0 .. 4 : 5 * j - k <= Len(bits)
      BY <1>1, <1>7, <2>1
    <3>2. \A k \in 0 .. 4 : Group(bits, 5, j)[k] = At(bits, 5 * j - k)
      <4>1. 0 .. 4 = 0 .. 5 - 1
        OBVIOUS
      <4>2. QED
        BY <4>1, Zenon DEF Group
    <3>3. QED
      BY <2>3, <3>1, <3>2, Zenon DEF At
  <2>5. Group(bits, 5, j)[0] = Bit(data[j], 0) /\ Group(bits, 5, j)[1] = Bit(data[j], 1) /\
        Group(bits, 5, j)[2] = Bit(data[j], 2) /\ Group(bits, 5, j)[3] = Bit(data[j], 3) /\
        Group(bits, 5, j)[4] = Bit(data[j], 4)
    <3>1. 0 \in 0 .. 4 /\ 1 \in 0 .. 4 /\ 2 \in 0 .. 4 /\ 3 \in 0 .. 4 /\ 4 \in 0 .. 4
      OBVIOUS
    <3>2. QED
      BY <2>4, <3>1, Zenon
  <2>6. data[j] \in 0 .. 31
    BY <1>0, Zenon
  <2>7. data[j] = 16 * Bit(data[j], 4) + 8 * Bit(data[j], 3) + 4 * Bit(data[j], 2) +
        2 * Bit(data[j], 1) + Bit(data[j], 0)
    BY <2>6, WordBits, Zenon
  <2>8. QED
    BY <2>5, <2>7, Zenon DEF Five
<1>9. QED
  BY <1>7, <1>8, Zenon

LEMMA BitsOfBytes ==
  ASSUME NEW data \in Seq(0 .. 255)
  PROVE  /\ Bits(data, 8) \in Seq({0, 1}) /\ Len(Bits(data, 8)) = 8 * Len(data)
         /\ \A j \in 1 .. Len(data) : Eight(Group(Bits(data, 8), 8, j)) = data[j]
<1> DEFINE bits == Bits(data, 8)
           size == 8 * Len(data)
<1>1. size \in Nat
  OBVIOUS
<1>2. \A k \in 1 .. size : 1 + ((k - 1) \div 8) \in 1 .. Len(data) /\ 7 - ((k - 1) % 8) \in 0 .. 7
  OBVIOUS
<1> HIDE DEF size
<1>0. \A j \in 1 .. Len(data) : data[j] \in 0 .. 255
  BY Elements, Zenon
<1>3. \A k \in 1 .. size : data[1 + ((k - 1) \div 8)] \in 0 .. 255
  BY <1>0, <1>2, Zenon
<1> USE DEF size
<1>4. \A k \in 1 .. size : Bit(data[1 + ((k - 1) \div 8)], 7 - ((k - 1) % 8)) \in {0, 1}
  <2> SUFFICES ASSUME NEW k \in 1 .. size
               PROVE  Bit(data[1 + ((k - 1) \div 8)], 7 - ((k - 1) % 8)) \in {0, 1}
    OBVIOUS
  <2> DEFINE w == data[1 + ((k - 1) \div 8)]
             place == 7 - ((k - 1) % 8)
  <2>1. w \in 0 .. 255 /\ place \in 0 .. 7
    BY <1>2, <1>3
  <2> HIDE DEF w, place
  <2>2. \A m \in 0 .. 7 : Bit(w, m) \in {0, 1}
    BY <2>1, ByteBits, Zenon
  <2>3. QED
    BY <2>1, <2>2, Zenon DEF w, place
<1>5. bits = [k \in 1 .. size |-> Bit(data[1 + ((k - 1) \div 8)], 7 - ((k - 1) % 8))]
  <2>1. \A k \in 1 .. size : 8 - 1 - ((k - 1) % 8) = 7 - ((k - 1) % 8)
    OBVIOUS
  <2>2. bits = [k \in 1 .. size |-> Bit(data[1 + ((k - 1) \div 8)], 8 - 1 - ((k - 1) % 8))]
    BY Zenon DEF Bits
  <2> HIDE DEF bits, size
  <2>3. QED
    BY <2>1, <2>2, Zenon
<1>6. bits \in [1 .. size -> {0, 1}]
  <2> HIDE DEF bits, size
  <2>1. QED
    BY <1>4, <1>5, Zenon
<1>7. bits \in Seq({0, 1}) /\ Len(bits) = size
  <2> HIDE DEF bits, size
  <2>1. QED
    BY <1>1, <1>6
<1>8. ASSUME NEW j \in 1 .. Len(data) PROVE Eight(Group(bits, 8, j)) = data[j]
  <2>1. \A k \in 0 .. 7 : 8 * j - k \in 1 .. size
    OBVIOUS
  <2>2. \A k \in 0 .. 7 : 1 + ((8 * j - k - 1) \div 8) = j /\ 7 - ((8 * j - k - 1) % 8) = k
    OBVIOUS
  <2> HIDE DEF bits, size
  <2>3. \A k \in 0 .. 7 : bits[8 * j - k] = Bit(data[j], k)
    BY <1>5, <2>1, <2>2, Zenon
  <2>4. \A k \in 0 .. 7 : Group(bits, 8, j)[k] = Bit(data[j], k)
    <3>1. \A k \in 0 .. 7 : 8 * j - k <= Len(bits)
      BY <1>1, <1>7, <2>1
    <3>2. \A k \in 0 .. 7 : Group(bits, 8, j)[k] = At(bits, 8 * j - k)
      <4>1. 0 .. 7 = 0 .. 8 - 1
        OBVIOUS
      <4>2. QED
        BY <4>1, Zenon DEF Group
    <3>3. QED
      BY <2>3, <3>1, <3>2, Zenon DEF At
  <2>5. Group(bits, 8, j)[0] = Bit(data[j], 0) /\ Group(bits, 8, j)[1] = Bit(data[j], 1) /\
        Group(bits, 8, j)[2] = Bit(data[j], 2) /\ Group(bits, 8, j)[3] = Bit(data[j], 3) /\
        Group(bits, 8, j)[4] = Bit(data[j], 4) /\ Group(bits, 8, j)[5] = Bit(data[j], 5) /\
        Group(bits, 8, j)[6] = Bit(data[j], 6) /\ Group(bits, 8, j)[7] = Bit(data[j], 7)
    <3>1. 0 \in 0 .. 7 /\ 1 \in 0 .. 7 /\ 2 \in 0 .. 7 /\ 3 \in 0 .. 7 /\ 4 \in 0 .. 7 /\
          5 \in 0 .. 7 /\ 6 \in 0 .. 7 /\ 7 \in 0 .. 7
      OBVIOUS
    <3>2. QED
      BY <2>4, <3>1, Zenon
  <2>6. data[j] \in 0 .. 255
    BY <1>0, Zenon
  <2>7. data[j] = 128 * Bit(data[j], 7) + 64 * Bit(data[j], 6) + 32 * Bit(data[j], 5) +
        16 * Bit(data[j], 4) + 8 * Bit(data[j], 3) + 4 * Bit(data[j], 2) + 2 * Bit(data[j], 1) +
        Bit(data[j], 0)
    BY <2>6, ByteBits, Zenon
  <2>8. QED
    BY <2>5, <2>7, Zenon DEF Eight
<1>9. QED
  BY <1>7, <1>8, Zenon

LEMMA SameFives ==
  ASSUME NEW b \in Seq({0, 1}), NEW c \in Seq({0, 1}), NEW m \in Nat,
         Len(b) <= 5 * m, Len(c) <= 5 * m,
         \A j \in 1 .. m : Five(Group(b, 5, j)) = Five(Group(c, 5, j))
  PROVE  \A k \in Nat \ {0} : At(b, k) = At(c, k)
<1> SUFFICES ASSUME NEW k \in Nat \ {0} PROVE At(b, k) = At(c, k)
  OBVIOUS
<1>1. CASE k > 5 * m
  BY <1>1 DEF At
<1>2. CASE k <= 5 * m
  <2> DEFINE j == (k + 4) \div 5
             p == 5 * j - k
  <2>1. j \in 1 .. m /\ p \in 0 .. 4 /\ 5 * j - p = k
    BY <1>2
  <2> HIDE DEF j, p
  <2>2. j \in Nat \ {0}
    BY <2>1
  <2>3. Group(b, 5, j) = Group(c, 5, j)
    <3>1. /\ Group(b, 5, j) \in [0 .. 4 -> 0 .. 1]
          /\ Group(c, 5, j) \in [0 .. 4 -> 0 .. 1]
      BY <2>2, FiveNumber, Zenon
    <3>2. QED
      BY <2>1, <3>1, FiveFacts, Zenon
  <2>4. Group(b, 5, j)[p] = At(b, k) /\ Group(c, 5, j)[p] = At(c, k)
    <3>1. p \in 0 .. 5 - 1
      BY <2>1
    <3>2. QED
      BY <2>1, <3>1, Zenon DEF Group
  <2>5. QED
    BY <2>3, <2>4, Zenon
<1>3. QED
  BY <1>1, <1>2

LEMMA SameEights ==
  ASSUME NEW b \in Seq({0, 1}), NEW c \in Seq({0, 1}), NEW m \in Nat,
         Len(b) <= 8 * m, Len(c) <= 8 * m,
         \A j \in 1 .. m : Eight(Group(b, 8, j)) = Eight(Group(c, 8, j))
  PROVE  \A k \in Nat \ {0} : At(b, k) = At(c, k)
<1> SUFFICES ASSUME NEW k \in Nat \ {0} PROVE At(b, k) = At(c, k)
  OBVIOUS
<1>1. CASE k > 8 * m
  BY <1>1 DEF At
<1>2. CASE k <= 8 * m
  <2> DEFINE j == (k + 7) \div 8
             p == 8 * j - k
  <2>1. j \in 1 .. m /\ p \in 0 .. 7 /\ 8 * j - p = k
    BY <1>2
  <2> HIDE DEF j, p
  <2>2. j \in Nat \ {0}
    BY <2>1
  <2>3. Group(b, 8, j) = Group(c, 8, j)
    <3>1. /\ Group(b, 8, j) \in [0 .. 7 -> 0 .. 1]
          /\ Group(c, 8, j) \in [0 .. 7 -> 0 .. 1]
      BY <2>2, EightNumber, Zenon
    <3>2. QED
      BY <2>1, <3>1, EightFacts, Zenon
  <2>4. Group(b, 8, j)[p] = At(b, k) /\ Group(c, 8, j)[p] = At(c, k)
    <3>1. p \in 0 .. 8 - 1
      BY <2>1
    <3>2. QED
      BY <2>1, <3>1, Zenon DEF Group
  <2>5. QED
    BY <2>3, <2>4, Zenon
<1>3. QED
  BY <1>1, <1>2

LEMMA SameGroups ==
  ASSUME NEW b, NEW c, NEW n \in Nat \ {0}, NEW j \in Nat \ {0},
         \A k \in Nat \ {0} : At(b, k) = At(c, k)
  PROVE  Group(b, n, j) = Group(c, n, j)
<1>1. \A k \in 0 .. n - 1 : n * j - k \in Nat \ {0}
  <2> SUFFICES ASSUME NEW k \in 0 .. n - 1 PROVE n * j - k \in Nat \ {0}
    OBVIOUS
  <2>1. n * j >= n
    OBVIOUS
  <2>2. n * j \in Nat
    OBVIOUS
  <2> DEFINE p == n * j
  <2> HIDE DEF p
  <2>3. p - k \in Nat \ {0}
    BY <2>1, <2>2 DEF p
  <2>4. QED
    BY <2>3 DEF p
<1>2. \A k \in 0 .. n - 1 : At(b, n * j - k) = At(c, n * j - k)
  BY <1>1, Zenon
<1>3. QED
  BY <1>2, Zenon DEF Group

\* Past the end of a sequence of bits there are zeros.
LEMMA NothingAfter ==
  ASSUME NEW b \in Seq({0, 1}), NEW m \in Nat, Len(b) <= 8 * m
  PROVE  Eight(Group(b, 8, m + 1)) = 0
<1>1. \A k \in 0 .. 7 : At(b, 8 * (m + 1) - k) = 0
  BY DEF At
<1>2. \A k \in 0 .. 8 - 1 : Group(b, 8, m + 1)[k] = At(b, 8 * (m + 1) - k)
  BY Zenon DEF Group
<1> DEFINE g == Group(b, 8, m + 1)
<1>3. \A k \in 0 .. 7 : g[k] = 0
  <2>1. 0 .. 7 = 0 .. 8 - 1
    OBVIOUS
  <2>2. QED
    BY <1>1, <1>2, <2>1, Zenon
<1> HIDE DEF g
<1>4. Eight(g) = 0
  BY <1>3 DEF Eight
<1>5. QED
  BY <1>4, Zenon DEF g

\* Bytes as words: as many as hold their bits, each with the five bits at its place.
LEMMA ToWordsFacts ==
  ASSUME NEW bytes \in Seq(0 .. 255)
  PROVE  /\ ToWords(bytes) \in Seq(0 .. 31)
         /\ 8 * Len(bytes) <= 5 * Len(ToWords(bytes))
         /\ 5 * Len(ToWords(bytes)) <= 8 * Len(bytes) + 4
         /\ \A j \in 1 .. Len(ToWords(bytes)) :
              ToWords(bytes)[j] = Five(Group(Bits(bytes, 8), 5, j))
<1> DEFINE bits == Bits(bytes, 8)
           size == Len(bits) \div 5
           rest == Len(bits) % 5
           groups == Groups(bits, 5)
           last == Number(bits, 1 + Len(bits) - rest, 5)
<1>1. bits \in Seq({0, 1}) /\ Len(bits) = 8 * Len(bytes)
  BY BitsOfBytes, Zenon
<1> HIDE DEF bits
<1>2. Len(bits) \in Nat
  BY <1>1
<1>3. /\ size \in Nat /\ rest \in 0 .. 4 /\ Len(bits) = 5 * size + rest
      /\ 1 + Len(bits) - rest = 1 + (size + 1 - 1) * 5
  BY <1>2
<1>4. \A j \in Nat \ {0} : Five(Group(bits, 5, j)) \in 0 .. 31
  BY <1>1, FiveNumber, FiveFacts, Zenon
<1>5. groups = [j \in 1 .. size |-> Number(bits, 1 + (j - 1) * 5, 5)]
  BY Zenon DEF Groups
<1>6. last = Five(Group(bits, 5, size + 1))
  <2> DEFINE next == size + 1
  <2>1. next \in Nat \ {0} /\ 1 + Len(bits) - rest = 1 + (next - 1) * 5
    BY <1>3
  <2> HIDE DEF size, rest, next
  <2>2. Number(bits, 1 + (next - 1) * 5, 5) = Five(Group(bits, 5, next))
    BY <1>1, <2>1, FiveNumber, Zenon
  <2>3. QED
    BY <2>1, <2>2, Zenon DEF next
<1> HIDE DEF size, rest, last, groups
<1>7. \A j \in 1 .. size : groups[j] = Five(Group(bits, 5, j))
  <2> SUFFICES ASSUME NEW j \in 1 .. size PROVE groups[j] = Five(Group(bits, 5, j))
    OBVIOUS
  <2>1. j \in Nat \ {0}
    BY <1>3
  <2>2. groups[j] = Number(bits, 1 + (j - 1) * 5, 5)
    BY <1>5, Zenon
  <2>3. QED
    BY <1>1, <2>1, <2>2, FiveNumber, Zenon
<1>8. groups \in Seq(0 .. 31) /\ Len(groups) = size
  <2>1. \A j \in 1 .. size : j \in Nat \ {0}
    BY <1>3
  <2>2. \A j \in 1 .. size : groups[j] \in 0 .. 31
    BY <1>4, <1>7, <2>1, Zenon
  <2>3. groups \in [1 .. size -> 0 .. 31]
    BY <1>5, <2>2, Zenon
  <2>4. QED
    BY <1>3, <2>3
<1>9. ToWords(bytes) = IF rest > 0 THEN Append(groups, last) ELSE groups
  <2>1. \A i \in DOMAIN bytes : ~(bytes[i] >= 2^8)
    <3>1. \A i \in 1 .. Len(bytes) : bytes[i] \in 0 .. 255
      BY Elements, Zenon
    <3>2. DOMAIN bytes = 1 .. Len(bytes)
      OBVIOUS
    <3>3. \A w \in 0 .. 255 : ~(w >= 2^8)
      OBVIOUS
    <3>4. QED
      BY <3>1, <3>2, <3>3, Zenon
  <2>2. ToWords(bytes) = Regroup(bits, 8, 5, TRUE)
    BY <2>1, Zenon DEF ToWords, ConvertRadix2, bits
  <2>3. Regroup(bits, 8, 5, TRUE) = IF rest > 0 THEN Append(groups, last) ELSE groups
    BY Zenon DEF Regroup, rest, groups, last
  <2>4. QED
    BY <2>2, <2>3, Zenon
<1>10. CASE rest > 0
  <2>1. ToWords(bytes) = Append(groups, last)
    BY <1>9, <1>10
  <2>2. last \in 0 .. 31
    <3>1. size + 1 \in Nat \ {0}
      BY <1>3
    <3>2. QED
      BY <1>4, <1>6, <3>1, Zenon
  <2>3. /\ Append(groups, last) \in Seq(0 .. 31) /\ Len(Append(groups, last)) = size + 1
        /\ Append(groups, last)[size + 1] = last
        /\ \A j \in 1 .. size : Append(groups, last)[j] = groups[j]
    BY <1>8, <2>2
  <2>4. \A j \in 1 .. size + 1 : Append(groups, last)[j] = Five(Group(bits, 5, j))
    <3>1. \A j \in 1 .. size + 1 : j \in 1 .. size \/ j = size + 1
      BY <1>3
    <3>2. QED
      BY <1>6, <1>7, <2>3, <3>1, Zenon
  <2>5. 8 * Len(bytes) <= 5 * (size + 1) /\ 5 * (size + 1) <= 8 * Len(bytes) + 4
    BY <1>1, <1>3, <1>10
  <2>6. QED
    BY <2>1, <2>3, <2>4, <2>5, Zenon DEF bits
<1>11. CASE ~(rest > 0)
  <2>1. ToWords(bytes) = groups
    BY <1>9, <1>11
  <2>2. 8 * Len(bytes) <= 5 * size /\ 5 * size <= 8 * Len(bytes) + 4
    BY <1>1, <1>3, <1>11
  <2>3. QED
    BY <1>7, <1>8, <2>1, <2>2, Zenon DEF bits
<1>12. QED
  BY <1>10, <1>11

\* Words as bytes: only when what is left over is short and zero.
LEMMA FromWordsFacts ==
  ASSUME NEW words \in Seq(0 .. 31), NEW n \in Nat, NEW rest \in 0 .. 7,
         5 * Len(words) = 8 * n + rest
  PROVE  FromWords(words) =
           IF rest < 5 /\ Eight(Group(Bits(words, 5), 8, n + 1)) = 0
           THEN [j \in 1 .. n |-> Eight(Group(Bits(words, 5), 8, j))] ELSE Error
<1> DEFINE bits == Bits(words, 5)
           last == Number(bits, 1 + Len(bits) - rest, 8)
<1>1. bits \in Seq({0, 1}) /\ Len(bits) = 5 * Len(words)
  BY BitsOfWords, Zenon
<1> HIDE DEF bits
<1>2. Len(bits) % 8 = rest /\ Len(bits) \div 8 = n
  BY <1>1
<1>3. 1 + Len(bits) - rest = 1 + (n + 1 - 1) * 8 /\ n + 1 \in Nat \ {0}
  BY <1>1
<1>4. last = Eight(Group(bits, 8, n + 1))
  <2> DEFINE next == n + 1
  <2>1. next \in Nat \ {0} /\ 1 + Len(bits) - rest = 1 + (next - 1) * 8
    BY <1>3
  <2> HIDE DEF next
  <2>2. Number(bits, 1 + (next - 1) * 8, 8) = Eight(Group(bits, 8, next))
    BY <1>1, <2>1, EightNumber, Zenon
  <2>3. QED
    BY <2>1, <2>2, Zenon DEF next
<1>5. Groups(bits, 8) = [j \in 1 .. n |-> Eight(Group(bits, 8, j))]
  <2>1. Groups(bits, 8) = [j \in 1 .. n |-> Number(bits, 1 + (j - 1) * 8, 8)]
    BY <1>2, Zenon DEF Groups
  <2>2. \A j \in 1 .. n : j \in Nat \ {0}
    OBVIOUS
  <2>3. \A j \in 1 .. n : Number(bits, 1 + (j - 1) * 8, 8) = Eight(Group(bits, 8, j))
    BY <1>1, <2>2, EightNumber, Zenon
  <2>4. QED
    BY <2>1, <2>3, Zenon
<1>6. FromWords(words) = Regroup(bits, 5, 8, FALSE)
  <2>1. \A i \in DOMAIN words : ~(words[i] >= 2^5)
    <3>1. \A i \in 1 .. Len(words) : words[i] \in 0 .. 31
      BY Elements, Zenon
    <3>2. DOMAIN words = 1 .. Len(words)
      OBVIOUS
    <3>3. \A w \in 0 .. 31 : ~(w >= 2^5)
      OBVIOUS
    <3>4. QED
      BY <3>1, <3>2, <3>3, Zenon
  <2>2. QED
    BY <2>1, Zenon DEF FromWords, ConvertRadix2, bits
<1>7. Regroup(bits, 5, 8, FALSE) = IF rest >= 5 \/ last # 0 THEN Error ELSE Groups(bits, 8)
  BY <1>2, Zenon DEF Regroup, last
<1> HIDE DEF last
<1>8. rest >= 5 <=> ~(rest < 5)
  OBVIOUS
<1>9. FromWords(words) = IF rest < 5 /\ Eight(Group(bits, 8, n + 1)) = 0
                         THEN [j \in 1 .. n |-> Eight(Group(bits, 8, j))] ELSE Error
  BY <1>4, <1>5, <1>6, <1>7, <1>8, Zenon
<1>10. QED
  BY <1>9, Zenon DEF bits

\* Bytes come back from their words.
LEMMA WordsReadBack ==
  ASSUME NEW bytes \in Seq(0 .. 255)
  PROVE  FromWords(ToWords(bytes)) = bytes
<1> DEFINE words == ToWords(bytes)
           n == Len(bytes)
           b == Bits(bytes, 8)
           c == Bits(words, 5)
<1>1. /\ words \in Seq(0 .. 31)
      /\ 8 * n <= 5 * Len(words) /\ 5 * Len(words) <= 8 * n + 4
      /\ \A j \in 1 .. Len(words) : words[j] = Five(Group(b, 5, j))
  BY ToWordsFacts, Zenon
<1>2. /\ b \in Seq({0, 1}) /\ Len(b) = 8 * n
      /\ \A j \in 1 .. n : Eight(Group(b, 8, j)) = bytes[j]
  BY BitsOfBytes, Zenon
<1> HIDE DEF words, b
<1>3. /\ c \in Seq({0, 1}) /\ Len(c) = 5 * Len(words)
      /\ \A j \in 1 .. Len(words) : Five(Group(c, 5, j)) = words[j]
  BY <1>1, BitsOfWords, Zenon
<1> HIDE DEF c
<1>4. n \in Nat /\ Len(words) \in Nat
  BY <1>1
<1>5. \A k \in Nat \ {0} : At(b, k) = At(c, k)
  <2>1. Len(b) <= 5 * Len(words) /\ Len(c) <= 5 * Len(words)
    BY <1>1, <1>2, <1>3, <1>4
  <2>2. \A j \in 1 .. Len(words) : Five(Group(b, 5, j)) = Five(Group(c, 5, j))
    BY <1>1, <1>3, Zenon
  <2>3. QED
    BY <1>2, <1>3, <1>4, <2>1, <2>2, SameFives, Zenon
<1>6. \A j \in Nat \ {0} : Group(b, 8, j) = Group(c, 8, j)
  <2>1. 8 \in Nat \ {0}
    OBVIOUS
  <2>2. QED
    BY <1>5, <2>1, SameGroups, Zenon
<1> DEFINE rest == 5 * Len(words) - 8 * n
<1>7. rest \in 0 .. 7 /\ 5 * Len(words) = 8 * n + rest /\ rest < 5
  <2>1. 8 * n <= 5 * Len(words) /\ 5 * Len(words) <= 8 * n + 4
    BY <1>1, Zenon
  <2>2. QED
    BY <1>4, <2>1
<1> HIDE DEF rest
<1>8. Eight(Group(c, 8, n + 1)) = 0
  <2>1. Len(b) <= 8 * n /\ n + 1 \in Nat \ {0}
    BY <1>2, <1>4
  <2>2. QED
    BY <1>2, <1>4, <1>6, <2>1, NothingAfter, Zenon
<1>9. FromWords(words) = [j \in 1 .. n |-> Eight(Group(c, 8, j))]
  <2>1. FromWords(words) = IF rest < 5 /\ Eight(Group(c, 8, n + 1)) = 0
                           THEN [j \in 1 .. n |-> Eight(Group(c, 8, j))] ELSE Error
    BY <1>1, <1>4, <1>7, FromWordsFacts, Zenon DEF c
  <2>2. QED
    BY <1>7, <1>8, <2>1, Zenon
<1>10. \A j \in 1 .. n : Eight(Group(c, 8, j)) = bytes[j]
  <2>1. \A j \in 1 .. n : j \in Nat \ {0}
    BY <1>4
  <2>2. QED
    BY <1>2, <1>6, <2>1, Zenon
<1>11. bytes = [j \in 1 .. n |-> bytes[j]]
  OBVIOUS
<1>12. QED
  BY <1>9, <1>10, <1>11, Zenon DEF words

\* Words that read as bytes are those that the bytes are written as.
LEMMA OneReading ==
  ASSUME NEW words \in Seq(0 .. 31), FromWords(words) # Error
  PROVE  FromWords(words) \in Seq(0 .. 255) /\ ToWords(FromWords(words)) = words
<1> DEFINE n == (5 * Len(words)) \div 8
           rest == (5 * Len(words)) % 8
           c == Bits(words, 5)
           bytes == FromWords(words)
           b == Bits(bytes, 8)
           again == ToWords(bytes)
<1>1. n \in Nat /\ rest \in 0 .. 7 /\ 5 * Len(words) = 8 * n + rest /\ Len(words) \in Nat
  OBVIOUS
<1>2. /\ c \in Seq({0, 1}) /\ Len(c) = 5 * Len(words)
      /\ \A j \in 1 .. Len(words) : Five(Group(c, 5, j)) = words[j]
  BY BitsOfWords, Zenon
<1> HIDE DEF n, rest, c
<1>3. bytes = IF rest < 5 /\ Eight(Group(c, 8, n + 1)) = 0
              THEN [j \in 1 .. n |-> Eight(Group(c, 8, j))] ELSE Error
  BY <1>1, FromWordsFacts, Zenon DEF c
<1>4. /\ rest < 5 /\ Eight(Group(c, 8, n + 1)) = 0
      /\ bytes = [j \in 1 .. n |-> Eight(Group(c, 8, j))]
  BY <1>3, Zenon
<1> HIDE DEF bytes
<1>5. bytes \in Seq(0 .. 255) /\ Len(bytes) = n
  <2>1. \A j \in 1 .. n : j \in Nat \ {0}
    BY <1>1
  <2>2. \A j \in 1 .. n : Eight(Group(c, 8, j)) \in 0 .. 255
    BY <1>2, <2>1, EightNumber, EightFacts, Zenon
  <2>3. bytes \in [1 .. n -> 0 .. 255]
    BY <1>4, <2>2, Zenon
  <2>4. QED
    BY <1>1, <2>3
<1>6. /\ b \in Seq({0, 1}) /\ Len(b) = 8 * n
      /\ \A j \in 1 .. n : Eight(Group(b, 8, j)) = bytes[j]
  BY <1>5, BitsOfBytes, Zenon
<1>7. /\ again \in Seq(0 .. 31)
      /\ 8 * n <= 5 * Len(again) /\ 5 * Len(again) <= 8 * n + 4
      /\ \A j \in 1 .. Len(again) : again[j] = Five(Group(b, 5, j))
  BY <1>5, ToWordsFacts, Zenon
<1> HIDE DEF b, again
<1>8. \A k \in Nat \ {0} : At(b, k) = At(c, k)
  <2>1. Len(b) <= 8 * (n + 1) /\ Len(c) <= 8 * (n + 1) /\ n + 1 \in Nat /\ Len(b) <= 8 * n
    BY <1>1, <1>2, <1>6
  <2>2. Eight(Group(b, 8, n + 1)) = Eight(Group(c, 8, n + 1))
    BY <1>1, <1>4, <1>6, <2>1, NothingAfter, Zenon
  <2>3. \A j \in 1 .. n : Eight(Group(b, 8, j)) = Eight(Group(c, 8, j))
    BY <1>4, <1>6, Zenon
  <2>4. \A j \in 1 .. n + 1 : j \in 1 .. n \/ j = n + 1
    BY <1>1
  <2>5. \A j \in 1 .. n + 1 : Eight(Group(b, 8, j)) = Eight(Group(c, 8, j))
    BY <2>2, <2>3, <2>4, Zenon
  <2>6. QED
    BY <1>2, <1>6, <2>1, <2>5, SameEights, Zenon
<1>9. Len(again) = Len(words)
  <2>1. Len(again) \in Nat
    BY <1>7
  <2>2. QED
    BY <1>1, <1>4, <1>7, <2>1
<1>10. \A j \in 1 .. Len(words) : again[j] = words[j]
  <2>1. \A j \in 1 .. Len(words) : j \in Nat \ {0}
    OBVIOUS
  <2>2. 5 \in Nat \ {0}
    OBVIOUS
  <2>3. \A j \in 1 .. Len(words) : Group(b, 5, j) = Group(c, 5, j)
    BY <1>8, <2>1, <2>2, SameGroups, Zenon
  <2>4. QED
    BY <1>2, <1>7, <1>9, <2>3, Zenon
<1>11. again = words
  BY <1>7, <1>9, <1>10
<1>12. QED
  BY <1>5, <1>11, Zenon DEF again, bytes

-----------------------------------------------------------------------------
(* The register of the checksum.                                           *)

\* The low bits of the generators, which make them independent.
LEMMA LowPlaces ==
         /\ 0 \notin Generators[1] /\ 1 \in Generators[1] /\ 2 \notin Generators[1] /\
            3 \notin Generators[1] /\ 4 \in Generators[1]
         /\ 0 \in Generators[2] /\ 1 \notin Generators[2] /\ 2 \in Generators[2] /\
            3 \in Generators[2] /\ 4 \notin Generators[2]
         /\ 0 \notin Generators[3] /\ 1 \in Generators[3] /\ 2 \notin Generators[3] /\
            3 \in Generators[3] /\ 4 \in Generators[3]
         /\ 0 \in Generators[4] /\ 1 \notin Generators[4] /\ 2 \in Generators[4] /\
            3 \in Generators[4] /\ 4 \in Generators[4]
         /\ 0 \in Generators[5] /\ 1 \in Generators[5] /\ 2 \notin Generators[5] /\
            3 \notin Generators[5] /\ 4 \in Generators[5]
<1>1. Generators[1] = Register(996825010) /\ Generators[2] = Register(642813549) /\
      Generators[3] = Register(513874426) /\ Generators[4] = Register(1027748829) /\
      Generators[5] = Register(705979059)
  BY DEF Generators
<1>2. 0 \in Places /\ 1 \in Places /\ 2 \in Places /\ 3 \in Places /\ 4 \in Places
  BY DEF Places
<1>3. 0 \notin Generators[1] /\ 1 \in Generators[1] /\ 2 \notin Generators[1] /\
      3 \notin Generators[1] /\ 4 \in Generators[1]
  <2>1. Bit(996825010, 0) = 0 /\ Bit(996825010, 1) = 1 /\ Bit(996825010, 2) = 0 /\
        Bit(996825010, 3) = 0 /\ Bit(996825010, 4) = 1
    BY DEF Bit
  <2>2. QED
    BY <1>1, <1>2, <2>1 DEF Register
<1>4. 0 \in Generators[2] /\ 1 \notin Generators[2] /\ 2 \in Generators[2] /\
      3 \in Generators[2] /\ 4 \notin Generators[2]
  <2>1. Bit(642813549, 0) = 1 /\ Bit(642813549, 1) = 0 /\ Bit(642813549, 2) = 1 /\
        Bit(642813549, 3) = 1 /\ Bit(642813549, 4) = 0
    BY DEF Bit
  <2>2. QED
    BY <1>1, <1>2, <2>1 DEF Register
<1>5. 0 \notin Generators[3] /\ 1 \in Generators[3] /\ 2 \notin Generators[3] /\
      3 \in Generators[3] /\ 4 \in Generators[3]
  <2>1. Bit(513874426, 0) = 0 /\ Bit(513874426, 1) = 1 /\ Bit(513874426, 2) = 0 /\
        Bit(513874426, 3) = 1 /\ Bit(513874426, 4) = 1
    BY DEF Bit
  <2>2. QED
    BY <1>1, <1>2, <2>1 DEF Register
<1>6. 0 \in Generators[4] /\ 1 \notin Generators[4] /\ 2 \in Generators[4] /\
      3 \in Generators[4] /\ 4 \in Generators[4]
  <2>1. Bit(1027748829, 0) = 1 /\ Bit(1027748829, 1) = 0 /\ Bit(1027748829, 2) = 1 /\
        Bit(1027748829, 3) = 1 /\ Bit(1027748829, 4) = 1
    BY DEF Bit
  <2>2. QED
    BY <1>1, <1>2, <2>1 DEF Register
<1>7. 0 \in Generators[5] /\ 1 \in Generators[5] /\ 2 \notin Generators[5] /\
      3 \notin Generators[5] /\ 4 \in Generators[5]
  <2>1. Bit(705979059, 0) = 1 /\ Bit(705979059, 1) = 1 /\ Bit(705979059, 2) = 0 /\
        Bit(705979059, 3) = 0 /\ Bit(705979059, 4) = 1
    BY DEF Bit
  <2>2. QED
    BY <1>1, <1>2, <2>1 DEF Register
<1>8. QED
  BY <1>3, <1>4, <1>5, <1>6, <1>7, Zenon

Registers == SUBSET Places

LEMMA XorFacts ==
  /\ \A a, b : Xor(a, b) \in Registers
  /\ \A a, b \in Registers : \A c : Xor(a, c) = Xor(b, c) => a = b
  /\ \A a, b \in Registers : \A c : Xor(c, a) = Xor(c, b) => a = b
<1>1. \A a, b, k : k \in Xor(a, b) <=> k \in Places /\ (k \in a <=> k \notin b)
  BY Zenon DEF Xor
<1>2. \A a, b : Xor(a, b) \in Registers
  BY <1>1, Zenon DEF Registers
<1>3. ASSUME NEW a \in Registers, NEW b \in Registers, NEW c,
             Xor(a, c) = Xor(b, c) \/ Xor(c, a) = Xor(c, b)
      PROVE  a = b
  <2>1. \A k \in Places : k \in a <=> k \in b
    BY <1>1, <1>3, Zenon
  <2>2. QED
    BY <2>1, Zenon DEF Registers
<1>4. QED
  BY <1>2, <1>3, Zenon

\* A turn of the register loses nothing (bech32Polymod of the bundle): what falls out
\* can be told from the low places of what comes of it, and what stays from the others.
THEOREM PolymodInjective ==
  ASSUME NEW a \in Registers, NEW b \in Registers, Polymod(a) = Polymod(b)
  PROVE  a = b
<1> DEFINE up(s) == {k + 5 : k \in s \ 25..29}
           added(s, i) == IF 24 + i \in s THEN Generators[i] ELSE {}
           sum(s) == Xor(added(s, 1),
             Xor(added(s, 2), Xor(added(s, 3), Xor(added(s, 4), added(s, 5)))))
<1>1. Polymod(a) = Xor(up(a), sum(a)) /\ Polymod(b) = Xor(up(b), sum(b))
  BY Zenon DEF Polymod
<1>2. \A k \in 0..4 : k \in Places /\ k \notin up(a) /\ k \notin up(b)
  BY DEF Places, Registers
<1>3. \A s, t, k : k \in Xor(s, t) <=> k \in Places /\ (k \in s <=> k \notin t)
  BY DEF Xor
<1>4. \A k \in 0..4 : k \in sum(a) <=> k \in sum(b)
  <2> SUFFICES ASSUME NEW k \in 0..4 PROVE k \in sum(a) <=> k \in sum(b)
    OBVIOUS
  <2> HIDE DEF up, sum
  <2>1. k \in Polymod(a) <=> k \in sum(a)
    <3>1. k \in Places /\ k \notin up(a) /\ Polymod(a) = Xor(up(a), sum(a))
      BY <1>1, <1>2, Zenon
    <3>2. k \in Xor(up(a), sum(a)) <=> k \in Places /\ (k \in up(a) <=> k \notin sum(a))
      BY <1>3
    <3>3. QED
      BY <3>1, <3>2
  <2>2. k \in Polymod(b) <=> k \in sum(b)
    <3>1. k \in Places /\ k \notin up(b) /\ Polymod(b) = Xor(up(b), sum(b))
      BY <1>1, <1>2, Zenon
    <3>2. k \in Xor(up(b), sum(b)) <=> k \in Places /\ (k \in up(b) <=> k \notin sum(b))
      BY <1>3
    <3>3. QED
      BY <3>1, <3>2
  <2>3. k \in Polymod(a) <=> k \in Polymod(b)
    OBVIOUS
  <2>4. QED
    BY <1>2, <2>1, <2>2, <2>3
<1>5. \A i \in 1..5 : 24 + i \in a <=> 24 + i \in b
  <2> DEFINE in(s, k, i) == k \in added(s, i)
             last(s) == Xor(added(s, 4), added(s, 5))
             more(s) == Xor(added(s, 3), last(s))
             most(s) == Xor(added(s, 2), more(s))
  <2>0. ASSUME NEW s, NEW k \in 0..4
        PROVE  k \in sum(s) <=>
          (in(s, k, 1) <=> ~(in(s, k, 2) <=> ~(in(s, k, 3) <=> ~(in(s, k, 4) <=> ~in(s, k, 5)))))
    <3> HIDE DEF added
    <3>1. k \in last(s) <=> (in(s, k, 4) <=> ~in(s, k, 5))
      BY <1>2, <1>3
    <3>2. k \in more(s) <=> (in(s, k, 3) <=> ~(k \in last(s)))
      <4> HIDE DEF last
      <4>1. QED
        BY <1>2, <1>3 DEF more
    <3>3. k \in most(s) <=> (in(s, k, 2) <=> ~(k \in more(s)))
      <4> HIDE DEF more
      <4>1. QED
        BY <1>2, <1>3 DEF most
    <3>4. k \in sum(s) <=> (in(s, k, 1) <=> ~(k \in most(s)))
      <4>1. sum(s) = Xor(added(s, 1), most(s))
        BY Zenon
      <4> HIDE DEF most, sum
      <4>2. QED
        BY <1>2, <1>3, <4>1
    <3> DEFINE p1 == in(s, k, 1)
               p2 == in(s, k, 2)
               p3 == in(s, k, 3)
               p4 == in(s, k, 4)
               p5 == in(s, k, 5)
               q1 == k \in sum(s)
               q2 == k \in most(s)
               q3 == k \in more(s)
               q4 == k \in last(s)
    <3>5. /\ q4 <=> (p4 <=> ~p5)
          /\ q3 <=> (p3 <=> ~q4)
          /\ q2 <=> (p2 <=> ~q3)
          /\ q1 <=> (p1 <=> ~q2)
      <4> HIDE DEF last, more, most, sum, in
      <4>1. QED
        BY <3>1, <3>2, <3>3, <3>4
    <3>6. q1 <=> (p1 <=> ~(p2 <=> ~(p3 <=> ~(p4 <=> ~p5))))
      <4> HIDE DEF p1, p2, p3, p4, p5, q1, q2, q3, q4
      <4>1. QED
        BY <3>5
    <3>7. QED
      BY <3>6
  <2> HIDE DEF last, more, most
  <2>1. \A k \in 0..4 : k \in sum(a) <=>
          (in(a, k, 1) <=> ~(in(a, k, 2) <=> ~(in(a, k, 3) <=> ~(in(a, k, 4) <=> ~in(a, k, 5)))))
    BY <2>0
  <2>2. \A k \in 0..4 : k \in sum(b) <=>
          (in(b, k, 1) <=> ~(in(b, k, 2) <=> ~(in(b, k, 3) <=> ~(in(b, k, 4) <=> ~in(b, k, 5)))))
    BY <2>0
  <2>3. \A k \in 0..4 : \A i \in 1..5 :
          /\ in(a, k, i) <=> (24 + i \in a /\ k \in Generators[i])
          /\ in(b, k, i) <=> (24 + i \in b /\ k \in Generators[i])
    BY Zenon
  <2> DEFINE xa(i) == 24 + i \in a
             xb(i) == 24 + i \in b
  <2> HIDE DEF sum, in
  <2>4. 0 \in 0..4 /\ 1 \in 0..4 /\ 2 \in 0..4 /\ 3 \in 0..4 /\ 4 \in 0..4
    OBVIOUS
  <2>5. 1 \in 1..5 /\ 2 \in 1..5 /\ 3 \in 1..5 /\ 4 \in 1..5 /\ 5 \in 1..5
    OBVIOUS
  <2>6. (xa(2) <=> ~(xa(4) <=> ~xa(5))) <=> (xb(2) <=> ~(xb(4) <=> ~xb(5)))
    <3>1. (in(a, 0, 1) <=> FALSE) /\ (in(a, 0, 2) <=> xa(2)) /\ (in(a, 0, 3) <=> FALSE) /\
          (in(a, 0, 4) <=> xa(4)) /\ (in(a, 0, 5) <=> xa(5))
      BY <2>3, <2>4, <2>5, LowPlaces, Zenon
    <3>2. (in(b, 0, 1) <=> FALSE) /\ (in(b, 0, 2) <=> xb(2)) /\ (in(b, 0, 3) <=> FALSE) /\
          (in(b, 0, 4) <=> xb(4)) /\ (in(b, 0, 5) <=> xb(5))
      BY <2>3, <2>4, <2>5, LowPlaces, Zenon
    <3> HIDE DEF xa, xb
    <3>3. (0 \in sum(a) <=> 0 \in sum(b))
      BY <1>4, <2>4, Zenon
    <3>4. (0 \in sum(a) <=>
          (in(a, 0, 1) <=> ~(in(a, 0, 2) <=> ~(in(a, 0, 3) <=> ~(in(a, 0, 4) <=> ~in(a, 0, 5))))))
      BY <2>1, <2>4, Zenon
    <3>5. (0 \in sum(b) <=>
          (in(b, 0, 1) <=> ~(in(b, 0, 2) <=> ~(in(b, 0, 3) <=> ~(in(b, 0, 4) <=> ~in(b, 0, 5))))))
      BY <2>2, <2>4, Zenon
    <3>6. QED
      BY <3>1, <3>2, <3>3, <3>4, <3>5
  <2>7. (xa(1) <=> ~(xa(3) <=> ~xa(5))) <=> (xb(1) <=> ~(xb(3) <=> ~xb(5)))
    <3>1. (in(a, 1, 1) <=> xa(1)) /\ (in(a, 1, 2) <=> FALSE) /\ (in(a, 1, 3) <=> xa(3)) /\
          (in(a, 1, 4) <=> FALSE) /\ (in(a, 1, 5) <=> xa(5))
      BY <2>3, <2>4, <2>5, LowPlaces, Zenon
    <3>2. (in(b, 1, 1) <=> xb(1)) /\ (in(b, 1, 2) <=> FALSE) /\ (in(b, 1, 3) <=> xb(3)) /\
          (in(b, 1, 4) <=> FALSE) /\ (in(b, 1, 5) <=> xb(5))
      BY <2>3, <2>4, <2>5, LowPlaces, Zenon
    <3> HIDE DEF xa, xb
    <3>3. (1 \in sum(a) <=> 1 \in sum(b))
      BY <1>4, <2>4, Zenon
    <3>4. (1 \in sum(a) <=>
          (in(a, 1, 1) <=> ~(in(a, 1, 2) <=> ~(in(a, 1, 3) <=> ~(in(a, 1, 4) <=> ~in(a, 1, 5))))))
      BY <2>1, <2>4, Zenon
    <3>5. (1 \in sum(b) <=>
          (in(b, 1, 1) <=> ~(in(b, 1, 2) <=> ~(in(b, 1, 3) <=> ~(in(b, 1, 4) <=> ~in(b, 1, 5))))))
      BY <2>2, <2>4, Zenon
    <3>6. QED
      BY <3>1, <3>2, <3>3, <3>4, <3>5
  <2>8. (xa(2) <=> ~xa(4)) <=> (xb(2) <=> ~xb(4))
    <3>1. (in(a, 2, 1) <=> FALSE) /\ (in(a, 2, 2) <=> xa(2)) /\ (in(a, 2, 3) <=> FALSE) /\
          (in(a, 2, 4) <=> xa(4)) /\ (in(a, 2, 5) <=> FALSE)
      BY <2>3, <2>4, <2>5, LowPlaces, Zenon
    <3>2. (in(b, 2, 1) <=> FALSE) /\ (in(b, 2, 2) <=> xb(2)) /\ (in(b, 2, 3) <=> FALSE) /\
          (in(b, 2, 4) <=> xb(4)) /\ (in(b, 2, 5) <=> FALSE)
      BY <2>3, <2>4, <2>5, LowPlaces, Zenon
    <3> HIDE DEF xa, xb
    <3>3. (2 \in sum(a) <=> 2 \in sum(b))
      BY <1>4, <2>4, Zenon
    <3>4. (2 \in sum(a) <=>
          (in(a, 2, 1) <=> ~(in(a, 2, 2) <=> ~(in(a, 2, 3) <=> ~(in(a, 2, 4) <=> ~in(a, 2, 5))))))
      BY <2>1, <2>4, Zenon
    <3>5. (2 \in sum(b) <=>
          (in(b, 2, 1) <=> ~(in(b, 2, 2) <=> ~(in(b, 2, 3) <=> ~(in(b, 2, 4) <=> ~in(b, 2, 5))))))
      BY <2>2, <2>4, Zenon
    <3>6. QED
      BY <3>1, <3>2, <3>3, <3>4, <3>5
  <2>9. (xa(2) <=> ~(xa(3) <=> ~xa(4))) <=> (xb(2) <=> ~(xb(3) <=> ~xb(4)))
    <3>1. (in(a, 3, 1) <=> FALSE) /\ (in(a, 3, 2) <=> xa(2)) /\ (in(a, 3, 3) <=> xa(3)) /\
          (in(a, 3, 4) <=> xa(4)) /\ (in(a, 3, 5) <=> FALSE)
      BY <2>3, <2>4, <2>5, LowPlaces, Zenon
    <3>2. (in(b, 3, 1) <=> FALSE) /\ (in(b, 3, 2) <=> xb(2)) /\ (in(b, 3, 3) <=> xb(3)) /\
          (in(b, 3, 4) <=> xb(4)) /\ (in(b, 3, 5) <=> FALSE)
      BY <2>3, <2>4, <2>5, LowPlaces, Zenon
    <3> HIDE DEF xa, xb
    <3>3. (3 \in sum(a) <=> 3 \in sum(b))
      BY <1>4, <2>4, Zenon
    <3>4. (3 \in sum(a) <=>
          (in(a, 3, 1) <=> ~(in(a, 3, 2) <=> ~(in(a, 3, 3) <=> ~(in(a, 3, 4) <=> ~in(a, 3, 5))))))
      BY <2>1, <2>4, Zenon
    <3>5. (3 \in sum(b) <=>
          (in(b, 3, 1) <=> ~(in(b, 3, 2) <=> ~(in(b, 3, 3) <=> ~(in(b, 3, 4) <=> ~in(b, 3, 5))))))
      BY <2>2, <2>4, Zenon
    <3>6. QED
      BY <3>1, <3>2, <3>3, <3>4, <3>5
  <2>10. (xa(1) <=> ~(xa(3) <=> ~(xa(4) <=> ~xa(5)))) <=>
         (xb(1) <=> ~(xb(3) <=> ~(xb(4) <=> ~xb(5))))
    <3>1. (in(a, 4, 1) <=> xa(1)) /\ (in(a, 4, 2) <=> FALSE) /\ (in(a, 4, 3) <=> xa(3)) /\
          (in(a, 4, 4) <=> xa(4)) /\ (in(a, 4, 5) <=> xa(5))
      BY <2>3, <2>4, <2>5, LowPlaces, Zenon
    <3>2. (in(b, 4, 1) <=> xb(1)) /\ (in(b, 4, 2) <=> FALSE) /\ (in(b, 4, 3) <=> xb(3)) /\
          (in(b, 4, 4) <=> xb(4)) /\ (in(b, 4, 5) <=> xb(5))
      BY <2>3, <2>4, <2>5, LowPlaces, Zenon
    <3> HIDE DEF xa, xb
    <3>3. (4 \in sum(a) <=> 4 \in sum(b))
      BY <1>4, <2>4, Zenon
    <3>4. (4 \in sum(a) <=>
          (in(a, 4, 1) <=> ~(in(a, 4, 2) <=> ~(in(a, 4, 3) <=> ~(in(a, 4, 4) <=> ~in(a, 4, 5))))))
      BY <2>1, <2>4, Zenon
    <3>5. (4 \in sum(b) <=>
          (in(b, 4, 1) <=> ~(in(b, 4, 2) <=> ~(in(b, 4, 3) <=> ~(in(b, 4, 4) <=> ~in(b, 4, 5))))))
      BY <2>2, <2>4, Zenon
    <3>6. QED
      BY <3>1, <3>2, <3>3, <3>4, <3>5
  <2> HIDE DEF xa, xb
  <2>11. (xa(1) <=> xb(1)) /\ (xa(2) <=> xb(2)) /\ (xa(3) <=> xb(3)) /\ (xa(4) <=> xb(4)) /\
         (xa(5) <=> xb(5))
    BY <2>6, <2>7, <2>8, <2>9, <2>10
  <2>12. \A i \in 1..5 : i = 1 \/ i = 2 \/ i = 3 \/ i = 4 \/ i = 5
    OBVIOUS
  <2>13. QED
    BY <2>11, <2>12, Zenon DEF xa, xb
<1>6. sum(a) = sum(b)
  <2>1. \A i \in 1..5 : added(a, i) = added(b, i)
    BY <1>5, Zenon
  <2> HIDE DEF added
  <2>2. 1 \in 1..5 /\ 2 \in 1..5 /\ 3 \in 1..5 /\ 4 \in 1..5 /\ 5 \in 1..5
    OBVIOUS
  <2>3. QED
    BY <2>1, <2>2, Zenon
<1>7. up(a) = up(b)
  <2>1. up(a) \in Registers /\ up(b) \in Registers
    BY DEF Places, Registers
  <2> HIDE DEF up, sum
  <2>2. QED
    BY <1>1, <1>6, <2>1, XorFacts, Zenon
<1>8. \A k \in 0..24 : k \in a <=> k \in b
  <2>1. \A k \in 0..24 : (k + 5 \in up(a) <=> k \in a) /\ (k + 5 \in up(b) <=> k \in b)
    BY DEF Places, Registers
  <2> HIDE DEF up
  <2>2. QED
    BY <1>7, <2>1, Zenon
<1>9. \A k \in 25..29 : k \in a <=> k \in b
  <2>1. \A k \in 25..29 : k - 24 \in 1..5 /\ 24 + (k - 24) = k
    OBVIOUS
  <2>2. QED
    BY <1>5, <2>1, Zenon
<1>10. \A k \in Places : k \in 0..24 \/ k \in 25..29
  BY DEF Places
<1>11. QED
  BY <1>8, <1>9, <1>10, Zenon DEF Registers

LEMMA RegisterInjective ==
  ASSUME NEW v \in 0..31, NEW w \in 0..31, Register(v) = Register(w)
  PROVE  v = w
<1>1. \A k \in 0..4 : k \in Places
  BY DEF Places
<1>2. \A k \in 0..4 : Bit(v, k) = 1 <=> Bit(w, k) = 1
  BY <1>1, Zenon DEF Register
<1>3. \A k \in 0..4 : Bit(v, k) = Bit(w, k)
  <2>1. \A k \in 0..4 : Bit(v, k) \in {0, 1} /\ Bit(w, k) \in {0, 1}
    BY WordBits, Zenon
  <2>2. QED
    BY <1>2, <2>1, Zenon
<1>4. Bit(v, 0) = Bit(w, 0) /\ Bit(v, 1) = Bit(w, 1) /\ Bit(v, 2) = Bit(w, 2) /\
      Bit(v, 3) = Bit(w, 3) /\ Bit(v, 4) = Bit(w, 4)
  <2>1. 0 \in 0..4 /\ 1 \in 0..4 /\ 2 \in 0..4 /\ 3 \in 0..4 /\ 4 \in 0..4
    OBVIOUS
  <2>2. QED
    BY <1>3, <2>1, Zenon
<1>5. /\ v = 16 * Bit(v, 4) + 8 * Bit(v, 3) + 4 * Bit(v, 2) + 2 * Bit(v, 1) + Bit(v, 0)
      /\ w = 16 * Bit(w, 4) + 8 * Bit(w, 3) + 4 * Bit(w, 2) + 2 * Bit(w, 1) + Bit(w, 0)
  BY WordBits, Zenon
<1>6. QED
  BY <1>4, <1>5, Zenon

\* The registers that symbols leave one after the other.
IsFeed(s, start, symbols, n) ==
  /\ Feed(start, symbols) = s[n]
  /\ s \in [0 .. n -> Registers]
  /\ s[0] = start
  /\ \A k \in 1 .. n : s[k] = Xor(Polymod(s[k - 1]), Register(symbols[k]))

LEMMA FeedTurns ==
  ASSUME NEW start \in Registers, NEW symbols, NEW n \in Nat, Len(symbols) = n
  PROVE  \E s : IsFeed(s, start, symbols, n)
<1> DEFINE turn == [p \in (1 .. n) \X (Registers) |-> Xor(Polymod(p[2]), Register(symbols[p[1]]))]
           chk[k \in 0 .. n] ==
             IF k = 0 THEN start ELSE Xor(Polymod(chk[k - 1]), Register(symbols[k]))
           Loop(f) == f = [k \in 0 .. n |->
             IF k = 0 THEN start ELSE Xor(Polymod(f[k - 1]), Register(symbols[k]))]
<1>1. n \in Nat
  OBVIOUS
<1>2. turn \in [(1 .. n) \X (Registers) -> Registers]
  <2>1. \A p \in (1 .. n) \X (Registers) :
          Xor(Polymod(p[2]), Register(symbols[p[1]])) \in Registers
    BY XorFacts, Zenon
  <2>2. QED
    BY <2>1, Zenon
<1>3. PICK f : IsLoop(f, n, Registers, start, turn)
  <2> HIDE DEF turn
  <2>1. QED
    BY <1>1, <1>2, LoopExists, Zenon
<1>4. /\ f \in [0 .. n -> Registers]
      /\ f[0] = start
      /\ \A k \in 1 .. n : f[k] = Xor(Polymod(f[k - 1]), Register(symbols[k]))
  <2>1. /\ f \in [0 .. n -> Registers]
        /\ f[0] = start
        /\ \A k \in 1 .. n : f[k] = turn[<<k, f[k - 1]>>]
    BY <1>3, Zenon DEF IsLoop
  <2>2. \A k \in 1 .. n : k - 1 \in 0 .. n
    BY <1>1
  <2>3. \A k \in 1 .. n : f[k - 1] \in Registers
    BY <2>1, <2>2, Zenon
  <2>4. \A k \in 1 .. n, x \in Registers :
          turn[<<k, x>>] = Xor(Polymod(x), Register(symbols[k]))
    OBVIOUS
  <2> HIDE DEF turn
  <2>5. QED
    BY <2>1, <2>3, <2>4, Zenon
<1>5. \A k \in 0 .. n : f[k] = IF k =
      0 THEN start ELSE Xor(Polymod(f[k - 1]), Register(symbols[k]))
  <2>1. \A k \in 0 .. n : k = 0 \/ k \in 1 .. n
    OBVIOUS
  <2>2. \A k \in 1 .. n : k # 0
    OBVIOUS
  <2>3. QED
    BY <1>4, <2>1, <2>2, Zenon
<1>6. Loop(f)
  BY <1>4, <1>5, Zenon
<1>7. Loop(chk)
  BY <1>6, Zenon
<1> HIDE DEF chk
<1>8. /\ chk \in [0 .. n -> Registers]
      /\ chk[0] = start
      /\ \A k \in 1 .. n : chk[k] = Xor(Polymod(chk[k - 1]), Register(symbols[k]))
  <2>1. \A k \in 0 .. n : chk[k] = IF k =
        0 THEN start ELSE Xor(Polymod(chk[k - 1]), Register(symbols[k]))
    BY <1>7, Zenon
  <2>2. 0 \in 0 .. n /\ \A k \in 1 .. n : k \in 0 .. n /\ k # 0
    BY <1>1
  <2>3. \A k \in 0 .. n : chk[k] \in Registers
    <3> SUFFICES ASSUME NEW k \in 0 .. n PROVE chk[k] \in Registers
      OBVIOUS
    <3>1. chk[k] = IF k = 0 THEN start ELSE Xor(Polymod(chk[k - 1]), Register(symbols[k]))
      BY <2>1, Zenon
    <3>2. Xor(Polymod(chk[k - 1]), Register(symbols[k])) \in Registers
      BY XorFacts, Zenon
    <3>3. QED
      BY <3>1, <3>2, Zenon
  <2>4. chk = [k \in 0 .. n |-> chk[k]]
    <3>1. DOMAIN chk = 0 .. n
      BY <1>7, Zenon
    <3>2. QED
      BY <1>7, <2>1, Zenon
  <2>5. chk \in [0 .. n -> Registers]
    BY <2>3, <2>4, Zenon
  <2>6. QED
    BY <2>1, <2>2, <2>5, Zenon
<1>9. Feed(start, symbols) = chk[n]
  BY Zenon DEF Feed, chk
<1>10. QED
  BY <1>8, <1>9, Zenon DEF IsFeed

\* Symbols that differ at one place leave different registers: up to that place the
\* registers agree, and from there on they differ.
LEMMA OneChangeShows ==
  ASSUME NEW start \in Registers, NEW x, NEW y, NEW n \in Nat, NEW i \in 1 .. n,
         Len(x) = n, Len(y) = n,
         \A k \in (1 .. n) \ {i} : x[k] = y[k],
         Register(x[i]) # Register(y[i])
  PROVE  Feed(start, x) # Feed(start, y)
<1>1. PICK s : IsFeed(s, start, x, n)
  BY FeedTurns, Zenon
<1>2. PICK t : IsFeed(t, start, y, n)
  BY FeedTurns, Zenon
<1>3. /\ s[0] = start /\ t[0] = start /\ Feed(start, x) = s[n] /\ Feed(start, y) = t[n]
      /\ \A k \in 0 .. n : s[k] \in Registers /\ t[k] \in Registers
      /\ \A k \in 1 .. n : s[k] = Xor(Polymod(s[k - 1]), Register(x[k]))
      /\ \A k \in 1 .. n : t[k] = Xor(Polymod(t[k - 1]), Register(y[k]))
  BY <1>1, <1>2, Zenon DEF IsFeed
<1> DEFINE alike(k) == s[k] = t[k]
           wrong == {k \in 0 .. n : ~(alike(k) <=> k < i)}
<1>4. wrong = {}
  <2> SUFFICES ASSUME wrong # {} PROVE FALSE
    OBVIOUS
  <2>1. PICK m \in wrong : \A j \in wrong : m <= j
    <3>1. wrong \in SUBSET Nat
      OBVIOUS
    <3> HIDE DEF wrong
    <3>2. QED
      BY <3>1, LeastNatural, Zenon
  <2>2. m \in 0 .. n /\ ~(alike(m) <=> m < i)
    BY <2>1, Zenon
  <2>3. m # 0
    <3>1. alike(0)
      BY <1>3, Zenon
    <3>2. 0 < i
      OBVIOUS
    <3>3. QED
      BY <2>2, <3>1, <3>2, Zenon
  <2>4. m \in 1 .. n /\ m - 1 \in 0 .. n /\ ~(m <= m - 1)
    BY <2>2, <2>3
  <2>5. alike(m - 1) <=> m - 1 < i
    BY <2>1, <2>4, Zenon
  <2>6. /\ s[m] = Xor(Polymod(s[m - 1]), Register(x[m]))
        /\ t[m] = Xor(Polymod(t[m - 1]), Register(y[m]))
    BY <1>3, <2>4, Zenon
  <2>7. /\ Polymod(s[m - 1]) \in Registers /\ Polymod(t[m - 1]) \in Registers
        /\ s[m - 1] \in Registers /\ t[m - 1] \in Registers
    <3>1. \A a : Polymod(a) \in Registers
      BY XorFacts, Zenon DEF Polymod
    <3>2. QED
      BY <1>3, <2>4, <3>1, Zenon
  <2>8. CASE m < i
    <3>1. alike(m - 1) /\ x[m] = y[m]
      <4>1. m - 1 < i /\ m \in (1 .. n) \ {i}
        BY <2>4, <2>8
      <4>2. QED
        BY <2>5, <4>1, Zenon
    <3>2. QED
      BY <2>2, <2>6, <2>8, <3>1, Zenon
  <2>9. CASE m = i
    <3>1. alike(m - 1) /\ ~(m < i)
      <4>1. m - 1 < i /\ ~(m < i)
        BY <2>9
      <4>2. QED
        BY <2>5, <4>1, Zenon
    <3>2. ~alike(m)
      <4>1. \A a : Register(a) \in Registers
        BY Zenon DEF Register, Registers
      <4>2. Register(x[m]) # Register(y[m])
        BY <2>9, Zenon
      <4>3. SUFFICES ASSUME alike(m) PROVE FALSE
        OBVIOUS
      <4>4. Xor(Polymod(s[m - 1]), Register(x[m])) = Xor(Polymod(s[m - 1]), Register(y[m]))
        BY <2>6, <3>1, <4>3, Zenon
      <4>5. QED
        BY <4>1, <4>2, <4>4, XorFacts, Zenon
    <3>3. QED
      BY <2>2, <3>1, <3>2, Zenon
  <2>10. CASE m > i
    <3>1. ~alike(m - 1) /\ ~(m < i) /\ x[m] = y[m]
      <4>1. ~(m - 1 < i) /\ ~(m < i) /\ m \in (1 .. n) \ {i}
        BY <2>4, <2>10
      <4>2. QED
        BY <2>5, <4>1, Zenon
    <3>2. ~alike(m)
      <4>1. SUFFICES ASSUME alike(m) PROVE FALSE
        OBVIOUS
      <4>2. Xor(Polymod(s[m - 1]), Register(x[m])) = Xor(Polymod(t[m - 1]), Register(x[m]))
        BY <2>6, <3>1, <4>1, Zenon
      <4>3. Polymod(s[m - 1]) = Polymod(t[m - 1])
        <5> DEFINE P == Polymod(s[m - 1])
                   Q == Polymod(t[m - 1])
                   R == Register(x[m])
        <5>1. P \in Registers /\ Q \in Registers /\ Xor(P, R) = Xor(Q, R)
          BY <2>7, <4>2, Zenon
        <5> HIDE DEF P, Q, R
        <5>2. P = Q
          BY <5>1, XorFacts, Zenon
        <5>3. QED
          BY <5>2, Zenon DEF P, Q
      <4>4. QED
        BY <2>7, <3>1, <4>3, PolymodInjective, Zenon
    <3>3. QED
      BY <2>2, <3>1, <3>2, Zenon
  <2>11. m < i \/ m = i \/ m > i
    BY <2>4
  <2>12. QED
    BY <2>8, <2>9, <2>10, <2>11
<1>5. n \in 0 .. n /\ ~(n < i)
  OBVIOUS
<1>6. ~alike(n)
  BY <1>4, <1>5, Zenon
<1>7. QED
  BY <1>3, <1>6, Zenon

-----------------------------------------------------------------------------
(* Letters of the checksum.                                                *)

\* Sequences joined, widened, and made of functions.
IsJoin(all, s, t, T) ==
  /\ all \in Seq(T) /\ Len(all) = Len(s) + Len(t)
  /\ \A k \in 1 .. Len(s) : all[k] = s[k]
  /\ \A k \in 1 .. Len(t) : all[Len(s) + k] = t[k]

LEMMA Joined ==
  ASSUME NEW T, NEW s \in Seq(T), NEW t \in Seq(T)
  PROVE  IsJoin(s \o t, s, t, T)
<1>1. Len(s) \in Nat /\ Len(t) \in Nat
  OBVIOUS
<1>2. \A k \in 1 .. Len(s) + Len(t) :
        (s \o t)[k] = IF k <= Len(s) THEN s[k] ELSE t[k - Len(s)]
  OBVIOUS
<1>3. s \o t \in Seq(T) /\ Len(s \o t) = Len(s) + Len(t)
  OBVIOUS
<1>4. ASSUME NEW k \in 1 .. Len(t) PROVE (s \o t)[Len(s) + k] = t[k]
  <2>1. Len(s) + k \in 1 .. Len(s) + Len(t) /\ ~(Len(s) + k <= Len(s)) /\ Len(s) + k - Len(s) = k
    BY <1>1
  <2>2. (s \o t)[Len(s) + k] =
          IF Len(s) + k <= Len(s) THEN s[Len(s) + k] ELSE t[Len(s) + k - Len(s)]
    BY <1>2, <2>1
  <2>3. QED
    BY <2>1, <2>2, Zenon
<1>5. \A k \in 1 .. Len(s) : (s \o t)[k] = s[k]
  <2>1. \A k \in 1 .. Len(s) : k \in 1 .. Len(s) + Len(t) /\ k <= Len(s)
    BY <1>1
  <2>2. QED
    BY <1>2, <2>1, Zenon
<1>6. QED
  BY <1>3, <1>4, <1>5, Zenon DEF IsJoin

LEMMA Widened ==
  ASSUME NEW S, NEW T, S \subseteq T, NEW s \in Seq(S)
  PROVE  s \in Seq(T)
OBVIOUS

LEMMA Listed ==
  ASSUME NEW T, NEW n \in Nat, NEW f \in [1 .. n -> T]
  PROVE  f \in Seq(T) /\ Len(f) = n
OBVIOUS

\* The letters of a register, and the symbols that are fed into one.
Letters(chk) == Regroup([k \in 1..30 |-> IF 30 - k \in chk THEN 1 ELSE 0], 30, 5, FALSE)

Symbols(prefix, words) ==
  [i \in DOMAIN prefix |-> prefix[i] \div 32] \o <<0>> \o [i \in DOMAIN prefix |-> prefix[i] % 32]
    \o words \o [i \in 1..6 |-> 0]

LEMMA ChecksumIsLetters ==
  ASSUME NEW prefix, NEW words
  PROVE  Checksum(prefix, words) = Letters(Xor(Feed({0}, Symbols(prefix, words)), {0}))
BY Zenon DEF Checksum, Letters, Symbols

LEMMA LettersFacts ==
  ASSUME NEW a \in Registers
  PROVE  /\ Letters(a) \in Seq(0 .. 31) /\ Len(Letters(a)) = 6
         /\ \A b \in Registers : Letters(a) = Letters(b) => a = b
<1> DEFINE bits(r) == [k \in 1..30 |-> IF 30 - k \in r THEN 1 ELSE 0]
           letters(r) == [j \in 1 .. 6 |-> Five(Group(bits(r), 5, j))]
<1>1. \A r : bits(r) \in Seq({0, 1}) /\ Len(bits(r)) = 30
  OBVIOUS
<1>2. \A r, k : k \in 1..30 => (bits(r)[k] = 1 <=> 30 - k \in r)
  OBVIOUS
<1>3. ASSUME NEW r PROVE Letters(r) = letters(r)
  <2> DEFINE b == bits(r)
  <2> HIDE DEF bits
  <2>1. b \in Seq({0, 1}) /\ Len(b) = 30
    BY <1>1, Zenon
  <2>2. Letters(r) = Regroup(b, 30, 5, FALSE)
    BY Zenon DEF Letters, bits
  <2> HIDE DEF b
  <2>3. Len(b) % 5 = 0 /\ Len(b) \div 5 = 6 /\ 1 + Len(b) - 0 = 31 /\ ~(0 >= 30)
    BY <2>1
  <2>4. Number(b, 31, 5) = 0
    <3>1. \A k \in 31 .. 35 : At(b, k) = 0
      BY <2>1 DEF At
    <3>2. 31 \in Nat \ {0}
      OBVIOUS
    <3>3. Number(b, 31, 5) = 16 * At(b, 31) + 8 * At(b, 31 + 1) + 4 * At(b, 31 + 2) +
          2 * At(b, 31 + 3) + At(b, 31 + 4)
      BY <2>1, <3>2, NumberOfFive, Zenon
    <3>4. /\ At(b, 31) = 0 /\ At(b, 31 + 1) = 0 /\ At(b, 31 + 2) = 0 /\ At(b, 31 + 3) = 0
          /\ At(b, 31 + 4) = 0
      BY <3>1
    <3>5. QED
      BY <3>3, <3>4
  <2>5. Regroup(b, 30, 5, FALSE) = Groups(b, 5)
    <3>1. Regroup(b, 30, 5, FALSE) =
            IF 0 >= 30 \/ Number(b, 31, 5) # 0 THEN Error ELSE Groups(b, 5)
      BY <2>3, Zenon DEF Regroup
    <3>2. QED
      BY <2>3, <2>4, <3>1, Zenon
  <2>6. Groups(b, 5) = [j \in 1 .. 6 |-> Number(b, 1 + (j - 1) * 5, 5)]
    BY <2>3, Zenon DEF Groups
  <2>7. \A j \in 1 .. 6 : Number(b, 1 + (j - 1) * 5, 5) = Five(Group(b, 5, j))
    <3>1. \A j \in 1 .. 6 : j \in Nat \ {0}
      OBVIOUS
    <3>2. QED
      BY <2>1, <3>1, FiveNumber, Zenon
  <2>8. QED
    BY <2>2, <2>5, <2>6, <2>7, Zenon DEF b
<1> HIDE DEF bits
<1>4. ASSUME NEW r PROVE \A j \in 1 .. 6 : /\ Group(bits(r), 5, j) \in [0 .. 4 -> 0 .. 1]
                                          /\ Five(Group(bits(r), 5, j)) \in 0 .. 31
  <2>1. \A j \in 1 .. 6 : j \in Nat \ {0}
    OBVIOUS
  <2>2. QED
    BY <1>1, <2>1, FiveNumber, FiveFacts, Zenon
<1>5. letters(a) \in Seq(0 .. 31) /\ Len(letters(a)) = 6
  <2>1. letters(a) \in [1 .. 6 -> 0 .. 31]
    BY <1>4, Zenon
  <2> DEFINE f == letters(a)
             n == 6
             words == 0 .. 31
  <2>2. n \in Nat
    OBVIOUS
  <2>3. f \in [1 .. n -> words]
    BY <2>1, Zenon
  <2> HIDE DEF letters, f, n, words
  <2>4. f \in Seq(words) /\ Len(f) = n
    BY <2>2, <2>3, Listed, Zenon
  <2>5. QED
    BY <2>4, Zenon DEF f, n, words
<1>6. ASSUME NEW b \in Registers, letters(a) = letters(b) PROVE a = b
  <2>1. \A j \in 1 .. 6 : Five(Group(bits(a), 5, j)) = Five(Group(bits(b), 5, j))
    <3>1. \A j \in 1 .. 6 : /\ letters(a)[j] = Five(Group(bits(a), 5, j))
                            /\ letters(b)[j] = Five(Group(bits(b), 5, j))
      BY Zenon
    <3> HIDE DEF letters
    <3>2. QED
      BY <1>6, <3>1, Zenon
  <2>2. \A k \in Nat \ {0} : At(bits(a), k) = At(bits(b), k)
    <3> DEFINE x == bits(a)
               y == bits(b)
    <3>1. /\ x \in Seq({0, 1}) /\ y \in Seq({0, 1})
          /\ Len(x) = 30 /\ Len(y) = 30
          /\ \A j \in 1 .. 6 : Five(Group(x, 5, j)) = Five(Group(y, 5, j))
      BY <1>1, <2>1, Zenon
    <3> HIDE DEF x, y
    <3>2. 6 \in Nat /\ Len(x) <= 5 * 6 /\ Len(y) <= 5 * 6
      BY <3>1
    <3>3. \A k \in Nat \ {0} : At(x, k) = At(y, k)
      BY <3>1, <3>2, SameFives, Zenon
    <3>4. QED
      BY <3>3, Zenon DEF x, y
  <2>3. \A k \in Places : k \in a <=> k \in b
    <3> SUFFICES ASSUME NEW k \in Places PROVE k \in a <=> k \in b
      OBVIOUS
    <3>1. 30 - k \in 1 .. 30 /\ 30 - k \in Nat \ {0} /\ 30 - (30 - k) = k /\ 30 - k <= 30
      BY DEF Places
    <3>2. bits(a)[30 - k] = bits(b)[30 - k]
      <4> DEFINE p == 30 - k
      <4>1. p \in Nat \ {0} /\ p <= Len(bits(a)) /\ p <= Len(bits(b))
        BY <1>1, <3>1
      <4> HIDE DEF p
      <4>2. At(bits(a), p) = At(bits(b), p)
        BY <2>2, <4>1, Zenon
      <4>3. bits(a)[p] = bits(b)[p]
        BY <4>1, <4>2, Zenon DEF At
      <4>4. QED
        BY <4>3, Zenon DEF p
    <3>3. QED
      BY <1>2, <3>1, <3>2, Zenon
  <2>4. QED
    BY <2>3, Zenon DEF Registers
<1>7. QED
  BY <1>3, <1>5, <1>6, Zenon

LEMMA RegisterOfChecksum ==
  ASSUME NEW prefix \in Seq(Nat), NEW words \in Seq(0 .. 31)
  PROVE  Xor(Feed({0}, Symbols(prefix, words)), {0}) \in Registers
BY XorFacts, Zenon

LEMMA SymbolsFacts ==
  ASSUME NEW prefix \in Seq(Nat), NEW words \in Seq(0 .. 31)
  PROVE  LET h == 2 * Len(prefix) + 1
             s == Symbols(prefix, words)
         IN  /\ Len(s) = h + Len(words) + 6
             /\ \A k \in 1 .. Len(words) : s[h + k] = words[k]
             /\ \A k \in 1 .. h + Len(words) + 6 :
                  k \notin h + 1 .. h + Len(words) =>
                    \A others \in Seq(0 .. 31) :
                       Len(others) = Len(words) => Symbols(prefix, others)[k] = s[k]
<1> DEFINE high == [i \in DOMAIN prefix |-> prefix[i] \div 32]
           low == [i \in DOMAIN prefix |-> prefix[i] % 32]
           zeros == [i \in 1..6 |-> 0]
           head == high \o <<0>> \o low
           h == 2 * Len(prefix) + 1
<1>1. high \in Seq(Int) /\ low \in Seq(Int) /\ Len(high) = Len(prefix) /\ Len(low) = Len(prefix)
  <2>1. DOMAIN prefix = 1 .. Len(prefix) /\ Len(prefix) \in Nat
    OBVIOUS
  <2>2. \A i \in 1 .. Len(prefix) : prefix[i] \in Nat
    BY Elements, Zenon
  <2>3. \A x \in Nat : x \div 32 \in Int /\ (x % 32) \in Int
    OBVIOUS
  <2>4. high \in [1 .. Len(prefix) -> Int] /\ low \in [1 .. Len(prefix) -> Int]
    BY <2>1, <2>2, <2>3, Zenon
  <2> HIDE DEF high, low
  <2>5. QED
    BY <2>1, <2>4, Listed, Zenon
<1>2. zeros \in Seq(Int) /\ Len(zeros) = 6
  OBVIOUS
<1>3. <<0>> \in Seq(Int) /\ Len(<<0>>) = 1
  OBVIOUS
<1> HIDE DEF high, low, zeros
<1>4. head \in Seq(Int) /\ Len(head) = h
  <2>1. high \o <<0>> \in Seq(Int) /\ Len(high \o <<0>>) = Len(prefix) + 1
    BY <1>1, <1>3
  <2> DEFINE front == high \o <<0>>
  <2> HIDE DEF front
  <2>2. IsJoin(front \o low, front, low, Int)
    BY <1>1, <2>1, Joined, Zenon DEF front
  <2>3. Len(prefix) + 1 + Len(prefix) = h
    OBVIOUS
  <2>4. QED
    BY <1>1, <2>1, <2>2, <2>3, Zenon DEF IsJoin, front
<1> HIDE DEF head
<1>5. \A w : Symbols(prefix, w) = head \o w \o zeros
  BY Zenon DEF Symbols, head, high, low, zeros
<1>6. h \in Nat /\ Len(words) \in Nat
  OBVIOUS
<1> HIDE DEF h
<1>7. ASSUME NEW w \in Seq(0 .. 31)
      PROVE  /\ Len(Symbols(prefix, w)) = h + Len(w) + 6
             /\ \A k \in 1 .. h : Symbols(prefix, w)[k] = head[k]
             /\ \A k \in 1 .. Len(w) : Symbols(prefix, w)[h + k] = w[k]
             /\ \A k \in 1 .. 6 : Symbols(prefix, w)[h + Len(w) + k] = zeros[k]
  <2>1. w \in Seq(Int)
    <3>1. 0 .. 31 \subseteq Int
      OBVIOUS
    <3>2. QED
      BY <3>1, Widened, Zenon
  <2> DEFINE front == head \o w
  <2>2. Symbols(prefix, w) = front \o zeros
    BY <1>5, Zenon
  <2>3. /\ front \in Seq(Int) /\ Len(front) = h + Len(w)
        /\ \A k \in 1 .. h : front[k] = head[k]
        /\ \A k \in 1 .. Len(w) : front[h + k] = w[k]
    <3>1. IsJoin(head \o w, head, w, Int)
      BY <1>4, <2>1, Joined, Zenon
    <3>2. QED
      BY <1>4, <3>1, Zenon DEF IsJoin
  <2> HIDE DEF front
  <2>4. IsJoin(front \o zeros, front, zeros, Int)
    BY <1>2, <2>3, Joined, Zenon
  <2> DEFINE all == front \o zeros
  <2> HIDE DEF all
  <2>5. /\ Len(all) = h + Len(w) + 6
        /\ \A k \in 1 .. h + Len(w) : all[k] = front[k]
        /\ \A k \in 1 .. 6 : all[h + Len(w) + k] = zeros[k]
    BY <1>2, <2>3, <2>4, Zenon DEF IsJoin, all
  <2>6. \A k \in 1 .. h : k \in 1 .. h + Len(w)
    BY <1>6
  <2>7. \A k \in 1 .. Len(w) : h + k \in 1 .. h + Len(w)
    BY <1>6
  <2>8. /\ \A k \in 1 .. h : all[k] = head[k]
        /\ \A k \in 1 .. Len(w) : all[h + k] = w[k]
    BY <2>3, <2>5, <2>6, <2>7, Zenon
  <2>9. QED
    BY <2>2, <2>5, <2>8, Zenon DEF all
<1>8. ASSUME NEW k \in 1 .. h + Len(words) + 6, k \notin h + 1 .. h + Len(words),
             NEW others \in Seq(0 .. 31), Len(others) = Len(words)
      PROVE  Symbols(prefix, others)[k] = Symbols(prefix, words)[k]
  <2>1. k \in 1 .. h \/ k - (h + Len(words)) \in 1 .. 6
    BY <1>6, <1>8
  <2>2. CASE k \in 1 .. h
    BY <1>7, <2>2, Zenon
  <2>3. CASE k - (h + Len(words)) \in 1 .. 6
    <3> DEFINE p == k - (h + Len(words))
    <3>1. p \in 1 .. 6 /\ h + Len(words) + p = k
      BY <1>6, <2>3
    <3> HIDE DEF p
    <3>2. Symbols(prefix, words)[h + Len(words) + p] = zeros[p]
      BY <1>7, <3>1, Zenon
    <3>3. Symbols(prefix, others)[h + Len(others) + p] = zeros[p]
      BY <1>7, <3>1, Zenon
    <3>4. QED
      BY <1>8, <3>1, <3>2, <3>3, Zenon
  <2>4. QED
    BY <2>1, <2>2, <2>3
<1>9. QED
  BY <1>7, <1>8, Zenon DEF h

\* A changed word changes the checksum, whatever the prefix (bechChecksum of the bundle).
THEOREM ChecksumShows ==
  ASSUME NEW prefix \in Seq(Nat), NEW words \in Seq(0 .. 31), NEW others \in Seq(0 .. 31),
         Len(others) = Len(words), NEW i \in 1 .. Len(words), words[i] # others[i],
         \A k \in (1 .. Len(words)) \ {i} : words[k] = others[k]
  PROVE  Checksum(prefix, words) # Checksum(prefix, others)
<1> DEFINE h == 2 * Len(prefix) + 1
           n == h + Len(words) + 6
           s == Symbols(prefix, words)
           t == Symbols(prefix, others)
<1>1. /\ Len(s) = n
      /\ \A k \in 1 .. Len(words) : s[h + k] = words[k]
      /\ \A k \in 1 .. n : k \notin h + 1 .. h + Len(words) => t[k] = s[k]
  BY SymbolsFacts, Zenon
<1>2. /\ Len(t) = n
      /\ \A k \in 1 .. Len(words) : t[h + k] = others[k]
  <2>1. /\ Len(t) = h + Len(others) + 6
        /\ \A k \in 1 .. Len(others) : t[h + k] = others[k]
    BY SymbolsFacts, Zenon
  <2> HIDE DEF h, t
  <2>2. QED
    BY <2>1, Zenon
<1>3. h \in Nat /\ Len(words) \in Nat
  OBVIOUS
<1> HIDE DEF h, s, t
<1>4. h + i \in 1 .. n /\ n \in Nat
  BY <1>3
<1>5. \A k \in (1 .. n) \ {h + i} : s[k] = t[k]
  <2> SUFFICES ASSUME NEW k \in 1 .. n, k # h + i PROVE s[k] = t[k]
    OBVIOUS
  <2>1. CASE k \notin h + 1 .. h + Len(words)
    BY <1>1, <2>1, Zenon
  <2>2. CASE k \in h + 1 .. h + Len(words)
    <3>1. k - h \in (1 .. Len(words)) \ {i} /\ h + (k - h) = k
      BY <1>3, <2>2
    <3>2. s[h + (k - h)] = words[k - h] /\ t[h + (k - h)] = others[k - h]
      BY <1>1, <1>2, <3>1, Zenon
    <3>3. QED
      BY <3>1, <3>2, Zenon
  <2>3. QED
    BY <2>1, <2>2, Zenon
<1>6. Register(s[h + i]) # Register(t[h + i])
  <2>1. s[h + i] = words[i] /\ t[h + i] = others[i]
    BY <1>1, <1>2, Zenon
  <2>2. words[i] \in 0 .. 31 /\ others[i] \in 0 .. 31
    BY Elements, Zenon
  <2>3. QED
    BY <2>1, <2>2, RegisterInjective, Zenon
<1>7. {0} \in Registers
  BY DEF Registers, Places
<1> HIDE DEF n
<1>8. Feed({0}, s) # Feed({0}, t)
  BY <1>1, <1>2, <1>4, <1>5, <1>6, <1>7, OneChangeShows, Zenon
<1>9. Feed({0}, s) \in Registers /\ Feed({0}, t) \in Registers
  <2>1. PICK f : IsFeed(f, {0}, s, n)
    BY <1>1, <1>4, <1>7, FeedTurns, Zenon
  <2>2. PICK g : IsFeed(g, {0}, t, n)
    BY <1>2, <1>4, <1>7, FeedTurns, Zenon
  <2>3. n \in 0 .. n
    BY <1>4
  <2>4. QED
    <3>1. Feed({0}, s) \in Registers
      <4>1. Feed({0}, s) = f[n] /\ f \in [0 .. n -> Registers]
        BY <2>1, Zenon DEF IsFeed
      <4>2. QED
        BY <2>3, <4>1, Zenon
    <3>2. Feed({0}, t) \in Registers
      <4>1. Feed({0}, t) = g[n] /\ g \in [0 .. n -> Registers]
        BY <2>2, Zenon DEF IsFeed
      <4>2. QED
        BY <2>3, <4>1, Zenon
    <3>3. QED
      BY <3>1, <3>2, Zenon
<1>10. Xor(Feed({0}, s), {0}) # Xor(Feed({0}, t), {0})
  BY <1>8, <1>9, XorFacts, Zenon
<1>11. Letters(Xor(Feed({0}, s), {0})) # Letters(Xor(Feed({0}, t), {0}))
  BY <1>10, XorFacts, LettersFacts, Zenon
<1>12. QED
  BY <1>11, ChecksumIsLetters, Zenon DEF s, t

LEMMA ChecksumFacts ==
  ASSUME NEW prefix \in Seq(Nat), NEW words \in Seq(0 .. 31)
  PROVE  Checksum(prefix, words) \in Seq(0 .. 31) /\ Len(Checksum(prefix, words)) = 6
BY RegisterOfChecksum, ChecksumIsLetters, LettersFacts, Zenon

-----------------------------------------------------------------------------
(* Writing and reading a code.                                             *)

IsPart(part, s, a, b, T) ==
  /\ part \in Seq(T) /\ Len(part) = b - a + 1
  /\ \A k \in 1 .. b - a + 1 : part[k] = s[k + a - 1]

LEMMA Part ==
  ASSUME NEW T, NEW s \in Seq(T), NEW a \in 1 .. Len(s), NEW b \in a .. Len(s)
  PROVE  IsPart(SubSeq(s, a, b), s, a, b, T)
BY DEF IsPart

LEMMA SameSequence ==
  ASSUME NEW T, NEW s \in Seq(T), NEW t \in Seq(T), Len(s) = Len(t),
         \A k \in 1 .. Len(t) : s[k] = t[k]
  PROVE  s = t
OBVIOUS

LEMMA ErrorIsNoWords ==
  ASSUME NEW T, T \subseteq Nat, NEW s \in Seq(T)
  PROVE  s # Error
<1>1. SUFFICES ASSUME s = Error PROVE FALSE
  OBVIOUS
<1>2. Len(s) = 1 /\ s[1] = -1
  BY <1>1 DEF Error
<1>3. s[1] \in T
  <2>1. 1 \in 1 .. Len(s)
    BY <1>2
  <2>2. QED
    BY <2>1, Elements, Zenon
<1>4. QED
  BY <1>2, <1>3

LEMMA DecodeUnfolds ==
  ASSUME NEW code
  PROVE  /\ ~Readable(code, Bech32MaxSize) => Decode(code) = Error
         /\ Readable(code, Bech32MaxSize) /\ WordsOf(code) # Error =>
            Decode(code) = FromWords(WordsOf(code))
BY Zenon DEF Decode, Decode2

\* A code of npub with these letters.
NpubCode(letters) == [prefix |-> Npub, letters |-> letters, mixed |-> FALSE]

LEMMA NpubParts ==
  ASSUME NEW letters
  PROVE  /\ NpubCode(letters).prefix = Npub /\ NpubCode(letters).letters = letters
         /\ ~NpubCode(letters).mixed
BY DEF NpubCode

LEMMA NpubReadable ==
  ASSUME NEW letters
  PROVE  Readable(NpubCode(letters), Bech32MaxSize) <=>
           /\ Len(Npub) > 0 /\ Len(letters) >= 6
           /\ Len(Npub) + 1 + Len(letters) \in 8 .. Bech32MaxSize
           /\ \A i \in 1 .. Len(letters) : letters[i] # Foreign
           /\ SubSeq(letters, Len(letters) - 5, Len(letters))
                = Checksum(Npub, SubSeq(letters, 1, Len(letters) - 6))
<1> DEFINE R(p, l) ==
             /\ Len(p) > 0 /\ Len(l) >= 6
             /\ Len(p) + 1 + Len(l) \in 8 .. Bech32MaxSize
             /\ \A i \in 1 .. Len(l) : l[i] # Foreign
             /\ SubSeq(l, Len(l) - 5, Len(l)) = Checksum(p, SubSeq(l, 1, Len(l) - 6))
           code == NpubCode(letters)
<1> HIDE DEF code
<1>1. Readable(code, Bech32MaxSize) <=> ~code.mixed /\ R(code.prefix, code.letters)
  BY Zenon DEF Readable, WordsOf
<1>2. code.prefix = Npub /\ code.letters = letters /\ ~code.mixed
  BY NpubParts, Zenon DEF code
<1>3. R(code.prefix, code.letters) <=> R(Npub, letters)
  <2> HIDE DEF R
  <2>1. QED
    BY <1>2, Zenon
<1>4. Readable(code, Bech32MaxSize) <=> R(Npub, letters)
  <2> HIDE DEF R
  <2>1. QED
    BY <1>1, <1>2, <1>3, Zenon
<1>5. QED
  BY <1>4, Zenon DEF code

\* A code is decided by its words and its checksum.
LEMMA DecodeFacts ==
  ASSUME NEW words, Len(words) \in Nat, Len(words) <= 52,
         NEW sum \in Seq(0 .. 32), NEW front \in Seq(0 .. 32),
         Len(sum) = 6, Len(front) = Len(words)
  PROVE  LET code == NpubCode(front \o sum)
         IN  /\ front \in Seq(0 .. 31) /\ sum = Checksum(Npub, front) =>
                Decode(code) = FromWords(front)
             /\ sum # Checksum(Npub, front) => Decode(code) = Error
             /\ (\E i \in 1 .. Len(words) : front[i] = Foreign) => Decode(code) = Error
             /\ (\E i \in 1 .. 6 : sum[i] = Foreign) => Decode(code) = Error
<1> DEFINE letters == front \o sum
           n == Len(words) + 6
           foreign == \E i \in 1 .. n : letters[i] = Foreign
           code == NpubCode(letters)
<1> HIDE DEF code
<1>1. Len(words) \in Nat /\ Len(words) <= 52
  OBVIOUS
<1>2. IsJoin(letters, front, sum, 0 .. 32)
  BY Joined, Zenon
<1> HIDE DEF letters
<1>3. /\ letters \in Seq(0 .. 32) /\ Len(letters) = n
      /\ \A k \in 1 .. Len(words) : letters[k] = front[k]
      /\ \A k \in 1 .. 6 : letters[Len(words) + k] = sum[k]
  BY <1>2, Zenon DEF IsJoin
<1>4. SubSeq(letters, 1, n - 6) = front
  <2>1. n - 6 = Len(words) /\ Len(words) <= n /\ n \in Nat
    BY <1>1
  <2> HIDE DEF n
  <2>2. /\ Len(SubSeq(letters, 1, Len(words))) = Len(words)
        /\ DOMAIN SubSeq(letters, 1, Len(words)) = 1 .. Len(words)
        /\ \A k \in 1 .. Len(words) : SubSeq(letters, 1, Len(words))[k] = letters[k]
    BY <1>1, <1>3, <2>1
  <2> DEFINE s == SubSeq(letters, 1, Len(words))
  <2>3. s = [k \in 1 .. Len(words) |-> letters[k]]
    BY <1>1, <1>3, <2>1
  <2> HIDE DEF s
  <2>4. front = [k \in 1 .. Len(words) |-> front[k]]
    OBVIOUS
  <2>5. s = front
    BY <1>3, <2>3, <2>4, Zenon
  <2>6. QED
    BY <2>1, <2>5, Zenon DEF s
<1>5. SubSeq(letters, n - 5, n) = sum
  <2>1. n \in Nat /\ n - 5 \in 1 .. n /\ n - 5 = Len(words) + 1
    BY <1>1
  <2> DEFINE a == n - 5
             s == SubSeq(letters, a, n)
  <2>2. a \in 1 .. Len(letters) /\ n \in a .. Len(letters)
    BY <1>3, <2>1
  <2>3. n - a + 1 = 6 /\ \A k \in 1 .. 6 : k + a - 1 = Len(words) + k
    BY <1>1
  <2> HIDE DEF a, n
  <2>4. IsPart(s, letters, a, n, 0 .. 32)
    BY <1>3, <2>2, Part, Zenon
  <2> HIDE DEF s
  <2>5. /\ s \in Seq(0 .. 32) /\ Len(s) = 6
        /\ \A k \in 1 .. 6 : s[k] = letters[k + a - 1]
    BY <2>3, <2>4, Zenon DEF IsPart
  <2>6. \A k \in 1 .. Len(sum) : s[k] = sum[k]
    BY <1>3, <2>3, <2>5, Zenon
  <2>7. s = sum
    <3> DEFINE T == 0 .. 32
    <3>1. Len(s) = Len(sum) /\ s \in Seq(T) /\ sum \in Seq(T)
      BY <2>5, Zenon
    <3> HIDE DEF T
    <3>2. QED
      BY <2>6, <3>1, SameSequence, Zenon
  <2>8. QED
    BY <2>7, Zenon DEF s, a
<1>6. WordsOf(code) = front
  <2>1. WordsOf(code) = SubSeq(letters, 1, n - 6)
    <3> HIDE DEF n
    <3>1. code.letters = letters
      BY NpubParts, Zenon DEF code
    <3>2. WordsOf(code) = SubSeq(code.letters, 1, Len(code.letters) - 6)
      BY Zenon DEF WordsOf
    <3>3. QED
      BY <1>3, <3>1, <3>2, Zenon
  <2>2. QED
    BY <1>4, <2>1, Zenon
<1>7. Len(Npub) = 4
  BY DEF Npub
<1>8. Len(Npub) > 0 /\ n >= 6 /\ Len(Npub) + 1 + n \in 8 .. Bech32MaxSize
  <2> DEFINE p == Len(Npub)
             m == Len(words)
  <2>1. p = 4 /\ m \in Nat /\ m <= 52
    BY <1>1, <1>7
  <2> HIDE DEF p, m
  <2>2. p > 0 /\ m + 6 >= 6 /\ p + 1 + (m + 6) \in 8 .. Bech32MaxSize
    BY <2>1 DEF Bech32MaxSize
  <2>3. QED
    BY <2>2, Zenon DEF p, m
<1>9. Readable(code, Bech32MaxSize) <=> ~foreign /\ sum = Checksum(Npub, front)
  <2> HIDE DEF n
  <2>1. Readable(code, Bech32MaxSize) <=>
           /\ Len(Npub) > 0 /\ Len(letters) >= 6
           /\ Len(Npub) + 1 + Len(letters) \in 8 .. Bech32MaxSize
           /\ \A i \in 1 .. Len(letters) : letters[i] # Foreign
           /\ SubSeq(letters, Len(letters) - 5, Len(letters))
                = Checksum(Npub, SubSeq(letters, 1, Len(letters) - 6))
    BY NpubReadable, Zenon DEF code
  <2>2. Len(letters) = n
    BY <1>3, Zenon
  <2>3. Readable(code, Bech32MaxSize) <=>
           /\ Len(Npub) > 0 /\ n >= 6
           /\ Len(Npub) + 1 + n \in 8 .. Bech32MaxSize
           /\ \A i \in 1 .. n : letters[i] # Foreign
           /\ SubSeq(letters, n - 5, n) = Checksum(Npub, SubSeq(letters, 1, n - 6))
    BY <2>1, <2>2, Zenon
  <2>4. SubSeq(letters, n - 5, n) = Checksum(Npub, SubSeq(letters, 1, n - 6)) <=>
          sum = Checksum(Npub, front)
    BY <1>4, <1>5, Zenon
  <2>5. (\A i \in 1 .. n : letters[i] # Foreign) <=> ~foreign
    BY Zenon
  <2> HIDE DEF foreign
  <2>6. QED
    BY <1>8, <2>3, <2>4, <2>5, Zenon
<1>10. ASSUME front \in Seq(0 .. 31), sum = Checksum(Npub, front)
              PROVE Decode(code) = FromWords(front)
  <2>1. ~foreign
    <3>1. \A i \in 1 .. n : i \in 1 .. Len(words) \/
          (i - Len(words) \in 1 .. 6 /\ Len(words) + (i - Len(words)) = i)
      BY <1>1
    <3>2. \A k \in 1 .. Len(words) : letters[k] \in 0 .. 31
      BY <1>3, <1>10, Elements, Zenon
    <3>3. \A k \in 1 .. 6 : letters[Len(words) + k] \in 0 .. 31
      <4>1. Npub \in Seq(Nat)
        BY DEF Npub
      <4>2. sum \in Seq(0 .. 31)
        BY <1>10, <4>1, ChecksumFacts, Zenon
      <4>3. \A k \in 1 .. Len(sum) : sum[k] \in 0 .. 31
        BY <4>2, Elements, Zenon
      <4>4. QED
        BY <1>3, <4>3, Zenon
    <3> HIDE DEF n
    <3>4. \A i \in 1 .. n : letters[i] \in 0 .. 31
      BY <3>1, <3>2, <3>3, Zenon
    <3>5. \A x \in 0 .. 31 : x # Foreign
      BY DEF Foreign
    <3>6. QED
      BY <3>4, <3>5, Zenon
  <2>2. front # Error
    <3> DEFINE T == 0 .. 31
    <3>1. T \subseteq Nat
      OBVIOUS
    <3>2. front \in Seq(T)
      BY <1>10, Zenon
    <3> HIDE DEF T
    <3>3. QED
      BY <3>1, <3>2, ErrorIsNoWords, Zenon
  <2> HIDE DEF foreign
  <2>3. QED
    BY <1>6, <1>9, <1>10, <2>1, <2>2, DecodeUnfolds, Zenon
<1>11. ASSUME NEW i \in 1 .. Len(words), front[i] = Foreign PROVE foreign
  <2>1. i \in 1 .. n
    BY <1>1
  <2> HIDE DEF n
  <2>2. QED
    BY <1>3, <1>11, <2>1, Zenon
<1>12. ASSUME NEW i \in 1 .. 6, sum[i] = Foreign PROVE foreign
  <2>1. Len(words) + i \in 1 .. n
    BY <1>1
  <2> HIDE DEF n
  <2>2. QED
    BY <1>3, <1>12, <2>1, Zenon
<1> HIDE DEF foreign
<1>13. foreign \/ sum # Checksum(Npub, front) => Decode(code) = Error
  BY <1>9, DecodeUnfolds, Zenon
<1>14. (\E i \in 1 .. Len(words) : front[i] = Foreign) \/ (\E i \in 1 .. 6 : sum[i] = Foreign) =>
       foreign
  BY <1>11, <1>12, Zenon
<1>15. /\ front \in Seq(0 .. 31) /\ sum = Checksum(Npub, front) => Decode(code) = FromWords(front)
       /\ sum # Checksum(Npub, front) => Decode(code) = Error
       /\ (\E i \in 1 .. Len(words) : front[i] = Foreign) => Decode(code) = Error
       /\ (\E i \in 1 .. 6 : sum[i] = Foreign) => Decode(code) = Error
  BY <1>10, <1>13, <1>14, Zenon
<1>16. QED
  BY <1>15, Zenon DEF code, letters

\* A sequence with one element replaced.
Put(s, i, v) == [s EXCEPT ![i] = v]

IsReplaced(t, s, i, v, T) ==
  /\ t \in Seq(T) /\ Len(t) = Len(s) /\ t[i] = v
  /\ \A k \in (1 .. Len(s)) \ {i} : t[k] = s[k]

LEMMA Replaced ==
  ASSUME NEW T, NEW s \in Seq(T), NEW i \in 1 .. Len(s), NEW v \in T
  PROVE  IsReplaced([s EXCEPT ![i] = v], s, i, v, T)
BY DEF IsReplaced

LEMMA ReplacedLeft ==
  ASSUME NEW T, NEW s \in Seq(T), NEW t \in Seq(T), NEW i \in 1 .. Len(s), NEW v \in T
  PROVE  Put(s \o t, i, v) = Put(s, i, v) \o t
<1> DEFINE a == [s \o t EXCEPT ![i] = v]
           r == [s EXCEPT ![i] = v]
           b == r \o t
<1>1. Len(s) \in Nat /\ Len(t) \in Nat
  OBVIOUS
<1>2. IsReplaced(r, s, i, v, T)
  BY Replaced, Zenon
<1>3. IsJoin(s \o t, s, t, T)
  BY Joined, Zenon
<1>4. r \in Seq(T)
  BY <1>2, Zenon DEF IsReplaced
<1>5. IsJoin(b, r, t, T)
  <2> HIDE DEF r
  <2>1. QED
    BY <1>4, Joined, Zenon
<1>6. i \in 1 .. Len(s \o t) /\ s \o t \in Seq(T)
  BY <1>1, <1>3 DEF IsJoin
<1>7. IsReplaced(a, s \o t, i, v, T)
  BY <1>6, Replaced, Zenon
<1> DEFINE j == s \o t
<1> HIDE DEF a, b, r, j
<1>8. /\ Len(a) = Len(s) + Len(t) /\ a \in Seq(T) /\ a[i] = v
      /\ \A k \in (1 .. Len(s) + Len(t)) \ {i} : a[k] = j[k]
  BY <1>3, <1>7, Zenon DEF IsReplaced, IsJoin, j
<1>9. /\ Len(b) = Len(s) + Len(t) /\ b \in Seq(T)
      /\ \A k \in 1 .. Len(s) : b[k] = r[k]
      /\ \A k \in 1 .. Len(t) : b[Len(s) + k] = t[k]
  BY <1>2, <1>5, Zenon DEF IsReplaced, IsJoin
<1>10. /\ \A k \in 1 .. Len(s) : j[k] = s[k]
       /\ \A k \in 1 .. Len(t) : j[Len(s) + k] = t[k]
  BY <1>3, Zenon DEF IsJoin, j
<1>11. \A k \in 1 .. Len(b) : a[k] = b[k]
  <2> SUFFICES ASSUME NEW k \in 1 .. Len(s) + Len(t) PROVE a[k] = b[k]
    BY <1>9, Zenon
  <2>1. CASE k = i
    BY <1>2, <1>8, <1>9, <2>1, Zenon DEF IsReplaced
  <2>2. CASE k # i /\ k \in 1 .. Len(s)
    BY <1>2, <1>8, <1>9, <1>10, <2>2, Zenon DEF IsReplaced
  <2>3. CASE k \notin 1 .. Len(s)
    <3> DEFINE p == k - Len(s)
    <3>1. p \in 1 .. Len(t) /\ k = Len(s) + p /\ k # i
      BY <1>1, <2>3
    <3> HIDE DEF p
    <3>2. b[Len(s) + p] = t[p] /\ j[Len(s) + p] = t[p] /\ a[k] = j[k]
      BY <1>8, <1>9, <1>10, <3>1, Zenon
    <3>3. QED
      BY <3>1, <3>2, Zenon
  <2>4. QED
    BY <2>1, <2>2, <2>3, Zenon
<1>12. a = b
  <2>1. Len(a) = Len(b)
    BY <1>8, <1>9, Zenon
  <2>2. QED
    BY <1>8, <1>9, <1>11, <2>1, SameSequence, Zenon
<1>13. QED
  BY <1>12, Zenon DEF a, b, r, Put

\* Place m of a joined sequence is place i of what follows s.
IsAfter(m, s, i) == m = Len(s) + i
PutsAfter(s, t, m, i, v) == Put(s \o t, m, v) = s \o Put(t, i, v)

LEMMA ReplacedRight ==
  ASSUME NEW T, NEW s \in Seq(T), NEW t \in Seq(T), NEW i \in 1 .. Len(t), NEW v \in T,
         NEW m, IsAfter(m, s, i)
  PROVE  PutsAfter(s, t, m, i, v)
<1> DEFINE a == [s \o t EXCEPT ![m] = v]
           r == [t EXCEPT ![i] = v]
           b == s \o r
<1>1. Len(s) \in Nat /\ Len(t) \in Nat /\ m = Len(s) + i
  BY DEF IsAfter
<1>2. IsReplaced(r, t, i, v, T)
  BY Replaced, Zenon
<1>3. IsJoin(s \o t, s, t, T)
  BY Joined, Zenon
<1>4. r \in Seq(T)
  BY <1>2, Zenon DEF IsReplaced
<1>5. IsJoin(b, s, r, T)
  <2> HIDE DEF r
  <2>1. QED
    BY <1>4, Joined, Zenon
<1>6. m \in 1 .. Len(s \o t) /\ s \o t \in Seq(T)
  BY <1>1, <1>3 DEF IsJoin
<1>7. IsReplaced(a, s \o t, m, v, T)
  BY <1>6, Replaced, Zenon
<1> DEFINE j == s \o t
<1> HIDE DEF a, b, r, j
<1>8. /\ Len(a) = Len(s) + Len(t) /\ a \in Seq(T) /\ a[m] = v
      /\ \A k \in (1 .. Len(s) + Len(t)) \ {m} : a[k] = j[k]
  BY <1>3, <1>7, Zenon DEF IsReplaced, IsJoin, j
<1>9. /\ Len(b) = Len(s) + Len(t) /\ b \in Seq(T)
      /\ \A k \in 1 .. Len(s) : b[k] = s[k]
      /\ \A k \in 1 .. Len(t) : b[Len(s) + k] = r[k]
  BY <1>2, <1>5, Zenon DEF IsReplaced, IsJoin
<1>10. /\ \A k \in 1 .. Len(s) : j[k] = s[k]
       /\ \A k \in 1 .. Len(t) : j[Len(s) + k] = t[k]
  BY <1>3, Zenon DEF IsJoin, j
<1>11. \A k \in 1 .. Len(b) : a[k] = b[k]
  <2> SUFFICES ASSUME NEW k \in 1 .. Len(s) + Len(t) PROVE a[k] = b[k]
    BY <1>9, Zenon
  <2>1. CASE k \in 1 .. Len(s)
    <3>1. k # m
      BY <1>1, <2>1
    <3>2. QED
      BY <1>8, <1>9, <1>10, <2>1, <3>1, Zenon
  <2>2. CASE k \notin 1 .. Len(s)
    <3> DEFINE p == k - Len(s)
    <3>1. p \in 1 .. Len(t) /\ k = Len(s) + p /\ (k # m <=> p # i)
      BY <1>1, <2>2
    <3> HIDE DEF p
    <3>2. b[Len(s) + p] = r[p] /\ j[Len(s) + p] = t[p]
      BY <1>9, <1>10, <3>1, Zenon
    <3>3. CASE p = i
      BY <1>2, <1>8, <3>1, <3>2, <3>3, Zenon DEF IsReplaced
    <3>4. CASE p # i
      <4>1. a[k] = j[k]
        BY <1>8, <3>1, <3>4, Zenon
      <4>2. r[p] = t[p]
        BY <1>2, <3>1, <3>4, Zenon DEF IsReplaced
      <4>3. QED
        BY <3>1, <3>2, <4>1, <4>2, Zenon
    <3>5. QED
      BY <3>3, <3>4, Zenon
  <2>3. QED
    BY <2>1, <2>2, Zenon
<1>12. a = b
  <2>1. Len(a) = Len(b)
    BY <1>8, <1>9, Zenon
  <2>2. QED
    BY <1>8, <1>9, <1>11, <2>1, SameSequence, Zenon
<1>13. QED
  BY <1>12, Zenon DEF a, b, r, Put, PutsAfter

LEMMA CodeOfKey ==
  ASSUME NEW bytes \in Seq(0 .. 255), Len(bytes) <= 32
  PROVE  LET words == ToWords(bytes)
         IN  /\ words \in Seq(0 .. 31) /\ Len(words) \in Nat /\ Len(words) <= 52
             /\ NpubEncode(bytes) = NpubCode(words \o Checksum(Npub, words))
<1> DEFINE words == ToWords(bytes)
<1>1. /\ words \in Seq(0 .. 31)
      /\ 5 * Len(words) <= 8 * Len(bytes) + 4
  BY ToWordsFacts, Zenon
<1> HIDE DEF words
<1>2. Len(words) \in Nat /\ Len(bytes) \in Nat
  BY <1>1
<1>3. Len(words) <= 52
  BY <1>1, <1>2
<1>4. ~(Len(Npub) + 7 + Len(words) > Bech32MaxSize)
  <2>1. Len(Npub) = 4
    BY DEF Npub
  <2> DEFINE p == Len(Npub)
             m == Len(words)
  <2>2. p = 4 /\ m \in Nat /\ m <= 52
    BY <1>2, <1>3, <2>1
  <2> HIDE DEF p, m
  <2>3. ~(p + 7 + m > Bech32MaxSize)
    BY <2>2 DEF Bech32MaxSize
  <2>4. QED
    BY <2>3, Zenon DEF p, m
<1>5. NpubEncode(bytes) = Encode(Npub, words, Bech32MaxSize)
  BY Zenon DEF NpubEncode, words
<1>6. Encode(Npub, words, Bech32MaxSize) = NpubCode(words \o Checksum(Npub, words))
  BY <1>4, Zenon DEF Encode, NpubCode
<1>7. QED
  BY <1>1, <1>2, <1>3, <1>5, <1>6, Zenon DEF words

\* What a code may be made of: at most 52 letters, and six of a checksum.
MakesCode(front, sum) ==
  front \in Seq(0 .. 32) /\ sum \in Seq(0 .. 32) /\ Len(front) <= 52 /\ Len(sum) = 6

LEMMA WrongSum ==
  ASSUME NEW front, NEW sum, MakesCode(front, sum), sum # Checksum(Npub, front)
  PROVE  Decode(NpubCode(front \o sum)) = Error
<1>1. /\ front \in Seq(0 .. 32) /\ sum \in Seq(0 .. 32)
      /\ Len(front) \in Nat /\ Len(front) <= 52 /\ Len(sum) = 6
  BY DEF MakesCode
<1>2. QED
  BY <1>1, DecodeFacts, Zenon

LEMMA ForeignWord ==
  ASSUME NEW front, NEW sum, MakesCode(front, sum),
         NEW i \in 1 .. Len(front), front[i] = Foreign
  PROVE  Decode(NpubCode(front \o sum)) = Error
<1>1. /\ front \in Seq(0 .. 32) /\ sum \in Seq(0 .. 32)
      /\ Len(front) \in Nat /\ Len(front) <= 52 /\ Len(sum) = 6
  BY DEF MakesCode
<1>2. \E k \in 1 .. Len(front) : front[k] = Foreign
  BY Zenon
<1>3. QED
  BY <1>1, <1>2, DecodeFacts, Zenon

LEMMA ChangedCode ==
  ASSUME NEW letters, NEW new
  PROVE  [NpubCode(letters) EXCEPT !.letters = new] = NpubCode(new)
<1> DEFINE p == Npub
           m == FALSE
<1>1. /\ NpubCode(letters) = [prefix |-> p, letters |-> letters, mixed |-> m]
      /\ NpubCode(new) = [prefix |-> p, letters |-> new, mixed |-> m]
  BY Zenon DEF NpubCode
<1> HIDE DEF p, m
<1>2. [[prefix |-> p, letters |-> letters, mixed |-> m] EXCEPT !.letters = new]
        = [prefix |-> p, letters |-> new, mixed |-> m]
  OBVIOUS
<1>3. QED
  BY <1>1, <1>2, Zenon

\* The code of a key reads back to it; with a letter changed it does not read.
LEMMA KeyIsNamed ==
  ASSUME NEW bytes \in Seq(0 .. 255), Len(bytes) <= 32
  PROVE  LinksNameTheirKey(bytes)
<1> DEFINE words == ToWords(bytes)
           sum == Checksum(Npub, words)
           letters == words \o sum
           code == NpubCode(letters)
<1>1. /\ words \in Seq(0 .. 31) /\ Len(words) \in Nat /\ Len(words) <= 52
      /\ NpubEncode(bytes) = code
  BY CodeOfKey, Zenon
<1>2. FromWords(words) = bytes
  BY WordsReadBack, Zenon
<1> HIDE DEF words
<1>3. Npub \in Seq(Nat)
  BY DEF Npub
<1>4. sum \in Seq(0 .. 31) /\ Len(sum) = 6
  BY <1>1, <1>3, ChecksumFacts, Zenon
<1>5. words \in Seq(0 .. 32) /\ sum \in Seq(0 .. 32)
  <2> DEFINE S == 0 .. 31
             T == 0 .. 32
  <2>1. S \subseteq T /\ words \in Seq(S) /\ sum \in Seq(S)
    BY <1>1, <1>4
  <2> HIDE DEF S, T
  <2>2. words \in Seq(T) /\ sum \in Seq(T)
    BY <2>1, Widened, Zenon
  <2>3. QED
    BY <2>2, Zenon DEF T
<1>6. IsJoin(letters, words, sum, 0 .. 32)
  BY <1>5, Joined, Zenon
<1>7. Decode(code) = bytes
  <2> HIDE DEF code, sum
  <2>1. Decode(NpubCode(words \o sum)) = FromWords(words)
    BY <1>1, <1>4, <1>5, DecodeFacts, Zenon DEF sum
  <2>2. QED
    BY <1>2, <2>1, Zenon DEF code
<1>8. bytes # Error
  <2> DEFINE T == 0 .. 255
  <2>1. T \subseteq Nat /\ bytes \in Seq(T)
    OBVIOUS
  <2> HIDE DEF T
  <2>2. QED
    BY <2>1, ErrorIsNoWords, Zenon
<1> HIDE DEF code, sum, letters
<1>9. ContactNostrUri([form |-> "key", bytes |-> bytes]) = code
  <2>1. [form |-> "key", bytes |-> bytes].form = "key" /\
        [form |-> "key", bytes |-> bytes].bytes = bytes
    OBVIOUS
  <2>2. "key" # "code"
    OBVIOUS
  <2>3. QED
    BY <1>1, <2>1, <2>2, Zenon DEF ContactNostrUri
<1>10. ContactNostrUri([form |-> "code", code |-> code]) = code
  <2>1. [form |-> "code", code |-> code].form = "code" /\
        [form |-> "code", code |-> code].code = code
    OBVIOUS
  <2>2. code.prefix = Npub
    BY NpubParts, Zenon DEF code
  <2>3. QED
    BY <1>7, <1>8, <2>1, <2>2, Zenon DEF ContactNostrUri
<1>11. ASSUME NEW i \in DOMAIN code.letters, NEW v \in (0 .. Foreign) \ {code.letters[i]}
       PROVE  Decode(Altered(code, i, v)) = Error
  <2> DEFINE changed == [letters EXCEPT ![i] = v]
  <2>1. Altered(code, i, v) = NpubCode(changed)
    <3>1. code = NpubCode(letters)
      BY Zenon DEF code
    <3>2. code.letters = letters
      BY NpubParts, Zenon DEF code
    <3> HIDE DEF changed
    <3>3. [code EXCEPT !.letters = changed] = NpubCode(changed)
      BY <3>1, ChangedCode, Zenon
    <3>4. Altered(code, i, v) = [code EXCEPT !.letters = changed]
      BY <3>2, Zenon DEF Altered, changed
    <3>5. QED
      BY <3>3, <3>4, Zenon
  <2>2. /\ letters \in Seq(0 .. 32) /\ Len(letters) = Len(words) + 6
        /\ \A k \in 1 .. Len(words) : letters[k] = words[k]
        /\ \A k \in 1 .. 6 : letters[Len(words) + k] = sum[k]
    BY <1>4, <1>6, Zenon DEF IsJoin
  <2>3. i \in 1 .. Len(words) + 6 /\ v \in 0 .. 32 /\ v # letters[i]
    <3>1. code.letters = letters
      BY NpubParts, Zenon DEF code
    <3>2. DOMAIN letters = 1 .. Len(words) + 6
      BY <2>2
    <3>3. Foreign = 32
      BY DEF Foreign
    <3>4. QED
      BY <1>11, <3>1, <3>2, <3>3, Zenon
  <2>4. i \in 1 .. Len(words) \/ i - Len(words) \in 1 .. 6
    BY <1>1, <2>3
  <2>5. CASE i \in 1 .. Len(words)
    <3> DEFINE front == [words EXCEPT ![i] = v]
    <3>1. /\ front \in Seq(0 .. 32) /\ Len(front) = Len(words) /\ front[i] = v
          /\ \A k \in (1 .. Len(words)) \ {i} : front[k] = words[k]
      <4>1. IsReplaced(front, words, i, v, 0 .. 32)
        BY <1>5, <2>3, <2>5, Replaced, Zenon
      <4> HIDE DEF front
      <4>2. QED
        BY <4>1, Zenon DEF IsReplaced
    <3>2. changed = front \o sum
      <4>1. v \in 0 .. 32
        BY <2>3, Zenon
      <4>2. Put(words \o sum, i, v) = Put(words, i, v) \o sum
        <5> DEFINE T == 0 .. 32
        <5>1. words \in Seq(T) /\ sum \in Seq(T) /\ v \in T
          BY <1>5, <4>1, Zenon
        <5> HIDE DEF T
        <5>2. QED
          BY <2>5, <5>1, ReplacedLeft, Zenon
      <4>3. QED
        BY <4>2, Zenon DEF letters, Put
    <3> HIDE DEF front
    <3>3. front[i] # words[i]
      BY <2>2, <2>3, <2>5, <3>1, Zenon
    <3>4. CASE v = Foreign
      <4>1. MakesCode(front, sum) /\ i \in 1 .. Len(front) /\ front[i] = Foreign
        BY <1>1, <1>4, <1>5, <2>5, <3>1, <3>4 DEF MakesCode
      <4>2. Decode(NpubCode(front \o sum)) = Error
        BY <4>1, ForeignWord, Zenon
      <4>3. QED
        BY <2>1, <3>2, <4>2, Zenon
    <3>5. CASE v # Foreign
      <4>1. front \in Seq(0 .. 31)
        <5>1. v \in 0 .. 31
          BY <2>3, <3>5 DEF Foreign
        <5>2. QED
          BY <1>1, <2>5, <5>1, Replaced, Zenon DEF IsReplaced, front
      <4>2. Checksum(Npub, front) # sum
        BY <1>1, <1>3, <2>5, <3>1, <3>3, <4>1, ChecksumShows, Zenon DEF sum
      <4>3. Decode(NpubCode(front \o sum)) = Error
        <5>1. MakesCode(front, sum)
          BY <1>1, <1>4, <1>5, <3>1 DEF MakesCode
        <5>2. QED
          BY <4>2, <5>1, WrongSum, Zenon
      <4>4. QED
        BY <2>1, <3>2, <4>3, Zenon
    <3>6. QED
      BY <3>4, <3>5, Zenon
  <2>6. CASE i - Len(words) \in 1 .. 6
    <3> DEFINE j == i - Len(words)
               other == [sum EXCEPT ![j] = v]
    <3>1. j \in 1 .. Len(sum) /\ i = Len(words) + j
      BY <1>1, <1>4, <2>3, <2>6
    <3> HIDE DEF j
    <3>2. /\ other \in Seq(0 .. 32) /\ Len(other) = 6 /\ other[j] = v
      <4>1. IsReplaced(other, sum, j, v, 0 .. 32)
        BY <1>5, <2>3, <3>1, Replaced, Zenon
      <4> HIDE DEF other
      <4>2. QED
        BY <1>4, <4>1, Zenon DEF IsReplaced
    <3>3. changed = words \o other
      <4>1. v \in 0 .. 32
        BY <2>3, Zenon
      <4>2. Put(words \o sum, i, v) = words \o Put(sum, j, v)
        <5> DEFINE T == 0 .. 32
        <5>1. words \in Seq(T) /\ sum \in Seq(T) /\ v \in T
          BY <1>5, <4>1, Zenon
        <5> HIDE DEF T
        <5>2. words \in Seq(T) /\ sum \in Seq(T) /\ v \in T /\ j \in 1 .. Len(sum)
          BY <3>1, <5>1, Zenon
        <5>3. IsAfter(i, words, j)
          BY <3>1, Zenon DEF IsAfter
        <5>4. PutsAfter(words, sum, i, j, v)
          BY <5>2, <5>3, ReplacedRight, Zenon
        <5>5. QED
          BY <5>4, Zenon DEF PutsAfter
      <4>3. QED
        BY <4>2, Zenon DEF letters, Put
    <3> HIDE DEF other
    <3>4. other # sum
      <4>1. letters[Len(words) + j] = sum[j]
        BY <1>4, <2>2, <3>1, Zenon
      <4>2. QED
        BY <2>3, <3>1, <3>2, <4>1, Zenon
    <3>5. Decode(NpubCode(words \o other)) = Error
      <4>1. MakesCode(words, other)
        BY <1>1, <1>5, <3>2 DEF MakesCode
      <4>2. other # Checksum(Npub, words)
        BY <3>4, Zenon DEF sum
      <4>3. QED
        BY <4>1, <4>2, WrongSum, Zenon
    <3>6. QED
      BY <2>1, <3>3, <3>5, Zenon
  <2>7. QED
    BY <2>4, <2>5, <2>6, Zenon
<1>12. QED
  BY <1>7, <1>9, <1>10, <1>11, Zenon DEF LinksNameTheirKey

\* Of the words that read as bytes only one text is accepted.
LEMMA OneCode ==
  ASSUME NEW words \in Seq(0 .. 31)
  PROVE  OneCodePerKey(words)
BY OneReading, Zenon DEF OneCodePerKey

-----------------------------------------------------------------------------
(* Hexadecimal text, two characters at a time.                             *)

LEMMA DigitFacts ==
  ASSUME NEW c \in Hex!Char
  PROVE  /\ c \in Hex!Digits => Hex!DigitValue(c) \in 0 .. 15
         /\ c \in Hex!Digits /\ Hex!DigitValue(c) = 0 => c = 0
         /\ c = 0 => c \in Hex!Digits /\ Hex!DigitValue(c) = 0
         /\ c \in {Hex!Plus, Hex!Minus, Hex!Space, Hex!Cross} => c \notin Hex!Digits
<1>1. c \in 0 .. 31 /\ (c \in Hex!Digits <=> c \in 0 .. 15 \/ c \in 26 .. 31)
  BY DEF Hex!Char, Hex!Digits
<1> DEFINE v == c % 16
<1>2. (c \in 0 .. 15 => v = c) /\ (c \in 26 .. 31 => v = c - 16)
  BY <1>1
<1>3. Hex!DigitValue(c) = v
  BY Zenon DEF Hex!DigitValue
<1> HIDE DEF v
<1>4. QED
  BY <1>1, <1>2, <1>3 DEF Hex!Plus, Hex!Minus, Hex!Space, Hex!Cross

\* What two characters stand for.
LEMMA PairFacts ==
  ASSUME NEW c \in Hex!Char, NEW d \in Hex!Char
  PROVE  LET byte == Hex!ParseInt(c, d)
             strict == c \in Hex!Digits /\ d \in Hex!Digits
         IN  /\ byte \in Int
             /\ ~(byte = Hex!NaN \/ byte < 0) <=> strict \/ Hex!Lenient(c, d)
             /\ byte <= 255
             /\ strict => byte = 16 * Hex!DigitValue(c) + Hex!DigitValue(d)
<1> DEFINE x == Hex!DigitValue(c)
           y == Hex!DigitValue(d)
           C == c \in Hex!Digits
           D == d \in Hex!Digits
           byte == Hex!ParseInt(c, d)
           zero == c = 0
           cross == d = Hex!Cross
           plus == c \in {Hex!Plus, Hex!Space}
           minus == c = Hex!Minus
<1>1. /\ C => x \in 0 .. 15
      /\ zero => C
      /\ plus => ~C
      /\ minus => ~C
  BY DigitFacts, Zenon
<1>2. /\ D => y \in 0 .. 15
      /\ D /\ y = 0 => d = 0
      /\ d = 0 => D /\ y = 0
      /\ cross => ~D
  BY DigitFacts, Zenon
<1>3. ~(plus /\ minus)
  BY DEF Hex!Plus, Hex!Space, Hex!Minus
<1>4. byte = IF zero /\ cross THEN Hex!NaN
             ELSE IF C THEN IF D THEN 16 * x + y ELSE x
             ELSE IF ~D THEN Hex!NaN
             ELSE IF plus THEN y
             ELSE IF minus THEN -y ELSE Hex!NaN
  BY Zenon DEF Hex!ParseInt
<1>5. Hex!Lenient(c, d) <=> \/ C /\ ~D /\ ~(zero /\ cross)
                            \/ plus /\ D
                            \/ minus /\ d = 0
  BY Zenon DEF Hex!Lenient
<1>6. Hex!NaN = -1000
  BY DEF Hex!NaN
<1> DEFINE lenient == Hex!Lenient(c, d)
           d0 == d = 0
<1> HIDE DEF x, y, C, D, zero, cross, plus, minus, lenient, byte, d0
<1>7. /\ C => x \in 0 .. 15
      /\ D => y \in 0 .. 15
      /\ D /\ y = 0 => d0
      /\ d0 => D /\ y = 0
  BY <1>1, <1>2, Zenon DEF d0
<1>8. lenient <=> (C /\ ~D /\ ~(zero /\ cross)) \/ (plus /\ D) \/ (minus /\ d0)
  BY <1>5, Zenon DEF lenient, d0
<1>9. byte \in Int /\ (~(byte = -1000 \/ byte < 0) <=> (C /\ D) \/ lenient)
      /\ byte <= 255 /\ (C /\ D => byte = 16 * x + y)
  <2>1. CASE zero /\ cross
    BY <1>1, <1>2, <1>3, <1>4, <1>6, <1>7, <1>8, <2>1
  <2>2. CASE ~(zero /\ cross) /\ C
    BY <1>1, <1>2, <1>3, <1>4, <1>6, <1>7, <1>8, <2>2
  <2>3. CASE ~C
    BY <1>1, <1>2, <1>3, <1>4, <1>6, <1>7, <1>8, <2>3
  <2>4. QED
    BY <2>1, <2>2, <2>3
<1>10. QED
  BY <1>6, <1>9, Zenon DEF x, y, C, D, lenient, byte

LEMMA Halved ==
  ASSUME NEW n \in Nat, n % 2 # 1, NEW k \in 1 .. n
  PROVE  /\ (k + 1) \div 2 \in 1 .. n \div 2
         /\ k % 2 = 1 => k = 2 * ((k + 1) \div 2) - 1
         /\ ~(k % 2 = 1) => k = 2 * ((k + 1) \div 2)
OBVIOUS

LEMMA HexFacts ==
  ASSUME NEW hex \in Seq(Hex!Char)
  PROVE  Hex!HexIsSound(hex)
<1> DEFINE n == Len(hex) \div 2
           byte(i) == Hex!ParseInt(hex[2 * i - 1], hex[2 * i])
           strict(i) == hex[2 * i - 1] \in Hex!Digits /\ hex[2 * i] \in Hex!Digits
           lenient(i) == Hex!Lenient(hex[2 * i - 1], hex[2 * i])
           bytes == Hex!HexToBytes(hex)
           list == [i \in 1 .. n |-> byte(i)]
           bad(i) == byte(i) = Hex!NaN \/ byte(i) < 0
           odd == Len(hex) % 2 = 1
<1>1. /\ Len(hex) \in Nat /\ n \in Nat /\ (odd \/ Len(hex) % 2 = 0)
      /\ (~odd => Len(hex) = 2 * n) /\ ~(odd /\ Len(hex) % 2 = 0)
      /\ \A i \in 1 .. n : 2 * i - 1 \in 1 .. Len(hex) /\ 2 * i \in 1 .. Len(hex)
  OBVIOUS
<1>2. \A k \in 1 .. Len(hex) : hex[k] \in Hex!Char
  OBVIOUS
<1>3. ASSUME NEW i \in 1 .. n
      PROVE  /\ byte(i) \in Int /\ (~bad(i) <=> strict(i) \/ lenient(i)) /\ byte(i) <= 255
             /\ strict(i) => byte(i) = 16 * Hex!DigitValue(hex[2 * i - 1]) +
                Hex!DigitValue(hex[2 * i])
  <2> DEFINE c == hex[2 * i - 1]
             d == hex[2 * i]
  <2>1. c \in Hex!Char /\ d \in Hex!Char
    BY <1>1, <1>2
  <2> HIDE DEF c, d
  <2>2. /\ Hex!ParseInt(c, d) \in Int
        /\ ~(Hex!ParseInt(c, d) = Hex!NaN \/ Hex!ParseInt(c, d) < 0) <=>
             (c \in Hex!Digits /\ d \in Hex!Digits) \/ Hex!Lenient(c, d)
        /\ Hex!ParseInt(c, d) <= 255
        /\ c \in Hex!Digits /\ d \in Hex!Digits
             => Hex!ParseInt(c, d) = 16 * Hex!DigitValue(c) + Hex!DigitValue(d)
    BY <2>1, PairFacts, Zenon
  <2>3. QED
    BY <2>2, Zenon DEF c, d
<1>4. bytes = IF odd \/ \E i \in 1 .. n : bad(i) THEN Hex!BadHex ELSE list
  BY Zenon DEF Hex!HexToBytes
<1>5. ASSUME ~odd, \A i \in 1 .. n : ~bad(i)
      PROVE  /\ list # Hex!BadHex /\ Len(list) = n /\ list \in Seq(0 .. 255)
             /\ \A i \in 1 .. n : list[i] = byte(i)
  <2>1. \A i \in 1 .. n : byte(i) \in 0 .. 255
    <3> SUFFICES ASSUME NEW i \in 1 .. n PROVE byte(i) \in 0 .. 255
      OBVIOUS
    <3> DEFINE x == byte(i)
    <3>1. x \in Int /\ x <= 255
      BY <1>3, Zenon
    <3>2. ~(x < 0)
      BY <1>5, Zenon
    <3> HIDE DEF x
    <3>3. x \in 0 .. 255
      BY <3>1, <3>2
    <3>4. QED
      BY <3>3, Zenon DEF x
  <2> HIDE DEF byte, n
  <2>2. /\ list \in Seq(0 .. 255) /\ Len(list) = n
        /\ \A i \in 1 .. n : list[i] = byte(i)
    BY <1>1, <2>1
  <2> HIDE DEF list
  <2>3. list # Hex!BadHex
    <3>1. SUFFICES ASSUME list = Hex!BadHex PROVE FALSE
      OBVIOUS
    <3>2. n = 1 /\ list[1] = -1
      BY <2>2, <3>1 DEF Hex!BadHex
    <3>3. 1 \in 1 .. n
      BY <3>2
    <3>4. list[1] \in 0 .. 255
      BY <2>1, <2>2, <3>3, Zenon
    <3>5. QED
      BY <3>2, <3>4
  <2>4. QED
    BY <2>2, <2>3
<1>6. Hex!Lower(hex) = [k \in 1 .. Len(hex) |-> Hex!DigitValue(hex[k])]
  <2>1. DOMAIN hex = 1 .. Len(hex)
    OBVIOUS
  <2>2. QED
    BY <2>1, Zenon DEF Hex!Lower
<1>7. ASSUME ~odd, \A i \in 1 .. n : ~bad(i), \A i \in 1 .. n : strict(i)
      PROVE  Hex!BytesToHex(list) = Hex!Lower(hex)
  <2> DEFINE text(k) == LET b == list[(k + 1) \div 2] IN IF k % 2 = 1 THEN b \div 16 ELSE b % 16
  <2>1. Hex!BytesToHex(list) = [k \in 1 .. 2 * Len(list) |-> text(k)]
    BY Zenon DEF Hex!BytesToHex
  <2>2. 2 * Len(list) = Len(hex)
    BY <1>1, <1>5, <1>7
  <2>3. ASSUME NEW k \in 1 .. Len(hex) PROVE text(k) = Hex!DigitValue(hex[k])
    <3> DEFINE i == (k + 1) \div 2
               x == Hex!DigitValue(hex[2 * i - 1])
               y == Hex!DigitValue(hex[2 * i])
               b == list[i]
               first == k % 2 = 1
    <3>1. i \in 1 .. n /\ (first => k = 2 * i - 1) /\ (~first => k = 2 * i)
      <4>1. Len(hex) \in Nat /\ Len(hex) % 2 # 1
        BY <1>1, <1>7, Zenon
      <4>2. QED
        BY <4>1, Halved
    <3>2. text(k) = IF first THEN b \div 16 ELSE b % 16
      BY Zenon
    <3> HIDE DEF list, byte, n, text, i, first
    <3>3. b = 16 * x + y
      BY <1>3, <1>5, <1>7, <3>1
    <3>4. x \in 0 .. 15 /\ y \in 0 .. 15
      <4>1. strict(i) /\ 2 * i - 1 \in 1 .. Len(hex) /\ 2 * i \in 1 .. Len(hex)
        BY <1>1, <1>7, <3>1, Zenon
      <4>2. QED
        BY <1>2, <4>1, DigitFacts, Zenon
    <3>5. Hex!DigitValue(hex[k]) = IF first THEN x ELSE y
      BY <3>1, Zenon
    <3> HIDE DEF x, y, b
    <3>6. b \div 16 = x /\ b % 16 = y
      BY <3>3, <3>4
    <3>7. CASE first
      <4>1. text(k) = b \div 16 /\ Hex!DigitValue(hex[k]) = x
        BY <3>2, <3>5, <3>7, Zenon
      <4>2. QED
        BY <3>6, <4>1
    <3>8. CASE ~first
      <4>1. text(k) = b % 16 /\ Hex!DigitValue(hex[k]) = y
        BY <3>2, <3>5, <3>8, Zenon
      <4>2. QED
        BY <3>6, <4>1
    <3>9. QED
      BY <3>7, <3>8, Zenon
  <2> HIDE DEF text, list
  <2>4. QED
    BY <1>6, <2>1, <2>2, <2>3, Zenon
<1>8. bytes # Hex!BadHex <=> Len(hex) % 2 = 0 /\ \A i \in 1 .. n : strict(i) \/ lenient(i)
  <2>1. (\A i \in 1 .. n : strict(i) \/ lenient(i)) <=> ~ \E i \in 1 .. n : bad(i)
    <3> HIDE DEF strict, lenient, bad, byte, n
    <3>1. QED
      BY <1>3, Zenon
  <2>2. Len(hex) % 2 = 0 <=> ~odd
    BY <1>1, Zenon
  <2> HIDE DEF odd, bytes, strict, lenient, bad, list, byte, n
  <2>3. QED
    BY <1>4, <1>5, <2>1, <2>2, Zenon
<1>9. ASSUME bytes # Hex!BadHex
      PROVE  bytes = list /\ ~odd /\ \A i \in 1 .. n : ~bad(i)
  <2> HIDE DEF odd, bytes, bad, list, byte, n
  <2>1. QED
    BY <1>4, <1>9, Zenon
<1>10. bytes # Hex!BadHex => \A i \in 1 .. n : bytes[i] \in 0 .. 255
  <2> SUFFICES ASSUME bytes # Hex!BadHex, NEW i \in 1 .. n PROVE bytes[i] \in 0 .. 255
    BY Zenon
  <2> HIDE DEF odd, bytes, bad, list, byte, n
  <2>1. bytes = list /\ list \in Seq(0 .. 255) /\ Len(list) = n
    BY <1>5, <1>9, Zenon
  <2>2. QED
    BY <2>1, Elements, Zenon
<1>11. bytes # Hex!BadHex /\ (\A i \in 1 .. n : strict(i)) =>
       Hex!BytesToHex(bytes) = Hex!Lower(hex)
  <2> HIDE DEF odd, bytes, bad, list, byte, n, strict
  <2>1. QED
    BY <1>7, <1>9, Zenon
<1>12. Hex!EnsureBytes([form |-> "hex", data |-> hex], 1) # Hex!BadHex =>
       bytes # Hex!BadHex /\ Len(hex) = 2
  <2> SUFFICES ASSUME Hex!EnsureBytes([form |-> "hex", data |-> hex], 1) # Hex!BadHex
               PROVE  bytes # Hex!BadHex /\ Len(hex) = 2
    BY Zenon
  <2>1. [form |-> "hex", data |-> hex].form = "hex" /\ [form |-> "hex", data |-> hex].data = hex
    OBVIOUS
  <2>2. "hex" \in {"hex", "bytes"}
    OBVIOUS
  <2>3. Hex!EnsureBytes([form |-> "hex", data |-> hex], 1) =
        IF Len(bytes) # 1 THEN Hex!BadHex ELSE bytes
    <3> HIDE DEF bytes
    <3>1. Hex!HexToBytes(hex) = bytes
      BY Zenon DEF bytes
    <3>2. QED
      BY <2>1, <2>2, <3>1, Zenon DEF Hex!EnsureBytes
  <2> HIDE DEF bytes, odd, bad, list, byte
  <2>4. bytes # Hex!BadHex /\ Len(bytes) = 1
    BY <2>3, Zenon
  <2>5. Len(bytes) = n /\ ~odd
    <3> HIDE DEF n
    <3>1. QED
      BY <1>5, <1>9, <2>4, Zenon
  <2>6. n = 1 /\ Len(hex) = 2 * n
    BY <1>1, <2>4, <2>5, Zenon
  <2> HIDE DEF n
  <2>7. QED
    BY <2>4, <2>6
<1>13. QED
  <2> HIDE DEF bytes, odd, bad, list, byte, strict, lenient
  <2>1. QED
    BY <1>8, <1>10, <1>11, <1>12, Zenon DEF Hex!HexIsSound, bytes, strict, lenient

-----------------------------------------------------------------------------
(* The rules as they are asked.                                            *)

\* Every input is one of those that are assumed to be well formed.
LEMMA ListingInvariant ==
    ListingSpec => [](/\ rule = "prices" => input \in PriceLists
                      /\ rule = "announcement" => input \in Events
                      /\ rule = "rows" => input \in [operators : Found, name : Typed,
                                                     by : {"alpha", "price", "users"},
                                                     length : Lengths]
                      /\ rule = "queue" => input \in Operations
                      /\ rule = "answers" => input \in Deliveries
                      /\ rule = "key" => input \in Keys
                      /\ rule = "words" => input \in Words
                      /\ rule = "hex" => input \in HexTexts)
<1> DEFINE Asked == /\ rule = "prices" => input \in PriceLists
                    /\ rule = "announcement" => input \in Events
                    /\ rule = "rows" => input \in [operators : Found, name : Typed,
                                                   by : {"alpha", "price", "users"},
                                                   length : Lengths]
                    /\ rule = "queue" => input \in Operations
                    /\ rule = "answers" => input \in Deliveries
                    /\ rule = "key" => input \in Keys
                    /\ rule = "words" => input \in Words
                    /\ rule = "hex" => input \in HexTexts
<1>1. ListingInit => Asked
  BY DEF ListingInit
<1>2. Asked /\ [ListingNext]_ruleVars => Asked'
  BY DEF ListingNext, PriceNames, JudgeAnnouncement, BrowseRows, QueueMessages, CountRecords,
         WriteKey, ReadWords, ReadHex, Ask, ruleVars
<1>3. QED
  BY <1>1, <1>2, PTL DEF ListingSpec

\* On every price list the page names the price the service quotes, and sums it up in
\* one text for each length (pricing.js, payment.rs).
THEOREM PricesAreAlwaysTold == ListingSpec => []PricesAreTold
<1>1. (rule = "prices" => input \in PriceLists) => PricesAreTold
  BY PriceListsAssumption, ServiceAndMarketplaceAgree, SummaryTellsEveryPrice DEF PricesAreTold
<1>2. QED
  BY <1>1, ListingInvariant, PTL

\* Page and service accept the same announcements, but for the differences that are
\* named, and no bad entry of an optional list changes what the page takes from it
\* (announcement.js, discovery.rs).
THEOREM AnnouncementsStayJudgedAlike == ListingSpec => []AnnouncementsAreJudgedAlike
<1>1. (rule = "announcement" => input \in Events) => AnnouncementsAreJudgedAlike
  BY AnnouncementsAssumption, ValidatorsAlwaysAgree, BadEntriesAreAlwaysDropped
     DEF AnnouncementsAreJudgedAlike
<1>2. QED
  BY <1>1, ListingInvariant, PTL

\* The list shows what the operators' data say, whatever they are, and the number of
\* users it shows is that of the records the relays sent, in whatever order and however
\* often (browse.js, render.js, counts.js, Queue of the bundle).
THEOREM RowsStayTrue == ListingSpec => []RowsAreTrue
<1>1. (rule = "queue" => input \in Operations)
        => (rule = "queue" => Queue!QueueIsFifo(input))
  BY MessagesAssumption, QueueIsAlwaysFifo
<1>2. (rule = "answers" => input \in Deliveries)
        => (rule = "answers" => Checks!RecordsAreCounted(input, {"p", "q"}, {"p", "q", "s"}))
  BY MessagesAssumption, RecordsAreAlwaysCounted
<1>3. ASSUME NEW i \in [operators : Found, name : Typed,
                        by : {"alpha", "price", "users"}, length : Lengths]
      PROVE  LET list == BuildRows(i.operators)
             IN  /\ BadgesEnd(i.operators)
                 /\ FilterMatchesChips(list, i.name)
                 /\ SortIsSound(list, i.by, i.length)
  <2>1. PICK n \in Nat : /\ DOMAIN i.operators = 1 .. n
                         /\ \A k \in 1 .. n : IsOperator(i.operators[k])
    <3> DEFINE T == {i.operators[k] : k \in DOMAIN i.operators}
    <3>1. i.operators \in Seq(T) /\ \A k \in DOMAIN i.operators : IsOperator(i.operators[k])
      BY RowsAssumption
    <3> HIDE DEF T
    <3>2. Len(i.operators) \in Nat /\ DOMAIN i.operators = 1 .. Len(i.operators)
      BY <3>1
    <3>3. QED
      BY <3>1, <3>2
  <2>2. IsRowList(BuildRows(i.operators))
    BY <2>1, RowsAreRows
  <2>3. i.name.length \in Nat /\ i.by \in {"alpha", "price", "users"} /\ i.length \in Nat
    BY RowsAssumption
  <2>4. QED
    BY <2>1, <2>2, <2>3, BadgesAlwaysEnd, FilterAlwaysMatchesChips, SortIsAlwaysSound
<1>4. (rule = "rows" => input \in [operators : Found, name : Typed,
                                   by : {"alpha", "price", "users"}, length : Lengths])
        => (rule = "rows" => LET list == BuildRows(input.operators)
                             IN  /\ BadgesEnd(input.operators)
                                 /\ FilterMatchesChips(list, input.name)
                                 /\ SortIsSound(list, input.by, input.length))
  BY <1>3, Zenon
<1>5. QED
  BY <1>1, <1>2, <1>4, ListingInvariant, PTL DEF RowsAreTrue

\* Whatever the key, its link reads back to it and no link with a changed letter reads at
\* all; no two codes read as one key; and hexadecimal text stands for its digits, anything
\* else being refused but where parseInt is lenient (nip19 and hexToBytes of the bundle).
THEOREM CodesAlwaysNameKeys == ListingSpec => []CodesNameKeys
<1>1. (rule = "key" => input \in Keys) => (rule = "key" => LinksNameTheirKey(input))
  <2>1. ASSUME NEW bytes \in Keys PROVE LinksNameTheirKey(bytes)
    <3>1. bytes \in Seq(0 .. 255) /\ Len(bytes) <= 32
      BY KeysAssumption
    <3>2. QED
      BY <3>1, KeyIsNamed, Zenon
  <2>2. QED
    BY <2>1, Zenon
<1>2. (rule = "words" => input \in Words) => (rule = "words" => OneCodePerKey(input))
  <2>1. ASSUME NEW words \in Words PROVE OneCodePerKey(words)
    <3>1. words \in Seq(0 .. 31)
      BY KeysAssumption
    <3>2. QED
      BY <3>1, OneCode, Zenon
  <2>2. QED
    BY <2>1, Zenon
<1>3. (rule = "hex" => input \in HexTexts) => (rule = "hex" => Hex!HexIsSound(input))
  <2>1. ASSUME NEW hex \in HexTexts PROVE Hex!HexIsSound(hex)
    <3>1. hex \in Seq(Hex!Char)
      BY KeysAssumption
    <3>2. QED
      BY <3>1, HexFacts, Zenon
  <2>2. QED
    BY <2>1, Zenon
<1>4. QED
  BY <1>1, <1>2, <1>3, ListingInvariant, PTL DEF CodesNameKeys

-----------------------------------------------------------------------------
(* Discovery. *)

\* A relay counts as settled because its query of this discovery has been answered
\* or because an earlier discovery's has failed or been closed by now.
SettledIsAnswered ==
    \A r \in settled : \/ phase[r] \in {"live", "closed"}
                       \/ <<"announcements", r>> \in overheard

\* An earlier discovery has answered a fetch since this one started.
CountsOverheard == \E r \in Relays : <<"counts", r>> \in overheard

\* The fetches of this discovery.
Current == {f \in fetches : f.run = run}

\* An operator is in one batch of this discovery at most: what was fetched for it is
\* no longer queued and in no other fetch.
BatchesApart ==
    /\ \A f \in fetches : f.run <= run
    /\ \A f \in Current : f.batch \subseteq counted /\ f.batch \cap queued = {}
    /\ \A f, g \in Current : f # g => f.batch \cap g.batch = {}

\* What an entry shows is no more than the fetch under way for its operator has
\* seen, and nothing where there was no fetch yet.
CountsBehind ==
    CountsOverheard \/
    /\ \A c \in Coords : Author[c] \notin counted \ queued => countOf[c] = Uncounted
    /\ \A c \in Coords : \A f \in Current :
          Author[c] \in f.batch =>
             /\ countOf[c].n <= Snapshot(f, Author[c]).n
             /\ (countOf[c].approx => f.approx)

CountsInv == CountsAreReal /\ BatchesApart /\ CountsBehind

DiscoveryInv ==
    /\ TypeOK
    /\ NewestIsKept
    /\ ChangesAreRendered
    /\ SettledIsAnswered /\ GreenIsLive
    /\ CountsInv

LEMMA AnnFacts ==
    ASSUME NEW a \in Anns
    PROVE  /\ a \in Nat /\ a # None /\ CreatedAt[a] \in Nat
           /\ Coord[a] \in Coords /\ Author[Coord[a]] \in Authors
           /\ Announces[a] \in SUBSET Domains
  BY EventsAssumption

\* `compare' of the marketplace orders announcements strictly and totally.
LEMMA NewerOrder ==
    ASSUME NEW a \in Anns, NEW b \in Anns, NEW c \in Anns
    PROVE  /\ ~Newer(a, a)
           /\ ~(Newer(a, b) /\ Newer(b, a))
           /\ Newer(a, b) /\ Newer(b, c) => Newer(a, c)
           /\ a # b => Newer(a, b) \/ Newer(b, a)
  BY AnnFacts DEF Newer

LEMMA InitTypeOK == Init => TypeOK
<1> SUFFICES ASSUME Init PROVE TypeOK
  OBVIOUS
<1>1. chosen \in (SUBSET Relays) \ {{}}
  BY RelaysAssumption DEF Init
<1>2. run \in 1 .. MaxRuns
  BY RunsAssumption DEF Init
<1>3. Cardinality(AllBackups) \in Nat
  BY CountsAssumption, FS_CardinalityType
<1>4. Uncounted \in Count
  BY <1>3 DEF Uncounted, Count
<1>5. QED
  BY <1>1, <1>2, <1>4 DEF Init, TypeOK

LEMMA OnEventType ==
    ASSUME TypeOK, NEW r \in Relays, NEW a \in Anns, OnEvent(r, a)
    PROVE  TypeOK'
<1>1. /\ heard' \in [Relays -> SUBSET Anns]
      /\ phase' = phase
  BY DEF OnEvent, TypeOK, Query!Give, Query!Repeat
<1>2. Cardinality(AllBackups) \in Nat
  BY CountsAssumption, FS_CardinalityType
<1>3. Uncounted \in Count
  BY <1>2 DEF Uncounted, Count
<1>4. operators' \in [Coords -> Anns \cup {None}] /\ countOf' \in [Coords -> Count]
  BY <1>3 DEF OnEvent, TypeOK
<1>5. status' \in [Authors \X Domains
                   -> {"absent", "checking", "verified", "mismatch", "unreachable"}]
  BY DEF OnEvent, TypeOK, SeedStatuses, statusVars
<1>6. checks' \subseteq Check
  BY AnnFacts DEF OnEvent, TypeOK, StartChecks, Check, statusVars
<1>7. counted' \subseteq Authors /\ queued' \subseteq counted' /\ countTimer' \in BOOLEAN
      /\ fetches' = fetches
  <2>1. QueueForCount(a) /\ Author[Coord[a]] \in Authors
    BY AnnFacts DEF OnEvent
  <2>2. CASE a \in Valid /\ a \notin SelfCounted /\ Author[Coord[a]] \notin counted
    BY <2>1, <2>2 DEF TypeOK, QueueForCount
  <2>3. CASE ~(a \in Valid /\ a \notin SelfCounted /\ Author[Coord[a]] \notin counted)
    BY <2>1, <2>3 DEF TypeOK, QueueForCount, countVars
  <2>4. QED
    BY <2>2, <2>3
<1>8. renderTimer' \in BOOLEAN /\ dirty' \in BOOLEAN
  BY DEF OnEvent, TypeOK, ScheduleRender
<1>9. QED
  BY <1>1, <1>4, <1>5, <1>6, <1>7, <1>8 DEF OnEvent, TypeOK, relayVars

LEMMA SettlesType ==
    ASSUME TypeOK, NEW r \in Relays, OnEose(r) \/ OnClose(r) \/ EndedUntold(r)
    PROVE  TypeOK'
<1> USE DEF OnEose, OnClose, EndedUntold
<1>1. /\ phase' \in [Relays -> {"idle", "asked", "live", "closed"}]
      /\ heard' = heard
  BY DEF TypeOK, Query!EndOfStored, Query!End
<1>2. renderTimer' \in BOOLEAN /\ dirty' \in BOOLEAN
  BY DEF TypeOK, ScheduleRender, NoRender
<1>3. /\ chip' \in [Relays -> {"none", "checking", "connected", "error"}]
      /\ settled' \subseteq Relays /\ untold' \subseteq Relays
  BY DEF TypeOK
<1>4. UNCHANGED <<relayVars, overheard, operators, countOf, statusVars, countVars>>
  OBVIOUS
<1> HIDE DEF OnEose, OnClose, EndedUntold
<1>5. QED
  BY <1>1, <1>2, <1>3, <1>4 DEF TypeOK, relayVars, statusVars, countVars

LEMMA LateCloseType ==
    ASSUME TypeOK, NEW k \in late, LateClose(k)
    PROVE  TypeOK'
<1>1. k[2] \in Relays
  BY DEF TypeOK
<1>2. renderTimer' \in BOOLEAN /\ dirty' \in BOOLEAN
  BY DEF LateClose, TypeOK, ScheduleRender
<1>3. QED
  BY <1>1, <1>2 DEF LateClose, TypeOK, queryVars, statusVars, countVars

LEMMA CheckAnswersType ==
    ASSUME TypeOK, NEW k \in checks, NEW outcome \in Outcomes, CheckAnswers(k, outcome)
    PROVE  TypeOK'
<1>1. renderTimer' \in BOOLEAN /\ dirty' \in BOOLEAN
  BY DEF CheckAnswers, TypeOK, ScheduleRender
<1>2. k.ann \in Anns /\ k.domain \in Domains /\ Author[Coord[k.ann]] \in Authors
  BY AnnFacts DEF TypeOK, Check
<1>3. status' \in [Authors \X Domains
                   -> {"absent", "checking", "verified", "mismatch", "unreachable"}]
  BY <1>2, OutcomesAssumption DEF CheckAnswers, TypeOK
<1>4. QED
  BY <1>1, <1>3 DEF CheckAnswers, TypeOK, relayVars, queryVars, countVars

LEMMA FetchCountsType ==
    ASSUME TypeOK, FetchCounts
    PROVE  TypeOK'
<1>1. renderTimer' \in BOOLEAN /\ dirty' \in BOOLEAN
  BY DEF FetchCounts, TypeOK, NoRender
<1>2. [run |-> run, batch |-> queued, open |-> active, seen |-> {}, approx |-> FALSE] \in Fetch
  BY DEF TypeOK, Fetch
<1>3. fetches' \subseteq Fetch
  BY <1>2 DEF FetchCounts, TypeOK
<1>4. QED
  BY <1>1, <1>3 DEF FetchCounts, TypeOK, relayVars, queryVars, statusVars

LEMMA CountsArriveType ==
    ASSUME TypeOK, NEW f \in fetches, NEW r \in Relays, NEW got \in SUBSET Backups[r],
           NEW others \in 0 .. 1, CountsArrive(f, r, got, others)
    PROVE  TypeOK'
<1> DEFINE g == [f EXCEPT !.open = @ \ {r},
                          !.seen = @ \cup got,
                          !.approx = @ \/ Cardinality(got) + others >= Limit]
<1>1. f \in Fetch /\ f.seen \in SUBSET AllBackups
  BY DEF TypeOK, Fetch
<1>2. got \in SUBSET AllBackups /\ IsFiniteSet(AllBackups)
  BY CountsAssumption DEF AllBackups
<1>3. g \in Fetch /\ g.seen \in SUBSET AllBackups /\ g.approx \in BOOLEAN
  BY <1>1, <1>2 DEF Fetch
<1>4. fetches' = (fetches \ {f}) \cup (IF g.open = {} THEN {} ELSE {g}) /\ ApplyCounts(g)
  BY DEF CountsArrive
<1> HIDE DEF g
<1>5. fetches' \subseteq Fetch
  BY <1>3, <1>4 DEF TypeOK
<1>6. \A p : Snapshot(g, p) \in Count
  <2> SUFFICES ASSUME NEW p PROVE Snapshot(g, p) \in Count
    OBVIOUS
  <2> DEFINE S == {b \in g.seen : Owner[b] = p}
  <2>1. S \subseteq AllBackups
    BY <1>3
  <2>2. Cardinality(S) \in Nat /\ Cardinality(S) <= Cardinality(AllBackups)
        /\ Cardinality(AllBackups) \in Nat
    <3> HIDE DEF S
    <3>1. QED
      BY <1>2, <2>1, FS_Subset, FS_CardinalityType
  <2>3. Snapshot(g, p) = [n |-> Cardinality(S), approx |-> g.approx]
    BY DEF Snapshot
  <2>4. QED
    BY <1>3, <2>2, <2>3 DEF Count
<1>7. countOf' \in [Coords -> Count]
  BY <1>4, <1>6 DEF ApplyCounts, TypeOK
<1>8. overheard' \subseteq {"announcements", "counts"} \X Relays
  BY DEF CountsArrive, TypeOK
<1>9. renderTimer' \in BOOLEAN /\ dirty' \in BOOLEAN
  BY DEF CountsArrive, TypeOK, ScheduleRender, NoRender
<1>10. QED
  BY <1>5, <1>7, <1>8, <1>9 DEF CountsArrive, TypeOK, relayVars, queryVars, statusVars

LEMMA StartDiscoveryType ==
    ASSUME TypeOK, NEW R \in Choices, NEW S \in SUBSET active, StartDiscovery(R, S)
    PROVE  TypeOK'
<1>1. R \in (SUBSET Relays) \ {{}}
  BY RelaysAssumption
<1>2. run' \in 1 .. MaxRuns /\ run' = run + 1 /\ run \in 1 .. MaxRuns
  BY RunsAssumption DEF StartDiscovery, TypeOK
<1>3. late' \subseteq (1 .. MaxRuns) \X Relays
  BY <1>2 DEF StartDiscovery, TypeOK
<1>4. fetches' \subseteq Fetch
  BY DEF StartDiscovery, TypeOK, Fetch
<1>5. Uncounted \in Count
  BY CountsAssumption, FS_CardinalityType DEF Uncounted, Count
<1>6. /\ phase' \in [Relays -> {"idle", "asked", "live", "closed"}]
      /\ heard' \in [Relays -> SUBSET Anns]
      /\ untold' \subseteq Relays
      /\ chip' \in [Relays -> {"none", "checking", "connected", "error"}]
      /\ settled' \subseteq Relays
      /\ overheard' \subseteq {"announcements", "counts"} \X Relays
      /\ operators' \in [Coords -> Anns \cup {None}]
      /\ countOf' \in [Coords -> Count]
      /\ status' \in [Authors \X Domains
                    -> {"absent", "checking", "verified", "mismatch", "unreachable"}]
      /\ counted' \subseteq Authors /\ queued' \subseteq counted'
      /\ countTimer' \in BOOLEAN
      /\ active' = R
  BY <1>5 DEF StartDiscovery, Fresh, TypeOK
<1>7. chosen' = R /\ checks' = checks /\ renderTimer' \in BOOLEAN /\ dirty' \in BOOLEAN
  BY DEF StartDiscovery, Fresh, TypeOK
<1>8. QED
  BY <1>1, <1>2, <1>3, <1>4, <1>6, <1>7 DEF TypeOK

LEMMA StartDiscoveryFailsType ==
    ASSUME TypeOK, NEW R \in Choices, NEW S \in SUBSET active, StartDiscoveryFails(R, S)
    PROVE  TypeOK'
<1>1. R \in (SUBSET Relays) \ {{}}
  BY RelaysAssumption
<1>2. /\ phase' \in [Relays -> {"idle", "asked", "live", "closed"}]
      /\ chip' \in [Relays -> {"none", "checking", "connected", "error"}]
      /\ settled' \subseteq Relays /\ untold' \subseteq Relays
  BY DEF StartDiscoveryFails, TypeOK
<1>3. renderTimer' \in BOOLEAN /\ dirty' \in BOOLEAN
  BY DEF StartDiscoveryFails, TypeOK, ScheduleRender, NoRender
<1>4. QED
  BY <1>1, <1>2, <1>3 DEF StartDiscoveryFails, TypeOK, statusVars, countVars

LEMMA RenderType ==
    ASSUME TypeOK, Render
    PROVE  TypeOK'
  BY DEF Render, TypeOK, relayVars, queryVars, statusVars, countVars

LEMMA NextTypeOK == TypeOK /\ [Next]_vars => TypeOK'
<1> SUFFICES ASSUME TypeOK, [Next]_vars PROVE TypeOK'
  OBVIOUS
<1>1. ASSUME NEW r \in Relays \ Malformed, NEW a \in Anns, OnEvent(r, a) PROVE TypeOK'
  BY <1>1, OnEventType
<1>2. ASSUME NEW r \in Relays \ Malformed, Settles(r) \/ EndedUntold(r) PROVE TypeOK'
  BY <1>2, SettlesType DEF Settles
<1>3. ASSUME NEW k \in late, LateClose(k) PROVE TypeOK'
  BY <1>3, LateCloseType
<1>4. ASSUME NEW k \in checks, NEW outcome \in Outcomes, CheckAnswers(k, outcome) PROVE TypeOK'
  BY <1>4, CheckAnswersType
<1>5. CASE FetchCounts
  BY <1>5, FetchCountsType
<1>6. ASSUME NEW f \in fetches, NEW r \in Relays, Counting(f, r) PROVE TypeOK'
  <2>1. PICK got \in SUBSET {b \in Backups[r] : Owner[b] \in f.batch}, others \in 0 .. 1 :
           CountsArrive(f, r, got, others)
    BY <1>6 DEF Counting
  <2>2. got \in SUBSET Backups[r]
    OBVIOUS
  <2>3. QED
    BY <2>1, <2>2, CountsArriveType
<1>7. ASSUME NEW R \in Edits \cap Choices, NEW S \in SUBSET active,
             StartDiscovery(R, S) \/ StartDiscoveryFails(R, S)
      PROVE  TypeOK'
  BY <1>7, StartDiscoveryType, StartDiscoveryFailsType
<1>8. CASE Render
  BY <1>8, RenderType
<1>9. CASE UNCHANGED vars
  BY <1>9 DEF vars, relayVars, queryVars, statusVars, countVars, TypeOK
<1>10. QED
  BY <1>1, <1>2, <1>3, <1>4, <1>5, <1>6, <1>7, <1>8, <1>9 DEF Next

-----------------------------------------------------------------------------
(* The announcements that are kept. *)

\* An announcement that comes in, whether it replaces an entry or not, leaves each
\* entry the newest.
LEMMA OnEventNewest ==
    ASSUME TypeOK, NewestIsKept, NEW r \in Relays, NEW a \in Anns, OnEvent(r, a)
    PROVE  NewestIsKept'
<1> SUFFICES ASSUME NEW c \in Coords
             PROVE  \/ operators'[c] = None /\ Heard(c)' = {}
                    \/ /\ operators'[c] \in Heard(c)'
                       /\ \A b \in Heard(c)' \ {operators'[c]} : Newer(operators'[c], b)
  BY DEF NewestIsKept
<1>1. /\ operators' = IF Replaces(a) THEN [operators EXCEPT ![Coord[a]] = a] ELSE operators
      /\ heard' = [heard EXCEPT ![r] = @ \cup {a}]
  BY DEF OnEvent, Query!Give, Query!Repeat, TypeOK
<1>2. /\ operators \in [Coords -> Anns \cup {None}]
      /\ heard \in [Relays -> SUBSET Anns]
  BY DEF TypeOK
<1>3. Heard(c)' = IF a \in Valid /\ Coord[a] = c THEN Heard(c) \cup {a} ELSE Heard(c)
  BY <1>1, <1>2 DEF Heard
<1>4. Heard(c) \subseteq Anns
  BY <1>2 DEF Heard
<1>5. \/ operators[c] = None /\ Heard(c) = {}
      \/ /\ operators[c] \in Heard(c)
         /\ \A b \in Heard(c) \ {operators[c]} : Newer(operators[c], b)
  BY DEF NewestIsKept
<1>6. Coord[a] \in Coords /\ a # None
  BY AnnFacts
<1>7. CASE ~(a \in Valid /\ Coord[a] = c)
  <2>1. operators'[c] = operators[c]
    BY <1>1, <1>2, <1>6, <1>7 DEF Replaces
  <2>2. QED
    BY <1>3, <1>5, <1>7, <2>1
<1>8. CASE a \in Valid /\ Coord[a] = c /\ Replaces(a)
  <2>1. operators'[c] = a
    BY <1>1, <1>2, <1>6, <1>8
  <2>2. operators[c] = None \/ Newer(a, operators[c])
    BY <1>8 DEF Replaces
  <2>3. \A b \in Heard(c) : Newer(a, b) \/ b = a
    BY <1>4, <1>5, <2>2, NewerOrder, AnnFacts
  <2>4. QED
    BY <1>3, <1>8, <2>1, <2>3
<1>9. CASE a \in Valid /\ Coord[a] = c /\ ~Replaces(a)
  <2>1. operators'[c] = operators[c] /\ operators[c] # None /\ ~Newer(a, operators[c])
    BY <1>1, <1>9 DEF Replaces
  <2>2. operators[c] \in Anns /\ (a = operators[c] \/ Newer(operators[c], a))
    BY <1>2, <2>1, NewerOrder
  <2>3. QED
    BY <1>3, <1>5, <1>9, <2>1, <2>2
<1>10. QED
  BY <1>7, <1>8, <1>9

LEMMA SameNewest ==
    ASSUME NewestIsKept, operators' = operators, heard' = heard
    PROVE  NewestIsKept'
  BY DEF NewestIsKept, Heard

LEMMA FreshNewest ==
    ASSUME operators' = [c \in Coords |-> None], heard' = [r \in Relays |-> {}]
    PROVE  NewestIsKept'
  BY DEF NewestIsKept, Heard

LEMMA NextNewest == TypeOK /\ NewestIsKept /\ [Next]_vars => NewestIsKept'
<1> SUFFICES ASSUME TypeOK, NewestIsKept, [Next]_vars PROVE NewestIsKept'
  OBVIOUS
<1>1. ASSUME NEW r \in Relays \ Malformed, NEW a \in Anns, OnEvent(r, a) PROVE NewestIsKept'
  BY <1>1, OnEventNewest
<1>2. ASSUME NEW R \in Edits \cap Choices, NEW S \in SUBSET active, StartDiscovery(R, S)
      PROVE  NewestIsKept'
  BY <1>2, FreshNewest DEF StartDiscovery, Fresh
<1>3. ASSUME NEW r \in Relays, Settles(r) \/ EndedUntold(r)
      PROVE  operators' = operators /\ heard' = heard
  BY <1>3 DEF Settles, OnEose, OnClose, EndedUntold, Query!EndOfStored, Query!End
<1>4. ASSUME NEW f \in fetches, NEW r \in Relays, Counting(f, r)
      PROVE  operators' = operators /\ heard' = heard
  BY <1>4 DEF Counting, CountsArrive, queryVars
<1>5. ASSUME \/ \E k \in late : LateClose(k)
             \/ \E k \in checks, outcome \in Outcomes : CheckAnswers(k, outcome)
             \/ FetchCounts
             \/ \E R \in Edits \cap Choices, S \in SUBSET active : StartDiscoveryFails(R, S)
             \/ Render
             \/ UNCHANGED vars
      PROVE  operators' = operators /\ heard' = heard
  BY <1>5 DEF LateClose, CheckAnswers, FetchCounts, StartDiscoveryFails, Render, vars, queryVars
<1>6. QED
  BY <1>1, <1>2, <1>3, <1>4, <1>5, SameNewest DEF Next

-----------------------------------------------------------------------------
(* What the page would show. *)

LEMMA SamePage ==
    ASSUME UNCHANGED <<operators, countOf, status, active, settled>>
    PROVE  Page' = Page
<1>1. Entries' = Entries
  BY DEF Entries
<1>2. \A c : DomainsOf(c)' = DomainsOf(c)
  BY DEF DomainsOf
<1>3. \A p, d : StatusOf(p, d)' = StatusOf(p, d)
  BY DEF StatusOf
<1>4. \A c : VerifiedDomains(c)' = VerifiedDomains(c)
  BY DEF VerifiedDomains, DomainsOf, StatusOf
<1>5. \A c : Category(c)' = Category(c)
  BY DEF Category, VerifiedDomains, DomainsOf, StatusOf
<1>6. \A c : Badge(c)' = Badge(c)
  BY DEF Badge
<1>7. Rows' = Rows
  BY DEF Rows, Entries, Badge, VerifiedDomains, DomainsOf, StatusOf
<1>8. Hidden' = Hidden /\ Pending' = Pending /\ RelaysSettled' = RelaysSettled
  BY <1>1, <1>5 DEF Hidden, Pending, RelaysSettled
<1>9. QED
  BY <1>7, <1>8 DEF Page, Placeholder

\* Whoever schedules no render leaves what the page would show as it is.
LEMMA NextRendered == TypeOK /\ ChangesAreRendered /\ [Next]_vars => ChangesAreRendered'
<1> SUFFICES ASSUME TypeOK, ChangesAreRendered, [Next]_vars PROVE ChangesAreRendered'
  OBVIOUS
<1>1. ASSUME ScheduleRender PROVE ChangesAreRendered'
  BY <1>1 DEF ScheduleRender, ChangesAreRendered
<1>2. ASSUME NoRender, UNCHANGED <<operators, countOf, status, active, settled>>
      PROVE  ChangesAreRendered'
  <2>1. Page' = Page
    BY <1>2, SamePage
  <2>2. QED
    BY <1>2, <2>1 DEF NoRender, ChangesAreRendered
<1>3. CASE FetchCounts
  BY <1>2, <1>3 DEF FetchCounts, relayVars, statusVars
<1>4. ASSUME NEW f \in fetches, NEW r \in Relays, Counting(f, r) PROVE ChangesAreRendered'
  <2>1. PICK got \in SUBSET {b \in Backups[r] : Owner[b] \in f.batch}, others \in 0 .. 1 :
           CountsArrive(f, r, got, others)
    BY <1>4 DEF Counting
  <2>2. CASE \E c \in Entries : Author[c] \in f.batch
    BY <1>1, <2>1, <2>2 DEF CountsArrive
  <2>3. CASE ~\E c \in Entries : Author[c] \in f.batch
    <3> DEFINE g == [f EXCEPT !.open = @ \ {r},
                              !.seen = @ \cup got,
                              !.approx = @ \/ Cardinality(got) + others >= Limit]
    <3>1. ApplyCounts(g)
      BY <2>1 DEF CountsArrive
    <3>2. g.batch = f.batch
      BY DEF TypeOK, Fetch
    <3> HIDE DEF g
    <3>3. countOf' = [c \in Coords |-> countOf[c]]
      BY <2>3, <3>1, <3>2 DEF ApplyCounts
    <3>4. countOf' = countOf
      BY <3>3 DEF TypeOK
    <3>5. NoRender /\ UNCHANGED <<operators, status, active, settled>>
      BY <2>1, <2>3 DEF CountsArrive, relayVars, statusVars
    <3>6. QED
      BY <1>2, <3>4, <3>5
  <2>4. QED
    BY <2>2, <2>3
<1>5. ASSUME NEW R \in Edits \cap Choices, NEW S \in SUBSET active,
             StartDiscovery(R, S) \/ StartDiscoveryFails(R, S)
      PROVE  ChangesAreRendered'
  <2>1. CASE StartDiscovery(R, S)
    <3>1. R # {}
      BY RelaysAssumption
    <3>2. QED
      BY <2>1, <3>1 DEF StartDiscovery, Fresh, ChangesAreRendered
  <2>2. CASE StartDiscoveryFails(R, S)
    <3>1. CASE S = {}
      BY <1>2, <2>2, <3>1 DEF StartDiscoveryFails, statusVars
    <3>2. CASE S # {}
      BY <1>1, <2>2, <3>2 DEF StartDiscoveryFails
    <3>3. QED
      BY <3>1, <3>2
  <2>3. QED
    BY <1>5, <2>1, <2>2
<1>6. CASE Render
  BY <1>6 DEF Render, ChangesAreRendered
<1>7. CASE UNCHANGED vars
  BY <1>7 DEF vars, ChangesAreRendered
<1>8. ASSUME \/ \E r \in Relays \ Malformed : (\E a \in Anns : OnEvent(r, a)) \/ Settles(r)
             \/ \E k \in late : LateClose(k)
             \/ \E k \in checks, outcome \in Outcomes : CheckAnswers(k, outcome)
      PROVE  ScheduleRender
  BY <1>8 DEF OnEvent, Settles, OnEose, OnClose, LateClose, CheckAnswers
<1>9. ASSUME NEW r \in Relays, EndedUntold(r) PROVE ChangesAreRendered'
  <2>1. CASE ScheduleRender
    BY <1>1, <2>1
  <2>2. CASE NoRender /\ UNCHANGED settled
    BY <1>2, <1>9, <2>2 DEF EndedUntold, relayVars, statusVars
  <2>3. QED
    BY <1>9, <2>1, <2>2 DEF EndedUntold
<1>10. QED
  BY <1>1, <1>3, <1>4, <1>5, <1>6, <1>7, <1>8, <1>9 DEF Next

-----------------------------------------------------------------------------
(* What the page says of relays. *)

LEMMA NextAnswered ==
    TypeOK /\ SettledIsAnswered /\ GreenIsLive /\ [Next]_vars
    => SettledIsAnswered' /\ GreenIsLive'
<1> SUFFICES ASSUME TypeOK, SettledIsAnswered, GreenIsLive, [Next]_vars
             PROVE  SettledIsAnswered' /\ GreenIsLive'
  OBVIOUS
<1> USE DEF SettledIsAnswered, GreenIsLive
<1>1. ASSUME NEW r \in Relays \ Malformed, OnEose(r)
      PROVE  SettledIsAnswered' /\ GreenIsLive'
  BY <1>1 DEF OnEose, Query!EndOfStored, TypeOK
<1>2. ASSUME NEW r \in Relays \ Malformed, OnClose(r)
      PROVE  SettledIsAnswered' /\ GreenIsLive'
  BY <1>2 DEF OnClose, Query!End, TypeOK
<1>3. ASSUME NEW k \in late, LateClose(k)
      PROVE  SettledIsAnswered' /\ GreenIsLive'
  BY <1>3 DEF LateClose, TypeOK, queryVars
<1>4. ASSUME NEW R \in Edits \cap Choices, NEW S \in SUBSET active, StartDiscovery(R, S)
      PROVE  SettledIsAnswered' /\ GreenIsLive'
  BY <1>4 DEF StartDiscovery, Fresh
<1>5. ASSUME NEW R \in Edits \cap Choices, NEW S \in SUBSET active, StartDiscoveryFails(R, S)
      PROVE  SettledIsAnswered' /\ GreenIsLive'
  BY <1>5 DEF StartDiscoveryFails, TypeOK
<1>6. ASSUME NEW f \in fetches, NEW r \in Relays, Counting(f, r)
      PROVE  SettledIsAnswered' /\ GreenIsLive'
  BY <1>6 DEF Counting, CountsArrive, queryVars
<1>7. ASSUME \/ \E r \in Relays \ Malformed, a \in Anns : OnEvent(r, a)
             \/ \E k \in checks, outcome \in Outcomes : CheckAnswers(k, outcome)
             \/ FetchCounts
             \/ Render
             \/ UNCHANGED vars
      PROVE  UNCHANGED <<settled, phase, overheard, chip>>
  BY <1>7 DEF OnEvent, Query!Give, Query!Repeat, CheckAnswers, FetchCounts, Render, vars,
             queryVars
<1>8. ASSUME NEW r \in Relays \ Malformed, EndedUntold(r)
      PROVE  SettledIsAnswered' /\ GreenIsLive'
  BY <1>8 DEF EndedUntold, Query!EndOfStored, TypeOK
<1>9. QED
  BY <1>1, <1>2, <1>3, <1>4, <1>5, <1>6, <1>7, <1>8 DEF Next, Settles

-----------------------------------------------------------------------------
(* Numbers of users. *)

LEMMA CardinalityGrows ==
    ASSUME NEW S, NEW T, IsFiniteSet(T), S \subseteq T
    PROVE  Cardinality(S) \in Nat /\ Cardinality(S) <= Cardinality(T)
  BY FS_Subset, FS_CardinalityType

\* Snapshots are bounded by the records that exist, and grow.
LEMMA SnapshotFacts ==
    ASSUME NEW f, NEW g, f.seen \subseteq g.seen, g.seen \subseteq AllBackups, NEW p
    PROVE  /\ Snapshot(g, p).n <= Cardinality({b \in AllBackups : Owner[b] = p})
           /\ Snapshot(f, p).n \in Nat /\ Snapshot(g, p).n \in Nat
           /\ Snapshot(f, p).n <= Snapshot(g, p).n
           /\ Snapshot(f, p).approx = f.approx
<1> DEFINE F == {b \in f.seen : Owner[b] = p}
           G == {b \in g.seen : Owner[b] = p}
           A == {b \in AllBackups : Owner[b] = p}
<1>1. F \subseteq G /\ G \subseteq A /\ A \subseteq AllBackups
  OBVIOUS
<1>2. /\ Snapshot(f, p).n = Cardinality(F) /\ Snapshot(g, p).n = Cardinality(G)
      /\ Snapshot(f, p).approx = f.approx
  BY DEF Snapshot
<1> HIDE DEF F, G, A
<1>3. IsFiniteSet(A) /\ IsFiniteSet(G)
  BY <1>1, CountsAssumption, FS_Subset
<1>4. /\ Cardinality(F) \in Nat /\ Cardinality(F) <= Cardinality(G)
      /\ Cardinality(G) \in Nat /\ Cardinality(G) <= Cardinality(A)
  BY <1>1, <1>3, CardinalityGrows
<1>5. QED
  BY <1>2, <1>4 DEF A

LEMMA FetchFacts ==
    ASSUME TypeOK, NEW f \in fetches
    PROVE  /\ f \in Fetch /\ f.run \in Nat /\ run \in Nat /\ f.approx \in BOOLEAN
           /\ f.seen \subseteq AllBackups /\ f.batch \subseteq Authors
           /\ \A p : Snapshot(f, p).n \in Nat
<1>1. f \in Fetch /\ f.run \in Nat /\ run \in Nat /\ f.approx \in BOOLEAN
      /\ f.seen \subseteq AllBackups /\ f.batch \subseteq Authors
  BY RunsAssumption DEF TypeOK, Fetch
<1>2. QED
  BY <1>1, SnapshotFacts

LEMMA SameCounts ==
    ASSUME CountsInv, UNCHANGED <<countOf, counted, queued, fetches, run>>,
           overheard \subseteq overheard'
    PROVE  CountsInv'
<1>1. CountsAreReal'
  BY DEF CountsInv, CountsAreReal
<1>2. Current' = Current
  BY DEF Current
<1>3. BatchesApart'
  BY <1>2 DEF CountsInv, BatchesApart
<1>4. CountsOverheard => CountsOverheard'
  BY DEF CountsOverheard
<1>5. CountsBehind'
  BY <1>2, <1>4 DEF CountsInv, CountsBehind, Snapshot
<1>6. QED
  BY <1>1, <1>3, <1>5 DEF CountsInv

\* An operator whose entry is replaced, or queued for the first time, has no number.
LEMMA OnEventCounts ==
    ASSUME TypeOK, CountsInv, NEW r \in Relays, NEW a \in Anns, OnEvent(r, a)
    PROVE  CountsInv'
<1> DEFINE p == Author[Coord[a]]
<1>1. /\ UNCHANGED <<fetches, run, overheard>>
      /\ counted' \ queued' = counted \ queued
      /\ counted \subseteq counted'
      /\ \A q \in queued' : q \in queued \/ q \notin counted
  <2>1. QueueForCount(a) /\ UNCHANGED <<run, overheard>>
    BY DEF OnEvent, relayVars
  <2>2. queued \subseteq counted
    BY DEF TypeOK
  <2>3. CASE a \in Valid /\ a \notin SelfCounted /\ p \notin counted
    BY <2>1, <2>2, <2>3 DEF QueueForCount
  <2>4. CASE ~(a \in Valid /\ a \notin SelfCounted /\ p \notin counted)
    BY <2>1, <2>4 DEF QueueForCount, countVars
  <2>5. QED
    BY <2>3, <2>4
<1>2. \A c \in Coords : countOf'[c] = countOf[c] \/ countOf'[c] = Uncounted
  BY DEF OnEvent, TypeOK
<1>3. Uncounted.n = -1 /\ Uncounted.approx = FALSE
  BY DEF Uncounted
<1>4. CountsAreReal'
  <2> DEFINE all(c) == Cardinality({b \in AllBackups : Owner[b] = Author[c]})
  <2>1. \A c \in Coords : countOf[c].n <= all(c)
    BY DEF CountsInv, CountsAreReal
  <2>2. \A c \in Coords : all(c) \in Nat
    BY CountsAssumption, CardinalityGrows
  <2>3. CountsAreReal' <=> \A c \in Coords : countOf'[c].n <= all(c)
    BY DEF CountsAreReal
  <2> HIDE DEF all
  <2>4. \A c \in Coords : countOf'[c].n <= all(c)
    BY <1>2, <1>3, <2>1, <2>2
  <2>5. QED
    BY <2>3, <2>4
<1>5. Current' = Current
  BY <1>1 DEF Current
<1>6. BatchesApart'
  BY <1>1, <1>5 DEF CountsInv, BatchesApart
<1>7. \A f \in Current, q \in Authors : Snapshot(f, q).n \in Nat
  BY FetchFacts DEF Current
<1>8. CountsBehind'
  <2>1. CASE CountsOverheard
    BY <1>1, <2>1 DEF CountsBehind, CountsOverheard
  <2>2. CASE ~CountsOverheard
    <3>1. \A c \in Coords : Author[c] \in Authors
      BY EventsAssumption
    <3>2. \A c \in Coords : Author[c] \notin counted' \ queued' => countOf'[c] = Uncounted
      BY <1>1, <1>2, <2>2 DEF CountsInv, CountsBehind
    <3>3. \A c \in Coords : \A f \in Current :
             Author[c] \in f.batch =>
                /\ countOf'[c].n <= Snapshot(f, Author[c]).n
                /\ (countOf'[c].approx => f.approx)
      BY <1>2, <1>3, <1>7, <2>2, <3>1 DEF CountsInv, CountsBehind
    <3>4. QED
      BY <1>5, <3>2, <3>3 DEF CountsBehind, Snapshot
  <2>3. QED
    BY <2>1, <2>2
<1>9. QED
  BY <1>4, <1>6, <1>8 DEF CountsInv

\* The batch that is fetched now is of operators that have no number yet.
LEMMA FetchCountsCounts ==
    ASSUME TypeOK, CountsInv, FetchCounts
    PROVE  CountsInv'
<1> DEFINE f0 == [run |-> run, batch |-> queued, open |-> active, seen |-> {}, approx |-> FALSE]
<1>1. /\ UNCHANGED <<countOf, counted, run, overheard>>
      /\ queued' = {}
      /\ fetches' \subseteq fetches \cup {f0}
  BY DEF FetchCounts, relayVars
<1>2. f0.run = run /\ f0.batch = queued /\ f0.seen = {} /\ f0.approx = FALSE
  OBVIOUS
<1> HIDE DEF f0
<1>3. queued \subseteq counted /\ run \in Nat
  BY RunsAssumption DEF TypeOK
<1>4. Current' \subseteq Current \cup {f0}
  BY <1>1 DEF Current
<1>5. CountsAreReal'
  BY <1>1 DEF CountsInv, CountsAreReal
<1>6. BatchesApart'
  <2>1. \A f \in fetches' : f.run <= run'
    BY <1>1, <1>2, <1>3 DEF CountsInv, BatchesApart
  <2>2. \A f \in Current' : f.batch \subseteq counted' /\ f.batch \cap queued' = {}
    BY <1>1, <1>2, <1>3, <1>4 DEF CountsInv, BatchesApart
  <2>3. \A f, g \in Current' : f # g => f.batch \cap g.batch = {}
    BY <1>2, <1>4 DEF CountsInv, BatchesApart
  <2>4. QED
    BY <2>1, <2>2, <2>3 DEF BatchesApart
<1>7. CountsBehind'
  <2>1. CASE CountsOverheard
    BY <1>1, <2>1 DEF CountsBehind, CountsOverheard
  <2>2. CASE ~CountsOverheard
    <3>1. Uncounted.n = -1 /\ Uncounted.approx = FALSE
      BY DEF Uncounted
    <3>2. \A p : Snapshot(f0, p).n \in Nat
      BY <1>2, SnapshotFacts
    <3>3. \A c \in Coords : Author[c] \notin counted' \ queued' => countOf'[c] = Uncounted
      BY <1>1, <2>2 DEF CountsInv, CountsBehind
    <3>4. \A c \in Coords : \A f \in Current' :
             Author[c] \in f.batch =>
                /\ countOf[c].n <= Snapshot(f, Author[c]).n
                /\ (countOf[c].approx => f.approx)
      <4> SUFFICES ASSUME NEW c \in Coords, NEW f \in Current', Author[c] \in f.batch
                   PROVE  /\ countOf[c].n <= Snapshot(f, Author[c]).n
                          /\ (countOf[c].approx => f.approx)
        OBVIOUS
      <4>1. CASE f = f0
        <5>1. countOf[c] = Uncounted
          BY <1>2, <2>2, <4>1 DEF CountsInv, CountsBehind
        <5>2. QED
          BY <3>1, <3>2, <4>1, <5>1
      <4>2. CASE f # f0
        BY <1>4, <2>2, <4>2 DEF CountsInv, CountsBehind
      <4>3. QED
        BY <4>1, <4>2
    <3>5. QED
      BY <1>1, <3>3, <3>4 DEF CountsBehind, Snapshot
  <2>3. QED
    BY <2>1, <2>2
<1>8. QED
  BY <1>5, <1>6, <1>7 DEF CountsInv

\* An answer goes to the operators of one batch, and adds to what their fetch has
\* seen.
LEMMA CountsArriveCounts ==
    ASSUME TypeOK, CountsInv, NEW f \in fetches, NEW r \in Relays, NEW got \in SUBSET Backups[r],
           NEW others \in 0 .. 1, CountsArrive(f, r, got, others)
    PROVE  CountsInv'
<1> DEFINE g == [f EXCEPT !.open = @ \ {r},
                          !.seen = @ \cup got,
                          !.approx = @ \/ Cardinality(got) + others >= Limit]
<1>1. /\ UNCHANGED <<counted, queued, run, operators>>
      /\ fetches' \subseteq (fetches \ {f}) \cup {g}
      /\ ApplyCounts(g)
      /\ overheard' = IF f.run = run THEN overheard
                      ELSE overheard \cup {<<"counts", r>>}
  BY DEF CountsArrive, relayVars
<1>2. f \in Fetch /\ f.seen \subseteq AllBackups /\ f.approx \in BOOLEAN
  BY FetchFacts
<1>3. got \subseteq AllBackups
  BY DEF AllBackups
<1>4. /\ g.run = f.run /\ g.batch = f.batch /\ f.seen \subseteq g.seen
      /\ g.seen \subseteq AllBackups /\ (f.approx => g.approx)
  BY <1>2, <1>3 DEF Fetch
<1> HIDE DEF g
<1>5. \A c \in Coords : countOf'[c] = IF c \in Entries /\ Author[c] \in f.batch
                                    THEN Snapshot(g, Author[c]) ELSE countOf[c]
  BY <1>1, <1>4 DEF ApplyCounts
<1>6. CountsAreReal'
  <2> SUFFICES ASSUME NEW c \in Coords
               PROVE  countOf'[c].n <= Cardinality({b \in AllBackups : Owner[b] = Author[c]})
    BY DEF CountsAreReal
  <2>1. Snapshot(g, Author[c]).n <= Cardinality({b \in AllBackups : Owner[b] = Author[c]})
    BY <1>4, SnapshotFacts
  <2>2. countOf[c].n <= Cardinality({b \in AllBackups : Owner[b] = Author[c]})
    BY DEF CountsInv, CountsAreReal
  <2>3. QED
    BY <1>5, <2>1, <2>2
<1>7. Current' \subseteq (Current \ {f}) \cup {g}
  BY <1>1 DEF Current
<1>8. g \in Current' /\ g \notin Current \ {f} => f \in Current
  BY <1>1, <1>4 DEF Current
<1>9. BatchesApart'
  <2>1. \A h \in fetches' : h.run <= run'
    BY <1>1, <1>4 DEF CountsInv, BatchesApart
  <2>2. \A h \in Current' : h.batch \subseteq counted' /\ h.batch \cap queued' = {}
    BY <1>1, <1>4, <1>7, <1>8 DEF CountsInv, BatchesApart
  <2>3. \A h, i \in Current' : h # i => h.batch \cap i.batch = {}
    BY <1>4, <1>7, <1>8 DEF CountsInv, BatchesApart
  <2>4. QED
    BY <2>1, <2>2, <2>3 DEF BatchesApart
<1>10. CountsBehind'
  <2>1. CASE CountsOverheard
    BY <1>1, <2>1 DEF CountsBehind, CountsOverheard
  <2>2. CASE f.run # run
    BY <1>1, <2>2 DEF CountsBehind, CountsOverheard
  <2>3. CASE ~CountsOverheard /\ f.run = run
    <3>1. f \in Current
      BY <2>3 DEF Current
    <3>2. f.batch \subseteq counted \ queued
      BY <3>1 DEF CountsInv, BatchesApart
    <3>3. \A c \in Coords : Author[c] \notin counted' \ queued' => countOf'[c] = Uncounted
      BY <1>1, <1>5, <2>3, <3>2 DEF CountsInv, CountsBehind
    <3>4. \A c \in Coords : \A h \in Current' :
             Author[c] \in h.batch =>
                /\ countOf'[c].n <= Snapshot(h, Author[c]).n
                /\ (countOf'[c].approx => h.approx)
      <4> SUFFICES ASSUME NEW c \in Coords, NEW h \in Current', Author[c] \in h.batch
                   PROVE  /\ countOf'[c].n <= Snapshot(h, Author[c]).n
                          /\ (countOf'[c].approx => h.approx)
        OBVIOUS
      <4> DEFINE p == Author[c]
      <4>1. CASE h = g
        <5>1. /\ countOf[c].n <= Snapshot(f, p).n
              /\ (countOf[c].approx => f.approx)
          BY <1>4, <2>3, <3>1, <4>1 DEF CountsInv, CountsBehind
        <5>2. /\ Snapshot(f, p).n <= Snapshot(g, p).n
              /\ Snapshot(f, p).n \in Nat /\ Snapshot(g, p).n \in Nat
              /\ Snapshot(g, p).approx = g.approx
          BY <1>4, SnapshotFacts
        <5>3. countOf[c].n \in Int
          BY CountsAssumption, FS_CardinalityType DEF TypeOK, Count
        <5>4. countOf'[c] = Snapshot(g, p) \/ countOf'[c] = countOf[c]
          BY <1>5
        <5>5. QED
          BY <1>4, <4>1, <5>1, <5>2, <5>3, <5>4
      <4>2. CASE h # g
        <5>1. h \in Current /\ h # f
          BY <1>7, <4>2
        <5>2. p \notin f.batch
          BY <3>1, <5>1 DEF CountsInv, BatchesApart
        <5>3. countOf'[c] = countOf[c]
          BY <1>5, <5>2
        <5>4. QED
          BY <2>3, <5>1, <5>3 DEF CountsInv, CountsBehind
      <4>3. QED
        BY <4>1, <4>2
    <3>5. QED
      BY <3>3, <3>4 DEF CountsBehind, Snapshot
  <2>4. QED
    BY <2>1, <2>2, <2>3
<1>11. QED
  BY <1>6, <1>9, <1>10 DEF CountsInv

\* A discovery starts without numbers, and no fetch is its own.
LEMMA StartDiscoveryCounts ==
    ASSUME TypeOK, CountsInv, NEW R \in Choices, NEW S \in SUBSET active, StartDiscovery(R, S)
    PROVE  CountsInv'
<1>1. /\ countOf' = [c \in Coords |-> Uncounted] /\ run' = run + 1
      /\ counted' = {} /\ queued' = {}
  BY DEF StartDiscovery, Fresh
<1>2. Uncounted.n = -1 /\ run \in Nat
  BY RunsAssumption DEF Uncounted, TypeOK
<1>3. CountsAreReal'
  <2> SUFFICES ASSUME NEW c \in Coords
               PROVE  countOf'[c].n <= Cardinality({b \in AllBackups : Owner[b] = Author[c]})
    BY DEF CountsAreReal
  <2>1. Cardinality({b \in AllBackups : Owner[b] = Author[c]}) \in Nat
    BY CountsAssumption, CardinalityGrows
  <2>2. QED
    BY <1>1, <1>2, <2>1
<1>4. \A f \in fetches' : f.run \in Nat /\ f.run <= run
  <2>1. \A f \in fetches : f \in Fetch /\ f.run \in Nat /\ f.run <= run
    BY FetchFacts DEF CountsInv, BatchesApart
  <2>2. \A f \in fetches : [f EXCEPT !.open = @ \cap S].run = f.run
    BY <2>1 DEF Fetch
  <2>3. \A h \in fetches' : \E f \in fetches : h = f \/ h = [f EXCEPT !.open = @ \cap S]
    BY DEF StartDiscovery
  <2>4. QED
    BY <2>1, <2>2, <2>3
<1>5. Current' = {}
  BY <1>1, <1>2, <1>4 DEF Current
<1>6. BatchesApart'
  BY <1>1, <1>2, <1>4, <1>5 DEF BatchesApart
<1>7. CountsBehind'
  BY <1>1, <1>5 DEF CountsBehind
<1>8. QED
  BY <1>3, <1>6, <1>7 DEF CountsInv

LEMMA NextCounts == TypeOK /\ CountsInv /\ [Next]_vars => CountsInv'
<1> SUFFICES ASSUME TypeOK, CountsInv, [Next]_vars PROVE CountsInv'
  OBVIOUS
<1>1. ASSUME NEW r \in Relays \ Malformed, NEW a \in Anns, OnEvent(r, a) PROVE CountsInv'
  BY <1>1, OnEventCounts
<1>2. CASE FetchCounts
  BY <1>2, FetchCountsCounts
<1>3. ASSUME NEW f \in fetches, NEW r \in Relays, Counting(f, r) PROVE CountsInv'
  <2>1. PICK got \in SUBSET {b \in Backups[r] : Owner[b] \in f.batch}, others \in 0 .. 1 :
           CountsArrive(f, r, got, others)
    BY <1>3 DEF Counting
  <2>2. got \in SUBSET Backups[r]
    OBVIOUS
  <2>3. QED
    BY <2>1, <2>2, CountsArriveCounts
<1>4. ASSUME NEW R \in Edits \cap Choices, NEW S \in SUBSET active, StartDiscovery(R, S)
      PROVE  CountsInv'
  BY <1>4, StartDiscoveryCounts
<1>5. ASSUME \/ \E r \in Relays : Settles(r) \/ EndedUntold(r)
             \/ \E k \in late : LateClose(k)
             \/ \E k \in checks, outcome \in Outcomes : CheckAnswers(k, outcome)
             \/ \E R \in Edits \cap Choices, S \in SUBSET active : StartDiscoveryFails(R, S)
             \/ Render
             \/ UNCHANGED vars
      PROVE  UNCHANGED <<countOf, counted, queued, fetches, run>> /\ overheard \subseteq overheard'
  BY <1>5 DEF Settles, OnEose, OnClose, EndedUntold, LateClose, CheckAnswers, StartDiscoveryFails, Render,
              vars, relayVars, countVars
<1>6. QED
  BY <1>1, <1>2, <1>3, <1>4, <1>5, SameCounts DEF Next

-----------------------------------------------------------------------------
(* What the runs check. *)

LEMMA InitDiscovery == Init => DiscoveryInv
<1> SUFFICES ASSUME Init PROVE DiscoveryInv
  OBVIOUS
<1>1. NewestIsKept
  BY DEF Init, NewestIsKept, Heard
<1>2. ChangesAreRendered /\ SettledIsAnswered /\ GreenIsLive
  BY DEF Init, ChangesAreRendered, SettledIsAnswered, GreenIsLive
<1>3. CountsAreReal
  <2> SUFFICES ASSUME NEW c \in Coords
               PROVE  countOf[c].n <= Cardinality({b \in AllBackups : Owner[b] = Author[c]})
    BY DEF CountsAreReal
  <2>1. Cardinality({b \in AllBackups : Owner[b] = Author[c]}) \in Nat
    BY CountsAssumption, CardinalityGrows
  <2>2. countOf[c].n = -1
    BY DEF Init, Uncounted
  <2>3. QED
    BY <2>1, <2>2
<1>4. BatchesApart /\ CountsBehind
  BY DEF Init, BatchesApart, CountsBehind, Current
<1>5. QED
  BY <1>1, <1>2, <1>3, <1>4, InitTypeOK DEF DiscoveryInv, CountsInv

\* The inductive invariant holds of every behaviour.
THEOREM DiscoveryInvariant == Spec => []DiscoveryInv
<1>1. DiscoveryInv /\ [Next]_vars => DiscoveryInv'
  BY NextTypeOK, NextNewest, NextRendered, NextAnswered, NextCounts DEF DiscoveryInv
<1>2. QED
  BY <1>1, InitDiscovery, PTL DEF Spec

\* The state is well formed and whatever changes what the page would show schedules a
\* render.
THEOREM DiscoveryIsConsistent == Spec => []Consistency
<1>1. DiscoveryInv => Consistency
  BY DEF DiscoveryInv, Consistency
<1>2. QED
  BY <1>1, DiscoveryInvariant, PTL

\* The page holds the newest valid announcement of each operator that any relay has
\* sent in this discovery, whatever order they came in.
THEOREM NewestAnnouncementIsKept == Spec => []NewestIsKept
<1>1. DiscoveryInv => NewestIsKept
  BY DEF DiscoveryInv
<1>2. QED
  BY <1>1, DiscoveryInvariant, PTL

\* An operator the page has heard of is shown, still being verified, or counted as
\* hidden.
LEMMA EntriesAreAccounted ==
    ASSUME TypeOK, NEW c \in Entries
    PROVE  Rows # {} \/ Pending \/ Hidden # {}
<1>1. CASE VerifiedDomains(c) # {}
  <2>1. PICK d \in VerifiedDomains(c) : TRUE
    BY <1>1
  <2>2. [coord |-> c, ann |-> operators[c], domain |-> d, count |-> Badge(c)] \in Rows
    BY <2>1 DEF Rows
  <2>3. QED
    BY <2>2
<1>2. CASE VerifiedDomains(c) = {}
  BY <1>2 DEF Category, Pending, Hidden
<1>3. QED
  BY <1>1, <1>2

LEMMA NoneIsTrue ==
    ASSUME DiscoveryInv, Rows = {}, ~Pending, Hidden = {}, RelaysSettled
    PROVE  /\ \A r \in active : \/ phase[r] \in {"live", "closed"}
                               \/ <<"announcements", r>> \in overheard
           /\ \A c \in Coords : Heard(c) = {}
<1>1. \A c \in Coords : operators[c] = None
  BY EntriesAreAccounted DEF DiscoveryInv, Entries
<1>2. \A c \in Coords : Heard(c) \subseteq Anns
  BY DEF DiscoveryInv, TypeOK, Heard
<1>3. \A c \in Coords : Heard(c) = {}
  BY <1>1, <1>2, AnnFacts DEF DiscoveryInv, NewestIsKept
<1>4. QED
  BY <1>3 DEF RelaysSettled, DiscoveryInv, SettledIsAnswered

\* "No operators found", a green chip and a number of users are true, whenever the
\* page shows them.
THEOREM PageStaysHonest == Spec => []PageIsHonest
<1>1. DiscoveryInv => NoneFoundIsTrue
  <2>1. Placeholder = "No operators found"
        => Rows = {} /\ ~Pending /\ Hidden = {} /\ RelaysSettled
    BY Zenon DEF Placeholder
  <2>2. QED
    BY <2>1, NoneIsTrue, Zenon DEF NoneFoundIsTrue
<1>2. DiscoveryInv => PageIsHonest
  BY <1>1 DEF PageIsHonest, DiscoveryInv, CountsInv
<1>3. QED
  BY <1>2, DiscoveryInvariant, PTL

\* Only a failed check or an announcement without the domain ends its verification.
LEMMA VerifiedStep ==
    ASSUME TypeOK, [Next]_vars, NEW p \in Authors, NEW d \in Domains,
           status[<<p, d>>] = "verified", status'[<<p, d>>] # "verified"
    PROVE  run' # run \/ Failing(p, d) \/ Dropping(p, d)
<1>1. ASSUME NEW r \in Relays \ Malformed, NEW a \in Anns, OnEvent(r, a)
      PROVE  Dropping(p, d)
  <2>1. Replaces(a) /\ SeedStatuses(a) /\ operators' = [operators EXCEPT ![Coord[a]] = a]
    BY <1>1 DEF OnEvent, statusVars
  <2>2. p = Author[Coord[a]] /\ d \notin Announces[a]
    BY <2>1 DEF SeedStatuses
  <2>3. Coord[a] \in Coords /\ operators'[Coord[a]] = a
    BY <2>1, AnnFacts DEF TypeOK
  <2>4. operators[Coord[a]] # a
    BY <2>1, AnnFacts, NewerOrder DEF Replaces
  <2>5. QED
    BY <2>2, <2>3, <2>4 DEF Dropping
<1>2. ASSUME NEW k \in checks, NEW outcome \in Outcomes, CheckAnswers(k, outcome)
      PROVE  Failing(p, d)
  <2>1. k \in checks \ checks'
    BY <1>2 DEF CheckAnswers
  <2>2. Author[Coord[k.ann]] = p /\ k.domain = d
    BY <1>2 DEF CheckAnswers, TypeOK
  <2>3. QED
    BY <2>1, <2>2 DEF Failing
<1>3. ASSUME NEW R \in Edits \cap Choices, NEW S \in SUBSET active, StartDiscovery(R, S)
      PROVE  run' # run
  <2>1. run' = run + 1 /\ run \in Nat
    BY <1>3, RunsAssumption DEF StartDiscovery, TypeOK
  <2>2. QED
    BY <2>1
<1>4. ASSUME \/ \E r \in Relays : Settles(r) \/ EndedUntold(r)
             \/ \E k \in late : LateClose(k)
             \/ FetchCounts
             \/ \E f \in fetches, r \in Relays : Counting(f, r)
             \/ \E R \in Edits \cap Choices, S \in SUBSET active : StartDiscoveryFails(R, S)
             \/ Render
             \/ UNCHANGED vars
      PROVE  status' = status
  <2>1. ASSUME NEW f \in fetches, NEW r \in Relays, Counting(f, r) PROVE status' = status
    BY <2>1 DEF Counting, CountsArrive, statusVars
  <2>2. QED
    BY <1>4, <2>1 DEF Settles, OnEose, OnClose, EndedUntold, LateClose, FetchCounts,
                      StartDiscoveryFails, Render, vars, statusVars
<1>5. status' # status
  OBVIOUS
<1>6. \/ \E r \in Relays \ Malformed, a \in Anns : OnEvent(r, a)
      \/ \E k \in checks, outcome \in Outcomes : CheckAnswers(k, outcome)
      \/ \E R \in Edits \cap Choices, S \in SUBSET active : StartDiscovery(R, S)
  BY <1>4, <1>5 DEF Next
<1>7. QED
  BY <1>1, <1>2, <1>3, <1>6

\* An answer adds to the number of an operator: the fetch it belongs to has seen at
\* least what is shown.
LEMMA CountsStep ==
    ASSUME DiscoveryInv, [Next]_vars, NEW c \in Coords,
           run' = run, operators'[c] = operators[c], ~CountsOverheard'
    PROVE  countOf[c].n <= countOf'[c].n /\ (countOf[c].approx => countOf'[c].approx)
<1>1. TypeOK /\ CountsInv
  BY DEF DiscoveryInv
<1>2. countOf[c].n \in Int
  BY <1>1, CountsAssumption, FS_CardinalityType DEF TypeOK, Count
<1>3. ASSUME NEW r \in Relays \ Malformed, NEW a \in Anns, OnEvent(r, a)
      PROVE  countOf'[c] = countOf[c]
  <2>1. CASE Replaces(a) /\ Coord[a] = c
    <3>1. operators'[c] = a
      BY <1>1, <1>3, <2>1 DEF OnEvent, TypeOK
    <3>2. operators[c] # a
      BY <2>1, AnnFacts, NewerOrder DEF Replaces
    <3>3. QED
      BY <3>1, <3>2
  <2>2. CASE ~(Replaces(a) /\ Coord[a] = c)
    BY <1>1, <1>3, <2>2 DEF OnEvent, TypeOK
  <2>3. QED
    BY <2>1, <2>2
<1>4. ASSUME NEW f \in fetches, NEW r \in Relays, Counting(f, r)
      PROVE  countOf[c].n <= countOf'[c].n /\ (countOf[c].approx => countOf'[c].approx)
  <2>1. PICK got \in SUBSET {b \in Backups[r] : Owner[b] \in f.batch}, others \in 0 .. 1 :
           CountsArrive(f, r, got, others)
    BY <1>4 DEF Counting
  <2> DEFINE g == [f EXCEPT !.open = @ \ {r},
                            !.seen = @ \cup got,
                            !.approx = @ \/ Cardinality(got) + others >= Limit]
  <2>2. ApplyCounts(g) /\ overheard' = IF f.run = run THEN overheard
                                     ELSE overheard \cup {<<"counts", r>>}
    BY <2>1 DEF CountsArrive
  <2>3. f \in Fetch /\ f.seen \subseteq AllBackups /\ f.approx \in BOOLEAN
    BY <1>1, FetchFacts
  <2>4. got \subseteq AllBackups
    BY DEF AllBackups
  <2>5. /\ g.batch = f.batch /\ f.seen \subseteq g.seen
        /\ g.seen \subseteq AllBackups /\ (f.approx => g.approx)
    BY <2>3, <2>4 DEF Fetch
  <2> HIDE DEF g
  <2>6. f \in Current /\ ~CountsOverheard
    BY <2>2 DEF Current, CountsOverheard
  <2>7. CASE c \in Entries /\ Author[c] \in f.batch
    <3>1. /\ countOf[c].n <= Snapshot(f, Author[c]).n
          /\ (countOf[c].approx => f.approx)
      BY <1>1, <2>6, <2>7 DEF CountsInv, CountsBehind
    <3>2. /\ Snapshot(f, Author[c]).n <= Snapshot(g, Author[c]).n
          /\ Snapshot(f, Author[c]).n \in Nat /\ Snapshot(g, Author[c]).n \in Nat
          /\ Snapshot(g, Author[c]).approx = g.approx
      BY <2>5, SnapshotFacts
    <3>3. countOf'[c] = Snapshot(g, Author[c])
      BY <2>2, <2>5, <2>7 DEF ApplyCounts
    <3>4. QED
      BY <1>2, <2>5, <3>1, <3>2, <3>3
  <2>8. CASE ~(c \in Entries /\ Author[c] \in f.batch)
    <3>1. countOf'[c] = countOf[c]
      BY <2>2, <2>5, <2>8 DEF ApplyCounts
    <3>2. QED
      BY <1>2, <3>1
  <2>9. QED
    BY <2>7, <2>8
<1>5. ASSUME NEW R \in Edits \cap Choices, NEW S \in SUBSET active, StartDiscovery(R, S)
      PROVE  FALSE
  BY <1>1, <1>5, RunsAssumption DEF StartDiscovery, TypeOK
<1>6. ASSUME \/ \E r \in Relays : Settles(r) \/ EndedUntold(r)
             \/ \E k \in late : LateClose(k)
             \/ \E k \in checks, outcome \in Outcomes : CheckAnswers(k, outcome)
             \/ FetchCounts
             \/ \E R \in Edits \cap Choices, S \in SUBSET active : StartDiscoveryFails(R, S)
             \/ Render
             \/ UNCHANGED vars
      PROVE  countOf' = countOf
  BY <1>6 DEF Settles, OnEose, OnClose, EndedUntold, LateClose, CheckAnswers, FetchCounts,
              StartDiscoveryFails, Render, vars
<1>7. QED
  BY <1>2, <1>3, <1>4, <1>5, <1>6 DEF Next

\* Within a discovery verified domains stay until a check fails or an announcement
\* drops them, and numbers of users only grow.
THEOREM NothingShownIsTakenBack == Spec => NothingIsTakenBack
<1> DEFINE VerifiedStaysStep ==
             \A p \in Authors, d \in Domains :
                status[<<p, d>>] = "verified" /\ status'[<<p, d>>] # "verified"
                => run' # run \/ Failing(p, d) \/ Dropping(p, d)
           CountsGrowStep ==
             \A c \in Coords :
                /\ run' = run /\ operators'[c] = operators[c]
                /\ ~\E r \in Relays : <<"counts", r>> \in overheard'
                => /\ countOf[c].n <= countOf'[c].n
                   /\ countOf[c].approx => countOf'[c].approx
<1>1. DiscoveryInv /\ [Next]_vars => VerifiedStaysStep
  BY VerifiedStep DEF DiscoveryInv
<1>2. DiscoveryInv /\ [Next]_vars => CountsGrowStep
  BY CountsStep DEF CountsOverheard
<1>3. DiscoveryInv /\ [Next]_vars => [VerifiedStaysStep]_vars /\ [CountsGrowStep]_vars
  BY <1>1, <1>2
<1> HIDE DEF VerifiedStaysStep, CountsGrowStep
<1>4. Spec => [][VerifiedStaysStep]_vars /\ [][CountsGrowStep]_vars
  BY <1>3, DiscoveryInvariant, PTL DEF Spec
<1>5. QED
  BY <1>4 DEF NothingIsTakenBack, VerifiedStays, CountsGrow, VerifiedStaysStep, CountsGrowStep

-----------------------------------------------------------------------------
(* The identity that is connected. *)

\* Somebody is connected once an ask of the extension has been answered.
AsksAreAnswered ==
    /\ connected # NoOne => \E i \in Asks : asks[i].stage \in {"connected", "over"}
    /\ \A i \in Asks : asks[i].stage = "connected" => connected # NoOne

\* The lists of the table in view were asked for while the header showed what it
\* shows.
ListsAreShown == tab = "manage" => rendered /\ \A l \in lists : l.shown = connected

IdentityInv == IdentityTypeOK /\ AsksAreAnswered /\ ListsAreShown /\ IdentityIsShown

LEMMA InitIdentity == IdentityInit => IdentityInv
<1> SUFFICES ASSUME IdentityInit PROVE IdentityInv
  OBVIOUS
<1>1. IdentityTypeOK
  BY DEF IdentityInit, IdentityTypeOK
<1>2. \A i \in Asks : asks[i].stage = "none"
  BY DEF IdentityInit, NoAsk
<1>3. QED
  BY <1>1, <1>2 DEF IdentityInit, IdentityInv, AsksAreAnswered, ListsAreShown, IdentityIsShown

\* An ask is one of three things.
LEMMA AskTypes ==
    ASSUME IdentityTypeOK, NEW i \in Asks
    PROVE  /\ asks \in [Asks -> {NoAsk} \cup
                    [by : {"header", "card"}, stage : {"asked", "connected", "over"}]]
           /\ asks[i] = NoAsk => asks[i].stage = "none"
           /\ asks[i] # NoAsk => asks[i].stage \in {"asked", "connected", "over"}
           /\ asks[i].stage # "none" => asks[i] # NoAsk
  BY DEF IdentityTypeOK, NoAsk

LEMMA AsksForInv ==
    ASSUME IdentityInv, NEW who \in {"header", "card"}, AsksFor(who),
           UNCHANGED <<connected, tab, tableVars, owner>>, failure' \in BOOLEAN
    PROVE  IdentityInv'
<1>1. PICK i \in Asks : asks[i] = NoAsk
                        /\ asks' = [asks EXCEPT ![i] = [by |-> who, stage |-> "asked"]]
  BY DEF AsksFor
<1>2. IdentityTypeOK' /\ ListsAreShown'
  BY <1>1 DEF IdentityInv, IdentityTypeOK, ListsAreShown, tableVars
<1>3. \A j \in Asks : asks'[j] = IF j = i THEN [by |-> who, stage |-> "asked"] ELSE asks[j]
  BY <1>1 DEF IdentityInv, IdentityTypeOK
<1>4. AsksAreAnswered'
  BY <1>1, <1>3, AskTypes DEF IdentityInv, AsksAreAnswered
<1>5. IdentityIsShown'
  BY <1>1, <1>3 DEF IdentityInv, IdentityIsShown, AskedTwice, NoAsk, tableVars
<1>6. QED
  BY <1>2, <1>4, <1>5 DEF IdentityInv

\* Whoever was connected before was connected by another ask.
LEMMA DoConnectInv ==
    ASSUME IdentityInv, NEW i \in Asks, NEW key \in Identities, DoConnect(i, key)
    PROVE  IdentityInv'
<1>1. /\ asks[i].stage = "asked" /\ connected' = key /\ owner' = owner /\ tab' = tab
      /\ IF tab = "manage" THEN rendered' = TRUE /\ lists' = {}
         ELSE rendered' = rendered /\ lists' = lists
      /\ failure' = failure
  BY DEF DoConnect, RenderTable, tableVars
<1>2. /\ asks[i] # NoAsk /\ asks'[i] # NoAsk
      /\ asks'[i].stage \in {"connected", "over"}
      /\ \A j \in Asks \ {i} : asks'[j] = asks[j]
      /\ asks' \in [Asks -> {NoAsk} \cup
              [by : {"header", "card"}, stage : {"asked", "connected", "over"}]]
  BY <1>1, AskTypes DEF DoConnect, IdentityInv, NoAsk
<1>3. IdentityTypeOK' /\ ListsAreShown'
  BY <1>1, <1>2 DEF IdentityInv, IdentityTypeOK, ListsAreShown
<1>4. AsksAreAnswered'
  BY <1>1, <1>2, IdentitiesAssumption DEF IdentityInv, AsksAreAnswered
<1>5. ASSUME owner # NoOne, owner # key PROVE AskedTwice'
  <2>1. CASE owner = connected
    <3>1. PICK j \in Asks : asks[j].stage \in {"connected", "over"}
      BY <1>5, <2>1 DEF IdentityInv, AsksAreAnswered
    <3>2. j # i /\ asks[j] # NoAsk
      BY <1>1, <3>1, AskTypes DEF IdentityInv
    <3>3. QED
      BY <1>2, <3>2 DEF AskedTwice
  <2>2. CASE owner # connected
    <3>1. AskedTwice
      BY <1>5, <2>2 DEF IdentityInv, IdentityIsShown
    <3>2. QED
      BY <1>2, <3>1 DEF AskedTwice
  <2>3. QED
    BY <2>1, <2>2
<1>6. IdentityIsShown'
  BY <1>1, <1>5, IdentitiesAssumption DEF IdentityInv, IdentityIsShown
<1>7. QED
  BY <1>3, <1>4, <1>6 DEF IdentityInv

\* An ask that ends otherwise.
LEMMA AskEndsInv ==
    ASSUME IdentityInv, NEW i \in Asks, OpenDialog(i) \/ ConnectFails(i)
    PROVE  IdentityInv'
<1>1. /\ asks[i].stage \in {"asked", "connected"}
      /\ connected' = connected /\ tab' = tab /\ rendered' = rendered /\ lists' = lists
      /\ failure' \in BOOLEAN
      /\ owner' = owner \/ (owner' = connected /\ asks[i].stage = "connected")
  BY DEF OpenDialog, ConnectFails, IdentityInv, IdentityTypeOK, tableVars
<1>2. /\ asks[i] # NoAsk /\ asks'[i] # NoAsk
      /\ asks'[i].stage = "over"
      /\ \A j \in Asks \ {i} : asks'[j] = asks[j]
      /\ asks' \in [Asks -> {NoAsk} \cup
              [by : {"header", "card"}, stage : {"asked", "connected", "over"}]]
  BY <1>1, AskTypes DEF OpenDialog, ConnectFails, IdentityInv, NoAsk
<1>3. IdentityTypeOK' /\ ListsAreShown'
  BY <1>1, <1>2 DEF IdentityInv, IdentityTypeOK, ListsAreShown
<1>4. AsksAreAnswered'
  BY <1>1, <1>2 DEF IdentityInv, AsksAreAnswered
<1>5. AskedTwice => AskedTwice'
  BY <1>2 DEF AskedTwice
<1>6. IdentityIsShown'
  BY <1>1, <1>5 DEF IdentityInv, IdentityIsShown, AsksAreAnswered
<1>7. QED
  BY <1>3, <1>4, <1>6 DEF IdentityInv

LEMMA NextIdentity == IdentityInv /\ [IdentityNext]_identityVars => IdentityInv'
<1> SUFFICES ASSUME IdentityInv, [IdentityNext]_identityVars PROVE IdentityInv'
  OBVIOUS
<1>1. CASE ClickConnect
  BY <1>1, AsksForInv DEF ClickConnect
<1>2. CASE OnRegister
  <2>1. CASE connected = NoOne
    BY <1>2, <2>1, AsksForInv DEF OnRegister, IdentityInv, IdentityTypeOK
  <2>2. CASE connected # NoOne
    BY <1>2, <2>2
    DEF OnRegister, IdentityInv, IdentityTypeOK, AsksAreAnswered, ListsAreShown,
        IdentityIsShown, AskedTwice, tableVars
  <2>3. QED
    BY <2>1, <2>2
<1>3. ASSUME NEW i \in Asks, NEW key \in Identities, DoConnect(i, key) PROVE IdentityInv'
  BY <1>3, DoConnectInv
<1>4. ASSUME NEW i \in Asks, OpenDialog(i) \/ ConnectFails(i) PROVE IdentityInv'
  BY <1>4, AskEndsInv
<1>5. CASE CloseDialog
  BY <1>5
  DEF CloseDialog, IdentityInv, IdentityTypeOK, AsksAreAnswered, ListsAreShown,
      IdentityIsShown, AskedTwice, tableVars
<1>6. ASSUME NEW t \in {"browse", "manage"}, SelectTab(t) PROVE IdentityInv'
  BY <1>6
  DEF SelectTab, IdentityInv, IdentityTypeOK, AsksAreAnswered, ListsAreShown,
      IdentityIsShown, AskedTwice, Reachable, RenderTable, tableVars
<1>7. ASSUME NEW key \in Identities, SignList(key) PROVE IdentityInv'
  BY <1>7
  DEF SignList, IdentityInv, IdentityTypeOK, AsksAreAnswered, ListsAreShown,
      IdentityIsShown, AskedTwice
<1>8. CASE UNCHANGED identityVars
  BY <1>8
  DEF identityVars, IdentityInv, IdentityTypeOK, AsksAreAnswered, ListsAreShown,
      IdentityIsShown, AskedTwice
<1>9. QED
  BY <1>1, <1>2, <1>3, <1>4, <1>5, <1>6, <1>7, <1>8 DEF IdentityNext

-----------------------------------------------------------------------------
(* The registration dialog. *)

QuotesDiffer == \A q, r \in quotes : q.seq = r.seq => q = r

\* What the form knows.
FormTypeOK ==
    /\ typed \in Names \cup {NoName}
    /\ debounce \in BOOLEAN
    /\ quoteSeq \in 0 .. MaxQuotes
    /\ quotes \subseteq [seq : 1 .. quoteSeq, name : Names]
    /\ lastQuote \in {NoQuote} \cup [name : Names, price : {"free", "paid"}]
    /\ message \in [name : Names \cup {NoName},
                    says : {"nothing", "checking", "price", "error"}]
    /\ enabled \in BOOLEAN
FormInv == FormTypeOK /\ QuoteIsCurrent /\ QuotesDiffer

Sent == [dialog : Dialogs, name : Names, price : {"free", "paid"},
         state : {"sent", "failed", "shown"}]
InvoiceTypeOK ==
    /\ shows \in [Dialogs -> 0 .. MaxSubmits]
    /\ submits \in [Submits -> {Unused} \cup Sent]
    /\ attempt \in [Submits -> {"none", "pending", "publishing", "complete", "expired"}]
    /\ page \in [Submits -> {"none", "waiting", "paid"} \cup Final]
    /\ stopped \in [Submits -> BOOLEAN]
    /\ polls \in [Submits -> [1 .. MaxPolls -> {"idle", "asked"} \cup Answers]]

IntervalTypeOK ==
    /\ polling \subseteq Submits /\ ticking \subseteq Submits
    /\ timers \in [{"poll", "countdown"} -> 0 .. MaxSubmits]
    /\ crossed \in BOOLEAN

\* What is polled, or has an interval, is the invoice of a submission, and its view
\* says something final only when it is stopped.
InvoicesAreShown ==
    \A k \in Submits :
        /\ k \in Intervals \/ (\E n \in 1 .. MaxPolls : polls[k][n] # "idle")
           => submits[k].state = "shown" /\ submits[k].price = "paid"
        /\ submits[k].state = "shown" => attempt[k] # "none"
        /\ submits[k].state # "shown" => page[k] = "none"
        /\ page[k] \in Final /\ submits[k].price = "paid" => stopped[k]

\* The record knows every interval that runs, and an invoice that has failed runs
\* none.
HandlesAreKnown ==
    ~crossed =>
        /\ polling \subseteq {timers["poll"]} /\ ticking \subseteq {timers["countdown"]}
        /\ \A k \in ticking : page[k] # "error"

DialogsAreNumbered ==
    /\ opened \in 0 .. MaxModals /\ open \in {0, opened}
    /\ \A d \in Dialogs : d > opened => shows[d] = 0
    /\ \A k \in Submits : submits[k].dialog <= opened

InvoiceInv ==
    /\ InvoiceTypeOK /\ IntervalTypeOK
    /\ InvoicesAreShown /\ HandlesAreKnown /\ DialogsAreNumbered /\ TimersAreOwned

ModalInv == FormInv /\ InvoiceInv /\ (open = 0 => ~debounce)

shellVars == <<opened, open, shows, submits, attempt, invoiceVars, polls, timerVars, crossed>>

LEMMA ModalTypes == ModalInv => ModalTypeOK
  BY DEF ModalInv, FormInv, InvoiceInv, ModalTypeOK, FormTypeOK, InvoiceTypeOK,
         IntervalTypeOK, DialogsAreNumbered, Sent

LEMMA InitModal == ModalInit => ModalInv
<1> SUFFICES ASSUME ModalInit PROVE ModalInv
  OBVIOUS
<1>1. 0 \in 0 .. MaxModals /\ 0 \in 0 .. MaxQuotes /\ 0 \in 0 .. MaxSubmits
  BY ModalAssumption
<1>2. FormTypeOK
  <2>1. message \in [name : Names \cup {NoName},
                    says : {"nothing", "checking", "price", "error"}]
    BY DEF ModalInit, Silent
  <2>2. QED
    BY <1>1, <2>1 DEF ModalInit, FormTypeOK
<1>3. QuoteIsCurrent /\ QuotesDiffer
  <2>1. message.says = "nothing" /\ enabled = FALSE /\ quotes = {}
    BY DEF ModalInit, Silent
  <2>2. QED
    BY <2>1 DEF QuoteIsCurrent, QuotesDiffer
<1>4. InvoiceTypeOK /\ IntervalTypeOK
  <2>1. /\ shows \in [Dialogs -> 0 .. MaxSubmits]
        /\ submits \in [Submits -> {Unused}]
        /\ timers \in [{"poll", "countdown"} -> 0 .. MaxSubmits]
    BY <1>1 DEF ModalInit
  <2>2. /\ attempt \in [Submits -> {"none"}]
        /\ page \in [Submits -> {"none"}]
        /\ stopped \in [Submits -> {FALSE}]
        /\ polls \in [Submits -> [1 .. MaxPolls -> {"idle"}]]
    BY DEF ModalInit
  <2>3. QED
    BY <2>1, <2>2 DEF ModalInit, InvoiceTypeOK, IntervalTypeOK
<1>5. InvoicesAreShown
  BY DEF ModalInit, InvoicesAreShown, Intervals, Final, Unused
<1>6. HandlesAreKnown /\ TimersAreOwned
  BY DEF ModalInit, HandlesAreKnown, TimersAreOwned, Intervals
<1>7. DialogsAreNumbered
  <2>1. \A k \in Submits : submits[k].dialog = 0
    BY DEF ModalInit, Unused
  <2>2. 0 <= 0 /\ \A d \in Dialogs : shows[d] = 0
    BY DEF ModalInit
  <2>3. QED
    BY <1>1, <2>1, <2>2 DEF ModalInit, DialogsAreNumbered
<1>8. QED
  BY <1>2, <1>3, <1>4, <1>5, <1>6, <1>7 DEF ModalInv, FormInv, InvoiceInv, ModalInit

-----------------------------------------------------------------------------
(* The form. *)

LEMMA FreshFormInv == FormInv /\ FreshForm => FormInv' /\ ~debounce'
<1> SUFFICES ASSUME FormInv, FreshForm PROVE FormInv' /\ ~debounce'
  OBVIOUS
<1>1. FormTypeOK' /\ ~debounce'
  BY DEF FreshForm, FormInv, FormTypeOK, NoQuote, Silent
<1>2. message'.says = "nothing" /\ enabled' = FALSE /\ quotes' = {}
  BY DEF FreshForm, Silent
<1>3. QED
  BY <1>1, <1>2 DEF FormInv, QuoteIsCurrent, QuotesDiffer

LEMMA SameFormInv == FormInv /\ UNCHANGED formVars => FormInv' /\ debounce' = debounce
  BY DEF formVars, FormInv, FormTypeOK, QuoteIsCurrent, QuotesDiffer

\* A step that leaves quotes and what they said alone, and enables the button for the
\* name it was quoted for or not at all.
LEMMA ButtonInv ==
    ASSUME FormInv, UNCHANGED <<quoteSeq, quotes, lastQuote, message>>,
           typed' \in Names \cup {NoName}, debounce' \in BOOLEAN, enabled' \in BOOLEAN,
           enabled' => lastQuote # NoQuote /\ lastQuote.name = typed'
    PROVE  FormInv'
<1>1. lastQuote # NoQuote => lastQuote.name \in Names
  BY DEF FormInv, FormTypeOK
<1>2. enabled' => typed' # NoName /\ lastQuote'.name = typed'
  BY <1>1, ModalAssumption
<1>3. QED
  BY <1>2 DEF FormInv, FormTypeOK, QuoteIsCurrent, QuotesDiffer

LEMMA RunQuoteInv == FormInv /\ RunQuote => FormInv' /\ ~debounce'
<1> SUFFICES ASSUME FormInv, RunQuote PROVE FormInv' /\ ~debounce'
  OBVIOUS
<1>1. FormTypeOK /\ debounce' = FALSE /\ enabled' = FALSE /\ typed' = typed
  BY DEF RunQuote, FormInv
<1>2. CASE /\ typed = NoName
           /\ lastQuote' = NoQuote /\ message' = Silent
           /\ UNCHANGED <<quoteSeq, quotes>>
  <2>1. message' \in [name : Names \cup {NoName},
                      says : {"nothing", "checking", "price", "error"}]
    BY <1>2 DEF Silent
  <2>2. message'.says = "nothing"
    BY <1>2 DEF Silent
  <2>3. FormTypeOK'
    BY <1>1, <1>2, <2>1 DEF FormTypeOK
  <2>4. QuoteIsCurrent' /\ QuotesDiffer'
    BY <1>1, <1>2, <2>2 DEF FormInv, QuoteIsCurrent, QuotesDiffer
  <2>5. QED
    BY <1>1, <2>3, <2>4 DEF FormInv
<1>3. CASE /\ typed # NoName /\ quoteSeq < MaxQuotes
           /\ quoteSeq' = quoteSeq + 1
           /\ quotes' = quotes \cup {[seq |-> quoteSeq + 1, name |-> typed]}
           /\ message' = [name |-> typed, says |-> "checking"]
           /\ UNCHANGED lastQuote
  <2>1. typed \in Names /\ quoteSeq \in Nat /\ quoteSeq' \in 0 .. MaxQuotes
    BY <1>1, <1>3, ModalAssumption DEF FormTypeOK
  <2>2. \A q \in quotes : q \in [seq : 1 .. quoteSeq', name : Names] /\ q.seq # quoteSeq'
    BY <1>1, <1>3, <2>1 DEF FormTypeOK
  <2>3. quotes' \subseteq [seq : 1 .. quoteSeq', name : Names]
    BY <1>3, <2>1, <2>2
  <2>4. FormTypeOK'
    BY <1>1, <1>3, <2>1, <2>3 DEF FormTypeOK
  <2>5. \A q \in quotes' : q.seq = quoteSeq' => q = [seq |-> quoteSeq', name |-> typed]
    BY <1>3, <2>2
  <2>6. QuoteIsCurrent'
    BY <1>1, <1>3, <2>5 DEF QuoteIsCurrent
  <2>7. QuotesDiffer'
    BY <1>3, <2>2, <2>5 DEF FormInv, QuotesDiffer
  <2>8. QED
    BY <1>1, <2>4, <2>6, <2>7 DEF FormInv
<1>4. QED
  BY <1>2, <1>3 DEF RunQuote

LEMMA QuoteArrivesInv ==
    ASSUME FormInv, NEW q \in quotes, QuoteArrives(q)
    PROVE  FormInv' /\ debounce' = debounce
<1>1. /\ FormTypeOK /\ quotes' = quotes \ {q}
      /\ typed' = typed /\ debounce' = debounce /\ quoteSeq' = quoteSeq
  BY DEF QuoteArrives, FormInv
<1>2. q.name \in Names /\ q.name # NoName /\ Price[q.name] \in {"free", "paid"}
  BY <1>1, ModalAssumption DEF FormTypeOK
<1>3. QuotesDiffer' /\ quotes' \subseteq [seq : 1 .. quoteSeq', name : Names]
  BY <1>1 DEF FormInv, QuotesDiffer, FormTypeOK
<1>4. CASE UNCHANGED <<lastQuote, message, enabled>>
  BY <1>1, <1>3, <1>4 DEF FormInv, FormTypeOK, QuoteIsCurrent
<1>5. CASE q.seq = quoteSeq /\ (Quoted(q) \/ NotQuoted(q))
  <2>1. \A r \in quotes' : r.seq # quoteSeq'
    BY <1>1, <1>5 DEF FormInv, QuotesDiffer
  <2>2. CASE Quoted(q)
    <3>1. FormTypeOK'
      BY <1>1, <1>2, <1>3, <2>2 DEF Quoted, FormTypeOK
    <3>2. QuoteIsCurrent'
      BY <1>1, <1>2, <2>1, <2>2 DEF Quoted, QuoteIsCurrent
    <3>3. QED
      BY <1>1, <1>3, <3>1, <3>2 DEF FormInv
  <2>3. CASE NotQuoted(q)
    <3>1. FormTypeOK'
      BY <1>1, <1>2, <1>3, <2>3 DEF NotQuoted, FormTypeOK
    <3>2. QuoteIsCurrent'
      BY <1>1, <1>2, <2>1, <2>3 DEF NotQuoted, QuoteIsCurrent
    <3>3. QED
      BY <1>1, <1>3, <3>1, <3>2 DEF FormInv
  <2>4. QED
    BY <1>5, <2>2, <2>3
<1>6. QED
  BY <1>4, <1>5 DEF QuoteArrives

\* The steps of the form leave all else alone.
LEMMA SameShell == InvoiceInv /\ UNCHANGED shellVars => InvoiceInv'
<1> SUFFICES ASSUME InvoiceInv, UNCHANGED shellVars PROVE InvoiceInv'
  OBVIOUS
<1>1. /\ opened' = opened /\ open' = open /\ shows' = shows /\ submits' = submits
      /\ attempt' = attempt /\ page' = page /\ stopped' = stopped /\ polls' = polls
      /\ polling' = polling /\ ticking' = ticking /\ timers' = timers /\ crossed' = crossed
  BY DEF shellVars, invoiceVars, timerVars
<1>2. InvoiceTypeOK' /\ IntervalTypeOK'
  BY <1>1 DEF InvoiceInv, InvoiceTypeOK, IntervalTypeOK
<1>3. InvoicesAreShown' /\ HandlesAreKnown'
  BY <1>1 DEF InvoiceInv, InvoicesAreShown, HandlesAreKnown, Intervals
<1>4. DialogsAreNumbered' /\ TimersAreOwned'
  BY <1>1 DEF InvoiceInv, DialogsAreNumbered, TimersAreOwned, Intervals
<1>5. QED
  BY <1>2, <1>3, <1>4 DEF InvoiceInv

LEMMA FormSteps ==
    ASSUME ModalInv,
           \/ RunQuote
           \/ \E name \in Names \cup {NoName} : Type(name)
           \/ \E q \in quotes : QuoteArrives(q)
    PROVE  ModalInv'
<1>1. FormInv /\ InvoiceInv /\ (open = 0 => ~debounce)
  BY DEF ModalInv
<1>2. UNCHANGED shellVars /\ open' = open
  BY DEF RunQuote, Type, QuoteArrives, shellVars
<1>3. CASE RunQuote
  BY <1>1, <1>2, <1>3, SameShell, RunQuoteInv DEF ModalInv
<1>4. ASSUME NEW name \in Names \cup {NoName}, Type(name) PROVE ModalInv'
  <2>1. FormInv'
    BY <1>1, <1>4, ButtonInv DEF Type
  <2>2. open # 0
    BY <1>4 DEF Type, AtForm
  <2>3. QED
    BY <1>1, <1>2, <2>1, <2>2, SameShell DEF ModalInv
<1>5. ASSUME NEW q \in quotes, QuoteArrives(q) PROVE ModalInv'
  BY <1>1, <1>2, <1>5, SameShell, QuoteArrivesInv DEF ModalInv
<1>6. QED
  BY <1>3, <1>4, <1>5

-----------------------------------------------------------------------------
(* The shell. *)

\* The record that knows every interval clears every interval.
LEMMA ClearedIntervals ==
    ASSUME InvoiceInv, ClearIntervals, crossed' \in BOOLEAN
    PROVE  /\ IntervalTypeOK'
           /\ Intervals' \subseteq Intervals
           /\ ~crossed => polling' = {} /\ ticking' = {} /\ Intervals' = {}
<1>1. IntervalTypeOK'
  BY ModalAssumption DEF ClearIntervals, InvoiceInv, IntervalTypeOK
<1>2. Intervals' \subseteq Intervals
  BY DEF ClearIntervals, Intervals
<1>3. ~crossed => polling' = {} /\ ticking' = {}
  BY DEF ClearIntervals, InvoiceInv, HandlesAreKnown
<1>4. QED
  BY <1>1, <1>2, <1>3 DEF Intervals

LEMMA ShellSteps == ModalInv /\ (OpenModal \/ CloseModal) => ModalInv'
<1> SUFFICES ASSUME ModalInv, OpenModal \/ CloseModal PROVE ModalInv'
  OBVIOUS
<1>1. /\ FormInv /\ InvoiceInv /\ FreshForm /\ ClearIntervals
      /\ shows' = shows /\ submits' = submits /\ attempt' = attempt
      /\ page' = page /\ stopped' = stopped /\ polls' = polls /\ crossed' = crossed
  BY DEF ModalInv, OpenModal, CloseModal, invoiceVars
<1>2. InvoiceTypeOK' /\ crossed' \in BOOLEAN
  BY <1>1 DEF InvoiceInv, InvoiceTypeOK, IntervalTypeOK
<1>3. /\ IntervalTypeOK' /\ Intervals' \subseteq Intervals
      /\ ~crossed => polling' = {} /\ ticking' = {} /\ Intervals' = {}
  BY <1>1, <1>2, ClearedIntervals
<1>4. InvoicesAreShown'
  BY <1>1, <1>3 DEF InvoiceInv, InvoicesAreShown
<1>5. HandlesAreKnown'
  BY <1>1, <1>3 DEF HandlesAreKnown
<1>6. /\ opened' \in 0 .. MaxModals /\ open' \in {0, opened'}
      /\ opened <= opened' /\ opened \in Nat /\ opened' \in Nat
      /\ open' # 0 => open' \in Dialogs /\ shows[open'] = 0
  BY <1>1, ModalAssumption DEF OpenModal, CloseModal, InvoiceInv, DialogsAreNumbered, Dialogs
<1>7. DialogsAreNumbered'
  <2>1. \A d \in Dialogs : d > opened' => d > opened
    BY <1>6 DEF Dialogs
  <2>2. \A k \in Submits : submits[k].dialog \in Nat
    BY <1>1 DEF InvoiceInv, InvoiceTypeOK, Sent, Unused, Dialogs
  <2>3. \A k \in Submits : submits'[k].dialog <= opened'
    BY <1>1, <1>6, <2>2 DEF InvoiceInv, DialogsAreNumbered
  <2>4. QED
    BY <1>1, <1>6, <2>1, <2>3 DEF InvoiceInv, DialogsAreNumbered
<1>8. TimersAreOwned'
  BY <1>1, <1>3, <1>6 DEF TimersAreOwned
<1>9. FormInv' /\ ~debounce'
  BY <1>1, FreshFormInv
<1>10. QED
  BY <1>2, <1>3, <1>4, <1>5, <1>7, <1>8, <1>9 DEF ModalInv, InvoiceInv

-----------------------------------------------------------------------------
(* Submissions. *)

LEMMA SubmitTypes ==
    ASSUME InvoiceTypeOK, NEW k \in Submits
    PROVE  /\ submits[k] = Unused \/ submits[k] \in Sent
           /\ submits[k] = Unused =>
                 submits[k].state = "unused" /\ submits[k].dialog = 0 /\ submits[k].price = "none"
           /\ submits[k].state # "unused" =>
                 /\ submits[k] \in Sent /\ submits[k].dialog \in Dialogs
                 /\ submits[k].price \in {"free", "paid"}
  BY DEF InvoiceTypeOK, Unused, Sent

\* A submission that is answered stays what it was.
LEMMA SubmitChanges ==
    ASSUME InvoiceTypeOK, NEW k \in Submits, submits[k].state # "unused",
           NEW s \in {"failed", "shown"}, submits' = [submits EXCEPT ![k].state = s]
    PROVE  /\ submits' \in [Submits -> {Unused} \cup Sent]
           /\ submits'[k].state = s
           /\ \A j \in Submits : j # k => submits'[j] = submits[j]
           /\ \A j \in Submits : /\ submits'[j].dialog = submits[j].dialog
                                 /\ submits'[j].price = submits[j].price
<1>1. submits \in [Submits -> {Unused} \cup Sent] /\ submits[k] \in Sent
  BY SubmitTypes DEF InvoiceTypeOK
<1>2. [submits[k] EXCEPT !.state = s] \in Sent
  BY <1>1 DEF Sent
<1>3. submits' = [submits EXCEPT ![k] = [submits[k] EXCEPT !.state = s]]
  OBVIOUS
<1>4. submits' \in [Submits -> {Unused} \cup Sent]
  BY <1>1, <1>2, <1>3
<1>5. /\ submits'[k] = [submits[k] EXCEPT !.state = s]
      /\ \A j \in Submits : j # k => submits'[j] = submits[j]
  BY <1>1, <1>3
<1>6. /\ submits'[k].state = s /\ submits'[k].dialog = submits[k].dialog
      /\ submits'[k].price = submits[k].price
  BY <1>1, <1>5 DEF Sent
<1>7. QED
  BY <1>4, <1>5, <1>6

LEMMA SubmitInv == ASSUME ModalInv, NEW k \in Submits, Submit(k) PROVE ModalInv'
<1>1. /\ FormInv /\ InvoiceInv /\ InvoiceTypeOK /\ (open = 0 => ~debounce)
      /\ open # 0 /\ shows[open] = 0 /\ enabled /\ lastQuote.name = typed
      /\ submits[k] = Unused
      /\ enabled' = FALSE
      /\ submits' = [submits EXCEPT ![k] = [dialog |-> open, name |-> typed,
                                            price |-> lastQuote.price, state |-> "sent"]]
      /\ opened' = opened /\ open' = open /\ shows' = shows /\ attempt' = attempt
      /\ page' = page /\ stopped' = stopped /\ polls' = polls
      /\ polling' = polling /\ ticking' = ticking /\ timers' = timers /\ crossed' = crossed
      /\ UNCHANGED <<typed, debounce, quoteSeq, quotes, lastQuote, message>>
  BY DEF ModalInv, InvoiceInv, Submit, AtForm, invoiceVars, timerVars
<1>2. FormInv' /\ debounce' = debounce
  BY <1>1, ButtonInv DEF FormInv, FormTypeOK
<1>3. /\ submits[k].state = "unused" /\ submits[k].price = "none"
      /\ k \notin Intervals /\ \A n \in 1 .. MaxPolls : polls[k][n] = "idle"
      /\ page[k] = "none"
  BY <1>1, SubmitTypes DEF InvoiceInv, InvoicesAreShown
<1>4. [dialog |-> open, name |-> typed, price |-> lastQuote.price, state |-> "sent"] \in Sent
  <2>1. open \in Dialogs
    BY <1>1, ModalAssumption DEF InvoiceInv, DialogsAreNumbered, Dialogs
  <2>2. typed # NoName
    BY <1>1 DEF FormInv, QuoteIsCurrent
  <2>3. lastQuote # NoQuote
    BY <1>1, <2>2 DEF NoQuote
  <2>4. typed \in Names /\ lastQuote.price \in {"free", "paid"}
    BY <1>1, <2>2, <2>3 DEF FormInv, FormTypeOK
  <2>5. QED
    BY <2>1, <2>4 DEF Sent
<1>5. /\ submits' \in [Submits -> {Unused} \cup Sent]
      /\ submits'[k].state = "sent" /\ submits'[k].dialog = open
      /\ \A j \in Submits : j # k => submits'[j] = submits[j]
  BY <1>1, <1>4 DEF InvoiceTypeOK
<1>6. InvoiceTypeOK' /\ IntervalTypeOK'
  BY <1>1, <1>5 DEF InvoiceInv, InvoiceTypeOK, IntervalTypeOK
<1>7. InvoicesAreShown'
  BY <1>1, <1>3, <1>5 DEF InvoiceInv, InvoicesAreShown, Intervals, Final
<1>8. HandlesAreKnown'
  BY <1>1 DEF InvoiceInv, HandlesAreKnown
<1>9. DialogsAreNumbered'
  BY <1>1, <1>5 DEF InvoiceInv, DialogsAreNumbered
<1>10. TimersAreOwned'
  BY <1>1 DEF InvoiceInv, TimersAreOwned, Intervals
<1>11. QED
  BY <1>1, <1>2, <1>6, <1>7, <1>8, <1>9, <1>10 DEF ModalInv, InvoiceInv

LEMMA SubmitFailsInv == ASSUME ModalInv, NEW k \in Submits, SubmitFails(k) PROVE ModalInv'
<1>1. /\ FormInv /\ InvoiceInv /\ InvoiceTypeOK /\ (open = 0 => ~debounce)
      /\ submits[k].state = "sent"
      /\ submits' = [submits EXCEPT ![k].state = "failed"]
      /\ opened' = opened /\ open' = open /\ shows' = shows /\ attempt' = attempt
      /\ page' = page /\ stopped' = stopped /\ polls' = polls
      /\ polling' = polling /\ ticking' = ticking /\ timers' = timers /\ crossed' = crossed
      /\ UNCHANGED <<typed, debounce, quoteSeq, quotes, lastQuote, message>>
      /\ enabled' = IF submits[k].dialog = open /\ AtForm
                    THEN lastQuote # NoQuote /\ lastQuote.name = typed ELSE enabled
  BY DEF ModalInv, InvoiceInv, SubmitFails, invoiceVars, timerVars
<1>2. /\ submits' \in [Submits -> {Unused} \cup Sent]
      /\ submits'[k].state = "failed"
      /\ \A j \in Submits : j # k => submits'[j] = submits[j]
      /\ \A j \in Submits : /\ submits'[j].dialog = submits[j].dialog
                            /\ submits'[j].price = submits[j].price
  BY <1>1, SubmitChanges
<1>3. /\ k \notin Intervals /\ \A n \in 1 .. MaxPolls : polls[k][n] = "idle"
      /\ page[k] = "none"
  BY <1>1 DEF InvoiceInv, InvoicesAreShown
<1>4. FormInv' /\ debounce' = debounce
  <2>1. enabled => lastQuote.name = typed /\ typed # NoName
    BY <1>1 DEF FormInv, QuoteIsCurrent
  <2>2. enabled => lastQuote # NoQuote
    BY <2>1 DEF NoQuote
  <2>3. /\ typed' \in Names \cup {NoName} /\ debounce' \in BOOLEAN /\ enabled' \in BOOLEAN
        /\ enabled' => lastQuote # NoQuote /\ lastQuote.name = typed'
    BY <1>1, <2>1, <2>2 DEF FormInv, FormTypeOK
  <2>4. QED
    BY <1>1, <2>3, ButtonInv
<1>5. InvoiceTypeOK' /\ IntervalTypeOK'
  BY <1>1, <1>2 DEF InvoiceInv, InvoiceTypeOK, IntervalTypeOK
<1>6. InvoicesAreShown'
  BY <1>1, <1>2, <1>3 DEF InvoiceInv, InvoicesAreShown, Intervals, Final
<1>7. HandlesAreKnown'
  BY <1>1 DEF InvoiceInv, HandlesAreKnown
<1>8. DialogsAreNumbered'
  BY <1>1, <1>2 DEF InvoiceInv, DialogsAreNumbered
<1>9. TimersAreOwned'
  <2>1. open # 0 /\ shows[open] # 0 => shows[open] \in Submits
    BY <1>1, ModalAssumption DEF InvoiceInv, DialogsAreNumbered, InvoiceTypeOK, Dialogs, Submits
  <2>2. QED
    BY <1>1, <1>2, <2>1 DEF InvoiceInv, TimersAreOwned, Intervals
<1>10. QED
  BY <1>1, <1>4, <1>5, <1>6, <1>7, <1>8, <1>9 DEF ModalInv, InvoiceInv

\* What the open dialog shows is a submission.
LEMMA ShownIsSubmit ==
    ASSUME InvoiceInv, open # 0, shows[open] # 0
    PROVE  open \in Dialogs /\ shows[open] \in Submits
  BY ModalAssumption DEF InvoiceInv, DialogsAreNumbered, InvoiceTypeOK, Dialogs, Submits

LEMMA FreeSuccessInv == ASSUME ModalInv, NEW k \in Submits, FreeSuccess(k) PROVE ModalInv'
<1> DEFINE d == submits[k].dialog
<1>1. /\ FormInv /\ InvoiceInv /\ InvoiceTypeOK /\ IntervalTypeOK /\ (open = 0 => ~debounce)
      /\ submits[k].state = "sent" /\ submits[k].price = "free"
      /\ submits' = [submits EXCEPT ![k].state = "shown"]
      /\ attempt' = [attempt EXCEPT ![k] = "complete"]
      /\ page' = [page EXCEPT ![k] = "complete"]
      /\ shows' = [shows EXCEPT ![d] = k]
      /\ FreshForm \/ UNCHANGED formVars
      /\ crossed' = (crossed \/ (d = open /\ Intervals # {}))
      /\ opened' = opened /\ open' = open /\ stopped' = stopped /\ polls' = polls
      /\ polling' = polling /\ ticking' = ticking /\ timers' = timers
  BY DEF ModalInv, InvoiceInv, FreeSuccess, Replace, timerVars
<1>2. d \in Dialogs /\ d <= opened
  BY <1>1, SubmitTypes DEF InvoiceInv, DialogsAreNumbered
<1> HIDE DEF d
<1>3. /\ submits' \in [Submits -> {Unused} \cup Sent]
      /\ submits'[k].state = "shown"
      /\ \A j \in Submits : j # k => submits'[j] = submits[j]
      /\ \A j \in Submits : /\ submits'[j].dialog = submits[j].dialog
                            /\ submits'[j].price = submits[j].price
  BY <1>1, SubmitChanges
<1>4. /\ k \notin Intervals /\ \A n \in 1 .. MaxPolls : polls[k][n] = "idle"
  BY <1>1 DEF InvoiceInv, InvoicesAreShown
<1>5. FormInv' /\ (debounce' => debounce)
  BY <1>1, FreshFormInv, SameFormInv
<1>6. /\ attempt'[k] = "complete" /\ page'[k] = "complete" /\ shows'[d] = k
      /\ \A j \in Submits : j # k => attempt'[j] = attempt[j] /\ page'[j] = page[j]
      /\ \A e \in Dialogs : e # d => shows'[e] = shows[e]
  BY <1>1, <1>2 DEF InvoiceTypeOK
<1>7. InvoiceTypeOK'
  <2>1. k \in 0 .. MaxSubmits
    BY ModalAssumption DEF Submits
  <2>2. shows' \in [Dialogs -> 0 .. MaxSubmits]
    BY <1>1, <2>1 DEF InvoiceTypeOK
  <2>3. /\ attempt' \in [Submits -> {"none", "pending", "publishing", "complete", "expired"}]
        /\ page' \in [Submits -> {"none", "waiting", "paid"} \cup Final]
    BY <1>1 DEF InvoiceTypeOK, Final
  <2>4. QED
    BY <1>1, <1>3, <2>2, <2>3 DEF InvoiceTypeOK
<1>8. IntervalTypeOK' /\ Intervals' = Intervals
  BY <1>1 DEF IntervalTypeOK, Intervals
<1>9. InvoicesAreShown'
  <2> SUFFICES ASSUME NEW j \in Submits
               PROVE  /\ j \in Intervals' \/ (\E n \in 1 .. MaxPolls : polls'[j][n] # "idle")
                         => submits'[j].state = "shown" /\ submits'[j].price = "paid"
                      /\ submits'[j].state = "shown" => attempt'[j] # "none"
                      /\ submits'[j].state # "shown" => page'[j] = "none"
                      /\ page'[j] \in Final /\ submits'[j].price = "paid" => stopped'[j]
    BY DEF InvoicesAreShown
  <2>1. CASE j = k
    BY <1>1, <1>3, <1>4, <1>6, <1>8, <2>1
  <2>2. CASE j # k
    BY <1>1, <1>3, <1>6, <1>8, <2>2 DEF InvoiceInv, InvoicesAreShown
  <2>3. QED
    BY <2>1, <2>2
<1>10. HandlesAreKnown'
  <2>1. \A j \in ticking : page[j] # "error" => page'[j] # "error"
    BY <1>1, <1>6 DEF IntervalTypeOK
  <2>2. QED
    BY <1>1, <2>1 DEF InvoiceInv, HandlesAreKnown
<1>11. DialogsAreNumbered'
  <2>1. \A e \in Dialogs : e > opened => e # d
    BY <1>1, <1>2 DEF InvoiceInv, DialogsAreNumbered, Dialogs
  <2>2. QED
    BY <1>1, <1>3, <1>6, <2>1 DEF InvoiceInv, DialogsAreNumbered
<1>12. TimersAreOwned'
  <2> SUFFICES ASSUME ~crossed' PROVE TimersAreOwned'
    BY DEF TimersAreOwned
  <2>1. CASE d = open
    <3>1. Intervals' = {} /\ shows'[open'] = k /\ submits'[k].price = "free"
      BY <1>1, <1>3, <1>6, <1>8, <2>1
    <3>2. QED
      BY <3>1 DEF TimersAreOwned
  <2>2. CASE d # open
    <3>1. open # 0 => open \in Dialogs /\ shows'[open] = shows[open]
      BY <1>1, <1>6, <2>2, ModalAssumption DEF InvoiceInv, DialogsAreNumbered, Dialogs
    <3>2. open # 0 /\ shows[open] # 0 => submits'[shows[open]].price = submits[shows[open]].price
      BY <1>1, <1>3, ShownIsSubmit
    <3>3. QED
      BY <1>1, <1>8, <3>1, <3>2 DEF InvoiceInv, TimersAreOwned
  <2>3. QED
    BY <2>1, <2>2
<1>13. QED
  BY <1>1, <1>5, <1>7, <1>8, <1>9, <1>10, <1>11, <1>12 DEF ModalInv, InvoiceInv

LEMMA ShowInvoiceInv ==
    ASSUME ModalInv, NEW k \in Submits, NEW due \in BOOLEAN, ShowInvoice(k, due)
    PROVE  ModalInv'
<1> DEFINE d == submits[k].dialog
<1>1. /\ FormInv /\ InvoiceInv /\ InvoiceTypeOK /\ IntervalTypeOK /\ (open = 0 => ~debounce)
      /\ submits[k].state = "sent" /\ submits[k].price = "paid"
      /\ submits' = [submits EXCEPT ![k].state = "shown"]
      /\ attempt' = [attempt EXCEPT ![k] = "pending"]
      /\ page' = [page EXCEPT ![k] = IF due THEN "expired" ELSE "waiting"]
      /\ stopped' = [stopped EXCEPT ![k] = due]
      /\ shows' = [shows EXCEPT ![d] = k]
      /\ FreshForm \/ UNCHANGED formVars
      /\ polling' = {k} \cup (IF due THEN polling \ {timers["poll"]} ELSE polling)
      /\ ticking' = {k} \cup (IF due THEN ticking \ {timers["countdown"]} ELSE ticking)
      /\ timers' = [t \in {"poll", "countdown"} |-> k]
      /\ crossed' = (crossed \/ d # open \/ Intervals # {})
      /\ opened' = opened /\ open' = open /\ polls' = polls
  BY DEF ModalInv, InvoiceInv, ShowInvoice, Replace
<1>2. d \in Dialogs /\ d <= opened /\ d # 0
  BY <1>1, SubmitTypes DEF InvoiceInv, DialogsAreNumbered, Dialogs
<1> HIDE DEF d
<1>3. /\ submits' \in [Submits -> {Unused} \cup Sent]
      /\ submits'[k].state = "shown"
      /\ \A j \in Submits : j # k => submits'[j] = submits[j]
      /\ \A j \in Submits : /\ submits'[j].dialog = submits[j].dialog
                            /\ submits'[j].price = submits[j].price
  BY <1>1, SubmitChanges
<1>4. FormInv' /\ (debounce' => debounce)
  BY <1>1, FreshFormInv, SameFormInv
<1>5. /\ attempt'[k] = "pending" /\ page'[k] = (IF due THEN "expired" ELSE "waiting")
      /\ stopped'[k] = due /\ shows'[d] = k
      /\ \A j \in Submits : j # k =>
            attempt'[j] = attempt[j] /\ page'[j] = page[j] /\ stopped'[j] = stopped[j]
      /\ \A e \in Dialogs : e # d => shows'[e] = shows[e]
  BY <1>1, <1>2 DEF InvoiceTypeOK
<1>6. k \in 0 .. MaxSubmits
  BY ModalAssumption DEF Submits
<1>7. InvoiceTypeOK'
  <2>1. shows' \in [Dialogs -> 0 .. MaxSubmits]
    BY <1>1, <1>6 DEF InvoiceTypeOK
  <2>2. /\ attempt' \in [Submits -> {"none", "pending", "publishing", "complete", "expired"}]
        /\ page' \in [Submits -> {"none", "waiting", "paid"} \cup Final]
        /\ stopped' \in [Submits -> BOOLEAN]
    BY <1>1 DEF InvoiceTypeOK, Final
  <2>3. QED
    BY <1>1, <1>3, <2>1, <2>2 DEF InvoiceTypeOK
<1>8. IntervalTypeOK'
  BY <1>1, <1>6 DEF IntervalTypeOK
<1>9. /\ Intervals' \subseteq {k} \cup Intervals
      /\ ~crossed' => polling' = {k} /\ ticking' = {k} /\ ~crossed /\ d = open
      /\ k \in polling' \cap ticking'
      /\ \A t \in {"poll", "countdown"} : timers'[t] = k
  BY <1>1 DEF Intervals
<1>10. InvoicesAreShown'
  <2> SUFFICES ASSUME NEW j \in Submits
               PROVE  /\ j \in Intervals' \/ (\E n \in 1 .. MaxPolls : polls'[j][n] # "idle")
                         => submits'[j].state = "shown" /\ submits'[j].price = "paid"
                      /\ submits'[j].state = "shown" => attempt'[j] # "none"
                      /\ submits'[j].state # "shown" => page'[j] = "none"
                      /\ page'[j] \in Final /\ submits'[j].price = "paid" => stopped'[j]
    BY DEF InvoicesAreShown
  <2>1. CASE j = k
    BY <1>1, <1>3, <1>5, <2>1 DEF Final
  <2>2. CASE j # k
    BY <1>1, <1>3, <1>5, <1>9, <2>2 DEF InvoiceInv, InvoicesAreShown
  <2>3. QED
    BY <2>1, <2>2
<1>11. HandlesAreKnown'
  BY <1>5, <1>9 DEF HandlesAreKnown
<1>12. DialogsAreNumbered'
  <2>1. \A e \in Dialogs : e > opened => e # d
    BY <1>1, <1>2 DEF InvoiceInv, DialogsAreNumbered, Dialogs
  <2>2. QED
    BY <1>1, <1>3, <1>5, <2>1 DEF InvoiceInv, DialogsAreNumbered
<1>13. TimersAreOwned'
  <2>1. ~crossed' => Intervals' = {k} /\ open' # 0 /\ shows'[open'] = k
    BY <1>1, <1>2, <1>5, <1>9 DEF Intervals
  <2>2. QED
    BY <1>9, <2>1 DEF TimersAreOwned
<1>14. QED
  BY <1>1, <1>4, <1>7, <1>8, <1>10, <1>11, <1>12, <1>13 DEF ModalInv, InvoiceInv

-----------------------------------------------------------------------------
(* The invoice. *)

\* The words of an invoice that runs or is polled change, and with words that end it
\* the record is cleared.
LEMMA StopInv ==
    ASSUME InvoiceInv, NEW k \in Submits, NEW words \in Final, StopWith(k, words),
           submits[k].state = "shown", submits[k].price = "paid",
           shows' = shows \/ shows' = [shows EXCEPT ![submits[k].dialog] = k],
           polls' \in [Submits -> [1 .. MaxPolls -> {"idle", "asked"} \cup Answers]],
           \A j \in Submits, n \in 1 .. MaxPolls : polls'[j][n] # "idle" => polls[j][n] # "idle",
           crossed' = (crossed \/ Intervals \ {k} # {}),
           UNCHANGED <<opened, open, submits, attempt>>
    PROVE  InvoiceInv'
<1> DEFINE d == submits[k].dialog
<1>1. /\ InvoiceTypeOK /\ IntervalTypeOK
      /\ stopped' = [stopped EXCEPT ![k] = TRUE]
      /\ page' = [page EXCEPT ![k] = words]
      /\ ClearIntervals
      /\ opened' = opened /\ open' = open /\ submits' = submits /\ attempt' = attempt
  BY DEF InvoiceInv, StopWith
<1>2. d \in Dialogs /\ d <= opened
  BY <1>1, SubmitTypes DEF InvoiceInv, DialogsAreNumbered
<1>3. shows' = shows \/ shows' = [shows EXCEPT ![d] = k]
  OBVIOUS
<1> HIDE DEF d
<1>4. /\ page'[k] = words /\ stopped'[k] = TRUE
      /\ \A j \in Submits : j # k => page'[j] = page[j] /\ stopped'[j] = stopped[j]
      /\ \A e \in Dialogs : e # d => shows'[e] = shows[e]
      /\ shows'[d] \in {k, shows[d]}
  BY <1>1, <1>2, <1>3 DEF InvoiceTypeOK
<1>5. InvoiceTypeOK'
  <2>1. k \in 0 .. MaxSubmits
    BY ModalAssumption DEF Submits
  <2>2. shows' \in [Dialogs -> 0 .. MaxSubmits]
    BY <1>1, <1>3, <2>1 DEF InvoiceTypeOK
  <2>3. /\ page' \in [Submits -> {"none", "waiting", "paid"} \cup Final]
        /\ stopped' \in [Submits -> BOOLEAN]
    BY <1>1 DEF InvoiceTypeOK
  <2>4. QED
    BY <1>1, <2>2, <2>3 DEF InvoiceTypeOK
<1>6. /\ IntervalTypeOK' /\ Intervals' \subseteq Intervals
      /\ ~crossed => polling' = {} /\ ticking' = {} /\ Intervals' = {}
  <2>1. crossed' \in BOOLEAN
    BY <1>1 DEF IntervalTypeOK
  <2>2. QED
    BY <1>1, <2>1, ClearedIntervals
<1>7. InvoicesAreShown'
  <2> SUFFICES ASSUME NEW j \in Submits
               PROVE  /\ j \in Intervals' \/ (\E n \in 1 .. MaxPolls : polls'[j][n] # "idle")
                         => submits'[j].state = "shown" /\ submits'[j].price = "paid"
                      /\ submits'[j].state = "shown" => attempt'[j] # "none"
                      /\ submits'[j].state # "shown" => page'[j] = "none"
                      /\ page'[j] \in Final /\ submits'[j].price = "paid" => stopped'[j]
    BY DEF InvoicesAreShown
  <2>1. CASE j = k
    BY <1>1, <1>4, <2>1 DEF InvoiceInv, InvoicesAreShown
  <2>2. CASE j # k
    BY <1>1, <1>4, <1>6, <2>2 DEF InvoiceInv, InvoicesAreShown
  <2>3. QED
    BY <2>1, <2>2
<1>8. HandlesAreKnown'
  BY <1>6 DEF HandlesAreKnown
<1>9. DialogsAreNumbered'
  <2>1. \A e \in Dialogs : e > opened => e # d
    BY <1>1, <1>2 DEF InvoiceInv, DialogsAreNumbered, Dialogs
  <2>2. QED
    BY <1>1, <1>4, <2>1 DEF InvoiceInv, DialogsAreNumbered
<1>10. TimersAreOwned'
  <2> SUFFICES ASSUME ~crossed' PROVE TimersAreOwned'
    BY DEF TimersAreOwned
  <2>1. ~crossed /\ Intervals \subseteq {k} /\ Intervals' = {}
    BY <1>6
  <2>2. ASSUME open # 0, shows'[open] # 0, submits[shows'[open]].price = "paid"
        PROVE  stopped'[shows'[open]]
    <3>1. open \in Dialogs
      BY <1>1, <2>2, ModalAssumption DEF InvoiceInv, DialogsAreNumbered, Dialogs
    <3>2. CASE shows'[open] = k
      BY <1>4, <3>2
    <3>3. CASE shows'[open] # k
      <4>1. shows'[open] = shows[open]
        BY <1>4, <3>1, <3>3
      <4>2. shows[open] \in Submits
        BY <2>2, <4>1, ShownIsSubmit
      <4>3. stopped[shows[open]]
        BY <2>1, <2>2, <3>3, <4>1 DEF InvoiceInv, TimersAreOwned, Intervals
      <4>4. QED
        BY <1>4, <3>3, <4>1, <4>2, <4>3
    <3>4. QED
      BY <3>2, <3>3
  <2>3. QED
    BY <1>1, <2>1, <2>2 DEF TimersAreOwned
<1>11. QED
  BY <1>5, <1>6, <1>7, <1>8, <1>9, <1>10 DEF InvoiceInv

LEMMA RunningIsShown ==
    ASSUME InvoiceInv, NEW k \in Submits,
           k \in Intervals \/ (\E n \in 1 .. MaxPolls : polls[k][n] # "idle")
    PROVE  submits[k].state = "shown" /\ submits[k].price = "paid" /\ attempt[k] # "none"
  BY DEF InvoiceInv, InvoicesAreShown

LEMMA TickInv == ASSUME ModalInv, NEW k \in Submits, Tick(k) PROVE ModalInv'
<1>1. /\ FormInv /\ InvoiceInv /\ (open = 0 => ~debounce) /\ UNCHANGED formVars
      /\ k \in Intervals /\ open' = open
  BY DEF ModalInv, Tick, Intervals
<1>2. submits[k].state = "shown" /\ submits[k].price = "paid"
  BY <1>1, RunningIsShown
<1>3. \E words \in Final : StopWith(k, words)
  BY DEF Tick, Final
<1>4. polls' \in [Submits -> [1 .. MaxPolls -> {"idle", "asked"} \cup Answers]]
  BY <1>1 DEF Tick, InvoiceInv, InvoiceTypeOK
<1>5. InvoiceInv'
  BY <1>1, <1>2, <1>3, <1>4, StopInv DEF Tick
<1>6. QED
  BY <1>1, <1>5, SameFormInv DEF ModalInv

\* A step that changes only requests under way, or what the operator knows.
LEMMA PollsInv ==
    ASSUME InvoiceInv, NEW k \in Submits,
           submits[k].state = "shown", submits[k].price = "paid",
           polls' \in [Submits -> [1 .. MaxPolls -> {"idle", "asked"} \cup Answers]],
           \A j \in Submits : j # k => polls'[j] = polls[j],
           attempt' \in [Submits -> {"none", "pending", "publishing", "complete", "expired"}],
           \A j \in Submits : attempt'[j] = "none" => attempt[j] = "none",
           UNCHANGED <<opened, open, shows, submits, invoiceVars, timerVars, crossed>>
    PROVE  InvoiceInv'
<1>1. /\ opened' = opened /\ open' = open /\ shows' = shows /\ submits' = submits
      /\ page' = page /\ stopped' = stopped
      /\ polling' = polling /\ ticking' = ticking /\ timers' = timers /\ crossed' = crossed
  BY DEF invoiceVars, timerVars
<1>2. InvoiceTypeOK' /\ IntervalTypeOK'
  BY <1>1 DEF InvoiceInv, InvoiceTypeOK, IntervalTypeOK
<1>3. InvoicesAreShown' /\ HandlesAreKnown'
  BY <1>1 DEF InvoiceInv, InvoicesAreShown, HandlesAreKnown, Intervals
<1>4. DialogsAreNumbered' /\ TimersAreOwned'
  BY <1>1 DEF InvoiceInv, DialogsAreNumbered, TimersAreOwned, Intervals
<1>5. QED
  BY <1>2, <1>3, <1>4 DEF InvoiceInv

LEMMA PollAsked ==
    ASSUME ModalInv, NEW k \in Submits, NEW n \in 1 .. MaxPolls,
           Poll(k, n) \/ PollServed(k, n)
    PROVE  ModalInv'
<1>1. /\ FormInv /\ InvoiceInv /\ InvoiceTypeOK /\ (open = 0 => ~debounce)
      /\ UNCHANGED formVars /\ open' = open /\ attempt' = attempt
      /\ UNCHANGED <<opened, open, shows, submits, invoiceVars, timerVars, crossed>>
  BY DEF ModalInv, InvoiceInv, Poll, PollServed
<1>2. k \in Intervals \/ (\E m \in 1 .. MaxPolls : polls[k][m] # "idle")
  BY DEF Poll, PollServed, Intervals
<1>3. submits[k].state = "shown" /\ submits[k].price = "paid" /\ attempt[k] # "none"
  BY <1>1, <1>2, RunningIsShown
<1>4. attempt[k] \in Answers
  BY <1>1, <1>3 DEF InvoiceTypeOK, Answers
<1>5. PICK answer \in {"asked"} \cup Answers : polls' = [polls EXCEPT ![k][n] = answer]
  BY <1>4 DEF Poll, PollServed, Answers
<1>6. /\ polls' \in [Submits -> [1 .. MaxPolls -> {"idle", "asked"} \cup Answers]]
      /\ \A j \in Submits : j # k => polls'[j] = polls[j]
  BY <1>1, <1>5 DEF InvoiceTypeOK
<1>7. InvoiceInv'
  BY <1>1, <1>3, <1>6, PollsInv DEF InvoiceTypeOK
<1>8. QED
  BY <1>1, <1>7, SameFormInv DEF ModalInv

LEMMA ProgressInv == ASSUME ModalInv, NEW k \in Submits, Progress(k) PROVE ModalInv'
<1>1. /\ FormInv /\ InvoiceInv /\ InvoiceTypeOK /\ (open = 0 => ~debounce)
      /\ UNCHANGED formVars /\ open' = open /\ polls' = polls /\ submits' = submits
      /\ UNCHANGED <<opened, open, shows, submits, invoiceVars, timerVars, crossed>>
      /\ submits[k].state = "shown"
  BY DEF ModalInv, InvoiceInv, Progress
<1>2. PICK next \in {"publishing", "expired", "complete"} : attempt' = [attempt EXCEPT ![k] = next]
  <2>1. PICK pair \in {<<"pending", "publishing">>, <<"pending", "expired">>,
                       <<"publishing", "complete">>} :
           attempt' = [attempt EXCEPT ![k] = pair[2]]
    BY DEF Progress
  <2>2. pair[2] \in {"publishing", "expired", "complete"}
    OBVIOUS
  <2>3. QED
    BY <2>1, <2>2
<1>3. /\ attempt' \in [Submits -> {"none", "pending", "publishing", "complete", "expired"}]
      /\ \A j \in Submits : attempt'[j] = "none" => attempt[j] = "none"
  BY <1>1, <1>2 DEF InvoiceTypeOK
<1>4. /\ opened' = opened /\ open' = open /\ shows' = shows
      /\ page' = page /\ stopped' = stopped
      /\ polling' = polling /\ ticking' = ticking /\ timers' = timers /\ crossed' = crossed
  BY <1>1 DEF invoiceVars, timerVars
<1>5. InvoiceTypeOK' /\ IntervalTypeOK'
  BY <1>1, <1>3, <1>4 DEF InvoiceInv, InvoiceTypeOK, IntervalTypeOK
<1>6. InvoicesAreShown' /\ HandlesAreKnown'
  BY <1>1, <1>3, <1>4 DEF InvoiceInv, InvoicesAreShown, HandlesAreKnown, Intervals
<1>7. DialogsAreNumbered' /\ TimersAreOwned'
  BY <1>1, <1>4 DEF InvoiceInv, DialogsAreNumbered, TimersAreOwned, Intervals
<1>8. QED
  BY <1>1, <1>5, <1>6, <1>7, SameFormInv DEF ModalInv, InvoiceInv

LEMMA PollAnswersInv ==
    ASSUME ModalInv, NEW k \in Submits, NEW n \in 1 .. MaxPolls, PollAnswers(k, n)
    PROVE  ModalInv'
<1>1. /\ FormInv /\ InvoiceInv /\ InvoiceTypeOK /\ (open = 0 => ~debounce)
      /\ UNCHANGED formVars /\ open' = open
      /\ UNCHANGED <<opened, open, submits, attempt>>
      /\ polls[k][n] \in Answers
      /\ polls' = [polls EXCEPT ![k][n] = "idle"]
      /\ crossed' = (crossed \/ (/\ polls[k][n] \in Final /\ ~stopped[k]
                                 /\ Intervals \ {k} # {}))
  BY DEF ModalInv, InvoiceInv, PollAnswers
<1>2. polls[k][n] # "idle"
  BY <1>1 DEF Answers
<1>3. submits[k].state = "shown" /\ submits[k].price = "paid" /\ attempt[k] # "none"
  BY <1>1, <1>2, RunningIsShown
<1>4. /\ polls' \in [Submits -> [1 .. MaxPolls -> {"idle", "asked"} \cup Answers]]
      /\ \A j \in Submits : j # k => polls'[j] = polls[j]
      /\ \A j \in Submits, m \in 1 .. MaxPolls : polls'[j][m] # "idle" => polls[j][m] # "idle"
  BY <1>1 DEF InvoiceTypeOK
<1>5. InvoiceInv'
  <2>1. CASE stopped[k]
    <3>1. UNCHANGED <<opened, open, shows, submits, invoiceVars, timerVars>>
      BY <1>1, <2>1 DEF PollAnswers, invoiceVars
    <3>2. crossed' = crossed
      BY <1>1, <2>1 DEF InvoiceInv, IntervalTypeOK
    <3>3. QED
      BY <1>1, <1>3, <1>4, <3>1, <3>2, PollsInv DEF InvoiceTypeOK
  <2>2. CASE ~stopped[k] /\ polls[k][n] \in Final
    <3>1. /\ StopWith(k, polls[k][n])
          /\ shows' = shows \/ shows' = [shows EXCEPT ![submits[k].dialog] = k]
      BY <1>1, <2>2 DEF PollAnswers, HandleStatus, Final
    <3>2. crossed' = (crossed \/ Intervals \ {k} # {})
      BY <1>1, <2>2
    <3>3. QED
      BY <1>1, <1>3, <1>4, <2>2, <3>1, <3>2, StopInv
  <2>3. CASE ~stopped[k] /\ polls[k][n] \notin Final
    <3>1. PICK words \in {"waiting", "paid"} : page' = [page EXCEPT ![k] = words]
      BY <1>1, <2>3 DEF PollAnswers, HandleStatus
    <3>2. /\ opened' = opened /\ open' = open /\ shows' = shows /\ submits' = submits
          /\ attempt' = attempt /\ stopped' = stopped
          /\ polling' = polling /\ ticking' = ticking /\ timers' = timers
          /\ crossed' = crossed
      BY <1>1, <2>3 DEF PollAnswers, HandleStatus, timerVars, InvoiceInv, IntervalTypeOK
    <3>3. /\ page'[k] = words /\ words \notin Final /\ words # "error"
          /\ \A j \in Submits : j # k => page'[j] = page[j]
          /\ page' \in [Submits -> {"none", "waiting", "paid"} \cup Final]
      <4>1. words \notin Final /\ words # "error"
        BY DEF Final
      <4>2. page \in [Submits -> {"none", "waiting", "paid"} \cup Final]
        BY <1>1 DEF InvoiceTypeOK
      <4>3. QED
        BY <3>1, <4>1, <4>2
    <3>4. InvoiceTypeOK' /\ IntervalTypeOK'
      BY <1>1, <1>4, <3>2, <3>3 DEF InvoiceInv, InvoiceTypeOK, IntervalTypeOK
    <3>5. InvoicesAreShown'
      <4> SUFFICES ASSUME NEW j \in Submits
                   PROVE  /\ j \in Intervals' \/ (\E m \in 1 .. MaxPolls : polls'[j][m] # "idle")
                             => submits'[j].state = "shown" /\ submits'[j].price = "paid"
                          /\ submits'[j].state = "shown" => attempt'[j] # "none"
                          /\ submits'[j].state # "shown" => page'[j] = "none"
                          /\ page'[j] \in Final /\ submits'[j].price = "paid" => stopped'[j]
        BY DEF InvoicesAreShown
      <4>1. Intervals' = Intervals
        BY <3>2 DEF Intervals
      <4>2. CASE j = k
        BY <1>3, <3>2, <3>3, <4>2
      <4>3. CASE j # k
        <5>1. /\ j \in Intervals \/ (\E m \in 1 .. MaxPolls : polls[j][m] # "idle")
                 => submits[j].state = "shown" /\ submits[j].price = "paid"
              /\ submits[j].state = "shown" => attempt[j] # "none"
              /\ submits[j].state # "shown" => page[j] = "none"
              /\ page[j] \in Final /\ submits[j].price = "paid" => stopped[j]
          BY <1>1 DEF InvoiceInv, InvoicesAreShown
        <5>2. page'[j] = page[j] /\ polls'[j] = polls[j]
          BY <1>4, <3>3, <4>3
        <5>3. QED
          BY <3>2, <4>1, <5>1, <5>2
      <4>4. QED
        BY <4>2, <4>3
    <3>6. HandlesAreKnown'
      <4>1. \A j \in ticking : page[j] # "error" => page'[j] # "error"
        BY <1>1, <3>3 DEF InvoiceInv, IntervalTypeOK
      <4>2. QED
        BY <1>1, <3>2, <4>1 DEF InvoiceInv, HandlesAreKnown
    <3>7. DialogsAreNumbered' /\ TimersAreOwned'
      BY <1>1, <3>2 DEF InvoiceInv, DialogsAreNumbered, TimersAreOwned, Intervals
    <3>8. QED
      BY <3>4, <3>5, <3>6, <3>7 DEF InvoiceInv
  <2>4. QED
    BY <2>1, <2>2, <2>3
<1>6. QED
  BY <1>1, <1>5, SameFormInv DEF ModalInv

LEMMA NextModal == ModalInv /\ [ModalNext]_modalVars => ModalInv'
<1> SUFFICES ASSUME ModalInv, [ModalNext]_modalVars PROVE ModalInv'
  OBVIOUS
<1>1. CASE OpenModal \/ CloseModal
  BY <1>1, ShellSteps
<1>2. CASE \/ RunQuote
           \/ \E name \in Names \cup {NoName} : Type(name)
           \/ \E q \in quotes : QuoteArrives(q)
  BY <1>2, FormSteps
<1>3. ASSUME NEW k \in Submits, Submit(k) PROVE ModalInv'
  BY <1>3, SubmitInv
<1>4. ASSUME NEW k \in Submits, SubmitFails(k) PROVE ModalInv'
  BY <1>4, SubmitFailsInv
<1>5. ASSUME NEW k \in Submits, FreeSuccess(k) PROVE ModalInv'
  BY <1>5, FreeSuccessInv
<1>6. ASSUME NEW k \in Submits, NEW due \in BOOLEAN, ShowInvoice(k, due) PROVE ModalInv'
  BY <1>6, ShowInvoiceInv
<1>7. ASSUME NEW k \in Submits, Invoice(k) PROVE ModalInv'
  BY <1>7, TickInv, ProgressInv, PollAsked, PollAnswersInv DEF Invoice
<1>8. CASE UNCHANGED modalVars
  <2>1. UNCHANGED formVars /\ UNCHANGED shellVars /\ open' = open
    BY <1>8 DEF modalVars, shellVars
  <2>2. QED
    BY <2>1, SameFormInv, SameShell DEF ModalInv
<1>9. QED
  BY <1>1, <1>2, <1>3, <1>4, <1>5, <1>6, <1>7, <1>8 DEF ModalNext

\* What a step makes of a final word.
LEMMA FinalStep ==
    ASSUME ModalInv, [ModalNext]_modalVars, NEW k \in Submits,
           page[k] \in Final, page'[k] # page[k]
    PROVE  crossed /\ page[k] = "error"
<1>1. InvoiceInv /\ InvoiceTypeOK /\ IntervalTypeOK /\ page' # page
  BY DEF ModalInv, InvoiceInv
<1>2. submits[k].state = "shown"
  BY <1>1 DEF InvoiceInv, InvoicesAreShown, Final
<1>3. PICK j \in Submits :
         \/ FreeSuccess(j) \/ (\E due \in BOOLEAN : ShowInvoice(j, due)) \/ Tick(j)
         \/ \E n \in 1 .. MaxPolls : PollAnswers(j, n)
  BY <1>1 DEF ModalNext, Invoice, OpenModal, CloseModal, Type, RunQuote, QuoteArrives,
              Submit, SubmitFails, Poll, PollServed, Progress, invoiceVars, modalVars
<1>4. \E words : page' = [page EXCEPT ![j] = words]
  BY <1>1, <1>3 DEF FreeSuccess, ShowInvoice, Tick, PollAnswers, HandleStatus, StopWith
<1>5. j = k
  BY <1>1, <1>4 DEF InvoiceTypeOK
<1>6. ~FreeSuccess(k) /\ ~\E due \in BOOLEAN : ShowInvoice(k, due)
  BY <1>2 DEF FreeSuccess, ShowInvoice
<1>7. ASSUME NEW n \in 1 .. MaxPolls, PollAnswers(k, n) PROVE FALSE
  <2>1. polls[k][n] # "idle"
    BY <1>7 DEF PollAnswers, Answers
  <2>2. submits[k].price = "paid"
    BY <1>1, <2>1, RunningIsShown
  <2>3. stopped[k]
    BY <1>1, <2>2 DEF InvoiceInv, InvoicesAreShown
  <2>4. QED
    BY <1>1, <1>7, <2>3 DEF PollAnswers
<1>8. CASE Tick(k)
  <2>1. k \in ticking /\ page'[k] = (IF page[k] = "complete" THEN "complete" ELSE "expired")
    BY <1>1, <1>8 DEF Tick, StopWith, InvoiceTypeOK
  <2>2. page[k] = "error"
    BY <2>1 DEF Final
  <2>3. QED
    BY <1>1, <2>1, <2>2 DEF InvoiceInv, HandlesAreKnown
<1>9. QED
  BY <1>3, <1>5, <1>6, <1>7, <1>8

-----------------------------------------------------------------------------
(* The Manage tab. *)

\* Every list is of the operator that was asked for it.
ListsAreOwn ==
    /\ \A o \in Operators : loads[o].stage = "answered" => \A r \in loads[o].list : r.op = o
    /\ \A i \in Actions : actions[i].stage # "none" =>
          \A r \in actions[i].list : r.op = actions[i].row.op

\* A table that loads, or is not there, has no rows to act on.
NothingShown ==
    /\ table = 0 \/ loading => rows = {}
    /\ loading => table # 0
    /\ \A o \in Operators : loads[o].stage # "none" => loading

\* Only what an operator has is updated, and it is not deleted meanwhile.
StagedAreHeld ==
    \A o \in Operators, n \in Addresses : staged[o][n] # NoTarget => held[o][n] # NoTarget

IsTrue(o) == Agrees(o, RowsOf(o)) \/ (RowsOf(o) = {} /\ o \in unreached)

\* An operator that is not in doubt has at most one action under way, on the table
\* that is seen.  The table is true before the operator is asked to change anything,
\* the list that was fetched afterwards agrees with what it lists, and so does the one
\* the table waits for.
OneAtATime(o) ==
    ~doubt[o] =>
       /\ \A i, j \in Actions : Underway(i, o) /\ Underway(j, o) => i = j
       /\ \A i \in Actions : Underway(i, o) =>
             /\ Seen(i)
             /\ actions[i].stage = "sent" => IsTrue(o)
             /\ actions[i].stage = "fetched" => Agrees(o, actions[i].list)
       /\ loading /\ loads[o].stage = "answered" => Agrees(o, loads[o].list)
       /\ Quiet(o) => IsTrue(o)

ManageInv == /\ ManageTypeOK /\ ListsAreOwn /\ NothingShown /\ StagedAreHeld
             /\ \A o \in Operators : OneAtATime(o)

LEMMA InitManage == ManageInit => ManageInv
<1> SUFFICES ASSUME ManageInit PROVE ManageInv
  OBVIOUS
<1>1. ManageTypeOK
  <2>1. table \in 0 .. MaxTables
    BY TablesAssumption DEF ManageInit
  <2>2. /\ held \in [Operators -> [Addresses -> Targets \cup {NoTarget}]]
        /\ staged \in [Operators -> [Addresses -> Targets \cup {NoTarget}]]
        /\ behind \in [Operators -> SUBSET Addresses]
    BY TargetsAssumption DEF ManageInit
  <2>3. QED
    BY <2>1, <2>2 DEF ManageInit, ManageTypeOK
<1>2. \A i \in Actions : actions[i] = NoAction /\ actions[i].stage = "none"
  BY DEF ManageInit, NoAction
<1>3. ListsAreOwn /\ NothingShown /\ StagedAreHeld
  BY <1>2 DEF ManageInit, ListsAreOwn, NothingShown, StagedAreHeld
<1>4. \A o \in Operators : OneAtATime(o)
  BY <1>2 DEF ManageInit, OneAtATime, Underway, Quiet
<1>5. QED
  BY <1>1, <1>3, <1>4 DEF ManageInv

Action == [table : 1 .. table, row : Row, to : Targets \cup {NoTarget},
           stage : {"sent", "served", "refetch", "fetched", "over"},
           list : Lists, here : BOOLEAN]
ActionsTypeOK == actions \in [Actions -> {NoAction} \cup Action]

LEMMA ActionTypes ==
    ASSUME ActionsTypeOK, NEW i \in Actions
    PROVE  /\ actions[i] = NoAction <=> actions[i].stage = "none"
           /\ actions[i].stage # "none" =>
                 /\ actions[i] \in Action
                 /\ actions[i].table \in 1 .. table
                 /\ actions[i].row.op \in Operators /\ actions[i].row.name \in Addresses
                 /\ actions[i].list \in Lists
           /\ \A o : Underway(i, o) <=> /\ actions[i].stage \notin {"none", "over"}
                                        /\ actions[i].row.op = o
  BY DEF ActionsTypeOK, Action, NoAction, Row, Underway

LEMMA NextActionTypes ==
    ASSUME ActionsTypeOK', NEW i \in Actions
    PROVE  \A o : Underway(i, o)' <=> /\ actions'[i].stage \notin {"none", "over"}
                                      /\ actions'[i].row.op = o
  BY DEF ActionsTypeOK, Action, NoAction, Row, Underway

\* What an action has is what it had; the buttons of its row may be others.
Kept(i) == /\ actions'[i].stage = actions[i].stage /\ actions'[i].list = actions[i].list
           /\ actions'[i].table = actions[i].table /\ actions'[i].row = actions[i].row

LEMMA RebuiltActions ==
    ASSUME ActionsTypeOK
    PROVE  /\ Rebuilt \in [Actions -> {NoAction} \cup Action]
           /\ \A i \in Actions :
                 /\ Rebuilt[i].stage = actions[i].stage /\ Rebuilt[i].list = actions[i].list
                 /\ Rebuilt[i].table = actions[i].table /\ Rebuilt[i].row = actions[i].row
                 /\ Rebuilt[i].stage # "none" => Rebuilt[i] \in Action
<1> SUFFICES ASSUME NEW i \in Actions
             PROVE  /\ Rebuilt[i] \in {NoAction} \cup Action
                    /\ Rebuilt[i].stage = actions[i].stage /\ Rebuilt[i].list = actions[i].list
                    /\ Rebuilt[i].table = actions[i].table /\ Rebuilt[i].row = actions[i].row
                    /\ Rebuilt[i].stage # "none" => Rebuilt[i] \in Action
  BY DEF Rebuilt
<1>1. CASE actions[i] = NoAction
  BY <1>1 DEF Rebuilt, NoAction
<1>2. CASE actions[i] # NoAction
  <2>1. actions[i] \in Action /\ Rebuilt[i] = [actions[i] EXCEPT !.here = FALSE]
    BY <1>2 DEF ActionsTypeOK, Rebuilt
  <2>2. QED
    BY <2>1 DEF Action
<1>3. QED
  BY <1>1, <1>2

\* An action moves on.
LEMMA ActionMoves ==
    ASSUME ActionsTypeOK, NEW i \in Actions, actions[i].stage # "none", table' = table,
           NEW before \in [Actions -> {NoAction} \cup Action],
           \A j \in Actions :
               /\ before[j].stage = actions[j].stage /\ before[j].list = actions[j].list
               /\ before[j].table = actions[j].table /\ before[j].row = actions[j].row,
           before[i] \in Action,
           NEW s \in {"sent", "served", "refetch", "fetched", "over"}, NEW l \in Lists,
           actions' = [before EXCEPT ![i] = [before[i] EXCEPT !.stage = s, !.list = l]]
    PROVE  /\ ActionsTypeOK'
           /\ actions'[i].stage = s /\ actions'[i].list = l
           /\ actions'[i].table = actions[i].table /\ actions'[i].row = actions[i].row
           /\ \A j \in Actions : j # i => Kept(j)
<1>1. Action' = Action
  BY DEF Action
<1>2. [before[i] EXCEPT !.stage = s, !.list = l] \in Action
  BY DEF Action
<1>3. actions' \in [Actions -> {NoAction} \cup Action]
  BY <1>2
<1>4. /\ actions'[i] = [before[i] EXCEPT !.stage = s, !.list = l]
      /\ \A j \in Actions : j # i => actions'[j] = before[j]
  OBVIOUS
<1>5. /\ actions'[i].stage = s /\ actions'[i].list = l
      /\ actions'[i].table = before[i].table /\ actions'[i].row = before[i].row
  BY <1>4 DEF Action
<1>6. QED
  BY <1>1, <1>3, <1>4, <1>5 DEF ActionsTypeOK, Kept

LEMMA StageMoves ==
    ASSUME ActionsTypeOK, NEW i \in Actions, actions[i].stage # "none", table' = table,
           NEW s \in {"sent", "served", "refetch", "fetched", "over"},
           actions' = [actions EXCEPT ![i].stage = s]
    PROVE  /\ ActionsTypeOK'
           /\ actions'[i].stage = s /\ actions'[i].list = actions[i].list
           /\ actions'[i].table = actions[i].table /\ actions'[i].row = actions[i].row
           /\ \A j \in Actions : j # i => Kept(j)
<1>1. actions[i] \in Action /\ actions \in [Actions -> {NoAction} \cup Action]
  BY ActionTypes DEF ActionsTypeOK
<1>2. [actions[i] EXCEPT !.stage = s] \in Action /\ Action' = Action
  BY <1>1 DEF Action
<1>3. actions' = [actions EXCEPT ![i] = [actions[i] EXCEPT !.stage = s]]
  OBVIOUS
<1>4. actions' \in [Actions -> {NoAction} \cup Action]
  BY <1>1, <1>2, <1>3
<1>5. /\ actions'[i] = [actions[i] EXCEPT !.stage = s]
      /\ \A j \in Actions : j # i => actions'[j] = actions[j]
  BY <1>1, <1>3
<1>6. /\ actions'[i].stage = s /\ actions'[i].list = actions[i].list
      /\ actions'[i].table = actions[i].table /\ actions'[i].row = actions[i].row
  BY <1>1, <1>5 DEF Action
<1>7. QED
  BY <1>2, <1>4, <1>5, <1>6 DEF ActionsTypeOK, Kept

LEMMA FinishMoves ==
    ASSUME ActionsTypeOK, NEW i \in Actions, actions[i].stage # "none", table' = table,
           Finish(i)
    PROVE  /\ ActionsTypeOK'
           /\ actions'[i].stage = "over" /\ actions'[i].list = actions[i].list
           /\ actions'[i].table = actions[i].table /\ actions'[i].row = actions[i].row
           /\ \A j \in Actions : j # i => Kept(j)
<1> DEFINE before == IF Seen(i) THEN Rebuilt ELSE actions
<1>1. actions[i] \in Action /\ actions[i].list \in Lists
  BY ActionTypes
<1>2. /\ before \in [Actions -> {NoAction} \cup Action]
      /\ \A j \in Actions :
               /\ before[j].stage = actions[j].stage /\ before[j].list = actions[j].list
               /\ before[j].table = actions[j].table /\ before[j].row = actions[j].row
      /\ before[i] \in Action
  BY <1>1, RebuiltActions DEF ActionsTypeOK
<1>3. actions' = [before EXCEPT ![i] = [before[i] EXCEPT !.stage = "over"]]
  BY DEF Finish
<1> HIDE DEF before
<1>4. [before[i] EXCEPT !.stage = "over"]
      = [before[i] EXCEPT !.stage = "over", !.list = actions[i].list]
  BY <1>2 DEF Action
<1>5. actions' = [before EXCEPT ![i] = [before[i] EXCEPT !.stage = "over", !.list = actions[i].list]]
  BY <1>3, <1>4
<1>6. QED
  BY <1>1, <1>2, <1>5, ActionMoves

LEMMA ManageTypes ==
    ManageTypeOK <=> /\ held \in [Operators -> [Addresses -> Targets \cup {NoTarget}]]
                     /\ staged \in [Operators -> [Addresses -> Targets \cup {NoTarget}]]
                     /\ behind \in [Operators -> SUBSET Addresses]
                     /\ table \in 0 .. MaxTables
                     /\ loading \in BOOLEAN
                     /\ loads \in [Operators -> [stage : {"none", "sent", "failed", "unreadable"}]
                                                \cup [stage : {"answered"}, list : Lists]]
                     /\ rows \subseteq Row
                     /\ unreached \subseteq Operators
                     /\ ActionsTypeOK
                     /\ doubt \in [Operators -> BOOLEAN]
  BY DEF ManageTypeOK, ActionsTypeOK, Action

LEMMA NextManageTypes ==
    ASSUME held' \in [Operators -> [Addresses -> Targets \cup {NoTarget}]],
           staged' \in [Operators -> [Addresses -> Targets \cup {NoTarget}]],
           behind' \in [Operators -> SUBSET Addresses],
           table' \in 0 .. MaxTables,
           loading' \in BOOLEAN,
           loads' \in [Operators -> [stage : {"none", "sent", "failed", "unreadable"}]
                                    \cup [stage : {"answered"}, list : Lists]],
           rows' \subseteq Row,
           unreached' \subseteq Operators,
           ActionsTypeOK',
           doubt' \in [Operators -> BOOLEAN]
    PROVE  ManageTypeOK'
  BY DEF ManageTypeOK, ActionsTypeOK, Action

LEMMA ListsAreLists ==
    ASSUME ManageTypeOK, NEW o \in Operators
    PROVE  ListOf(o) \in Lists /\ \A r \in ListOf(o) : r.op = o
<1>1. \A n \in Addresses : held[o][n] # NoTarget => held[o][n] \in Targets
  BY DEF ManageTypeOK
<1>2. QED
  BY <1>1 DEF ListOf, Lists, Row

\* The names of a list.
LEMMA ListedNames ==
    ASSUME NEW p, NEW m
    PROVE  m \in {r.name : r \in ListOf(p)} <=> m \in Addresses /\ held[p][m] # NoTarget
<1>1. ASSUME NEW r \in ListOf(p), m = r.name PROVE m \in Addresses /\ held[p][m] # NoTarget
  BY <1>1 DEF ListOf
<1>2. ASSUME m \in Addresses, held[p][m] # NoTarget
      PROVE  \E r \in ListOf(p) : m = r.name
  <2>1. [op |-> p, name |-> m, to |-> held[p][m]] \in ListOf(p)
    BY <1>2 DEF ListOf
  <2>2. QED
    BY <2>1
<1>3. QED
  BY <1>1, <1>2

LEMMA ListAgrees == ASSUME NEW o PROVE Agrees(o, ListOf(o))
  BY DEF Agrees

\* An operator none of whose actions, rows and addresses change.
LEMMA OthersAreLeft ==
    ASSUME ManageInv, NEW o \in Operators, ActionsTypeOK',
           UNCHANGED <<table, loading, loads>>,
           doubt'[o] = doubt[o], held'[o] = held[o], behind'[o] = behind[o],
           RowsOf(o)' = RowsOf(o),
           o \in unreached => o \in unreached',
           \A i \in Actions : \/ Kept(i)
                              \/ /\ actions[i].stage = "none" \/ actions[i].row.op # o
                                 /\ actions'[i].row.op # o
    PROVE  OneAtATime(o)'
<1>1. ActionsTypeOK /\ OneAtATime(o)
  BY ManageTypes DEF ManageInv
<1>2. \A i \in Actions : /\ Underway(i, o)' => Underway(i, o) /\ Kept(i)
                         /\ Underway(i, o) => Underway(i, o)'
  BY <1>1, ActionTypes, NextActionTypes DEF Kept
<1>3. /\ IsTrue(o) => IsTrue(o)'
      /\ Agrees(o, loads[o].list) => Agrees(o, loads[o].list)'
      /\ \A i \in Actions : Kept(i) /\ Agrees(o, actions[i].list) => Agrees(o, actions[i].list)'
  <2>1. ListOf(o)' = ListOf(o)
    BY DEF ListOf
  <2>2. IsTrue(o) => IsTrue(o)'
    BY <2>1 DEF IsTrue, Agrees
  <2>3. Agrees(o, loads[o].list) => Agrees(o, loads[o].list)'
    BY <2>1 DEF Agrees
  <2>4. \A i \in Actions : Kept(i) /\ Agrees(o, actions[i].list) => Agrees(o, actions[i].list)'
    BY <2>1 DEF Agrees, Kept
  <2>5. QED
    BY <2>2, <2>3, <2>4
<1>4. Quiet(o)' => Quiet(o)
  BY <1>2 DEF Quiet
<1>5. \A i \in Actions : Underway(i, o)' => (Seen(i) => Seen(i)')
  BY <1>2 DEF Seen, Kept
<1>6. ASSUME ~doubt'[o], NEW i \in Actions, Underway(i, o)'
      PROVE  /\ Seen(i)'
             /\ actions'[i].stage = "sent" => IsTrue(o)'
             /\ actions'[i].stage = "fetched" => Agrees(o, actions[i].list)'
  BY <1>1, <1>2, <1>3, <1>5, <1>6 DEF OneAtATime, Kept
<1>7. ~doubt'[o] => \A i, j \in Actions : Underway(i, o)' /\ Underway(j, o)' => i = j
  BY <1>1, <1>2 DEF OneAtATime
<1>8. ~doubt'[o] => /\ loading' /\ loads'[o].stage = "answered" => Agrees(o, loads[o].list)'
                    /\ Quiet(o)' => IsTrue(o)'
  BY <1>1, <1>3, <1>4 DEF OneAtATime
<1>9. QED
  BY <1>6, <1>7, <1>8 DEF OneAtATime

-----------------------------------------------------------------------------
(* Tables. *)

LEMMA RenderManageInv == ManageInv /\ RenderManage => ManageInv'
<1> SUFFICES ASSUME ManageInv, RenderManage PROVE ManageInv'
  OBVIOUS
<1>1. /\ ManageTypeOK /\ ActionsTypeOK /\ ListsAreOwn
      /\ table < MaxTables /\ table' = table + 1 /\ loading' = TRUE
      /\ loads' = [o \in Operators |-> [stage |-> "sent"]]
      /\ rows' = {} /\ unreached' = {}
      /\ held' = held /\ staged' = staged /\ behind' = behind
      /\ actions' = Rebuilt
      /\ doubt' = [o \in Operators |-> \E i \in Actions : Underway(i, o)]
      /\ StagedAreHeld'
  BY ManageTypes DEF ManageInv, RenderManage, operatorVars, StagedAreHeld
<1>2. table \in Nat /\ table' \in 0 .. MaxTables /\ 1 .. table \subseteq 1 .. table' /\ table' # 0
  BY <1>1, TablesAssumption DEF ManageTypeOK
<1>3. Action \subseteq Action'
  BY <1>2 DEF Action
<1>4. ActionsTypeOK'
  BY <1>1, <1>3, RebuiltActions DEF ActionsTypeOK
<1>5. \A i \in Actions : Kept(i)
  BY <1>1, RebuiltActions DEF Kept
<1>6. ManageTypeOK'
  BY <1>1, <1>2, <1>4, NextManageTypes DEF ManageTypeOK
<1>7. ListsAreOwn'
  BY <1>1, <1>5 DEF ListsAreOwn, Kept
<1>8. NothingShown'
  BY <1>1, <1>2 DEF NothingShown
<1>9. ASSUME NEW o \in Operators, ~doubt'[o] PROVE OneAtATime(o)'
  <2>1. \A i \in Actions : ~Underway(i, o)'
    BY <1>1, <1>4, <1>5, <1>9, ActionTypes, NextActionTypes DEF Kept
  <2>2. loads'[o].stage = "sent" /\ ~Quiet(o)'
    BY <1>1 DEF Quiet
  <2>3. QED
    BY <2>1, <2>2 DEF OneAtATime
<1>10. \A o \in Operators : OneAtATime(o)'
  BY <1>9 DEF OneAtATime
<1>11. QED
  BY <1>1, <1>6, <1>7, <1>8, <1>10 DEF ManageInv

LEMMA LoadServedInv ==
    ASSUME ManageInv, NEW p \in Operators, LoadServed(p)
    PROVE  ManageInv'
<1>1. /\ ManageTypeOK /\ ActionsTypeOK /\ ListsAreOwn /\ NothingShown /\ StagedAreHeld'
      /\ loads[p].stage = "sent" /\ loading
      /\ held' = held /\ staged' = staged /\ behind' = [behind EXCEPT ![p] = {}]
      /\ table' = table /\ loading' = loading /\ rows' = rows
      /\ unreached' = unreached /\ actions' = actions /\ doubt' = doubt
  BY ManageTypes DEF ManageInv, LoadServed, StagedAreHeld, NothingShown
<1>2. PICK answer \in {[stage |-> "answered", list |-> ListOf(p)],
                       [stage |-> "failed"], [stage |-> "unreadable"]} :
         loads' = [loads EXCEPT ![p] = answer]
  BY DEF LoadServed
<1>3. /\ loads'[p] = answer
      /\ \A o \in Operators : o # p => loads'[o] = loads[o]
      /\ loads' \in [Operators -> [stage : {"none", "sent", "failed", "unreadable"}]
                                  \cup [stage : {"answered"}, list : Lists]]
  BY <1>1, <1>2, ListsAreLists DEF ManageTypeOK
<1>4. answer.stage = "answered" => answer.list = ListOf(p)
  BY <1>2
<1>5. ActionsTypeOK' /\ behind' \in [Operators -> SUBSET Addresses]
  BY <1>1 DEF ActionsTypeOK, Action, ManageTypeOK
<1>6. ManageTypeOK'
  BY <1>1, <1>3, <1>5, NextManageTypes DEF ManageTypeOK
<1>7. ListsAreOwn'
  BY <1>1, <1>3, <1>4, ListsAreLists DEF ListsAreOwn
<1>8. NothingShown'
  BY <1>1 DEF NothingShown
<1>9. ASSUME NEW o \in Operators, ~doubt'[o] PROVE OneAtATime(o)'
  <2>1. OneAtATime(o) /\ ~doubt[o]
    BY <1>1, <1>9 DEF ManageInv
  <2>2. \A i \in Actions : ~Underway(i, o)
    BY <1>1, <2>1 DEF OneAtATime, Seen
  <2>3. (\A i \in Actions : ~Underway(i, o)') /\ ~Quiet(o)'
    BY <1>1, <2>2 DEF Underway, Quiet
  <2>4. loads'[o].stage = "answered" => Agrees(o, loads[o].list)'
    <3>0. ListOf(o)' = ListOf(o)
      BY <1>1 DEF ListOf
    <3>1. CASE o = p
      <4>1. loads'[o].stage = "answered" => loads'[o].list = ListOf(o)'
        BY <1>3, <1>4, <3>0, <3>1
      <4>2. QED
        BY <4>1 DEF Agrees
    <3>2. CASE o # p
      <4>1. loads'[o] = loads[o] /\ behind'[o] = behind[o]
        BY <1>1, <1>3, <3>2 DEF ManageTypeOK
      <4>2. loads[o].stage = "answered" => Agrees(o, loads[o].list)
        BY <1>1, <2>1 DEF OneAtATime
      <4>3. QED
        BY <3>0, <4>1, <4>2 DEF Agrees
    <3>3. QED
      BY <3>1, <3>2
  <2>5. QED
    BY <2>3, <2>4 DEF OneAtATime
<1>10. \A o \in Operators : OneAtATime(o)'
  BY <1>9 DEF OneAtATime
<1>11. QED
  BY <1>1, <1>6, <1>7, <1>8, <1>10 DEF ManageInv

LEMMA LoadedInv == ManageInv /\ Loaded => ManageInv'
<1> SUFFICES ASSUME ManageInv, Loaded PROVE ManageInv'
  OBVIOUS
<1>1. /\ ManageTypeOK /\ ActionsTypeOK /\ ListsAreOwn /\ NothingShown
      /\ loading /\ loading' = FALSE
      /\ \A o \in Operators : loads[o].stage \in {"answered", "failed"}
      /\ rows' = UNION {loads[o].list : o \in {p \in Operators : loads[p].stage = "answered"}}
      /\ unreached' = {o \in Operators : loads[o].stage = "failed"}
      /\ loads' = [o \in Operators |-> [stage |-> "none"]]
      /\ held' = held /\ staged' = staged /\ behind' = behind /\ StagedAreHeld'
      /\ table' = table /\ actions' = actions /\ doubt' = doubt
  BY ManageTypes DEF ManageInv, Loaded, operatorVars, StagedAreHeld
<1>2. \A o \in Operators : loads[o].stage = "answered" => loads[o].list \subseteq Row
  BY <1>1 DEF ManageTypeOK, Lists
<1>3. rows' \subseteq Row
  BY <1>1, <1>2
<1>4. ActionsTypeOK'
  BY <1>1 DEF ActionsTypeOK, Action
<1>5. ManageTypeOK'
  BY <1>1, <1>3, <1>4, NextManageTypes DEF ManageTypeOK
<1>6. ListsAreOwn'
  BY <1>1 DEF ListsAreOwn
<1>7. NothingShown'
  BY <1>1 DEF NothingShown
<1>8. ASSUME NEW o \in Operators, ~doubt'[o] PROVE OneAtATime(o)'
  <2>1. OneAtATime(o) /\ ~doubt[o]
    BY <1>1, <1>8 DEF ManageInv
  <2>2. \A i \in Actions : ~Underway(i, o)
    BY <1>1, <2>1 DEF OneAtATime, Seen
  <2>3. \A i \in Actions : ~Underway(i, o)'
    BY <1>1, <2>2 DEF Underway
  <2>4. ListOf(o)' = ListOf(o) /\ behind'[o] = behind[o]
    BY <1>1 DEF ListOf
  <2>5. IsTrue(o)'
    <3>1. CASE loads[o].stage = "answered"
      <4>1. Agrees(o, loads[o].list)
        BY <1>1, <2>1, <3>1 DEF OneAtATime
      <4>2. \A r : r \in RowsOf(o)' <=> r \in loads[o].list
        BY <1>1, <3>1 DEF RowsOf, ListsAreOwn
      <4>3. RowsOf(o)' = loads[o].list
        BY <4>2
      <4>4. QED
        BY <2>4, <4>1, <4>3 DEF IsTrue, Agrees
    <3>2. CASE loads[o].stage = "failed"
      <4>1. RowsOf(o)' = {} /\ o \in unreached'
        BY <1>1, <3>2 DEF RowsOf, ListsAreOwn
      <4>2. QED
        BY <4>1 DEF IsTrue
    <3>3. QED
      BY <1>1, <3>1, <3>2
  <2>6. QED
    BY <1>1, <2>3, <2>5 DEF OneAtATime
<1>9. \A o \in Operators : OneAtATime(o)'
  BY <1>8 DEF OneAtATime
<1>10. QED
  BY <1>1, <1>5, <1>6, <1>7, <1>9 DEF ManageInv

-----------------------------------------------------------------------------
(* Actions. *)

LEMMA ActInv ==
    ASSUME ManageInv, NEW i \in Actions, NEW r \in rows, NEW to \in Targets \cup {NoTarget},
           Act(i, r, to)
    PROVE  ManageInv'
<1> DEFINE new == [table |-> table, row |-> r, to |-> to, stage |-> "sent", list |-> {},
                   here |-> TRUE]
<1>1. /\ ManageTypeOK /\ ActionsTypeOK /\ ListsAreOwn /\ NothingShown
      /\ actions[i] = NoAction /\ actions[i].stage = "none"
      /\ actions' = [actions EXCEPT ![i] = new]
      /\ doubt' = [doubt EXCEPT ![r.op] = @ \/ \E j \in Actions : Underway(j, r.op)]
      /\ held' = held /\ staged' = staged /\ behind' = behind /\ StagedAreHeld'
      /\ table' = table /\ loading' = loading /\ loads' = loads
      /\ rows' = rows /\ unreached' = unreached
  BY ManageTypes, ActionTypes DEF ManageInv, Act, operatorVars, StagedAreHeld
<1>2. /\ r \in Row /\ r.op \in Operators
      /\ table # 0 /\ ~loading /\ table \in 1 .. table
  BY <1>1, TablesAssumption DEF ManageTypeOK, Row, NothingShown
<1>3. new \in Action
  BY <1>2 DEF Action, Lists
<1>4. /\ new.stage = "sent" /\ new.row = r /\ new.list = {} /\ new.table = table
  OBVIOUS
<1> HIDE DEF new
<1>5. /\ actions'[i] = new
      /\ \A j \in Actions : j # i => actions'[j] = actions[j] /\ Kept(j)
      /\ ActionsTypeOK'
  BY <1>1, <1>3 DEF ActionsTypeOK, Action, Kept
<1>6. /\ doubt' \in [Operators -> BOOLEAN]
      /\ doubt'[r.op] = (doubt[r.op] \/ \E j \in Actions : Underway(j, r.op))
      /\ \A o \in Operators : o # r.op => doubt'[o] = doubt[o]
  BY <1>1, <1>2 DEF ManageTypeOK
<1>7. ManageTypeOK'
  BY <1>1, <1>5, <1>6, NextManageTypes DEF ManageTypeOK
<1>8. ListsAreOwn'
  BY <1>1, <1>4, <1>5 DEF ListsAreOwn
<1>9. NothingShown'
  BY <1>1 DEF NothingShown
<1>10. ASSUME NEW o \in Operators, o # r.op PROVE OneAtATime(o)'
  <2>1. doubt'[o] = doubt[o] /\ RowsOf(o)' = RowsOf(o)
    BY <1>1, <1>6, <1>10 DEF RowsOf
  <2>2. actions'[i].row.op # o
    BY <1>4, <1>5, <1>10
  <2>3. QED
    BY <1>1, <1>5, <2>1, <2>2, OthersAreLeft
<1>11. ASSUME ~doubt'[r.op] PROVE OneAtATime(r.op)'
  <2>1. OneAtATime(r.op) /\ ~doubt[r.op] /\ \A j \in Actions : ~Underway(j, r.op)
    BY <1>2, <1>6, <1>11 DEF ManageInv
  <2>2. IsTrue(r.op)
    BY <1>1, <1>2, <2>1, TablesAssumption DEF OneAtATime, Quiet, ManageTypeOK
  <2>3. IsTrue(r.op)'
    BY <1>1, <2>2 DEF IsTrue, RowsOf, ListOf, Agrees
  <2>4. \A j \in Actions : Underway(j, r.op)' => j = i
    BY <1>1, <1>5, <2>1, ActionTypes, NextActionTypes DEF Kept
  <2>5. Underway(i, r.op)' /\ Seen(i)' /\ actions'[i].stage = "sent"
    BY <1>1, <1>2, <1>4, <1>5, NextActionTypes DEF Seen
  <2>6. ~Quiet(r.op)' /\ ~loading'
    BY <1>1, <1>2, <2>5 DEF Quiet
  <2>7. QED
    BY <2>3, <2>4, <2>5, <2>6 DEF OneAtATime
<1>12. \A o \in Operators : OneAtATime(o)'
  <2>1. OneAtATime(r.op)'
    BY <1>11 DEF OneAtATime
  <2>2. QED
    BY <1>10, <2>1
<1>13. QED
  BY <1>1, <1>7, <1>8, <1>9, <1>12 DEF ManageInv

\* A step of action i at its operator o.
LEMMA ContinueInv ==
    ASSUME ManageInv, NEW i \in Actions, NEW o \in Operators,
           actions[i].stage # "none", actions[i].row.op = o,
           UNCHANGED <<table, loading, loads>>,
           held' \in [Operators -> [Addresses -> Targets \cup {NoTarget}]],
           staged' \in [Operators -> [Addresses -> Targets \cup {NoTarget}]],
           behind' \in [Operators -> SUBSET Addresses], StagedAreHeld',
           rows' \subseteq Row, unreached' \subseteq Operators,
           doubt' \in [Operators -> BOOLEAN], doubt[o] => doubt'[o],
           ActionsTypeOK', actions'[i].row = actions[i].row,
           actions'[i].stage # "none",
           \A r \in actions'[i].list : r.op = o,
           \A j \in Actions : j # i => Kept(j),
           table = 0 \/ loading => rows' = {},
           \A p \in Operators : p # o =>
               /\ doubt'[p] = doubt[p] /\ held'[p] = held[p] /\ behind'[p] = behind[p]
               /\ RowsOf(p)' = RowsOf(p) /\ (p \in unreached => p \in unreached'),
           ~doubt'[o] => /\ Underway(i, o) /\ ~loading
                         /\ Underway(i, o)' =>
                               /\ Seen(i)'
                               /\ actions'[i].stage = "sent" => IsTrue(o)'
                               /\ actions'[i].stage = "fetched" =>
                                     Agrees(o, actions[i].list)'
                         /\ ~Underway(i, o)' => IsTrue(o)'
    PROVE  ManageInv'
<1>1. /\ ManageTypeOK /\ ActionsTypeOK /\ ListsAreOwn /\ NothingShown
      /\ table' = table /\ loading' = loading /\ loads' = loads
  BY ManageTypes DEF ManageInv
<1>2. ManageTypeOK'
  BY <1>1, NextManageTypes DEF ManageTypeOK
<1>3. ListsAreOwn'
  BY <1>1 DEF ListsAreOwn, Kept
<1>4. NothingShown'
  BY <1>1 DEF NothingShown
<1>5. ASSUME NEW p \in Operators, p # o PROVE OneAtATime(p)'
  BY <1>5, OthersAreLeft
<1>6. ASSUME ~doubt'[o] PROVE OneAtATime(o)'
  <2>1. OneAtATime(o) /\ ~doubt[o]
    BY <1>6 DEF ManageInv
  <2>2. Underway(i, o) /\ ~loading'
    BY <1>1, <1>6, <2>1
  <2>3. \A j \in Actions : Underway(j, o)' => j = i
    <3>1. \A j \in Actions : j # i => ~Underway(j, o)
      BY <2>1, <2>2 DEF OneAtATime
    <3>2. QED
      BY <1>1, <3>1, ActionTypes, NextActionTypes DEF Kept
  <2>4. Quiet(o)' => IsTrue(o)'
    BY <1>6, <2>1 DEF Quiet
  <2>5. Underway(i, o)' => /\ Seen(i)'
                           /\ actions'[i].stage = "sent" => IsTrue(o)'
                           /\ actions'[i].stage = "fetched" => Agrees(o, actions[i].list)'
    BY <1>6, <2>1
  <2>6. QED
    BY <2>2, <2>3, <2>4, <2>5 DEF OneAtATime
<1>7. \A p \in Operators : OneAtATime(p)'
  <2>1. OneAtATime(o)'
    BY <1>6 DEF OneAtATime
  <2>2. QED
    BY <1>5, <2>1
<1>8. QED
  BY <1>2, <1>3, <1>4, <1>7 DEF ManageInv

\* What is known of an action that is under way.
LEMMA ActionUnderway ==
    ASSUME ManageInv, NEW i \in Actions, actions[i].stage \notin {"none", "over"},
           NEW o, actions[i].row.op = o
    PROVE  /\ ManageTypeOK /\ ActionsTypeOK /\ actions[i] \in Action
           /\ o \in Operators /\ actions[i].row.name \in Addresses
           /\ actions[i].table # 0
           /\ actions[i].list \in Lists /\ \A r \in actions[i].list : r.op = o
           /\ Underway(i, o)
           /\ ~doubt[o] =>
                 /\ Seen(i) /\ ~loading
                 /\ actions[i].stage = "sent" => IsTrue(o)
                 /\ actions[i].stage = "fetched" => Agrees(o, actions[i].list)
<1>1. ManageTypeOK /\ ActionsTypeOK
  BY ManageTypes DEF ManageInv
<1>2. /\ actions[i] \in Action /\ o \in Operators
      /\ actions[i].row.name \in Addresses /\ actions[i].table \in 1 .. table
      /\ actions[i].list \in Lists /\ Underway(i, o)
  BY <1>1, ActionTypes
<1>3. actions[i].table # 0
  BY <1>2
<1>4. \A r \in actions[i].list : r.op = o
  BY DEF ManageInv, ListsAreOwn
<1>5. OneAtATime(o)
  BY <1>2 DEF ManageInv
<1>6. ~doubt[o] => /\ Seen(i) /\ ~loading
                   /\ actions[i].stage = "sent" => IsTrue(o)
                   /\ actions[i].stage = "fetched" => Agrees(o, actions[i].list)
  BY <1>2, <1>5 DEF OneAtATime, Seen
<1>7. QED
  BY <1>1, <1>2, <1>3, <1>4, <1>6

\* The row tells that the operator was asked, or that it refused, or the list is asked
\* for: nothing of the table or the addresses changes.
LEMMA SameTable ==
    ASSUME ManageInv, NEW i \in Actions, actions[i].stage \notin {"none", "over"},
           NEW o, actions[i].row.op = o,
           Refetch(i) \/ RefetchServed(i) \/ ActFails(i)
    PROVE  ManageInv'
<1>1. /\ ManageTypeOK /\ ActionsTypeOK /\ o \in Operators
      /\ \A r \in actions[i].list : r.op = o
      /\ Underway(i, o)
      /\ ~doubt[o] => Seen(i) /\ ~loading /\ (actions[i].stage = "sent" => IsTrue(o))
  BY ActionUnderway
<1>2. /\ held' = held /\ staged' = staged
      /\ behind' = behind \/ (RefetchServed(i) /\ behind' = [behind EXCEPT ![o] = {}])
      /\ table' = table /\ loading' = loading /\ loads' = loads
      /\ rows' = rows /\ unreached' = unreached
  BY DEF Refetch, RefetchServed, ActFails, operatorVars
<1>3. ListOf(o) \in Lists /\ \A r \in ListOf(o) : r.op = o
  BY <1>1, ListsAreLists
<1>4. /\ ActionsTypeOK' /\ actions'[i].row = actions[i].row
      /\ actions'[i].table = actions[i].table
      /\ actions'[i].stage \in {"refetch", "fetched", "over"}
      /\ actions'[i].list \in {actions[i].list, ListOf(o)}
      /\ actions'[i].stage = "fetched" => actions'[i].list = ListOf(o)
      /\ \A j \in Actions : j # i => Kept(j)
  <2>1. CASE Refetch(i)
    BY <1>1, <1>2, <2>1, StageMoves DEF Refetch
  <2>2. CASE ActFails(i)
    BY <1>1, <1>2, <2>2, StageMoves DEF ActFails
  <2>3. CASE RefetchServed(i)
    <3>1. actions' = [actions EXCEPT ![i] = [actions[i] EXCEPT !.stage = "fetched",
                                                               !.list = ListOf(o)]]
      BY <1>1, <2>3 DEF RefetchServed, ActionsTypeOK
    <3>2. actions[i] \in Action /\ actions \in [Actions -> {NoAction} \cup Action]
      BY <1>1, ActionUnderway DEF ActionsTypeOK
    <3>3. [actions[i] EXCEPT !.stage = "fetched", !.list = ListOf(o)] \in Action
      BY <1>3, <3>2 DEF Action
    <3>4. /\ actions'[i] = [actions[i] EXCEPT !.stage = "fetched", !.list = ListOf(o)]
          /\ \A j \in Actions : j # i => actions'[j] = actions[j]
          /\ actions' \in [Actions -> {NoAction} \cup Action]
      BY <3>1, <3>2, <3>3
    <3>5. /\ actions'[i].stage = "fetched" /\ actions'[i].list = ListOf(o)
          /\ actions'[i].table = actions[i].table /\ actions'[i].row = actions[i].row
      BY <3>2, <3>4 DEF Action
    <3>6. Action' = Action
      BY <1>2 DEF Action
    <3>7. QED
      BY <3>4, <3>5, <3>6 DEF ActionsTypeOK, Kept
  <2>4. QED
    BY <2>1, <2>2, <2>3
<1>5. /\ doubt' \in [Operators -> BOOLEAN] /\ (doubt[o] => doubt'[o])
      /\ \A p \in Operators : p # o => doubt'[p] = doubt[p]
      /\ ~doubt'[o] /\ actions'[i].stage = "over" =>
            actions[i].stage = "sent" /\ behind' = behind
  <2>1. CASE Refetch(i) \/ RefetchServed(i)
    <3>1. doubt' = doubt
      BY <2>1 DEF Refetch, RefetchServed
    <3>2. actions'[i].stage # "over"
      BY <1>1, <1>2, <2>1, StageMoves, <1>4 DEF Refetch, RefetchServed, ActionsTypeOK
    <3>3. QED
      BY <1>1, <3>1, <3>2 DEF ManageTypeOK
  <2>2. CASE ActFails(i)
    BY <1>1, <2>2 DEF ActFails, ManageTypeOK, operatorVars
  <2>3. QED
    BY <2>1, <2>2
<1>6. /\ Seen(i) <=> Seen(i)'
      /\ behind' = behind => (IsTrue(o) => IsTrue(o)')
      /\ ListOf(o)' = ListOf(o)
      /\ actions'[i].stage = "fetched" => Agrees(o, actions[i].list)'
      /\ \A p \in Operators : RowsOf(p)' = RowsOf(p)
  BY <1>2, <1>4 DEF Seen, IsTrue, ListOf, RowsOf, Agrees
<1>7. Underway(i, o)' <=> actions'[i].stage # "over"
  BY <1>4, NextActionTypes
<1>8. ~doubt'[o] => /\ Underway(i, o) /\ ~loading
                    /\ Underway(i, o)' =>
                          /\ Seen(i)'
                          /\ actions'[i].stage = "sent" => IsTrue(o)'
                          /\ actions'[i].stage = "fetched" => Agrees(o, actions[i].list)'
                    /\ ~Underway(i, o)' => IsTrue(o)'
  BY <1>1, <1>4, <1>5, <1>6, <1>7
<1>9. /\ \A r \in actions'[i].list : r.op = o
      /\ actions'[i].stage # "none" /\ actions[i].stage # "none"
      /\ table = 0 \/ loading => rows' = {}
  BY <1>1, <1>2, <1>3, <1>4 DEF ManageInv, NothingShown
<1>10. /\ held' \in [Operators -> [Addresses -> Targets \cup {NoTarget}]]
       /\ staged' \in [Operators -> [Addresses -> Targets \cup {NoTarget}]]
       /\ behind' \in [Operators -> SUBSET Addresses] /\ StagedAreHeld'
       /\ rows' \subseteq Row /\ unreached' \subseteq Operators
  BY <1>1, <1>2 DEF ManageTypeOK, ManageInv, StagedAreHeld
<1>11. \A p \in Operators : p # o =>
          /\ doubt'[p] = doubt[p] /\ held'[p] = held[p] /\ behind'[p] = behind[p]
          /\ RowsOf(p)' = RowsOf(p) /\ (p \in unreached => p \in unreached')
  BY <1>1, <1>2, <1>5, <1>6 DEF ManageTypeOK
<1>12. QED
  BY <1>1, <1>2, <1>4, <1>5, <1>8, <1>9, <1>10, <1>11, ContinueInv

LEMMA ActServedInv ==
    ASSUME ManageInv, NEW i \in Actions, ActServed(i), NEW o, actions[i].row.op = o
    PROVE  ManageInv'
<1> DEFINE n == actions[i].row.name
<1>1. /\ actions[i].stage = "sent"
      /\ actions' = [actions EXCEPT ![i].stage = "served"]
      /\ held[o][n] # NoTarget /\ staged[o][n] = NoTarget
      /\ \/ held' = [held EXCEPT ![o][n] = NoTarget] /\ staged' = staged
         \/ /\ actions[i].to # NoTarget
            /\ staged' = [staged EXCEPT ![o][n] = actions[i].to] /\ held' = held
      /\ behind' = behind
      /\ table' = table /\ loading' = loading /\ loads' = loads /\ rows' = rows
      /\ unreached' = unreached /\ doubt' = doubt
  BY DEF ActServed
<1>2. /\ ManageTypeOK /\ ActionsTypeOK /\ actions[i] \in Action /\ o \in Operators
      /\ actions[i].row.name \in Addresses
      /\ \A r \in actions[i].list : r.op = o
      /\ Underway(i, o) /\ (~doubt[o] => Seen(i) /\ ~loading)
  BY <1>1, ActionUnderway
<1>3. /\ ActionsTypeOK'
      /\ actions'[i].stage = "served" /\ actions'[i].list = actions[i].list
      /\ actions'[i].table = actions[i].table /\ actions'[i].row = actions[i].row
      /\ \A j \in Actions : j # i => Kept(j)
  BY <1>1, <1>2, StageMoves
<1>4. /\ held' \in [Operators -> [Addresses -> Targets \cup {NoTarget}]]
      /\ staged' \in [Operators -> [Addresses -> Targets \cup {NoTarget}]]
      /\ behind' \in [Operators -> SUBSET Addresses]
      /\ (\A p \in Operators : p # o => held'[p] = held[p])
      /\ StagedAreHeld'
  <2>1. /\ held \in [Operators -> [Addresses -> Targets \cup {NoTarget}]]
        /\ staged \in [Operators -> [Addresses -> Targets \cup {NoTarget}]]
        /\ behind \in [Operators -> SUBSET Addresses]
        /\ StagedAreHeld /\ n \in Addresses /\ actions[i].to \in Targets \cup {NoTarget}
    BY <1>2 DEF ManageTypeOK, Action, ManageInv
  <2>2. CASE held' = [held EXCEPT ![o][n] = NoTarget] /\ staged' = staged
    <3>1. /\ held'[o] = [held[o] EXCEPT ![n] = NoTarget]
          /\ \A p \in Operators : p # o => held'[p] = held[p]
          /\ held' \in [Operators -> [Addresses -> Targets \cup {NoTarget}]]
      BY <1>2, <2>1, <2>2
    <3>2. StagedAreHeld'
      BY <1>1, <1>2, <2>1, <2>2, <3>1 DEF StagedAreHeld
    <3>3. QED
      BY <1>1, <2>1, <2>2, <3>1, <3>2
  <2>3. CASE staged' = [staged EXCEPT ![o][n] = actions[i].to] /\ held' = held
    <3>1. /\ staged'[o] = [staged[o] EXCEPT ![n] = actions[i].to]
          /\ \A p \in Operators : p # o => staged'[p] = staged[p]
          /\ staged' \in [Operators -> [Addresses -> Targets \cup {NoTarget}]]
      BY <1>2, <2>1, <2>3
    <3>2. StagedAreHeld'
      BY <1>1, <1>2, <2>1, <2>3, <3>1 DEF StagedAreHeld
    <3>3. QED
      BY <1>1, <2>1, <2>3, <3>1, <3>2
  <2>4. QED
    BY <1>1, <2>2, <2>3
<1>5. /\ rows' \subseteq Row /\ unreached' \subseteq Operators
      /\ doubt' \in [Operators -> BOOLEAN]
      /\ table = 0 \/ loading => rows' = {}
  BY <1>1, <1>2 DEF ManageTypeOK, ManageInv, NothingShown
<1>6. \A p \in Operators : RowsOf(p)' = RowsOf(p)
  BY <1>1 DEF RowsOf
<1>7. Underway(i, o)' /\ (Seen(i) => Seen(i)')
  BY <1>1, <1>3, NextActionTypes DEF Seen
<1>8. ~doubt'[o] => /\ Underway(i, o) /\ ~loading
                    /\ Underway(i, o)' =>
                          /\ Seen(i)'
                          /\ actions'[i].stage = "sent" => IsTrue(o)'
                          /\ actions'[i].stage = "fetched" => Agrees(o, actions[i].list)'
                    /\ ~Underway(i, o)' => IsTrue(o)'
  BY <1>1, <1>2, <1>3, <1>7
<1>9. /\ \A r \in actions'[i].list : r.op = o
      /\ actions'[i].stage # "none" /\ actions[i].stage # "none"
      /\ doubt[o] => doubt'[o]
      /\ \A p \in Operators : p # o =>
            /\ doubt'[p] = doubt[p] /\ held'[p] = held[p] /\ behind'[p] = behind[p]
            /\ RowsOf(p)' = RowsOf(p) /\ (p \in unreached => p \in unreached')
  BY <1>1, <1>2, <1>3, <1>4, <1>6
<1>10. QED
  <2>1. UNCHANGED <<table, loading, loads>> /\ actions[i].row.op = o /\ o \in Operators
    BY <1>1, <1>2
  <2> HIDE DEF n
  <2>2. QED
    BY <2>1, <1>3, <1>4, <1>5, <1>8, <1>9, ContinueInv

\* An update becomes active: what is listed differs from what was in names that are
\* behind.
LEMMA AcknowledgeInv ==
    ASSUME ManageInv, NEW o \in Operators, NEW n \in Addresses, Acknowledge(o, n)
    PROVE  ManageInv'
<1>1. /\ ManageTypeOK /\ ActionsTypeOK /\ staged[o][n] # NoTarget
      /\ held' = [held EXCEPT ![o][n] = staged[o][n]]
      /\ staged' = [staged EXCEPT ![o][n] = NoTarget]
      /\ behind' = [behind EXCEPT ![o] = @ \cup {n}]
      /\ table' = table /\ loading' = loading /\ loads' = loads /\ rows' = rows
      /\ unreached' = unreached /\ actions' = actions /\ doubt' = doubt
  BY ManageTypes DEF ManageInv, Acknowledge
<1>2. /\ held' \in [Operators -> [Addresses -> Targets \cup {NoTarget}]]
      /\ staged' \in [Operators -> [Addresses -> Targets \cup {NoTarget}]]
      /\ behind' \in [Operators -> SUBSET Addresses]
  BY <1>1 DEF ManageTypeOK
<1>3. ActionsTypeOK'
  BY <1>1 DEF ActionsTypeOK, Action
<1>4. ManageTypeOK'
  BY <1>1, <1>2, <1>3, NextManageTypes DEF ManageTypeOK
<1>5. ListsAreOwn' /\ NothingShown' /\ StagedAreHeld'
  BY <1>1 DEF ManageInv, ListsAreOwn, NothingShown, StagedAreHeld, ManageTypeOK
<1>6. ASSUME NEW p \in Operators, NEW list, Agrees(p, list) PROVE Agrees(p, list)'
  <2>1. CASE p # o
    <3>1. ListOf(p)' = ListOf(p) /\ behind'[p] = behind[p]
      BY <1>1, <2>1 DEF ListOf, ManageTypeOK
    <3>2. QED
      BY <1>6, <3>1 DEF Agrees
  <2>2. CASE p = o
    <3>1. /\ behind'[p] = behind[p] \cup {n}
          /\ held[p][n] # NoTarget /\ held'[p][n] # NoTarget
          /\ \A m \in Addresses : m # n => held'[p][m] = held[p][m]
      BY <1>1, <2>2 DEF ManageInv, ManageTypeOK, StagedAreHeld
    <3>2. \A r : r.name \notin behind'[p] => (r \in ListOf(p) <=> r \in ListOf(p)')
      <4>1. ASSUME NEW r, r.name \notin behind'[p], r \in ListOf(p) PROVE r \in ListOf(p)'
        BY <3>1, <4>1 DEF ListOf
      <4>2. ASSUME NEW r, r.name \notin behind'[p], r \in ListOf(p)' PROVE r \in ListOf(p)
        BY <3>1, <4>2 DEF ListOf
      <4>3. QED
        BY <4>1, <4>2
    <3>3. {r.name : r \in ListOf(p)'} = {r.name : r \in ListOf(p)}
      <4>1. \A m \in Addresses : held[p][m] # NoTarget <=> held'[p][m] # NoTarget
        BY <3>1
      <4>2. \A m : m \in {r.name : r \in ListOf(p)} <=> m \in Addresses /\ held[p][m] # NoTarget
        BY ListedNames
      <4>3. \A m : m \in {r.name : r \in ListOf(p)'} <=> m \in Addresses /\ held'[p][m] # NoTarget
        <5>1. ASSUME NEW m, NEW r \in ListOf(p)', m = r.name
              PROVE  m \in Addresses /\ held'[p][m] # NoTarget
          BY <5>1 DEF ListOf
        <5>2. ASSUME NEW m \in Addresses, held'[p][m] # NoTarget
              PROVE  \E r \in ListOf(p)' : m = r.name
          <6>1. [op |-> p, name |-> m, to |-> held'[p][m]] \in ListOf(p)'
            BY <5>2 DEF ListOf
          <6>2. QED
            BY <6>1
        <5>3. QED
          BY <5>1, <5>2
      <4>4. QED
        BY <4>1, <4>2, <4>3
    <3>4. QED
      BY <1>6, <3>1, <3>2, <3>3 DEF Agrees
  <2>3. QED
    BY <2>1, <2>2
<1>7. ASSUME NEW p \in Operators PROVE OneAtATime(p)'
  <2>1. OneAtATime(p)
    BY DEF ManageInv
  <2>2. /\ RowsOf(p)' = RowsOf(p) /\ (Quiet(p) <=> Quiet(p)')
        /\ \A i \in Actions : (Underway(i, p) <=> Underway(i, p)') /\ (Seen(i) <=> Seen(i)')
    BY <1>1 DEF RowsOf, Quiet, Underway, Seen
  <2>3. /\ Agrees(p, RowsOf(p)) => Agrees(p, RowsOf(p))'
        /\ Agrees(p, loads[p].list) => Agrees(p, loads[p].list)'
        /\ \A i \in Actions : Agrees(p, actions[i].list) => Agrees(p, actions[i].list)'
    <3>1. \A list : Agrees(p, list) => Agrees(p, list)'
      BY <1>6
    <3>2. QED
      BY <1>1, <2>2, <3>1
  <2>4. IsTrue(p) => IsTrue(p)'
    BY <1>1, <2>2, <2>3 DEF IsTrue
  <2>5. QED
    BY <1>1, <2>1, <2>2, <2>3, <2>4 DEF OneAtATime
<1>8. QED
  BY <1>4, <1>5, <1>7 DEF ManageInv

\* The list has been fetched, or could not be: the rows of the operator are replaced.
LEMMA RefreshInv ==
    ASSUME ManageInv, NEW i \in Actions, RefreshOperator(i) \/ RefreshFails(i),
           NEW o, actions[i].row.op = o
    PROVE  ManageInv'
<1>1. /\ actions[i].stage \notin {"none", "over"} /\ Finish(i)
      /\ table' = table /\ loading' = loading /\ loads' = loads
      /\ held' = held /\ staged' = staged /\ behind' = behind /\ StagedAreHeld'
      /\ doubt' = doubt
  BY DEF RefreshOperator, RefreshFails, operatorVars, ManageInv, StagedAreHeld
<1>2. /\ ManageTypeOK /\ ActionsTypeOK /\ actions[i] \in Action /\ o \in Operators
      /\ actions[i].table # 0
      /\ actions[i].list \in Lists /\ \A r \in actions[i].list : r.op = o
      /\ Underway(i, o)
      /\ ~doubt[o] => /\ Seen(i) /\ ~loading
                      /\ actions[i].stage = "fetched" => Agrees(o, actions[i].list)
  BY <1>1, ActionUnderway
<1>3. /\ ActionsTypeOK'
      /\ actions'[i].stage = "over" /\ actions'[i].list = actions[i].list
      /\ actions'[i].table = actions[i].table /\ actions'[i].row = actions[i].row
      /\ \A j \in Actions : j # i => Kept(j)
  BY <1>1, <1>2, FinishMoves
<1>4. PICK list \in Lists :
         /\ \A r \in list : r.op = o
         /\ IF Seen(i) THEN ReplaceRows(o, list) ELSE UNCHANGED rows
         /\ unreached' = unreached \/ (Seen(i) /\ unreached' = unreached \cup {o})
         /\ Seen(i) /\ ~doubt[o] =>
               Agrees(o, list) \/ (list = {} /\ o \in unreached')
  <2>1. CASE RefreshOperator(i)
    BY <1>2, <2>1 DEF RefreshOperator
  <2>2. CASE RefreshFails(i)
    <3>1. {} \in Lists
      BY DEF Lists
    <3>2. QED
      BY <2>2, <3>1 DEF RefreshFails
  <2>3. QED
    BY <2>1, <2>2
<1>5. /\ rows' \subseteq Row /\ unreached' \subseteq Operators
      /\ Seen(i) => RowsOf(o)' = list
      /\ \A p \in Operators : p # o =>
            RowsOf(p)' = RowsOf(p) /\ (p \in unreached => p \in unreached')
  BY <1>2, <1>4 DEF ManageTypeOK, ReplaceRows, RowsOf, Lists
<1>6. table = 0 \/ loading => rows' = {}
  <2>1. table = 0 \/ loading => ~Seen(i)
    BY <1>2 DEF Seen
  <2>2. QED
    BY <1>4, <2>1 DEF ManageInv, NothingShown
<1>7. ~Underway(i, o)'
  BY <1>3, NextActionTypes
<1>8. ~doubt[o] => IsTrue(o)'
  <2>1. ListOf(o)' = ListOf(o)
    BY <1>1 DEF ListOf
  <2>2. QED
    BY <1>1, <1>2, <1>4, <1>5, <2>1 DEF IsTrue, Agrees
<1>9. ~doubt'[o] => /\ Underway(i, o) /\ ~loading
                    /\ Underway(i, o)' =>
                          /\ Seen(i)'
                          /\ actions'[i].stage = "sent" => IsTrue(o)'
                          /\ actions'[i].stage = "fetched" => Agrees(o, actions[i].list)'
                    /\ ~Underway(i, o)' => IsTrue(o)'
  BY <1>1, <1>2, <1>7, <1>8
<1>10. /\ \A r \in actions'[i].list : r.op = o
       /\ actions'[i].stage # "none" /\ actions[i].stage # "none"
       /\ doubt[o] => doubt'[o]
       /\ held' \in [Operators -> [Addresses -> Targets \cup {NoTarget}]]
       /\ staged' \in [Operators -> [Addresses -> Targets \cup {NoTarget}]]
       /\ behind' \in [Operators -> SUBSET Addresses]
       /\ doubt' \in [Operators -> BOOLEAN]
       /\ \A p \in Operators : p # o =>
            /\ doubt'[p] = doubt[p] /\ held'[p] = held[p] /\ behind'[p] = behind[p]
            /\ RowsOf(p)' = RowsOf(p) /\ (p \in unreached => p \in unreached')
  BY <1>1, <1>2, <1>3, <1>5 DEF ManageTypeOK
<1>11. QED
  BY <1>1, <1>2, <1>3, <1>5, <1>6, <1>9, <1>10, ContinueInv

LEMMA NextManage == ManageInv /\ [ManageNext]_manageVars => ManageInv'
<1> SUFFICES ASSUME ManageInv, [ManageNext]_manageVars PROVE ManageInv'
  OBVIOUS
<1>1. CASE RenderManage
  BY <1>1, RenderManageInv
<1>2. ASSUME NEW o \in Operators, LoadServed(o) PROVE ManageInv'
  BY <1>2, LoadServedInv
<1>2a. ASSUME NEW o \in Operators, NEW n \in Addresses, Acknowledge(o, n) PROVE ManageInv'
  BY <1>2a, AcknowledgeInv
<1>3. CASE Loaded
  BY <1>3, LoadedInv
<1>4. ASSUME NEW i \in Actions, NEW r \in rows, NEW to \in Targets \cup {NoTarget},
             Act(i, r, to)
      PROVE  ManageInv'
  BY <1>4, ActInv
<1>5. ASSUME NEW i \in Actions, Continue(i) PROVE ManageInv'
  <2>1. PICK o : actions[i].row.op = o
    OBVIOUS
  <2>2. CASE Refetch(i) \/ RefetchServed(i) \/ ActFails(i)
    <3>1. actions[i].stage \notin {"none", "over"}
      BY <2>2 DEF Refetch, RefetchServed, ActFails
    <3>2. QED
      BY <2>1, <2>2, <3>1, SameTable
  <2>3. CASE ActServed(i)
    BY <2>1, <2>3, ActServedInv
  <2>4. CASE RefreshOperator(i) \/ RefreshFails(i)
    BY <2>1, <2>4, RefreshInv
  <2>5. QED
    BY <1>5, <2>2, <2>3, <2>4 DEF Continue
<1>6. CASE UNCHANGED manageVars
  <2>1. /\ held' = held /\ staged' = staged /\ behind' = behind
        /\ table' = table /\ loading' = loading /\ loads' = loads
        /\ rows' = rows /\ unreached' = unreached /\ actions' = actions /\ doubt' = doubt
    BY <1>6 DEF manageVars, operatorVars
  <2>2. ManageTypeOK' /\ ListsAreOwn' /\ NothingShown' /\ StagedAreHeld'
    BY <2>1 DEF ManageInv, ManageTypeOK, ListsAreOwn, NothingShown, StagedAreHeld
  <2>3. ASSUME NEW o \in Operators PROVE OneAtATime(o)'
    <3>1. /\ \A i \in Actions : (Underway(i, o) <=> Underway(i, o)') /\ (Seen(i) <=> Seen(i)')
          /\ (Quiet(o) <=> Quiet(o)')
          /\ RowsOf(o)' = RowsOf(o) /\ ListOf(o)' = ListOf(o)
      BY <2>1 DEF Underway, Seen, Quiet, RowsOf, ListOf
    <3>2. /\ IsTrue(o) => IsTrue(o)'
          /\ Agrees(o, loads[o].list) => Agrees(o, loads[o].list)'
          /\ \A i \in Actions : Agrees(o, actions[i].list) => Agrees(o, actions[i].list)'
      BY <2>1, <3>1 DEF IsTrue, Agrees
    <3>3. QED
      BY <2>1, <3>1, <3>2 DEF ManageInv, OneAtATime
  <2>4. QED
    BY <2>2, <2>3 DEF ManageInv
<1>7. QED
  BY <1>1, <1>2, <1>2a, <1>3, <1>4, <1>5, <1>6 DEF ManageNext

-----------------------------------------------------------------------------
(* The three scenes together. *)

ViewInv == IdentityInv /\ ModalInv /\ ManageInv

LEMMA ViewsStep == ViewInv /\ [ViewNext]_viewVars => ViewInv'
<1> SUFFICES ASSUME ViewInv, [ViewNext]_viewVars PROVE ViewInv'
  OBVIOUS
<1>1. /\ [IdentityNext]_identityVars
      /\ [ModalNext]_modalVars
      /\ [ManageNext]_manageVars
  BY DEF ViewNext, IdentityStep, DialogStep, ManageStep, viewVars
<1>2. IdentityInv'
  BY <1>1, NextIdentity DEF ViewInv
<1>3. ModalInv'
  BY <1>1, NextModal DEF ViewInv
<1>4. ManageInv'
  BY <1>1, NextManage DEF ViewInv
<1>5. QED
  BY <1>2, <1>3, <1>4 DEF ViewInv

\* What connect, dialog and Manage tab rely on holds throughout, however many clicks,
\* quotes, polls, tables and updates there are and in whatever order the answers come.
THEOREM ViewInvariant == ViewSpec => []ViewInv
<1>1. ViewInit => ViewInv
  BY InitIdentity, InitModal, InitManage DEF ViewInit, ViewInv
<1>2. ViewInv /\ [ViewNext]_viewVars => ViewInv'
  BY ViewsStep
<1>3. QED
  BY <1>1, <1>2, PTL DEF ViewSpec

\* The intervals that run are those of the invoice that the open dialog shows, unless
\* dialogs have crossed (modal.js: the record timers); the lists of the table that were
\* signed with the key the page showed, and the dialog, are those of the identity that
\* is connected (app.js: doConnect, openRegisterModal; manage.js: renderManage).
THEOREM ViewsStayConsistent == ViewSpec => []ViewConsistency
<1>1. ViewInv => ViewConsistency
  BY ModalTypes DEF ViewInv, IdentityInv, ModalInv, InvoiceInv, ManageInv, ViewConsistency,
                    ViewTypeOK
<1>2. QED
  BY <1>1, ViewInvariant, PTL

\* A quote that comes late never enables the submission of another name (modal.js:
\* runQuote and its sequence number).
THEOREM QuoteStaysCurrent == ViewSpec => []QuoteIsCurrent
<1>1. ViewInv => QuoteIsCurrent
  BY DEF ViewInv, ModalInv, FormInv
<1>2. QED
  BY <1>1, ViewInvariant, PTL

\* Once nothing is under way for an operator the Manage tab shows what the operator
\* lists, but for updates that were acknowledged only after it was asked, or that it
\* could not be reached (manage.js: refreshOperator; sqlite.rs: acknowledge_event).
THEOREM TableStaysTrue == ViewSpec => []TableIsTrue
<1>1. ManageInv => TableIsTrue
  <2> SUFFICES ASSUME ManageInv, NEW o \in Operators, Quiet(o), ~doubt[o]
               PROVE  Agrees(o, RowsOf(o)) \/ (RowsOf(o) = {} /\ o \in unreached)
    BY DEF TableIsTrue
  <2>1. QED
    BY DEF ManageInv, OneAtATime, IsTrue
<1>2. QED
  BY <1>1, ViewInvariant, PTL DEF ViewInv

\* An invoice that is complete, expired or failed says so for good, although answers to
\* earlier polls still come (modal.js: stop and the flag stopped).
THEOREM FinalStaysFinal == ViewSpec => FinalIsFinal
<1>1. ViewInv /\ [ViewNext]_viewVars =>
         [\A k \in Submits : page[k] \in Final /\ page'[k] # page[k]
                             => crossed /\ page[k] = "error"]_modalVars
  <2> SUFFICES ASSUME ViewInv, [ViewNext]_viewVars, NEW k \in Submits,
                      page[k] \in Final, page'[k] # page[k]
               PROVE  crossed /\ page[k] = "error"
    OBVIOUS
  <2>1. ModalInv /\ [ModalNext]_modalVars
    BY DEF ViewInv, ViewNext, IdentityStep, DialogStep, ManageStep, viewVars
  <2>2. QED
    BY <2>1, FinalStep
<1>2. QED
  BY <1>1, ViewInvariant, PTL DEF ViewSpec, FinalIsFinal

=============================================================================
