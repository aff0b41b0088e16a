------------------------------ MODULE Pricing ------------------------------
(***************************************************************************)
(* What a name costs.  The service sorts nothing: it accepts only policies *)
(* whose tiers are in order (validate_tiers) and takes the first one that  *)
(* is long enough (policy_price).  The marketplace reads the tiers out of  *)
(* an announcement, in any order and with any lengths, and shows both a    *)
(* price for a name and a summary of the whole price list (pricing.js).    *)
(*                                                                         *)
(* A tier is [max_length, price], a price list a sequence of tiers, prices *)
(* in millisatoshi.  A max_length that is not an integer is left out.      *)
(***************************************************************************)
EXTENDS Integers, Sequences

\* The code's null: a name of that length cannot be registered.
Unavailable == -1

MaxLength == 64

-----------------------------------------------------------------------------
(* The service.                                                            *)

ValidateTiers(tiers) ==
  /\ \A i, j \in DOMAIN tiers : j = i + 1 =>
       /\ tiers[i].max_length < tiers[j].max_length
       /\ tiers[i].price >= tiers[j].price
  /\ \A i \in DOMAIN tiers : tiers[i].max_length \in 1..MaxLength

\* The first of the tiers that satisfy a condition, given by their positions.
FirstOf(positions) == CHOOSE i \in positions : \A j \in positions : i <= j

PolicyPrice(tiers, length) ==
  LET fits == {i \in DOMAIN tiers : tiers[i].max_length >= length}
  IN  IF fits = {} THEN Unavailable ELSE tiers[FirstOf(fits)].price

\* quote_checked asks for no price at all where the policy has no tier.
ServicePrice(tiers, length) ==
  IF tiers = << >> THEN 0 ELSE PolicyPrice(tiers, length)

-----------------------------------------------------------------------------
(* The marketplace.                                                        *)

\* i comes before j in the stable sort of the tiers by max_length.
SortsBefore(tiers, i, j) ==
  \/ tiers[i].max_length < tiers[j].max_length
  \/ tiers[i].max_length = tiers[j].max_length /\ i <= j

FirstSorted(tiers, positions) ==
  CHOOSE i \in positions : \A j \in positions : SortsBefore(tiers, i, j)

\* Mutation: the announced order is trusted.
PriceAsAnnounced(tiers, length) == ServicePrice(tiers, length)

PriceForLength(tiers, length) ==
  IF tiers = << >> THEN 0
  ELSE LET fits == {i \in DOMAIN tiers : tiers[i].max_length >= length}
       IN  IF fits = {} THEN Unavailable ELSE tiers[FirstSorted(tiers, fits)].price

\* "free", or whole sats and the thousandths that are shown after the point.
FormatSats(msat) ==
  IF msat = 0 THEN <<"free">> ELSE <<"sats", msat \div 1000, msat % 1000>>

\* The tiers the summary keeps: those that reach past every earlier kept one.
KeptTiers(tiers) ==
  {i \in DOMAIN tiers :
     /\ tiers[i].max_length >= 1
     /\ \A j \in DOMAIN tiers :
          tiers[j].max_length = tiers[i].max_length => i <= j}

\* One past the longest kept tier that is shorter than i.
SegmentStart(tiers, i) ==
  LET shorter == {0} \cup {tiers[j].max_length : j \in
                   {k \in KeptTiers(tiers) : tiers[k].max_length < tiers[i].max_length}}
  IN  1 + CHOOSE l \in shorter : \A m \in shorter : m <= l

\* The last segment is open-ended from the hard maximum on, and followed by an
\* open-ended "unavailable" below it.  An open segment has no end.
Open == 0

TierSummary(tiers) ==
  LET kept == KeptTiers(tiers)
      last == {i \in kept : \A j \in kept : tiers[j].max_length <= tiers[i].max_length}
      Segment(i) ==
        [start |-> SegmentStart(tiers, i),
         end   |-> IF i \in last /\ tiers[i].max_length >= MaxLength
                   THEN Open ELSE tiers[i].max_length,
         text  |-> FormatSats(tiers[i].price)]
  IN  IF kept = {} THEN {[start |-> 1, end |-> Open, text |-> <<"free">>]}
      ELSE {Segment(i) : i \in kept}
           \cup {[start |-> tiers[i].max_length + 1, end |-> Open,
                  text |-> <<"unavailable">>] :
                    i \in {k \in last : tiers[k].max_length < MaxLength}}

-----------------------------------------------------------------------------
\* What the price chip of a name says, and what the summary says of its length.
PriceText(price) ==
  IF price = Unavailable THEN <<"unavailable">> ELSE FormatSats(price)

SummaryTexts(tiers, length) ==
  {s.text : s \in {r \in TierSummary(tiers) :
                     r.start <= length /\ (r.end = Open \/ length <= r.end)}}

(* For every length a name may have, the summary has exactly one segment   *)
(* and it names the price of that length; the empty summary "free" is      *)
(* right only where some tier reaches a length of one (pricing.js:82-85).  *)
SummaryTellsPrice(tiers) ==
  tiers = << >> \/ KeptTiers(tiers) # {} =>
    \A length \in 1..MaxLength :
      SummaryTexts(tiers, length) = {PriceText(PriceForLength(tiers, length))}

(* For every policy the service accepts, the marketplace computes the      *)
(* price the service quotes, for every length (pricing.js:13-25).          *)
PricesAgree(tiers) ==
  ValidateTiers(tiers) =>
    \A length \in 0..MaxLength + 1 : PriceForLength(tiers, length) = ServicePrice(tiers, length)
=============================================================================
