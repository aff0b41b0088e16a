--------------------------- MODULE ServiceBrowser ---------------------------
(***************************************************************************)
(* The flat list of domains (browse.js, render.js): how the operators that *)
(* discovery found become rows, how the rows are filtered and sorted, and  *)
(* what a row shows.                                                       *)
(*                                                                         *)
(* An operator is [pubkey, origin, capabilities, verifiedDomains, pricing, *)
(* userCounts, reservedNames, usersCount, usersApprox]: domains are        *)
(* numbers in the order of their texts, the three lookups are functions    *)
(* from domains, and NoCount is a count that has not come.                 *)
(***************************************************************************)
EXTENDS Pricing, FiniteSets

Seqs == INSTANCE SequencesExt

NoCount == -1

RegistrationCapabilities == {"registration-api-v1", "nostr-auth"}

\* A lookup that yields nothing where the operator published nothing.
Lookup(f, domain, nothing) == IF domain \in DOMAIN f THEN f[domain] ELSE nothing

\* An operator that announces a count for some domain is never scanned.
UsersSource(operator, domain) ==
  IF domain \in DOMAIN operator.userCounts THEN "announced"
  ELSE IF DOMAIN operator.userCounts # {} THEN "unavailable"
  ELSE "observed"

RowOf(operator, domain) ==
  LET source == UsersSource(operator, domain) IN
  [domain      |-> domain,
   origin      |-> operator.origin,
   pubkey      |-> operator.pubkey,
   canRegister |-> RegistrationCapabilities \subseteq operator.capabilities,
   tiers       |-> Lookup(operator.pricing, domain, << >>),
   reserved    |-> Lookup(operator.reservedNames, domain, {}),
   usersSource |-> source,
   usersCount  |-> CASE source = "announced"   -> operator.userCounts[domain]
                     [] source = "unavailable" -> NoCount
                     [] source = "observed"    -> operator.usersCount,
   usersApprox |-> source = "observed" /\ operator.usersApprox]

BuildRows(operators) ==
  Seqs!FlattenSeq([i \in DOMAIN operators |->
    [k \in DOMAIN operators[i].verifiedDomains |->
       RowOf(operators[i], operators[i].verifiedDomains[k])]])

-----------------------------------------------------------------------------
(* A name is [text, length, lower]: case is ignored on the reserved list.  *)
Untyped == [text |-> "", length |-> 0, lower |-> ""]

IsReserved(row, name) == name # Untyped /\ name.lower \in row.reserved

\* Mutation: a length without a price passes the free filter.
FilterNotPriced(rows, matches, name, freeOnly) ==
  {i \in DOMAIN rows :
    /\ rows[i].domain \in matches
    /\ name # Untyped /\ freeOnly =>
         PriceForLength(rows[i].tiers, name.length) <= 0 /\ ~IsReserved(rows[i], name)}

\* The places of the rows that stay, in the order they have.  `matches` are the
\* domains whose row has the search text in it.
FilterRows(rows, matches, name, freeOnly) ==
  {i \in DOMAIN rows :
    /\ rows[i].domain \in matches
    /\ name # Untyped /\ freeOnly =>
         PriceForLength(rows[i].tiers, name.length) = 0 /\ ~IsReserved(rows[i], name)}

\* The sign of the comparator: what has no value comes after what has one.
CompareValues(a, b, missing, descending) ==
  CASE a = missing /\ b = missing -> 0
    [] a = missing /\ b # missing -> 1
    [] a # missing /\ b = missing -> -1
    [] OTHER -> IF descending THEN b - a ELSE a - b

CompareRows(a, b, by, length) ==
  LET primary ==
        CASE by = "price" -> CompareValues(PriceForLength(a.tiers, length),
                                           PriceForLength(b.tiers, length), Unavailable, FALSE)
          [] by = "users" -> CompareValues(a.usersCount, b.usersCount, NoCount, TRUE)
          [] by = "alpha" -> 0
  IN  IF primary # 0 THEN primary ELSE a.domain - b.domain

\* A stable sort: each row goes after those that compare less, and after the
\* equal ones that stood before it.
SortRows(rows, by, length) ==
  LET Before(i, j) == \/ CompareRows(rows[i], rows[j], by, length) < 0
                      \/ CompareRows(rows[i], rows[j], by, length) = 0 /\ i < j
      Place(i) == 1 + Cardinality({j \in DOMAIN rows : Before(j, i)})
  IN  [k \in DOMAIN rows |-> rows[CHOOSE i \in DOMAIN rows : Place(i) = k]]

-----------------------------------------------------------------------------
(* What a row shows.                                                       *)

UsersBadge(row) ==
  IF row.usersSource = "unavailable" THEN <<"none">>
  ELSE IF row.usersCount = NoCount THEN <<"loading">>
  ELSE <<"users", row.usersCount, row.usersApprox>>

NamePrice(row, name) ==
  IF IsReserved(row, name) THEN <<"reserved">>
  ELSE PriceText(PriceForLength(row.tiers, name.length))

DomainRow(row, name, expanded) ==
  [domain   |-> row.domain,
   supplier |-> row.origin,
   prices   |-> TierSummary(row.tiers),
   chip     |-> IF name = Untyped THEN << >> ELSE NamePrice(row, name),
   badge    |-> UsersBadge(row),
   register |-> row.canRegister,
   detail   |-> expanded]

-----------------------------------------------------------------------------
(* A badge says that a count is loading only where the operator's backup   *)
(* records are scanned (app.js:242-247): otherwise it would load for ever. *)
(* A count that is shown is the one announced for that domain, or the      *)
(* operator's scan where nothing was announced for any domain.             *)
BadgesEnd(operators) ==
  \A i \in DOMAIN operators : LET operator == operators[i] IN
    \A k \in DOMAIN operator.verifiedDomains :
      LET domain == operator.verifiedDomains[k]
          badge  == UsersBadge(RowOf(operator, domain))
          scanned == DOMAIN operator.userCounts = {}
      IN  /\ badge[1] = "loading" => scanned /\ operator.usersCount = NoCount
          /\ badge[1] = "users" =>
               badge[2] = IF scanned THEN operator.usersCount ELSE operator.userCounts[domain]

(* The free filter keeps, of the rows that match the search, exactly those *)
(* whose chip for the name says "free" (browse.js:85-97).                  *)
FilterMatchesChips(rows, name) ==
  name # Untyped =>
    FilterRows(rows, {rows[i].domain : i \in DOMAIN rows}, name, TRUE) =
      {i \in DOMAIN rows : DomainRow(rows[i], name, FALSE).chip = <<"free">>}

(* The comparator is an order that ties only rows of one domain, so that   *)
(* the sort is defined whatever rows the relays deliver (browse.js:146-149)*)
(* and what has no price or count comes last.                              *)
SortIsSound(rows, by, length) ==
  LET Less(a, b) == CompareRows(a, b, by, length) < 0
      Ties(a, b) == CompareRows(a, b, by, length) = 0
      all == {rows[i] : i \in DOMAIN rows}
      sorted == SortRows(rows, by, length)
      Missing(row) == \/ by = "price" /\ PriceForLength(row.tiers, length) = Unavailable
                      \/ by = "users" /\ row.usersCount = NoCount
  IN  /\ \A a, b \in all : /\ ~(Less(a, b) /\ Less(b, a))
                           /\ Ties(a, b) => Ties(b, a) /\ a.domain = b.domain
      /\ \A a, b, c \in all : Less(a, b) /\ ~Less(c, b) => Less(a, c)
      /\ \A i, j \in DOMAIN sorted : i < j /\ Missing(sorted[i]) => Missing(sorted[j])
=============================================================================
