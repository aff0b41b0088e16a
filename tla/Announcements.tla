--------------------------- MODULE Announcements ---------------------------
(***************************************************************************)
(* Who accepts an announcement.  The rule is written twice: the service's  *)
(* validate_event (src/nostr/discovery.rs) and the marketplace's mirror of *)
(* it (announcement.js), which also picks the usable parts of two optional *)
(* fields.  Signatures are checked before either, and left out.            *)
(*                                                                         *)
(* A host is a sequence of labels, a label [chars, reserved]: its          *)
(* characters by class ("a" a lower-case letter, "A" an upper-case one,    *)
(* "0" a digit, "-" the hyphen, "_" any other) and whether it is one of    *)
(* the six reserved top-level names.  An event is a record of its kind, d  *)
(* tags, t tag, expiration tags and the fields of its content; `json` says *)
(* whether the content parses, `complete` whether it has every field the   *)
(* service's deserializer demands and no other rule looks at.              *)
(***************************************************************************)
EXTENDS Integers, Sequences, FiniteSets

\* What a text has that is empty, or is none.
NoText == ""

Alphanumeric == {"a", "0"}
Hyphen == "-"
Digits(label) == \A i \in DOMAIN label.chars : label.chars[i] = "0"

\* Nothing empty, long, upper-case or hyphen-edged.
HasPlainLabels(host) ==
  \A i \in DOMAIN host :
    LET chars == host[i].chars
    IN  /\ chars # << >> /\ Len(chars) <= 63
        /\ \A k \in DOMAIN chars : chars[k] \in Alphanumeric \cup {Hyphen}
        /\ chars[1] # Hyphen /\ chars[Len(chars)] # Hyphen

\* is_public_host: the last label is neither a number nor reserved.
IsPublicHostService(host) ==
  /\ Len(host) >= 2
  /\ HasPlainLabels(host)
  /\ ~Digits(host[Len(host)])
  /\ ~host[Len(host)].reserved

\* A label of the regular expression [a-z0-9]([a-z0-9-]*[a-z0-9])?
MatchesLabel(chars) ==
  \/ Len(chars) = 1 /\ chars[1] \in Alphanumeric
  \/ /\ Len(chars) >= 2
     /\ {chars[1], chars[Len(chars)]} \subseteq Alphanumeric
     /\ \A k \in 2 .. Len(chars) - 1 : chars[k] \in Alphanumeric \cup {Hyphen}

IsPublicHost(host) ==
  /\ Len(host) >= 2
  /\ \A i \in DOMAIN host : Len(host[i].chars) <= 63 /\ MatchesLabel(host[i].chars)
  /\ ~Digits(host[Len(host)])
  /\ ~host[Len(host)].reserved

(* A domain of the content is [host, idna, at, low].  idna is the host that *)
(* idna::domain_to_ascii makes of its text without the spaces around it,   *)
(* << >> if it makes none (an external library: an international name gets *)
(* its punycode, punycode that stands for nothing is refused); at and low  *)
(* are the places of the text, and of the text that parsing returns, in    *)
(* the order of texts, equal for equal ones.                               *)

LowerLabel(label) ==
  [label EXCEPT !.chars = [k \in DOMAIN @ |-> IF @[k] = "A" THEN "a" ELSE @[k]]]
LowerHost(host) == [i \in DOMAIN host |-> LowerLabel(host[i])]

\* The length of a host's text, with the dots.
TextLength(host) ==
  LET upTo[i \in 0 .. Len(host)] == IF i = 0 THEN -1 ELSE upTo[i - 1] + 1 + Len(host[i].chars)
  IN  upTo[Len(host)]

\* Domain::from_str returns a domain, the domain ParseDomain(d).
Parses(d) ==
  /\ d.idna # << >>
  /\ TextLength(d.idna) <= 253
  /\ HasPlainLabels(LowerHost(d.idna))
ParseDomain(d) == [d EXCEPT !.host = LowerHost(d.idna), !.at = d.low]

-----------------------------------------------------------------------------
(* An origin is [scheme, host, extra]: `extra` is what the text has beyond *)
(* scheme and host (a slash, a path, a query, a user), NoText if none; a   *)
(* text that is no URL, as with bad punycode in the host, is none of these *)
(* and refused by both.  An entry of `users` is [domain, count], a count   *)
(* [form, value]; an entry of `reserved` is [domain, names], NoText        *)
(* standing for what is no text.                                           *)

SortedAndUnique(domains) == \A i, j \in DOMAIN domains : i < j => domains[i].at < domains[j].at

\* normalized_origin(origin) = origin: the parts it refuses are parts beyond
\* scheme and host, and what is left of the others is the text itself.
NormalizedOrigin(origin) == origin.scheme = "https" /\ origin.extra = NoText

\* str::parse::<u64>: a leading plus is read, an overflow is an error.
ServiceExpiration(e, now) == e.form \in {"digits", "signed"} /\ e.value > now

\* serde_json::from_str: every field has its type, in the optional lists too, and
\* every domain parses.
Deserializes(event) ==
  /\ event.json = "object" /\ event.complete
  /\ \A i \in DOMAIN event.domains : Parses(event.domains[i])
  /\ \A i \in DOMAIN event.users :
       /\ event.users[i].count.form \in {"integer", "huge"}
       /\ event.users[i].count.value >= 0
  /\ \A i \in DOMAIN event.reserved : NoText \notin event.reserved[i].names

ValidateEvent(event, now) ==
  /\ event.kind
  /\ event.dtags # << >>
  /\ LET d == event.dtags[1] IN
       /\ d.prefix
       /\ NormalizedOrigin(d.origin)
       /\ IsPublicHostService(d.origin.host)
       /\ event.origin = d.origin
       /\ event.registration = d.origin
  /\ Deserializes(event)
  /\ event.schema = 1
  /\ event.status # "retired"
  /\ event.domains # << >>
  /\ event.terms \in {"none", "https"}
  /\ LET domains == [i \in DOMAIN event.domains |-> ParseDomain(event.domains[i])] IN
       /\ SortedAndUnique(domains)
       /\ \A i \in DOMAIN domains : IsPublicHostService(domains[i].host)
  /\ \A i \in DOMAIN event.expirations : ServiceExpiration(event.expirations[i], now)

\* Digits only, and as many as one likes.
MarketplaceExpiration(e, now) == e.form \in {"digits", "huge"} /\ e.value > now

\* Mutation: only the first expiration tag is looked at.
FirstExpiration(event, now) ==
  event.expirations = << >> \/ MarketplaceExpiration(event.expirations[1], now)

ExpirationsHold(event, now) ==
  \A i \in DOMAIN event.expirations : MarketplaceExpiration(event.expirations[i], now)

\* "throws": the content is null, and reading a field of it fails.
ValidateAnnouncement(event, now) ==
  LET named == /\ event.kind
               /\ event.dtags # << >>
               /\ LET d == event.dtags[1] IN
                    /\ d.prefix
                    /\ d.origin.scheme = "https" /\ d.origin.extra = NoText
                    /\ IsPublicHost(d.origin.host)
               /\ event.t
      valid == /\ event.json = "object"
               /\ event.schema = 1
               /\ event.status # "retired"
               /\ event.origin = event.dtags[1].origin
               /\ event.domains # << >>
               /\ SortedAndUnique(event.domains)
               /\ \A i \in DOMAIN event.domains : IsPublicHost(event.domains[i].host)
               /\ event.registration = event.dtags[1].origin
               /\ event.terms # "http"
               /\ ExpirationsHold(event, now)
  IN  IF named /\ event.json = "null" THEN "throws"
      ELSE IF named /\ valid THEN "ok" ELSE "error"

-----------------------------------------------------------------------------
(* What the marketplace takes from the optional fields.                    *)

Announced(event) == {event.domains[i] : i \in DOMAIN event.domains}

\* The entry that counts for a domain is the last usable one.
LastFor(usable, entries, d) ==
  entries[CHOOSE i \in usable : /\ entries[i].domain = d
                                /\ \A j \in usable : entries[j].domain = d => j <= i]

SanitizeUserCounts(event) ==
  LET usable == {i \in DOMAIN event.users : LET e == event.users[i] IN
                   /\ e.domain \in Announced(event)
                   /\ e.count.form = "integer" /\ e.count.value >= 0}
  IN  [d \in {event.users[i].domain : i \in usable} |->
         LastFor(usable, event.users, d).count.value]

SanitizeReservedNames(event) ==
  LET usable == {i \in DOMAIN event.reserved : event.reserved[i].domain \in Announced(event)}
  IN  [d \in {event.reserved[i].domain : i \in usable} |->
         LastFor(usable, event.reserved, d).names \ {NoText}]

\* Entry i taken out of a list.
Without(entries, i) ==
  [j \in 1 .. Len(entries) - 1 |-> IF j < i THEN entries[j] ELSE entries[j + 1]]

(* An entry that is malformed or about a domain of somebody else neither   *)
(* counts nor hides what another entry says of a domain of the operator:   *)
(* taking it out changes nothing ("invalid entries are dropped silently"). *)
BadEntriesAreDropped(event) ==
  /\ \A i \in DOMAIN event.users :
       ~(event.users[i].domain \in Announced(event) /\ event.users[i].count.form = "integer"
         /\ event.users[i].count.value >= 0)
       => SanitizeUserCounts(event) =
            SanitizeUserCounts([event EXCEPT !.users = Without(@, i)])
  /\ \A i \in DOMAIN event.reserved :
       event.reserved[i].domain \notin Announced(event)
       => SanitizeReservedNames(event) =
            SanitizeReservedNames([event EXCEPT !.reserved = Without(@, i)])

-----------------------------------------------------------------------------
\* Known differences: what only the marketplace lets through (as domains, texts of
\* more than 253 characters and punycode that idna refuses),
Lenient(event) == \/ ~Deserializes(event)
                  \/ event.terms = "empty"
                  \/ \E i \in DOMAIN event.expirations : event.expirations[i].form = "huge"
\* and what only the service does (as domains, texts that parsing changes: upper
\* case, spaces around them, international names).
Strict(event) == \/ ~event.t
                 \/ \E i \in DOMAIN event.expirations : event.expirations[i].form = "signed"
                 \/ \E d \in Announced(event) : ParseDomain(d) # d

(* The mirror says what the original says, "keep the two in sync"          *)
(* (announcement.js:7,64-67), but for the differences named above: an      *)
(* announcement only one of them accepts has one of that side's marks.     *)
ValidatorsAgree(event, now) ==
  LET shown == ValidateAnnouncement(event, now) = "ok"
      listed == ValidateEvent(event, now)
  IN  /\ shown /\ ~listed => Lenient(event)
      /\ listed /\ ~shown => Strict(event)
=============================================================================
