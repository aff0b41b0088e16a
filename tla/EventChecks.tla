----------------------------- MODULE EventChecks -----------------------------
(***************************************************************************)
(* What becomes of an event between a relay and a number of users: does it *)
(* hold, does it match the query (nostr-tools in the bundle), is it a      *)
(* backup record, was it counted before (counts.js).                       *)
(*                                                                         *)
(* An event is [id, pubkey, kind, created_at, tags, malformed, hash,       *)
(* signed, mark]: a tag is a sequence of strings; malformed names the      *)
(* field that validateEvent would refuse, "none" if there is none; hash is *)
(* the hash of the serialization; signed says what the signature over the  *)
(* hash is; mark is the answer that an earlier verifyEvent left.  A filter *)
(* gives a set for each field that it restricts, or a bound.               *)
(***************************************************************************)
EXTENDS Integers, Sequences, FiniteSets

CONSTANTS
  AnnouncementKind,   \* ANNOUNCEMENT_KIND
  BackupTags          \* d tags that begin with BACKUP_D_PREFIX

Named(tags, name) == SelectSeq(tags, LAMBDA tag : Len(tag) > 0 /\ tag[1] = name)

-----------------------------------------------------------------------------
(* pure.ts and core.ts                                                     *)

ValidateEvent(event) == event.malformed = "none"

\* The hash of an event that is not well formed cannot be taken: that throws.
VerifyEvent(event) ==
  CASE event.mark # "none" -> event.mark
    [] event.mark = "none" /\ ~ValidateEvent(event) -> "throws"
    [] OTHER -> IF event.hash = event.id /\ event.signed = "valid" THEN "valid" ELSE "invalid"

\* The answer is kept with the event.
Verified(event) ==
  IF VerifyEvent(event) = "throws" THEN event
  ELSE [event EXCEPT !.mark = VerifyEvent(event)]

-----------------------------------------------------------------------------
(* filter.ts: a since or until of 0 restricts nothing.                     *)

MatchFilter(filter, event) ==
  LET given(field) == field \in DOMAIN filter
      bound(field) == given(field) /\ filter[field] # 0
  IN  /\ given("ids") => event.id \in filter.ids
      /\ given("kinds") => event.kind \in filter.kinds
      /\ given("authors") => event.pubkey \in filter.authors
      /\ given("tags") =>
           \A name \in DOMAIN filter.tags : \E i \in DOMAIN Named(event.tags, name) :
             LET tag == Named(event.tags, name)[i]
             IN  Len(tag) > 1 /\ tag[2] \in filter.tags[name]
      /\ bound("since") => event.created_at >= filter.since
      /\ bound("until") => event.created_at <= filter.until

MatchFilters(filters, event) == \E filter \in filters : MatchFilter(filter, event)

\* An event that throws is dropped with the message it came in.
Delivered(filters, event) == VerifyEvent(event) = "valid" /\ MatchFilters(filters, event)

-----------------------------------------------------------------------------
(* counts.js                                                               *)

NoTag == "no tag"
DTag(event) ==
  LET ds == Named(event.tags, "d")
  IN  IF ds = << >> THEN NoTag ELSE IF Len(ds[1]) < 2 THEN NoTag ELSE ds[1][2]

CountFilter(batch) == [kinds |-> {AnnouncementKind}, authors |-> batch]

NewAggregator(keys) == [seen |-> {}, counts |-> [p \in keys |-> 0]]

AddEvent(aggregator, event) ==
  LET key == <<event.pubkey, DTag(event)>> IN
  IF event.kind = AnnouncementKind /\ DTag(event) \in BackupTags /\ key \notin aggregator.seen
  THEN [seen |-> aggregator.seen \cup {key},
        counts |-> [aggregator.counts EXCEPT ![event.pubkey] = @ + 1]]
  ELSE aggregator

\* onevent of fetchBackupCounts: what was delivered is verified once more.
OnBackupEvent(aggregator, event) ==
  IF VerifyEvent(event) = "valid" THEN AddEvent(aggregator, event) ELSE aggregator

-----------------------------------------------------------------------------
(* The number of users of an operator that was asked for is the number of  *)
(* its backup records, by their names: a record that several relays have,  *)
(* an older version of it, a forged or broken copy before or after it, and *)
(* the operator's other events change nothing (counts.js).                 *)
Authentic(event) ==
  event.malformed = "none" /\ event.hash = event.id /\ event.signed = "valid"

RecordsAreCounted(events, batch, keys) ==
  LET aggregator[n \in 0..Len(events)] ==
        IF n = 0 THEN NewAggregator(keys)
        ELSE IF Delivered({CountFilter(batch)}, events[n])
        THEN OnBackupEvent(aggregator[n - 1], Verified(events[n]))
        ELSE aggregator[n - 1]
      records(p) == {DTag(events[i]) : i \in {j \in DOMAIN events :
                       /\ Authentic(events[j]) /\ events[j].pubkey = p
                       /\ events[j].kind = AnnouncementKind
                       /\ DTag(events[j]) \in BackupTags}}
  IN  \A p \in keys :
        aggregator[Len(events)].counts[p] = IF p \in batch THEN Cardinality(records(p)) ELSE 0
=============================================================================
