----------------------------- MODULE BackupMerge -----------------------------
(***************************************************************************)
(* The merge of src/nostr/restore.rs: which of several records of one      *)
(* coordinate wins.  A version is what the choice depends on: the revision *)
(* of the record, updated_at (which is also created_at of the event, see   *)
(* encode in src/nostr/codec.rs) and the event id, here a number.          *)
(*                                                                         *)
(* Mutations are introduced as in AddressStore.                            *)
(***************************************************************************)
EXTENDS Integers, Sequences, FiniteSets, Functions

Version == [rev: Nat, time: Nat, id: Int]

\* Mutation: updated_at does not count.
IsNewerByRevision(a, b) ==
    \/ a.rev > b.rev
    \/ a.rev = b.rev /\ a.id < b.id

\* is_newer
IsNewer(a, b) ==
    \/ a.rev > b.rev
    \/ a.rev = b.rev /\ a.time > b.time
    \/ a.rev = b.rev /\ a.time = b.time /\ a.id < b.id

\* Mutation: only revisions are compared.
NewerRevision(current, v) == IF v.rev > current.rev THEN v ELSE current

\* One turn of the loop over the fetched events.
Newer(current, v) == IF IsNewer(v, current) THEN v ELSE current

\* The loop over the events of one coordinate, in the order they were returned.
MergeLoop(versions) ==
    LET current[i \in DOMAIN versions] ==
            IF i = 1 THEN versions[1] ELSE Newer(current[i - 1], versions[i])
    IN  current[Len(versions)]

\* What it computes: the version that is newer than all others.
Winner(S) == CHOOSE v \in S : \A w \in S \ {v} : IsNewer(v, w)

\* The loop computes it in whatever order the relays return the events.
OrderIrrelevant(S) ==
    S # {} => \A arrival \in Bijection(1 .. Cardinality(S), S) : MergeLoop(arrival) = Winner(S)

\* NIP-01, replaceable events: a relay keeps the latest event of a coordinate,
\* and of two with the same created_at the one with the lower id.
RelayPrefers(a, b) ==
    \/ a.time > b.time
    \/ a.time = b.time /\ a.id < b.id

=============================================================================
