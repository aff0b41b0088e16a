---------------------------- MODULE AddressStore ----------------------------
(***************************************************************************)
(* The SQLite tables of src/repository/sqlite.rs that decide who owns a    *)
(* Lightning address, and the transactions that change them.               *)
(*                                                                         *)
(*   rows      payment_addresses, one row per (username, domain)           *)
(*   attempts  registration_attempts, UNIQUE(domain, username)             *)
(*   outbox    nostr_outbox: status of a signed event, by event id         *)
(*   backups   backup_records: event id of the newest record of a name     *)
(*   events    the signed address events themselves, in staging order;     *)
(*             the index of an event stands for its id (a hash, so unique) *)
(*                                                                         *)
(* A transaction is one action here: SQLite runs it atomically and its     *)
(* `ensure!`s are the guard.  Who calls it, and what the caller read       *)
(* beforehand, is in the modules that extend this one.  The configuration  *)
(* half of acknowledge_event concerns other event ids and is modelled with *)
(* the configuration.                                                      *)
(*                                                                         *)
(* An operator introduced as a mutation is a plausible bug in the operator *)
(* that follows it; PROJECT.json names the property that notices it.       *)
(***************************************************************************)
EXTENDS Integers, Sequences

CONSTANTS
    Names,      \* (username, domain) pairs
    Dests,      \* destinations an address may forward to
    NoDest,     \* SQL NULL in a destination column
    MaxEvents   \* bound: address events staged in one behaviour

ASSUME StoreAssumption ==
    /\ NoDest \notin Dests
    /\ MaxEvents \in Nat

VARIABLES rows, attempts, outbox, backups, events

storeVars == <<rows, attempts, outbox, backups, events>>

-----------------------------------------------------------------------------
(* Types *)

EventIds == 1 .. MaxEvents

\* AddressRecord: what the encrypted payload of an address event says.
Record == [name: Names, kind: {"active", "deleted"}, rev: Nat,
           dest: Dests \cup {NoDest}]

RowStates == {"absent", "publishing", "active", "deleting"}

\* A row of payment_addresses; an id of 0 is SQL NULL.
Row == [state: RowStates, rev: Nat, dest: Dests \cup {NoDest},
        eid: EventIds \cup {0},
        pDest: Dests \cup {NoDest}, pRev: Nat, pEid: EventIds \cup {0}]

Absent == [state |-> "absent", rev |-> 0, dest |-> NoDest, eid |-> 0,
           pDest |-> NoDest, pRev |-> 0, pEid |-> 0]

AttemptStates == {"none", "pending_payment", "publishing", "completed", "expired"}

\* token is TRUE while the management token is still in the row.
Attempt == [state: AttemptStates, eid: EventIds \cup {0}, token: BOOLEAN]

NoAttempt == [state |-> "none", eid |-> 0, token |-> FALSE]

\* "none": no outbox row.  "due" and "backoff" are both status 'pending';
\* they differ in next_attempt_at being reached or not.
OutboxStates == {"none", "due", "backoff", "acknowledged"}

StoreTypeOK ==
    /\ rows     \in [Names -> Row]
    /\ attempts \in [Names -> Attempt]
    /\ outbox   \in [EventIds -> OutboxStates]
    /\ backups  \in [Names -> EventIds \cup {0}]
    /\ events   \in Seq(Record)
    /\ Len(events) <= MaxEvents

-----------------------------------------------------------------------------
(* Queries *)

Pending(e) == outbox[e] \in {"due", "backoff"}

\* Staged and not yet acknowledged: what the row is waiting for.
Unsettled(r) ==
    IF r.state \in {"publishing", "deleting"} THEN {r.eid}
    ELSE IF r.pEid # 0 THEN {r.pEid} ELSE {}

\* get_payment_address: what resolution answers for a name.
Resolved(n) == IF rows[n].state \in {"active", "deleting"} THEN rows[n].dest ELSE NoDest

-----------------------------------------------------------------------------
(* Staging.  insert_outbox and upsert_backup_record run in the same        *)
(* transaction as the change of the row.                                   *)

NextId == Len(events) + 1

\* The event half of every staging transaction.
Enqueue(record) ==
    /\ Len(events) < MaxEvents
    /\ events'  = Append(events, record)
    /\ outbox'  = [outbox EXCEPT ![NextId] = "due"]
    /\ backups' = [backups EXCEPT ![record.name] = NextId]

NewRow(d) == [Absent EXCEPT !.state = "publishing", !.rev = 1, !.dest = d, !.eid = NextId]

\* stage_payment_address(.., None, ..): a free registration or an import.
StageFree(n, record) ==
    /\ attempts[n].state \notin {"pending_payment", "publishing"}
    /\ rows[n].state = "absent"
    /\ Enqueue(record)
    /\ rows' = [rows EXCEPT ![n] = NewRow(record.dest)]
    /\ UNCHANGED attempts

\* stage_payment_address(.., Some(attempt), ..): a settled paid registration.
StagePaid(n, record) ==
    /\ attempts[n].state = "pending_payment"
    /\ rows[n].state = "absent"
    /\ Enqueue(record)
    /\ rows' = [rows EXCEPT ![n] = NewRow(record.dest)]
    /\ attempts' = [attempts EXCEPT ![n].state = "publishing", ![n].eid = NextId]

\* Mutation: a pending update does not block a deletion.
StageDeletionDuringUpdate(n, record) ==
    /\ rows[n].state = "active"
    /\ Enqueue(record)
    /\ rows' = [rows EXCEPT ![n].state = "deleting", ![n].rev = @ + 1, ![n].eid = NextId]
    /\ UNCHANGED attempts

\* Mutation: the row is removed when the tombstone is staged.
DeletionAtOnce(n, record) ==
    /\ rows[n].state = "active"
    /\ rows[n].pEid = 0
    /\ Enqueue(record)
    /\ rows' = [rows EXCEPT ![n] = Absent]
    /\ UNCHANGED attempts

\* stage_deletion.  The revision of the row is incremented from the row as it
\* is now, that of the event was fixed by the caller.
StageDeletion(n, record) ==
    /\ rows[n].state = "active"
    /\ rows[n].pEid = 0
    /\ Enqueue(record)
    /\ rows' = [rows EXCEPT ![n].state = "deleting", ![n].rev = @ + 1, ![n].eid = NextId]
    /\ UNCHANGED attempts

\* Mutation: the new destination is in force at once.
UpdateInPlace(n, record) ==
    /\ rows[n].state = "active"
    /\ rows[n].pEid = 0
    /\ Enqueue(record)
    /\ rows' = [rows EXCEPT ![n].dest = record.dest, ![n].rev = @ + 1, ![n].eid = NextId]
    /\ UNCHANGED attempts

\* stage_address_update.  The check that the revision has not changed compares
\* the row with itself: both reads are in this transaction.
StageAddressUpdate(n, record) ==
    /\ rows[n].state = "active"
    /\ rows[n].pEid = 0
    /\ Enqueue(record)
    /\ rows' = [rows EXCEPT ![n].pDest = record.dest, ![n].pRev = rows[n].rev + 1,
                            ![n].pEid = NextId]
    /\ UNCHANGED attempts

-----------------------------------------------------------------------------
(* Settling *)

\* The four statements of acknowledge_event on one row, in their order.
Activated(r, e) ==
    IF r.state = "publishing" /\ r.eid = e THEN [r EXCEPT !.state = "active"] ELSE r

Updated(r, e) ==
    IF r.pEid = e
    THEN [r EXCEPT !.dest = r.pDest, !.rev = r.pRev, !.eid = e,
                   !.pDest = NoDest, !.pRev = 0, !.pEid = 0]
    ELSE r

Removed(r, e) == IF r.state = "deleting" /\ r.eid = e THEN Absent ELSE r

\* Mutation: pending updates are forgotten.
SettledWithoutUpdate(r, e) == Removed(Activated(r, e), e)

Settled(r, e) == Removed(Updated(Activated(r, e), e), e)

\* Mutation: the attempt of the event is forgotten.
CompletedNever(a, e) == a

Completed(a, e) ==
    IF a.state = "publishing" /\ a.eid = e THEN [a EXCEPT !.state = "completed"] ELSE a

AcknowledgeEvent(e) ==
    /\ outbox[e] # "none"
    /\ outbox'   = [outbox EXCEPT ![e] = "acknowledged"]
    /\ rows'     = [n \in Names |-> Settled(rows[n], e)]
    /\ attempts' = [n \in Names |-> Completed(attempts[n], e)]
    /\ UNCHANGED <<backups, events>>

\* Mutation: a failed event is given up.
FailEventForGood(e) ==
    /\ outbox[e] # "none"
    /\ outbox' = [outbox EXCEPT ![e] = IF @ = "due" THEN "failed" ELSE @]
    /\ UNCHANGED <<rows, attempts, backups, events>>

\* fail_event postpones the next attempt; it never changes the status column.
FailEvent(e) ==
    /\ outbox[e] # "none"
    /\ outbox' = [outbox EXCEPT ![e] = IF @ = "due" THEN "backoff" ELSE @]
    /\ UNCHANGED <<rows, attempts, backups, events>>

\* next_attempt_at is reached.
BackoffElapses(e) ==
    /\ outbox[e] = "backoff"
    /\ outbox' = [outbox EXCEPT ![e] = "due"]
    /\ UNCHANGED <<rows, attempts, backups, events>>

\* retry_event_now resets the status whatever it was, 'acknowledged' included.
RetryEventNow(e) ==
    /\ outbox[e] # "none"
    /\ outbox' = [outbox EXCEPT ![e] = "due"]
    /\ UNCHANGED <<rows, attempts, backups, events>>

-----------------------------------------------------------------------------
(* Properties of the tables that every caller of them relies on. *)

\* Every row that waits for an acknowledgement waits for an event the outbox
\* worker will still pick up: no claim, update or deletion is ever wedged.
WaitingRowsAreQueued ==
    \A n \in Names : \A e \in Unsettled(rows[n]) : e \in EventIds /\ Pending(e)

\* A paid registration that is being published waits for the event of its row.
AttemptsFollowRows ==
    \A n \in Names : attempts[n].state = "publishing" =>
        /\ rows[n].state = "publishing"
        /\ rows[n].eid = attempts[n].eid

\* backup_records, which the repair loop republishes and from which an update
\* reads its receipt, holds the newest staged record of every claimed name.
BackupIsNewestIntent ==
    \A n \in Names : rows[n].state # "absent" =>
        backups[n] = IF rows[n].pEid # 0 THEN rows[n].pEid ELSE rows[n].eid

\* What a row is, or will be on acknowledgement, is what its event says.
Says(e, n, kind, d) ==
    /\ e \in DOMAIN events
    /\ events[e].name = n
    /\ events[e].kind = kind
    /\ events[e].dest = d

RowDescribed(n) ==
    /\ rows[n].state \in {"publishing", "active"} => Says(rows[n].eid, n, "active", rows[n].dest)
    /\ rows[n].state = "deleting" => Says(rows[n].eid, n, "deleted", NoDest)
    /\ rows[n].pEid # 0 => /\ rows[n].state = "active"
                           /\ Says(rows[n].pEid, n, "active", rows[n].pDest)

EventsDescribeRows == \A n \in Names : RowDescribed(n)

\* The event a paid claim waits for is one the outbox worker will still pick up,
\* and it publishes the claim that the row holds.
PaidClaimIsQueued(n) ==
    LET e == attempts[n].eid
    IN  /\ e \in EventIds
        /\ Pending(e)
        /\ Says(e, n, "active", rows[n].dest)

WaitingAttemptsAreQueued ==
    \A n \in Names : attempts[n].state = "publishing" => PaidClaimIsQueued(n)

\* An update that waits was staged after the event in force.
PendingIsNewer ==
    \A n \in Names : rows[n].pEid # 0 => rows[n].pEid > rows[n].eid

\* What every transaction of this module preserves.
StoreInv ==
    /\ StoreTypeOK
    /\ EventsDescribeRows
    /\ WaitingRowsAreQueued
    /\ AttemptsFollowRows
    /\ BackupIsNewestIntent
    /\ PendingIsNewer

=============================================================================
