------------------------------- MODULE Recovery -------------------------------
(***************************************************************************)
(* The relays as a backup: what each of them keeps of the events that are  *)
(* published, the loss of the database, and the restore that merges what   *)
(* the relays return (src/nostr/restore.rs), over the tables of            *)
(* AddressStore.                                                           *)
(*                                                                         *)
(* How handlers and worker interleave is in AddressLifecycle; here an      *)
(* event that is due is published and acknowledged in one step, and what   *)
(* matters is which relays took it.  A mutation is signed from a revision  *)
(* that its request has read before.                                       *)
(*                                                                         *)
(* Time is in seconds, the resolution of created_at and updated_at.        *)
(* Mutations are introduced as in AddressStore.                            *)
(***************************************************************************)
EXTENDS AddressStore, BackupMerge

CONSTANTS
    Relays,
    Requests,    \* concurrent requests of owners and of the administrator
    MaxTime      \* bound: seconds that pass

ASSUME RecoveryAssumption == MaxTime \in Nat

VARIABLES
    now,         \* seconds
    signedAt,    \* per event: updated_at and created_at
    idSign,      \* 1 or -1: event ids order events of one second as they were
                 \* staged, or the other way round
    held,        \* per relay and name: the event it keeps, or 0
    read,        \* per request: the row it has read
    inForce,     \* per name: the event acknowledged last, whatever became of the
                 \* database; of no use to the program
    lost,        \* the database is gone and nothing was restored yet
    partial      \* some restore did not get all that the relays keep; of no use
                 \* to the program

relayVars == <<now, signedAt, idSign, held, read, inForce, lost, partial>>

vars == <<storeVars, relayVars>>

NoRead == [name |-> "none", rev |-> 0]

TypeOK ==
    /\ StoreTypeOK
    /\ now \in 0 .. MaxTime
    /\ signedAt \in [EventIds -> 0 .. MaxTime]
    /\ idSign \in {1, -1}
    /\ held \in [Relays -> [Names -> EventIds \cup {0}]]
    /\ read \in [Requests -> [name: Names, rev: Nat] \cup {NoRead}]
    /\ inForce \in [Names -> EventIds \cup {0}]
    /\ lost \in BOOLEAN
    /\ partial \in BOOLEAN

EmptyTables ==
    /\ rows = [n \in Names |-> Absent]
    /\ attempts = [n \in Names |-> NoAttempt]
    /\ outbox = [e \in EventIds |-> "none"]
    /\ backups = [n \in Names |-> 0]

Init ==
    /\ EmptyTables
    /\ events = <<>>
    /\ now = 0
    /\ signedAt = [e \in EventIds |-> 0]
    /\ idSign \in {1, -1}
    /\ held = [r \in Relays |-> [n \in Names |-> 0]]
    /\ read = [q \in Requests |-> NoRead]
    /\ inForce = [n \in Names |-> 0]
    /\ lost = FALSE
    /\ partial = FALSE

VersionOf(e) == [rev |-> events[e].rev, time |-> signedAt[e], id |-> idSign * e]

-----------------------------------------------------------------------------
(* Requests *)

\* encode signs with the time of the mutation.
Signed == signedAt' = [signedAt EXCEPT ![NextId] = now]

\* register_lnaddr: a claim starts at revision 1, also of a name that was
\* removed before.
Register(n, d) ==
    /\ ~lost
    /\ StageFree(n, [name |-> n, kind |-> "active", rev |-> 1, dest |-> d])
    /\ Signed
    /\ UNCHANGED <<now, idSign, held, read, inForce, lost, partial>>

\* get_address_for_management
ReadRow(q, n) ==
    /\ read[q] = NoRead
    /\ rows[n].state = "active"
    /\ read' = [read EXCEPT ![q] = [name |-> n, rev |-> rows[n].rev]]
    /\ UNCHANGED <<storeVars, now, signedAt, idSign, held, inForce, lost, partial>>

Answered(q) == read' = [read EXCEPT ![q] = NoRead]

\* update_lnaddr
Update(q, d) ==
    LET n == read[q].name
    IN  /\ read[q] # NoRead
        /\ StageAddressUpdate(n, [name |-> n, kind |-> "active", rev |-> read[q].rev + 1,
                                  dest |-> d])
        /\ Signed
        /\ Answered(q)
        /\ UNCHANGED <<now, idSign, held, inForce, lost, partial>>

\* remove_lnaddr, address_delete_submit
Remove(q) ==
    LET n == read[q].name
    IN  /\ read[q] # NoRead
        /\ StageDeletion(n, [name |-> n, kind |-> "deleted", rev |-> read[q].rev + 1,
                             dest |-> NoDest])
        /\ Signed
        /\ Answered(q)
        /\ UNCHANGED <<now, idSign, held, inForce, lost, partial>>

Abandon(q) ==
    /\ read[q] # NoRead
    /\ Answered(q)
    /\ UNCHANGED <<storeVars, now, signedAt, idSign, held, inForce, lost, partial>>

-----------------------------------------------------------------------------
(* Relays *)

\* A relay keeps the event it prefers.
Kept(r, n, e) ==
    IF held[r][n] = 0 \/ RelayPrefers(VersionOf(e), VersionOf(held[r][n]))
    THEN e ELSE held[r][n]

Store(R, e) ==
    held' = [r \in Relays |->
                IF r \in R THEN [held[r] EXCEPT ![events[e].name] = Kept(r, events[e].name, e)]
                           ELSE held[r]]

\* publish succeeds when one relay has accepted; the event is acknowledged.
Publish(e, R) ==
    /\ Pending(e)
    /\ R # {}
    /\ Store(R, e)
    /\ AcknowledgeEvent(e)
    /\ inForce' = [n \in Names |-> IF rows'[n] # rows[n] THEN e ELSE inForce[n]]
    /\ UNCHANGED <<now, signedAt, idSign, read, lost, partial>>

\* Relays store an event, their answers are lost.
PublishUnanswered(e, R) ==
    /\ Pending(e)
    /\ R # {}
    /\ Store(R, e)
    /\ UNCHANGED <<storeVars, now, signedAt, idSign, read, inForce, lost, partial>>

\* Mutation: the records of removed names are not republished.
CurrentBackupsOfRows == {backups[n] : n \in {m \in Names : rows[m].state # "absent"}} \ {0}

\* current_backup_events
CurrentBackups == {backups[n] : n \in Names} \ {0}

\* repair_current_records, the record of one name and one relay that takes it.
Repair(r, n) ==
    /\ backups[n] \in CurrentBackups
    /\ Store({r}, backups[n])
    /\ held' # held
    /\ UNCHANGED <<storeVars, now, signedAt, idSign, read, inForce, lost, partial>>

-----------------------------------------------------------------------------
(* Loss and restore *)

LoseDatabase ==
    /\ ~lost
    /\ lost' = TRUE
    /\ rows' = [n \in Names |-> Absent]
    /\ attempts' = [n \in Names |-> NoAttempt]
    /\ outbox' = [e \in EventIds |-> "none"]
    /\ backups' = [n \in Names |-> 0]
    /\ read' = [q \in Requests |-> NoRead]
    /\ UNCHANGED <<events, now, signedAt, idSign, held, inForce, partial>>

\* What the relays keep of a name.
HeldOf(n) == {held[r][n] : r \in Relays} \ {0}

Held == UNION {HeldOf(n) : n \in Names}

\* The event of the winning version among events of one name; 0 if there is none.
Merged(F) ==
    IF F = {} THEN 0
    ELSE CHOOSE e \in F : VersionOf(e) = Winner({VersionOf(f) : f \in F})

Of(F, n) == {e \in F : events[e].name = n}

\* restore_records inserts a row for an active record only.
RestoredRow(e) ==
    IF e = 0 \/ events[e].kind = "deleted" THEN Absent
    ELSE [Absent EXCEPT !.state = "active", !.rev = events[e].rev,
                        !.dest = events[e].dest, !.eid = e]

\* restore merges what arrived before the time-out, from whichever relays
\* answered, and restore_records writes it in one transaction.  The records of
\* removed names are kept as backup records.
Restore(F) ==
    /\ lost
    /\ lost' = FALSE
    /\ partial' = (partial \/ F # Held)
    /\ rows' = [n \in Names |-> RestoredRow(Merged(Of(F, n)))]
    /\ backups' = [n \in Names |-> Merged(Of(F, n))]
    /\ UNCHANGED <<attempts, outbox, events, now, signedAt, idSign, held, read, inForce>>

Tick ==
    /\ now < MaxTime
    /\ now' = now + 1
    /\ UNCHANGED <<storeVars, signedAt, idSign, held, read, inForce, lost, partial>>

-----------------------------------------------------------------------------
Next ==
    \/ \E n \in Names, d \in Dests : Register(n, d)
    \/ \E q \in Requests :
          \/ \E n \in Names : ReadRow(q, n)
          \/ \E d \in Dests : Update(q, d)
          \/ Remove(q)
          \/ Abandon(q)
    \/ \E e \in EventIds, R \in SUBSET Relays : Publish(e, R) \/ PublishUnanswered(e, R)
    \/ \E r \in Relays, n \in Names : Repair(r, n)
    \/ LoseDatabase
    \/ \E F \in SUBSET Held : Restore(F)
    \/ Tick

Spec == Init /\ [][Next]_vars

-----------------------------------------------------------------------------
(* Safety *)

EventsOf(n) == {e \in DOMAIN events : events[e].name = n}

\* The clock and the revisions of a name agree with the order in which its
\* events were staged.
InOrder(n) ==
    \A e, f \in EventsOf(n) :
        e < f => events[e].rev <= events[f].rev /\ signedAt[e] < signedAt[f]

\* Whatever was acknowledged can be restored: if the database is lost now and
\* all relays answer, the record that restore merges for a name is the one in
\* force or one staged after it.  Nothing is rolled back and no removed address
\* resurrects, whichever relays have taken which events, as long as the events of
\* the name are in order.  (When they need not be: RestoreReconstructs.)
AcknowledgedIsRestorable ==
    \A n \in Names : inForce[n] # 0 /\ InOrder(n) => Merged(HeldOf(n)) >= inForce[n]

\* What the merge returns does not depend on the order in which the relays'
\* events arrive.
MergeIgnoresArrival ==
    \A n \in Names : OrderIrrelevant({VersionOf(e) : e \in HeldOf(n)})

\* A restored row holds what its event says, and the event that a restore picks
\* depends on nothing but the set of those it was given.
Consistency == TypeOK /\ EventsDescribeRows /\ MergeIgnoresArrival

\* docs/spec.md, acceptance criteria: "Deleting only the SQLite file and
\* restarting with the same root secret and reachable configured relay
\* reconstructs every active address, tombstone, ..."  What resolves is what a
\* restore from all relays would make resolve, for names that wait for nothing.
\* (Only of names whose events were signed in different seconds, so that it does
\* not hinge on what a relay does with two events of one second.)
RestoreReconstructs ==
    \A n \in Names :
        /\ ~lost
        /\ ~partial
        /\ Unsettled(rows[n]) = {}
        /\ \A e, f \in EventsOf(n) : e # f => signedAt[e] # signedAt[f]
        => RestoredRow(Merged(HeldOf(n))).dest = Resolved(n)

-----------------------------------------------------------------------------
(* Liveness: the repair loop runs, and each relay takes an event that is    *)
(* sent to it again and again.                                              *)

Fairness == \A r \in Relays, n \in Names : WF_vars(Repair(r, n))

LiveSpec == Spec /\ Fairness

\* The relay keeps the newest record of a name, or one it prefers to that.
Mirrors(r, n) ==
    \/ backups[n] \in {0, held[r][n]}
    \/ held[r][n] # 0 /\ RelayPrefers(VersionOf(held[r][n]), VersionOf(backups[n]))

\* docs/spec.md, section 11: "The synchronizer periodically republishes current
\* records to relays missing them."  Every relay catches up with every name, also
\* a removed one, whatever the first publication reached.  (MaxEvents ends the
\* mutations of a name.)
RelaysConverge == \A r \in Relays, n \in Names : []<>Mirrors(r, n)

=============================================================================
