-------------------------- MODULE AddressLifecycle --------------------------
(***************************************************************************)
(* Registration, update and removal of addresses (src/service/direct.rs,   *)
(* the administrator's deletion and retry in src/admin.rs), the publication *)
(* of their backup events to Nostr relays and the outbox worker            *)
(* (src/nostr/publisher.rs), over the tables of AddressStore.              *)
(*                                                                         *)
(* Each HTTP handler is a process.  Between any two of its database calls  *)
(* it awaits, so every other handler, the worker and the relays may act.   *)
(* `req' is what a handler holds before it stages its event, `pub' the     *)
(* event a handler or the worker is publishing.  A handler may stop after  *)
(* any step (an error answer, a database error, a client that hangs up)    *)
(* and the process may be restarted: only the tables and the relays last.  *)
(***************************************************************************)
EXTENDS AddressStore, FiniteSets

CONSTANTS
    Handlers,         \* concurrent HTTP requests
    Worker,           \* the single OutboxWorker task
    Restored,         \* names restored from the relays before the run, in order
    BatchLimit,       \* events read by one pending_events call
    MaxDisturbances   \* bound: restarts, worker errors and retries by hand

ASSUME LifecycleAssumption ==
    /\ Worker \notin Handlers
    /\ Restored \in Seq(Names)
    /\ \A i, j \in DOMAIN Restored : Restored[i] = Restored[j] => i = j
    /\ Len(Restored) <= MaxEvents
    /\ BatchLimit \in Nat \ {0}
    /\ MaxDisturbances \in Nat

VARIABLES
    req,           \* per handler: the request being prepared
    pub,           \* per process: the publication in progress
    batch,         \* ids the worker has read and not yet published
    repairing,     \* the worker's last pass was repair_current_records
    taken,         \* ids that at least one relay has stored at some time
    replicated,    \* nostr_event_relays: ids recorded as acknowledged by a relay
    disturbances

procVars == <<req, pub, batch, repairing>>
netVars  == <<taken, replicated, disturbances>>
vars     == <<storeVars, procVars, netVars>>

Processes == Handlers \cup {Worker}

Ops   == {"update", "remove", "retry"}
Steps == {"validating", "reserving", "encoding", "retrying"}

\* rev and base are the row's revision and backup_event_id when it was read, or 0
\* when the handler has no use for them.  A new destination is an input on which
\* nothing depends before the event is staged: it is chosen there.
Request == [op: Ops, step: Steps, name: Names, rev: Nat, base: EventIds \cup {0}]

NoRequest == [op |-> "none"]

Phases == {"idle", "publishing", "recording", "acknowledging", "failing"}

Publication == [phase: Phases, eid: EventIds \cup {0}]

Idle == [phase |-> "idle", eid |-> 0]

TypeOK ==
    /\ StoreTypeOK
    /\ req \in [Handlers -> Request \cup {NoRequest}]
    /\ pub \in [Processes -> Publication]
    /\ batch \in SUBSET EventIds
    /\ repairing \in BOOLEAN
    /\ taken \in SUBSET EventIds
    /\ replicated \in SUBSET EventIds
    /\ disturbances \in 0 .. MaxDisturbances

-----------------------------------------------------------------------------
(* restore_records: active rows and backup records, but no outbox rows. *)

RestoredAt(n) == CHOOSE i \in DOMAIN Restored : Restored[i] = n

IsRestored(n) == \E i \in DOMAIN Restored : Restored[i] = n

RestoredRow(n) == [Absent EXCEPT !.state = "active", !.rev = 1, !.dest = events[RestoredAt(n)].dest,
                                 !.eid = RestoredAt(n)]

Init ==
    /\ \E dests \in [DOMAIN Restored -> Dests] :
          events = [i \in DOMAIN Restored |->
                       [name |-> Restored[i], kind |-> "active", rev |-> 1, dest |-> dests[i]]]
    /\ rows = [n \in Names |-> IF IsRestored(n) THEN RestoredRow(n) ELSE Absent]
    /\ backups = [n \in Names |-> IF IsRestored(n) THEN RestoredAt(n) ELSE 0]
    /\ attempts = [n \in Names |-> NoAttempt]
    /\ outbox = [e \in EventIds |-> "none"]
    /\ taken = DOMAIN Restored
    /\ replicated = {}
    /\ req = [h \in Handlers |-> NoRequest]
    /\ pub = [p \in Processes |-> Idle]
    /\ batch = {}
    /\ repairing = FALSE
    /\ disturbances = 0

\* What happens rarely is bounded.
Disturb ==
    /\ disturbances < MaxDisturbances
    /\ disturbances' = disturbances + 1
    /\ UNCHANGED <<taken, replicated>>

-----------------------------------------------------------------------------
(* Handlers: preparing a mutation *)

Free(h) == req[h] = NoRequest /\ pub[h] = Idle

Preparing(h, op, step) == req[h] # NoRequest /\ req[h].op = op /\ req[h].step = step

Begin(h, request) ==
    /\ Free(h)
    /\ req' = [req EXCEPT ![h] = request]
    /\ UNCHANGED <<storeVars, pub, batch, repairing, netVars>>

\* update_lnaddr reads the row, then validates the destination over the network.
BeginUpdate(h, n) ==
    /\ rows[n].state = "active"
    /\ Begin(h, [op |-> "update", step |-> "validating", name |-> n,
                 rev |-> rows[n].rev, base |-> rows[n].eid])

\* It then needs the event the row pointed to as the current backup record.
ReadReceipt(h) ==
    /\ Preparing(h, "update", "validating")
    /\ backups[req[h].name] = req[h].base
    /\ req' = [req EXCEPT ![h].step = "encoding", ![h].base = 0]
    /\ UNCHANGED <<storeVars, pub, batch, repairing, netVars>>

\* remove_lnaddr reads the row in whatever state it is.
BeginRemove(h, n) ==
    /\ rows[n].state # "absent"
    /\ Begin(h, [op |-> "remove", step |-> "encoding", name |-> n,
                 rev |-> rows[n].rev, base |-> 0])

\* address_delete_submit reads an active row, then reserves the name, which
\* publishes a configuration, and publishes an announcement ...
BeginAdminDelete(h, n) ==
    /\ rows[n].state = "active"
    /\ Begin(h, [op |-> "remove", step |-> "reserving", name |-> n,
                 rev |-> rows[n].rev, base |-> 0])

\* ... and goes on with the row it read before, once both are acknowledged.
NameReserved(h) ==
    /\ Preparing(h, "remove", "reserving")
    /\ req' = [req EXCEPT ![h].step = "encoding"]
    /\ UNCHANGED <<storeVars, pub, batch, repairing, netVars>>

-----------------------------------------------------------------------------
(* Handlers: staging the signed event *)

\* The records a handler encodes: the revision follows the one it read.
ActiveRecord(n, rev, d) == [name |-> n, kind |-> "active", rev |-> rev + 1, dest |-> d]

Tombstone(n, rev) == [name |-> n, kind |-> "deleted", rev |-> rev + 1, dest |-> NoDest]

StartPublishing(h) ==
    /\ req' = [req EXCEPT ![h] = NoRequest]
    /\ pub' = [pub EXCEPT ![h] = [phase |-> "publishing", eid |-> NextId]]
    /\ UNCHANGED <<batch, repairing, netVars>>

\* register_lnaddr: nothing that it has read of the address before is used.
Register(h, n, d) ==
    /\ Free(h)
    /\ StageFree(n, ActiveRecord(n, 0, d))
    /\ StartPublishing(h)

Update(h, d) ==
    /\ Preparing(h, "update", "encoding")
    /\ StageAddressUpdate(req[h].name, ActiveRecord(req[h].name, req[h].rev, d))
    /\ StartPublishing(h)

Remove(h) ==
    /\ Preparing(h, "remove", "encoding")
    /\ StageDeletion(req[h].name, Tombstone(req[h].name, req[h].rev))
    /\ StartPublishing(h)

\* address_retry_submit, "Retry" in the administrator's list of addresses, reads
\* a row in whatever state it is ...
BeginRetry(h, n) ==
    /\ disturbances < MaxDisturbances
    /\ rows[n].state # "absent"
    /\ Begin(h, [op |-> "retry", step |-> "retrying", name |-> n,
                 rev |-> 0, base |-> rows[n].eid])

\* ... and makes the event it pointed to due again.
Retry(h) ==
    /\ Preparing(h, "retry", "retrying")
    /\ req[h].base # 0
    /\ RetryEventNow(req[h].base)
    /\ req' = [req EXCEPT ![h] = NoRequest]
    /\ Disturb
    /\ UNCHANGED <<pub, batch, repairing>>

\* Any error answer, or a client that hangs up and so drops the handler.
Abandon(h) ==
    /\ ~Free(h)
    /\ req' = [req EXCEPT ![h] = NoRequest]
    /\ pub' = [pub EXCEPT ![h] = Idle]
    /\ UNCHANGED <<storeVars, batch, repairing, netVars>>

-----------------------------------------------------------------------------
(* Publication: publish; then record_publication and acknowledge_event, or *)
(* fail_event.  The repair loop only records.                              *)

\* p's publication is of a backup record being repaired.
Repair(p) == p = Worker /\ repairing

MoveTo(p, phase) == pub' = [pub EXCEPT ![p].phase = phase]

Finish(p) == pub' = [pub EXCEPT ![p] = Idle]

\* At least one relay answers OK: it has stored the event, now or before.  What
\* that makes relays forget is in Keep.
PublishAccepted(p) ==
    /\ pub[p].phase = "publishing"
    /\ taken' = taken \cup {pub[p].eid}
    /\ MoveTo(p, "recording")
    /\ UNCHANGED <<storeVars, req, batch, repairing, replicated, disturbances>>

\* No relay answers OK; one may have stored the event and its answer be lost.
PublishFailed(p) ==
    /\ pub[p].phase = "publishing"
    /\ taken' \in {taken, taken \cup {pub[p].eid}}
    /\ IF Repair(p) THEN Finish(p) ELSE MoveTo(p, "failing")
    /\ UNCHANGED <<storeVars, req, batch, repairing, replicated, disturbances>>

RecordPublication(p) ==
    /\ pub[p].phase = "recording"
    /\ replicated' = replicated \cup {pub[p].eid}
    /\ IF Repair(p) THEN Finish(p) ELSE MoveTo(p, "acknowledging")
    /\ UNCHANGED <<storeVars, req, batch, repairing, taken, disturbances>>

Acknowledge(p) ==
    /\ pub[p].phase = "acknowledging"
    /\ AcknowledgeEvent(pub[p].eid)
    /\ Finish(p)
    /\ UNCHANGED <<req, batch, repairing, netVars>>

RecordFailure(p) ==
    /\ pub[p].phase = "failing"
    /\ FailEvent(pub[p].eid)
    /\ Finish(p)
    /\ UNCHANGED <<req, batch, repairing, netVars>>

-----------------------------------------------------------------------------
(* OutboxWorker *)

Due == {e \in EventIds : outbox[e] = "due"}

\* pending_events: the oldest BatchLimit of the due events.
OldestDue == {e \in Due : Cardinality({f \in Due : f < e}) < BatchLimit}

WorkerIdle == pub[Worker] = Idle /\ batch = {}

\* publish_pending runs at every tick and may find nothing due.
PollOutbox ==
    /\ WorkerIdle
    /\ batch' = OldestDue
    /\ repairing' = FALSE
    /\ UNCHANGED <<storeVars, req, pub, netVars>>

\* repair_current_records runs every six hours, after a publish_pending.
PollBackups ==
    /\ WorkerIdle
    /\ ~repairing
    /\ batch' = {backups[n] : n \in Names} \ {0}
    /\ repairing' = TRUE
    /\ UNCHANGED <<storeVars, req, pub, netVars>>

\* One event of the batch; created_at has a resolution of a second, so the order
\* within a batch is open.
PublishNext ==
    /\ pub[Worker] = Idle
    /\ \E e \in batch :
        /\ pub' = [pub EXCEPT ![Worker] = [phase |-> "publishing", eid |-> e]]
        /\ batch' = batch \ {e}
    /\ UNCHANGED <<storeVars, req, repairing, netVars>>

BackoffOver(e) == BackoffElapses(e) /\ UNCHANGED <<procVars, netVars>>

-----------------------------------------------------------------------------
(* Disturbances *)

\* A database error in publish_pending drops the rest of the batch.
WorkerAborts ==
    /\ ~WorkerIdle
    /\ batch' = {}
    /\ pub' = [pub EXCEPT ![Worker] = Idle]
    /\ Disturb
    /\ UNCHANGED <<storeVars, req, repairing>>

Restart ==
    /\ req' = [h \in Handlers |-> NoRequest]
    /\ pub' = [p \in Processes |-> Idle]
    /\ batch' = {}
    /\ repairing' = FALSE
    /\ Disturb
    /\ UNCHANGED storeVars

-----------------------------------------------------------------------------
Handle(h) ==
    \/ \E n \in Names, d \in Dests : Register(h, n, d)
    \/ \E n \in Names : BeginUpdate(h, n) \/ BeginRemove(h, n)
    \/ \E n \in Names : BeginAdminDelete(h, n) \/ BeginRetry(h, n)
    \/ ReadReceipt(h)
    \/ NameReserved(h)
    \/ \E d \in Dests : Update(h, d)
    \/ Remove(h)
    \/ Retry(h)
    \/ Abandon(h)

Publish(p) ==
    \/ PublishAccepted(p)
    \/ PublishFailed(p)
    \/ RecordPublication(p)
    \/ Acknowledge(p)
    \/ RecordFailure(p)

Next ==
    \/ \E h \in Handlers : Handle(h)
    \/ \E p \in Processes : Publish(p)
    \/ PollOutbox
    \/ PollBackups
    \/ PublishNext
    \/ \E e \in EventIds : BackoffOver(e)
    \/ WorkerAborts
    \/ Restart

Spec == Init /\ [][Next]_vars

-----------------------------------------------------------------------------
(* Safety *)

\* What the relays together still keep of a name: address events are addressable
\* (kind 30078, codec.rs), so a relay that takes a newer event of a name
\* drops the older ones, and ignores an older one that reaches it late.  The
\* newest that any of them took is kept wherever it was taken; the older ones
\* are kept, if at all, by relays it did not reach, and a restore prefers it.
\* Newer is by the order of staging; Recovery has the seconds of created_at.
Keep(n, e) ==
    /\ e \in taken \cap DOMAIN events
    /\ events[e].name = n
    /\ \A f \in taken \cap DOMAIN events : events[f].name = n => f <= e

\* What the relays keep of an address that resolves is the record that is served,
\* or the change for whose acknowledgement the address waits: a relay may have
\* taken an update or a tombstone, and forgotten what is still served, while the
\* answer was lost or is not recorded yet.
\* (stage, publish, acknowledge in direct.rs, publisher.rs and sqlite.rs)
ServedIsBackedUp ==
    \A n \in Names : Resolved(n) # NoDest =>
        \E e \in EventIds :
            /\ Keep(n, e)
            /\ \/ events[e].kind = "active" /\ events[e].dest = Resolved(n)
               \/ e \in Unsettled(rows[n])

\* The replication statistics of the administrator know at least one relay for
\* the current event of every address activated by this database: publications
\* are recorded before they are acknowledged, whoever publishes.
ActiveIsReplicated ==
    \A n \in Names : rows[n].state = "active" =>
        rows[n].eid \in replicated \cup DOMAIN Restored

\* A row disappears only after a relay took a tombstone of its address; in
\* particular a claim that is still being published is never dropped.
RemovalIsBackedUp ==
    [][\A n \in Names : rows[n].state # "absent" /\ rows'[n].state = "absent" =>
           /\ rows[n].eid \in taken \cap DOMAIN events
           /\ events[rows[n].eid].name = n
           /\ events[rows[n].eid].kind = "deleted"]_vars

\* A staged update is never overwritten or lost: while it waits the address
\* cannot be removed or updated again, and it ends by taking effect.
UpdateIsNotOvertaken ==
    [][\A n \in Names : rows[n].pEid # 0 =>
           \/ rows'[n] = rows[n]
           \/ /\ rows'[n].state = "active"
              /\ rows'[n].eid = rows[n].pEid
              /\ rows'[n].dest = rows[n].pDest
              /\ rows'[n].pEid = 0]_vars

\* The tables agree with the outbox, the events and the relays: every row that
\* waits has its event queued, every row holds what its event says, the backup
\* of a name is the newest event staged for it, and the current event of every
\* active address is known to be on a relay.
Consistency ==
    /\ TypeOK
    /\ WaitingRowsAreQueued
    /\ BackupIsNewestIntent
    /\ EventsDescribeRows
    /\ ActiveIsReplicated

\* The newest event staged for a row: the one that waits, or the one in force.
Newest(r) == IF r.pEid # 0 THEN r.pEid ELSE r.eid

\* A late or repeated acknowledgement of an old event never takes an address
\* back: the event in force, and the newest that is staged, only move forward in
\* the order of staging.
AddressMovesForward ==
    [][\A n \in Names : rows[n].state # "absent" /\ rows'[n].state # "absent" =>
           /\ rows'[n].eid >= rows[n].eid
           /\ Newest(rows'[n]) >= Newest(rows[n])]_vars

\* No step takes an address back: see the three conjuncts.
AddressesAdvance == RemovalIsBackedUp /\ UpdateIsNotOvertaken /\ AddressMovesForward

-----------------------------------------------------------------------------
(* Refinement *)

Registry == INSTANCE BackedRegistry WITH
    served  <- [n \in Names |-> Resolved(n)],
    durable <- {[name |-> events[e].name, kind |-> events[e].kind, dest |-> events[e].dest] :
                    e \in taken \cap DOMAIN events}

\* The handlers, the worker and the tables together implement BackedRegistry: in
\* particular one acknowledgement changes what one address resolves to.
ImplementsRegistry == Registry!Spec

-----------------------------------------------------------------------------
(* Liveness *)

\* The worker's task runs for as long as the process does, a publication is
\* answered or times out, the clock advances, and a relay that is tried again
\* and again by publish_pending for the same event ends by taking it (being taken
\* by the repair loop would not do: it does not acknowledge).  Nothing is assumed
\* of the handlers.
Fairness ==
    /\ WF_vars(PollOutbox)
    /\ WF_vars(PublishNext)
    /\ WF_vars(PublishAccepted(Worker) \/ PublishFailed(Worker))
    /\ WF_vars(RecordPublication(Worker))
    /\ WF_vars(Acknowledge(Worker))
    /\ WF_vars(RecordFailure(Worker))
    /\ \A e \in EventIds : WF_vars(BackoffOver(e))
    /\ \A e \in EventIds : 
          SF_vars(PublishAccepted(Worker) /\ ~repairing /\ pub[Worker].eid = e)

LiveSpec == Spec /\ Fairness

\* Every staged claim, update and removal takes effect, although handlers may
\* stop at any step, relays fail and the process is restarted.
StagedMutationsSettle ==
    \A n \in Names, e \in EventIds : e \in Unsettled(rows[n]) ~> e \notin Unsettled(rows[n])

=============================================================================
