------------------------ MODULE ConfigurationManager ------------------------
(***************************************************************************)
(* The service configuration: reserved names, payment policies and the     *)
(* profile (src/configuration.rs, the configuration tables and the         *)
(* configuration half of acknowledge_event in src/repository/sqlite.rs).   *)
(*                                                                         *)
(* A handler of the administrator takes mutation_lock, reads the           *)
(* configuration in force, changes one setting, stages the signed result   *)
(* and publishes it; the outbox worker publishes what is left, without the *)
(* lock.  A configuration is abstracted to its revision and the set of     *)
(* settings that are on: a reserved name, a payment policy, a profile.     *)
(*                                                                         *)
(* A database call runs on a thread of its own (spawn_blocking) and goes   *)
(* on when the client hangs up and the handler, with its guard of the      *)
(* lock, is dropped.  A request that is not idle and does not hold the     *)
(* lock is such a leftover: its transaction is its last step.              *)
(*                                                                         *)
(* An operator introduced as a mutation is a plausible bug in the operator *)
(* that follows it; PROJECT.json names the property that notices it.       *)
(***************************************************************************)
EXTENDS Integers, Sequences

CONSTANTS
    Reservable,        \* names that can be reserved (table reserved_names)
    Policies,          \* the other settings: policies and the profile
    Admins,            \* concurrent requests of the administrator
    Worker,            \* the OutboxWorker task
    Nobody,            \* mutation_lock is free
    MaxConfigurations, \* bound: configurations in one behaviour
    MaxDisturbances    \* bound: restarts and worker errors

ASSUME ConfigurationAssumption ==
    /\ Reservable \cap Policies = {}
    /\ Worker \notin Admins
    /\ Nobody \notin Admins
    /\ MaxConfigurations \in Nat \ {0}
    /\ MaxDisturbances \in Nat

VARIABLES
    configs,       \* signed configurations in staging order; the index is the id
    outbox,        \* status of their events
    pending,       \* the row of pending_configurations, or 0
    active,        \* reserved_names, domain_payment_policies, service_metadata
    lock,          \* holder of mutation_lock
    edit,          \* per request: what it has read and means to change
    pub,           \* per process: the publication in progress
    taken,         \* ids that at least one relay has stored at some time
    disturbances

vars == <<configs, outbox, pending, active, lock, edit, pub, taken, disturbances>>

Processes == Admins \cup {Worker}

Settings == Reservable \cup Policies

Configuration == [rev: Nat, settings: SUBSET Settings]

Ids == 1 .. MaxConfigurations

EditSteps == {"idle", "revision", "reserved", "policies", "staging"}

Edit == [step: EditSteps, setting: Settings, on: BOOLEAN,
         rev: Nat, settings: SUBSET Settings]

NoEdit == [step |-> "idle"]

Phases == {"idle", "publishing", "acknowledging", "failing"}

Idle == [phase |-> "idle", eid |-> 0]

TypeOK ==
    /\ configs \in Seq(Configuration) /\ Len(configs) <= MaxConfigurations
    /\ outbox \in [Ids -> {"none", "due", "backoff", "acknowledged"}]
    /\ pending \in Ids \cup {0}
    /\ active \in Configuration
    /\ lock \in Admins \cup {Nobody}
    /\ edit \in [Admins -> Edit \cup {NoEdit}]
    /\ pub \in [Processes -> [phase: Phases, eid: Ids \cup {0}]]
    /\ taken \in SUBSET Ids
    /\ disturbances \in 0 .. MaxDisturbances

\* A restore leaves one configuration, known to the relays and in force.
Init ==
    /\ active = [rev |-> 1, settings |-> {}]
    /\ configs = <<active>>
    /\ outbox = [e \in Ids |-> IF e = 1 THEN "acknowledged" ELSE "none"]
    /\ pending = 0
    /\ lock = Nobody
    /\ edit = [a \in Admins |-> NoEdit]
    /\ pub = [p \in Processes |-> Idle]
    /\ taken = {1}
    /\ disturbances = 0

tableVars == <<configs, outbox, pending, active>>

-----------------------------------------------------------------------------
(* set_reserved, set_payment_policy, set_profile *)

\* The lock is taken before anything is read and held until the answer.
Lock(a, s, on) ==
    /\ lock = Nobody
    /\ edit[a] = NoEdit
    /\ pub[a] = Idle
    /\ lock' = a
    /\ edit' = [edit EXCEPT ![a] = [step |-> "revision", setting |-> s, on |-> on,
                                    rev |-> 0, settings |-> {}]]
    /\ UNCHANGED <<tableVars, pub, taken, disturbances>>

\* The end of a request, or of what is left of one.
Released(a) == IF lock = a THEN Nobody ELSE lock

\* service_configuration reads one table after the other, in no transaction.
Reading(a, from, to, rev, settings) ==
    /\ edit[a].step = from
    /\ edit' = [edit EXCEPT ![a].step = to, ![a].rev = rev, ![a].settings = settings]
    /\ UNCHANGED <<tableVars, lock, pub, taken, disturbances>>

ReadRevision(a) ==
    Reading(a, "revision", "reserved", active.rev, {})

ReadReserved(a) ==
    Reading(a, "reserved", "policies", edit[a].rev, active.settings \cap Reservable)

ReadPolicies(a) ==
    Reading(a, "policies", "staging", edit[a].rev,
            edit[a].settings \cup (active.settings \cap Policies))

\* The configuration an edit results in.
Edited(x) ==
    [rev      |-> x.rev + 1,
     settings |-> IF x.on THEN x.settings \cup {x.setting} ELSE x.settings \ {x.setting}]

NextId == Len(configs) + 1

\* stage_configuration: one configuration may wait at a time.  The backup record
\* it upserts is that of the last configuration of `configs'.
Stage(a) ==
    /\ edit[a].step = "staging"
    /\ pending = 0
    /\ Len(configs) < MaxConfigurations
    /\ configs' = Append(configs, Edited(edit[a]))
    /\ outbox' = [outbox EXCEPT ![NextId] = "due"]
    /\ pending' = NextId
    /\ edit' = [edit EXCEPT ![a] = NoEdit]
    /\ pub' = [pub EXCEPT ![a] =
                  IF lock = a THEN [phase |-> "publishing", eid |-> NextId] ELSE Idle]
    /\ UNCHANGED <<active, lock, taken, disturbances>>

\* "A configuration update is already pending publication".
Reject(a) ==
    /\ edit[a].step = "staging"
    /\ pending # 0
    /\ edit' = [edit EXCEPT ![a] = NoEdit]
    /\ lock' = Released(a)
    /\ UNCHANGED <<tableVars, pub, taken, disturbances>>

\* Any other error, or a client that hangs up: the guard of the lock is dropped.
Abandon(a) ==
    /\ edit[a] # NoEdit \/ pub[a] # Idle
    /\ lock' = Released(a)
    /\ edit' = [edit EXCEPT ![a] = NoEdit]
    /\ pub' = [pub EXCEPT ![a] = Idle]
    /\ UNCHANGED <<tableVars, taken, disturbances>>

\* The handler is dropped and its guard with it, its transaction is not.
HangUp(a) ==
    /\ lock = a
    /\ edit[a].step = "staging" \/ pub[a].phase \in {"acknowledging", "failing"}
    /\ lock' = Nobody
    /\ UNCHANGED <<tableVars, edit, pub, taken, disturbances>>

-----------------------------------------------------------------------------
(* Publication, by the request or by the worker; record_publication only    *)
(* keeps statistics here.                                                   *)

MoveTo(p, phase) == pub' = [pub EXCEPT ![p].phase = phase]

PublishAccepted(p) ==
    /\ pub[p].phase = "publishing"
    /\ taken' = taken \cup {pub[p].eid}
    /\ MoveTo(p, "acknowledging")
    /\ UNCHANGED <<tableVars, lock, edit, disturbances>>

\* Mutation: the error of the publication is not looked at.
PublishErrorIgnored(p) ==
    /\ pub[p].phase = "publishing"
    /\ taken' \in {taken, taken \cup {pub[p].eid}}
    /\ MoveTo(p, "acknowledging")
    /\ UNCHANGED <<tableVars, lock, edit, disturbances>>

\* One relay may have stored the event and its answer be lost.
PublishFailed(p) ==
    /\ pub[p].phase = "publishing"
    /\ taken' \in {taken, taken \cup {pub[p].eid}}
    /\ MoveTo(p, "failing")
    /\ UNCHANGED <<tableVars, lock, edit, disturbances>>

\* The answer of a request drops the guard of the lock.
Finish(p) ==
    /\ pub' = [pub EXCEPT ![p] = Idle]
    /\ lock' = Released(p)

\* Mutation: the configuration of the event is applied whether or not it waits.
ApplyAlways(e) ==
    /\ active' = configs[e]
    /\ pending' = IF pending = e THEN 0 ELSE pending

\* The configuration half of acknowledge_event: apply_configuration, and the row
\* of pending_configurations is deleted, in the transaction of the outbox row.
Apply(e) ==
    IF pending = e
    THEN active' = configs[e] /\ pending' = 0
    ELSE UNCHANGED <<active, pending>>

Acknowledge(p) ==
    /\ pub[p].phase = "acknowledging"
    /\ outbox' = [outbox EXCEPT ![pub[p].eid] = "acknowledged"]
    /\ Apply(pub[p].eid)
    /\ Finish(p)
    /\ UNCHANGED <<configs, edit, taken, disturbances>>

\* Mutation: an event that fails is marked as failed and not tried again.
RecordFailureForGood(p) ==
    /\ pub[p].phase = "failing"
    /\ outbox' = [outbox EXCEPT ![pub[p].eid] = IF @ = "due" THEN "failed" ELSE @]
    /\ Finish(p)
    /\ UNCHANGED <<configs, pending, active, edit, taken, disturbances>>

\* fail_event.
RecordFailure(p) ==
    /\ pub[p].phase = "failing"
    /\ outbox' = [outbox EXCEPT ![pub[p].eid] = IF @ = "due" THEN "backoff" ELSE @]
    /\ Finish(p)
    /\ UNCHANGED <<configs, pending, active, edit, taken, disturbances>>

\* The worker takes up an event that is due; it does not ask for the lock.
WorkerPublishes(e) ==
    /\ pub[Worker] = Idle
    /\ outbox[e] = "due"
    /\ pub' = [pub EXCEPT ![Worker] = [phase |-> "publishing", eid |-> e]]
    /\ UNCHANGED <<tableVars, lock, edit, taken, disturbances>>

BackoffOver(e) ==
    /\ outbox[e] = "backoff"
    /\ outbox' = [outbox EXCEPT ![e] = "due"]
    /\ UNCHANGED <<configs, pending, active, lock, edit, pub, taken, disturbances>>

-----------------------------------------------------------------------------
(* Disturbances *)

Disturb ==
    /\ disturbances < MaxDisturbances
    /\ disturbances' = disturbances + 1
    /\ UNCHANGED <<tableVars, taken>>

WorkerAborts ==
    /\ pub[Worker] # Idle
    /\ pub' = [pub EXCEPT ![Worker] = Idle]
    /\ Disturb
    /\ UNCHANGED <<lock, edit>>

Restart ==
    /\ lock' = Nobody
    /\ edit' = [a \in Admins |-> NoEdit]
    /\ pub' = [p \in Processes |-> Idle]
    /\ Disturb

-----------------------------------------------------------------------------
Read(a) == ReadRevision(a) \/ ReadReserved(a) \/ ReadPolicies(a)

Publish(p) ==
    \/ PublishAccepted(p)
    \/ PublishFailed(p)
    \/ Acknowledge(p)
    \/ RecordFailure(p)

Next ==
    \/ \E a \in Admins, s \in Settings, on \in BOOLEAN : Lock(a, s, on)
    \/ \E a \in Admins : Read(a) \/ Stage(a) \/ Reject(a) \/ Abandon(a) \/ HangUp(a)
    \/ \E p \in Processes : Publish(p)
    \/ \E e \in Ids : WorkerPublishes(e) \/ BackoffOver(e)
    \/ WorkerAborts
    \/ Restart

Spec == Init /\ [][Next]_vars

-----------------------------------------------------------------------------
(* Safety *)

\* Configurations replace one another on a relay as well: the newest that any of
\* them took, in the order of staging, is what the relays keep and what a restore
\* prefers.  It is the configuration in force, or the one that waits to be.
ActiveIsBacked ==
    \E e \in taken \cap DOMAIN configs :
        /\ \A f \in taken \cap DOMAIN configs : f <= e
        /\ configs[e] = active \/ e = pending

\* Exactly the configuration that waits is in the outbox, so it is never wedged
\* and no other event will apply a configuration when it is acknowledged.
PendingIsQueued ==
    \A e \in Ids : outbox[e] \in {"due", "backoff"} <=> pending = e

\* What the relays keep is in force or waits, and what waits is what is queued.
Consistency == TypeOK /\ ActiveIsBacked /\ PendingIsQueued

\* A late or repeated acknowledgement never takes the configuration back: what
\* is in force changes only to the configuration that waits, which was staged
\* after everything that a relay has acknowledged.
ConfigurationMovesForward ==
    [][active' # active => /\ pending # 0
                           /\ active' = configs[pending]
                           /\ \A e \in Ids : outbox[e] = "acknowledged" => e < pending]_vars

-----------------------------------------------------------------------------
(* Liveness: as in AddressLifecycle for the worker; and a request that holds *)
(* the lock goes on, its publication being answered or timing out.           *)

Fairness ==
    /\ \A e \in Ids : WF_vars(WorkerPublishes(e)) /\ WF_vars(BackoffOver(e))
    /\ \A p \in Processes :
          /\ WF_vars(PublishAccepted(p) \/ PublishFailed(p))
          /\ WF_vars(Acknowledge(p))
          /\ WF_vars(RecordFailure(p))
    /\ \A a \in Admins : WF_vars(Read(a)) /\ WF_vars(Stage(a) \/ Reject(a))
    /\ \A e \in Ids : SF_vars(PublishAccepted(Worker) /\ pub[Worker].eid = e)

LiveSpec == Spec /\ Fairness

\* A configuration that waits is applied in the end.
PendingConfigurationApplies ==
    \A e \in Ids : pending = e ~> pending # e

\* mutation_lock is always released: the administrator is never locked out by a
\* configuration that waits or a relay that does not answer.  (A request that
\* comes to the bound on configurations stops.)
LockIsReleased ==
    \A a \in Admins : lock = a ~> lock # a \/ NextId \notin Ids

\* Whatever is begun ends: a configuration that waits and a request that holds
\* the lock.
RequestsSettle == PendingConfigurationApplies /\ LockIsReleased

=============================================================================
