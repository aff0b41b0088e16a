------------------------------ MODULE Bootstrap ------------------------------
(***************************************************************************)
(* The first start of a service: the set-up pages (src/bootstrap.rs) and   *)
(* the commands (src/main.rs) that initialize an empty database or restore *)
(* one (initialize_empty and restore in src/nostr/restore.rs), and the     *)
(* loop of serve (src/lib.rs) that switches from set-up to normal service. *)
(*                                                                         *)
(* initialize_empty is one database call after the other, with a           *)
(* publication in between; restore writes in one transaction.  A database  *)
(* call runs on when its client hangs up (spawn_blocking); such a request  *)
(* is no longer `live', and its transaction is its last step.              *)
(*                                                                         *)
(* A configuration is the position of its event in `confs'; configurations *)
(* are signed in different seconds, so a relay keeps the last one.  Relays *)
(* are one here; addresses are in Recovery.  What the database is filled   *)
(* with is all or nothing and is represented by the configuration.         *)
(*                                                                         *)
(* Mutations are introduced as in AddressStore.                            *)
(***************************************************************************)
EXTENDS Integers, Sequences

CONSTANTS
    Requests,   \* set-up requests and commands
    MaxConfs    \* bound: configurations signed, with the one that is recovered

ASSUME BootstrapAssumption == MaxConfs \in Nat \ {0}

VARIABLES
    seed,       \* the root-secret file
    confs,      \* signed configurations
    outbox,     \* status of their events
    db,         \* service_metadata, configuration tables, backup record
    held,       \* per seed: the configuration that the relays keep, or 0
    request,    \* per request: what it is doing
    mode,       \* the server: what it serves
    permit,     \* the permit of `restart', a tokio Notify
    timers,     \* notifications of finish_setup that are still delayed
    succeeded   \* set-up requests that were answered with success by this process

vars == <<seed, confs, outbox, db, held, request, mode, permit, timers, succeeded>>

\* "entered" is the seed that the administrator knows; it has a backup.  "fresh"
\* is a generated one.
Seeds == {"entered", "fresh"}

Ids == 1 .. MaxConfs

Configuration == [seed: Seeds, rev: Nat]

\* instance, tables and backup name the configuration they were taken from.
Database == [initialized: BOOLEAN, instance: Ids \cup {0}, rev: Nat,
             tables: Ids \cup {0}, backup: Ids \cup {0}]

EmptyDatabase == [initialized |-> FALSE, instance |-> 0, rev |-> 0, tables |-> 0, backup |-> 0]

Steps == {"seed", "validate", "install", "check",
          "enqueue", "publish", "acknowledge", "store", "instance", "revision", "mark",
          "fetch", "write"}

Transactions == {"enqueue", "acknowledge", "store", "instance", "revision", "mark", "write"}

Request == [kind: {"fresh", "recover"}, via: {"page", "command"}, step: Steps,
            eid: Ids \cup {0}, live: BOOLEAN]

NoRequest == [step |-> "none"]

TypeOK ==
    /\ seed \in Seeds \cup {"none"}
    /\ confs \in Seq(Configuration) /\ Len(confs) <= MaxConfs
    /\ outbox \in [Ids -> {"none", "due", "acknowledged"}]
    /\ db \in Database
    /\ held \in [Seeds -> Ids \cup {0}]
    /\ request \in [Requests -> Request \cup {NoRequest}]
    /\ mode \in {"setup", "draining", "normal", "stopped"}
    /\ permit \in BOOLEAN
    /\ timers \in Nat
    /\ succeeded \in Nat

\* The relays keep a configuration of the entered seed; the file of that seed
\* may have been put in place by hand.
Init ==
    /\ seed \in {"none", "entered"}
    /\ confs = <<[seed |-> "entered", rev |-> 2]>>
    /\ outbox = [e \in Ids |-> "none"]
    /\ db = EmptyDatabase
    /\ held = [s \in Seeds |-> IF s = "entered" THEN 1 ELSE 0]
    /\ request = [q \in Requests |-> NoRequest]
    /\ mode = "setup"
    /\ permit = FALSE
    /\ timers = 0
    /\ succeeded = 0

serverVars == <<mode, permit, timers, succeeded>>

-----------------------------------------------------------------------------
(* Requests *)

At(q, step) == request[q].step = step

\* After a transaction a request goes on if its client is still there.
GoTo(q, step) ==
    request' = [request EXCEPT ![q] = IF @.live THEN [@ EXCEPT !.step = step] ELSE NoRequest]

\* fresh_submit, recover_submit, or one of the commands.
Begin(q, kind, via) ==
    /\ request[q] = NoRequest
    /\ via = "page" => mode = "setup"
    /\ request' = [request EXCEPT ![q] =
          [kind |-> kind, via |-> via, eid |-> 0, live |-> TRUE,
           step |-> IF kind = "recover" /\ via = "page" THEN "validate" ELSE "seed"]]
    /\ UNCHANGED <<seed, confs, outbox, db, held, serverVars>>

\* An error, or a client that hangs up, wherever the request is.
Abandon(q) ==
    /\ request[q] # NoRequest
    /\ request' = [request EXCEPT ![q] = NoRequest]
    /\ UNCHANGED <<seed, confs, outbox, db, held, serverVars>>

\* The client hangs up while a transaction runs.
HangUp(q) ==
    /\ request[q].step \in Transactions
    /\ request[q].via = "page"
    /\ request[q].live
    /\ request' = [request EXCEPT ![q].live = FALSE]
    /\ UNCHANGED <<seed, confs, outbox, db, held, serverVars>>

\* RootSecret::load_or_create
LoadSeed(q) ==
    /\ At(q, "seed")
    /\ seed' = IF seed = "none" THEN "fresh" ELSE seed
    /\ GoTo(q, "check")
    /\ UNCHANGED <<confs, outbox, db, held, serverVars>>

\* The restore is tried on a temporary database.
Validate(q) ==
    /\ At(q, "validate")
    /\ held["entered"] # 0
    /\ GoTo(q, "install")
    /\ UNCHANGED <<seed, confs, outbox, db, held, serverVars>>

\* RootSecret::install: "A different root seed is already installed".
InstallSeed(q) ==
    /\ At(q, "install")
    /\ seed # "fresh"
    /\ seed' = "entered"
    /\ GoTo(q, "check")
    /\ UNCHANGED <<confs, outbox, db, held, serverVars>>

\* "Database is already initialized" otherwise.
Check(q) ==
    /\ At(q, "check")
    /\ ~db.initialized
    /\ GoTo(q, IF request[q].kind = "fresh" THEN "enqueue" ELSE "fetch")
    /\ UNCHANGED <<seed, confs, outbox, db, held, serverVars>>

\* Mutation: the server is not told.
SucceedQuietly(q) ==
    /\ request' = [request EXCEPT ![q] = NoRequest]
    /\ IF request[q].live /\ request[q].via = "page"
       THEN succeeded' = succeeded + 1
       ELSE UNCHANGED succeeded
    /\ UNCHANGED <<mode, permit, timers>>

\* finish_setup: a notification after half a second, in a task of its own.
Succeed(q) ==
    /\ request' = [request EXCEPT ![q] = NoRequest]
    /\ IF request[q].live /\ request[q].via = "page"
       THEN timers' = timers + 1 /\ succeeded' = succeeded + 1
       ELSE UNCHANGED <<timers, succeeded>>
    /\ UNCHANGED <<mode, permit>>

-----------------------------------------------------------------------------
(* initialize_empty *)

NextId == Len(confs) + 1

\* A configuration with a new instance id and the default reserved names.
Enqueue(q) ==
    /\ At(q, "enqueue")
    /\ NextId \in Ids
    /\ confs' = Append(confs, [seed |-> seed, rev |-> 1])
    /\ outbox' = [outbox EXCEPT ![NextId] = "due"]
    /\ request' = [request EXCEPT ![q] =
          IF @.live THEN [@ EXCEPT !.step = "publish", !.eid = NextId] ELSE NoRequest]
    /\ UNCHANGED <<seed, db, held, serverVars>>

\* A relay keeps the last configuration.
Stored(e) == [held EXCEPT ![confs[e].seed] = IF e > @ THEN e ELSE @]

\* Mutation: the error of the publication is not looked at.
PublishErrorIgnored(q) ==
    /\ At(q, "publish")
    /\ held' \in {held, Stored(request[q].eid)}
    /\ GoTo(q, "acknowledge")
    /\ UNCHANGED <<seed, confs, outbox, db, serverVars>>

\* If it fails, or its answer is lost, the event stays in the outbox.
Publish(q) ==
    /\ At(q, "publish")
    /\ held' = Stored(request[q].eid)
    /\ \/ GoTo(q, "acknowledge")
       \/ request' = [request EXCEPT ![q] = NoRequest]
    /\ UNCHANGED <<seed, confs, outbox, db, serverVars>>

\* acknowledge_event: no row and no pending configuration waits for this event.
Acknowledge(q) ==
    /\ At(q, "acknowledge")
    /\ outbox' = [outbox EXCEPT ![request[q].eid] = "acknowledged"]
    /\ GoTo(q, "store")
    /\ UNCHANGED <<seed, confs, db, held, serverVars>>

\* store_backup_record
StoreBackup(q) ==
    /\ At(q, "store")
    /\ db' = [db EXCEPT !.backup = request[q].eid]
    /\ GoTo(q, "instance")
    /\ UNCHANGED <<seed, confs, outbox, held, serverVars>>

\* set_metadata, three times.
SetInstance(q) ==
    /\ At(q, "instance")
    /\ db' = [db EXCEPT !.instance = request[q].eid]
    /\ GoTo(q, "revision")
    /\ UNCHANGED <<seed, confs, outbox, held, serverVars>>

SetRevision(q) ==
    /\ At(q, "revision")
    /\ db' = [db EXCEPT !.rev = 1]
    /\ GoTo(q, "mark")
    /\ UNCHANGED <<seed, confs, outbox, held, serverVars>>

MarkInitialized(q) ==
    /\ At(q, "mark")
    /\ db' = [db EXCEPT !.initialized = TRUE]
    /\ Succeed(q)
    /\ UNCHANGED <<seed, confs, outbox, held>>

-----------------------------------------------------------------------------
(* restore *)

\* "No backup events found" otherwise.
Fetch(q) ==
    /\ At(q, "fetch")
    /\ held[seed] # 0
    /\ request' = [request EXCEPT ![q].step = "write", ![q].eid = held[seed]]
    /\ UNCHANGED <<seed, confs, outbox, db, held, serverVars>>

\* Mutation: the transaction does not look at the database again.
WriteUnchecked(q) ==
    /\ At(q, "write")
    /\ db' = [initialized |-> TRUE, instance |-> request[q].eid, rev |-> confs[request[q].eid].rev,
              tables |-> request[q].eid, backup |-> request[q].eid]
    /\ Succeed(q)
    /\ UNCHANGED <<seed, confs, outbox, held>>

\* restore_records, one transaction; the outbox is left as it is.
Write(q) ==
    /\ At(q, "write")
    /\ ~db.initialized
    /\ db' = [initialized |-> TRUE, instance |-> request[q].eid, rev |-> confs[request[q].eid].rev,
              tables |-> request[q].eid, backup |-> request[q].eid]
    /\ Succeed(q)
    /\ UNCHANGED <<seed, confs, outbox, held>>

-----------------------------------------------------------------------------
(* The server *)

NotifyRestart ==
    /\ timers > 0
    /\ timers' = timers - 1
    /\ permit' = TRUE
    /\ UNCHANGED <<seed, confs, outbox, db, held, request, mode, succeeded>>

\* Graceful shutdown begins; in normal service it ends the loop.
Shutdown ==
    /\ permit
    /\ mode \in {"setup", "normal"}
    /\ permit' = FALSE
    /\ mode' = IF mode = "setup" THEN "draining" ELSE "stopped"
    /\ UNCHANGED <<seed, confs, outbox, db, held, request, timers, succeeded>>

ServedByPage(q) == request[q] # NoRequest /\ request[q].via = "page" /\ request[q].live

\* Mutation: whether to leave the loop is decided after the shutdown.
SwitchOrStop ==
    /\ mode = "draining"
    /\ ~ \E q \in Requests : ServedByPage(q)
    /\ mode' = IF db.initialized THEN "stopped" ELSE "setup"
    /\ UNCHANGED <<seed, confs, outbox, db, held, request, permit, timers, succeeded>>

\* Requests in flight are answered first; then the loop opens the database again.
Switch ==
    /\ mode = "draining"
    /\ ~ \E q \in Requests : ServedByPage(q)
    /\ mode' = IF db.initialized THEN "normal" ELSE "setup"
    /\ UNCHANGED <<seed, confs, outbox, db, held, request, permit, timers, succeeded>>

\* The outbox worker of the normal service.
WorkerPublishes(e) ==
    /\ mode = "normal"
    /\ outbox[e] = "due"
    /\ held' = Stored(e)
    /\ outbox' = [outbox EXCEPT ![e] = "acknowledged"]
    /\ UNCHANGED <<seed, confs, db, request, serverVars>>

\* The process ends, whatever it was doing, and is started again.
Restart ==
    /\ mode' = IF db.initialized THEN "normal" ELSE "setup"
    /\ request' = [q \in Requests |->
          IF request[q] # NoRequest /\ request[q].via = "page" THEN NoRequest ELSE request[q]]
    /\ permit' = FALSE
    /\ timers' = 0
    /\ succeeded' = 0
    /\ UNCHANGED <<seed, confs, outbox, db, held>>

-----------------------------------------------------------------------------
Initialize(q) ==
    \/ LoadSeed(q)
    \/ Check(q)
    \/ Enqueue(q)
    \/ Publish(q)
    \/ Acknowledge(q)
    \/ StoreBackup(q)
    \/ SetInstance(q)
    \/ SetRevision(q)
    \/ MarkInitialized(q)

Recover(q) == Validate(q) \/ InstallSeed(q) \/ Fetch(q) \/ Write(q)

Next ==
    \/ \E q \in Requests, kind \in {"fresh", "recover"}, via \in {"page", "command"} :
          Begin(q, kind, via)
    \/ \E q \in Requests : Initialize(q) \/ Recover(q) \/ Abandon(q) \/ HangUp(q)
    \/ NotifyRestart
    \/ Shutdown
    \/ Switch
    \/ \E e \in Ids : WorkerPublishes(e)
    \/ Restart

Spec == Init /\ [][Next]_vars

-----------------------------------------------------------------------------
(* Safety *)

\* A server that left the set-up, or starts again after a crash in the middle of
\* it, has all that normal service reads: an identity, an instance id and a
\* revision (service_configuration fails without), and its configuration is on a
\* relay, so that the database can be restored.
NormalServiceIsComplete ==
    mode = "normal" =>
        /\ db.initialized
        /\ seed # "none"
        /\ db.instance # 0
        /\ db.rev # 0
        /\ held[seed] # 0

\* The identity of a service never changes once its file is there.
SeedIsKept == [][seed # "none" => seed' = seed]_vars

\* The requests that are past "Database is already initialized".
Initializing ==
    {q \in Requests : request[q].step \in
        {"enqueue", "publish", "acknowledge", "store", "instance", "revision", "mark",
         "fetch", "write"}}

\* What initialize_empty writes, one call at a time.
PutInPlaceBy(q) ==
    \/ At(q, "store") /\ db' = [db EXCEPT !.backup = request[q].eid]
    \/ At(q, "instance") /\ db' = [db EXCEPT !.instance = request[q].eid]
    \/ At(q, "revision") /\ db' = [db EXCEPT !.rev = 1]

\* No restore writes to a database that is initialized, and nothing replaces the
\* configuration that one has put in force.  What may still be replaced is the
\* backup record, the instance id and the revision, also of a restored database,
\* by an initialize_empty that was past its check when the database was
\* initialized; no request passes that check afterwards.
InitializedOnce ==
    [][db.initialized =>
           /\ Initializing' \subseteq Initializing
           /\ db' # db => \E q \in Initializing : PutInPlaceBy(q)]_vars

\* One set-up request that succeeds does not stop the server it has set up.
\* (Two that overlap do: the notification of the second one ends the loop.)
SetupDoesNotStopService == succeeded <= 1 => mode # "stopped"

\* A server that serves has what it serves from.
Consistency == TypeOK /\ NormalServiceIsComplete

\* The identity is put in place once, and so is the database, except for what an
\* overlapping initialize_empty still has to write.
NothingIsReplaced == SeedIsKept /\ InitializedOnce

-----------------------------------------------------------------------------
(* Liveness: timers elapse, requests that are not dropped go on, and the    *)
(* server loop runs.                                                        *)

Fairness ==
    /\ WF_vars(NotifyRestart)
    /\ WF_vars(Shutdown)
    /\ WF_vars(Switch)
    /\ \A q \in Requests : WF_vars(Initialize(q) \/ Recover(q) \/ Abandon(q))

LiveSpec == Spec /\ Fairness

\* README.md: "After setup succeeds, the process switches to normal service mode
\* automatically."  It does so from wherever the success finds it in the set-up,
\* and before anything, as the notification of a second success, stops it.
SetupLeadsToService ==
    succeeded > 0 /\ mode \in {"setup", "draining"} ~> mode = "normal"

=============================================================================
