# Verification of lnaddrd

lnaddrd is a Lightning Address server. It answers what `name@domain` forwards
to from a local SQLite database, and keeps that database rebuildable: every
claim, update and removal of an address and every change of the service
configuration is a signed, encrypted Nostr event that is stored with the change
in one transaction, published to relays, and takes effect when one relay has
acknowledged it (a transactional outbox, `docs/adr/0003-transactional-outbox.md`).
Its marketplace is a page that runs in the browser: it reads the announcements
of all operators from relays, lets the user register at any of them and manages
the addresses the user has. It talks to relays through a bundled copy of
nostr-tools.

This directory holds TLA+ modules that model this program, the TLC
configurations that check them on small instances, and proofs that TLAPS checks
for instances of every size. Paths below are relative to the repository.

- [Inventory](#inventory): the parts of the system
- [Modules](#modules): what models what
- [Runs](#runs), [bounds](#bounds), [fairness](#fairness)
- [Where the code and its documents disagree](#where-the-code-and-its-documents-disagree)
- [What else the models show](#what-else-the-models-show)
- [Proofs](#proofs)
- [Not modelled](#not-modelled) and [plan](#plan)

## Inventory

The server (`src/src`), where a path has no directory it is in `src/src`:

| Part | Code | State | Operations | What is hard |
|---|---|---|---|---|
| Tables and transactions | `repository/sqlite.rs` | `payment_addresses`, `registration_attempts`, `nostr_outbox`, `backup_records`, `nostr_event_relays`, `pending_configurations`, the configuration tables, sessions, metadata | `stage_payment_address`, `stage_deletion`, `stage_address_update`, `stage_configuration`, `acknowledge_event`, `fail_event`, `retry_event_now`, `restore_records`, ... | one acknowledgement settles five tables by event id; ids may be acknowledged twice or late |
| Addresses | `service/direct.rs`, deletion and retry in `admin.rs` | none between requests | `register_lnaddr`, `update_lnaddr`, `remove_lnaddr`, `address_delete_submit`, `address_retry_submit` | no lock; rows read before network calls are used after them |
| Publisher and outbox worker | `nostr/publisher.rs` | the batch being published | `publish_pending`, `repair_current_records` | races with the handlers over the same event; answers of relays get lost; batches are limited |
| Configuration | `configuration.rs` | `mutation_lock` | `set_reserved`, `set_payment_policy`, `set_profile` | non-transactional read under a lock that the worker does not take |
| Paid registration | `registration.rs`, `payment.rs` | `mutation_lock`, rate window | `quote_checked`, `start`, `status` | payment, expiry, policy and claims interleave; clients hang up |
| Recovery | `nostr/restore.rs` | the database, and what each relay keeps | `restore`, `repair_current_records` | merging relays that know different parts; losing the database at any time |
| Bootstrap, serve loop | `bootstrap.rs`, `lib.rs`, `main.rs`, `crypto.rs` | the root-secret file, mode of the server | `initialize_empty`, `fresh_submit`, `recover_submit`, `finish_setup`, `serve` | initialization call by call; repeated set-up, delayed restart |
| Announcements, discovery | `nostr/announcement.rs`, `nostr/discovery.rs` | the current announcement | worker, `publish_announcement`, `validate_event` | stale content signed last; a second implementation in the page |
| Pricing | `payment.rs` | none | `validate_tiers`, `policy_price` | a second implementation in the page |
| Administrator | `admin.rs` | sessions, failed logins | `login`, `authenticate`, `logout`, the forms | throttling, expiry, several database calls per form |
| Request guards | `nostr/http_auth.rs`, `allow_request` | recent event ids, recent requests | `check` | boundaries of time windows |
| PostgreSQL import | `import_postgres.rs` | both databases | one command | interruption |
| Codec, keys, domain types, pages | `nostr/codec.rs`, `crypto.rs`, `domain.rs`, `outbound.rs`, `ui.rs`, `config.rs` | none | encode, decode, parse, render | - |

The marketplace (`src/marketplace`):

| Part | Code | State | Operations | What is hard |
|---|---|---|---|---|
| Discovery of operators | `js/app.js`, `js/counts.js`, `js/visibility.js`, `js/relays.js` | operators, status of domains and relays, numbers of users, a render timer | `startDiscovery`, `onevent`, `oneose`, `onclose`, `verifyDomains`, `scheduleCountFetch`, `applyCounts`, `renderOperators`, `onRelaysChanged` | answers of an earlier discovery, of overlapping checks and of several relays in any order |
| Validation of announcements | `js/announcement.js` | none | `validateAnnouncement`, `sanitizeUserCounts`, `sanitizeReservedNames`, `upsertByCoordinate` | must agree with the service's |
| List of domains | `js/browse.js`, `js/render.js`, `js/pricing.js` | none | rows, filter, order, chips, summaries | must say what the data say |
| Identity | `js/nostr-auth.js`, `js/app.js` | the connected key | connecting by the button or on the way to a dialog | the extension answers late and with any key |
| Registration dialog | `js/modal.js` | one dialog, intervals global to all | quote, submit, poll, countdown, close | late answers, closing and reopening while requests are under way |
| Manage tab | `js/manage.js` | the rows, which are busy | load, update, delete, refetch | overlapping actions and fetches of one operator |
| Relay connections | `assets/nostr-tools-2.10.4.bundle.js` | socket, connection promise, queue, subscriptions, timers | `connect`, `onmessage`, `runQueue`, `subscribe`, `close` | an old socket's handlers act on the state of a new one |
| Codes, hashes, signatures | the same | tables of multiples | `npubEncode`, `sha256`, `verifyEvent`, `schnorr.verify`, ... | boundaries of integer arithmetic |

How they interact. HTTP handlers are tokio tasks; each database call is one
transaction or statement on a thread of its own (`spawn_blocking`), and between
two of them a handler awaits, so everything else may act. Handlers and the
single outbox worker publish through the same `NostrPublisher` and settle
through the same `acknowledge_event` and `fail_event`. `RegistrationManager`
and `ConfigurationManager` have a mutex each; `direct.rs` and the worker take
neither. When a client hangs up, its handler and the guard of the mutex are
dropped, but a database call that has begun runs on. After a restart only the
database and the relays remain.

The page is single-threaded: a handler runs until it awaits or returns, and what
interleaves are its handlers, timers, promises and the answers of relays,
operators and the browser's extension. Its parts share the map of operators, the
status of domains, the connected identity and one global record of intervals. It
meets the server in three places: announcements and backup records on relays,
quotes and registrations, and the list of a user's addresses.

What makes the parts correct:

- *addresses*: what the relays keep of an address that resolves is the record that
  is served or the change the address waits for; nothing that was staged is lost,
  overtaken, undone by a late acknowledgement, or wedged; a row disappears only
  with its tombstone on a relay;
- *configuration*: one change waits at a time; what is in force, or the change that
  waits, is the newest that a relay took; what is in force moves forward; requests
  and the lock come to an end; equal revisions mean equal contents;
- *paid registration*: a name is held for its payer, only a settled invoice
  claims it, a paid claim is kept and completes, an unpaid attempt ends;
- *recovery*: what was acknowledged can be restored from the relays, in
  whatever order they answer; relays that missed something catch up;
- *bootstrap*: the root secret is written once; a server in normal service has
  all it reads, wherever an initialization was interrupted; a set-up that
  succeeds leads to normal service; no restore writes to an initialized database and
  the configuration in force is not replaced. Backup record, instance id and
  revision of one are safe only from initializations that begin later: one that was
  under way still writes its own, also into a database that was just restored;
- *announcements, pricing*: service and page accept the same announcements and
  name the same price for every name;
- *discovery*: the newest valid announcement of each origin is shown; the page
  claims neither more nor less than it has heard; it comes to an end;
- *list of domains*: filter, order, chips and summary of a row say one thing;
- *dialog, Manage tab*: what the user sees belongs to what was asked for last,
  a final state stays, a payment is shown, the table agrees with what the operators
  list but for the updates that became active after it was asked for;
- *relay connections*: a query is answered, or ends, or times out; nothing is
  delivered after the end, and an event is delivered once unless its frame hides
  its id; no message is left in the queue, except behind an empty frame or a binary
  one;
- *codes, hashes, signatures*: a code names one key; a signature is accepted
  exactly when the equation holds.

`PROJECT.json` lists every component with its status, and under `hazards` the
places in the code where these can go wrong.

## Modules

    BackedRegistry            what the server promises (abstract)
       ^ implemented by
    AddressLifecycle          handlers, worker, relays, restarts
       | EXTENDS
    AddressStore              tables and transactions
       | EXTENDED BY
    PaidRegistration          start, status, free registration, payments, clock
    Recovery                  relays one by one, loss of the database, restore
       | EXTENDS
    BackupMerge               which record wins (is_newer and the merge loop)

    ConfigurationManager      its own tables, the administrator, the worker
    Bootstrap                 root secret, initialization, restore, serve loop

    RelayQuery                what a query of one relay promises (abstract)
       ^ implemented by           ^ EXTENDED BY
    RelayConnection           Discovery     the page, over several relays

    MarketplaceViews          EXTENDS IdentityConnection, RegistrationModal, ManageTab
    ListingRules              EXTENDS Announcements, ServiceBrowser (EXTENDS
       | EXTENDED BY          Pricing), NostrCodec; uses MessageQueue,
       |                      EventChecks, ByteCodec
    MarketplaceRules          EXTENDS SchnorrVerification (EXTENDS
                              FieldArithmetic); uses Sha256, ByteCodec

    AddressStoreProofs, AddressLifecycleProofs, ConfigurationManagerProofs,
    PaidRegistrationProofs, RecoveryProofs, BootstrapProofs,
    RelayConnectionProofs, MarketplaceProofs
    MC...                     one per run or group of runs, for TLC

**AddressStore** models the tables that decide who owns an address. A
transaction is one operator: its `ensure!`s are the guard, its statements the
primed variables. A name is a (username, domain) pair. A signed event is its
position in `events`; the id of a Nostr event is the hash of its content, so
positions and ids identify events equally well. `rows` is `payment_addresses`
(with the `pending_*` columns as `pDest`, `pRev`, `pEid`), `attempts` is
`registration_attempts`, `outbox` the status of `nostr_outbox` with
`next_attempt_at` as "due" or "backoff", `backups` the event id in
`backup_records`. `acknowledge_event` settles addresses and configurations by
event id; as an id belongs to one of the two, its configuration half is in
ConfigurationManager.

**AddressLifecycle** adds the processes. Each handler is split where the code
awaits: reading the row (`Begin...`), what it awaits before staging
(`ReadReceipt`, `NameReserved`), staging (`Register`, `Update`, `Remove`, `Retry`), and
then `PublishAccepted` or `PublishFailed`, `RecordPublication`, `Acknowledge`
or `RecordFailure`, which the worker runs too. `PollOutbox`, `PublishNext` and
`PollBackups` are the worker's `pending_events`, the loop over its batch, and
the repair loop. What a handler reads and never uses again is not part of its
state: a registration is one step, and the new destination of an update is chosen
where it is staged. Any handler may be abandoned at any step, which stands for
every error answer and for clients that hang up; as these handlers hold no
lock, a database call that outlives its handler is the same as a handler that
is abandoned just after it. A publication that fails may still have reached a
relay. `taken` is what relays took at some time; what they still keep of it is
`Keep`: events of addresses are replaceable, and a relay that takes a newer one of a
name drops the older ones. "Newer" is the order of staging here; seconds and ids
are in Recovery. The initial state is a database that `restore_records` has filled, or an
empty one.

**BackedRegistry** is the promise: an address starts, changes and stops
resolving, one address at a time, and only after a relay has stored a record
that says so. AddressLifecycle implements it with `served` as the answers of
`get_payment_address` and `durable` as the records on relays.

**PaidRegistration** puts `start` and `status` step by step over AddressStore:
the steps of `call[c].step` are the places where the code awaits, `lock` is
`mutation_lock`. Free registrations, removals, the worker and the pruning of a
quote run beside them without it. Since AddressLifecycle has the details of a
publication, the worker publishes and acknowledges here in one step. The
payer (`Pay`) and the clock (`TimeElapses`, `RetentionElapses`) are the
environment: an invoice may be paid as long as its recipient accepts it, also
after the attempt has expired. Each attempt has an id, so that a request that
still holds the id of an attempt that is gone does not find another one.
`HangUp` drops a handler and its lock while its transaction runs on; the
transaction is then the last step of that request.

**ConfigurationManager** models `set_reserved`, `set_payment_policy` and
`set_profile` as one request that reads the revision, the reserved names and
the policies in three statements, as `service_configuration` does, changes one
setting, and stages, publishes and acknowledges the result under
`mutation_lock`. A configuration is its revision and the set of settings that
are on. The worker publishes and acknowledges without the lock; `HangUp` is as
above. `taken` is what relays took; the newest of it is what they keep.

**BackupMerge** has `is_newer` as an operator, the loop of `restore` over the
events of one coordinate as a recursive function, and what the loop is for: the
one version that is newer than all others. `RelayPrefers` is the rule for
replaceable events that relays follow, which is not that of the merge.

**Recovery** extends AddressStore with what each relay keeps. That handlers and
worker interleave is the subject of AddressLifecycle; here publishing and
acknowledging an event is one step (`Publish`), and the point is which relays
took it. Requests still read a row (`ReadRow`) and use it later, as two events
with one revision are possible. The loss of the database empties the tables and keeps the
relays; `Restore(F)` merges any part `F` of what the relays keep, since
`restore` uses what arrived within 15 seconds, and rebuilds rows and backup
records as `restore_records` does. Time passes in seconds, the resolution of
`created_at`; ids of events order those of one second either way (`idSign`).
`inForce` and `partial` record history for the properties. The
configuration is not part of this module: Bootstrap restores it.

**Bootstrap** models the set-up pages and the commands `initialize-empty` and
`restore`, request by request. The steps of `request[q].step` are the calls of
`initialize_empty` (`enqueue_event`, `publish`, `acknowledge_event`,
`store_backup_record`, three times `set_metadata`; `record_publication` changes
nothing that is modelled) and of `recover_submit`. A request may fail or its
client hang up anywhere; a transaction that has begun then runs on, with the
request marked as not `live`. `mode`, `permit` and `timers` are the loop of
`serve`, the permit that `Notify::notify_one` leaves, and the tasks of
`finish_setup` that still sleep. Files are written whole. Relays are one here,
and keep the configuration that was signed last.

**RelayQuery** is what Discovery relies on when it calls
`pool.subscribeMany([relay], ...)`: events that match and verify arrive until the
query is closed, each at most once unless it is one of those that relays disguise
(`again` has the ones that came twice); the end of the stored events is said once;
closing is said once and last; one of the two is said in the end.

**RelayConnection** implements it: one relay of the pool, its sockets
(`ws[a]` for each attempt), the promise of the connection, its timers, the
queue with its loop, and the subscriptions. A socket's handlers stay bound to
the relay object, so `SocketOpens` and `SocketCloses` of an old one act on the
variables of the newer one, as in the bundle. Continuations of promises run
before the next callback: `MicrotasksDone` is a guard of every callback. What a
relay may send is a set of `Frames`: messages, an empty frame, which ends the loop
of the queue, a binary one, whose text cannot be scanned, so that the loop ends with
`queueRunning` set (`thrown`), and events in frames that hide their id (padding), for
which the check of `_knownIds` is skipped. Each attempt to connect has a timer of its
own (`timers`), of which the relay can clear only the last. Calls of `oneose` and
`onclose` are counted, so that a second one would show.
`MessageQueue` is the linked list behind the queue, node by node, and
`EventChecks` the checks that an event passes on its way to a number of users.

**Discovery** is `app.js` without the identity: the handlers of each relay's two
queries, the map of operators by coordinate (key and origin), the status of
domains by key, domain checks under way, numbers of users, the render timer and
`onRelaysChanged`. What an earlier discovery left under way stays in `late` and
`overheard` and goes on acting on the new maps, as closures in the code do: a relay
that was still connecting, and a query that its relay had ended without a word to
the page (`untold`: CLOSED with an empty reason), which `close()` reports when the
next discovery has begun. A relay whose URL the library cannot parse is `Malformed`.

**IdentityConnection**, **RegistrationModal** and **ManageTab** each model the
handlers of one file, split where they await. The operator that they talk to is what
`registration.rs`, `direct.rs` and `api_v1.rs` let a client see of it. In
IdentityConnection each request for a list of the table is kept with the key that
signed it, which is the extension's choice, and the key the header showed
(`SignList`). In ManageTab an update is `staged` at the operator and listed only when
it is acknowledged (`Acknowledge`), before the answer or after it; the page does not
look at which; an answer to the first load may be a list, a failure, or a success
whose body is no list. `timers` in
RegistrationModal is the global record of intervals, `open` the number of the
dialog that is shown, so that an answer that belongs to an earlier dialog is told
apart. **MarketplaceViews** composes them: a behaviour is one of three scenes,
since the dialog covers the page and neither it nor the table shares a variable
with the others once it has taken the identity.

**ListingRules** and **MarketplaceRules** have no state but a question: each action
chooses one input from a set, and an invariant states the answer of the code's
function against a definition. **Announcements** has both validators, `validate_event` of
`discovery.rs` and `announcement.js`, field by field over hosts as label sequences.
What the idna library makes of a host that is not plain ASCII, or that it refuses, is
external, and a field of the host; the limit of 253 characters is the service's own.
**Pricing** has `validate_tiers` and `policy_price` of the service, and price and
summary of the page. **ServiceBrowser** has rows, badges, chips, filter and order;
**NostrCodec** bech32 and the contact link, with a number's ones as a set of places
where the code shifts and adds without carry; **ByteCodec** the hexadecimal
conversions. ListingRules asks what these do, and what **MessageQueue** and
**EventChecks** do with the messages of a relay; MarketplaceRules adds the library's
arithmetic. **FieldArithmetic** and **SchnorrVerification** have the field, the
projective formulas, the windowed and the split multiplication and BIP-340
verification, with the curve as constants; **Sha256** the hash object with its
buffer. FieldArithmetic, SchnorrVerification and Sha256 are the only modules with
RECURSIVE operators, and MarketplaceRules the only one above them; no theorem is
about these four.

Operators introduced by a comment "Mutation:" are plausible bugs. They are no
part of the model; `PROJECT.json` pairs each property with a mutation of a
modelled operator under which the property fails.

## Runs

| Run | Instance | Shows |
|---|---|---|
| `address_lifecycle` | 2 handlers, 1 restored name, 2 destinations, 2 further events, 1 disturbance; 1.1 million states | tables, outbox and relays agree (`Consistency`), what relays keep is what is served or what waits (`ServedIsBackedUp`), nothing staged is overtaken (`AddressesAdvance`), and AddressLifecycle implements BackedRegistry |
| `address_liveness` | 1 handler, 2 names, 2 events, batches of 1, 1 disturbance | whatever was staged settles, although events that fail compete for the batch |
| `configuration` | 2 requests, 1 setting, 2 configurations after the restored one, 1 disturbance | what relays keep is what is in force or what waits, and what is in force moves forward; exactly what waits is queued; requests and lock come to an end |
| `paid_registration` | 2 requests, 1 name, 2 recipients, 2 attempts, 3 events; 269,000 states | names are held for payers, only a payment claims, claims are kept and queued, and complete |
| `paid_hangup` | the same | *violation*: an expiry left by a client that hung up revokes a paid claim |
| `recovery` | 2 relays, 2 requests, 1 name, 3 events, 2 seconds; 284,000 states | what was acknowledged can be restored, the merge ignores the order of arrival, relays catch up |
| `recovery_reclaim` | the same | *violation*: a removed name that was claimed again is restored as removed |
| `bootstrap` | 2 requests, 3 configurations; 189,000 states | normal service is complete, the seed is kept and the database initialized once (`InitializedOnce` names what an initialization under way may still write), one set-up does not stop the service, and a set-up that succeeds leads to it |
| `relay_connection` | 2 queries, 2 events (one in a padded frame), empty and binary frames, 2 attempts to connect, 2 messages in the queue; 455,000 states | the queue is served but behind the two frames that end its loop; nobody waits without a timer or a socket; RelayConnection implements RelayQuery, liveness included |
| `discovery` | 2 relays and a malformed one, 4 announcements for 2 origins of one key, one of which may come twice, 2 domains, 1 change of relays, 1 thing left under way; 185,000 states | the newest announcement is held, the page is honest, takes nothing back that still holds, and comes to an end |
| `marketplace_views` | 2 keys and 3 questions to the extension; 2 names, 2 dialogs, 2 quotes, 2 submissions, 1 poll; 2 operators with 2 addresses, 2 tables, 2 actions; 750,000 states | timers are those of what is shown and the table was asked for under the identity in the header, the quote is current, final states stay, a payment is shown, the table is true, and loading ends unless an answer is no list |
| `marketplace_rules` | the input sets of MCMarketplaceRules; 18,000 inputs | prices, announcements, rows, codes and signatures as described above |

The properties are stated, with the code they are about, above their
definitions. The ones to read first are `ServedIsBackedUp`,
`UpdateIsNotOvertaken`, `AddressMovesForward` and `StagedMutationsSettle` in
AddressLifecycle, `PendingIsQueued` and `ConfigurationMovesForward` in
ConfigurationManager, `NameIsHeldForPayer`, `PaidClaimIsProtected` and
`PaidClaimCompletes` in PaidRegistration, `AcknowledgedIsRestorable` in
Recovery, `NormalServiceIsComplete` and `SetupDoesNotStopService` in Bootstrap,
`WaitingIsForASocket` in RelayConnection, `VerifiedStays`, `NoneFoundIsTrue` and
`DiscoverySettles` in Discovery, and `TableIsTrue` in ManageTab. Where the code
has a case in which a property does not hold, the property names that case
(`ExpiryIsLeft`, `PutInPlaceBy`, `stalled`, `thrown`, `Disguised`, `overheard`,
`behind`, `Unreadable`, `Shared`, `crossed`, ...) and shows that there is no other.

The instances include the cases that are hard to test: handler and worker publish the
same event and both acknowledge it; the repair loop publishes the record of a mutation
that waits; an acknowledged event is made pending again by the administrator's retry
while the row has moved on; the row is removed and registered again while the first
publication is still under way; a policy changes between the verification of an
invoice and the comparison of its recipient; relays keep different events of one name
when the database is lost; two initializations, or one and a restore, overlap; a
socket opens after its attempt was given up and another one began; the relays are
changed while a relay of the last discovery still connects, or after one of its relays
ended a query untold; two announcements of one origin are equally old; a dialog is
closed and another one opened while the first submission is awaited; two actions and
two fetches of one operator's rows overlap; an update is acknowledged before, between
or after the two.

### Bounds

| Bound | Why it is enough |
|---|---|
| `MaxEvents` | Events beyond the restored one, per behaviour. Every property relates at most the event in force, the one that waits and the one that comes after or before them. Two handlers stage in any order; with two further events an update or removal overlaps another one, and a removal is followed by a new claim. |
| `Handlers`, `Calls`, `Admins` | Two requests: one that acts between two steps of the other. The worker is a third process. |
| `MaxDisturbances` | One restart, worker error or retry by hand, at any time. Abandoned requests are not bounded. |
| `BatchLimit` | The code reads 32 events; a batch of 2 (and of 1 in `address_liveness`) makes the limit matter. |
| `MaxConfigurations` | The restored configuration and two more: a late acknowledgement of the second may meet the third. |
| `MaxAttempts` (PaidRegistration) | An attempt and the one that replaces it. |
| `Relays`, `MaxTime` (Recovery) | Two relays are enough to know different things; a third one repeats either. Three events in up to three different seconds. |
| `MaxConfs` | The configuration to recover and two that initializations sign. |
| `MaxAttempts`, `MaxQueue` (RelayConnection) | An old socket beside a new one; one message handled while another waits. A timer that no handle leads to any more needs a third attempt: the run does not reach it, the proofs of `Consistency`, `WaitingEnds` and `QueriesBehave` are for any number. |
| `MaxRuns`, `MaxLeft` (Discovery) | A discovery and the one after the relays were changed, with one connection of the first still under way. `Limit`, the number of backup records a relay is asked for, is 2. |
| `MaxAsks` (IdentityConnection) | Two questions that overlap and one more. |
| `MaxModals`, `MaxQuotes`, `MaxSubmits`, `MaxPolls` | A dialog and its successor, two requests of a kind that overlap. One poll of an invoice is under way at a time; there may be any number one after the other. Two polls of one invoice that overlap exceed the time of a run; `FinalStaysFinal` is proved for any number. |
| `MaxTables`, `MaxActions` | A table and its successor; two actions, so that their fetches overlap with each other and with the first load. |
| Input sets | Lengths, prices, labels, expirations, counts, bytes and words on both sides of each boundary that the code compares with; announcements with any one or two fields changed from a good one. |
| The curve | y² = x³ + 7 over 43 elements: like secp256k1 it has prime order (31 points), A = 0, p ≡ 3 (mod 4), and an endomorphism that splits scalars, here into halves of 3 bits. All digits, carries and signs of the windows occur. |
| SHA-256 | `Update` and padding over blocks of 16 bytes with pieces of up to 33; the compression of whole blocks by known digests of 0, 3, 56 and 64 bytes. |

The proofs do not depend on these numbers. Deadlock is checked in every run of
the server. It is not checked in the four runs of the marketplace: a page whose
requests are answered stops until the user acts, the user's actions are bounded,
and a rule is asked once.

### Fairness

Safety runs assume none, except that `paid_registration` checks its
liveness property in the same run. In AddressLifecycle the worker alone
is fair: `OutboxWorker::run` loops for as long as the process runs, a
publication is answered or times out, and time passes, so each of its steps is
weakly fair. A relay that is tried again and again with one event takes it in
the end; that is strong fairness of `PublishAccepted(Worker)` for each event,
since the event comes and goes between attempts. Without it no claim could ever
settle. Nothing is assumed of handlers: clients may hang up, and
`StagedMutationsSettle` must hold all the same. ConfigurationManager and
PaidRegistration in addition let a request that has begun go on, as a tokio task
does; beginning one is never fair. In PaidRegistration the clock advances
(`TimeElapses`), while nothing makes a client pay or poll. In Recovery the
repair loop is weakly fair for each relay and name: a relay that is sent the
current record again and again takes it in the end, which is all that
`RelaysConverge` needs. In Bootstrap a delayed notification is sent, the server
loop goes on, and a request that began ends in one way or another; beginning
one, a crash and a command are never fair.

In RelayConnection the browser is fair, the relay is not: a socket that connects
opens or fails, timers elapse, and the continuation of a promise and the queue's
loop run. A relay may never answer. In Discovery a query is told the end of
its stored events or is closed, which is what RelayQuery promises and
RelayConnection implements, and a domain check is answered (`fetch` with an abort
signal); nothing else is needed. In MarketplaceViews the steps of polling are weakly
fair (intervals fire, and a poll that is sent resolves or rejects), and so are the
page's own continuations in the Manage tab. That a request of the tab is signed by
the extension and answered is no fairness of the code (there is no abort there): it
is the premise of `ManageSettles`. No user is fair.

## Where the code and its documents disagree

These are runs that end in a counterexample:

1. `paid_hangup`: `update_registration_attempt` replaces any state, protected by
   `mutation_lock` only, and the lock is gone when the client hangs up although
   the write is still to come. The next request can claim the name for the
   settled invoice, and the write then declares the claim expired, against
   `docs/spec.md` section 7. `PaidClaimIsProtected` states, and
   `ClaimsAreProtected` proves, that nothing else does this.
2. `recovery_reclaim`: a claim always has revision 1, a tombstone at least 2, and
   `is_newer` compares revisions first. If the tombstone is on one relay and the
   later claim on another, a restore from both takes the tombstone, against
   `docs/spec.md` section 16. A single relay, or one that took both, keeps the
   claim. `AcknowledgedIsRestorable` shows that this needs revisions that go back
   or two events of one second.

These are seen in the models and described here only:

3. `update_lnaddr`, `remove_lnaddr` and `address_delete_submit` sign
   `revision + 1` of a row they read before awaiting (`service/direct.rs:307`).
   The check in `stage_address_update` compares the row with itself inside one
   transaction, so two overlapping requests stage two events with the same
   revision, against `docs/spec.md:399` ("Revisions start at 1 and increment for
   every update/tombstone").
4. While a request reads the configuration table by table (`configuration.rs:82`),
   the worker may apply one that waits. The request then stages other settings
   under a revision that already exists, against `docs/adr/0003` ("cannot
   produce divergent revisions"), and may drop the change it did not see.
5. `initialize_empty` publishes a configuration with the default reserved names
   (`nostr/restore.rs:97`), but the tables are filled by `restore_records` and
   `apply_configuration` only. A fresh service reserves nothing, against
   `README.md:214`.
6. The event of a fresh initialization that failed stays in the outbox
   (`nostr/restore.rs:85`). If the service is then recovered with the same root
   secret, the worker publishes the empty configuration, signed later, over
   the recovered one, against `docs/spec.md:466`.
7. `docs/protocol/02-service-announcements.md` (213-216, 227-229) has clients
   ignore invalid entries of the optional lists; the service's own discovery
   rejects the whole announcement for one (`nostr/discovery.rs`). The page follows
   the document. `ValidatorsAgree` names this difference.
8. `modal.js` (77-79) says that closing clears the intervals of a dialog. When it is
   closed while a submission is awaited, the continuation installs them afterwards.

## What else the models show

In the server:

- `status` reads the policy and the clock around a verification that takes a
  network round trip; an invoice settled after the answer was given is not
  noticed, and the attempt expires although it is paid.
- Only a poll expires an attempt: one that nobody polls holds its name for longer
  than the 15 minutes that `README.md` states.
- A client that hangs up during the last call of its set-up leaves an
  initialized database behind a server that goes on showing the set-up pages.
- Two set-up requests that both succeed send two notifications, and the second
  one ends the normal service; `SetupDoesNotStopService` states that it takes two.
- `initialize_empty` checks once that the database is not initialized. One that was
  past its check when a restore ends replaces the backup record, the instance id and
  the revision of the restored database (`InitializedOnce` names these three).
- While a publication is unanswered, relays may have dropped the record that is
  served for the update or tombstone that replaces it: a database lost at that moment
  is restored with the change that nobody was told of.

In discovery: a late failure of a relay of the last discovery settles and reddens
the same relay of the new one, and so does a query that its relay had ended with
CLOSED and an empty reason, whose `onclose` is called only by the `close()` of the
next discovery; an announcement that replaces another loses the
number of users, which is fetched only once; `verifyDomains` deletes the
results of domains of another origin of the same key, and nothing checks them
again; checks of one domain that overlap are written in the order of their
answers; a newer announcement that is retired or invalid does not replace an older
one; a relay URL that cannot be parsed never settles, and the page says
"Discovering operators" for ever.

In a connection: a socket that opens after its attempt timed out clears the timer of
the next attempt; the close of an old socket drops the newer promise, and a
REQ that is written then is lost (the query's own timer still ends it); an
empty frame ends the loop of the queue until the next message; a binary frame ends it
for good, since `getSubscriptionId` throws outside the `try` of `handleNext` and
`queueRunning` stays set; an event in a frame whose id is hidden by padding is
delivered as often as it is sent; CLOSED with an empty reason does not call
`onclose` until the query is closed; a third attempt to connect may leave a timer
armed that no handle leads to, and that rejects the promise of an attempt that is
over.

In dialog and tab: a late poll of an earlier dialog clears the intervals of the new
one; a quote that arrives during a submission enables its button again; a
countdown may say "expired" although the invoice was paid; one failed poll stops
polling; fetches of one operator's rows that overlap are written in the order of
their answers; `renderRows` enables the buttons of a row that is busy. An update that
no relay took is answered with success and `active: false`, which the page does not
read: it asks for the list at once, shows the former destination and does not ask
again. A list that is no JSON leaves "Loading your addresses" on the page
(`api.js:11`, `manage.js:164`). The list is the one of the key that signs: when
another account was selected in the extension, the table shows that one's addresses
under the first one's name.

In the rules: the page accepts a domain of more than 253 characters, and one with a
punycode label that does not decode, where the service refuses the announcement, and
refuses an international name, which the service reads in its ASCII form; tiers that
only cover lengths below 1 make the summary say "free"
where a name has no price; `hexToBytes` takes "1x", "+1", " 1" and "-0"; text with
one byte left over makes `parseTLV` loop (not used by the page); a
signature whose s is zero is refused.

## Proofs

Every invariant and action property that has a theorem holds for all values of the
constants, from the named assumptions on them. Each follows from an inductive
invariant that says more than the property. `PROJECT.json` lists the theorems.

`AddressLifecycleProofs` proves, for every set of handlers, names and
destinations and every value of the bounds, from `StoreAssumption` and
`LifecycleAssumption` only, all invariants and action properties of the run
`address_lifecycle`, the refinement included.

The properties are not inductive as they stand: nothing in `ServedIsBackedUp`
says that a handler about to acknowledge has an event that a relay took, or that what
a relay took last is either in force or waits.
`LifecycleInv` strengthens them:

- `StoreInv`, what every transaction preserves whoever runs it: rows are
  described by their events, waiting rows are in the outbox, backup records are
  the newest, an update that waits is newer than what is in force. The
  lemmas of `AddressStoreProofs`, one per transaction, prove this once, without
  any assumption on the caller except the record it passes;
- `PublicationsCarried`: a process in phase "recording" or "acknowledging" has an
  event that a relay took, and in phase "acknowledging" one that is recorded;
- `ActiveIsOnRelay`: the event in force of an active row was taken by a relay;
- `InForceIsTaken`: what an address answers with is what a record says that a relay
  took, also while a deletion waits and the row already points to the tombstone,
  and the only event of the name staged since is the one that the row waits for;
- `BackupIsLast`: the backup record of a name is the last event staged for it.

`ServedIsBackedUp` follows from `InForceIsTaken`: of the events of a name that relays
took, the one that they keep is the last, which is the record in force or the event
that the row waits for.

`InitInv` and `NextInv` show that it is inductive, with one lemma per action.
The action properties follow from a classification of what a step does to one
row (`RowSteps`): nothing, a claim, the staging of an update or of a removal, or
one of the three settlements. `RemovalsAreBackedUp`, `UpdatesAreNotOvertaken` and
`AddressesMoveForward` are read off it. `TablesStayConsistent` and
`AddressesOnlyAdvance` are the properties of the run.

`RegistryIsImplemented` is the refinement: `Spec => ImplementsRegistry`. A step of
the server that changes what a lookup answers must be an acknowledgement, seen
by BackedRegistry as `Serve`, and a step that puts a new record on a relay a
publication, seen as `Store` (`StepKinds`); every other step is a stutter. Two facts
carry it. Staging and the change of the outbox must not touch `durable`, which
needs one more invariant, `OnlyStaged`: whatever is queued, published or on a
relay has been staged, so that the event which a handler is about to stage is on
no relay yet (`StagingEffect`). And an acknowledgement may change an answer only
to what a relay keeps, which is `PublicationsCarried` again (`ServeStep`).

`ConfigurationManagerProofs` proves the invariant and the action property of the
run `configuration` from `ConfigurationAssumption`. `ConfigurationInv` adds
that a configuration that waits was staged last, that events in the outbox were
staged, that a process publishes what was staged and acknowledges only what
a relay took, and that what is in force was taken by a relay and only what waits was
staged since (`ActiveIsTaken`). The first makes a late acknowledgement harmless, the
last gives what relays keep.

`PaidRegistrationProofs` proves the invariants and `PaidClaimIsProtected` of the
run `paid_registration` from `StoreAssumption` and `PaidAssumption`, on the
lemmas of `AddressStoreProofs`. The point is `CallInOrder`: a request that is
not in a transaction holds the lock; one that claims, and whose attempt is still
that of the name, has found its invoice settled; and while one that found it
unpaid holds the lock, nobody has claimed the name for that attempt or is about
to, not even a transaction that its client left behind, since that one would have
found the invoice settled before. That a paid claim that waits has its event in the
outbox, due or backing off (`WaitingAttemptsAreQueued`), comes from `StoreInv`: the
attempt and the row name the same event, and a row that waits has its event queued.
Attempts are told apart by their ids, which
only grow (`IdsGrow`), so that what a request knows of a former attempt does
no harm. What is left is `ExpiryIsLeft`, the divergence of `paid_hangup`.

`RecoveryProofs` proves for any number of relays, requests, names and events, from
`StoreAssumption` and `RecoveryAssumption`, both invariants of the run,
`Consistency` (`MergeIsConsistent`) and `AcknowledgedIsRestorable`. First the merge:
`MergeOrder` (`is_newer` is a strict order that decides between any two events),
`NewestExists` (a finite set of versions has a winner, so that `Merged` is
defined) and `TurnKeepsWinner` (a turn of the loop keeps the winner).
`LoopFindsWinner` concludes that the loop of `restore` returns the winner
of every finite set of versions with different ids, in whatever order they
arrive. It is an induction on the number of turns, made without the induction
theorems: were there a number of turns after which the result is wrong, there
would be a least one (`LeastNatural`, from the well-foundedness of `<`), and
`NextWinner` leads from the turn before it to a contradiction. Then the relays,
with the invariant `RecoveryInv`:

- `StoreInv`, by the lemmas of AddressStoreProofs again, now also through a
  loss and a restore (`FilledInv`);
- `EventsSigned`: what relays, tables and `inForce` point to are events of that
  name, and no event was signed after `now`;
- `Retained`: for each name whose events are in order, some relay keeps the event
  in force or one staged later. It speaks of one relay, where
  `AcknowledgedIsRestorable` speaks of the merge of all: a relay replaces an event by a
  later one only (`KeptFacts`), and the merge returns none that is older than
  any it is given (`MergedFacts`). That is `RetainedIsMerged`.

`BootstrapProofs` proves every property of the run `bootstrap` except the
liveness, for any number of requests and configurations, from
`BootstrapAssumption`. `DataInv` adds to the types what a request has achieved
at each of its steps (`Knows`): a seed is in place, its event exists, a relay
keeps a configuration of the seed, the metadata of the steps before is written. As
these facts never become false again (`Grows`), other requests cannot disturb
them, and the last step has all of them at hand. The same facts carry
`DatabaseIsInitializedOnce`: only the check makes a request one that initializes, and
it does not pass once the database is initialized; a restore writes in the step that
looks; of the steps of `initialize_empty` after its check, the ones that change what it
would find are the three that `PutInPlaceBy` names.
`ServerInv` counts: each
notification that sleeps, waits as a permit or has been used was sent by
a request that succeeded, so the second one, which would end the normal
service, needs a second success.

`RelayConnectionProofs` proves, for any number of queries, sockets and messages,
`Consistency` and `WaitingEnds` of the run `relay_connection`, and that every step
is a step of RelayQuery or leaves it alone (`QueriesBehave`: the safety part of
`ImplementsRelayQuery`). `AttemptsAreTracked`: a promise that is not settled belongs
to a socket that the browser still works on, whatever an older socket, or a timer
that no handle leads to any more, does to the relay object. `QueriesAreInOrder`: the
page is told of the end of stored events and of the end at most once, and of an event
whose frames all show its id, not again, since `known` has it.

`MarketplaceProofs` has three parts. The first is about the rules of ListingRules,
under `ListingSpec`, the specification without the actions that MarketplaceRules adds.
It assumes what a price list, an announcement, an operator, a message and a key are
(`PriceListsAssumption`, `AnnouncementsAssumption`, `RowsAssumption`,
`MessagesAssumption`, `KeysAssumption`), and nothing of how many there are or how
long, but that a key has at most 32 bytes. An operator's fields are those that
discovery fills from an announcement it has accepted; events of a relay are of any
content, in any number and order, whether they verify or not. `PricesAreTold`
(`PricesAreAlwaysTold`): the service takes the first tier that is long enough, the
page the one with the least such length, and the summary has one text for every
length; both come down to the existence of a least and a greatest element of a set of
naturals (`LeastNatural`, `GreatestNatural`). `AnnouncementsAreJudgedAlike`
(`AnnouncementsStayJudgedAlike`): the regular expression for hosts says of a label
what the loop over its characters does (`HostsAreJudgedAlike`), a public host that
parses is what it is parsed to (`PublicIsParsed`), so that the differences left are
those that are named; and when an unusable entry is taken out of a list, the usable
ones move and the last one for a domain stays the last (`WithoutFacts`).

Loops of the code are recursive functions here. Such a function is shown to exist, since a
least number of turns for which there is none would have a predecessor for which
there is one, and what each turn keeps holds by the least turn after which it would
not. `RowsAreTrue` (`RowsStayTrue`) has three loops. The nodes of the linked list that
can be reached from its head are the sequence of what was put in and not yet taken
(`QueueTurnHolds`). After each event the counter holds, for every key, the number of
d-tags among the records that came so far (`RecordIsCounted`, with the set of
records seen as the history it needs). And the rows of the operators, joined one operator
after the other, are again a sequence of rows (`FlatIsSequence`, `RowsAreRows`).
Sorting goes by the places of the rows: the comparator, with the place as the last
resort, is a strict total order on places (`ValuesAreOrdered`, `RowsAreOrdered`), so
that the number of places before a row is a permutation of them (`SortRearranges`).

`CodesNameKeys` (`CodesAlwaysNameKeys`) has two halves. Regrouping: five bits and the word
they spell determine each other, and so do eight and a byte; bytes regrouped to words
and back are the same bits, with zeros after them (`WordsReadBack`), and words that
read as bytes at all had only those zeros to spare, so they are the ones the bytes
are written as (`OneReading`). Checksum: a turn of the register is injective, since
the low five places of the five generators are independent, so that what fell out
of the register can be read off what came of it (`PolymodInjective`). Two codes that
differ at one place have the same register before it and different ones after it, in
each turn to the end (`OneChangeShows`), and so different checksums
(`ChecksumShows`): with any one letter changed, in the words or in the checksum, a
code does not read (`KeyIsNamed`). Nothing is claimed of codes with several letters
changed. Hexadecimal text goes pair by pair (`PairFacts`, `HexFacts`).

The second part proves the invariants and the action
property of the run `discovery`, for any number of relays, announcements, domains
and discoveries, from `EventsAssumption`, `RelaysAssumption`, `CountsAssumption`,
`OutcomesAssumption` and `RunsAssumption`. `DiscoveryInv` adds to the properties

- `SettledIsAnswered`: a relay counts as settled because its query was answered, or
  because one of an earlier discovery has failed or been closed by now:
  `NoneFoundIsTrue` needs to know which;
- `BatchesApart`: an operator is in one batch of a discovery at most, so that two
  fetches never count for one entry;
- `CountsBehind`: an entry shows no more users than the fetch under way has seen,
  except where a query of an earlier discovery still counts (`CountsOverheard`).

`NewestIsKept` follows from the order `Newer`: replacing the held announcement only
by a newer one keeps the newest of all that arrived. `NothingShownIsTakenBack` has
`VerifiedStays`, by a look at every step: only a new discovery, a check that fails
and an announcement without the domain take a verified result off the page; and
`CountsGrow`, from `BatchesApart` and `CountsBehind`.

The third part proves the invariants and action properties of the run
`marketplace_views`, from `IdentitiesAssumption`, `ModalAssumption`,
`TargetsAssumption` and `TablesAssumption`. `ViewInv` is one invariant per scene, and a
step of one scene leaves the variables of the others alone:

- `IdentityInv`: somebody is connected once an ask of the extension was answered
  (`AsksAreAnswered`), and every list of the table in view was asked for while the
  header showed the key it shows now (`ListsAreShown`);
- `ModalInv`: dialogs are numbered in the order they open (`DialogsAreNumbered`);
  requests for a quote under way have different numbers, so that the last one
  asked is one (`QuotesDiffer`); what is polled or counts down is the invoice of a
  submission, and stops when its view says something final
  (`InvoicesAreShown`); the record of intervals knows every interval that runs,
  unless dialogs have crossed (`HandlesAreKnown`). `QuoteStaysCurrent` and
  `FinalStaysFinal` follow;
- `ManageInv`: a list that was fetched is of the operator it was asked of
  (`ListsAreOwn`), a table that loads shows nothing (`NothingShown`), only what an
  operator has is waiting to be updated (`StagedAreHeld`), so that an update that
  becomes active brings no address back, and an operator that is not in doubt has at
  most one action under way, whose list, once fetched, agrees with what the operator
  lists (`OneAtATime`). `TableStaysTrue` follows.

Model-checked only: liveness, since the prover does not reason about fairness here,
and with it the whole of `ImplementsRelayQuery` (its safety part is proved); and
`SignaturesAreSound` of MarketplaceRules: field, curve and hash are RECURSIVE
operators, and that a number reads back from its bytes is about powers with a variable
exponent, which the provers do not handle. The assumptions on constants are types,
finiteness and that values which must differ do, and what idna leaves alone
(`HasAscii`); the modules that declare them say what each stands for, and TLC
evaluates them in the runs.

## Not modelled

- Administrator login and sessions, request guards (replay window, rate window),
  the PostgreSQL import, HTTP routing, pages and the configuration file.
- The service's own encryption, signatures, JSON and wire format: an event is
  identified by its id and decodes to the record it was made of.
- Which relay holds what, except in Recovery and Discovery: elsewhere "the relays"
  means at least one.
- Records of an unknown schema, which a restore keeps and does not apply, its
  dry run, and the check of the configured domains.
- A root-secret file that is only partly written.
- In PaidRegistration, authentication, validation of destinations and the fields of
  invoices: what they decide is that a request goes on or is abandoned.
- The content of configurations beyond the set of settings that are on; how the
  service builds its announcements and when it publishes them.
- Reserved names and policies are read before a claim is staged; AddressLifecycle,
  PaidRegistration and ConfigurationManager are not composed.
- Of the page: markup, wording, styles, what is signed in a request (only with which
  key), duplicates in the
  `?relays=` parameter, and what the browser does with a page in the background.
- Of the bundle: all that the page does not call. That is publishing, COUNT, AUTH,
  codes with entries, encryption, ECDSA, other protocols, the general square
  root (`tonelliShanks`, unused for p ≡ 3 mod 4), curves with A # 0, and the text of
  messages: what a scan of it finds before it is parsed is part of a frame. The
  second copy of SHA-256 in the bundle is the same text. Minified assets other than
  the bundle are third-party code that is only displayed with.
- Statistics, lists, logging, option parsing.

Hazards of these parts that the list in `PROJECT.json` has no room for: a publication
and its record are two steps (`nostr/publisher.rs:115`); a completed attempt whose
token nobody fetched blocks its name after removal (`sqlite.rs:906`); a token is
erased when it is read (`sqlite.rs:1022`); names and policies are read before
validation over the network (`service/direct.rs:147`); the last call of a set-up may
outlive its request (`sqlite.rs:729`); overlapping initializations
(`nostr/restore.rs:92`); a crash during the write of the seed (`crypto.rs:103`); two
announcements in the wrong order (`admin.rs:1120`); boundaries of the replay window
(`nostr/http_auth.rs:104`), the rate window (`registration.rs:121`) and the login
throttle (`admin.rs:205`).

## Plan

1. *NameReservation*: compose AddressLifecycle with ConfigurationManager; reserved
   names and policies are read before a claim is staged, against `docs/spec.md`
   ("Reserved names cannot be quoted or claimed"); the administrator's deletion
   reserves a name before it removes it.
2. *AdminAuth* and *RequestGuards*: login throttle, sessions, the replay guard and
   the rate window with their boundaries.
3. *Announcement*: announcements that describe a configuration no longer in force.
4. *Import*, if an interruption can do harm.

Proofs to add: the arithmetic of FieldArithmetic, which would first have to be
stated without recursive operators; that a code with up to four letters changed does
not read, which is the distance of the bech32 code and needs more of its algebra than
one turn of the register.
