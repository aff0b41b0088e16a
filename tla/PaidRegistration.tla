-------------------------- MODULE PaidRegistration --------------------------
(***************************************************************************)
(* Registration against a Lightning payment (src/registration.rs), over    *)
(* the tables of AddressStore: an attempt holds a name while its invoice   *)
(* is unpaid; a request that polls its status verifies the invoice at the  *)
(* recipient's service and either claims the name, lets the attempt expire *)
(* or answers that it is pending.                                          *)
(*                                                                         *)
(* start and status run under mutation_lock; the outbox worker, a free     *)
(* registration (service/direct.rs), a removal and the pruning of a quote  *)
(* do not.  The publication of an event is in AddressLifecycle; here an    *)
(* event that is due is published and acknowledged in one step of the      *)
(* worker.  The payer and the clock are the environment.                   *)
(*                                                                         *)
(* A database call runs on a thread of its own (spawn_blocking) and goes   *)
(* on when the client hangs up and the handler, with its guard of the      *)
(* lock, is dropped.  A request that holds no lock in start or status is   *)
(* such a leftover: its transaction is its last step.                      *)
(*                                                                         *)
(* Mutations are introduced as in AddressStore.                            *)
(***************************************************************************)
EXTENDS AddressStore

CONSTANTS
    Calls,        \* concurrent HTTP requests
    Nobody,       \* mutation_lock is free
    Recipients,   \* payment recipients (their fingerprints)
    NoPolicy,     \* the domain registers for free
    MaxAttempts   \* bound: attempts on one name

ASSUME PaidAssumption ==
    /\ Nobody \notin Calls
    /\ NoPolicy \notin Recipients
    /\ MaxAttempts \in Nat

VARIABLES
    policy,   \* recipient of the payment policy in force
    terms,    \* per name: id, recipient_fingerprint, expires_at, updated_at of its attempt
    paid,     \* names whose attempt's invoice is settled at the recipient
    lock,     \* holder of mutation_lock
    call      \* per request: what it is doing

vars == <<storeVars, policy, terms, paid, lock, call>>

NoCall == [step |-> "none"]

CallSteps == {"checking", "pricing", "creating",                     \* start
              "verifying", "unsettled", "expiring", "claiming",      \* status
              "publishing", "acknowledging", "taking",
              "free"}                                                \* register_lnaddr

\* The steps at which a request waits for a transaction.
Transactions == {"creating", "expiring", "claiming", "acknowledging", "taking"}

AttemptIds == 0 .. MaxAttempts

\* id is the attempt that is polled; elapsed is what the request has read of the
\* clock, before it verifies.
Call == [step: CallSteps, name: Names, dest: Dests, recipient: Recipients \cup {NoPolicy},
         id: AttemptIds, elapsed: BOOLEAN, eid: EventIds \cup {0}]

\* elapsed: expires_at is reached; old: updated_at is before the retention time.
\* The id outlives the attempt: the next one has another.
Terms == [id: AttemptIds, recipient: Recipients \cup {NoPolicy},
          elapsed: BOOLEAN, old: BOOLEAN]

NoTerms == [id |-> 0, recipient |-> NoPolicy, elapsed |-> FALSE, old |-> FALSE]

TypeOK ==
    /\ StoreTypeOK
    /\ policy \in Recipients \cup {NoPolicy}
    /\ terms \in [Names -> Terms]
    /\ paid \in SUBSET Names
    /\ lock \in Calls \cup {Nobody}
    /\ call \in [Calls -> Call \cup {NoCall}]

Init ==
    /\ rows = [n \in Names |-> Absent]
    /\ attempts = [n \in Names |-> NoAttempt]
    /\ outbox = [e \in EventIds |-> "none"]
    /\ backups = [n \in Names |-> 0]
    /\ events = <<>>
    /\ policy \in Recipients \cup {NoPolicy}
    /\ terms = [n \in Names |-> NoTerms]
    /\ paid = {}
    /\ lock = Nobody
    /\ call = [c \in Calls |-> NoCall]

-----------------------------------------------------------------------------
(* Requests *)

At(c, step) == call[c].step = step

GoTo(c, step) == call' = [call EXCEPT ![c].step = step]

Enter(c, step, n, d) ==
    /\ call[c] = NoCall
    /\ call' = [call EXCEPT ![c] =
                   [step |-> step, name |-> n, dest |-> d, recipient |-> NoPolicy,
                    id |-> terms[n].id, elapsed |-> FALSE, eid |-> 0]]

\* The answer: the guard of the lock is dropped with the request.
Answer(c) ==
    /\ call' = [call EXCEPT ![c] = NoCall]
    /\ lock' = IF lock = c THEN Nobody ELSE lock

\* An error of a query or of the network, or a client that hangs up.
Abandon(c) ==
    /\ call[c] # NoCall
    /\ Answer(c)
    /\ UNCHANGED <<storeVars, policy, terms, paid>>

\* The handler is dropped and its guard with it, its transaction is not.
HangUp(c) ==
    /\ lock = c
    /\ call[c].step \in Transactions
    /\ lock' = Nobody
    /\ UNCHANGED <<storeVars, policy, terms, paid, call>>

\* After a transaction the request goes on, unless it was only a leftover.
Proceed(c, next) == call' = [call EXCEPT ![c] = IF lock = c THEN next ELSE NoCall]

\* The attempt that the request read is still in the table.
SameAttempt(c) ==
    /\ attempts[call[c].name].state # "none"
    /\ terms[call[c].name].id = call[c].id

-----------------------------------------------------------------------------
(* start *)

\* Mutation: completed attempts are pruned with their token.
PrunableWithToken(n) ==
    /\ terms[n].old
    /\ attempts[n].state \in {"expired", "completed"}

\* prune_attempts: expired attempts, and completed ones whose token was taken.
Prunable(n) ==
    /\ terms[n].old
    /\ \/ attempts[n].state = "expired"
       \/ attempts[n].state = "completed" /\ ~attempts[n].token

Prune ==
    /\ attempts' = [n \in Names |-> IF Prunable(n) THEN NoAttempt ELSE attempts[n]]
    /\ terms' = [n \in Names |-> IF Prunable(n) THEN [NoTerms EXCEPT !.id = terms[n].id]
                                       ELSE terms[n]]

\* quote_checked prunes as well, without the lock.
QuotePrunes ==
    /\ \E n \in Names : Prunable(n)
    /\ Prune
    /\ UNCHANGED <<rows, outbox, backups, events, policy, paid, lock, call>>

StartBegins(c, n, d) ==
    /\ lock = Nobody
    /\ lock' = c
    /\ Enter(c, "checking", n, d)
    /\ Prune
    /\ UNCHANGED <<rows, outbox, backups, events, policy, paid>>

\* address_is_claimed; then the destination is resolved over the network.
Claimed(n) ==
    \/ rows[n].state # "absent"
    \/ attempts[n].state \in {"pending_payment", "publishing", "completed"}

CheckClaim(c) ==
    /\ At(c, "checking")
    /\ ~Claimed(call[c].name)
    /\ GoTo(c, "pricing")
    /\ UNCHANGED <<storeVars, policy, terms, paid, lock>>

\* The policy is read, and an invoice requested from its recipient.
ReadPolicy(c) ==
    /\ At(c, "pricing")
    /\ policy # NoPolicy
    /\ call' = [call EXCEPT ![c].step = "creating", ![c].recipient = policy]
    /\ UNCHANGED <<storeVars, policy, terms, paid, lock>>

\* Mutation: the address table is not looked at again in the transaction.
CreateAttemptUnchecked(n, recipient) ==
    /\ attempts[n].state \in {"none", "expired"}
    /\ terms[n].id < MaxAttempts
    /\ attempts' = [attempts EXCEPT ![n] = [state |-> "pending_payment", eid |-> 0, token |-> TRUE]]
    /\ terms' = [terms EXCEPT ![n] =
                    [NoTerms EXCEPT !.id = terms[n].id + 1, !.recipient = recipient]]
    /\ paid' = paid \ {n}

\* create_registration_attempt: an expired attempt makes room, any other row
\* violates UNIQUE(domain, username).  The invoice is a new one.
CreateAttempt(n, recipient) ==
    /\ rows[n].state = "absent"
    /\ attempts[n].state \in {"none", "expired"}
    /\ terms[n].id < MaxAttempts
    /\ attempts' = [attempts EXCEPT ![n] = [state |-> "pending_payment", eid |-> 0, token |-> TRUE]]
    /\ terms' = [terms EXCEPT ![n] =
                    [NoTerms EXCEPT !.id = terms[n].id + 1, !.recipient = recipient]]
    /\ paid' = paid \ {n}

StartEnds(c) ==
    /\ At(c, "creating")
    /\ CreateAttempt(call[c].name, call[c].recipient)
    /\ Answer(c)
    /\ UNCHANGED <<rows, outbox, backups, events, policy>>

-----------------------------------------------------------------------------
(* status *)

\* The attempt is read once; in the other states the answer changes nothing.
PollBegins(c, n, d) ==
    /\ lock = Nobody
    /\ lock' = c
    /\ attempts[n].state \in {"pending_payment", "completed"}
    /\ Enter(c, IF attempts[n].state = "completed" THEN "taking" ELSE "verifying", n, d)
    /\ UNCHANGED <<storeVars, policy, terms, paid>>

\* The clock is read, then the recipient's service says whether it was paid.
Verify(c) ==
    /\ At(c, "verifying")
    /\ call' = [call EXCEPT
          ![c].elapsed = terms[call[c].name].elapsed,
          ![c].step    = IF call[c].name \in paid THEN "claiming" ELSE "unsettled"]
    /\ UNCHANGED <<storeVars, policy, terms, paid, lock>>

\* An unpaid attempt expires by its time or by a change of the recipient.
CompareRecipient(c) ==
    /\ At(c, "unsettled")
    /\ LET expires == call[c].elapsed \/ policy # terms[call[c].name].recipient
       IN  IF expires THEN GoTo(c, "expiring") /\ UNCHANGED lock ELSE Answer(c)
    /\ UNCHANGED <<storeVars, policy, terms, paid>>

\* update_registration_attempt does not look at the state it replaces.
Expire(c) ==
    /\ At(c, "expiring")
    /\ SameAttempt(c)
    /\ attempts' = [attempts EXCEPT ![call[c].name].state = "expired",
                                    ![call[c].name].eid = 0]
    /\ terms' = [terms EXCEPT ![call[c].name].old = FALSE]
    /\ Answer(c)
    /\ UNCHANGED <<rows, outbox, backups, events, policy, paid>>

Claim(c) ==
    LET n == call[c].name
        record == [name |-> n, kind |-> "active", rev |-> 1, dest |-> call[c].dest]
    IN  /\ At(c, "claiming")
        /\ SameAttempt(c)
        /\ StagePaid(n, record)
        /\ Proceed(c, [call[c] EXCEPT !.step = "publishing", !.eid = NextId])
        /\ terms' = [terms EXCEPT ![n].old = FALSE]
        /\ UNCHANGED <<policy, paid, lock>>

PublishAccepted(c) ==
    /\ At(c, "publishing")
    /\ GoTo(c, "acknowledging")
    /\ UNCHANGED <<storeVars, policy, terms, paid, lock>>

PublishFailed(c) ==
    /\ At(c, "publishing")
    /\ FailEvent(call[c].eid)
    /\ Answer(c)
    /\ UNCHANGED <<policy, terms, paid>>

\* acknowledge_event sets updated_at of the attempt it completes.
Refreshed(e) ==
    [n \in Names |-> IF attempts[n].state = "publishing" /\ attempts[n].eid = e
                     THEN [terms[n] EXCEPT !.old = FALSE] ELSE terms[n]]

Acknowledge(c) ==
    /\ At(c, "acknowledging")
    /\ AcknowledgeEvent(call[c].eid)
    /\ terms' = Refreshed(call[c].eid)
    /\ Proceed(c, [call[c] EXCEPT !.step = "taking"])
    /\ UNCHANGED <<policy, paid, lock>>

\* take_registration_token hands the token out once.
TakeToken(c) ==
    /\ At(c, "taking")
    /\ attempts' = [attempts EXCEPT ![call[c].name].token =
                       @ /\ ~(SameAttempt(c) /\ attempts[call[c].name].state = "completed")]
    /\ Answer(c)
    /\ UNCHANGED <<rows, outbox, backups, events, policy, terms, paid>>

-----------------------------------------------------------------------------
(* Everything that does not take the lock *)

\* register_lnaddr looks at the policy, validates the destination over the
\* network, and stages.
FreeBegins(c, n, d) ==
    /\ policy = NoPolicy
    /\ Enter(c, "free", n, d)
    /\ UNCHANGED <<storeVars, policy, terms, paid, lock>>

FreeClaim(c) ==
    LET n == call[c].name
    IN  /\ At(c, "free")
        /\ StageFree(n, [name |-> n, kind |-> "active", rev |-> 1, dest |-> call[c].dest])
        /\ Answer(c)
        /\ UNCHANGED <<policy, terms, paid>>

\* remove_lnaddr.
Remove(n) ==
    /\ StageDeletion(n, [name |-> n, kind |-> "deleted", rev |-> rows[n].rev + 1,
                         dest |-> NoDest])
    /\ UNCHANGED <<policy, terms, paid, lock, call>>

WorkerSettles(e) ==
    /\ outbox[e] = "due"
    /\ AcknowledgeEvent(e)
    /\ terms' = Refreshed(e)
    /\ UNCHANGED <<policy, paid, lock, call>>

BackoffOver(e) ==
    /\ BackoffElapses(e)
    /\ UNCHANGED <<policy, terms, paid, lock, call>>

\* A configuration that an acknowledgement puts in force.
ChangePolicy(p) ==
    /\ policy' = p
    /\ policy' # policy
    /\ UNCHANGED <<storeVars, terms, paid, lock, call>>

-----------------------------------------------------------------------------
(* The environment *)

\* The invoice is payable for as long as the recipient's service accepts it,
\* which may be after the attempt has expired.
Pay(n) ==
    /\ attempts[n].state # "none"
    /\ n \notin paid
    /\ paid' = paid \cup {n}
    /\ UNCHANGED <<storeVars, policy, terms, lock, call>>

TimeElapses(n) ==
    /\ attempts[n].state # "none"
    /\ ~terms[n].elapsed
    /\ terms' = [terms EXCEPT ![n].elapsed = TRUE]
    /\ UNCHANGED <<storeVars, policy, paid, lock, call>>

RetentionElapses(n) ==
    /\ terms[n].elapsed
    /\ ~terms[n].old
    /\ terms' = [terms EXCEPT ![n].old = TRUE]
    /\ UNCHANGED <<storeVars, policy, paid, lock, call>>

Restart ==
    /\ \E c \in Calls : call[c] # NoCall
    /\ call' = [c \in Calls |-> NoCall]
    /\ lock' = Nobody
    /\ UNCHANGED <<storeVars, policy, terms, paid>>

-----------------------------------------------------------------------------
Start(c) ==
    \/ \E n \in Names, d \in Dests : StartBegins(c, n, d)
    \/ CheckClaim(c)
    \/ ReadPolicy(c)
    \/ StartEnds(c)

Status(c) ==
    \/ \E n \in Names, d \in Dests : PollBegins(c, n, d)
    \/ Verify(c)
    \/ CompareRecipient(c)
    \/ Expire(c)
    \/ Claim(c)
    \/ PublishAccepted(c)
    \/ PublishFailed(c)
    \/ Acknowledge(c)
    \/ TakeToken(c)

Free(c) == (\E n \in Names, d \in Dests : FreeBegins(c, n, d)) \/ FreeClaim(c)

Environment ==
    \/ \E n \in Names : Pay(n) \/ TimeElapses(n) \/ RetentionElapses(n)
    \/ \E p \in Recipients \cup {NoPolicy} : ChangePolicy(p)

Next ==
    \/ \E c \in Calls : Start(c) \/ Status(c) \/ Free(c) \/ Abandon(c) \/ HangUp(c)
    \/ QuotePrunes
    \/ \E n \in Names : Remove(n)
    \/ \E e \in EventIds : WorkerSettles(e) \/ BackoffOver(e)
    \/ Environment
    \/ Restart

Spec == Init /\ [][Next]_vars

-----------------------------------------------------------------------------
(* Safety *)

\* While somebody may pay for a name, nobody else gets it: neither a free
\* registration nor another attempt.
NameIsHeldForPayer ==
    \A n \in Names : attempts[n].state = "pending_payment" => rows[n].state = "absent"

\* No attempt claims its name before its own invoice is settled.
OnlyPaidClaims ==
    \A n \in Names : attempts[n].state \in {"publishing", "completed"} => n \in paid

\* A name goes to who pays for it, and to nobody who has not paid.
PaymentsClaimNames == NameIsHeldForPayer /\ OnlyPaidClaims

\* No paid claim is wedged: an attempt that waits for its claim has a row that
\* is being published, and the event of both is still pending in the outbox,
\* whatever retries, failures and late acknowledgements did to it.
Consistency == TypeOK /\ AttemptsFollowRows /\ WaitingAttemptsAreQueued

\* Between its claim and the delivery of its token an attempt is not touched by
\* an expiry, a pruning or another attempt on the same name.
Kept(n) ==
    /\ attempts[n].state = "publishing" => attempts'[n].state \in {"publishing", "completed"}
    /\ attempts[n].state = "completed" =>
          \/ attempts'[n].state = "completed"
          \/ attempts'[n].state = "none" /\ ~attempts[n].token

\* The expiry of a request whose client has hung up takes effect.
ExpiryIsLeft(n) ==
    /\ attempts'[n].state = "expired"
    /\ \E c \in Calls : At(c, "expiring") /\ lock # c /\ call[c].name = n

\* mutation_lock protects every paid claim, except from such an expiry.
PaidClaimIsProtected == [][\A n \in Names : Kept(n) \/ ExpiryIsLeft(n)]_vars

\* docs/spec.md: "If publishing temporarily fails after settlement, the same
\* pending record is retried without another payment."  A paid claim is never
\* revoked.
PaidClaimIsNotRevoked == [][\A n \in Names : Kept(n)]_vars

-----------------------------------------------------------------------------
(* Liveness.  The worker runs and reaches a relay, requests that have begun  *)
(* go on, and the clock advances.  Nothing makes a client poll.              *)

Fairness ==
    /\ \A e \in EventIds : WF_vars(WorkerSettles(e)) /\ WF_vars(BackoffOver(e))
    /\ \A c \in Calls :
          /\ WF_vars(CheckClaim(c) \/ ReadPolicy(c) \/ StartEnds(c))
          /\ WF_vars(Verify(c) \/ CompareRecipient(c) \/ Expire(c) \/ Claim(c))
          /\ WF_vars(PublishAccepted(c) \/ PublishFailed(c))
          /\ WF_vars(Acknowledge(c) \/ TakeToken(c))
          /\ WF_vars(FreeClaim(c))
    /\ \A n \in Names : WF_vars(TimeElapses(n)) /\ WF_vars(RetentionElapses(n))

LiveSpec == Spec /\ Fairness

\* A paid claim completes even if the request that staged it, or the whole
\* process, goes away; the exception is that of PaidClaimIsProtected.
PaidClaimCompletes ==
    \A n \in Names :
        attempts[n].state = "publishing" ~> attempts[n].state \in {"completed", "expired"}

=============================================================================
