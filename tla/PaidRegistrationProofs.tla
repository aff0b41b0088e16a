----------------------- MODULE PaidRegistrationProofs -----------------------
(***************************************************************************)
(* What a payment buys, for any number of requests, names, recipients and  *)
(* attempts: a name is held for its payer, only a settled invoice claims   *)
(* it, and a claim is kept.                                                *)
(***************************************************************************)
EXTENDS PaidRegistration, AddressStoreProofs

-----------------------------------------------------------------------------
(* The inductive invariant.                                                 *)

InTransaction(c) == call[c].step \in Transactions \cup {"free"}

\* The attempt that the request read is still the one of its name.
Current(c) == call[c].id = terms[call[c].name].id

\* A request has read an attempt there is or was; it holds the lock outside of
\* transactions; it claims what was paid; and while one that found its attempt
\* unpaid holds the lock, nobody has claimed the name for that attempt or will.
CallInOrder(c) ==
    call[c].step # "none" =>
        /\ call[c].id <= terms[call[c].name].id
        /\ call[c].step \in {"publishing", "acknowledging"} => call[c].eid \in EventIds
        /\ InTransaction(c) \/ lock = c
        /\ At(c, "claiming") /\ Current(c) => call[c].name \in paid
        /\ call[c].step \in {"unsettled", "expiring"} /\ lock = c /\ Current(c) =>
              /\ attempts[call[c].name].state \notin {"publishing", "completed"}
              /\ \A d \in Calls : At(d, "claiming") /\ call[d].name = call[c].name
                                      => call[d].id # call[c].id

CallsAreInOrder == \A c \in Calls : CallInOrder(c)

PaidInv ==
    /\ TypeOK
    /\ StoreInv
    /\ NameIsHeldForPayer
    /\ OnlyPaidClaims
    /\ CallsAreInOrder

CallType == call \in [Calls -> Call \cup {NoCall}]

LEMMA InitInv == Init => PaidInv
<1> SUFFICES ASSUME Init PROVE PaidInv
  OBVIOUS
<1>1. StoreTypeOK
  <2>1. /\ Absent \in Row /\ NoAttempt \in Attempt /\ 0 \in EventIds \cup {0}
    BY DEF Absent, Row, RowStates, NoAttempt, Attempt, AttemptStates
  <2>2. events \in Seq(Record) /\ Len(events) <= MaxEvents
    BY StoreAssumption DEF Init
  <2>3. QED
    BY <2>1, <2>2 DEF Init, StoreTypeOK, OutboxStates
<1>2. NoTerms \in Terms
  BY PaidAssumption DEF NoTerms, Terms, AttemptIds
<1>3. TypeOK
  BY <1>1, <1>2 DEF Init, TypeOK
<1>4. StoreInv
  BY <1>1 DEF Init, StoreInv, EventsDescribeRows, RowDescribed, WaitingRowsAreQueued, Unsettled,
              AttemptsFollowRows, BackupIsNewestIntent, PendingIsNewer, Absent, NoAttempt
<1>5. NameIsHeldForPayer /\ OnlyPaidClaims
  BY DEF Init, NameIsHeldForPayer, OnlyPaidClaims, NoAttempt
<1>6. CallsAreInOrder
  BY DEF Init, CallsAreInOrder, CallInOrder, NoCall
<1>7. QED
  BY <1>3, <1>4, <1>5, <1>6 DEF PaidInv

-----------------------------------------------------------------------------
(* What a step leaves alone.                                                *)

\* Attempts follow each other, and a paid one is forgotten only with its attempt.
IdsGrow ==
    \A n \in Names : /\ terms[n].id <= terms'[n].id
                     /\ terms'[n].id = terms[n].id /\ n \in paid => n \in paid'

\* Only a request that claims makes a claim.
ClaimsAreMade ==
    \A n \in Names : attempts'[n].state \in {"publishing", "completed"} =>
        \/ attempts[n].state \in {"publishing", "completed"}
        \/ \E d \in Calls : At(d, "claiming") /\ call[d].name = n /\ Current(d)

LEMMA IdTypes ==
  ASSUME PaidInv, NEW c \in Calls, call[c].step # "none"
  PROVE  /\ call[c] \in Call /\ call[c].name \in Names /\ call[c].id \in Nat
         /\ call[c].dest \in Dests /\ call[c].recipient \in Recipients \cup {NoPolicy}
         /\ call[c].eid \in EventIds \cup {0} /\ call[c].id \in AttemptIds
<1>1. call[c] \in Call
  BY DEF PaidInv, TypeOK, NoCall
<1>2. AttemptIds \subseteq Nat
  BY PaidAssumption DEF AttemptIds
<1>3. QED
  BY <1>1, <1>2 DEF Call

LEMMA TermTypes ==
  ASSUME TypeOK, NEW n \in Names
  PROVE  /\ terms[n] \in Terms /\ terms[n].id \in Nat /\ terms[n].id \in AttemptIds
         /\ terms[n].elapsed \in BOOLEAN /\ terms[n].old \in BOOLEAN
         /\ terms[n].recipient \in Recipients \cup {NoPolicy}
<1>1. terms[n] \in Terms
  BY DEF TypeOK
<1>2. AttemptIds \subseteq Nat
  BY PaidAssumption DEF AttemptIds
<1>3. QED
  BY <1>1, <1>2 DEF Terms

\* A request that does not move stays in order.
LEMMA OneStays ==
  ASSUME PaidInv, TypeOK', NEW d \in Calls, call'[d] = call[d],
         IdsGrow, ClaimsAreMade,
         lock' = d => lock = d, lock = d => lock' = d \/ InTransaction(d),
         lock' = d => \A e \in Calls : At(e, "claiming")' => call'[e] = call[e]
  PROVE  CallInOrder(d)'
<1> SUFFICES ASSUME call[d].step # "none" PROVE CallInOrder(d)'
  BY DEF CallInOrder
<1>1. /\ call[d].name \in Names /\ call[d].id \in Nat
  BY IdTypes
<1> DEFINE n == call[d].name
<1>2. /\ terms[n].id \in Nat /\ terms'[n].id \in Nat
  BY <1>1, TermTypes DEF PaidInv, TypeOK, Terms, AttemptIds
<1>3. /\ terms[n].id <= terms'[n].id
      /\ terms'[n].id = terms[n].id /\ n \in paid => n \in paid'
  BY <1>1 DEF IdsGrow
<1>4. CallInOrder(d)
  BY DEF PaidInv, CallsAreInOrder
<1>5. call[d].id <= terms[n].id
  BY <1>4 DEF CallInOrder
<1>6. call'[d].id <= terms'[n].id
  BY <1>1, <1>2, <1>3, <1>5
<1>7. Current(d)' => Current(d) /\ terms'[n].id = terms[n].id
  BY <1>1, <1>2, <1>3, <1>5 DEF Current
<1>8. InTransaction(d)' \/ lock' = d
  BY <1>4 DEF CallInOrder, InTransaction
<1>9. At(d, "claiming")' /\ Current(d)' => n \in paid'
  BY <1>3, <1>4, <1>7 DEF CallInOrder, At
<1>10. ASSUME call[d].step \in {"unsettled", "expiring"}, lock' = d, Current(d)'
       PROVE  /\ attempts'[n].state \notin {"publishing", "completed"}
              /\ \A e \in Calls : At(e, "claiming")' /\ call'[e].name = n
                                     => call'[e].id # call[d].id
  <2>1. /\ attempts[n].state \notin {"publishing", "completed"}
        /\ \A e \in Calls : At(e, "claiming") /\ call[e].name = n
                               => call[e].id # call[d].id
    BY <1>4, <1>7, <1>10 DEF CallInOrder
  <2>2. \A e \in Calls : At(e, "claiming")' => call'[e] = call[e] /\ At(e, "claiming")
    BY <1>10 DEF At
  <2>3. attempts'[n].state \notin {"publishing", "completed"}
    BY <1>1, <1>7, <1>10, <2>1 DEF ClaimsAreMade, Current
  <2>4. QED
    BY <2>1, <2>2, <2>3
<1>11. QED
  BY <1>4, <1>6, <1>8, <1>9, <1>10 DEF CallInOrder, At

\* When tables, invoices and attempts stay, the properties of names stay.
LEMMA TablesStay ==
  ASSUME PaidInv, UNCHANGED <<storeVars, paid>>
  PROVE  StoreInv' /\ StoreTypeOK' /\ NameIsHeldForPayer' /\ OnlyPaidClaims'
  BY DEF PaidInv, storeVars, StoreInv, StoreTypeOK, EventsDescribeRows, RowDescribed, Says,
         WaitingRowsAreQueued, Unsettled, Pending, AttemptsFollowRows,
         BackupIsNewestIntent, PendingIsNewer, NameIsHeldForPayer, OnlyPaidClaims

LEMMA NothingMade ==
  ASSUME UNCHANGED <<attempts, terms, paid>>, TypeOK PROVE IdsGrow /\ ClaimsAreMade
  BY TermTypes DEF IdsGrow, ClaimsAreMade

\* A step of one request that leaves tables and terms alone.
LEMMA RequestMoves ==
  ASSUME PaidInv, NEW c \in Calls, UNCHANGED <<storeVars, policy, terms, paid>>,
         CallType', lock' \in Calls \cup {Nobody},
         \A d \in Calls : d # c => call'[d] = call[d],
         lock' = lock \/ (lock = Nobody /\ lock' = c) \/ (lock = c /\ lock' = Nobody),
         At(c, "claiming")' => lock' = c \/ call'[c] = call[c],
         CallInOrder(c)'
  PROVE  PaidInv'
<1>1. StoreInv' /\ StoreTypeOK' /\ NameIsHeldForPayer' /\ OnlyPaidClaims'
  BY TablesStay
<1>2. TypeOK'
  BY <1>1 DEF PaidInv, TypeOK, CallType
<1>3. IdsGrow /\ ClaimsAreMade
  BY NothingMade DEF PaidInv, storeVars
<1>4. ASSUME NEW d \in Calls, d # c PROVE CallInOrder(d)'
  <2>1. /\ call'[d] = call[d]
        /\ lock' = d => lock = d
        /\ lock = d => lock' = d
        /\ lock' = d => \A e \in Calls : At(e, "claiming")' => call'[e] = call[e]
    BY <1>4, PaidAssumption
  <2>2. QED
    BY <1>2, <1>3, <2>1, OneStays
<1>5. QED
  BY <1>1, <1>2, <1>4 DEF PaidInv, CallsAreInOrder

-----------------------------------------------------------------------------
(* Steps of one request that change no table.                               *)

LEMMA StepTo ==
  ASSUME PaidInv, NEW c \in Calls, call[c].step # "none", NEW step \in CallSteps,
         GoTo(c, step)
  PROVE  /\ CallType'
         /\ call'[c] = [call[c] EXCEPT !.step = step]
         /\ call'[c].step = step /\ call'[c].name = call[c].name /\ call'[c].id = call[c].id
         /\ call'[c].eid = call[c].eid
         /\ \A d \in Calls : d # c => call'[d] = call[d]
<1>1. call[c] \in Call /\ call \in [Calls -> Call \cup {NoCall}]
  BY IdTypes DEF PaidInv, TypeOK
<1>2. [call[c] EXCEPT !.step = step] \in Call
  BY <1>1 DEF Call
<1>3. call' = [call EXCEPT ![c] = [call[c] EXCEPT !.step = step]]
  BY DEF GoTo
<1>4. call'[c] = [call[c] EXCEPT !.step = step]
  BY <1>1, <1>3
<1>5. QED
  BY <1>1, <1>2, <1>3, <1>4 DEF CallType, Call

LEMMA Answered ==
  ASSUME PaidInv, NEW c \in Calls, Answer(c)
  PROVE  /\ CallType' /\ lock' \in Calls \cup {Nobody}
         /\ call'[c].step = "none"
         /\ \A d \in Calls : d # c => call'[d] = call[d]
         /\ lock' = lock \/ (lock = c /\ lock' = Nobody)
         /\ lock' # c
         /\ CallInOrder(c)' /\ ~At(c, "claiming")'
<1>1. /\ CallType' /\ call'[c] = NoCall
      /\ \A d \in Calls : d # c => call'[d] = call[d]
  BY DEF Answer, PaidInv, TypeOK, CallType
<1>2. lock' \in Calls \cup {Nobody} /\ lock' # c /\ (lock' = lock \/ (lock = c /\ lock' = Nobody))
  BY PaidAssumption DEF Answer, PaidInv, TypeOK
<1>3. QED
  BY <1>1, <1>2 DEF CallInOrder, At, NoCall

LEMMA EnterFacts ==
  ASSUME PaidInv, NEW c \in Calls, NEW step \in CallSteps, NEW n \in Names, NEW d \in Dests,
         Enter(c, step, n, d)
  PROVE  /\ CallType'
         /\ call'[c].step = step /\ call'[c].name = n /\ call'[c].id = terms[n].id
         /\ \A b \in Calls : b # c => call'[b] = call[b]
<1>1. [step |-> step, name |-> n, dest |-> d, recipient |-> NoPolicy,
       id |-> terms[n].id, elapsed |-> FALSE, eid |-> 0] \in Call
  BY TermTypes DEF PaidInv, Call
<1>2. QED
  BY <1>1 DEF Enter, PaidInv, TypeOK, CallType

LEMMA AbandonInv ==
  ASSUME PaidInv, NEW c \in Calls, Abandon(c) PROVE PaidInv'
  BY Answered, RequestMoves DEF Abandon

LEMMA HangUpInv ==
  ASSUME PaidInv, NEW c \in Calls, HangUp(c) PROVE PaidInv'
<1>1. call'[c] = call[c] /\ InTransaction(c) /\ lock = c /\ lock' = Nobody /\ lock' # c
  BY PaidAssumption DEF HangUp, InTransaction
<1>2. CallInOrder(c)'
  <2>1. CallInOrder(c) /\ InTransaction(c)'
    BY <1>1 DEF PaidInv, CallsAreInOrder, InTransaction, HangUp
  <2>2. QED
    BY <1>1, <2>1 DEF CallInOrder, HangUp, At, Current, InTransaction
<1>3. CallType' /\ lock' \in Calls \cup {Nobody} /\ \A d \in Calls : call'[d] = call[d]
  BY DEF HangUp, PaidInv, TypeOK, CallType
<1>4. QED
  BY <1>1, <1>2, <1>3, RequestMoves DEF HangUp

\* A request that goes on to a step that asks nothing new of it.
LEMMA GoesOn ==
  ASSUME PaidInv, NEW c \in Calls, call[c].step # "none",
         NEW step \in CallSteps \ {"claiming", "unsettled", "expiring"}, GoTo(c, step),
         step \in {"publishing", "acknowledging"} => call[c].eid \in EventIds,
         lock = c \/ step \in Transactions \cup {"free"},
         UNCHANGED <<storeVars, policy, terms, paid, lock>>
  PROVE  PaidInv'
<1>1. /\ CallType' /\ call'[c].step = step /\ call'[c].name = call[c].name
      /\ call'[c].id = call[c].id /\ call'[c].eid = call[c].eid
      /\ \A d \in Calls : d # c => call'[d] = call[d]
  BY StepTo
<1>2. call[c].id <= terms[call[c].name].id
  BY DEF PaidInv, CallsAreInOrder, CallInOrder
<1>3. CallInOrder(c)' /\ ~At(c, "claiming")'
  BY <1>1, <1>2 DEF CallInOrder, InTransaction, At, Current
<1>4. lock' \in Calls \cup {Nobody}
  BY DEF PaidInv, TypeOK
<1>5. QED
  BY <1>1, <1>3, <1>4, RequestMoves

\* Outside of transactions a request holds the lock.
LEMMA HoldsLock ==
  ASSUME PaidInv, NEW c \in Calls, call[c].step # "none", ~InTransaction(c)
  PROVE  lock = c
  BY DEF PaidInv, CallsAreInOrder, CallInOrder

LEMMA CheckClaimInv ==
  ASSUME PaidInv, NEW c \in Calls, CheckClaim(c) PROVE PaidInv'
<1>1. call[c].step = "checking" /\ lock = c
  BY HoldsLock DEF CheckClaim, At, InTransaction, Transactions
<1>2. "pricing" \in CallSteps \ {"claiming", "unsettled", "expiring"}
  BY DEF CallSteps
<1>3. QED
  BY <1>1, <1>2, GoesOn DEF CheckClaim

LEMMA PublishAcceptedInv ==
  ASSUME PaidInv, NEW c \in Calls, PublishAccepted(c) PROVE PaidInv'
<1>1. call[c].step = "publishing" /\ lock = c
  BY HoldsLock DEF PublishAccepted, At, InTransaction, Transactions
<1>2. call[c].eid \in EventIds
  BY <1>1 DEF PaidInv, CallsAreInOrder, CallInOrder
<1>3. "acknowledging" \in CallSteps \ {"claiming", "unsettled", "expiring"}
  BY DEF CallSteps
<1>4. QED
  BY <1>1, <1>2, <1>3, GoesOn DEF PublishAccepted

LEMMA ReadPolicyInv ==
  ASSUME PaidInv, NEW c \in Calls, ReadPolicy(c) PROVE PaidInv'
<1>1. call[c].step = "pricing" /\ lock = c /\ lock' = lock
  BY HoldsLock DEF ReadPolicy, At, InTransaction, Transactions
<1>2. call[c] \in Call /\ policy \in Recipients
  BY <1>1, IdTypes DEF ReadPolicy, PaidInv, TypeOK
<1> DEFINE x == [call[c] EXCEPT !.step = "creating", !.recipient = policy]
<1>3. x \in Call /\ x.step = "creating" /\ x.name = call[c].name /\ x.id = call[c].id
  BY <1>2 DEF Call, CallSteps
<1>4. call' = [call EXCEPT ![c] = x]
  BY DEF ReadPolicy
<1> HIDE DEF x
<1>5. /\ CallType' /\ call'[c] = x /\ \A d \in Calls : d # c => call'[d] = call[d]
  BY <1>3, <1>4 DEF PaidInv, TypeOK, CallType
<1>6. call[c].id <= terms[call[c].name].id
  BY <1>1 DEF PaidInv, CallsAreInOrder, CallInOrder
<1>7. CallInOrder(c)' /\ ~At(c, "claiming")'
  BY <1>1, <1>3, <1>5, <1>6 DEF ReadPolicy, CallInOrder, InTransaction, Transactions, At, Current
<1>8. lock' \in Calls \cup {Nobody}
  BY <1>1 DEF PaidInv, TypeOK
<1>9. QED
  BY <1>1, <1>5, <1>7, <1>8, RequestMoves DEF ReadPolicy

LEMMA PollBeginsInv ==
  ASSUME PaidInv, NEW c \in Calls, NEW n \in Names, NEW d \in Dests, PollBegins(c, n, d)
  PROVE  PaidInv'
<1>1. PICK step \in {"taking", "verifying"} : Enter(c, step, n, d)
  BY DEF PollBegins
<1>2. step \in CallSteps
  BY DEF CallSteps
<1>3. /\ CallType' /\ call'[c].step = step /\ call'[c].name = n /\ call'[c].id = terms[n].id
      /\ \A b \in Calls : b # c => call'[b] = call[b]
  BY <1>1, <1>2, EnterFacts
<1>4. terms[n].id <= terms[n].id
  BY TermTypes DEF PaidInv
<1>5. CallInOrder(c)' /\ ~At(c, "claiming")'
  BY <1>3, <1>4 DEF PollBegins, CallInOrder, At, Current
<1>6. lock = Nobody /\ lock' = c
  BY DEF PollBegins
<1>7. QED
  BY <1>3, <1>5, <1>6, RequestMoves DEF PollBegins

LEMMA FreeBeginsInv ==
  ASSUME PaidInv, NEW c \in Calls, NEW n \in Names, NEW d \in Dests, FreeBegins(c, n, d)
  PROVE  PaidInv'
<1>1. "free" \in CallSteps
  BY DEF CallSteps
<1>2. /\ CallType' /\ call'[c].step = "free" /\ call'[c].name = n /\ call'[c].id = terms[n].id
      /\ \A b \in Calls : b # c => call'[b] = call[b]
  BY <1>1, EnterFacts DEF FreeBegins
<1>3. terms[n].id <= terms[n].id
  BY TermTypes DEF PaidInv
<1>4. CallInOrder(c)' /\ ~At(c, "claiming")'
  BY <1>2, <1>3 DEF FreeBegins, CallInOrder, InTransaction, At, Current
<1>5. lock' \in Calls \cup {Nobody}
  BY DEF FreeBegins, PaidInv, TypeOK
<1>6. QED
  BY <1>2, <1>4, <1>5, RequestMoves DEF FreeBegins

\* What was paid when it was looked at is claimed; and where it was not, no request
\* claims, since it would have found it paid before.
LEMMA VerifyInv ==
  ASSUME PaidInv, NEW c \in Calls, Verify(c) PROVE PaidInv'
<1>1. call[c].step = "verifying" /\ lock = c /\ lock' = lock
  BY HoldsLock DEF Verify, At, InTransaction, Transactions
<1>2. call[c] \in Call /\ call[c].name \in Names
  BY <1>1, IdTypes
<1> DEFINE n == call[c].name
           x == [call[c] EXCEPT !.elapsed = terms[n].elapsed,
                                !.step = IF n \in paid THEN "claiming" ELSE "unsettled"]
<1>3. /\ x \in Call /\ x.name = n /\ x.id = call[c].id
      /\ n \in paid => x.step = "claiming"
      /\ n \notin paid => x.step = "unsettled"
  BY <1>2, TermTypes DEF Call, CallSteps, PaidInv
<1>4. call' = [call EXCEPT ![c] = x]
  BY DEF Verify
<1> HIDE DEF x
<1>5. /\ CallType' /\ call'[c] = x /\ \A d \in Calls : d # c => call'[d] = call[d]
  BY <1>3, <1>4 DEF PaidInv, TypeOK, CallType
<1>6. call[c].id <= terms[n].id
  BY <1>1 DEF PaidInv, CallsAreInOrder, CallInOrder
<1>7. CallInOrder(c)'
  <2>1. CASE n \in paid
    <3>1. UNCHANGED <<terms, paid>> /\ x.step = "claiming"
      BY <1>3, <2>1 DEF Verify
    <3>2. /\ call'[c].step = "claiming" /\ call'[c].name = n /\ call'[c].id = call[c].id
          /\ call[c].id <= terms'[n].id /\ n \in paid' /\ lock' = c
      BY <1>1, <1>3, <1>5, <1>6, <2>1, <3>1
    <3>3. QED
      BY <3>2 DEF CallInOrder, At
  <2>2. CASE n \notin paid
    <3>1. attempts[n].state \notin {"publishing", "completed"}
      BY <1>2, <2>2 DEF PaidInv, OnlyPaidClaims
    <3>2. ASSUME NEW d \in Calls, At(d, "claiming"), call[d].name = n, call[d].id = terms[n].id
          PROVE  FALSE
      BY <2>2, <3>2 DEF PaidInv, CallsAreInOrder, CallInOrder, At, Current
    <3>3. ASSUME NEW d \in Calls, At(d, "claiming")', call'[d].name = n
          PROVE  At(d, "claiming") /\ call[d].name = n /\ call'[d].id = call[d].id
      BY <1>3, <1>5, <2>2, <3>3 DEF At
    <3>4. Current(c)' => \A d \in Calls : At(d, "claiming")' /\ call'[d].name = n
                                              => call'[d].id # call'[c].id
      BY <1>3, <1>5, <3>2, <3>3 DEF Current, Verify
    <3>5. UNCHANGED <<terms, paid, attempts>> /\ x.step = "unsettled"
      BY <1>3, <2>2 DEF Verify, storeVars
    <3>6. QED
      BY <1>1, <1>3, <1>5, <1>6, <3>1, <3>4, <3>5
         DEF CallInOrder, InTransaction, Transactions, At, Current
  <2>3. QED
    BY <2>1, <2>2
<1>8. lock' \in Calls \cup {Nobody}
  BY <1>1 DEF PaidInv, TypeOK
<1>9. QED
  BY <1>1, <1>5, <1>7, <1>8, RequestMoves DEF Verify

LEMMA CompareRecipientInv ==
  ASSUME PaidInv, NEW c \in Calls, CompareRecipient(c) PROVE PaidInv'
<1>1. CASE Answer(c)
  BY <1>1, Answered, RequestMoves DEF CompareRecipient
<1>2. CASE GoTo(c, "expiring") /\ UNCHANGED lock
  <2>1. call[c].step = "unsettled" /\ "expiring" \in CallSteps
    BY DEF CompareRecipient, At, CallSteps
  <2>2. /\ CallType' /\ call'[c].step = "expiring" /\ call'[c].name = call[c].name
        /\ call'[c].id = call[c].id /\ \A d \in Calls : d # c => call'[d] = call[d]
    BY <1>2, <2>1, StepTo
  <2>3. CallInOrder(c)
    BY DEF PaidInv, CallsAreInOrder
  <2>4. ASSUME NEW d \in Calls, At(d, "claiming")'
        PROVE  At(d, "claiming") /\ call'[d] = call[d]
    BY <2>2, <2>4 DEF At
  <2>5. UNCHANGED <<terms, paid, attempts, lock>>
    BY <1>2 DEF CompareRecipient, storeVars
  <2>6. CallInOrder(c)'
    BY <2>1, <2>2, <2>3, <2>4, <2>5
       DEF CallInOrder, InTransaction, Transactions, At, Current
  <2>7. lock' \in Calls \cup {Nobody} /\ ~At(c, "claiming")'
    BY <2>2, <2>5 DEF PaidInv, TypeOK, At
  <2>8. QED
    BY <2>2, <2>5, <2>6, <2>7, RequestMoves DEF CompareRecipient
<1>3. QED
  BY <1>1, <1>2 DEF CompareRecipient

-----------------------------------------------------------------------------
(* Steps that change a table.                                               *)

\* Whatever becomes of attempts, as long as none begins to wait for an event.
LEMMA AttemptsMove ==
  ASSUME StoreInv, UNCHANGED <<rows, outbox, backups, events>>,
         attempts' \in [Names -> Attempt],
         \A n \in Names : attempts'[n].state = "publishing" =>
             attempts[n].state = "publishing" /\ attempts[n].eid = attempts'[n].eid
  PROVE  StoreInv'
<1>1. StoreTypeOK' /\ EventsDescribeRows' /\ WaitingRowsAreQueued'
  BY DEF StoreInv, StoreTypeOK, EventsDescribeRows, RowDescribed, Says,
         WaitingRowsAreQueued, Unsettled, Pending
<1>2. AttemptsFollowRows' /\ BackupIsNewestIntent' /\ PendingIsNewer'
  BY DEF StoreInv, AttemptsFollowRows, BackupIsNewestIntent, PendingIsNewer
<1>3. QED
  BY <1>1, <1>2 DEF StoreInv

\* The requests that do not move, when at most c does.
LEMMA OthersStay ==
  ASSUME PaidInv, TypeOK', NEW c \in Calls, IdsGrow, ClaimsAreMade,
         \A d \in Calls : d # c => call'[d] = call[d],
         lock' = lock \/ (lock = Nobody /\ lock' = c) \/ (lock = c /\ lock' = Nobody),
         ~At(c, "claiming")'
  PROVE  \A d \in Calls : d # c => CallInOrder(d)'
<1> SUFFICES ASSUME NEW d \in Calls, d # c PROVE CallInOrder(d)'
  OBVIOUS
<1>1. /\ call'[d] = call[d]
      /\ lock' = d => lock = d
      /\ lock = d => lock' = d
      /\ \A e \in Calls : At(e, "claiming")' => call'[e] = call[e]
  BY PaidAssumption
<1>2. QED
  BY <1>1, OneStays

LEMMA AllStay ==
  ASSUME PaidInv, TypeOK', IdsGrow, ClaimsAreMade, UNCHANGED <<call, lock>>
  PROVE  CallsAreInOrder'
  BY OneStays DEF CallsAreInOrder

\* An attempt that is forgotten leaves its number.
LEMMA PruneFacts ==
  ASSUME PaidInv, Prune, UNCHANGED <<rows, outbox, backups, events, paid>>
  PROVE  /\ StoreInv' /\ StoreTypeOK' /\ terms' \in [Names -> Terms]
         /\ NameIsHeldForPayer' /\ OnlyPaidClaims'
         /\ IdsGrow /\ ClaimsAreMade
         /\ \A n \in Names : terms'[n].id = terms[n].id
<1>1. \A n \in Names : /\ attempts[n] \in Attempt /\ terms[n] \in Terms
                       /\ terms[n].id \in AttemptIds /\ terms[n].id <= terms[n].id
  BY TermTypes DEF PaidInv, TypeOK, StoreTypeOK
<1>2. ASSUME NEW n \in Names
      PROVE  /\ attempts'[n] = attempts[n] \/ attempts'[n] = NoAttempt
             /\ terms'[n] = terms[n] \/ terms'[n] = [NoTerms EXCEPT !.id = terms[n].id]
  BY DEF Prune
<1>3. /\ NoAttempt \in Attempt /\ NoAttempt.state = "none"
      /\ \A i \in AttemptIds : /\ [NoTerms EXCEPT !.id = i] \in Terms
                               /\ [NoTerms EXCEPT !.id = i].id = i
  BY DEF NoAttempt, Attempt, AttemptStates, NoTerms, Terms
<1>4. /\ \A n \in Names : attempts'[n] \in Attempt /\ terms'[n] \in Terms
      /\ \A n \in Names : terms'[n].id = terms[n].id
      /\ \A n \in Names : attempts'[n].state # "none" => attempts'[n] = attempts[n]
  BY <1>1, <1>2, <1>3
<1>5. attempts' \in [Names -> Attempt] /\ terms' \in [Names -> Terms]
  BY <1>4 DEF Prune
<1>6. StoreInv'
  BY <1>4, <1>5, AttemptsMove DEF PaidInv
<1>7. NameIsHeldForPayer' /\ OnlyPaidClaims'
  BY <1>4 DEF PaidInv, NameIsHeldForPayer, OnlyPaidClaims
<1>8. IdsGrow /\ ClaimsAreMade
  BY <1>1, <1>4 DEF IdsGrow, ClaimsAreMade
<1>9. QED
  BY <1>4, <1>5, <1>6, <1>7, <1>8 DEF StoreInv

LEMMA QuotePrunesInv ==
  ASSUME PaidInv, QuotePrunes PROVE PaidInv'
<1>1. Prune /\ UNCHANGED <<rows, outbox, backups, events, policy, paid, lock, call>>
  BY DEF QuotePrunes
<1>2. /\ StoreInv' /\ StoreTypeOK' /\ terms' \in [Names -> Terms]
      /\ NameIsHeldForPayer' /\ OnlyPaidClaims' /\ IdsGrow /\ ClaimsAreMade
  BY <1>1, PruneFacts
<1>3. TypeOK'
  BY <1>1, <1>2 DEF PaidInv, TypeOK
<1>4. CallsAreInOrder'
  BY <1>1, <1>2, <1>3, AllStay
<1>5. QED
  BY <1>2, <1>3, <1>4 DEF PaidInv

LEMMA StartBeginsInv ==
  ASSUME PaidInv, NEW c \in Calls, NEW n \in Names, NEW d \in Dests, StartBegins(c, n, d)
  PROVE  PaidInv'
<1>1. /\ Prune /\ UNCHANGED <<rows, outbox, backups, events, policy, paid>>
      /\ lock = Nobody /\ lock' = c /\ Enter(c, "checking", n, d)
  BY DEF StartBegins
<1>2. /\ StoreInv' /\ StoreTypeOK' /\ terms' \in [Names -> Terms]
      /\ NameIsHeldForPayer' /\ OnlyPaidClaims' /\ IdsGrow /\ ClaimsAreMade
      /\ terms'[n].id = terms[n].id /\ terms[n].id <= terms[n].id
  BY <1>1, PruneFacts, TermTypes DEF PaidInv
<1>3. "checking" \in CallSteps
  BY DEF CallSteps
<1>4. /\ CallType'
      /\ call'[c].step = "checking" /\ call'[c].name = n /\ call'[c].id = terms[n].id
      /\ \A b \in Calls : b # c => call'[b] = call[b]
  BY <1>1, <1>3, EnterFacts
<1>5. TypeOK'
  BY <1>1, <1>2, <1>4 DEF PaidInv, TypeOK, CallType
<1>6. CallInOrder(c)' /\ ~At(c, "claiming")'
  BY <1>1, <1>2, <1>4 DEF CallInOrder, At, Current
<1>7. CallsAreInOrder'
  BY <1>1, <1>2, <1>4, <1>5, <1>6, OthersStay DEF CallsAreInOrder
<1>8. QED
  BY <1>2, <1>5, <1>7 DEF PaidInv

LEMMA CreateAttemptFacts ==
  ASSUME PaidInv, NEW n \in Names, NEW r \in Recipients \cup {NoPolicy},
         CreateAttempt(n, r), UNCHANGED <<rows, outbox, backups, events>>
  PROVE  /\ StoreInv' /\ StoreTypeOK' /\ terms' \in [Names -> Terms] /\ paid' \subseteq Names
         /\ NameIsHeldForPayer' /\ OnlyPaidClaims'
         /\ IdsGrow /\ ClaimsAreMade
<1> DEFINE a == [state |-> "pending_payment", eid |-> 0, token |-> TRUE]
           t == [NoTerms EXCEPT !.id = terms[n].id + 1, !.recipient = r]
<1>1. /\ terms[n].id \in Nat /\ terms[n].id < MaxAttempts /\ MaxAttempts \in Nat
      /\ terms \in [Names -> Terms] /\ attempts \in [Names -> Attempt]
  BY TermTypes, PaidAssumption DEF PaidInv, TypeOK, StoreTypeOK, CreateAttempt
<1>2. terms[n].id + 1 \in AttemptIds
  BY <1>1 DEF AttemptIds
<1>3. a \in Attempt /\ a.state = "pending_payment"
  BY DEF Attempt, AttemptStates
<1>4. t \in Terms /\ t.id = terms[n].id + 1
  BY <1>2 DEF Terms, NoTerms
<1>5. /\ attempts' = [attempts EXCEPT ![n] = a] /\ terms' = [terms EXCEPT ![n] = t]
      /\ paid' = paid \ {n} /\ rows[n].state = "absent"
  BY DEF CreateAttempt
<1> HIDE DEF a, t
<1>6. /\ attempts' \in [Names -> Attempt] /\ terms' \in [Names -> Terms]
      /\ attempts'[n] = a /\ terms'[n] = t
      /\ \A m \in Names : m # n => attempts'[m] = attempts[m] /\ terms'[m] = terms[m]
  BY <1>1, <1>3, <1>4, <1>5
<1>7. StoreInv'
  BY <1>3, <1>6, AttemptsMove DEF PaidInv
<1>8. NameIsHeldForPayer' /\ OnlyPaidClaims'
  BY <1>3, <1>5, <1>6 DEF PaidInv, NameIsHeldForPayer, OnlyPaidClaims
<1>9. IdsGrow
  <2>1. terms[n].id <= terms'[n].id /\ terms'[n].id # terms[n].id
    BY <1>1, <1>4, <1>6
  <2>2. ASSUME NEW m \in Names, m # n
        PROVE  terms[m].id <= terms'[m].id /\ (m \in paid => m \in paid')
    BY <1>5, <1>6, <2>2, TermTypes DEF PaidInv
  <2>3. QED
    BY <2>1, <2>2 DEF IdsGrow
<1>10. ClaimsAreMade
  BY <1>3, <1>6 DEF ClaimsAreMade
<1>11. paid' \subseteq Names
  BY <1>5 DEF PaidInv, TypeOK
<1>12. QED
  BY <1>6, <1>7, <1>8, <1>9, <1>10, <1>11 DEF StoreInv

LEMMA StartEndsInv ==
  ASSUME PaidInv, NEW c \in Calls, StartEnds(c) PROVE PaidInv'
<1>1. /\ call[c].step = "creating" /\ CreateAttempt(call[c].name, call[c].recipient)
      /\ Answer(c) /\ UNCHANGED <<rows, outbox, backups, events, policy>>
  BY DEF StartEnds, At
<1>2. call[c].name \in Names /\ call[c].recipient \in Recipients \cup {NoPolicy}
  BY <1>1, IdTypes
<1>3. /\ StoreInv' /\ StoreTypeOK' /\ terms' \in [Names -> Terms] /\ paid' \subseteq Names
      /\ NameIsHeldForPayer' /\ OnlyPaidClaims' /\ IdsGrow /\ ClaimsAreMade
  BY <1>1, <1>2, CreateAttemptFacts
<1>4. /\ CallType' /\ lock' \in Calls \cup {Nobody}
      /\ \A d \in Calls : d # c => call'[d] = call[d]
      /\ lock' = lock \/ (lock = c /\ lock' = Nobody)
      /\ CallInOrder(c)' /\ ~At(c, "claiming")'
  BY <1>1, Answered
<1>5. TypeOK'
  BY <1>1, <1>3, <1>4 DEF PaidInv, TypeOK, CallType
<1>6. CallsAreInOrder'
  BY <1>3, <1>4, <1>5, OthersStay DEF CallsAreInOrder
<1>7. QED
  BY <1>3, <1>5, <1>6 DEF PaidInv

\* The tables of names, once they and the requests are known to be in order.
LEMMA Moved ==
  ASSUME PaidInv, NEW c \in Calls, StoreInv', NameIsHeldForPayer', OnlyPaidClaims',
         IdsGrow, ClaimsAreMade, CallType', CallInOrder(c)', ~At(c, "claiming")',
         policy' = policy, terms' \in [Names -> Terms], paid' \subseteq Names,
         \A d \in Calls : d # c => call'[d] = call[d],
         lock' = lock \/ (lock = c /\ lock' = Nobody)
  PROVE  PaidInv'
<1>1. lock' \in Calls \cup {Nobody}
  BY DEF PaidInv, TypeOK
<1>2. TypeOK'
  BY <1>1 DEF PaidInv, TypeOK, StoreInv, CallType
<1>3. CallsAreInOrder'
  BY <1>2, OthersStay DEF CallsAreInOrder
<1>4. QED
  BY <1>2, <1>3 DEF PaidInv

LEMMA SameTerms ==
  ASSUME TypeOK, terms' \in [Names -> Terms], paid \subseteq paid',
         \A n \in Names : terms'[n].id = terms[n].id
  PROVE  IdsGrow
<1>1. \A n \in Names : terms[n].id <= terms[n].id
  BY TermTypes
<1>2. QED
  BY <1>1 DEF IdsGrow

\* The fields of terms but the id.
LEMMA TermFields ==
  ASSUME NEW t \in Terms
  PROVE  /\ [t EXCEPT !.old = FALSE] \in Terms /\ [t EXCEPT !.old = FALSE].id = t.id
         /\ [t EXCEPT !.old = TRUE] \in Terms /\ [t EXCEPT !.old = TRUE].id = t.id
         /\ [t EXCEPT !.elapsed = TRUE] \in Terms /\ [t EXCEPT !.elapsed = TRUE].id = t.id
  BY DEF Terms

LEMMA ExpireInv ==
  ASSUME PaidInv, NEW c \in Calls, Expire(c) PROVE PaidInv'
<1>1. /\ call[c].step = "expiring" /\ Answer(c)
      /\ UNCHANGED <<rows, outbox, backups, events, policy, paid>>
  BY DEF Expire, At
<1>2. call[c].name \in Names
  BY <1>1, IdTypes
<1> DEFINE n == call[c].name
           a == [attempts[n] EXCEPT !.state = "expired", !.eid = 0]
           t == [terms[n] EXCEPT !.old = FALSE]
<1>3. attempts \in [Names -> Attempt] /\ terms \in [Names -> Terms] /\ attempts[n] \in Attempt
  BY <1>2 DEF PaidInv, TypeOK, StoreTypeOK
<1>4. a \in Attempt /\ a.state = "expired"
  BY <1>3 DEF Attempt, AttemptStates
<1>5. t \in Terms /\ t.id = terms[n].id
  BY <1>2, <1>3, TermFields
<1>6. attempts' = [attempts EXCEPT ![n] = a] /\ terms' = [terms EXCEPT ![n] = t]
  BY DEF Expire
<1> HIDE DEF a, t
<1>7. /\ attempts' \in [Names -> Attempt] /\ terms' \in [Names -> Terms]
      /\ attempts'[n] = a /\ terms'[n].id = terms[n].id
      /\ \A m \in Names : m # n => attempts'[m] = attempts[m] /\ terms'[m] = terms[m]
  BY <1>2, <1>3, <1>4, <1>5, <1>6
<1>8. StoreInv'
  BY <1>1, <1>4, <1>7, AttemptsMove DEF PaidInv
<1>9. NameIsHeldForPayer' /\ OnlyPaidClaims' /\ ClaimsAreMade
  BY <1>1, <1>4, <1>7 DEF PaidInv, NameIsHeldForPayer, OnlyPaidClaims, ClaimsAreMade
<1>10. \A m \in Names : terms'[m].id = terms[m].id
  BY <1>7
<1>11. IdsGrow /\ paid' \subseteq Names
  BY <1>1, <1>7, <1>10, SameTerms DEF PaidInv, TypeOK
<1>12. QED
  BY <1>1, <1>7, <1>8, <1>9, <1>11, Answered, Moved

\* The claim of a settled invoice.  No other request that found it unpaid is left.
LEMMA ClaimInv ==
  ASSUME PaidInv, NEW c \in Calls, Claim(c) PROVE PaidInv'
<1> DEFINE n == call[c].name
           record == [name |-> n, kind |-> "active", rev |-> 1, dest |-> call[c].dest]
           x == [call[c] EXCEPT !.step = "publishing", !.eid = NextId]
           t == [terms[n] EXCEPT !.old = FALSE]
<1>1. /\ call[c].step = "claiming" /\ Current(c) /\ StagePaid(n, record)
      /\ Proceed(c, x) /\ terms' = [terms EXCEPT ![n] = t]
      /\ UNCHANGED <<policy, paid, lock>>
  BY DEF Claim, At, SameAttempt, Current
<1>2. /\ n \in Names /\ call[c] \in Call /\ call[c].dest \in Dests
      /\ call[c].id \in Nat
  BY <1>1, IdTypes
<1>3. record \in Record /\ record.name = n /\ record.kind = "active"
  BY <1>2 DEF Record
<1>4. StoreInv' /\ StoreTypeOK /\ StoreInv
  BY <1>1, <1>2, <1>3, StagePaidInv DEF PaidInv, StoreInv
<1>5. NextId \in EventIds
  BY <1>1, <1>3, <1>4, EnqueueFacts DEF StagePaid
<1>6. x \in Call /\ x.step = "publishing" /\ x.name = n /\ x.id = call[c].id /\ x.eid \in EventIds
  BY <1>2, <1>5 DEF Call, CallSteps
<1>7. t \in Terms /\ t.id = terms[n].id /\ terms \in [Names -> Terms]
  BY <1>2, TermFields, TermTypes DEF PaidInv, TypeOK
<1>8. /\ attempts \in [Names -> Attempt] /\ rows \in [Names -> Row]
      /\ attempts' = [attempts EXCEPT ![n].state = "publishing", ![n].eid = NextId]
      /\ rows' = [rows EXCEPT ![n] = NewRow(record.dest)]
  BY <1>1, <1>4 DEF StagePaid, StoreTypeOK
<1> HIDE DEF x, t, record
<1>9. /\ \A m \in Names : m # n => attempts'[m] = attempts[m] /\ rows'[m] = rows[m]
      /\ attempts'[n].state = "publishing"
  BY <1>2, <1>8 DEF Attempt
<1>10. /\ terms' \in [Names -> Terms] /\ \A m \in Names : terms'[m].id = terms[m].id
  BY <1>1, <1>2, <1>7
<1>11. NameIsHeldForPayer'
  BY <1>9 DEF PaidInv, NameIsHeldForPayer
<1>12. n \in paid
  BY <1>1 DEF PaidInv, CallsAreInOrder, CallInOrder, At
<1>13. OnlyPaidClaims'
  BY <1>1, <1>9, <1>12 DEF PaidInv, OnlyPaidClaims
<1>14. ClaimsAreMade
  BY <1>1, <1>9 DEF ClaimsAreMade, At
<1>15. IdsGrow /\ paid' \subseteq Names
  BY <1>1, <1>10, SameTerms DEF PaidInv, TypeOK
<1>16. /\ CallType' /\ call'[c] = IF lock = c THEN x ELSE NoCall
       /\ \A d \in Calls : d # c => call'[d] = call[d]
  BY <1>1, <1>6 DEF PaidInv, TypeOK, CallType, Proceed
<1>17. call[c].id <= terms'[n].id
  BY <1>1, <1>2, <1>10 DEF PaidInv, CallsAreInOrder, CallInOrder
<1>18. CallInOrder(c)' /\ ~At(c, "claiming")'
  BY <1>1, <1>6, <1>16, <1>17 DEF CallInOrder, At, Current, NoCall
<1>19. QED
  BY <1>1, <1>4, <1>10, <1>11, <1>13, <1>14, <1>15, <1>16, <1>18, Moved

LEMMA PublishFailedInv ==
  ASSUME PaidInv, NEW c \in Calls, PublishFailed(c) PROVE PaidInv'
<1>1. /\ call[c].step = "publishing" /\ FailEvent(call[c].eid) /\ Answer(c)
      /\ UNCHANGED <<policy, terms, paid, attempts, rows>>
  BY DEF PublishFailed, At, FailEvent
<1>2. call[c].eid \in EventIds
  BY <1>1 DEF PaidInv, CallsAreInOrder, CallInOrder
<1>3. StoreInv'
  BY <1>1, <1>2, FailEventInv DEF PaidInv
<1>4. NameIsHeldForPayer' /\ OnlyPaidClaims' /\ IdsGrow /\ ClaimsAreMade
  BY <1>1, NothingMade DEF PaidInv, NameIsHeldForPayer, OnlyPaidClaims
<1>5. terms' \in [Names -> Terms] /\ paid' \subseteq Names
  BY <1>1 DEF PaidInv, TypeOK
<1>6. QED
  BY <1>1, <1>3, <1>4, <1>5, Answered, Moved

\* An acknowledgement completes what was published and makes no row.
LEMMA AcknowledgeFacts ==
  ASSUME PaidInv, NEW e \in EventIds, AcknowledgeEvent(e), terms' = Refreshed(e),
         UNCHANGED paid
  PROVE  /\ StoreInv' /\ terms' \in [Names -> Terms] /\ paid' \subseteq Names
         /\ NameIsHeldForPayer' /\ OnlyPaidClaims' /\ IdsGrow /\ ClaimsAreMade
         /\ \A n \in Names : terms'[n].id = terms[n].id
<1>1. StoreInv'
  BY AcknowledgeEventInv DEF PaidInv
<1>2. /\ StoreTypeOK /\ attempts \in [Names -> Attempt]
      /\ \A n \in Names : attempts'[n] = Completed(attempts[n], e)
      /\ \A n \in Names : rows'[n] = Settled(rows[n], e)
  BY DEF AcknowledgeEvent, PaidInv, StoreInv, StoreTypeOK
<1>3. ASSUME NEW n \in Names
      PROVE  \/ attempts'[n] = attempts[n]
             \/ attempts[n].state = "publishing" /\ attempts'[n].state = "completed"
  BY <1>2 DEF Completed, Attempt
<1>4. ASSUME NEW n \in Names, rows[n].state = "absent" PROVE rows'[n].state = "absent"
  <2>1. Settled(rows[n], e) = rows[n] \/ Settled(rows[n], e) = Absent
    <3>1. RowDescribed(n)
      BY DEF PaidInv, StoreInv, EventsDescribeRows
    <3>2. QED
      BY <1>2, <1>4, <3>1, SettledRow
  <2>2. QED
    BY <1>2, <1>4, <2>1 DEF Absent
<1>5. NameIsHeldForPayer'
  BY <1>3, <1>4 DEF PaidInv, NameIsHeldForPayer
<1>6. OnlyPaidClaims' /\ ClaimsAreMade
  BY <1>3 DEF PaidInv, OnlyPaidClaims, ClaimsAreMade
<1>7. ASSUME NEW n \in Names PROVE terms'[n] \in Terms /\ terms'[n].id = terms[n].id
  <2>1. terms[n] \in Terms
    BY TermTypes DEF PaidInv
  <2>2. terms'[n] = terms[n] \/ terms'[n] = [terms[n] EXCEPT !.old = FALSE]
    BY DEF Refreshed
  <2>3. QED
    BY <2>1, <2>2, TermFields
<1>8. terms' \in [Names -> Terms]
  BY <1>7 DEF Refreshed
<1>9. IdsGrow /\ paid' \subseteq Names
  BY <1>7, <1>8, SameTerms DEF PaidInv, TypeOK
<1>10. QED
  BY <1>1, <1>5, <1>6, <1>7, <1>8, <1>9

LEMMA AcknowledgeInv ==
  ASSUME PaidInv, NEW c \in Calls, Acknowledge(c) PROVE PaidInv'
<1> DEFINE x == [call[c] EXCEPT !.step = "taking"]
<1>1. /\ call[c].step = "acknowledging" /\ AcknowledgeEvent(call[c].eid)
      /\ terms' = Refreshed(call[c].eid) /\ Proceed(c, x)
      /\ UNCHANGED <<policy, paid, lock>>
  BY DEF Acknowledge, At
<1>2. call[c].eid \in EventIds /\ call[c].id <= terms[call[c].name].id
  BY <1>1 DEF PaidInv, CallsAreInOrder, CallInOrder
<1>3. call[c] \in Call /\ call[c].name \in Names
  BY <1>1, IdTypes
<1>4. /\ StoreInv' /\ terms' \in [Names -> Terms] /\ paid' \subseteq Names
      /\ NameIsHeldForPayer' /\ OnlyPaidClaims' /\ IdsGrow /\ ClaimsAreMade
      /\ terms'[call[c].name].id = terms[call[c].name].id
  BY <1>1, <1>2, <1>3, AcknowledgeFacts
<1>5. x \in Call /\ x.step = "taking" /\ x.name = call[c].name /\ x.id = call[c].id
  BY <1>3 DEF Call, CallSteps
<1> HIDE DEF x
<1>6. /\ CallType' /\ call'[c] = IF lock = c THEN x ELSE NoCall
      /\ \A d \in Calls : d # c => call'[d] = call[d]
  BY <1>1, <1>5 DEF PaidInv, TypeOK, CallType, Proceed
<1>7. CallInOrder(c)' /\ ~At(c, "claiming")'
  BY <1>1, <1>2, <1>4, <1>5, <1>6 DEF CallInOrder, At, Current, NoCall
<1>8. QED
  BY <1>1, <1>4, <1>6, <1>7, Moved

LEMMA WorkerSettlesInv ==
  ASSUME PaidInv, NEW e \in EventIds, WorkerSettles(e) PROVE PaidInv'
<1>1. /\ AcknowledgeEvent(e) /\ terms' = Refreshed(e) /\ UNCHANGED <<policy, paid, lock, call>>
  BY DEF WorkerSettles
<1>2. /\ StoreInv' /\ terms' \in [Names -> Terms] /\ paid' \subseteq Names
      /\ NameIsHeldForPayer' /\ OnlyPaidClaims' /\ IdsGrow /\ ClaimsAreMade
  BY <1>1, AcknowledgeFacts
<1>3. TypeOK'
  BY <1>1, <1>2 DEF PaidInv, TypeOK, StoreInv
<1>4. QED
  BY <1>1, <1>2, <1>3, AllStay DEF PaidInv

\* The token alone.
LEMMA TakeTokenInv ==
  ASSUME PaidInv, NEW c \in Calls, TakeToken(c) PROVE PaidInv'
<1> DEFINE n == call[c].name
           kept == attempts[n].token /\ ~(SameAttempt(c) /\ attempts[n].state = "completed")
           a == [attempts[n] EXCEPT !.token = kept]
<1>1. /\ call[c].step = "taking" /\ Answer(c)
      /\ UNCHANGED <<rows, outbox, backups, events, policy, terms, paid>>
      /\ attempts' = [attempts EXCEPT ![n] = a]
  BY DEF TakeToken, At
<1>2. n \in Names /\ attempts \in [Names -> Attempt] /\ attempts[n] \in Attempt
  BY <1>1, IdTypes DEF PaidInv, TypeOK, StoreTypeOK
<1>3. kept \in BOOLEAN
  OBVIOUS
<1> HIDE DEF kept
<1>4. a \in Attempt /\ a.state = attempts[n].state /\ a.eid = attempts[n].eid
  BY <1>2, <1>3 DEF Attempt
<1> HIDE DEF a
<1>5. /\ attempts' \in [Names -> Attempt]
      /\ \A m \in Names : /\ attempts'[m].state = attempts[m].state
                          /\ attempts'[m].eid = attempts[m].eid
  BY <1>1, <1>2, <1>4
<1>6. StoreInv'
  BY <1>1, <1>5, AttemptsMove DEF PaidInv
<1>7. NameIsHeldForPayer' /\ OnlyPaidClaims' /\ ClaimsAreMade
  BY <1>1, <1>5 DEF PaidInv, NameIsHeldForPayer, OnlyPaidClaims, ClaimsAreMade
<1>8. IdsGrow /\ terms' \in [Names -> Terms] /\ paid' \subseteq Names
  BY <1>1, SameTerms DEF PaidInv, TypeOK
<1>9. QED
  BY <1>1, <1>6, <1>7, <1>8, Answered, Moved

\* A row is made only where no attempt is pending.
LEMMA FreeClaimInv ==
  ASSUME PaidInv, NEW c \in Calls, FreeClaim(c) PROVE PaidInv'
<1> DEFINE n == call[c].name
           record == [name |-> n, kind |-> "active", rev |-> 1, dest |-> call[c].dest]
<1>1. /\ call[c].step = "free" /\ StageFree(n, record) /\ Answer(c)
      /\ UNCHANGED <<policy, terms, paid, attempts>>
  BY DEF FreeClaim, At, StageFree
<1>2. n \in Names /\ call[c].dest \in Dests
  BY <1>1, IdTypes
<1>3. record \in Record /\ record.name = n /\ record.kind = "active"
  BY <1>2 DEF Record
<1>4. StoreInv' /\ rows \in [Names -> Row]
  BY <1>1, <1>2, <1>3, StageFreeInv DEF PaidInv, StoreInv, StoreTypeOK
<1>5. /\ \A m \in Names : m # n => rows'[m] = rows[m]
      /\ attempts[n].state # "pending_payment"
  BY <1>1, <1>2, <1>4 DEF StageFree
<1>6. NameIsHeldForPayer' /\ OnlyPaidClaims' /\ IdsGrow /\ ClaimsAreMade
  BY <1>1, <1>5, NothingMade DEF PaidInv, NameIsHeldForPayer, OnlyPaidClaims
<1>7. terms' \in [Names -> Terms] /\ paid' \subseteq Names
  BY <1>1 DEF PaidInv, TypeOK
<1>8. QED
  BY <1>1, <1>4, <1>6, <1>7, Answered, Moved

LEMMA RemoveInv ==
  ASSUME PaidInv, NEW n \in Names, Remove(n) PROVE PaidInv'
<1> DEFINE record == [name |-> n, kind |-> "deleted", rev |-> rows[n].rev + 1, dest |-> NoDest]
<1>1. /\ StageDeletion(n, record) /\ rows[n].state = "active"
      /\ UNCHANGED <<policy, terms, paid, lock, call, attempts>>
  BY DEF Remove, StageDeletion
<1>2. rows \in [Names -> Row] /\ rows[n].rev + 1 \in Nat
  BY DEF PaidInv, TypeOK, StoreTypeOK, Row
<1>3. record \in Record /\ record.name = n /\ record.kind = "deleted" /\ record.dest = NoDest
  BY <1>2 DEF Record
<1>4. StoreInv'
  BY <1>1, <1>3, StageDeletionInv DEF PaidInv
<1>5. \A m \in Names : m # n => rows'[m] = rows[m]
  BY <1>1, <1>2 DEF StageDeletion
<1>6. attempts[n].state # "pending_payment"
  BY <1>1 DEF PaidInv, NameIsHeldForPayer
<1>7. NameIsHeldForPayer' /\ OnlyPaidClaims' /\ IdsGrow /\ ClaimsAreMade
  BY <1>1, <1>5, <1>6, NothingMade DEF PaidInv, NameIsHeldForPayer, OnlyPaidClaims
<1>8. TypeOK'
  BY <1>1, <1>4 DEF PaidInv, TypeOK, StoreInv
<1>9. QED
  BY <1>1, <1>4, <1>7, <1>8, AllStay DEF PaidInv

LEMMA BackoffOverInv ==
  ASSUME PaidInv, NEW e \in EventIds, BackoffOver(e) PROVE PaidInv'
<1>1. BackoffElapses(e) /\ UNCHANGED <<policy, terms, paid, lock, call, attempts, rows>>
  BY DEF BackoffOver, BackoffElapses
<1>2. StoreInv'
  BY <1>1, BackoffElapsesInv DEF PaidInv
<1>3. NameIsHeldForPayer' /\ OnlyPaidClaims' /\ IdsGrow /\ ClaimsAreMade
  BY <1>1, NothingMade DEF PaidInv, NameIsHeldForPayer, OnlyPaidClaims
<1>4. TypeOK'
  BY <1>1, <1>2 DEF PaidInv, TypeOK, StoreInv
<1>5. QED
  BY <1>1, <1>2, <1>3, <1>4, AllStay DEF PaidInv

-----------------------------------------------------------------------------
(* The environment.                                                         *)

LEMMA EnvironmentMoves ==
  ASSUME PaidInv, UNCHANGED <<storeVars, lock, call>>,
         policy' \in Recipients \cup {NoPolicy}, terms' \in [Names -> Terms],
         paid \subseteq paid', paid' \subseteq Names,
         \A n \in Names : terms'[n].id = terms[n].id
  PROVE  PaidInv'
<1>1. StoreInv' /\ StoreTypeOK' /\ NameIsHeldForPayer' /\ OnlyPaidClaims'
  BY DEF PaidInv, storeVars, StoreInv, StoreTypeOK, EventsDescribeRows, RowDescribed, Says,
         WaitingRowsAreQueued, Unsettled, Pending, AttemptsFollowRows,
         BackupIsNewestIntent, PendingIsNewer, NameIsHeldForPayer, OnlyPaidClaims
<1>2. TypeOK'
  BY <1>1 DEF PaidInv, TypeOK
<1>3. IdsGrow
  BY SameTerms DEF PaidInv
<1>4. ClaimsAreMade
  BY DEF ClaimsAreMade, storeVars
<1>5. QED
  BY <1>1, <1>2, <1>3, <1>4, AllStay DEF PaidInv

LEMMA EnvironmentInv ==
  ASSUME PaidInv, Environment PROVE PaidInv'
<1>1. CASE \E p \in Recipients \cup {NoPolicy} : ChangePolicy(p)
  BY <1>1, EnvironmentMoves DEF ChangePolicy, PaidInv, TypeOK
<1>2. ASSUME NEW n \in Names, Pay(n) PROVE PaidInv'
  BY <1>2, EnvironmentMoves DEF Pay, PaidInv, TypeOK
<1>3. ASSUME NEW n \in Names, TimeElapses(n) \/ RetentionElapses(n) PROVE PaidInv'
  <2>1. /\ terms \in [Names -> Terms] /\ terms[n] \in Terms
        /\ policy \in Recipients \cup {NoPolicy} /\ paid \subseteq Names
    BY DEF PaidInv, TypeOK
  <2>2. PICK t \in {[terms[n] EXCEPT !.elapsed = TRUE], [terms[n] EXCEPT !.old = TRUE]} :
            terms' = [terms EXCEPT ![n] = t]
    BY <1>3 DEF TimeElapses, RetentionElapses
  <2>3. t \in Terms /\ t.id = terms[n].id
    BY <2>1, <2>2, TermFields
  <2>4. terms' \in [Names -> Terms] /\ \A m \in Names : terms'[m].id = terms[m].id
    BY <2>1, <2>2, <2>3
  <2>5. UNCHANGED <<storeVars, policy, paid, lock, call>>
    BY <1>3 DEF TimeElapses, RetentionElapses
  <2>6. QED
    BY <2>1, <2>4, <2>5, EnvironmentMoves
<1>4. QED
  BY <1>1, <1>2, <1>3 DEF Environment

LEMMA RestartInv ==
  ASSUME PaidInv, Restart PROVE PaidInv'
<1>1. StoreInv' /\ StoreTypeOK' /\ NameIsHeldForPayer' /\ OnlyPaidClaims'
  BY TablesStay DEF Restart
<1>2. TypeOK' /\ CallsAreInOrder'
  BY <1>1 DEF Restart, PaidInv, TypeOK, CallsAreInOrder, CallInOrder, NoCall
<1>3. QED
  BY <1>1, <1>2 DEF PaidInv

LEMMA StutterInv ==
  ASSUME PaidInv, UNCHANGED vars PROVE PaidInv'
<1>1. UNCHANGED <<storeVars, policy, terms, paid, lock, call>>
  BY DEF vars
<1>2. /\ policy \in Recipients \cup {NoPolicy} /\ terms \in [Names -> Terms]
      /\ paid \subseteq Names
  BY DEF PaidInv, TypeOK
<1>3. QED
  BY <1>1, <1>2, EnvironmentMoves

-----------------------------------------------------------------------------
LEMMA NextInv ==
  ASSUME PaidInv, [Next]_vars PROVE PaidInv'
<1>1. ASSUME NEW c \in Calls, Start(c) PROVE PaidInv'
  BY <1>1, StartBeginsInv, CheckClaimInv, ReadPolicyInv, StartEndsInv DEF Start
<1>2. ASSUME NEW c \in Calls, Status(c) PROVE PaidInv'
  BY <1>2, PollBeginsInv, VerifyInv, CompareRecipientInv, ExpireInv, ClaimInv,
     PublishAcceptedInv, PublishFailedInv, AcknowledgeInv, TakeTokenInv DEF Status
<1>3. ASSUME NEW c \in Calls, Free(c) PROVE PaidInv'
  BY <1>3, FreeBeginsInv, FreeClaimInv DEF Free
<1>4. ASSUME NEW c \in Calls, Abandon(c) \/ HangUp(c) PROVE PaidInv'
  BY <1>4, AbandonInv, HangUpInv
<1>5. ASSUME NEW n \in Names, Remove(n) PROVE PaidInv'
  BY <1>5, RemoveInv
<1>6. ASSUME NEW e \in EventIds, WorkerSettles(e) \/ BackoffOver(e) PROVE PaidInv'
  BY <1>6, WorkerSettlesInv, BackoffOverInv
<1>7. QED
  BY <1>1, <1>2, <1>3, <1>4, <1>5, <1>6, QuotePrunesInv, EnvironmentInv, RestartInv, StutterInv
     DEF Next

-----------------------------------------------------------------------------
(* What a step does to the attempt of a name.                               *)

LEMMA SameAttempts ==
  ASSUME NEW n \in Names, attempts'[n].state = attempts[n].state PROVE Kept(n)
  BY DEF Kept

LEMMA PruneKeeps ==
  ASSUME NEW n \in Names, Prune PROVE Kept(n)
<1>1. attempts'[n] = attempts[n] \/ (Prunable(n) /\ attempts'[n] = NoAttempt)
  BY DEF Prune
<1>2. Prunable(n) => \/ attempts[n].state = "expired"
                     \/ attempts[n].state = "completed" /\ ~attempts[n].token
  BY DEF Prunable
<1>3. QED
  BY <1>1, <1>2 DEF Kept, NoAttempt

LEMMA AcknowledgeKeeps ==
  ASSUME PaidInv, NEW n \in Names, NEW e, AcknowledgeEvent(e) PROVE Kept(n)
<1>1. attempts[n] \in Attempt /\ attempts'[n] = Completed(attempts[n], e)
  BY DEF AcknowledgeEvent, PaidInv, TypeOK, StoreTypeOK
<1>2. \/ attempts'[n] = attempts[n]
      \/ attempts[n].state = "publishing" /\ attempts'[n].state = "completed"
  BY <1>1 DEF Completed, Attempt
<1>3. QED
  BY <1>2 DEF Kept

\* Only a request whose client has hung up expires what was claimed.
LEMMA ExpireKeeps ==
  ASSUME PaidInv, NEW c \in Calls, Expire(c), NEW n \in Names PROVE Kept(n) \/ ExpiryIsLeft(n)
<1>1. /\ call[c].step = "expiring" /\ Current(c)
      /\ attempts' = [attempts EXCEPT ![call[c].name].state = "expired", ![call[c].name].eid = 0]
  BY DEF Expire, At, SameAttempt, Current
<1>2. attempts \in [Names -> Attempt]
  BY DEF PaidInv, TypeOK, StoreTypeOK
<1>3. CASE n # call[c].name
  BY <1>1, <1>2, <1>3, SameAttempts
<1>4. CASE n = call[c].name /\ lock = c
  BY <1>1, <1>4 DEF PaidInv, CallsAreInOrder, CallInOrder, Kept
<1>5. CASE n = call[c].name /\ lock # c
  <2>1. attempts'[n].state = "expired"
    BY <1>1, <1>2, <1>5 DEF Attempt
  <2>2. QED
    BY <1>1, <1>5, <2>1 DEF ExpiryIsLeft, At
<1>6. QED
  BY <1>3, <1>4, <1>5

LEMMA StartEndsKeeps ==
  ASSUME PaidInv, NEW c \in Calls, StartEnds(c), NEW n \in Names PROVE Kept(n)
<1> DEFINE new == [state |-> "pending_payment", eid |-> 0, token |-> TRUE]
<1>1. /\ attempts[call[c].name].state \in {"none", "expired"}
      /\ attempts' = [attempts EXCEPT ![call[c].name] = new]
  BY DEF StartEnds, CreateAttempt
<1> HIDE DEF new
<1>2. attempts \in [Names -> Attempt]
  BY DEF PaidInv, TypeOK, StoreTypeOK
<1>3. CASE n = call[c].name
  BY <1>1, <1>3 DEF Kept
<1>4. CASE n # call[c].name
  BY <1>1, <1>2, <1>4, SameAttempts
<1>5. QED
  BY <1>3, <1>4

LEMMA TokenTaken ==
  ASSUME NEW c \in Calls, TakeToken(c)
  PROVE  \E m, t : attempts' = [attempts EXCEPT ![m].token = t]
<1> DEFINE n == call[c].name
           kept == attempts[n].token /\ ~(SameAttempt(c) /\ attempts[n].state = "completed")
<1>1. attempts' = [attempts EXCEPT ![n].token = kept]
  BY DEF TakeToken
<1> HIDE DEF n, kept
<1>2. QED
  BY <1>1

LEMMA StepProtects ==
  ASSUME PaidInv, Next, NEW n \in Names PROVE Kept(n) \/ ExpiryIsLeft(n)
<1>1. attempts \in [Names -> Attempt]
  BY DEF PaidInv, TypeOK, StoreTypeOK
<1>2. ASSUME UNCHANGED attempts PROVE Kept(n)
  BY <1>2, SameAttempts
<1>3. ASSUME NEW c \in Calls, Start(c) PROVE Kept(n)
  <2>1. ASSUME NEW m \in Names, NEW d \in Dests, StartBegins(c, m, d) PROVE Kept(n)
    BY <2>1, PruneKeeps DEF StartBegins
  <2>2. CASE CheckClaim(c) \/ ReadPolicy(c)
    BY <1>2, <2>2 DEF CheckClaim, ReadPolicy, storeVars
  <2>3. CASE StartEnds(c)
    BY <2>3, StartEndsKeeps
  <2>4. QED
    BY <1>3, <2>1, <2>2, <2>3 DEF Start
<1>4. ASSUME NEW c \in Calls, Status(c) PROVE Kept(n) \/ ExpiryIsLeft(n)
  <2>1. CASE \/ \E m \in Names, d \in Dests : PollBegins(c, m, d)
             \/ Verify(c) \/ CompareRecipient(c) \/ PublishAccepted(c) \/ PublishFailed(c)
    BY <1>2, <2>1 DEF PollBegins, Verify, CompareRecipient, PublishAccepted, PublishFailed,
                      FailEvent, storeVars
  <2>2. CASE Claim(c)
    <3>1. PICK m, e : /\ attempts[m].state = "pending_payment"
                      /\ attempts' = [attempts EXCEPT ![m].state = "publishing", ![m].eid = e]
      BY <2>2 DEF Claim, StagePaid
    <3>2. CASE n = m
      BY <3>1, <3>2 DEF Kept
    <3>3. CASE n # m
      BY <1>1, <3>1, <3>3, SameAttempts
    <3>4. QED
      BY <3>2, <3>3
  <2>3. CASE Acknowledge(c)
    BY <2>3, AcknowledgeKeeps DEF Acknowledge
  <2>4. CASE TakeToken(c)
    <3>1. PICK m, t : attempts' = [attempts EXCEPT ![m].token = t]
      BY <2>4, TokenTaken
    <3>2. attempts'[n].state = attempts[n].state
      BY <1>1, <3>1 DEF Attempt
    <3>3. QED
      BY <3>2, SameAttempts
  <2>5. QED
    BY <1>4, <2>1, <2>2, <2>3, <2>4, ExpireKeeps DEF Status
<1>5. ASSUME NEW c \in Calls, Free(c) \/ Abandon(c) \/ HangUp(c) PROVE Kept(n)
  BY <1>2, <1>5 DEF Free, FreeBegins, FreeClaim, StageFree, Abandon, HangUp, storeVars
<1>6. CASE QuotePrunes
  BY <1>6, PruneKeeps DEF QuotePrunes
<1>7. ASSUME NEW m \in Names, Remove(m) PROVE Kept(n)
  BY <1>2, <1>7 DEF Remove, StageDeletion
<1>8. ASSUME NEW e \in EventIds, WorkerSettles(e) \/ BackoffOver(e) PROVE Kept(n)
  BY <1>2, <1>8, AcknowledgeKeeps DEF WorkerSettles, BackoffOver, BackoffElapses
<1>9. CASE Environment \/ Restart
  BY <1>2, <1>9 DEF Environment, Pay, TimeElapses, RetentionElapses, ChangePolicy, Restart, storeVars
<1>10. QED
  BY <1>3, <1>4, <1>5, <1>6, <1>7, <1>8, <1>9 DEF Next

-----------------------------------------------------------------------------
(* The results.                                                             *)

(* In every reachable state each request is in order, in particular one    *)
(* that is about to let an attempt expire under the lock does so before    *)
(* anybody claims the name for that attempt (registration.rs:348-420).     *)
THEOREM PaidInvariant == Spec => []PaidInv
<1>1. QED
  BY InitInv, NextInv, PTL DEF Spec

(* A paid claim that is being published always has its row, and its event  *)
(* is pending in the outbox (registration.rs, sqlite.rs).                  *)
THEOREM PaidClaimsStayQueued == Spec => []Consistency
<1>1. StoreInv => WaitingAttemptsAreQueued
  <2>1. SUFFICES ASSUME StoreInv, NEW n \in Names, attempts[n].state = "publishing"
                 PROVE  PaidClaimIsQueued(n)
    BY DEF WaitingAttemptsAreQueued
  <2>2. rows[n].state = "publishing" /\ rows[n].eid = attempts[n].eid
    BY <2>1 DEF StoreInv, AttemptsFollowRows
  <2>3. rows[n].eid \in EventIds /\ Pending(rows[n].eid)
    BY <2>1, <2>2 DEF StoreInv, WaitingRowsAreQueued, Unsettled
  <2>4. Says(rows[n].eid, n, "active", rows[n].dest)
    BY <2>1, <2>2 DEF StoreInv, EventsDescribeRows, RowDescribed
  <2>5. QED
    BY <2>2, <2>3, <2>4 DEF PaidClaimIsQueued
<1>2. PaidInv => Consistency
  BY <1>1 DEF PaidInv, StoreInv, Consistency
<1>3. QED
  BY <1>2, PaidInvariant, PTL

(* A name is held for its payer, and only a settled invoice claims one     *)
(* (registration.rs, sqlite.rs:stage_payment_address).                     *)
THEOREM NamesGoToPayers == Spec => []PaymentsClaimNames
<1>1. PaidInv => PaymentsClaimNames
  BY DEF PaidInv, PaymentsClaimNames
<1>2. QED
  BY <1>1, PaidInvariant, PTL

(* A claim that was paid for is touched by no expiry, pruning or other     *)
(* attempt, except the expiry of a request whose client hung up            *)
(* (registration.rs:start, status, under mutation_lock).                   *)
THEOREM ClaimsAreProtected == Spec => PaidClaimIsProtected
<1>1. PaidInv /\ [Next]_vars => [\A n \in Names : Kept(n) \/ ExpiryIsLeft(n)]_vars
  BY StepProtects
<1>2. QED
  BY <1>1, PaidInvariant, PTL DEF Spec, PaidClaimIsProtected

=============================================================================
