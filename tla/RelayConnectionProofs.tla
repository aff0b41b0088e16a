------------------------ MODULE RelayConnectionProofs ------------------------
(***************************************************************************)
(* What a connection keeps for any number of queries, events, attempts to  *)
(* connect and messages in the queue.                                      *)
(***************************************************************************)
EXTENDS RelayConnection, TLAPS

-----------------------------------------------------------------------------
(* The inductive invariant.                                                 *)

\* An attempt that is not settled is one the browser still works on, and what is
\* waited for is one of the attempts made.
AttemptsAreTracked ==
    /\ promise <= attempts
    /\ \A a \in Attempts : a <= attempts /\ settled[a] = "pending" => ws[a] = "connecting"
    /\ \A s \in Subs : sub[s] = "opening" => waits[s] # 0 /\ waits[s] <= attempts

\* A query is not told anything before it is made, is told of its end once and when
\* it is over, and remembers what it was given in a frame that could be read.
QueriesAreInOrder ==
    \A s \in Subs :
        /\ closes[s] # 0 => sub[s] \in {"gone", "refused"}
        /\ sub[s] = "unused" => eoses[s] = 0 /\ closes[s] = 0 /\ ~eoseTimer[s]
        /\ eoses[s] <= 1 /\ closes[s] <= 1
        /\ given[s] \ Disguised \subseteq known[s]

ConnectionInv ==
    /\ TypeOK
    /\ QueueIsServed
    /\ SilenceIsTimed
    /\ AttemptsAreTracked
    /\ QueriesAreInOrder

LEMMA InitInv == Init => ConnectionInv
<1>1. ASSUME Init PROVE TypeOK
  <2> USE <1>1 DEF Init
  <2>1. queue \in Seq(Frames) /\ Len(queue) <= MaxQueue
    BY MaxQueueAssumption
  <2>2. attempts \in 0 .. MaxAttempts /\ promise \in 0 .. MaxAttempts
    BY MaxAttemptsAssumption
  <2>3. /\ waits \in [Subs -> 0 .. MaxAttempts] /\ socket \in [Subs -> 0 .. MaxAttempts]
        /\ unsent \in [Subs -> 0 .. MaxAttempts]
    BY MaxAttemptsAssumption
  <2>4. /\ eoses \in [Subs -> 0 .. 2] /\ closes \in [Subs -> 0 .. 2]
        /\ given \in [Subs -> SUBSET Events] /\ again \in [Subs -> SUBSET Events]
        /\ known \in [Subs -> SUBSET Events]
    OBVIOUS
  <2>5. /\ ws \in [Attempts -> {"none", "connecting", "open", "closed"}]
        /\ settled \in [Attempts -> {"pending", "resolved", "rejected"}]
        /\ sub \in [Subs -> {"unused", "opening", "open", "gone", "refused"}]
        /\ closing \in [Subs -> BOOLEAN] /\ eoseTimer \in [Subs -> BOOLEAN]
    OBVIOUS
  <2>6. /\ timers \subseteq Attempts /\ connected \in BOOLEAN /\ closedByUs \in BOOLEAN
        /\ running \in BOOLEAN /\ stalled \in BOOLEAN /\ thrown \in BOOLEAN
    OBVIOUS
  <2> HIDE <1>1 DEF Init
  <2>7. QED
    BY <2>1, <2>2, <2>3, <2>4, <2>5, <2>6 DEF TypeOK
<1>2. Init => QueueIsServed /\ SilenceIsTimed /\ AttemptsAreTracked /\ QueriesAreInOrder
  BY MaxAttemptsAssumption
     DEF Init, QueueIsServed, SilenceIsTimed, AttemptsAreTracked, QueriesAreInOrder, Attempts
<1>3. QED
  BY <1>1, <1>2 DEF ConnectionInv

-----------------------------------------------------------------------------
(* Asking and closing.                                                      *)

LEMMA SubscribeInv ==
  ASSUME ConnectionInv, NEW s \in Subs, Subscribe(s) PROVE ConnectionInv'
<1> USE DEF ConnectionInv, Subscribe, queueVars, toldVars
<1>1. TypeOK'
  <2>1. /\ attempts' \in 0 .. MaxAttempts /\ promise' \in 0 .. MaxAttempts
        /\ ws' \in [Attempts -> {"none", "connecting", "open", "closed"}]
        /\ timers' \subseteq Attempts
        /\ waits' \in [Subs -> 0 .. MaxAttempts]
    <3>1. CASE promise # 0
      BY <3>1 DEF TypeOK
    <3>2. CASE promise = 0
      <4>1. attempts + 1 \in 0 .. MaxAttempts /\ attempts + 1 \in Attempts
        BY <3>2, MaxAttemptsAssumption DEF TypeOK, Attempts
      <4>2. /\ attempts' = attempts + 1 /\ promise' = attempts + 1
            /\ timers' = timers \cup {attempts + 1}
            /\ ws' = [ws EXCEPT ![attempts + 1] = "connecting"]
            /\ waits' = [waits EXCEPT ![s] = attempts + 1]
        BY <3>2
      <4>3. timers' \subseteq Attempts
        BY <4>1, <4>2 DEF TypeOK
      <4>4. ws' \in [Attempts -> {"none", "connecting", "open", "closed"}]
        BY <4>2 DEF TypeOK
      <4>5. waits' \in [Subs -> 0 .. MaxAttempts]
        BY <4>1, <4>2 DEF TypeOK
      <4>6. QED
        BY <4>1, <4>2, <4>3, <4>4, <4>5
    <3>3. QED
      BY <3>1, <3>2
  <2>2. sub' \in [Subs -> {"unused", "opening", "open", "gone", "refused"}]
    BY DEF TypeOK
  <2>3. QED
    BY <2>1, <2>2 DEF TypeOK
<1>2. QueueIsServed'
  BY DEF QueueIsServed
<1>3. SilenceIsTimed'
  BY DEF SilenceIsTimed, TypeOK
<1>4. AttemptsAreTracked'
  BY MaxAttemptsAssumption DEF AttemptsAreTracked, TypeOK, Attempts
<1>5. QueriesAreInOrder'
  BY DEF QueriesAreInOrder, TypeOK
<1>6. QED
  BY <1>1, <1>2, <1>3, <1>4, <1>5

LEMMA OpenedInv ==
  ASSUME ConnectionInv, NEW s \in Subs, Opened(s) PROVE ConnectionInv'
<1> USE DEF ConnectionInv, Opened, Settling, linkVars, queueVars, toldVars
<1>1. TypeOK'
  BY DEF TypeOK
<1>2. QueueIsServed'
  BY DEF QueueIsServed
<1>3. SilenceIsTimed'
  BY DEF SilenceIsTimed, TypeOK
<1>4. AttemptsAreTracked'
  BY DEF AttemptsAreTracked, TypeOK
<1>5. QueriesAreInOrder'
  BY DEF QueriesAreInOrder, TypeOK
<1>6. QED
  BY <1>1, <1>2, <1>3, <1>4, <1>5

LEMMA RefusedInv ==
  ASSUME ConnectionInv, NEW s \in Subs, Refused(s) PROVE ConnectionInv'
<1> USE DEF ConnectionInv, Refused, Settling, TellClosed, Once, linkVars, queueVars
<1>1. TypeOK'
  BY DEF TypeOK
<1>2. QueueIsServed'
  BY DEF QueueIsServed
<1>3. SilenceIsTimed'
  BY DEF SilenceIsTimed, TypeOK
<1>4. AttemptsAreTracked'
  BY DEF AttemptsAreTracked, TypeOK
<1>5. QueriesAreInOrder'
  BY DEF QueriesAreInOrder, TypeOK
<1>6. QED
  BY <1>1, <1>2, <1>3, <1>4, <1>5

LEMMA CallCloseInv ==
  ASSUME ConnectionInv, NEW s \in Subs, CallClose(s) PROVE ConnectionInv'
  BY DEF ConnectionInv, CallClose, linkVars, queueVars, toldVars, TypeOK, QueueIsServed,
         SilenceIsTimed, AttemptsAreTracked, QueriesAreInOrder

\* Closing subscriptions that are open, or gone without onclose, keeps the order.
LEMMA CloseSubsInv ==
  ASSUME ConnectionInv, NEW S \in SUBSET Subs, CloseSubs(S),
         \A s \in S : sub[s] \in {"open", "gone"},
         UNCHANGED <<eoseTimer, known, given, again>>
  PROVE  /\ sub' \in [Subs -> {"unused", "opening", "open", "gone", "refused"}]
         /\ eoses' \in [Subs -> 0 .. 2] /\ closes' \in [Subs -> 0 .. 2]
         /\ SilenceIsTimed' /\ QueriesAreInOrder'
         /\ \A s \in Subs : sub'[s] = "opening" => sub[s] = "opening"
<1> USE DEF ConnectionInv, CloseSubs, TellClosed, Once, TypeOK
<1>1. /\ sub' \in [Subs -> {"unused", "opening", "open", "gone", "refused"}]
      /\ eoses' \in [Subs -> 0 .. 2] /\ closes' \in [Subs -> 0 .. 2]
  OBVIOUS
<1>2. SilenceIsTimed'
  BY DEF SilenceIsTimed
<1>3. QueriesAreInOrder'
  BY DEF QueriesAreInOrder
<1>4. QED
  BY <1>1, <1>2, <1>3

LEMMA CloseOpenedInv ==
  ASSUME ConnectionInv, NEW s \in Subs, CloseOpened(s) PROVE ConnectionInv'
<1>1. /\ sub' \in [Subs -> {"unused", "opening", "open", "gone", "refused"}]
      /\ eoses' \in [Subs -> 0 .. 2] /\ closes' \in [Subs -> 0 .. 2]
      /\ SilenceIsTimed' /\ QueriesAreInOrder'
      /\ \A t \in Subs : sub'[t] = "opening" => sub[t] = "opening"
  <2>1. {s} \in SUBSET Subs /\ \A t \in {s} : sub[t] \in {"open", "gone"}
    BY DEF CloseOpened, Leaving
  <2>2. CloseSubs({s}) /\ UNCHANGED <<eoseTimer, known, given, again>>
    BY DEF CloseOpened
  <2>3. QED
    BY <2>1, <2>2, CloseSubsInv
<1>2. UNCHANGED <<linkVars, queueVars, waits, closing, socket, unsent, eoseTimer,
                  known, given, again>>
  BY DEF CloseOpened
<1>3. QED
  BY <1>1, <1>2 DEF ConnectionInv, TypeOK, QueueIsServed, AttemptsAreTracked,
                    linkVars, queueVars

LEMMA PoolCloseInv ==
  ASSUME ConnectionInv, PoolClose PROVE ConnectionInv'
<1>1. /\ sub' \in [Subs -> {"unused", "opening", "open", "gone", "refused"}]
      /\ eoses' \in [Subs -> 0 .. 2] /\ closes' \in [Subs -> 0 .. 2]
      /\ SilenceIsTimed' /\ QueriesAreInOrder'
      /\ \A t \in Subs : sub'[t] = "opening" => sub[t] = "opening"
  <2>1. OpenSubs \in SUBSET Subs /\ \A t \in OpenSubs : sub[t] \in {"open", "gone"}
    BY DEF OpenSubs
  <2>2. CloseSubs(OpenSubs) /\ UNCHANGED <<eoseTimer, known, given, again>>
    BY DEF PoolClose
  <2>3. QED
    BY <2>1, <2>2, CloseSubsInv
<1>2. TypeOK'
  BY <1>1 DEF ConnectionInv, TypeOK, PoolClose, queueVars
<1>3. AttemptsAreTracked' /\ QueueIsServed'
  BY <1>1 DEF ConnectionInv, TypeOK, AttemptsAreTracked, QueueIsServed, PoolClose, queueVars
<1>4. QED
  BY <1>1, <1>2, <1>3 DEF ConnectionInv

-----------------------------------------------------------------------------
(* Callbacks of the browser.                                                *)

\* A promise settles once, whatever attempt the handler means.
LEMMA SettleType ==
  ASSUME TypeOK, NEW a, NEW outcome \in {"resolved", "rejected"}, Settle(a, outcome)
  PROVE  settled' \in [Attempts -> {"pending", "resolved", "rejected"}]
  BY DEF TypeOK, Settle

LEMMA ConnectTimeoutInv ==
  ASSUME ConnectionInv, NEW a \in Attempts, ConnectTimeout(a) PROVE ConnectionInv'
<1>1. /\ sub' \in [Subs -> {"unused", "opening", "open", "gone", "refused"}]
      /\ eoses' \in [Subs -> 0 .. 2] /\ closes' \in [Subs -> 0 .. 2]
      /\ SilenceIsTimed' /\ QueriesAreInOrder'
      /\ \A t \in Subs : sub'[t] = "opening" => sub[t] = "opening"
  <2>1. OpenSubs \in SUBSET Subs /\ \A t \in OpenSubs : sub[t] \in {"open", "gone"}
    BY DEF OpenSubs
  <2>2. CloseSubs(OpenSubs) /\ UNCHANGED <<eoseTimer, known, given, again>>
    BY DEF ConnectTimeout
  <2>3. QED
    BY <2>1, <2>2, CloseSubsInv
<1>2. TypeOK'
  <2>1. settled' \in [Attempts -> {"pending", "resolved", "rejected"}]
    BY SettleType DEF ConnectionInv, ConnectTimeout
  <2>2. promise' \in 0 .. MaxAttempts
    BY MaxAttemptsAssumption DEF ConnectionInv, TypeOK, ConnectTimeout
  <2>3. QED
    BY <1>1, <2>1, <2>2 DEF ConnectionInv, TypeOK, ConnectTimeout, queueVars
<1>3. AttemptsAreTracked' /\ QueueIsServed'
  BY <1>1 DEF ConnectionInv, TypeOK, AttemptsAreTracked, QueueIsServed, ConnectTimeout,
              Settle, queueVars
<1>4. QED
  BY <1>1, <1>2, <1>3 DEF ConnectionInv

LEMMA SocketOpensInv ==
  ASSUME ConnectionInv, NEW a \in Attempts, SocketOpens(a) PROVE ConnectionInv'
<1> USE DEF ConnectionInv, SocketOpens, Settle, queueVars, toldVars
<1>1. TypeOK'
  <2>1. settled' \in [Attempts -> {"pending", "resolved", "rejected"}]
    BY SettleType
  <2>2. /\ socket' \in [Subs -> 0 .. MaxAttempts]
        /\ unsent' \in [Subs -> 0 .. MaxAttempts]
    BY MaxAttemptsAssumption DEF TypeOK
  <2>3. ws' \in [Attempts -> {"none", "connecting", "open", "closed"}]
    BY DEF TypeOK
  <2> HIDE DEF Settle
  <2>4. QED
    BY <2>1, <2>2, <2>3 DEF TypeOK
<1>2. QueueIsServed'
  BY DEF QueueIsServed
<1>3. SilenceIsTimed'
  BY DEF SilenceIsTimed, TypeOK
<1>4. AttemptsAreTracked'
  BY DEF AttemptsAreTracked, TypeOK
<1>5. QueriesAreInOrder'
  BY DEF QueriesAreInOrder, TypeOK
<1>6. QED
  BY <1>1, <1>2, <1>3, <1>4, <1>5

LEMMA SocketFailsInv ==
  ASSUME ConnectionInv, NEW a \in Attempts, SocketFails(a) PROVE ConnectionInv'
<1>1. /\ sub' \in [Subs -> {"unused", "opening", "open", "gone", "refused"}]
      /\ eoses' \in [Subs -> 0 .. 2] /\ closes' \in [Subs -> 0 .. 2]
      /\ SilenceIsTimed' /\ QueriesAreInOrder'
      /\ \A t \in Subs : sub'[t] = "opening" => sub[t] = "opening"
  <2>1. UNCHANGED <<eoseTimer, known, given, again>>
    BY DEF SocketFails
  <2>2. CASE CloseSubs(OpenSubs)
    <3>1. OpenSubs \in SUBSET Subs /\ \A t \in OpenSubs : sub[t] \in {"open", "gone"}
      BY DEF OpenSubs
    <3>2. QED
      BY <2>1, <2>2, <3>1, CloseSubsInv
  <2>3. CASE UNCHANGED <<sub, eoses, closes>>
    BY <2>1, <2>3 DEF ConnectionInv, TypeOK, SilenceIsTimed, QueriesAreInOrder
  <2>4. QED
    BY <2>2, <2>3 DEF SocketFails
<1>2. TypeOK'
  <2>1. settled' \in [Attempts -> {"pending", "resolved", "rejected"}]
    BY SettleType DEF ConnectionInv, SocketFails
  <2>2. promise' \in 0 .. MaxAttempts
    BY MaxAttemptsAssumption DEF ConnectionInv, TypeOK, SocketFails
  <2>3. QED
    BY <1>1, <2>1, <2>2 DEF ConnectionInv, TypeOK, SocketFails, queueVars
<1>3. AttemptsAreTracked' /\ QueueIsServed'
  BY <1>1 DEF ConnectionInv, TypeOK, AttemptsAreTracked, QueueIsServed, SocketFails,
              Settle, queueVars
<1>4. QED
  BY <1>1, <1>2, <1>3 DEF ConnectionInv

LEMMA EoseTimeoutInv ==
  ASSUME ConnectionInv, NEW s \in Subs, EoseTimeout(s) PROVE ConnectionInv'
<1> USE DEF ConnectionInv, EoseTimeout, TellEose, Once, linkVars, queueVars
<1>1. TypeOK'
  BY DEF TypeOK
<1>2. QueueIsServed' /\ AttemptsAreTracked'
  BY DEF QueueIsServed, AttemptsAreTracked
<1>3. SilenceIsTimed'
  BY DEF SilenceIsTimed, TypeOK
<1>4. QueriesAreInOrder'
  BY DEF QueriesAreInOrder, TypeOK
<1>5. QED
  BY <1>1, <1>2, <1>3, <1>4

-----------------------------------------------------------------------------
(* Messages.                                                                *)

\* What handling a message may do, to the subscriptions it may do it to.
LEMMA HandleKeeps ==
  ASSUME ConnectionInv, NEW m \in Frames, m.type \notin {"EMPTY", "BINARY"}, Handle(m)
  PROVE  /\ subVars' = subVars \/ sub[m.sub] = "open"
         /\ sub' \in [Subs -> {"unused", "opening", "open", "gone", "refused"}]
         /\ eoseTimer' \in [Subs -> BOOLEAN]
         /\ known' \in [Subs -> SUBSET Events]
         /\ given' \in [Subs -> SUBSET Events] /\ again' \in [Subs -> SUBSET Events]
         /\ eoses' \in [Subs -> 0 .. 2] /\ closes' \in [Subs -> 0 .. 2]
         /\ UNCHANGED <<waits, closing, socket, unsent>>
         /\ SilenceIsTimed' /\ QueriesAreInOrder'
         /\ \A s \in Subs : sub'[s] = "opening" => sub[s] = "opening"
<1>1. m.sub \in Subs
      /\ (m.type = "EVENT" => m.event \in Events /\ m.ids \subseteq Events)
  BY FramesAssumption DEF Messages
<1>2. UNCHANGED <<waits, closing, socket, unsent>>
  BY DEF Handle
<1>3. CASE UNCHANGED <<sub, eoseTimer, known, toldVars>>
  BY <1>2, <1>3
     DEF ConnectionInv, TypeOK, SilenceIsTimed, QueriesAreInOrder, subVars, toldVars
<1>4. CASE sub[m.sub] = "open" /\ m.type = "EVENT" /\ HandleEvent(m.sub, m.event, m.ids)
  <2>1. /\ known' \in [Subs -> SUBSET Events]
        /\ given' \in [Subs -> SUBSET Events] /\ again' \in [Subs -> SUBSET Events]
        /\ UNCHANGED <<sub, eoseTimer, eoses, closes>>
    BY <1>1, <1>4 DEF ConnectionInv, TypeOK, HandleEvent
  <2>2. m.ids = {m.event} \/ m.event \in Disguised
    BY <1>1, <1>4 DEF Disguised
  <2>3. \A s \in Subs : given'[s] \ Disguised \subseteq known'[s]
    BY <1>1, <1>4, <2>2 DEF ConnectionInv, TypeOK, HandleEvent, QueriesAreInOrder
  <2>4. QED
    BY <1>2, <1>4, <2>1, <2>3 DEF ConnectionInv, TypeOK, SilenceIsTimed, QueriesAreInOrder
<1>5. CASE sub[m.sub] = "open" /\ HandleEose(m.sub)
  BY <1>1, <1>2, <1>5
     DEF ConnectionInv, TypeOK, SilenceIsTimed, QueriesAreInOrder, HandleEose, TellEose, Once
<1>6. CASE sub[m.sub] = "open" /\ HandleClosed(m.sub)
  <2>1. UNCHANGED <<eoseTimer, known, given, again>>
    BY <1>6 DEF HandleClosed
  <2>2. CASE CloseSubs({m.sub})
    <3>1. {m.sub} \in SUBSET Subs /\ \A t \in {m.sub} : sub[t] \in {"open", "gone"}
      BY <1>1, <1>6
    <3>2. QED
      BY <1>2, <1>6, <2>1, <2>2, <3>1, CloseSubsInv DEF ConnectionInv, TypeOK
  <2>3. CASE sub' = [sub EXCEPT ![m.sub] = "gone"] /\ TellEose(m.sub) /\ UNCHANGED closes
    BY <1>1, <1>2, <1>6, <2>1, <2>3
       DEF ConnectionInv, TypeOK, SilenceIsTimed, QueriesAreInOrder, TellEose, Once
  <2>4. QED
    BY <1>6, <2>2, <2>3 DEF HandleClosed
<1>7. QED
  BY <1>3, <1>4, <1>5, <1>6 DEF Handle

\* Taking a message from a queue that holds one leaves a loop running, or ends it
\* on an empty or a binary frame.
LEMMA TurnInv ==
  ASSUME ConnectionInv, NEW messages \in Seq(Frames), messages # <<>>,
         Len(messages) <= MaxQueue, Turn(messages), UNCHANGED linkVars
  PROVE  ConnectionInv'
<1>1. Head(messages) \in Frames
  BY SMT
<1>2. queue' \in Seq(Frames) /\ Len(queue') <= MaxQueue
  BY MaxQueueAssumption DEF Turn
<1>3. running' \in BOOLEAN /\ stalled' \in BOOLEAN /\ thrown' \in BOOLEAN /\ QueueIsServed'
  BY DEF Turn, QueueIsServed
<1>4. /\ sub' \in [Subs -> {"unused", "opening", "open", "gone", "refused"}]
      /\ eoseTimer' \in [Subs -> BOOLEAN]
      /\ known' \in [Subs -> SUBSET Events]
         /\ given' \in [Subs -> SUBSET Events] /\ again' \in [Subs -> SUBSET Events]
      /\ eoses' \in [Subs -> 0 .. 2] /\ closes' \in [Subs -> 0 .. 2]
      /\ UNCHANGED <<waits, closing, socket, unsent>>
      /\ SilenceIsTimed' /\ QueriesAreInOrder'
      /\ \A s \in Subs : sub'[s] = "opening" => sub[s] = "opening"
  <2>1. CASE UNCHANGED subVars
    BY <2>1 DEF subVars, toldVars, ConnectionInv, TypeOK, SilenceIsTimed, QueriesAreInOrder
  <2>2. CASE Head(messages).type \notin {"EMPTY", "BINARY"} /\ Handle(Head(messages))
    BY <1>1, <2>2, HandleKeeps
  <2>3. QED
    BY <2>1, <2>2 DEF Turn
<1>5. TypeOK'
  BY <1>2, <1>3, <1>4 DEF ConnectionInv, TypeOK, linkVars
<1>6. AttemptsAreTracked'
  BY <1>4 DEF ConnectionInv, AttemptsAreTracked, linkVars
<1>7. QED
  BY <1>3, <1>4, <1>5, <1>6 DEF ConnectionInv

\* onmessage puts the message behind those that wait.
LEMMA Enqueued ==
  ASSUME ConnectionInv, NEW m \in Frames
  PROVE  /\ Append(queue, m) \in Seq(Frames) /\ Append(queue, m) # <<>>
         /\ Len(queue) < MaxQueue => Len(Append(queue, m)) <= MaxQueue
<1>1. queue \in Seq(Frames)
  BY DEF ConnectionInv, TypeOK
<1>2. Append(queue, m) \in Seq(Frames)
  BY <1>1
<1>3. Len(Append(queue, m)) = Len(queue) + 1 /\ Len(queue) \in Nat
  BY <1>1
<1>4. Append(queue, m) # <<>>
  BY <1>2, <1>3
<1>5. QED
  BY <1>2, <1>3, <1>4, MaxQueueAssumption

LEMMA ReceiveInv ==
  ASSUME ConnectionInv, NEW m \in Frames, Receive(m) PROVE ConnectionInv'
<1>1. /\ Append(queue, m) \in Seq(Frames) /\ Append(queue, m) # <<>>
      /\ Len(Append(queue, m)) <= MaxQueue
  BY Enqueued DEF Receive
<1>2. CASE ~running /\ Turn(Append(queue, m))
  BY <1>1, <1>2, TurnInv DEF Receive
<1>3. CASE running /\ queue' = Append(queue, m) /\ UNCHANGED <<running, stalled, thrown, subVars>>
  BY <1>1, <1>3
     DEF Receive, ConnectionInv, TypeOK, QueueIsServed, SilenceIsTimed, AttemptsAreTracked,
         QueriesAreInOrder, linkVars, subVars, toldVars
<1>4. QED
  BY <1>2, <1>3 DEF Receive

LEMMA RunQueueInv ==
  ASSUME ConnectionInv, RunQueue PROVE ConnectionInv'
<1>1. CASE queue # <<>> /\ Turn(queue)
  BY <1>1, TurnInv DEF RunQueue, ConnectionInv, TypeOK
<1>2. CASE queue = <<>> /\ running' = FALSE /\ UNCHANGED <<queue, stalled, thrown, subVars>>
  BY <1>2
     DEF RunQueue, ConnectionInv, TypeOK, QueueIsServed, SilenceIsTimed, AttemptsAreTracked,
         QueriesAreInOrder, linkVars, subVars, toldVars
<1>3. QED
  BY <1>1, <1>2 DEF RunQueue

-----------------------------------------------------------------------------
LEMMA NextInv == ConnectionInv /\ [Next]_vars => ConnectionInv'
<1> SUFFICES ASSUME ConnectionInv, [Next]_vars PROVE ConnectionInv'
  OBVIOUS
<1>1. ASSUME NEW s \in Subs,
             \/ Subscribe(s) \/ Opened(s) \/ Refused(s)
             \/ CallClose(s) \/ CloseOpened(s) \/ EoseTimeout(s)
      PROVE  ConnectionInv'
  BY <1>1, SubscribeInv, OpenedInv, RefusedInv, CallCloseInv, CloseOpenedInv, EoseTimeoutInv
<1>2. ASSUME NEW a \in Attempts, SocketOpens(a) \/ SocketFails(a) \/ ConnectTimeout(a)
      PROVE  ConnectionInv'
  BY <1>2, SocketOpensInv, SocketFailsInv, ConnectTimeoutInv
<1>3. CASE UNCHANGED vars
  BY <1>3 DEF vars, linkVars, queueVars, subVars, toldVars, ConnectionInv, TypeOK, QueueIsServed,
              SilenceIsTimed, AttemptsAreTracked, QueriesAreInOrder
<1>4. QED
  BY <1>1, <1>2, <1>3, PoolCloseInv, ReceiveInv, RunQueueInv DEF Next

\* The inductive invariant of a connection, for any number of sockets.
THEOREM ConnectionInvariant == Spec => []ConnectionInv
<1>1. Init => ConnectionInv
  BY InitInv
<1>2. ConnectionInv /\ [Next]_vars => ConnectionInv'
  BY NextInv
<1>3. QED
  BY <1>1, <1>2, PTL DEF Spec

\* Every variable keeps its type, and no message waits in a queue that nothing
\* serves, but behind an empty or a binary frame (the bundle's runQueue and
\* handleNext, 2972-2987).
THEOREM QueueStaysServed == Spec => []Consistency
<1>1. ConnectionInv => Consistency
  BY DEF ConnectionInv, Consistency
<1>2. QED
  BY <1>1, ConnectionInvariant, PTL

\* A query that is open has been told that stored events are over or has a timer
\* that will tell it, and a call that waits for a connection waits for a socket
\* the browser works on, however attempts overlap (connect, fire).
THEOREM NobodyWaitsForNothing == Spec => []WaitingEnds
<1>1. ConnectionInv => WaitingEnds
  BY DEF ConnectionInv, WaitingEnds, WaitingIsForASocket, AttemptsAreTracked, TypeOK,
         Attempts
<1>2. QED
  BY <1>1, ConnectionInvariant, PTL

-----------------------------------------------------------------------------
(* A connection behaves towards each query as RelayQuery says.              *)

\* The phase of a query, without the case distinction.
PhaseOf(s) ==
    IF ToldTwice(s) THEN "repeated"
    ELSE IF closes[s] # 0 THEN "closed"
    ELSE IF eoses[s] # 0 THEN "live"
    ELSE IF sub[s] = "unused" THEN "idle" ELSE "asked"

LEMMA PhaseIs ==
  \A s \in Subs : phase[s] = PhaseOf(s) /\ phase'[s] = PhaseOf(s)'
<1>1. ASSUME NEW s \in Subs PROVE phase[s] = PhaseOf(s)
  BY DEF phase, PhaseOf
<1>2. ASSUME NEW s \in Subs PROVE phase'[s] = PhaseOf(s)'
  BY DEF phase, PhaseOf
<1>3. QED
  BY <1>1, <1>2

\* Steps that tell a query nothing stutter.
LEMMA NothingTold ==
  ASSUME UNCHANGED toldVars,
         \A s \in Subs : (sub'[s] = "unused") = (sub[s] = "unused")
  PROVE  UNCHANGED Query!queryVars
<1>1. phase' = phase
  <2>1. \A s \in Subs : phase'[s] = phase[s]
    BY PhaseIs DEF PhaseOf, ToldTwice, toldVars
  <2>2. QED
    BY <2>1 DEF phase
<1>2. QED
  BY <1>1 DEF Query!queryVars, toldVars

QueryStep == [Query!QueryNext]_(Query!queryVars)

LEMMA CountsAreOnce ==
  ASSUME ConnectionInv, NEW s \in Subs PROVE eoses[s] \in 0 .. 1 /\ closes[s] \in 0 .. 1
<1>1. eoses[s] \in 0 .. 2 /\ closes[s] \in 0 .. 2
  BY DEF ConnectionInv, TypeOK
<1>2. eoses[s] <= 1 /\ closes[s] <= 1
  BY DEF ConnectionInv, QueriesAreInOrder
<1>3. QED
  BY <1>1, <1>2

\* handleEose tells a query that is asked that stored events are over, and tells a
\* query that was told before nothing.
LEMMA EoseStep ==
  ASSUME ConnectionInv, NEW s \in Subs, TellEose(s), sub[s] # "unused",
         UNCHANGED <<closes, given, again>>,
         \A t \in Subs : (sub'[t] = "unused") = (sub[t] = "unused")
  PROVE  QueryStep
<1>1. \A t \in Subs : /\ eoses'[t] = IF t = s THEN Once(eoses[t]) ELSE eoses[t]
                     /\ eoses[t] \in 0 .. 1 /\ closes[t] \in 0 .. 1
  BY CountsAreOnce DEF TellEose, ConnectionInv, TypeOK
<1>2. \A t \in Subs : t # s => phase'[t] = phase[t]
  BY <1>1, PhaseIs DEF PhaseOf, ToldTwice, Once
<1>3. CASE phase[s] = "asked"
  <2>1. phase'[s] = "live"
    BY <1>1, <1>3, PhaseIs DEF PhaseOf, ToldTwice, Once
  <2>2. phase' = [phase EXCEPT ![s] = "live"]
    BY <1>2, <2>1 DEF phase
  <2>3. QED
    BY <1>3, <2>2 DEF QueryStep, Query!QueryNext, Query!EndOfStored
<1>4. CASE phase[s] # "asked"
  <2>1. phase'[s] = phase[s]
    BY <1>1, <1>4, PhaseIs DEF PhaseOf, ToldTwice, Once
  <2>2. phase' = phase
    BY <1>2, <2>1 DEF phase
  <2>3. QED
    BY <2>2 DEF QueryStep, Query!queryVars
<1>5. QED
  BY <1>3, <1>4

\* Closing queries that were made and not told of their end ends them together.
LEMMA EndStep ==
  ASSUME ConnectionInv, NEW S \in SUBSET Subs, TellClosed(S), UNCHANGED <<given, again>>,
         \A s \in S : sub[s] # "unused" /\ closes[s] = 0,
         \A t \in Subs \ S : sub'[t] = sub[t]
  PROVE  QueryStep
<1>1. \A t \in Subs : /\ closes'[t] = IF t \in S THEN Once(closes[t]) ELSE closes[t]
                     /\ eoses'[t] = IF t \in S THEN Once(eoses[t]) ELSE eoses[t]
  BY DEF TellClosed
<1>2. \A t \in Subs : eoses[t] \in 0 .. 1 /\ closes[t] \in 0 .. 1
  BY CountsAreOnce
<1>3. \A t \in Subs : phase'[t] = IF t \in S THEN "closed" ELSE phase[t]
  <2>1. ASSUME NEW t \in S PROVE phase'[t] = "closed"
    BY <1>1, <1>2, <2>1, PhaseIs DEF PhaseOf, ToldTwice, Once
  <2>2. ASSUME NEW t \in Subs \ S PROVE phase'[t] = phase[t]
    BY <1>1, <2>2, PhaseIs DEF PhaseOf, ToldTwice
  <2>3. QED
    BY <2>1, <2>2
<1>4. phase' = [t \in Subs |-> IF t \in S THEN "closed" ELSE phase[t]]
  BY <1>3 DEF phase
<1>5. CASE S = {}
  BY <1>4, <1>5 DEF QueryStep, Query!queryVars, phase
<1>6. CASE S # {}
  <2>1. \A s \in S : phase[s] \in {"asked", "live"}
    BY <1>2, PhaseIs DEF PhaseOf, ToldTwice
  <2>2. QED
    BY <1>4, <1>6, <2>1 DEF QueryStep, Query!QueryNext, Query!End
<1>7. QED
  BY <1>5, <1>6

LEMMA CloseSubsStep ==
  ASSUME ConnectionInv, NEW S \in SUBSET Subs, CloseSubs(S), UNCHANGED <<given, again>>,
         \A s \in S : sub[s] # "unused" /\ closes[s] = 0
  PROVE  QueryStep
<1>1. \A t \in Subs \ S : sub'[t] = sub[t]
  BY DEF CloseSubs, ConnectionInv, TypeOK
<1>2. QED
  BY <1>1, EndStep DEF CloseSubs

\* All subscriptions in openSubs may be closed.
LEMMA CloseOpenStep ==
  ASSUME ConnectionInv, CloseSubs(OpenSubs), UNCHANGED <<given, again>> PROVE QueryStep
<1>1. \A s \in OpenSubs : s \in Subs /\ sub[s] # "unused" /\ closes[s] = 0
  BY DEF OpenSubs, ConnectionInv, QueriesAreInOrder
<1>2. OpenSubs \in SUBSET Subs
  BY DEF OpenSubs
<1>3. QED
  BY <1>1, <1>2, CloseSubsStep

LEMMA Stutter ==
  ASSUME UNCHANGED toldVars,
         \A s \in Subs : (sub'[s] = "unused") = (sub[s] = "unused")
  PROVE  QueryStep
  BY NothingTold DEF QueryStep

LEMMA SubscribeStep ==
  ASSUME ConnectionInv, NEW s \in Subs, Subscribe(s) PROVE QueryStep
<1>1. \A t \in Subs : sub'[t] = IF t = s THEN "opening" ELSE sub[t]
  BY DEF Subscribe, ConnectionInv, TypeOK
<1>2. UNCHANGED toldVars
  BY DEF Subscribe
<1>3. phase[s] = "idle" /\ phase'[s] = "asked"
  <2>1. sub[s] = "unused" /\ eoses[s] = 0 /\ closes[s] = 0
    BY DEF Subscribe, ConnectionInv, QueriesAreInOrder
  <2>2. QED
    BY <1>1, <1>2, <2>1, PhaseIs DEF PhaseOf, ToldTwice, toldVars
<1>4. \A t \in Subs : t # s => phase'[t] = phase[t]
  BY <1>1, <1>2, PhaseIs DEF PhaseOf, ToldTwice, toldVars
<1>5. phase' = [phase EXCEPT ![s] = "asked"]
  BY <1>3, <1>4 DEF phase
<1>6. QED
  BY <1>2, <1>3, <1>5 DEF QueryStep, Query!QueryNext, Query!Ask, toldVars

\* A subscription is given an event that it accepts, and given it again only when
\* its frame was disguised.
LEMMA GiveStep ==
  ASSUME ConnectionInv, NEW m \in Frames, m.type = "EVENT", m.sub \in Subs,
         m.event \in Events, sub[m.sub] = "open", HandleEvent(m.sub, m.event, m.ids)
  PROVE  QueryStep
<1> DEFINE s == m.sub
           e == m.event
           gives == ~(m.ids # {} /\ m.ids \subseteq known[s]) /\ e \in Accepts[s]
<1>1. UNCHANGED <<sub, eoses, closes>>
  BY DEF HandleEvent
<1>2. phase' = phase
  <2>1. \A t \in Subs : phase'[t] = phase[t]
    BY <1>1, PhaseIs DEF PhaseOf, ToldTwice, Once
  <2>2. QED
    BY <2>1 DEF phase
<1>3. phase[s] \in {"asked", "live"}
  <2>1. eoses[s] \in 0 .. 1
    BY CountsAreOnce
  <2>3. closes[s] = 0 /\ sub[s] # "unused"
    BY DEF ConnectionInv, QueriesAreInOrder
  <2>2. QED
    BY <2>1, <2>3, PhaseIs DEF PhaseOf, ToldTwice
<1>4. /\ given' = [given EXCEPT ![s] = IF gives THEN @ \cup {e} ELSE @]
      /\ again' = [again EXCEPT ![s] = IF gives /\ e \in given[s] THEN @ \cup {e} ELSE @]
  BY DEF HandleEvent
<1>5. given \in [Subs -> SUBSET Events] /\ again \in [Subs -> SUBSET Events]
  BY DEF ConnectionInv, TypeOK
<1>6. gives /\ e \in given[s] => e \in Disguised
  <2>1. m.ids = {e} \/ e \in Disguised
    BY DEF Disguised
  <2>2. given[s] \ Disguised \subseteq known[s]
    BY DEF ConnectionInv, QueriesAreInOrder
  <2>3. QED
    BY <2>1, <2>2
<1> HIDE DEF gives
<1>7. CASE gives /\ e \notin given[s]
  <2>1. e \in Accepts[s]
    BY <1>7 DEF gives
  <2>2. given' = [given EXCEPT ![s] = @ \cup {e}] /\ again' = again
    BY <1>4, <1>5, <1>7
  <2>3. Query!Give(s, e)
    BY <1>2, <1>3, <1>7, <2>1, <2>2 DEF Query!Give
  <2>4. QED
    BY <2>3 DEF QueryStep, Query!QueryNext
<1>8. CASE gives /\ e \in given[s]
  <2>1. given' = given /\ again' = [again EXCEPT ![s] = @ \cup {e}]
    BY <1>4, <1>5, <1>8
  <2>2. Query!GiveAgain(s, e)
    BY <1>2, <1>3, <1>6, <1>8, <2>1 DEF Query!GiveAgain, Query!Repeat
  <2>3. QED
    BY <2>2 DEF QueryStep, Query!QueryNext
<1>9. CASE ~gives
  <2>1. given' = given /\ again' = again
    BY <1>4, <1>5, <1>9
  <2>2. QED
    BY <1>2, <2>1 DEF QueryStep, Query!queryVars
<1>10. QED
  BY <1>7, <1>8, <1>9

LEMMA HandleStep ==
  ASSUME ConnectionInv, NEW m \in Frames, m.type \notin {"EMPTY", "BINARY"}, Handle(m) PROVE QueryStep
<1>1. m.sub \in Subs
      /\ (m.type = "EVENT" => m.event \in Events /\ m.ids \subseteq Events)
  BY FramesAssumption DEF Messages
<1>2. CASE UNCHANGED <<sub, eoseTimer, known, toldVars>>
  BY <1>2, Stutter
<1>3. CASE sub[m.sub] = "open" /\ m.type = "EVENT" /\ HandleEvent(m.sub, m.event, m.ids)
  BY <1>1, <1>3, GiveStep
<1>4. CASE sub[m.sub] = "open" /\ HandleEose(m.sub)
  BY <1>1, <1>4, EoseStep DEF HandleEose
<1>5. CASE sub[m.sub] = "open" /\ HandleClosed(m.sub)
  <2>1. closes[m.sub] = 0 /\ UNCHANGED <<given, again>>
    BY <1>1, <1>5 DEF HandleClosed, ConnectionInv, QueriesAreInOrder
  <2>2. CASE CloseSubs({m.sub})
    BY <1>1, <1>5, <2>1, <2>2, CloseSubsStep
  <2>3. CASE sub' = [sub EXCEPT ![m.sub] = "gone"] /\ TellEose(m.sub) /\ UNCHANGED closes
    <3>1. \A t \in Subs : (sub'[t] = "unused") = (sub[t] = "unused")
      BY <1>1, <1>5, <2>3 DEF ConnectionInv, TypeOK
    <3>2. QED
      BY <1>1, <1>5, <2>1, <2>3, <3>1, EoseStep
  <2>4. QED
    BY <1>5, <2>2, <2>3 DEF HandleClosed
<1>6. QED
  BY <1>2, <1>3, <1>4, <1>5 DEF Handle

LEMMA TurnStep ==
  ASSUME ConnectionInv, NEW messages \in Seq(Frames), messages # <<>>, Turn(messages)
  PROVE  QueryStep
<1>1. Head(messages) \in Frames
  BY SMT
<1>2. CASE UNCHANGED subVars
  BY <1>2, Stutter DEF subVars
<1>3. CASE Head(messages).type \notin {"EMPTY", "BINARY"} /\ Handle(Head(messages))
  BY <1>1, <1>3, HandleStep
<1>4. QED
  BY <1>2, <1>3 DEF Turn

LEMMA NextStep == ConnectionInv /\ [Next]_vars => QueryStep
<1> SUFFICES ASSUME ConnectionInv, [Next]_vars PROVE QueryStep
  OBVIOUS
<1>1. ASSUME NEW s \in Subs, Opened(s) PROVE QueryStep
  <2>1. \A t \in Subs : (sub'[t] = "unused") = (sub[t] = "unused")
    BY <1>1 DEF Opened, Settling, ConnectionInv, TypeOK
  <2>2. QED
    BY <1>1, <2>1, Stutter DEF Opened
<1>2. ASSUME NEW s \in Subs, Refused(s) PROVE QueryStep
  <2>1. \A t \in Subs \ {s} : sub'[t] = sub[t]
    BY <1>2 DEF Refused, ConnectionInv, TypeOK
  <2>2. sub[s] # "unused" /\ closes[s] = 0
    BY <1>2 DEF Refused, Settling, ConnectionInv, QueriesAreInOrder
  <2>3. QED
    BY <1>2, <2>1, <2>2, EndStep DEF Refused
<1>3. ASSUME NEW s \in Subs, CallClose(s) PROVE QueryStep
  BY <1>3, Stutter DEF CallClose
<1>4. ASSUME NEW s \in Subs, CloseOpened(s) PROVE QueryStep
  <2>1. sub[s] # "unused" /\ closes[s] = 0
    BY <1>4 DEF CloseOpened, Leaving, ConnectionInv, QueriesAreInOrder
  <2>2. QED
    BY <1>4, <2>1, CloseSubsStep DEF CloseOpened
<1>5. ASSUME NEW s \in Subs, EoseTimeout(s) PROVE QueryStep
  <2>1. sub[s] # "unused"
    BY <1>5 DEF EoseTimeout, ConnectionInv, QueriesAreInOrder
  <2>2. QED
    BY <1>5, <2>1, EoseStep DEF EoseTimeout
<1>6. ASSUME NEW a \in Attempts, SocketOpens(a) PROVE QueryStep
  BY <1>6, Stutter DEF SocketOpens
<1>7. ASSUME NEW a \in Attempts, SocketFails(a) PROVE QueryStep
  <2>1. CASE CloseSubs(OpenSubs)
    BY <1>7, <2>1, CloseOpenStep DEF SocketFails
  <2>2. CASE UNCHANGED <<sub, eoses, closes>>
    BY <1>7, <2>2, Stutter DEF SocketFails, toldVars
  <2>3. QED
    BY <1>7, <2>1, <2>2 DEF SocketFails
<1>8. ASSUME PoolClose \/ \E a \in Attempts : ConnectTimeout(a) PROVE QueryStep
  BY <1>8, CloseOpenStep DEF PoolClose, ConnectTimeout
<1>9. ASSUME NEW m \in Frames, Receive(m) PROVE QueryStep
  <2>1. CASE UNCHANGED subVars
    BY <2>1, Stutter DEF subVars
  <2>2. CASE Turn(Append(queue, m))
    <3>1. Append(queue, m) \in Seq(Frames) /\ Append(queue, m) # <<>>
      BY Enqueued
    <3>2. QED
      BY <2>2, <3>1, TurnStep
  <2>3. QED
    BY <1>9, <2>1, <2>2 DEF Receive
<1>10. CASE RunQueue
  <2>1. CASE UNCHANGED subVars
    BY <2>1, Stutter DEF subVars
  <2>2. CASE queue # <<>> /\ Turn(queue)
    BY <2>2, TurnStep DEF ConnectionInv, TypeOK
  <2>3. QED
    BY <1>10, <2>1, <2>2 DEF RunQueue
<1>11. CASE UNCHANGED vars
  BY <1>11, Stutter DEF vars, subVars
<1>12. QED
  BY <1>1, <1>2, <1>3, <1>4, <1>5, <1>6, <1>7, <1>8, <1>9, <1>10, <1>11, SubscribeStep
     DEF Next

\* The safety part of the refinement: towards the page a connection only ever
\* does what RelayQuery allows.  Events are given while the query lasts and again
\* only when the scan could not read a frame; oneose comes once and before
\* onclose, which comes once.
THEOREM QueriesBehave == Spec => Query!QueryInit /\ [][Query!QueryNext]_(Query!queryVars)
<1>1. Init => Query!QueryInit
  <2> SUFFICES ASSUME Init PROVE Query!QueryInit
    OBVIOUS
  <2>1. \A s \in Subs : phase[s] = "idle"
    BY PhaseIs DEF PhaseOf, ToldTwice, Init
  <2>2. phase = [s \in Subs |-> "idle"]
    BY <2>1 DEF phase
  <2>3. QED
    BY <2>2 DEF Init, Query!QueryInit
<1>2. ConnectionInv /\ [Next]_vars => [Query!QueryNext]_(Query!queryVars)
  BY NextStep DEF QueryStep
<1>3. QED
  BY <1>1, <1>2, ConnectionInvariant, PTL DEF Spec

=============================================================================
