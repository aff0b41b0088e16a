--------------------------- MODULE RelayConnection ---------------------------
(***************************************************************************)
(* One relay of the pool in the nostr-tools bundle: the connection, its    *)
(* queue of incoming messages, and the subscriptions made through          *)
(* pool.subscribeMany([relay], ...), the only way the marketplace asks.    *)
(*                                                                         *)
(* A socket is an attempt to connect, 1 .. MaxAttempts.  The handlers of   *)
(* an old socket stay bound to the relay object, so that one that opens or *)
(* closes late acts on the state that belongs to a newer one.  Callbacks   *)
(* of the browser are steps; continuations of promises run before the next *)
(* callback (MicrotasksDone guards every callback).                        *)
(***************************************************************************)
EXTENDS Naturals, Sequences

CONSTANTS
    Subs,         \* calls of subscribeMany for this relay
    Events,       \* events the relay may send
    Accepts,      \* Accepts[s]: events that verify and match the filters of s
    Frames,       \* what the relay may send
    MaxAttempts,  \* bound: sockets opened to this relay
    MaxQueue      \* bound: messages waiting in the queue

ASSUME AcceptsAssumption == Accepts \in [Subs -> SUBSET Events]

(* Frames: with a message for a subscription, with none, or with bytes.  ids has
   the id that the scan of handleNext finds in a frame with an event, or nothing. *)
Messages == [type : {"EVENT"}, sub : Subs, event : Events, ids : SUBSET Events]
            \cup [type : {"EOSE", "CLOSED"}, sub : Subs]
            \cup [type : {"EMPTY", "BINARY"}]

ASSUME FramesAssumption == Frames \subseteq Messages
ASSUME MaxAttemptsAssumption == MaxAttempts \in Nat \ {0}
ASSUME MaxQueueAssumption == MaxQueue \in Nat \ {0}

VARIABLES
    attempts,   \* sockets created; the last one is relay.ws
    ws,         \* readyState of each socket
    promise,    \* connectionPromise: the attempt it belongs to, 0 if undefined
    settled,    \* settled[a]: "pending", "resolved" or "rejected"
    timers,     \* the attempts whose timer is armed; connectionTimeoutHandle is
                \* that of the last
    connected,  \* _connected
    closedByUs, \* pool.close ran; nothing is subscribed after it
    queue,      \* incomingMessageQueue
    running,    \* queueRunning
    stalled,    \* an empty frame was what the last loop ended on
    thrown,     \* a binary frame made handleNext throw: the loop is gone for good
    sub,        \* "unused", "opening" (awaits ensureRelay), "open" (in openSubs),
                \* "gone" (left openSubs), "refused" (ensureRelay threw)
    waits,      \* the attempt whose promise an opening call awaits
    closing,    \* close() of the returned object awaits allOpened
    socket,     \* the socket that carried the REQ; 0 if it was not sent
    unsent,     \* the REQ waits for this promise; 0 if it does not
    eoseTimer,  \* the timer of fire() is armed
    known,      \* _knownIds
    eoses,      \* calls of params.oneose; 2 stands for more than one
    closes,     \* calls of params.onclose
    given,      \* events params.onevent was called with
    again       \* events it was called with more than once

linkVars == <<attempts, ws, promise, settled, timers, connected, closedByUs>>
queueVars == <<queue, running, stalled, thrown>>
toldVars == <<eoses, closes, given, again>>
subVars == <<sub, waits, closing, socket, unsent, eoseTimer, known, toldVars>>
vars == <<linkVars, queueVars, subVars>>

Attempts == 1 .. MaxAttempts

(* Events with a frame that the scan does not read as what it is: without the
   subscription (blanks before it, or a long way to its end), or with another
   field of that name before the event's id. *)
Disguised == {e \in Events : \E m \in Frames : m.type = "EVENT" /\ m.event = e /\ m.ids # {e}}

TypeOK ==
    /\ attempts \in 0 .. MaxAttempts
    /\ ws \in [Attempts -> {"none", "connecting", "open", "closed"}]
    /\ promise \in 0 .. MaxAttempts
    /\ settled \in [Attempts -> {"pending", "resolved", "rejected"}]
    /\ timers \subseteq Attempts
    /\ connected \in BOOLEAN /\ closedByUs \in BOOLEAN
    /\ queue \in Seq(Frames) /\ Len(queue) <= MaxQueue
    /\ running \in BOOLEAN /\ stalled \in BOOLEAN /\ thrown \in BOOLEAN
    /\ sub \in [Subs -> {"unused", "opening", "open", "gone", "refused"}]
    /\ waits \in [Subs -> 0 .. MaxAttempts]
    /\ closing \in [Subs -> BOOLEAN]
    /\ socket \in [Subs -> 0 .. MaxAttempts]
    /\ unsent \in [Subs -> 0 .. MaxAttempts]
    /\ eoseTimer \in [Subs -> BOOLEAN]
    /\ known \in [Subs -> SUBSET Events]
    /\ eoses \in [Subs -> 0 .. 2] /\ closes \in [Subs -> 0 .. 2]
    /\ given \in [Subs -> SUBSET Events] /\ again \in [Subs -> SUBSET Events]

Init ==
    /\ attempts = 0
    /\ ws = [a \in Attempts |-> "none"]
    /\ promise = 0
    /\ settled = [a \in Attempts |-> "pending"]
    /\ timers = {} /\ connected = FALSE /\ closedByUs = FALSE
    /\ queue = <<>> /\ running = FALSE /\ stalled = FALSE /\ thrown = FALSE
    /\ sub = [s \in Subs |-> "unused"]
    /\ waits = [s \in Subs |-> 0]
    /\ closing = [s \in Subs |-> FALSE]
    /\ socket = [s \in Subs |-> 0]
    /\ unsent = [s \in Subs |-> 0]
    /\ eoseTimer = [s \in Subs |-> FALSE]
    /\ known = [s \in Subs |-> {}]
    /\ eoses = [s \in Subs |-> 0] /\ closes = [s \in Subs |-> 0]
    /\ given = [s \in Subs |-> {}] /\ again = [s \in Subs |-> {}]

-----------------------------------------------------------------------------
(* Helpers: what several handlers do. *)

OpenSubs == {s \in Subs : sub[s] = "open"}

(* handleEose and handleClose of the pool put a function that does nothing in
   their place when they have told the page; handleClose calls handleEose first. *)
Once(count) == IF count = 0 THEN 1 ELSE count
TellEose(s) == eoses' = [eoses EXCEPT ![s] = Once(@)]
TellClosed(S) ==
    /\ eoses' = [s \in Subs |-> IF s \in S THEN Once(eoses[s]) ELSE eoses[s]]
    /\ closes' = [s \in Subs |-> IF s \in S THEN Once(closes[s]) ELSE closes[s]]

(* Subscription.close for every s of S: it leaves openSubs, onclose is called;
   the timer of fire() stays armed. *)
CloseSubs(S) ==
    /\ sub' = [s \in Subs |-> IF s \in S THEN "gone" ELSE sub[s]]
    /\ TellClosed(S)

(* A continuation of a promise is due. *)
Settling(s) == sub[s] = "opening" /\ settled[waits[s]] # "pending"
Leaving(s) == closing[s] /\ (sub[s] = "open" \/ (sub[s] = "gone" /\ closes[s] = 0))
MicrotasksDone == \A s \in Subs : ~Settling(s) /\ ~Leaving(s)

-----------------------------------------------------------------------------
(* Asking and closing: the marketplace. *)

(* subscribeMany: the call runs up to `await relay.connect()`, which starts
   a socket and its timer unless there is a connectionPromise. *)
Subscribe(s) ==
    /\ MicrotasksDone
    /\ sub[s] = "unused" /\ ~closedByUs
    /\ sub' = [sub EXCEPT ![s] = "opening"]
    /\ \/ /\ promise # 0
          /\ waits' = [waits EXCEPT ![s] = promise]
          /\ UNCHANGED <<attempts, ws, promise, timers>>
       \/ /\ promise = 0 /\ attempts < MaxAttempts
          /\ attempts' = attempts + 1
          /\ ws' = [ws EXCEPT ![attempts + 1] = "connecting"]
          /\ promise' = attempts + 1
          /\ timers' = timers \cup {attempts + 1}
          /\ waits' = [waits EXCEPT ![s] = attempts + 1]
    /\ UNCHANGED <<settled, connected, closedByUs, queueVars, closing, socket,
                   unsent, eoseTimer, known, toldVars>>

\* Mutation: fire() starts its timer only after the REQ was written.
OpenedAfterSend(s) ==
    /\ Settling(s) /\ settled[waits[s]] = "resolved"
    /\ sub' = [sub EXCEPT ![s] = "open"]
    /\ IF promise # 0 /\ settled[promise] = "resolved"
       THEN /\ socket' = [socket EXCEPT ![s] = attempts]
            /\ eoseTimer' = [eoseTimer EXCEPT ![s] = TRUE]
       ELSE UNCHANGED <<socket, eoseTimer>>
    /\ UNCHANGED <<linkVars, queueVars, waits, closing, unsent, known, toldVars>>

(* The promise resolved: relay.subscribe puts the subscription into openSubs,
   send() writes the REQ to relay.ws, waits for a newer promise, or throws
   because there is none (nobody awaits it), and the timer of fire() starts. *)
Opened(s) ==
    /\ Settling(s) /\ settled[waits[s]] = "resolved"
    /\ sub' = [sub EXCEPT ![s] = "open"]
    /\ eoseTimer' = [eoseTimer EXCEPT ![s] = TRUE]
    /\ \/ /\ promise = 0
          /\ UNCHANGED <<socket, unsent>>
       \/ /\ promise # 0 /\ settled[promise] = "resolved"
          /\ socket' = [socket EXCEPT ![s] = attempts]
          /\ UNCHANGED unsent
       \/ /\ promise # 0 /\ settled[promise] # "resolved"
          /\ unsent' = [unsent EXCEPT ![s] = promise]
          /\ UNCHANGED socket
    /\ UNCHANGED <<linkVars, queueVars, waits, closing, known, toldVars>>

(* The promise was rejected: handleClose with the reason. *)
Refused(s) ==
    /\ Settling(s) /\ settled[waits[s]] = "rejected"
    /\ sub' = [sub EXCEPT ![s] = "refused"]
    /\ TellClosed({s})
    /\ UNCHANGED <<linkVars, queueVars, waits, closing, socket, unsent, eoseTimer,
                   known, given, again>>

(* close() of the object subscribeMany returned: it awaits allOpened first. *)
CallClose(s) ==
    /\ MicrotasksDone
    /\ sub[s] \in {"opening", "open", "gone"} /\ ~closing[s]
    /\ closing' = [closing EXCEPT ![s] = TRUE]
    /\ UNCHANGED <<linkVars, queueVars, sub, waits, socket, unsent, eoseTimer,
                   known, toldVars>>

(* ... and then closes the subscriptions that were opened. *)
CloseOpened(s) ==
    /\ Leaving(s)
    /\ CloseSubs({s})
    /\ UNCHANGED <<linkVars, queueVars, waits, closing, socket, unsent,
                   eoseTimer, known, given, again>>

(* pool.close: closeAllSubscriptions, then the socket is closed; the promise
   and its timer are left as they are. *)
PoolClose ==
    /\ MicrotasksDone
    /\ ~closedByUs /\ attempts > 0
    /\ closedByUs' = TRUE
    /\ CloseSubs(OpenSubs)
    /\ connected' = FALSE
    /\ ws' = [ws EXCEPT ![attempts] = IF @ = "open" THEN "closed" ELSE @]
    /\ UNCHANGED <<attempts, promise, settled, timers, queueVars, waits, closing,
                   socket, unsent, eoseTimer, known, given, again>>

-----------------------------------------------------------------------------
(* The browser's callbacks. *)

Settle(a, outcome) ==
    settled' = [settled EXCEPT ![a] = IF @ = "pending" THEN outcome ELSE @]

(* The timer of connect(), which belongs to one attempt: from the third attempt on
   it may be an older one that nothing cleared, and drops the newer promise. *)
ConnectTimeout(a) ==
    /\ MicrotasksDone
    /\ a \in timers
    /\ timers' = timers \ {a}
    /\ Settle(a, "rejected")
    /\ promise' = 0
    /\ CloseSubs(OpenSubs)
    /\ UNCHANGED <<attempts, ws, connected, closedByUs, queueVars, waits,
                   closing, socket, unsent, eoseTimer, known, given, again>>

(* ws.onopen clears the timer of the last attempt, whichever socket opens.  A
   socket that close() was called on does not open. *)
SocketOpens(a) ==
    /\ MicrotasksDone
    /\ ws[a] = "connecting"
    /\ ~(closedByUs /\ a = attempts)
    /\ ws' = [ws EXCEPT ![a] = "open"]
    /\ timers' = timers \ {attempts}
    /\ connected' = TRUE
    /\ Settle(a, "resolved")
    /\ socket' = [s \in Subs |-> IF unsent[s] = a THEN attempts ELSE socket[s]]
    /\ unsent' = [s \in Subs |-> IF unsent[s] = a THEN 0 ELSE unsent[s]]
    /\ UNCHANGED <<attempts, promise, closedByUs, queueVars, sub, waits, closing,
                   eoseTimer, known, toldVars>>

(* ws.onerror, or ws.onclose of a socket that was open: whatever socket it
   is, a connected relay forgets its promise and closes every subscription. *)
SocketFails(a) ==
    /\ MicrotasksDone
    /\ ws[a] \in {"connecting", "open"}
    /\ ws' = [ws EXCEPT ![a] = "closed"]
    /\ Settle(a, "rejected")
    /\ \/ /\ connected
          /\ connected' = FALSE
          /\ promise' = 0
          /\ CloseSubs(OpenSubs)
       \/ /\ ~connected
          /\ UNCHANGED <<connected, promise, sub, eoses, closes>>
    /\ UNCHANGED <<attempts, timers, closedByUs, queueVars, waits, closing,
                   socket, unsent, eoseTimer, known, given, again>>

(* The timer of fire(): receivedEose, unless it was called; it also fires for a
   subscription that is gone, where the pool's handler does nothing any more. *)
EoseTimeout(s) ==
    /\ MicrotasksDone
    /\ eoseTimer[s]
    /\ eoseTimer' = [eoseTimer EXCEPT ![s] = FALSE]
    /\ TellEose(s)
    /\ UNCHANGED <<linkVars, queueVars, sub, waits, closing, socket, unsent,
                   known, closes, given, again>>

-----------------------------------------------------------------------------
(* Incoming messages. *)

\* Mutation: whether the id is known is not looked at.
HandleEventAgain(s, e, ids) ==
    LET gives == e \in Accepts[s] IN
    /\ known' = [known EXCEPT ![s] = @ \cup ids]
    /\ given' = [given EXCEPT ![s] = IF gives THEN @ \cup {e} ELSE @]
    /\ again' = [again EXCEPT ![s] = IF gives /\ e \in given[s] THEN @ \cup {e} ELSE @]
    /\ UNCHANGED <<sub, eoseTimer, eoses, closes>>

(* EVENT: the id that the scan finds counts as known before the frame is parsed
   and the signature is looked at; where it finds none, nothing is compared. *)
HandleEvent(s, e, ids) ==
    LET have == ids # {} /\ ids \subseteq known[s]
        gives == ~have /\ e \in Accepts[s]
    IN
    /\ known' = [known EXCEPT ![s] = @ \cup ids]
    /\ given' = [given EXCEPT ![s] = IF gives THEN @ \cup {e} ELSE @]
    /\ again' = [again EXCEPT ![s] = IF gives /\ e \in given[s] THEN @ \cup {e} ELSE @]
    /\ UNCHANGED <<sub, eoseTimer, eoses, closes>>

HandleEose(s) ==
    /\ eoseTimer' = [eoseTimer EXCEPT ![s] = FALSE]
    /\ TellEose(s)
    /\ UNCHANGED <<sub, known, closes, given, again>>

(* CLOSED: a reason that is the empty text does not count as one, and onclose is
   not called. *)
HandleClosed(s) ==
    /\ \/ CloseSubs({s})
       \/ sub' = [sub EXCEPT ![s] = "gone"] /\ TellEose(s) /\ UNCHANGED closes
    /\ UNCHANGED <<eoseTimer, known, given, again>>

(* handleNext: messages for a subscription that is not in openSubs are dropped. *)
Handle(m) ==
    /\ \/ /\ sub[m.sub] # "open"
          /\ UNCHANGED <<sub, eoseTimer, known, toldVars>>
       \/ /\ sub[m.sub] = "open"
          /\ \/ m.type = "EVENT" /\ HandleEvent(m.sub, m.event, m.ids)
             \/ m.type = "EOSE" /\ HandleEose(m.sub)
             \/ m.type = "CLOSED" /\ HandleClosed(m.sub)
    /\ UNCHANGED <<waits, closing, socket, unsent>>

(* One turn of the loop.  The text of an empty frame looks like the end of the
   queue, whatever waits behind it.  A binary frame is a Blob: the scan throws,
   outside the try of handleNext, runQueue rejects and queueRunning stays set. *)
Turn(messages) ==
    LET m == Head(messages) IN
    /\ queue' = Tail(messages)
    /\ running' = (m.type # "EMPTY")
    /\ stalled' = (m.type = "EMPTY")
    /\ thrown' = (m.type = "BINARY")
    /\ IF m.type \in {"EMPTY", "BINARY"} THEN UNCHANGED subVars ELSE Handle(m)

(* A relay answers what it was asked, on the socket it was asked on; a frame that
   is no message may come on any. *)
Arrives(m) ==
    \E a \in Attempts : /\ ws[a] = "open"
                        /\ m.type \notin {"EMPTY", "BINARY"} => socket[m.sub] = a

(* ws.onmessage: enqueue; when no loop runs, one is started, and its first turn
   takes a message before anything else happens. *)
Receive(m) ==
    /\ MicrotasksDone
    /\ Arrives(m)
    /\ Len(queue) < MaxQueue
    /\ \/ /\ running
          /\ queue' = Append(queue, m)
          /\ UNCHANGED <<running, stalled, thrown, subVars>>
       \/ ~running /\ Turn(Append(queue, m))
    /\ UNCHANGED linkVars

\* Mutation: the loop ends after one message.
RunQueueOnce ==
    /\ MicrotasksDone
    /\ running /\ ~thrown
    /\ running' = FALSE
    /\ queue' = IF queue = <<>> THEN queue ELSE Tail(queue)
    /\ UNCHANGED <<linkVars, stalled, thrown, subVars>>

(* runQueue after a yieldThread: the next message, or the end of the loop. *)
RunQueue ==
    /\ MicrotasksDone
    /\ running /\ ~thrown
    /\ \/ queue # <<>> /\ Turn(queue)
       \/ /\ queue = <<>>
          /\ running' = FALSE
          /\ UNCHANGED <<queue, stalled, thrown, subVars>>
    /\ UNCHANGED linkVars

-----------------------------------------------------------------------------
Next ==
    \/ \E s \in Subs : \/ Subscribe(s) \/ Opened(s) \/ Refused(s)
                       \/ CallClose(s) \/ CloseOpened(s) \/ EoseTimeout(s)
    \/ \E a \in Attempts : SocketOpens(a) \/ SocketFails(a) \/ ConnectTimeout(a)
    \/ PoolClose
    \/ \E m \in Frames : Receive(m)
    \/ RunQueue

(* Promises settle their continuations, timers fire, the browser ends every
   attempt to connect.  Relays owe nothing: they may never send a message. *)
Fairness ==
    /\ \A s \in Subs : WF_vars(Opened(s) \/ Refused(s) \/ CloseOpened(s))
                       /\ WF_vars(EoseTimeout(s))
    /\ \A a \in Attempts : WF_vars(ws[a] = "connecting"
                                   /\ (SocketOpens(a) \/ SocketFails(a)))
                           /\ WF_vars(ConnectTimeout(a))
    /\ WF_vars(RunQueue)

Spec == Init /\ [][Next]_vars /\ Fairness

-----------------------------------------------------------------------------
(* Properties. *)

(* No message is left in the queue without a loop that will take it: onmessage
   starts one only when none runs, and a loop ends only on an empty queue.  The
   exceptions are two frames that end it with messages behind them: after an empty
   one these wait until the relay sends another; after a binary one queueRunning
   stays set with no loop, and what the relay sends from then on is never taken. *)
QueueIsServed == queue # <<>> => (running /\ ~thrown) \/ stalled \/ thrown

(* The state is well formed, and the queue is served. *)
Consistency == TypeOK /\ QueueIsServed

(* A subscription that is open and has not been told that stored events are
   over still has a timer that will tell it: a relay that never answers, or to
   which the REQ was never written, cannot keep the page waiting. *)
SilenceIsTimed ==
    \A s \in Subs : sub[s] = "open" /\ eoses[s] = 0 => eoseTimer[s]

(* A call that still waits for its connection waits for a socket the browser
   will open or give up: no later attempt, timeout or failure of another socket
   takes the promise away without settling it. *)
WaitingIsForASocket ==
    \A s \in Subs : sub[s] = "opening" /\ settled[waits[s]] = "pending"
                    => ws[waits[s]] = "connecting"

(* Whatever a query waits for comes to an end without the relay's help. *)
WaitingEnds == SilenceIsTimed /\ WaitingIsForASocket

(* RelayQuery has no phase in which the page was told twice. *)
ToldTwice(s) == eoses[s] > 1 \/ closes[s] > 1
phase == [s \in Subs |->
            CASE ToldTwice(s) -> "repeated"
              [] ~ToldTwice(s) /\ closes[s] # 0 -> "closed"
              [] ~ToldTwice(s) /\ closes[s] = 0 /\ eoses[s] # 0 -> "live"
              [] ~ToldTwice(s) /\ closes[s] = 0 /\ eoses[s] = 0 ->
                   IF sub[s] = "unused" THEN "idle" ELSE "asked"]

(* What the marketplace sees of a relay is a query as RelayQuery describes it:
   each event once, unless a frame disguised it, and none after the end; oneose
   once and before the end, onclose once; and an answer of some kind in the end. *)
Query == INSTANCE RelayQuery
ImplementsRelayQuery == Query!QuerySpec
=============================================================================
