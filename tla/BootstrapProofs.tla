--------------------------- MODULE BootstrapProofs ---------------------------
(***************************************************************************)
(* Proofs about Bootstrap, for any number of requests and configurations.  *)
(*                                                                         *)
(* ServerInv counts the notifications that are on their way against the    *)
(* set-up requests that have succeeded.  DataInv says what a request has   *)
(* achieved when it reaches a step, from which it follows that a database  *)
(* that is marked as initialized is complete.                              *)
(***************************************************************************)
EXTENDS Bootstrap, TLAPS

-----------------------------------------------------------------------------
(* The inductive invariants *)

\* Steps at which a request uses the identity, has chosen a configuration, and
\* knows that a relay keeps one.
Keyed == Steps \ {"seed", "validate", "install"}

Carrying == {"publish", "acknowledge", "store", "instance", "revision", "mark", "write"}

Backed == Carrying \ {"publish"}

\* What a request has achieved when it is at its step.
Knows(r) ==
    r # NoRequest =>
        /\ r.step \in Keyed => seed # "none"
        /\ r.step \in Carrying => r.eid \in DOMAIN confs
        /\ r.step = "publish" => confs[r.eid].seed = seed
        /\ r.step \in Backed => held[seed] # 0
        /\ r.step \in {"revision", "mark"} => db.instance # 0
        /\ r.step = "mark" => db.rev # 0

\* The file, the database and the relays.
TablesOK ==
    /\ seed \in Seeds \cup {"none"}
    /\ confs \in Seq(Configuration) /\ Len(confs) <= MaxConfs
    /\ outbox \in [Ids -> {"none", "due", "acknowledged"}]
    /\ db \in Database
    /\ held \in [Seeds -> Ids \cup {0}]
    /\ \A e \in DOMAIN confs : confs[e].rev # 0
    /\ \A e \in Ids : outbox[e] # "none" => e \in DOMAIN confs
    /\ \A s \in Seeds : held[s] # 0 => held[s] \in DOMAIN confs
    /\ db.initialized => seed # "none" /\ db.instance # 0 /\ db.rev # 0 /\ held[seed] # 0
    /\ db.tables # 0 => db.initialized

ServerOK ==
    /\ mode \in {"setup", "draining", "normal", "stopped"}
    /\ permit \in BOOLEAN
    /\ timers \in Nat
    /\ succeeded \in Nat
    /\ mode = "normal" => db.initialized

DataInv ==
    /\ TablesOK
    /\ request \in [Requests -> Request \cup {NoRequest}]
    /\ \A q \in Requests : Knows(request[q])
    /\ ServerOK

LEMMA DataType == DataInv => TypeOK
  BY DEF DataInv, TablesOK, ServerOK, TypeOK

\* What is there stays there.
Grows ==
    /\ seed # "none" => seed' = seed
    /\ \A e \in DOMAIN confs : e \in DOMAIN confs' /\ confs'[e] = confs[e]
    /\ \A s \in Seeds : held[s] # 0 => held'[s] # 0
    /\ db.instance # 0 => db'.instance # 0
    /\ db.rev # 0 => db'.rev # 0

LEMMA KnowsStable ==
    ASSUME DataInv, Grows, NEW r \in Request \cup {NoRequest}, Knows(r)
    PROVE  Knows(r)'
<1> SUFFICES ASSUME r # NoRequest PROVE Knows(r)'
  BY DEF Knows
<1>1. seed \in Seeds \cup {"none"}
  BY DEF DataInv, TablesOK
<1>2. r.step \in Keyed => seed # "none" /\ seed' = seed
  BY DEF Knows, Grows
<1>3. Carrying \subseteq Keyed /\ Backed \subseteq Keyed
  BY DEF Carrying, Backed, Keyed, Steps
<1>4. r.step \in Carrying => /\ r.eid \in DOMAIN confs'
                             /\ confs'[r.eid] = confs[r.eid]
  BY DEF Knows, Grows
<1>5. r.step = "publish" => confs'[r.eid].seed = seed'
  <2>1. "publish" \in Carrying
    BY DEF Carrying
  <2>2. QED
    BY <1>2, <1>3, <1>4, <2>1 DEF Knows
<1>6. r.step \in Backed => held'[seed'] # 0
  <2>1. r.step \in Backed => seed \in Seeds /\ held[seed] # 0
    BY <1>1, <1>2, <1>3 DEF Knows
  <2>2. QED
    BY <1>2, <1>3, <2>1 DEF Grows
<1>7. /\ r.step \in {"revision", "mark"} => db'.instance # 0
      /\ r.step = "mark" => db'.rev # 0
  BY DEF Knows, Grows
<1>8. r.step \in Keyed => seed' # "none"
  BY <1>2
<1>9. QED
  BY <1>4, <1>5, <1>6, <1>7, <1>8 DEF Knows

\* One request moves.
LEMMA MoveInv ==
    ASSUME DataInv, Grows, TablesOK', ServerOK',
           NEW q \in Requests, NEW x \in Request \cup {NoRequest},
           request' = [request EXCEPT ![q] = x], Knows(x)'
    PROVE  DataInv'
<1>1. request' \in [Requests -> Request \cup {NoRequest}]
  BY DEF DataInv
<1>2. ASSUME NEW p \in Requests PROVE Knows(request[p])'
  <2>1. CASE p = q
    <3>1. request'[p] = x
      BY <2>1 DEF DataInv
    <3>2. QED
      BY <3>1 DEF Knows
  <2>2. CASE p # q
    <3>1. request'[p] = request[p] /\ request[p] \in Request \cup {NoRequest}
      BY <2>2 DEF DataInv
    <3>2. Knows(request[p])
      BY DEF DataInv
    <3>3. QED
      BY <3>1, <3>2, KnowsStable DEF Knows
  <2>3. QED
    BY <2>1, <2>2
<1>3. QED
  BY <1>1, <1>2 DEF DataInv

\* One request moves and nothing else does.
LEMMA MoveAloneInv ==
    ASSUME DataInv, UNCHANGED <<seed, confs, outbox, db, held, serverVars>>,
           NEW q \in Requests, NEW x \in Request \cup {NoRequest},
           request' = [request EXCEPT ![q] = x], Knows(x)
    PROVE  DataInv'
<1>1. Grows
  BY DEF Grows
<1>2. TablesOK' /\ ServerOK'
  BY DEF DataInv, TablesOK, ServerOK, serverVars
<1>3. Knows(x)'
  BY DEF Knows
<1>4. QED
  BY <1>1, <1>2, <1>3, MoveInv

-----------------------------------------------------------------------------
(* Where a request goes *)

\* The next record of a request, which is dropped if nobody waits for it.
LEMMA GoToFacts ==
    ASSUME DataInv, NEW q \in Requests, request[q] \in Request, NEW step \in Steps,
           GoTo(q, step)
    PROVE  \E x \in Request \cup {NoRequest} :
               /\ request' = [request EXCEPT ![q] = x]
               /\ x # NoRequest => x.step = step /\ x.eid = request[q].eid
<1> DEFINE x == IF request[q].live THEN [request[q] EXCEPT !.step = step] ELSE NoRequest
<1>1. request' = [request EXCEPT ![q] = x]
  BY DEF DataInv, GoTo
<1>2. x \in Request \cup {NoRequest}
  BY DEF Request
<1>3. x # NoRequest => x.step = step /\ x.eid = request[q].eid
  BY DEF Request
<1>4. QED
  BY <1>1, <1>2, <1>3

LEMMA AtFacts ==
    ASSUME DataInv, NEW q \in Requests, NEW step \in Steps, At(q, step)
    PROVE  /\ request[q] # NoRequest
           /\ request[q] \in Request
           /\ request[q].step = step
           /\ Knows(request[q])
<1>1. step # "none"
  BY DEF Steps
<1>2. request[q] # NoRequest
  BY <1>1 DEF At, NoRequest
<1>3. QED
  BY <1>2 DEF DataInv, At

LEMMA StoredFacts ==
    ASSUME TablesOK, NEW e \in DOMAIN confs
    PROVE  /\ Stored(e) \in [Seeds -> Ids \cup {0}]
           /\ Stored(e)[confs[e].seed] # 0
           /\ \A s \in Seeds : held[s] # 0 => Stored(e)[s] # 0
           /\ \A s \in Seeds : Stored(e)[s] \in {held[s], e}
<1>1. confs[e] \in Configuration /\ e \in Nat \ {0} /\ e \in Ids
  BY BootstrapAssumption DEF TablesOK, Ids
<1>2. confs[e].seed \in Seeds
  BY <1>1 DEF Configuration
<1>3. held \in [Seeds -> Ids \cup {0}] /\ \A s \in Seeds : held[s] \in Nat
  BY BootstrapAssumption DEF TablesOK, Ids
<1>4. \A s \in Seeds :
          Stored(e)[s] = IF s = confs[e].seed /\ e > held[s] THEN e ELSE held[s]
  BY <1>1, <1>2, <1>3 DEF Stored
<1>5. Stored(e) \in [Seeds -> Ids \cup {0}]
  BY <1>1, <1>2, <1>3 DEF Stored
<1>6. QED
  BY <1>1, <1>2, <1>3, <1>4, <1>5

-----------------------------------------------------------------------------
(* Requests *)

LEMMA NothingKnown == Knows(NoRequest)
  BY DEF Knows

LEMMA BeginInv ==
    ASSUME DataInv, NEW q \in Requests, NEW kind \in {"fresh", "recover"},
           NEW via \in {"page", "command"}, Begin(q, kind, via)
    PROVE  DataInv'
<1> DEFINE x == [kind |-> kind, via |-> via, eid |-> 0, live |-> TRUE,
                 step |-> IF kind = "recover" /\ via = "page" THEN "validate" ELSE "seed"]
<1>1. x \in Request /\ x.step \in {"validate", "seed"}
  BY DEF Request, Steps
<1>2. /\ request' = [request EXCEPT ![q] = x]
      /\ UNCHANGED <<seed, confs, outbox, db, held, serverVars>>
  BY DEF Begin
<1> HIDE DEF x
<1>3. Knows(x)
  BY <1>1 DEF Knows, Keyed, Carrying, Backed
<1>4. QED
  BY <1>1, <1>2, <1>3, MoveAloneInv

LEMMA AbandonInv ==
    ASSUME DataInv, NEW q \in Requests, Abandon(q)
    PROVE  DataInv'
  BY NothingKnown, MoveAloneInv DEF Abandon

LEMMA HangUpInv ==
    ASSUME DataInv, NEW q \in Requests, HangUp(q)
    PROVE  DataInv'
<1> DEFINE x == [request[q] EXCEPT !.live = FALSE]
<1>1. /\ request' = [request EXCEPT ![q] = x]
      /\ UNCHANGED <<seed, confs, outbox, db, held, serverVars>>
  BY DEF HangUp
<1>2. request[q] # NoRequest
  <2>1. "none" \notin Transactions
    BY DEF Transactions
  <2>2. QED
    BY <2>1 DEF HangUp, NoRequest
<1>3. request[q] \in Request /\ Knows(request[q])
  BY <1>2 DEF DataInv
<1>4. x \in Request /\ x.step = request[q].step /\ x.eid = request[q].eid
  BY <1>3 DEF Request
<1> HIDE DEF x
<1>5. Knows(x)
  BY <1>2, <1>3, <1>4 DEF Knows
<1>6. QED
  BY <1>1, <1>4, <1>5, MoveAloneInv

\* The file is written once.
LEMMA SeedInv ==
    ASSUME DataInv, NEW q \in Requests, At(q, "seed") \/ At(q, "install"),
           seed' \in Seeds, seed # "none" => seed' = seed, GoTo(q, "check"),
           UNCHANGED <<confs, outbox, db, held, serverVars>>
    PROVE  DataInv'
<1>1. "seed" \in Steps /\ "install" \in Steps /\ "check" \in Steps
  BY DEF Steps
<1>2. request[q] \in Request
  BY <1>1, AtFacts
<1>3. Grows
  BY DEF Grows
<1>4. seed' # "none"
  BY DEF Seeds
<1>5. TablesOK' /\ ServerOK'
  BY <1>4 DEF DataInv, TablesOK, ServerOK, serverVars
<1>6. PICK x \in Request \cup {NoRequest} :
          request' = [request EXCEPT ![q] = x] /\ (x # NoRequest => x.step = "check")
  BY <1>1, <1>2, GoToFacts
<1>7. Knows(x)'
  BY <1>4, <1>6 DEF Knows, Carrying, Backed
<1>8. QED
  BY <1>3, <1>5, <1>6, <1>7, MoveInv

LEMMA LoadSeedInv ==
    ASSUME DataInv, NEW q \in Requests, LoadSeed(q)
    PROVE  DataInv'
  BY SeedInv DEF LoadSeed, Seeds, DataInv, TablesOK

LEMMA InstallSeedInv ==
    ASSUME DataInv, NEW q \in Requests, InstallSeed(q)
    PROVE  DataInv'
  BY SeedInv DEF InstallSeed, Seeds, DataInv, TablesOK

LEMMA ValidateInv ==
    ASSUME DataInv, NEW q \in Requests, Validate(q)
    PROVE  DataInv'
<1>1. "validate" \in Steps /\ "install" \in Steps
  BY DEF Steps
<1>2. request[q] \in Request
  BY <1>1, AtFacts DEF Validate
<1>3. PICK x \in Request \cup {NoRequest} :
          request' = [request EXCEPT ![q] = x] /\ (x # NoRequest => x.step = "install")
  BY <1>1, <1>2, GoToFacts DEF Validate
<1>4. Knows(x)
  BY <1>3 DEF Knows, Keyed, Carrying, Backed
<1>5. QED
  BY <1>3, <1>4, MoveAloneInv DEF Validate

LEMMA CheckInv ==
    ASSUME DataInv, NEW q \in Requests, Check(q)
    PROVE  DataInv'
<1> DEFINE step == IF request[q].kind = "fresh" THEN "enqueue" ELSE "fetch"
<1>1. "check" \in Keyed /\ "check" \in Steps /\ step \in Steps /\ step \in {"enqueue", "fetch"}
  BY DEF Keyed, Steps
<1>2. request[q] # NoRequest /\ request[q] \in Request /\ seed # "none"
  BY <1>1, AtFacts DEF Check, Knows
<1>3. GoTo(q, step) /\ UNCHANGED <<seed, confs, outbox, db, held, serverVars>>
  BY DEF Check
<1> HIDE DEF step
<1>4. PICK x \in Request \cup {NoRequest} :
          request' = [request EXCEPT ![q] = x] /\ (x # NoRequest => x.step = step)
  BY <1>1, <1>2, <1>3, GoToFacts
<1>5. Knows(x)
  BY <1>1, <1>2, <1>4 DEF Knows, Carrying, Backed
<1>6. QED
  BY <1>3, <1>4, <1>5, MoveAloneInv

-----------------------------------------------------------------------------
(* initialize_empty *)

LEMMA CarriesFacts ==
    ASSUME DataInv, NEW q \in Requests, NEW step \in Carrying, At(q, step)
    PROVE  /\ request[q] \in Request
           /\ request[q].eid \in DOMAIN confs
           /\ request[q].eid \in Ids /\ request[q].eid # 0
           /\ confs[request[q].eid].rev \in Nat \ {0}
           /\ seed \in Seeds
           /\ step \in Backed => held[seed] # 0
           /\ step = "publish" => confs[request[q].eid].seed = seed
           /\ step \in {"revision", "mark"} => db.instance # 0
           /\ step = "mark" => db.rev # 0
<1>1. step \in Steps /\ step \in Keyed
  BY DEF Carrying, Keyed, Steps
<1>2. /\ request[q] # NoRequest /\ request[q] \in Request
      /\ request[q].step = step /\ Knows(request[q])
  BY <1>1, AtFacts
<1>3. request[q].eid \in DOMAIN confs /\ seed # "none"
  BY <1>1, <1>2 DEF Knows
<1>4. /\ confs \in Seq(Configuration) /\ Len(confs) <= MaxConfs /\ seed \in Seeds \cup {"none"}
      /\ \A e \in DOMAIN confs : confs[e].rev # 0
  BY DEF DataInv, TablesOK
<1>5. request[q].eid \in Ids /\ request[q].eid # 0 /\ confs[request[q].eid] \in Configuration
  BY <1>3, <1>4, BootstrapAssumption DEF Ids
<1>6. confs[request[q].eid].rev \in Nat \ {0}
  BY <1>3, <1>4, <1>5 DEF Configuration
<1>7. QED
  BY <1>2, <1>3, <1>4, <1>5, <1>6 DEF Knows

LEMMA EnqueueInv ==
    ASSUME DataInv, NEW q \in Requests, Enqueue(q)
    PROVE  DataInv'
<1> DEFINE c == [seed |-> seed, rev |-> 1]
<1>1. "enqueue" \in Keyed /\ "enqueue" \in Steps /\ "publish" \in Steps
  BY DEF Keyed, Steps
<1>2. request[q] \in Request /\ seed \in Seeds
  BY <1>1, AtFacts DEF Enqueue, Knows, DataInv, TablesOK
<1>3. /\ confs \in Seq(Configuration) /\ Len(confs) <= MaxConfs
      /\ outbox \in [Ids -> {"none", "due", "acknowledged"}]
      /\ NextId \in Ids /\ NextId = Len(confs) + 1
      /\ confs' = Append(confs, c)
      /\ outbox' = [outbox EXCEPT ![NextId] = "due"]
      /\ UNCHANGED <<seed, db, held, serverVars>>
  BY DEF Enqueue, DataInv, TablesOK, NextId
<1>4. c \in Configuration /\ c.seed = seed /\ c.rev # 0
  BY <1>2 DEF Configuration
<1> HIDE DEF c
<1>5. /\ confs' \in Seq(Configuration) /\ Len(confs') <= MaxConfs
      /\ DOMAIN confs' = DOMAIN confs \cup {NextId}
      /\ \A e \in DOMAIN confs : confs'[e] = confs[e]
      /\ confs'[NextId] = c
  BY <1>3, <1>4, BootstrapAssumption DEF Ids
<1>6. Grows
  BY <1>3, <1>5 DEF Grows
<1>7. TablesOK'
  <2>1. outbox' \in [Ids -> {"none", "due", "acknowledged"}]
    BY <1>3
  <2>2. \A e \in Ids : outbox'[e] # "none" => e \in DOMAIN confs'
    BY <1>3, <1>5 DEF DataInv, TablesOK
  <2>3. \A e \in DOMAIN confs' : confs'[e].rev # 0
    BY <1>4, <1>5 DEF DataInv, TablesOK
  <2>4. QED
    BY <1>3, <1>5, <2>1, <2>2, <2>3 DEF DataInv, TablesOK
<1>8. ServerOK'
  BY <1>3 DEF DataInv, ServerOK, serverVars
<1>9. PICK x \in Request \cup {NoRequest} :
          /\ request' = [request EXCEPT ![q] = x]
          /\ x # NoRequest => x.step = "publish" /\ x.eid = NextId
  <2> DEFINE y == IF request[q].live
                  THEN [request[q] EXCEPT !.step = "publish", !.eid = NextId] ELSE NoRequest
  <2>1. request' = [request EXCEPT ![q] = y]
    BY DEF Enqueue, DataInv
  <2>2. /\ y \in Request \cup {NoRequest}
        /\ y # NoRequest => y.step = "publish" /\ y.eid = NextId
    BY <1>1, <1>2, <1>3 DEF Request
  <2>3. QED
    BY <2>1, <2>2
<1>10. Knows(x)'
  BY <1>2, <1>3, <1>4, <1>5, <1>9 DEF Knows, Backed, Seeds
<1>11. QED
  BY <1>6, <1>7, <1>8, <1>9, <1>10, MoveInv

\* Relays take a configuration.
LEMMA StoredInv ==
    ASSUME DataInv, NEW e \in DOMAIN confs, held' = Stored(e),
           outbox' \in [Ids -> {"none", "due", "acknowledged"}],
           \A f \in Ids : outbox'[f] # "none" => outbox[f] # "none",
           UNCHANGED <<seed, confs, db>>
    PROVE  Grows /\ TablesOK'
<1>1. /\ held' \in [Seeds -> Ids \cup {0}]
      /\ \A s \in Seeds : held[s] # 0 => held'[s] # 0
      /\ \A s \in Seeds : held'[s] \in {held[s], e}
  BY StoredFacts DEF DataInv
<1>2. Grows
  BY <1>1 DEF Grows
<1>3. \A s \in Seeds : held'[s] # 0 => held'[s] \in DOMAIN confs
  BY <1>1 DEF DataInv, TablesOK
<1>4. db.initialized => held'[seed] # 0
  BY <1>1 DEF DataInv, TablesOK
<1>5. TablesOK'
  BY <1>1, <1>3, <1>4 DEF DataInv, TablesOK
<1>6. QED
  BY <1>2, <1>5

LEMMA PublishInv ==
    ASSUME DataInv, NEW q \in Requests, Publish(q)
    PROVE  DataInv'
<1> DEFINE e == request[q].eid
<1>1. "publish" \in Carrying /\ "acknowledge" \in Steps
  BY DEF Carrying, Steps
<1>2. request[q] \in Request /\ e \in DOMAIN confs /\ confs[e].seed = seed /\ seed \in Seeds
  BY <1>1, CarriesFacts DEF Publish
<1>3. held' = Stored(e) /\ UNCHANGED <<seed, confs, outbox, db, serverVars>>
  BY DEF Publish
<1>4. outbox' \in [Ids -> {"none", "due", "acknowledged"}]
  BY <1>3 DEF DataInv, TablesOK
<1>5. Grows /\ TablesOK'
  BY <1>2, <1>3, <1>4, StoredInv
<1>6. ServerOK'
  BY <1>3 DEF DataInv, ServerOK, serverVars
<1>7. held'[seed'] # 0
  BY <1>2, <1>3, StoredFacts DEF DataInv
<1>8. PICK x \in Request \cup {NoRequest} :
          /\ request' = [request EXCEPT ![q] = x]
          /\ x # NoRequest => x.step = "acknowledge" /\ x.eid = e
  <2>1. CASE GoTo(q, "acknowledge")
    BY <1>1, <1>2, <2>1, GoToFacts
  <2>2. CASE request' = [request EXCEPT ![q] = NoRequest]
    BY <2>2
  <2>3. QED
    BY <2>1, <2>2 DEF Publish
<1>9. Knows(x)'
  BY <1>2, <1>3, <1>7, <1>8 DEF Knows, Seeds
<1>10. QED
  BY <1>5, <1>6, <1>8, <1>9, MoveInv

LEMMA AcknowledgeInv ==
    ASSUME DataInv, NEW q \in Requests, Acknowledge(q)
    PROVE  DataInv'
<1> DEFINE e == request[q].eid
<1>1. /\ "acknowledge" \in Carrying /\ "acknowledge" \in Backed
      /\ "store" \in Steps
  BY DEF Carrying, Backed, Steps
<1>2. /\ request[q] \in Request /\ e \in DOMAIN confs /\ e \in Ids
      /\ seed \in Seeds /\ held[seed] # 0
  BY <1>1, CarriesFacts DEF Acknowledge
<1>3. /\ outbox' = [outbox EXCEPT ![e] = "acknowledged"]
      /\ UNCHANGED <<seed, confs, db, held, serverVars>>
  BY DEF Acknowledge
<1>4. Grows
  BY <1>3 DEF Grows
<1>5. TablesOK'
  BY <1>2, <1>3 DEF DataInv, TablesOK
<1>6. ServerOK'
  BY <1>3 DEF DataInv, ServerOK, serverVars
<1>7. PICK x \in Request \cup {NoRequest} :
          /\ request' = [request EXCEPT ![q] = x]
          /\ x # NoRequest => x.step = "store" /\ x.eid = e
  BY <1>1, <1>2, GoToFacts DEF Acknowledge
<1>8. Knows(x)'
  BY <1>2, <1>3, <1>7 DEF Knows, Seeds
<1>9. QED
  BY <1>4, <1>5, <1>6, <1>7, <1>8, MoveInv

\* A column of the database that is set before the mark.
LEMMA ColumnInv ==
    ASSUME DataInv, UNCHANGED <<seed, confs, outbox, held, serverVars>>,
           db' \in Database,
           db.instance # 0 => db'.instance # 0,
           db.rev # 0 => db'.rev # 0,
           db'.initialized = db.initialized, db'.tables = db.tables
    PROVE  Grows /\ TablesOK' /\ ServerOK'
  BY DEF Grows, DataInv, TablesOK, ServerOK, serverVars

LEMMA StoreBackupInv ==
    ASSUME DataInv, NEW q \in Requests, StoreBackup(q)
    PROVE  DataInv'
<1> DEFINE e == request[q].eid
<1>1. /\ "store" \in Carrying /\ "store" \in Backed /\ "instance" \in Steps
  BY DEF Carrying, Backed, Steps
<1>2. /\ request[q] \in Request /\ e \in DOMAIN confs /\ e \in Ids
      /\ seed \in Seeds /\ held[seed] # 0
  BY <1>1, CarriesFacts DEF StoreBackup
<1>3. db \in Database
  BY DEF DataInv, TablesOK
<1>4. /\ db' = [db EXCEPT !.backup = e]
      /\ UNCHANGED <<seed, confs, outbox, held, serverVars>>
  BY DEF StoreBackup
<1>5. Grows /\ TablesOK' /\ ServerOK'
  BY <1>2, <1>3, <1>4, ColumnInv DEF Database
<1>6. PICK x \in Request \cup {NoRequest} :
          /\ request' = [request EXCEPT ![q] = x]
          /\ x # NoRequest => x.step = "instance" /\ x.eid = e
  BY <1>1, <1>2, GoToFacts DEF StoreBackup
<1>7. Knows(x)'
  BY <1>2, <1>4, <1>6 DEF Knows, Seeds
<1>8. QED
  BY <1>5, <1>6, <1>7, MoveInv

LEMMA SetInstanceInv ==
    ASSUME DataInv, NEW q \in Requests, SetInstance(q)
    PROVE  DataInv'
<1> DEFINE e == request[q].eid
<1>1. /\ "instance" \in Carrying /\ "instance" \in Backed /\ "revision" \in Steps
  BY DEF Carrying, Backed, Steps
<1>2. /\ request[q] \in Request /\ e \in DOMAIN confs /\ e \in Ids /\ e # 0
      /\ seed \in Seeds /\ held[seed] # 0
  BY <1>1, CarriesFacts DEF SetInstance
<1>3. db \in Database
  BY DEF DataInv, TablesOK
<1>4. /\ db' = [db EXCEPT !.instance = e]
      /\ UNCHANGED <<seed, confs, outbox, held, serverVars>>
  BY DEF SetInstance
<1>5. db' \in Database /\ db'.instance = e
  BY <1>2, <1>3, <1>4 DEF Database
<1>6. Grows /\ TablesOK' /\ ServerOK'
  BY <1>2, <1>3, <1>4, <1>5, ColumnInv DEF Database
<1>7. PICK x \in Request \cup {NoRequest} :
          /\ request' = [request EXCEPT ![q] = x]
          /\ x # NoRequest => x.step = "revision" /\ x.eid = e
  BY <1>1, <1>2, GoToFacts DEF SetInstance
<1>8. Knows(x)'
  BY <1>2, <1>4, <1>5, <1>7 DEF Knows, Seeds
<1>9. QED
  BY <1>6, <1>7, <1>8, MoveInv

LEMMA SetRevisionInv ==
    ASSUME DataInv, NEW q \in Requests, SetRevision(q)
    PROVE  DataInv'
<1> DEFINE e == request[q].eid
<1>1. /\ "revision" \in Carrying /\ "revision" \in Backed /\ "mark" \in Steps
  BY DEF Carrying, Backed, Steps
<1>2. /\ request[q] \in Request /\ e \in DOMAIN confs
      /\ seed \in Seeds /\ held[seed] # 0 /\ db.instance # 0
  BY <1>1, CarriesFacts DEF SetRevision
<1>3. db \in Database
  BY DEF DataInv, TablesOK
<1>4. /\ db' = [db EXCEPT !.rev = 1]
      /\ UNCHANGED <<seed, confs, outbox, held, serverVars>>
  BY DEF SetRevision
<1>5. db' \in Database /\ db'.rev = 1 /\ db'.instance = db.instance
  BY <1>3, <1>4 DEF Database
<1>6. Grows /\ TablesOK' /\ ServerOK'
  BY <1>3, <1>4, <1>5, ColumnInv DEF Database
<1>7. PICK x \in Request \cup {NoRequest} :
          /\ request' = [request EXCEPT ![q] = x]
          /\ x # NoRequest => x.step = "mark" /\ x.eid = e
  BY <1>1, <1>2, GoToFacts DEF SetRevision
<1>8. Knows(x)'
  BY <1>2, <1>4, <1>5, <1>7 DEF Knows, Seeds
<1>9. QED
  BY <1>6, <1>7, <1>8, MoveInv

\* The database is marked, and the request ends.
LEMMA SucceedInv ==
    ASSUME DataInv, NEW q \in Requests, Succeed(q),
           UNCHANGED <<seed, confs, outbox, held>>,
           db' \in Database, db'.initialized,
           seed # "none", held[seed] # 0, db'.instance # 0, db'.rev # 0
    PROVE  DataInv'
<1>1. Grows /\ TablesOK'
  BY DEF Grows, DataInv, TablesOK
<1>2. ServerOK'
  BY DEF Succeed, DataInv, ServerOK
<1>3. Knows(NoRequest)'
  BY DEF Knows
<1>4. QED
  BY <1>1, <1>2, <1>3, MoveInv DEF Succeed

LEMMA MarkInitializedInv ==
    ASSUME DataInv, NEW q \in Requests, MarkInitialized(q)
    PROVE  DataInv'
<1>1. "mark" \in Carrying /\ "mark" \in Backed
  BY DEF Carrying, Backed
<1>2. seed \in Seeds /\ held[seed] # 0 /\ db.instance # 0 /\ db.rev # 0
  BY <1>1, CarriesFacts DEF MarkInitialized
<1>3. db \in Database
  BY DEF DataInv, TablesOK
<1>4. /\ db' = [db EXCEPT !.initialized = TRUE]
      /\ UNCHANGED <<seed, confs, outbox, held>> /\ Succeed(q)
  BY DEF MarkInitialized
<1>5. /\ db' \in Database /\ db'.initialized
      /\ db'.instance = db.instance /\ db'.rev = db.rev
  BY <1>3, <1>4 DEF Database
<1>6. QED
  BY <1>2, <1>4, <1>5, SucceedInv DEF Seeds

-----------------------------------------------------------------------------
(* restore *)

LEMMA FetchInv ==
    ASSUME DataInv, NEW q \in Requests, Fetch(q)
    PROVE  DataInv'
<1>1. "fetch" \in Keyed /\ "fetch" \in Steps
  BY DEF Keyed, Steps
<1>2. request[q] \in Request /\ seed \in Seeds
  BY <1>1, AtFacts DEF Fetch, Knows, DataInv, TablesOK
<1>3. held[seed] # 0 /\ held[seed] \in DOMAIN confs /\ held[seed] \in Ids
  BY <1>2 DEF Fetch, DataInv, TablesOK
<1>4. PICK x \in Request :
          /\ request' = [request EXCEPT ![q] = x]
          /\ x.step = "write" /\ x.eid = held[seed]
  <2> DEFINE y == [request[q] EXCEPT !.step = "write", !.eid = held[seed]]
  <2>1. y \in Request /\ y.step = "write" /\ y.eid = held[seed]
    BY <1>2, <1>3 DEF Request, Steps
  <2>2. request' = [request EXCEPT ![q] = y]
    BY DEF Fetch, DataInv
  <2> HIDE DEF y
  <2>3. QED
    BY <2>1, <2>2
<1>5. Knows(x)
  BY <1>2, <1>3, <1>4 DEF Knows, Seeds
<1>6. QED
  BY <1>4, <1>5, MoveAloneInv DEF Fetch

LEMMA WriteInv ==
    ASSUME DataInv, NEW q \in Requests, Write(q)
    PROVE  DataInv'
<1> DEFINE e == request[q].eid
<1>1. "write" \in Carrying /\ "write" \in Backed
  BY DEF Carrying, Backed
<1>2. /\ e \in Ids /\ e # 0 /\ confs[e].rev \in Nat \ {0}
      /\ seed \in Seeds /\ held[seed] # 0
  BY <1>1, CarriesFacts DEF Write
<1>3. /\ db' = [initialized |-> TRUE, instance |-> e, rev |-> confs[e].rev,
                tables |-> e, backup |-> e]
      /\ UNCHANGED <<seed, confs, outbox, held>> /\ Succeed(q)
  BY DEF Write
<1>4. /\ db' \in Database /\ db'.initialized
      /\ db'.instance # 0 /\ db'.rev # 0
  BY <1>2, <1>3 DEF Database
<1>5. QED
  BY <1>2, <1>3, <1>4, SucceedInv DEF Seeds

-----------------------------------------------------------------------------
(* The server *)

\* Requests stay as they are or end; the database is not touched.
LEMMA ServerMoveInv ==
    ASSUME DataInv, ServerOK', UNCHANGED <<seed, confs, outbox, db, held>>,
           request' \in [Requests -> Request \cup {NoRequest}],
           \A q \in Requests : request'[q] \in {request[q], NoRequest}
    PROVE  DataInv'
<1>1. TablesOK'
  BY DEF DataInv, TablesOK
<1>2. ASSUME NEW q \in Requests PROVE Knows(request[q])'
  <2>1. CASE request'[q] = NoRequest
    BY <2>1 DEF Knows
  <2>2. CASE request'[q] = request[q]
    BY <2>2 DEF Knows, DataInv
  <2>3. QED
    BY <2>1, <2>2
<1>3. QED
  BY <1>1, <1>2 DEF DataInv

LEMMA NotifyRestartInv ==
    ASSUME DataInv, NotifyRestart PROVE DataInv'
<1>1. ServerOK'
  BY DEF NotifyRestart, DataInv, ServerOK
<1>2. QED
  BY <1>1, ServerMoveInv DEF NotifyRestart, DataInv

LEMMA ShutdownInv ==
    ASSUME DataInv, Shutdown PROVE DataInv'
<1>1. ServerOK'
  BY DEF Shutdown, DataInv, ServerOK
<1>2. QED
  BY <1>1, ServerMoveInv DEF Shutdown, DataInv

LEMMA SwitchInv ==
    ASSUME DataInv, Switch PROVE DataInv'
<1>1. ServerOK'
  BY DEF Switch, DataInv, ServerOK
<1>2. QED
  BY <1>1, ServerMoveInv DEF Switch, DataInv

LEMMA RestartInv ==
    ASSUME DataInv, Restart PROVE DataInv'
<1>1. ServerOK'
  BY DEF Restart, DataInv, ServerOK
<1>2. /\ request' \in [Requests -> Request \cup {NoRequest}]
      /\ \A q \in Requests : request'[q] \in {request[q], NoRequest}
  BY DEF Restart, DataInv
<1>3. QED
  BY <1>1, <1>2, ServerMoveInv DEF Restart

LEMMA WorkerPublishesInv ==
    ASSUME DataInv, NEW e \in Ids, WorkerPublishes(e) PROVE DataInv'
<1>1. /\ held' = Stored(e) /\ outbox' = [outbox EXCEPT ![e] = "acknowledged"]
      /\ outbox[e] = "due"
      /\ UNCHANGED <<seed, confs, db, request, serverVars>>
  BY DEF WorkerPublishes
<1>2. e \in DOMAIN confs
  BY <1>1 DEF DataInv, TablesOK
<1>3. /\ outbox' \in [Ids -> {"none", "due", "acknowledged"}]
      /\ \A f \in Ids : outbox'[f] # "none" => outbox[f] # "none"
  BY <1>1 DEF DataInv, TablesOK
<1>4. Grows /\ TablesOK'
  BY <1>1, <1>2, <1>3, StoredInv
<1>5. ServerOK'
  BY <1>1 DEF DataInv, ServerOK, serverVars
<1>6. \A q \in Requests : Knows(request[q])'
  <2>1. ASSUME NEW q \in Requests PROVE Knows(request[q])'
    <3>1. request'[q] = request[q] /\ request[q] \in Request \cup {NoRequest}
      BY <1>1 DEF DataInv
    <3>2. Knows(request[q])
      BY DEF DataInv
    <3>3. QED
      BY <1>4, <3>1, <3>2, KnowsStable DEF Knows
  <2>2. QED
    BY <2>1
<1>7. QED
  BY <1>1, <1>4, <1>5, <1>6 DEF DataInv

-----------------------------------------------------------------------------
(* Theorems: the database *)

LEMMA InitData == Init => DataInv
<1> SUFFICES ASSUME Init PROVE DataInv
  OBVIOUS
<1> DEFINE c == [seed |-> "entered", rev |-> 2]
<1>1. c \in Configuration /\ c.rev # 0
  BY DEF Configuration, Seeds
<1>2. /\ confs = <<c>> /\ confs \in Seq(Configuration) /\ Len(confs) = 1
      /\ DOMAIN confs = {1} /\ confs[1] = c
  BY <1>1 DEF Init
<1>3. 1 \in Ids /\ Len(confs) <= MaxConfs
  BY <1>2, BootstrapAssumption DEF Ids
<1>4. db \in Database /\ ~db.initialized /\ db.tables = 0
  BY DEF Init, EmptyDatabase, Database
<1>5. /\ held \in [Seeds -> Ids \cup {0}]
      /\ \A s \in Seeds : held[s] \in {0, 1}
  BY <1>3 DEF Init
<1>6. /\ outbox \in [Ids -> {"none", "due", "acknowledged"}]
      /\ \A e \in Ids : outbox[e] = "none"
  BY DEF Init
<1>7. seed \in Seeds \cup {"none"}
  BY DEF Init, Seeds
<1> HIDE DEF c
<1>8. TablesOK
  BY <1>1, <1>2, <1>3, <1>4, <1>5, <1>6, <1>7 DEF TablesOK
<1>9. ServerOK
  BY DEF Init, ServerOK
<1>10. request \in [Requests -> Request \cup {NoRequest}]
  BY DEF Init
<1>11. \A q \in Requests : Knows(request[q])
  BY DEF Init, Knows
<1>12. QED
  BY <1>8, <1>9, <1>10, <1>11 DEF DataInv

LEMMA NextData ==
    ASSUME DataInv, [Next]_vars PROVE DataInv'
<1>1. ASSUME NEW q \in Requests, NEW kind \in {"fresh", "recover"},
             NEW via \in {"page", "command"}, Begin(q, kind, via)
      PROVE  DataInv'
  BY <1>1, BeginInv
<1>2. ASSUME NEW q \in Requests, Initialize(q) PROVE DataInv'
  BY <1>2, LoadSeedInv, CheckInv, EnqueueInv, PublishInv, AcknowledgeInv, StoreBackupInv,
     SetInstanceInv, SetRevisionInv, MarkInitializedInv DEF Initialize
<1>3. ASSUME NEW q \in Requests, Recover(q) PROVE DataInv'
  BY <1>3, ValidateInv, InstallSeedInv, FetchInv, WriteInv DEF Recover
<1>4. ASSUME NEW q \in Requests, Abandon(q) \/ HangUp(q) PROVE DataInv'
  BY <1>4, AbandonInv, HangUpInv
<1>5. ASSUME NotifyRestart \/ Shutdown \/ Switch \/ Restart PROVE DataInv'
  BY <1>5, NotifyRestartInv, ShutdownInv, SwitchInv, RestartInv
<1>6. ASSUME NEW e \in Ids, WorkerPublishes(e) PROVE DataInv'
  BY <1>6, WorkerPublishesInv
<1>7. ASSUME UNCHANGED vars PROVE DataInv'
  <2>1. ServerOK'
    BY <1>7 DEF vars, DataInv, ServerOK
  <2>2. QED
    BY <1>7, <2>1, ServerMoveInv DEF vars, DataInv
<1>8. QED
  BY <1>1, <1>2, <1>3, <1>4, <1>5, <1>6, <1>7 DEF Next

\* The inductive invariant holds of every behaviour.
THEOREM BootstrapInvariant == Spec => []DataInv
<1>1. Init => DataInv
  BY InitData
<1>2. DataInv /\ [Next]_vars => DataInv'
  BY NextData
<1>3. QED
  BY <1>1, <1>2, PTL DEF Spec

\* Every variable keeps its type, through crashes and repeated attempts.
THEOREM BootstrapTypeCorrect == Spec => []TypeOK
  BY DataType, BootstrapInvariant, PTL

\* A server in normal service has an identity, an instance id, a revision and a
\* configuration on a relay, wherever initialize_empty or restore was interrupted.
THEOREM ServiceIsComplete == Spec => []NormalServiceIsComplete
<1>1. DataInv => NormalServiceIsComplete
  BY DEF DataInv, TablesOK, ServerOK, NormalServiceIsComplete
<1>2. QED
  BY <1>1, BootstrapInvariant, PTL

\* The root secret is written once (create_new).
THEOREM SeedNeverChanges == Spec => SeedIsKept
<1>1. ASSUME DataInv, [Next]_vars PROVE [seed # "none" => seed' = seed]_vars
  <2> SUFFICES ASSUME seed # "none", Next PROVE seed' = seed
    BY <1>1
  <2>1. seed \in Seeds
    BY <1>1 DEF DataInv, TablesOK
  <2>2. ASSUME NEW q \in Requests, Initialize(q) \/ Recover(q) PROVE seed' = seed
    BY <2>1, <2>2
       DEF Seeds, Initialize, Recover, LoadSeed, Check, Enqueue, Publish, Acknowledge,
           StoreBackup, SetInstance, SetRevision, MarkInitialized, Validate, InstallSeed,
           Fetch, Write
  <2>3. QED
    BY <2>2 DEF Next, Begin, Abandon, HangUp, NotifyRestart, Shutdown, Switch,
                WorkerPublishes, Restart
<1>2. DataInv /\ [Next]_vars => [seed # "none" => seed' = seed]_vars
  BY <1>1
<1>3. QED
  BY <1>2, BootstrapInvariant, PTL DEF Spec, SeedIsKept

\* A request past the check is at one of its steps, and stays one request.
LEMMA NoneInitializing == \A q \in Requests : request[q] = NoRequest => q \notin Initializing
  BY DEF Initializing, NoRequest

\* Only the check makes a request one that initializes.
LEMMA OneRequestMoves ==
    ASSUME DataInv, NEW q \in Requests, NEW x, request' = [request EXCEPT ![q] = x],
           x = NoRequest \/ x.step \in {"seed", "validate", "install", "check"} \/ q \in Initializing
    PROVE  Initializing' \subseteq Initializing
<1>1. request'[q] = x /\ \A r \in Requests : r # q => request'[r] = request[r]
  BY DEF DataInv
<1>2. x = NoRequest \/ x.step \in {"seed", "validate", "install", "check"} => q \notin Initializing'
  BY <1>1 DEF Initializing, NoRequest
<1>3. QED
  BY <1>1, <1>2 DEF Initializing

\* A step of a request that finds the database initialized.
LEMMA LateRequest ==
    ASSUME DataInv, db.initialized, NEW q \in Requests, Initialize(q) \/ Recover(q)
    PROVE  /\ Initializing' \subseteq Initializing
           /\ db' # db => PutInPlaceBy(q) /\ q \in Initializing
<1>0. db \in Database /\ request[q] \in Request \cup {NoRequest}
  BY DEF DataInv, TablesOK
<1>1. ASSUME NEW step, step \in {"check", "install"} \/ q \in Initializing, GoTo(q, step)
      PROVE  Initializing' \subseteq Initializing
  <2>1. request' = [request EXCEPT ![q] =
            IF request[q].live THEN [request[q] EXCEPT !.step = step] ELSE NoRequest]
    BY <1>1 DEF GoTo
  <2>2. CASE q \in Initializing
    BY <2>1, <2>2, OneRequestMoves
  <2>3. CASE q \notin Initializing
    <3>1. CASE request[q] = NoRequest
      <4>1. request'[q].step \notin
               {"enqueue", "publish", "acknowledge", "store", "instance", "revision", "mark",
                "fetch", "write"}
        BY <1>1, <2>1, <2>3, <3>1 DEF NoRequest, DataInv
      <4>2. \A r \in Requests : r # q => request'[r] = request[r]
        BY <2>1 DEF DataInv
      <4>3. QED
        BY <4>1, <4>2 DEF Initializing
    <3>2. CASE request[q] \in Request
      <4>1. [request[q] EXCEPT !.step = step].step = step
        BY <3>2 DEF Request
      <4>2. QED
        BY <1>1, <2>1, <2>3, <4>1, OneRequestMoves
    <3>3. QED
      BY <1>0, <3>1, <3>2
  <2>4. QED
    BY <2>2, <2>3
<1>2. CASE LoadSeed(q) \/ Validate(q) \/ InstallSeed(q)
  BY <1>1, <1>2 DEF LoadSeed, Validate, InstallSeed
<1>3. CASE Check(q)
  BY <1>3 DEF Check
<1>4. CASE Enqueue(q)
  <2>1. q \in Initializing /\ db' = db
    BY <1>4 DEF Enqueue, At, Initializing
  <2>2. PICK x : request' = [request EXCEPT ![q] = x]
    BY <1>4 DEF Enqueue
  <2>3. QED
    BY <2>1, <2>2, OneRequestMoves
<1>5. CASE Publish(q)
  <2>1. q \in Initializing /\ db' = db
    BY <1>5 DEF Publish, At, Initializing
  <2>2. CASE GoTo(q, "acknowledge")
    BY <1>1, <2>1, <2>2
  <2>3. CASE request' = [request EXCEPT ![q] = NoRequest]
    BY <2>1, <2>3, OneRequestMoves
  <2>4. QED
    BY <1>5, <2>2, <2>3, <2>1 DEF Publish
<1>6. CASE Acknowledge(q)
  <2>1. q \in Initializing /\ db' = db /\ GoTo(q, "store")
    BY <1>6 DEF Acknowledge, At, Initializing
  <2>2. QED
    BY <1>1, <2>1
<1>7. CASE StoreBackup(q) \/ SetInstance(q) \/ SetRevision(q)
  <2>1. q \in Initializing
    BY <1>7 DEF StoreBackup, SetInstance, SetRevision, At, Initializing
  <2>2. PutInPlaceBy(q) /\ \E step : GoTo(q, step)
    BY <1>7 DEF StoreBackup, SetInstance, SetRevision, PutInPlaceBy
  <2>3. QED
    BY <1>1, <2>1, <2>2
<1>8. CASE MarkInitialized(q)
  <2>1. q \in Initializing /\ request' = [request EXCEPT ![q] = NoRequest]
    BY <1>8 DEF MarkInitialized, At, Initializing, Succeed
  <2>2. db' = db
    BY <1>0, <1>8 DEF MarkInitialized, Database
  <2>3. QED
    BY <2>1, <2>2, OneRequestMoves
<1>9. CASE Fetch(q)
  <2>1. q \in Initializing /\ db' = db
    BY <1>9 DEF Fetch, At, Initializing
  <2>2. PICK x : request' = [request EXCEPT ![q] = x]
    BY <1>9 DEF Fetch
  <2>3. QED
    BY <2>1, <2>2, OneRequestMoves
<1>10. CASE Write(q)
  BY <1>10 DEF Write
<1>11. QED
  BY <1>2, <1>3, <1>4, <1>5, <1>6, <1>7, <1>8, <1>9, <1>10 DEF Initialize, Recover

\* An initialized database is written again by no restore, and by no request but
\* an initialize_empty that was past its check (restore.rs:85, sqlite.rs:1157).
THEOREM DatabaseIsInitializedOnce == Spec => InitializedOnce
<1> DEFINE A == db.initialized =>
                   /\ Initializing' \subseteq Initializing
                   /\ db' # db => \E q \in Initializing : PutInPlaceBy(q)
<1>1. ASSUME DataInv, Next, db.initialized PROVE A
  <2>1. ASSUME NEW q \in Requests, Initialize(q) \/ Recover(q) PROVE A
    BY <1>1, <2>1, LateRequest
  <2>2. ASSUME NEW q \in Requests, NEW kind \in {"fresh", "recover"},
               NEW via \in {"page", "command"}, Begin(q, kind, via)
        PROVE  A
    <3> DEFINE x == [kind |-> kind, via |-> via, eid |-> 0, live |-> TRUE,
                     step |-> IF kind = "recover" /\ via = "page" THEN "validate" ELSE "seed"]
    <3>1. request' = [request EXCEPT ![q] = x] /\ db' = db
      BY <2>2 DEF Begin
    <3>2. x.step \in {"seed", "validate", "install", "check"}
      OBVIOUS
    <3> HIDE DEF x
    <3>3. QED
      BY <1>1, <3>1, <3>2, OneRequestMoves
  <2>3. ASSUME NEW q \in Requests, Abandon(q) PROVE A
    BY <1>1, <2>3, OneRequestMoves DEF Abandon
  <2>4. ASSUME NEW q \in Requests, HangUp(q) PROVE A
    <3>1. db' = db /\ request' = [request EXCEPT ![q].live = FALSE]
          /\ request[q].step \in Transactions
      BY <2>4 DEF HangUp
    <3>2. q \in Initializing
      BY <3>1 DEF Transactions, Initializing
    <3>3. PICK x : request' = [request EXCEPT ![q] = x]
      BY <3>1
    <3>4. QED
      BY <1>1, <3>1, <3>2, <3>3, OneRequestMoves
  <2>5. CASE Restart
    BY <1>1, <2>5, NoneInitializing DEF Restart, Initializing, NoRequest
  <2>6. CASE NotifyRestart \/ Shutdown \/ Switch \/ \E e \in Ids : WorkerPublishes(e)
    BY <2>6 DEF NotifyRestart, Shutdown, Switch, WorkerPublishes, Initializing
  <2>7. QED
    BY <1>1, <2>1, <2>2, <2>3, <2>4, <2>5, <2>6 DEF Next
<1>2. DataInv /\ [Next]_vars => [A]_vars
  BY <1>1
<1>3. QED
  BY <1>2, BootstrapInvariant, PTL DEF Spec, InitializedOnce

-----------------------------------------------------------------------------
(* The server: notifications against set-up requests that have succeeded *)

Permits == IF permit THEN 1 ELSE 0

\* The first notification that is used ends the set-up, a second one ends the
\* normal service; each was sent by another request.
ServerInv ==
    /\ mode = "setup" => timers + Permits <= succeeded
    /\ mode = "draining" => timers + Permits + 1 <= succeeded
    /\ mode = "normal" => \/ timers + Permits + 1 <= succeeded
                          \/ timers = 0 /\ ~permit /\ succeeded = 0
    /\ mode = "stopped" => succeeded >= 2
    /\ mode \in {"normal", "stopped"} => \A q \in Requests : ~ServedByPage(q)

LEMMA ServerTypes ==
    ASSUME DataInv
    PROVE  /\ mode \in {"setup", "draining", "normal", "stopped"}
           /\ permit \in BOOLEAN /\ timers \in Nat /\ succeeded \in Nat
  BY DEF DataInv, ServerOK

\* A step of requests that ends none successfully.
LEMMA QuietServer ==
    ASSUME ServerInv, UNCHANGED serverVars,
           mode \in {"normal", "stopped"} =>
               \A q \in Requests : ServedByPage(q)' => ServedByPage(q)
    PROVE  ServerInv'
  BY DEF ServerInv, Permits, serverVars

LEMMA GoToServed ==
    ASSUME DataInv, NEW q \in Requests, NEW step, GoTo(q, step), request[q] \in Request
    PROVE  \A p \in Requests : ServedByPage(p)' => ServedByPage(p)
<1> SUFFICES ASSUME NEW p \in Requests, ServedByPage(p)' PROVE ServedByPage(p)
  OBVIOUS
<1>1. request[q] # NoRequest
  <2>1. "none" \notin Steps
    BY DEF Steps
  <2>2. QED
    BY <2>1 DEF Request, NoRequest
<1>2. CASE p # q
  BY <1>2 DEF GoTo, ServedByPage, DataInv
<1>3. CASE p = q /\ request[q].live
  <2>1. request'[q].via = request[q].via
    BY <1>3 DEF GoTo, DataInv, Request
  <2>2. QED
    BY <1>1, <1>3, <2>1 DEF ServedByPage
<1>4. CASE p = q /\ ~request[q].live
  BY <1>4 DEF GoTo, DataInv, ServedByPage
<1>5. QED
  BY <1>2, <1>3, <1>4

LEMMA DroppedServed ==
    ASSUME DataInv, NEW q \in Requests, request' = [request EXCEPT ![q] = NoRequest]
    PROVE  \A p \in Requests : ServedByPage(p)' => ServedByPage(p)
  BY DEF DataInv, ServedByPage

\* A success is counted before its notification is sent.
LEMMA SucceedServer ==
    ASSUME DataInv, ServerInv, NEW q \in Requests, Succeed(q), request[q] # NoRequest
    PROVE  ServerInv'
<1>1. \A p \in Requests : ServedByPage(p)' => ServedByPage(p)
  BY DroppedServed DEF Succeed
<1>2. CASE request[q].live /\ request[q].via = "page"
  <2>1. mode \in {"setup", "draining"}
    BY <1>2, ServerTypes DEF ServerInv, ServedByPage
  <2>2. /\ timers' = timers + 1 /\ succeeded' = succeeded + 1
        /\ UNCHANGED <<mode, permit>>
    BY <1>2 DEF Succeed
  <2>3. QED
    BY <2>1, <2>2, ServerTypes DEF ServerInv, Permits
<1>3. CASE ~(request[q].live /\ request[q].via = "page")
  BY <1>1, <1>3, QuietServer DEF Succeed, serverVars
<1>4. QED
  BY <1>2, <1>3

LEMMA RequestServer ==
    ASSUME DataInv, ServerInv, NEW q \in Requests, Initialize(q) \/ Recover(q)
    PROVE  ServerInv'
<1>1. /\ request[q] # NoRequest /\ request[q] \in Request
  <2>1. \E step \in Steps : At(q, step)
    BY DEF Initialize, Recover, LoadSeed, Check, Enqueue, Publish, Acknowledge, StoreBackup,
           SetInstance, SetRevision, MarkInitialized, Validate, InstallSeed, Fetch, Write,
           Steps
  <2>2. QED
    BY <2>1, AtFacts
<1>2. CASE MarkInitialized(q) \/ Write(q)
  BY <1>1, <1>2, SucceedServer DEF MarkInitialized, Write
<1>3. ASSUME \E step \in Steps : GoTo(q, step), UNCHANGED serverVars PROVE ServerInv'
  BY <1>1, <1>3, GoToServed, QuietServer
<1>4. CASE LoadSeed(q) \/ Check(q) \/ Acknowledge(q) \/ StoreBackup(q) \/ SetInstance(q)
           \/ SetRevision(q) \/ Validate(q) \/ InstallSeed(q)
  BY <1>3, <1>4 DEF LoadSeed, Check, Acknowledge, StoreBackup, SetInstance, SetRevision,
                    Validate, InstallSeed, Steps
<1>5. CASE Publish(q)
  <2>1. CASE GoTo(q, "acknowledge")
    BY <1>3, <1>5, <2>1 DEF Publish, Steps
  <2>2. CASE request' = [request EXCEPT ![q] = NoRequest]
    BY <1>5, <2>2, DroppedServed, QuietServer DEF Publish
  <2>3. QED
    BY <1>5, <2>1, <2>2 DEF Publish
<1>6. CASE Enqueue(q)
  <2>1. /\ UNCHANGED serverVars
        /\ request' = [request EXCEPT ![q] =
              IF @.live THEN [@ EXCEPT !.step = "publish", !.eid = NextId] ELSE NoRequest]
    BY <1>6 DEF Enqueue
  <2>2. \A p \in Requests : ServedByPage(p)' => ServedByPage(p)
    BY <1>1, <2>1 DEF DataInv, Request, ServedByPage
  <2>3. QED
    BY <2>1, <2>2, QuietServer
<1>7. CASE Fetch(q)
  <2>1. /\ UNCHANGED serverVars
        /\ request' = [request EXCEPT ![q].step = "write", ![q].eid = held[seed]]
    BY <1>7 DEF Fetch
  <2>2. \A p \in Requests : ServedByPage(p)' => ServedByPage(p)
    BY <1>1, <2>1 DEF DataInv, Request, ServedByPage
  <2>3. QED
    BY <2>1, <2>2, QuietServer
<1>8. QED
  BY <1>2, <1>4, <1>5, <1>6, <1>7 DEF Initialize, Recover

LEMMA NextServer ==
    ASSUME DataInv, ServerInv, [Next]_vars PROVE ServerInv'
<1>1. ASSUME NEW q \in Requests, NEW kind \in {"fresh", "recover"},
             NEW via \in {"page", "command"}, Begin(q, kind, via)
      PROVE  ServerInv'
  <2>1. mode \in {"normal", "stopped"} =>
            \A p \in Requests : ServedByPage(p)' => ServedByPage(p)
    BY <1>1 DEF Begin, DataInv, ServedByPage
  <2>2. QED
    BY <1>1, <2>1, QuietServer DEF Begin
<1>2. ASSUME NEW q \in Requests, Initialize(q) \/ Recover(q) PROVE ServerInv'
  BY <1>2, RequestServer
<1>3. ASSUME NEW q \in Requests, Abandon(q) PROVE ServerInv'
  BY <1>3, DroppedServed, QuietServer DEF Abandon
<1>4. ASSUME NEW q \in Requests, HangUp(q) PROVE ServerInv'
  <2>1. \A p \in Requests : ServedByPage(p)' => ServedByPage(p)
    <3>1. "none" \notin Transactions
      BY DEF Transactions
    <3>2. request[q] # NoRequest
      BY <1>4, <3>1 DEF HangUp, NoRequest
    <3>3. QED
      BY <1>4, <3>2 DEF HangUp, DataInv, ServedByPage
  <2>2. QED
    BY <1>4, <2>1, QuietServer DEF HangUp
<1>5. CASE NotifyRestart
  <2>1. \A q \in Requests : ServedByPage(q)' = ServedByPage(q)
    BY <1>5 DEF NotifyRestart, ServedByPage
  <2>2. QED
    BY <1>5, <2>1, ServerTypes DEF NotifyRestart, ServerInv, Permits
<1>6. CASE Shutdown
  <2>1. \A q \in Requests : ServedByPage(q)' = ServedByPage(q)
    BY <1>6 DEF Shutdown, ServedByPage
  <2>2. QED
    BY <1>6, <2>1, ServerTypes DEF Shutdown, ServerInv, Permits
<1>7. CASE Switch
  <2>1. \A q \in Requests : ~ServedByPage(q)'
    BY <1>7 DEF Switch, ServedByPage
  <2>2. QED
    BY <1>7, <2>1, ServerTypes DEF Switch, ServerInv, Permits
<1>8. CASE Restart
  <2>1. \A q \in Requests : ~ServedByPage(q)'
    BY <1>8 DEF Restart, ServedByPage
  <2>2. QED
    BY <1>8, <2>1 DEF Restart, ServerInv, Permits
<1>9. ASSUME NEW e \in Ids, WorkerPublishes(e) PROVE ServerInv'
  BY <1>9, QuietServer DEF WorkerPublishes, ServedByPage
<1>10. CASE UNCHANGED vars
  BY <1>10, QuietServer DEF vars, serverVars, ServedByPage
<1>11. QED
  BY <1>1, <1>2, <1>3, <1>4, <1>5, <1>6, <1>7, <1>8, <1>9, <1>10 DEF Next

\* One successful set-up request never ends the normal service that follows it:
\* only the notification of a second one does (finish_setup).
THEOREM SetupKeepsService == Spec => []SetupDoesNotStopService
<1>1. Init => ServerInv
  BY DEF Init, ServerInv, Permits
<1>2. DataInv /\ ServerInv /\ [Next]_vars => ServerInv'
  BY NextServer
<1>3. DataInv /\ ServerInv => SetupDoesNotStopService
  BY ServerTypes DEF ServerInv, SetupDoesNotStopService
<1>4. Spec => []DataInv
  BY BootstrapInvariant
<1>5. QED
  BY <1>1, <1>2, <1>3, <1>4, PTL DEF Spec

\* The data are well formed, and a server that serves has what it serves from,
\* wherever a set-up was interrupted (restore.rs:85, bootstrap.rs:233).
THEOREM ServiceStaysConsistent == Spec => []Consistency
  BY BootstrapTypeCorrect, ServiceIsComplete, PTL DEF Consistency

\* The identity is put in place once, and so is the database, except for what an
\* overlapping initialize_empty still has to write (crypto.rs:103, sqlite.rs:1157).
THEOREM NothingIsEverReplaced == Spec => NothingIsReplaced
  BY SeedNeverChanges, DatabaseIsInitializedOnce DEF NothingIsReplaced

=============================================================================
