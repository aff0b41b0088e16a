----------------------- MODULE AddressLifecycleProofs -----------------------
(***************************************************************************)
(* AddressLifecycle is safe for any number of handlers, names, events and  *)
(* disturbances.  LifecycleInv is the inductive invariant: what the tables *)
(* preserve by themselves (StoreInv), and what a process knows about the   *)
(* event it is publishing, from which it follows that an acknowledgement   *)
(* is only ever given to an event that a relay has taken.  What relays     *)
(* keep, which forget replaced events, follows from the order in which the *)
(* events of a name are staged: see InForceIsTaken.                        *)
(***************************************************************************)
EXTENDS AddressLifecycle, AddressStoreProofs

\* What a process has learnt of its event at each phase of the publication.
PublicationsCarried ==
    \A p \in Processes : pub[p].phase # "idle" =>
        /\ pub[p].eid \in EventIds
        /\ pub[p].phase \in {"recording", "acknowledging"} => pub[p].eid \in taken
        /\ pub[p].phase = "acknowledging" => pub[p].eid \in replicated

\* The event in force of an active address was taken by a relay.
ActiveIsOnRelay ==
    \A n \in Names : rows[n].state = "active" => rows[n].eid \in taken

\* Nothing was staged for a name after its backup record.
BackupIsLast == \A e \in DOMAIN events : e <= backups[events[e].name]

\* What an address serves is what a record says that some relay has taken, and
\* the only event of the name staged since is the one that the row waits for.
InForceIsTaken ==
    \A n \in Names : rows[n].state \in {"active", "deleting"} =>
        \E a \in taken \cap DOMAIN events :
            /\ Says(a, n, "active", rows[n].dest)
            /\ \A e \in DOMAIN events :
                   events[e].name = n => e <= a \/ e \in Unsettled(rows[n])

LifecycleInv ==
    /\ TypeOK
    /\ StoreInv
    /\ PublicationsCarried
    /\ ActiveIsOnRelay
    /\ BackupIsLast
    /\ InForceIsTaken
    /\ ActiveIsReplicated

-----------------------------------------------------------------------------
(* The initial state *)

\* The position of a restored name is one of the sequence.
LEMMA RestoredAtFacts ==
    ASSUME NEW n \in Names, IsRestored(n)
    PROVE  /\ RestoredAt(n) \in DOMAIN Restored
           /\ Restored[RestoredAt(n)] = n
  BY DEF IsRestored, RestoredAt

\* A database that was just restored satisfies the invariant: nothing waits,
\* and everything it serves came from a relay.
LEMMA InitInv == Init => LifecycleInv
<1> SUFFICES ASSUME Init PROVE LifecycleInv
  OBVIOUS
<1>1. /\ DOMAIN Restored = 1 .. Len(Restored)
      /\ Len(Restored) \in Nat
      /\ \A i \in DOMAIN Restored : i \in EventIds /\ Restored[i] \in Names
  BY LifecycleAssumption, StoreAssumption DEF EventIds
<1>2. \A n \in Names : IsRestored(n) => RestoredAt(n) \in EventIds /\ RestoredAt(n) # 0
  BY <1>1, RestoredAtFacts DEF EventIds
<1> PICK dests \in [DOMAIN Restored -> Dests] :
        events = [i \in DOMAIN Restored |->
                     [name |-> Restored[i], kind |-> "active", rev |-> 1, dest |-> dests[i]]]
  BY DEF Init
<1>3. ASSUME NEW n \in Names
      PROVE  rows[n] \in Row /\ rows[n].state \in {"absent", "active"} /\ rows[n].pEid = 0
  <2>1. Absent \in Row /\ Absent.state = "absent" /\ Absent.pEid = 0
    BY DEF Absent, Row, RowStates
  <2>2. ASSUME IsRestored(n)
        PROVE  /\ RestoredRow(n) \in Row
               /\ RestoredRow(n).state = "active" /\ RestoredRow(n).pEid = 0
    <3>1. events[RestoredAt(n)].dest \in Dests
      BY <2>2, RestoredAtFacts
    <3>2. QED
      BY <1>2, <2>2, <3>1 DEF RestoredRow, Absent, Row, RowStates
  <2>3. rows[n] = IF IsRestored(n) THEN RestoredRow(n) ELSE Absent
    BY DEF Init
  <2>4. QED
    BY <2>1, <2>2, <2>3
<1>4. ASSUME NEW n \in Names, rows[n].state # "absent"
      PROVE  /\ IsRestored(n)
             /\ rows[n].state = "active"
             /\ rows[n].eid = RestoredAt(n)
             /\ rows[n].dest = events[RestoredAt(n)].dest
  BY <1>4 DEF Init, RestoredRow, Absent
<1>5. events \in Seq(Record) /\ DOMAIN events = DOMAIN Restored /\ Len(events) <= MaxEvents
  <2> DEFINE R(i) == [name |-> Restored[i], kind |-> "active", rev |-> 1, dest |-> dests[i]]
  <2>1. \A i \in 1 .. Len(Restored) : R(i) \in Record
    BY <1>1, LifecycleAssumption DEF Record
  <2>2. events = [i \in 1 .. Len(Restored) |-> R(i)]
    BY <1>1 DEF Init
  <2> HIDE DEF R
  <2>3. events \in Seq(Record) /\ Len(events) = Len(Restored)
    BY <1>1, <2>1, <2>2
  <2>4. QED
    BY <1>1, <2>2, <2>3, LifecycleAssumption
<1>6. StoreTypeOK
  <2>1. rows \in [Names -> Row]
    BY <1>3 DEF Init
  <2>2. attempts \in [Names -> Attempt]
    BY DEF Init, NoAttempt, Attempt, AttemptStates
  <2>3. backups \in [Names -> EventIds \cup {0}]
    BY <1>2 DEF Init
  <2>4. outbox \in [EventIds -> OutboxStates]
    BY DEF Init, OutboxStates
  <2>5. QED
    BY <1>5, <2>1, <2>2, <2>3, <2>4 DEF StoreTypeOK
<1>7. TypeOK
  <2>1. Idle \in Publication
    BY DEF Idle, Publication, Phases
  <2>2. pub \in [Processes -> Publication] /\ req \in [Handlers -> Request \cup {NoRequest}]
    BY <2>1 DEF Init
  <2>3. taken \in SUBSET EventIds /\ replicated \in SUBSET EventIds /\ batch \in SUBSET EventIds
    BY <1>1 DEF Init
  <2>4. repairing \in BOOLEAN
    BY DEF Init
  <2>5. disturbances \in 0 .. MaxDisturbances
    BY LifecycleAssumption DEF Init
  <2>6. QED
    BY <1>6, <2>2, <2>3, <2>4, <2>5 DEF TypeOK
<1>8. \A n \in Names : rows[n].state = "active" =>
          /\ rows[n].eid \in taken
          /\ rows[n].eid \in DOMAIN Restored
          /\ Says(rows[n].eid, n, "active", rows[n].dest)
  <2> SUFFICES ASSUME NEW n \in Names, rows[n].state = "active"
               PROVE  /\ RestoredAt(n) \in taken \cap DOMAIN Restored
                      /\ Says(RestoredAt(n), n, "active", events[RestoredAt(n)].dest)
    BY <1>4
  <2>1. RestoredAt(n) \in DOMAIN Restored /\ Restored[RestoredAt(n)] = n
    BY <1>4, RestoredAtFacts
  <2>2. QED
    BY <2>1, <1>5 DEF Init, Says
<1>9. StoreInv
  <2>1. EventsDescribeRows
    BY <1>3, <1>8 DEF EventsDescribeRows, RowDescribed
  <2>2. WaitingRowsAreQueued
    BY <1>3 DEF WaitingRowsAreQueued, Unsettled
  <2>3. AttemptsFollowRows
    BY DEF Init, NoAttempt, AttemptsFollowRows
  <2>4. BackupIsNewestIntent
    BY <1>3, <1>4 DEF Init, BackupIsNewestIntent
  <2>5. PendingIsNewer
    BY <1>3 DEF PendingIsNewer
  <2>6. QED
    BY <1>6, <2>1, <2>2, <2>3, <2>4, <2>5 DEF StoreInv
<1>10. PublicationsCarried
  BY DEF Init, PublicationsCarried, Idle
<1>11. BackupIsLast
  <2> SUFFICES ASSUME NEW e \in DOMAIN events
               PROVE  e <= backups[events[e].name]
    BY DEF BackupIsLast
  <2>1. e \in DOMAIN Restored /\ events[e].name = Restored[e] /\ Restored[e] \in Names /\ e \in EventIds
    BY <1>1, <1>5
  <2>2. IsRestored(Restored[e])
    BY <2>1 DEF IsRestored
  <2>3. RestoredAt(Restored[e]) = e
    BY <2>1, <2>2, RestoredAtFacts, LifecycleAssumption
  <2>4. backups[Restored[e]] = e
    BY <2>1, <2>2, <2>3 DEF Init
  <2>5. QED
    BY <2>1, <2>4 DEF EventIds
<1>12. InForceIsTaken
  <2> SUFFICES ASSUME NEW n \in Names, rows[n].state \in {"active", "deleting"}
               PROVE  \E a \in taken \cap DOMAIN events :
                          /\ Says(a, n, "active", rows[n].dest)
                          /\ \A e \in DOMAIN events :
                                 events[e].name = n => e <= a \/ e \in Unsettled(rows[n])
    BY DEF InForceIsTaken
  <2>1. rows[n].state = "active" /\ backups[n] = rows[n].eid
    BY <1>3, <1>4 DEF Init
  <2>2. rows[n].eid \in taken \cap DOMAIN events /\ Says(rows[n].eid, n, "active", rows[n].dest)
    BY <1>5, <1>8, <2>1
  <2>3. \A e \in DOMAIN events : events[e].name = n => e <= rows[n].eid
    BY <1>11, <2>1 DEF BackupIsLast
  <2>4. QED
    BY <2>2, <2>3
<1>13. QED
  BY <1>7, <1>8, <1>9, <1>10, <1>11, <1>12 DEF LifecycleInv, ActiveIsOnRelay, ActiveIsReplicated

-----------------------------------------------------------------------------
(* Frames: steps that leave the rows and the events alone *)

\* A step that keeps every row and event, forgets nothing of what relays took,
\* and keeps the tables and the publications in order preserves the invariant.
LEMMA RowsKept ==
    ASSUME LifecycleInv, rows' = rows, events' = events, backups' = backups,
           taken \subseteq taken', replicated \subseteq replicated',
           TypeOK', StoreInv', PublicationsCarried'
    PROVE  LifecycleInv'
<1>1. ActiveIsOnRelay'
  BY DEF LifecycleInv, ActiveIsOnRelay
<1>2. ActiveIsReplicated'
  BY DEF LifecycleInv, ActiveIsReplicated
<1>3. BackupIsLast'
  BY DEF LifecycleInv, BackupIsLast
<1>4. InForceIsTaken'
  BY DEF LifecycleInv, InForceIsTaken, Says, Unsettled
<1>5. QED
  BY <1>1, <1>2, <1>3, <1>4 DEF LifecycleInv

\* The tables are in order if nothing in them changes.
LEMMA StoreKept ==
    ASSUME StoreInv, UNCHANGED storeVars
    PROVE  StoreInv'
  BY DEF storeVars, StoreInv, StoreTypeOK, EventsDescribeRows, RowDescribed, Says,
         WaitingRowsAreQueued, Unsettled, Pending, AttemptsFollowRows,
         BackupIsNewestIntent, PendingIsNewer

\* A step of the processes and the network alone.
LEMMA TablesKept ==
    ASSUME LifecycleInv, UNCHANGED storeVars,
           taken \subseteq taken', replicated \subseteq replicated',
           req' \in [Handlers -> Request \cup {NoRequest}],
           pub' \in [Processes -> Publication],
           batch' \in SUBSET EventIds, repairing' \in BOOLEAN,
           taken' \in SUBSET EventIds, replicated' \in SUBSET EventIds,
           disturbances' \in 0 .. MaxDisturbances,
           PublicationsCarried'
    PROVE  LifecycleInv'
<1>1. StoreInv'
  BY StoreKept DEF LifecycleInv
<1>2. TypeOK'
  BY <1>1 DEF StoreInv, TypeOK
<1>3. QED
  BY <1>1, <1>2, RowsKept DEF storeVars

\* One publication moves on; those of the other processes are as they were.
LEMMA OnePublication ==
    ASSUME LifecycleInv, NEW p \in Processes, NEW x \in Publication,
           pub' = [pub EXCEPT ![p] = x],
           taken \subseteq taken', replicated \subseteq replicated',
           x.phase # "idle" =>
               /\ x.eid \in EventIds
               /\ x.phase \in {"recording", "acknowledging"} => x.eid \in taken'
               /\ x.phase = "acknowledging" => x.eid \in replicated'
    PROVE  /\ PublicationsCarried'
           /\ pub' \in [Processes -> Publication]
<1>1. pub \in [Processes -> Publication]
  BY DEF LifecycleInv, TypeOK
<1>2. pub'[p] = x /\ \A q \in Processes : q # p => pub'[q] = pub[q]
  BY <1>1
<1>3. PublicationsCarried'
  BY <1>2 DEF LifecycleInv, PublicationsCarried
<1>4. QED
  BY <1>1, <1>3

\* The request a handler holds is well formed.
LEMMA PreparingFacts ==
    ASSUME TypeOK, NEW h \in Handlers, NEW op, NEW step, Preparing(h, op, step)
    PROVE  req[h] \in Request /\ req[h].op = op /\ req[h].step = step
  BY DEF TypeOK, Preparing

-----------------------------------------------------------------------------
(* Handlers *)

\* Reading a row and holding on to it changes nothing that lasts.
LEMMA BeginInv ==
    ASSUME LifecycleInv, NEW h \in Handlers, NEW request \in Request, Begin(h, request)
    PROVE  LifecycleInv'
<1>1. req' \in [Handlers -> Request \cup {NoRequest}]
  BY DEF LifecycleInv, TypeOK, Begin
<1>2. PublicationsCarried'
  BY DEF LifecycleInv, PublicationsCarried, Begin, netVars
<1>3. QED
  BY <1>1, <1>2, TablesKept DEF LifecycleInv, TypeOK, Begin, netVars

\* So does going on to the next step of the preparation.
LEMMA StepInv ==
    ASSUME LifecycleInv, NEW h \in Handlers, NEW step \in Steps, NEW base \in EventIds \cup {0},
           req[h] \in Request,
           req' = [req EXCEPT ![h].step = step, ![h].base = base],
           UNCHANGED <<storeVars, pub, batch, repairing, netVars>>
    PROVE  LifecycleInv'
<1> DEFINE r == [req[h] EXCEPT !.step = step, !.base = base]
<1>1. r \in Request
  BY DEF Request
<1>2. req' = [req EXCEPT ![h] = r]
  BY DEF Request
<1> HIDE DEF r
<1>3. req' \in [Handlers -> Request \cup {NoRequest}]
  BY <1>1, <1>2 DEF LifecycleInv, TypeOK
<1>4. PublicationsCarried'
  BY DEF LifecycleInv, PublicationsCarried, netVars
<1>5. QED
  BY <1>3, <1>4, TablesKept DEF LifecycleInv, TypeOK, netVars

\* The request a handler starts with is well formed.
LEMMA ReadRow ==
    ASSUME TypeOK, NEW n \in Names
    PROVE  rows[n].rev \in Nat /\ rows[n].eid \in EventIds \cup {0}
  BY DEF TypeOK, StoreTypeOK, Row

\* A handler abandoned at any step leaves the invariant as it was.
LEMMA AbandonInv ==
    ASSUME LifecycleInv, NEW h \in Handlers, Abandon(h)
    PROVE  LifecycleInv'
<1>1. Idle \in Publication /\ Idle.phase = "idle"
  BY DEF Idle, Publication, Phases
<1>2. PublicationsCarried' /\ pub' \in [Processes -> Publication]
  BY <1>1, OnePublication DEF Abandon, Processes, netVars
<1>3. req' \in [Handlers -> Request \cup {NoRequest}]
  BY DEF LifecycleInv, TypeOK, Abandon
<1>4. QED
  BY <1>2, <1>3, TablesKept DEF LifecycleInv, TypeOK, Abandon, netVars

-----------------------------------------------------------------------------
(* Staging: the new event is not on a relay yet, and nothing is served that *)
(* was not served before.                                                   *)

\* A handler that has staged an event starts to publish it.
LEMMA StartPublishingFacts ==
    ASSUME LifecycleInv, NEW h \in Handlers, NextId \in EventIds, StartPublishing(h)
    PROVE  /\ req' \in [Handlers -> Request \cup {NoRequest}]
           /\ pub' \in [Processes -> Publication]
           /\ PublicationsCarried'
           /\ UNCHANGED <<batch, repairing, taken, replicated, disturbances>>
<1> DEFINE x == [phase |-> "publishing", eid |-> NextId]
<1>1. x \in Publication /\ x.phase = "publishing" /\ x.eid = NextId
  BY DEF Publication, Phases
<1>2. UNCHANGED <<batch, repairing, taken, replicated, disturbances>>
  BY DEF StartPublishing, netVars
<1>3. pub' = [pub EXCEPT ![h] = x] /\ h \in Processes
  BY DEF StartPublishing, Processes
<1> HIDE DEF x
<1>4. PublicationsCarried' /\ pub' \in [Processes -> Publication]
  BY <1>1, <1>2, <1>3, OnePublication
<1>5. req' \in [Handlers -> Request \cup {NoRequest}]
  BY DEF LifecycleInv, TypeOK, StartPublishing
<1>6. QED
  BY <1>2, <1>4, <1>5

\* What a staging transaction must leave alone for the invariant to hold.
LEMMA StagedInv ==
    ASSUME LifecycleInv, NEW h \in Handlers, NEW record \in Record,
           Enqueue(record), StartPublishing(h), StoreInv',
           \A n \in Names :
               /\ rows'[n].state = "active" =>
                      rows[n].state = "active" /\ rows'[n].eid = rows[n].eid
               /\ rows'[n].state \in {"active", "deleting"} =>
                      /\ rows[n].state \in {"active", "deleting"}
                      /\ rows'[n].dest = rows[n].dest
                      /\ Unsettled(rows[n]) \subseteq Unsettled(rows'[n])
                      /\ record.name = n => NextId \in Unsettled(rows'[n])
    PROVE  LifecycleInv'
<1>1. StoreTypeOK
  BY DEF LifecycleInv, TypeOK
<1>2. /\ NextId \in EventIds
      /\ DOMAIN events \subseteq DOMAIN events'
      /\ \A e \in DOMAIN events : events'[e] = events[e]
  BY <1>1, EnqueueFacts
<1>3. /\ req' \in [Handlers -> Request \cup {NoRequest}]
      /\ pub' \in [Processes -> Publication]
      /\ PublicationsCarried'
      /\ UNCHANGED <<batch, repairing, taken, replicated, disturbances>>
  BY <1>2, StartPublishingFacts
<1>4. TypeOK'
  BY <1>3 DEF LifecycleInv, TypeOK, StoreInv
<1>5. ActiveIsOnRelay'
  BY <1>3 DEF LifecycleInv, ActiveIsOnRelay
<1>6. ActiveIsReplicated'
  BY <1>3 DEF LifecycleInv, ActiveIsReplicated
<1>7. events'[NextId] = record /\ \A e \in DOMAIN events' : e \in DOMAIN events \/ e = NextId
  <2>1. /\ events'[NextId] = record
        /\ DOMAIN events = 1 .. Len(events) /\ DOMAIN events' = 1 .. NextId
        /\ NextId = Len(events) + 1 /\ Len(events) \in Nat
    BY <1>1, EnqueueFacts
  <2>2. QED
    BY <2>1
<1>8. BackupIsLast'
  <2> SUFFICES ASSUME NEW e \in DOMAIN events'
               PROVE  e <= backups'[events'[e].name]
    BY DEF BackupIsLast
  <2>1. events'[e].name = record.name \/ events'[e].name # record.name
    OBVIOUS
  <2>2. e \in 1 .. NextId /\ NextId \in Nat
    BY <1>1, EnqueueFacts
  <2>3. CASE events'[e].name = record.name
    BY <1>1, <2>2, <2>3, EnqueueFacts
  <2>4. CASE events'[e].name # record.name
    <3>1. e \in DOMAIN events /\ events'[e] = events[e]
      BY <1>2, <1>7, <2>4
    <3>2. events[e].name \in Names
      <4>1. events[e] \in Record
        BY <1>1, <3>1 DEF StoreTypeOK
      <4>2. QED
        BY <4>1 DEF Record
    <3>3. backups'[events[e].name] = backups[events[e].name]
      BY <1>1, <2>4, <3>1, <3>2, EnqueueFacts
    <3>4. QED
      BY <3>1, <3>3 DEF LifecycleInv, BackupIsLast
  <2>5. QED
    BY <2>1, <2>3, <2>4
<1>9. InForceIsTaken'
  <2> SUFFICES ASSUME NEW n \in Names, rows'[n].state \in {"active", "deleting"}
               PROVE  \E a \in taken' \cap DOMAIN events' :
                          /\ Says(a, n, "active", rows[n].dest)'
                          /\ \A e \in DOMAIN events' :
                                 events'[e].name = n => e <= a \/ e \in Unsettled(rows'[n])
    BY DEF InForceIsTaken, Unsettled
  <2>1. PICK a \in taken \cap DOMAIN events :
            /\ Says(a, n, "active", rows[n].dest)
            /\ \A e \in DOMAIN events :
                   events[e].name = n => e <= a \/ e \in Unsettled(rows[n])
    BY DEF LifecycleInv, InForceIsTaken
  <2>2. Says(a, n, "active", rows[n].dest)'
    BY <1>2, <2>1 DEF Says
  <2>3. \A e \in DOMAIN events' :
            events'[e].name = n => e <= a \/ e \in Unsettled(rows'[n])
    BY <1>2, <1>7, <2>1
  <2>4. QED
    BY <1>2, <1>3, <2>1, <2>2, <2>3
<1>10. QED
  BY <1>3, <1>4, <1>5, <1>6, <1>8, <1>9 DEF LifecycleInv

\* The records a handler encodes are well formed.
LEMMA EncodedFacts ==
    ASSUME NEW n \in Names, NEW rev \in Nat, NEW d \in Dests
    PROVE  /\ ActiveRecord(n, rev, d) \in Record
           /\ ActiveRecord(n, rev, d).name = n /\ ActiveRecord(n, rev, d).kind = "active"
           /\ ActiveRecord(n, rev, d).dest = d
<1>1. rev + 1 \in Nat
  OBVIOUS
<1>2. QED
  BY <1>1 DEF ActiveRecord, Record

LEMMA TombstoneFacts ==
    ASSUME NEW n \in Names, NEW rev \in Nat
    PROVE  /\ Tombstone(n, rev) \in Record
           /\ Tombstone(n, rev).name = n /\ Tombstone(n, rev).kind = "deleted"
           /\ Tombstone(n, rev).dest = NoDest
<1>1. rev + 1 \in Nat
  OBVIOUS
<1>2. QED
  BY <1>1 DEF Tombstone, Record

\* Registration: the new row does not resolve.
LEMMA RegisterInv ==
    ASSUME LifecycleInv, NEW h \in Handlers, NEW name \in Names, NEW d \in Dests,
           Register(h, name, d)
    PROVE  LifecycleInv'
<1> DEFINE record == ActiveRecord(name, 0, d)
<1>1. StoreTypeOK /\ StoreInv
  BY DEF LifecycleInv, TypeOK
<1>2. record \in Record /\ record.name = name /\ record.kind = "active"
  BY EncodedFacts
<1>3. StageFree(name, record) /\ StartPublishing(h)
  BY DEF Register
<1> HIDE DEF record
<1>4. StoreInv' /\ Enqueue(record)
  BY <1>1, <1>2, <1>3, StageFreeInv DEF StageFree
<1>5. rows' = [rows EXCEPT ![name] = NewRow(record.dest)]
  BY <1>3 DEF StageFree
<1>6. NewRow(record.dest).state = "publishing"
  BY <1>1, <1>2, <1>4, NewRowFacts
<1>7. /\ rows'[name].state = "publishing"
      /\ \A n \in Names : n # name => rows'[n] = rows[n]
  BY <1>1, <1>2, <1>5, <1>6 DEF StoreTypeOK
<1>8. QED
  BY <1>2, <1>3, <1>4, <1>7, StagedInv

\* Update: the row goes on serving the destination in force.
LEMMA UpdateInv ==
    ASSUME LifecycleInv, NEW h \in Handlers, NEW d \in Dests, Update(h, d)
    PROVE  LifecycleInv'
<1> DEFINE r == req[h]
           record == ActiveRecord(r.name, r.rev, d)
<1>1. r \in Request /\ r.op = "update" /\ StoreTypeOK /\ StoreInv
  BY PreparingFacts DEF Update, LifecycleInv, TypeOK
<1>2. record \in Record /\ record.name = r.name /\ r.name \in Names /\ record.kind = "active"
  BY <1>1, EncodedFacts DEF Request
<1>3. StageAddressUpdate(r.name, record) /\ StartPublishing(h)
  BY DEF Update
<1> HIDE DEF r, record
<1>4. StoreInv' /\ Enqueue(record)
  BY <1>1, <1>2, <1>3, StageAddressUpdateInv DEF StageAddressUpdate
<1>5. \A n \in Names : /\ rows'[n].state = rows[n].state
                       /\ rows'[n].eid = rows[n].eid
                       /\ rows'[n].dest = rows[n].dest
                       /\ n # r.name => rows'[n] = rows[n]
  BY <1>1, <1>2, <1>3 DEF StageAddressUpdate, StoreTypeOK, Row
<1>6. Unsettled(rows[r.name]) = {} /\ Unsettled(rows'[r.name]) = {NextId}
  <2>1. /\ rows[r.name].state = "active" /\ rows[r.name].pEid = 0
        /\ rows'[r.name].state = "active" /\ rows'[r.name].pEid = NextId
    BY <1>1, <1>2, <1>3 DEF StageAddressUpdate, StoreTypeOK, Row
  <2>2. NextId # 0
    BY <1>1, <1>2, <1>4, EnqueueFacts
  <2>3. QED
    BY <2>1, <2>2 DEF Unsettled
<1>7. QED
  BY <1>2, <1>3, <1>4, <1>5, <1>6, StagedInv

\* Removal: the row goes on serving its destination until the tombstone is out.
LEMMA RemoveInv ==
    ASSUME LifecycleInv, NEW h \in Handlers, Remove(h)
    PROVE  LifecycleInv'
<1> DEFINE r == req[h]
           record == Tombstone(r.name, r.rev)
<1>1. r \in Request /\ r.op = "remove" /\ StoreTypeOK /\ StoreInv
  BY PreparingFacts DEF Remove, LifecycleInv, TypeOK
<1>2. /\ record \in Record /\ record.name = r.name /\ r.name \in Names
      /\ record.kind = "deleted" /\ record.dest = NoDest
  BY <1>1, TombstoneFacts DEF Request
<1>3. StageDeletion(r.name, record) /\ StartPublishing(h)
  BY DEF Remove
<1> HIDE DEF r, record
<1>4. StoreInv' /\ Enqueue(record)
  BY <1>1, <1>2, <1>3, StageDeletionInv DEF StageDeletion
<1>5. /\ rows[r.name].state = "active"
      /\ rows'[r.name].state = "deleting"
      /\ rows'[r.name].dest = rows[r.name].dest
      /\ \A n \in Names : n # r.name => rows'[n] = rows[n]
      /\ rows[r.name].pEid = 0 /\ rows'[r.name].eid = NextId
  BY <1>1, <1>2, <1>3 DEF StageDeletion, StoreTypeOK, Row
<1>6. Unsettled(rows[r.name]) = {} /\ Unsettled(rows'[r.name]) = {NextId}
  BY <1>5 DEF Unsettled
<1>7. QED
  BY <1>2, <1>3, <1>4, <1>5, <1>6, StagedInv

-----------------------------------------------------------------------------
(* Publication *)

\* What a process that publishes has in hand.
LEMMA PublishingFacts ==
    ASSUME LifecycleInv, NEW p \in Processes, pub[p].phase # "idle"
    PROVE  /\ pub[p] \in Publication
           /\ pub[p].eid \in EventIds
           /\ pub[p].phase \in {"recording", "acknowledging"} => pub[p].eid \in taken
           /\ pub[p].phase = "acknowledging" => pub[p].eid \in replicated
  BY DEF LifecycleInv, TypeOK, PublicationsCarried

\* A step of the publication leaves the process in its next phase.
LEMMA MovedTo ==
    ASSUME LifecycleInv, NEW p \in Processes, NEW phase \in Phases,
           pub[p].phase # "idle", MoveTo(p, phase),
           taken \subseteq taken', replicated \subseteq replicated',
           phase \in {"recording", "acknowledging"} => pub[p].eid \in taken',
           phase = "acknowledging" => pub[p].eid \in replicated'
    PROVE  PublicationsCarried' /\ pub' \in [Processes -> Publication]
<1> DEFINE x == [pub[p] EXCEPT !.phase = phase]
<1>1. pub[p] \in Publication /\ pub[p].eid \in EventIds
  BY PublishingFacts
<1>2. x \in Publication /\ x.phase = phase /\ x.eid = pub[p].eid
  BY <1>1 DEF Publication
<1>3. pub' = [pub EXCEPT ![p] = x]
  BY DEF MoveTo
<1> HIDE DEF x
<1>4. QED
  BY <1>1, <1>2, <1>3, OnePublication

\* The other way: the publication ends.
LEMMA Finished ==
    ASSUME LifecycleInv, NEW p \in Processes, Finish(p),
           taken \subseteq taken', replicated \subseteq replicated'
    PROVE  PublicationsCarried' /\ pub' \in [Processes -> Publication]
<1>1. Idle \in Publication /\ Idle.phase = "idle"
  BY DEF Idle, Publication, Phases
<1>2. QED
  BY <1>1, OnePublication DEF Finish

\* An accepted event is on a relay from then on.
LEMMA PublishAcceptedInv ==
    ASSUME LifecycleInv, NEW p \in Processes, PublishAccepted(p)
    PROVE  LifecycleInv'
<1>1. pub[p].phase = "publishing" /\ taken' = taken \cup {pub[p].eid} /\ replicated' = replicated
  BY DEF PublishAccepted
<1>2. pub[p].eid \in EventIds
  BY <1>1, PublishingFacts
<1>3. PublicationsCarried' /\ pub' \in [Processes -> Publication]
  BY <1>1, MovedTo DEF PublishAccepted, Phases
<1>4. QED
  BY <1>1, <1>2, <1>3, TablesKept DEF LifecycleInv, TypeOK, PublishAccepted

\* A failure may leave the event on a relay all the same.
LEMMA PublishFailedInv ==
    ASSUME LifecycleInv, NEW p \in Processes, PublishFailed(p)
    PROVE  LifecycleInv'
<1>1. /\ pub[p].phase = "publishing"
      /\ taken' = taken \/ taken' = taken \cup {pub[p].eid}
      /\ replicated' = replicated
      /\ Finish(p) \/ MoveTo(p, "failing")
  BY DEF PublishFailed
<1>2. pub[p].eid \in EventIds
  BY <1>1, PublishingFacts
<1>3. PublicationsCarried' /\ pub' \in [Processes -> Publication]
  BY <1>1, MovedTo, Finished DEF Phases
<1>4. QED
  BY <1>1, <1>2, <1>3, TablesKept DEF LifecycleInv, TypeOK, PublishFailed

\* Only an event on a relay is recorded as replicated.
LEMMA RecordPublicationInv ==
    ASSUME LifecycleInv, NEW p \in Processes, RecordPublication(p)
    PROVE  LifecycleInv'
<1>1. /\ pub[p].phase = "recording"
      /\ replicated' = replicated \cup {pub[p].eid}
      /\ taken' = taken
      /\ Finish(p) \/ MoveTo(p, "acknowledging")
  BY DEF RecordPublication
<1>2. pub[p].eid \in EventIds /\ pub[p].eid \in taken
  BY <1>1, PublishingFacts
<1>3. PublicationsCarried' /\ pub' \in [Processes -> Publication]
  BY <1>1, <1>2, MovedTo, Finished DEF Phases
<1>4. QED
  BY <1>1, <1>2, <1>3, TablesKept DEF LifecycleInv, TypeOK, RecordPublication

\* An acknowledgement puts in force an event that is on a relay and recorded, so
\* the invariant survives it whatever the event and however late it comes.
LEMMA AcknowledgeInv ==
    ASSUME LifecycleInv, NEW p \in Processes, Acknowledge(p)
    PROVE  LifecycleInv'
<1> DEFINE e == pub[p].eid
<1>1. e \in EventIds /\ e \in taken /\ e \in replicated /\ AcknowledgeEvent(e)
  BY PublishingFacts DEF Acknowledge
<1>2. UNCHANGED <<req, batch, repairing, taken, replicated, disturbances>>
  BY DEF Acknowledge, netVars
<1>3. PublicationsCarried' /\ pub' \in [Processes -> Publication]
  BY <1>2, Finished DEF Acknowledge
<1> HIDE DEF e
<1>4. StoreInv'
  BY <1>1, AcknowledgeEventInv DEF LifecycleInv
<1>5. TypeOK'
  BY <1>2, <1>3, <1>4 DEF LifecycleInv, TypeOK, StoreInv
<1>6. /\ events' = events
      /\ \A n \in Names : rows'[n] = Settled(rows[n], e) /\ RowDescribed(n)
      /\ StoreTypeOK
  BY <1>1 DEF AcknowledgeEvent, LifecycleInv, StoreInv, EventsDescribeRows
<1>7. \A n \in Names : rows'[n].state = "active" =>
          \/ rows'[n] = rows[n]
          \/ rows'[n].eid = e
  BY <1>1, <1>6, SettledRow DEF Absent
<1>8. ActiveIsOnRelay'
  BY <1>1, <1>2, <1>7 DEF LifecycleInv, ActiveIsOnRelay
<1>9. ActiveIsReplicated'
  BY <1>1, <1>2, <1>7 DEF LifecycleInv, ActiveIsReplicated
<1>10. BackupIsLast'
  BY <1>1, <1>6 DEF AcknowledgeEvent, LifecycleInv, BackupIsLast
<1>11. InForceIsTaken'
  <2> SUFFICES ASSUME NEW n \in Names, rows'[n].state \in {"active", "deleting"}
               PROVE  \E a \in taken \cap DOMAIN events :
                          /\ Says(a, n, "active", rows'[n].dest)
                          /\ \A f \in DOMAIN events :
                                 events[f].name = n => f <= a \/ f \in Unsettled(rows'[n])
    BY <1>2, <1>6 DEF InForceIsTaken, Says, Unsettled
  <2>1. CASE rows'[n] = rows[n]
    BY <2>1 DEF LifecycleInv, InForceIsTaken
  <2>2. CASE rows'[n] # rows[n]
    <3>1. /\ rows'[n].state = "active" /\ rows'[n].eid = e
          /\ backups[n] = e
      <4>1. /\ \/ rows[n].state = "publishing" /\ rows[n].eid = e /\ rows[n].pEid = 0
               \/ rows[n].state = "active" /\ rows[n].pEid = e
            /\ rows'[n].state = "active" /\ rows'[n].eid = e
        BY <1>1, <1>6, <2>2, SettledRow DEF Absent
      <4>2. backups[n] = e
        BY <1>1, <4>1 DEF LifecycleInv, StoreInv, BackupIsNewestIntent, EventIds
      <4>3. QED
        BY <4>1, <4>2
    <3>2. e \in taken \cap DOMAIN events /\ Says(e, n, "active", rows'[n].dest)
      <4>1. Says(rows[n].eid, n, "active", rows[n].dest)'
        BY <1>4, <3>1 DEF StoreInv, EventsDescribeRows, RowDescribed
      <4>2. QED
        BY <1>1, <1>6, <3>1, <4>1 DEF Says
    <3>3. \A f \in DOMAIN events : events[f].name = n => f <= e
      BY <3>1 DEF LifecycleInv, BackupIsLast
    <3>4. QED
      BY <3>2, <3>3
  <2>3. QED
    BY <2>1, <2>2
<1>12. QED
  BY <1>3, <1>4, <1>5, <1>8, <1>9, <1>10, <1>11 DEF LifecycleInv

\* fail_event leaves the rows as they are.
LEMMA RecordFailureInv ==
    ASSUME LifecycleInv, NEW p \in Processes, RecordFailure(p)
    PROVE  LifecycleInv'
<1> DEFINE e == pub[p].eid
<1>1. e \in EventIds /\ FailEvent(e)
  BY PublishingFacts DEF RecordFailure
<1>2. UNCHANGED <<req, batch, repairing, taken, replicated, disturbances>>
  BY DEF RecordFailure, netVars
<1>3. PublicationsCarried' /\ pub' \in [Processes -> Publication]
  BY <1>2, Finished DEF RecordFailure
<1> HIDE DEF e
<1>4. StoreInv' /\ UNCHANGED <<rows, backups, events>>
  BY <1>1, FailEventInv DEF LifecycleInv, FailEvent
<1>5. TypeOK'
  BY <1>2, <1>3, <1>4 DEF LifecycleInv, TypeOK, StoreInv
<1>6. QED
  BY <1>2, <1>3, <1>4, <1>5, RowsKept

-----------------------------------------------------------------------------
(* The outbox worker, the clock, restarts and the retry by hand *)

\* Reading a batch changes nothing that lasts.
LEMMA PollInv ==
    ASSUME LifecycleInv, PollOutbox \/ PollBackups
    PROVE  LifecycleInv'
<1>1. batch' \in SUBSET EventIds
  <2>1. OldestDue \subseteq EventIds
    BY DEF OldestDue, Due
  <2>2. {backups[n] : n \in Names} \ {0} \subseteq EventIds
    BY DEF LifecycleInv, TypeOK, StoreTypeOK
  <2>3. QED
    BY <2>1, <2>2 DEF PollOutbox, PollBackups
<1>2. /\ UNCHANGED storeVars
      /\ UNCHANGED <<req, pub, taken, replicated, disturbances>>
  BY DEF PollOutbox, PollBackups, netVars
<1>3. repairing' \in BOOLEAN
  BY DEF PollOutbox, PollBackups
<1>4. PublicationsCarried'
  BY <1>2 DEF LifecycleInv, PublicationsCarried
<1>5. QED
  BY <1>1, <1>2, <1>3, <1>4, TablesKept DEF LifecycleInv, TypeOK

\* Neither does starting to publish an event of the batch.
LEMMA PublishNextInv ==
    ASSUME LifecycleInv, PublishNext
    PROVE  LifecycleInv'
<1>1. PICK e \in batch : pub' = [pub EXCEPT ![Worker] = [phase |-> "publishing", eid |-> e]]
  BY DEF PublishNext
<1> DEFINE x == [phase |-> "publishing", eid |-> e]
<1>2. e \in EventIds /\ batch' \in SUBSET EventIds
  BY DEF LifecycleInv, TypeOK, PublishNext
<1>3. x \in Publication /\ x.phase = "publishing" /\ x.eid = e
  BY <1>2 DEF Publication, Phases
<1>4. Worker \in Processes /\ pub' = [pub EXCEPT ![Worker] = x]
  BY <1>1 DEF Processes
<1>5. UNCHANGED storeVars /\ UNCHANGED <<req, repairing, taken, replicated, disturbances>>
  BY DEF PublishNext, netVars
<1> HIDE DEF x
<1>6. PublicationsCarried' /\ pub' \in [Processes -> Publication]
  BY <1>2, <1>3, <1>4, <1>5, OnePublication
<1>7. QED
  BY <1>2, <1>5, <1>6, TablesKept DEF LifecycleInv, TypeOK

\* The clock only makes an event due.
LEMMA BackoffOverInv ==
    ASSUME LifecycleInv, NEW e \in EventIds, BackoffOver(e)
    PROVE  LifecycleInv'
<1>1. StoreInv' /\ UNCHANGED <<rows, backups, events>>
  BY BackoffElapsesInv DEF LifecycleInv, BackoffOver, BackoffElapses
<1>2. UNCHANGED <<req, pub, batch, repairing, taken, replicated, disturbances>>
  BY DEF BackoffOver, procVars, netVars
<1>3. TypeOK' /\ PublicationsCarried'
  BY <1>1, <1>2 DEF LifecycleInv, TypeOK, StoreInv, PublicationsCarried
<1>4. QED
  BY <1>1, <1>2, <1>3, RowsKept

\* A bounded disturbance stays within its bound and leaves the relays alone.
LEMMA DisturbFacts ==
    ASSUME LifecycleInv, Disturb
    PROVE  /\ disturbances' \in 0 .. MaxDisturbances
           /\ taken' = taken /\ replicated' = replicated
  BY LifecycleAssumption DEF LifecycleInv, TypeOK, Disturb

\* A database error in the worker loses its batch and nothing else.
LEMMA WorkerAbortsInv ==
    ASSUME LifecycleInv, WorkerAborts
    PROVE  LifecycleInv'
<1>1. Idle \in Publication /\ Idle.phase = "idle" /\ Worker \in Processes
  BY DEF Idle, Publication, Phases, Processes
<1>2. disturbances' \in 0 .. MaxDisturbances /\ taken' = taken /\ replicated' = replicated
  BY DisturbFacts DEF WorkerAborts
<1>3. PublicationsCarried' /\ pub' \in [Processes -> Publication]
  BY <1>1, <1>2, OnePublication DEF WorkerAborts
<1>4. QED
  BY <1>2, <1>3, TablesKept DEF LifecycleInv, TypeOK, WorkerAborts

\* A restart forgets every request and publication; the tables and the relays
\* hold enough to go on.
LEMMA RestartInv ==
    ASSUME LifecycleInv, Restart
    PROVE  LifecycleInv'
<1>1. Idle \in Publication /\ Idle.phase = "idle"
  BY DEF Idle, Publication, Phases
<1>2. disturbances' \in 0 .. MaxDisturbances /\ taken' = taken /\ replicated' = replicated
  BY DisturbFacts DEF Restart
<1>3. /\ pub' \in [Processes -> Publication]
      /\ \A p \in Processes : pub'[p].phase = "idle"
      /\ req' \in [Handlers -> Request \cup {NoRequest}]
      /\ batch' \in SUBSET EventIds
      /\ repairing' \in BOOLEAN
  BY <1>1 DEF Restart
<1>4. PublicationsCarried'
  BY <1>3 DEF PublicationsCarried
<1>5. QED
  BY <1>2, <1>3, <1>4, TablesKept DEF LifecycleInv, TypeOK, Restart

\* The administrator may have any event of a row published again.
LEMMA RetryInv ==
    ASSUME LifecycleInv, NEW h \in Handlers, Retry(h)
    PROVE  LifecycleInv'
<1> DEFINE e == req[h].base
<1>1. e \in EventIds /\ RetryEventNow(e)
  BY PreparingFacts DEF Retry, LifecycleInv, Request
<1> HIDE DEF e
<1>2. StoreInv' /\ UNCHANGED <<rows, backups, events>>
  BY <1>1, RetryEventNowInv DEF LifecycleInv, RetryEventNow
<1>3. disturbances' \in 0 .. MaxDisturbances /\ taken' = taken /\ replicated' = replicated
  BY DisturbFacts DEF Retry
<1>4. /\ UNCHANGED <<pub, batch, repairing>>
      /\ req' \in [Handlers -> Request \cup {NoRequest}]
  BY DEF Retry, LifecycleInv, TypeOK
<1>5. TypeOK' /\ PublicationsCarried'
  BY <1>2, <1>3, <1>4 DEF LifecycleInv, TypeOK, StoreInv, PublicationsCarried
<1>6. QED
  BY <1>2, <1>3, <1>5, RowsKept

-----------------------------------------------------------------------------
(* The inductive invariant *)

\* Every step of every handler preserves the invariant.
LEMMA HandleInv ==
    ASSUME LifecycleInv, NEW h \in Handlers, Handle(h)
    PROVE  LifecycleInv'
<1>1. TypeOK
  BY DEF LifecycleInv
<1>2. ASSUME NEW n \in Names, NEW d \in Dests, Register(h, n, d)
      PROVE  LifecycleInv'
  BY <1>2, RegisterInv
<1>3. ASSUME NEW n \in Names, BeginUpdate(h, n)
      PROVE  LifecycleInv'
  BY <1>1, <1>3, BeginInv, ReadRow DEF BeginUpdate, Request, Ops, Steps
<1>4. ASSUME NEW n \in Names, BeginRemove(h, n)
      PROVE  LifecycleInv'
  BY <1>1, <1>4, BeginInv, ReadRow DEF BeginRemove, Request, Ops, Steps
<1>5. ASSUME NEW n \in Names, BeginAdminDelete(h, n)
      PROVE  LifecycleInv'
  BY <1>1, <1>5, BeginInv, ReadRow DEF BeginAdminDelete, Request, Ops, Steps
<1>6. ASSUME NEW n \in Names, BeginRetry(h, n)
      PROVE  LifecycleInv'
  BY <1>1, <1>6, BeginInv, ReadRow DEF BeginRetry, Request, Ops, Steps
<1>7. CASE ReadReceipt(h)
  BY <1>1, <1>7, PreparingFacts, StepInv DEF ReadReceipt, Steps
<1>8. CASE NameReserved(h)
  <2>1. req[h] \in Request
    BY <1>1, <1>8, PreparingFacts DEF NameReserved
  <2>2. req' = [req EXCEPT ![h].step = "encoding", ![h].base = req[h].base]
    BY <1>1, <1>8, <2>1 DEF NameReserved, Request, TypeOK
  <2>3. QED
    BY <1>8, <2>1, <2>2, StepInv DEF NameReserved, Steps, Request
<1>9. ASSUME NEW d \in Dests, Update(h, d)
      PROVE  LifecycleInv'
  BY <1>9, UpdateInv
<1>10. CASE Remove(h)
  BY <1>10, RemoveInv
<1>11. CASE Retry(h)
  BY <1>11, RetryInv
<1>12. CASE Abandon(h)
  BY <1>12, AbandonInv
<1>13. QED
  BY <1>2, <1>3, <1>4, <1>5, <1>6, <1>7, <1>8, <1>9, <1>10, <1>11, <1>12 DEF Handle

\* So does every step of a publication, a handler's or the worker's.
LEMMA PublishInv ==
    ASSUME LifecycleInv, NEW p \in Processes, Publish(p)
    PROVE  LifecycleInv'
  BY PublishAcceptedInv, PublishFailedInv, RecordPublicationInv, AcknowledgeInv,
     RecordFailureInv DEF Publish

\* A step that changes no variable preserves the invariant.
LEMMA StutterInv ==
    ASSUME LifecycleInv, UNCHANGED vars
    PROVE  LifecycleInv'
<1>1. PublicationsCarried'
  BY DEF vars, procVars, netVars, LifecycleInv, PublicationsCarried
<1>2. QED
  BY <1>1, TablesKept DEF vars, procVars, netVars, LifecycleInv, TypeOK

\* LifecycleInv is inductive.
LEMMA NextInv == LifecycleInv /\ [Next]_vars => LifecycleInv'
<1> SUFFICES ASSUME LifecycleInv, [Next]_vars PROVE LifecycleInv'
  OBVIOUS
<1>1. CASE \E h \in Handlers : Handle(h)
  BY <1>1, HandleInv
<1>2. CASE \E p \in Processes : Publish(p)
  BY <1>2, PublishInv
<1>3. CASE PollOutbox \/ PollBackups
  BY <1>3, PollInv
<1>4. CASE PublishNext
  BY <1>4, PublishNextInv
<1>5. CASE \E e \in EventIds : BackoffOver(e)
  BY <1>5, BackoffOverInv
<1>6. CASE WorkerAborts
  BY <1>6, WorkerAbortsInv
<1>7. CASE Restart
  BY <1>7, RestartInv
<1>8. CASE UNCHANGED vars
  BY <1>8, StutterInv
<1>9. QED
  BY <1>1, <1>2, <1>3, <1>4, <1>5, <1>6, <1>7, <1>8 DEF Next

\* In every reachable state the tables are in order, every process knows what it
\* should of the event it publishes, and what is served is on the relays.
THEOREM InvariantHolds == Spec => []LifecycleInv
<1>1. Init => LifecycleInv
  BY InitInv
<1>2. LifecycleInv /\ [Next]_vars => LifecycleInv'
  BY NextInv
<1>3. QED
  BY <1>1, <1>2, PTL DEF Spec

-----------------------------------------------------------------------------
(* The properties of AddressLifecycle *)

\* Every variable keeps its type: no id or revision leaves its range.
THEOREM TypeCorrect == Spec => []TypeOK
<1>1. LifecycleInv => TypeOK
  BY DEF LifecycleInv
<1>2. QED
  BY <1>1, InvariantHolds, PTL

\* No claim, update or deletion ever waits for an event that the outbox worker
\* has given up: sqlite.rs stages the event and the row together, and every
\* acknowledgement settles the row it belongs to.
THEOREM NothingIsWedged == Spec => []WaitingRowsAreQueued
<1>1. LifecycleInv => WaitingRowsAreQueued
  BY DEF LifecycleInv, StoreInv
<1>2. QED
  BY <1>1, InvariantHolds, PTL

\* The backup record of a claimed name is that of its newest staged event.
THEOREM BackupIsNewest == Spec => []BackupIsNewestIntent
<1>1. LifecycleInv => BackupIsNewestIntent
  BY DEF LifecycleInv, StoreInv
<1>2. QED
  BY <1>1, InvariantHolds, PTL

\* The event a row points to says what the row says.
THEOREM RowsMatchEvents == Spec => []EventsDescribeRows
<1>1. LifecycleInv => EventsDescribeRows
  BY DEF LifecycleInv, StoreInv
<1>2. QED
  BY <1>1, InvariantHolds, PTL

\* Publish before acknowledge: what the relays keep of an address that resolves
\* (Keep: they forget what a newer event replaces) is the record that is served,
\* or the change for whose acknowledgement the address waits (direct.rs,
\* publisher.rs, sqlite.rs).
THEOREM ServedIsRecoverable == Spec => []ServedIsBackedUp
<1>1. LifecycleInv => ServedIsBackedUp
  <2> SUFFICES ASSUME LifecycleInv, NEW n \in Names, Resolved(n) # NoDest
               PROVE  \E e \in EventIds :
                          /\ Keep(n, e)
                          /\ \/ events[e].kind = "active" /\ events[e].dest = Resolved(n)
                             \/ e \in Unsettled(rows[n])
    BY DEF ServedIsBackedUp
  <2>1. rows[n].state \in {"active", "deleting"} /\ Resolved(n) = rows[n].dest
    BY DEF Resolved
  <2>2. PICK a \in taken \cap DOMAIN events :
            /\ Says(a, n, "active", rows[n].dest)
            /\ \A e \in DOMAIN events :
                   events[e].name = n => e <= a \/ e \in Unsettled(rows[n])
    BY <2>1 DEF LifecycleInv, InForceIsTaken
  <2>3. taken \subseteq EventIds /\ EventIds \subseteq Nat
    BY DEF LifecycleInv, TypeOK, EventIds
  <2>4. CASE \A f \in taken \cap DOMAIN events : events[f].name = n => f <= a
    BY <2>1, <2>2, <2>3, <2>4 DEF Keep, Says
  <2>5. CASE \E f \in taken \cap DOMAIN events : events[f].name = n /\ ~(f <= a)
    <3>1. PICK u \in taken \cap DOMAIN events : events[u].name = n /\ ~(u <= a)
      BY <2>5
    <3>2. u \in Unsettled(rows[n])
      BY <2>2, <3>1
    <3>3. \A f \in Unsettled(rows[n]) : f = u
      BY <3>2 DEF Unsettled
    <3>4. \A f \in taken \cap DOMAIN events : events[f].name = n => f <= u
      BY <2>2, <2>3, <3>1, <3>3
    <3>5. QED
      BY <2>3, <3>1, <3>2, <3>4 DEF Keep
  <2>6. QED
    BY <2>4, <2>5
<1>2. QED
  BY <1>1, InvariantHolds, PTL

\* Record before acknowledge: the statistics know a relay for every address
\* activated by this database.
THEOREM ActivationIsRecorded == Spec => []ActiveIsReplicated
<1>1. LifecycleInv => ActiveIsReplicated
  BY DEF LifecycleInv
<1>2. QED
  BY <1>1, InvariantHolds, PTL

-----------------------------------------------------------------------------
(* The action properties *)

\* The life of a row: what one step can make of it.
Claimed(n) == rows[n].state = "absent" /\ rows'[n].state = "publishing"

Staged(n) ==
    /\ rows[n].state = "active" /\ rows[n].pEid = 0
    /\ \/ /\ rows'[n].state = "active" /\ rows'[n].eid = rows[n].eid
          /\ rows'[n].pEid > rows[n].eid
       \/ /\ rows'[n].state = "deleting" /\ rows'[n].pEid = 0
          /\ rows'[n].eid > rows[n].eid

ClaimSettled(n) ==
    /\ rows[n].state = "publishing" /\ rows[n].pEid = 0
    /\ rows'[n].state = "active" /\ rows'[n].eid = rows[n].eid /\ rows'[n].pEid = 0

UpdateSettled(n) ==
    /\ rows[n].state = "active" /\ rows[n].pEid # 0
    /\ rows'[n].state = "active" /\ rows'[n].eid = rows[n].pEid
    /\ rows'[n].dest = rows[n].pDest /\ rows'[n].pEid = 0

RemovalSettled(n) ==
    /\ rows[n].state = "deleting" /\ rows[n].eid \in taken /\ rows[n].pEid = 0
    /\ rows'[n].state = "absent"

RowStep(n) ==
    \/ rows'[n] = rows[n]
    \/ Claimed(n)
    \/ Staged(n)
    \/ ClaimSettled(n)
    \/ UpdateSettled(n)
    \/ RemovalSettled(n)

\* A handler stages its event.
Stages(h) ==
    \/ \E n \in Names, d \in Dests : Register(h, n, d)
    \/ \E d \in Dests : Update(h, d)
    \/ Remove(h)

\* Only the three staging steps of a handler and an acknowledgement touch a row.
LEMMA RowsUntouched ==
    ASSUME [Next]_vars
    PROVE  \/ rows' = rows
           \/ \E h \in Handlers : Stages(h)
           \/ \E p \in Processes : Acknowledge(p)
<1>1. CASE \E h \in Handlers : Handle(h)
  BY <1>1 DEF Handle, Stages, BeginUpdate, BeginRemove, BeginAdminDelete, Begin,
              BeginRetry, ReadReceipt, NameReserved, Retry, RetryEventNow, Abandon, storeVars
<1>2. CASE \E p \in Processes : Publish(p)
  BY <1>2 DEF Publish, PublishAccepted, PublishFailed, RecordPublication, RecordFailure,
              FailEvent, storeVars
<1>3. CASE PollOutbox \/ PollBackups \/ PublishNext
  BY <1>3 DEF PollOutbox, PollBackups, PublishNext, storeVars
<1>4. CASE \E e \in EventIds : BackoffOver(e)
  BY <1>4 DEF BackoffOver, BackoffElapses
<1>5. CASE WorkerAborts \/ Restart
  BY <1>5 DEF WorkerAborts, Restart, storeVars
<1>6. CASE UNCHANGED vars
  BY <1>6 DEF vars, storeVars
<1>7. QED
  BY <1>1, <1>2, <1>3, <1>4, <1>5, <1>6 DEF Next

\* A staged event is newer than the one in force.
LEMMA EnqueuedIsNewer ==
    ASSUME StoreTypeOK, NEW record \in Record, Enqueue(record), NEW n \in Names,
           RowDescribed(n)
    PROVE  rows[n].state = "active" => rows[n].eid < NextId
<1>1. rows[n].state = "active" => rows[n].eid \in 1 .. Len(events)
  BY EnqueueFacts DEF RowDescribed, Says
<1>2. Len(events) \in Nat
  BY EnqueueFacts
<1>3. QED
  BY <1>1, <1>2 DEF NextId

\* The three staging steps on a row.
LEMMA StagingRowStep ==
    ASSUME LifecycleInv, NEW h \in Handlers, Stages(h),
           NEW n \in Names
    PROVE  rows'[n] = rows[n] \/ Claimed(n) \/ Staged(n)
<1>1. StoreTypeOK /\ rows[n] \in Row /\ RowDescribed(n) /\ TypeOK
  BY DEF LifecycleInv, TypeOK, StoreInv, EventsDescribeRows, StoreTypeOK
<1>2. ASSUME NEW m \in Names, NEW d \in Dests, Register(h, m, d)
      PROVE  rows'[n] = rows[n] \/ Claimed(n)
  <2> DEFINE record == ActiveRecord(m, 0, d)
  <2>1. StageFree(m, record)
    BY <1>2 DEF Register
  <2> HIDE DEF record
  <2>2. /\ rows[m].state = "absent"
        /\ rows' = [rows EXCEPT ![m] = NewRow(record.dest)]
    BY <2>1 DEF StageFree
  <2>3. NewRow(record.dest).state = "publishing"
    BY DEF NewRow, Absent
  <2>4. QED
    BY <1>1, <2>2, <2>3 DEF Claimed, StoreTypeOK
<1>3. ASSUME NEW d \in Dests, Update(h, d)
      PROVE  rows'[n] = rows[n] \/ Staged(n)
  <2> DEFINE r == req[h]
             record == ActiveRecord(r.name, r.rev, d)
  <2>1. r \in Request
    BY <1>1, <1>3, PreparingFacts DEF Update
  <2>2. record \in Record
    BY <2>1, EncodedFacts DEF Request
  <2>3. StageAddressUpdate(r.name, record)
    BY <1>3 DEF Update
  <2> HIDE DEF r, record
  <2>4. Enqueue(record)
    BY <2>3 DEF StageAddressUpdate
  <2>5. rows[n].state = "active" => rows[n].eid < NextId
    BY <1>1, <2>2, <2>4, EnqueuedIsNewer
  <2>6. QED
    BY <1>1, <2>3, <2>5 DEF StageAddressUpdate, Staged, StoreTypeOK, Row
<1>4. CASE Remove(h)
  <2> DEFINE r == req[h]
             record == Tombstone(r.name, r.rev)
  <2>1. r \in Request
    BY <1>1, <1>4, PreparingFacts DEF Remove
  <2>2. record \in Record
    BY <2>1, TombstoneFacts DEF Request
  <2>3. StageDeletion(r.name, record)
    BY <1>4 DEF Remove
  <2> HIDE DEF r, record
  <2>4. Enqueue(record)
    BY <2>3 DEF StageDeletion
  <2>5. rows[n].state = "active" => rows[n].eid < NextId
    BY <1>1, <2>2, <2>4, EnqueuedIsNewer
  <2>6. QED
    BY <1>1, <2>3, <2>5 DEF StageDeletion, Staged, StoreTypeOK, Row
<1>5. QED
  BY <1>2, <1>3, <1>4 DEF Stages

\* One step takes a row along one edge of its life and no other.
LEMMA RowSteps ==
    ASSUME LifecycleInv, [Next]_vars, NEW n \in Names
    PROVE  RowStep(n)
<1>1. CASE rows' = rows
  BY <1>1 DEF RowStep
<1>2. CASE \E h \in Handlers : Stages(h)
  BY <1>2, StagingRowStep DEF RowStep
<1>3. ASSUME NEW p \in Processes, Acknowledge(p) PROVE RowStep(n)
  <2> DEFINE e == pub[p].eid
  <2>1. e \in EventIds /\ e \in taken /\ AcknowledgeEvent(e)
    BY <1>3, PublishingFacts DEF Acknowledge
  <2> HIDE DEF e
  <2>2. StoreTypeOK /\ RowDescribed(n) /\ e # 0
    BY <2>1 DEF LifecycleInv, StoreInv, EventsDescribeRows, EventIds
  <2>3. rows'[n] = Settled(rows[n], e)
    BY <2>1 DEF AcknowledgeEvent
  <2>4. rows[n].state = "deleting" => rows[n].pEid = 0
    BY <2>2 DEF RowDescribed
  <2>5. Absent.state = "absent"
    BY DEF Absent
  <2>6. QED
    BY <2>1, <2>2, <2>3, <2>4, <2>5, SettledRow
    DEF RowStep, ClaimSettled, UpdateSettled, RemovalSettled
<1>4. QED
  BY <1>1, <1>2, <1>3, RowsUntouched

\* An address disappears only after its tombstone reached a relay.
THEOREM RemovalsAreBackedUp == Spec => RemovalIsBackedUp
<1> DEFINE A == \A n \in Names : rows[n].state # "absent" /\ rows'[n].state = "absent" =>
                    /\ rows[n].eid \in taken \cap DOMAIN events
                    /\ events[rows[n].eid].name = n
                    /\ events[rows[n].eid].kind = "deleted"
<1>1. ASSUME LifecycleInv, [Next]_vars PROVE A
  <2> SUFFICES ASSUME NEW n \in Names, rows[n].state # "absent", rows'[n].state = "absent"
               PROVE  /\ rows[n].eid \in taken \cap DOMAIN events
                      /\ events[rows[n].eid].name = n
                      /\ events[rows[n].eid].kind = "deleted"
    OBVIOUS
  <2>1. RowStep(n)
    BY <1>1, RowSteps
  <2>2. RemovalSettled(n)
    BY <2>1 DEF RowStep, Claimed, Staged, ClaimSettled, UpdateSettled
  <2>3. RowDescribed(n)
    BY <1>1 DEF LifecycleInv, StoreInv, EventsDescribeRows
  <2>4. QED
    BY <2>2, <2>3 DEF RemovalSettled, RowDescribed, Says
<1>2. LifecycleInv /\ [Next]_vars => [A]_vars
  BY <1>1
<1>3. QED
  BY <1>2, InvariantHolds, PTL DEF Spec, RemovalIsBackedUp

\* A staged update is never overwritten, removed or lost: it takes effect.
THEOREM UpdatesAreNotOvertaken == Spec => UpdateIsNotOvertaken
<1> DEFINE A == \A n \in Names : rows[n].pEid # 0 =>
                    \/ rows'[n] = rows[n]
                    \/ /\ rows'[n].state = "active"
                       /\ rows'[n].eid = rows[n].pEid
                       /\ rows'[n].dest = rows[n].pDest
                       /\ rows'[n].pEid = 0
<1>1. ASSUME LifecycleInv, [Next]_vars PROVE A
  <2>1. \A n \in Names : RowStep(n) /\ (rows[n].pEid # 0 => rows[n].state = "active")
    BY <1>1, RowSteps DEF LifecycleInv, StoreInv, EventsDescribeRows, RowDescribed
  <2>2. QED
    BY <2>1 DEF RowStep, Claimed, Staged, ClaimSettled, UpdateSettled, RemovalSettled
<1>2. LifecycleInv /\ [Next]_vars => [A]_vars
  BY <1>1
<1>3. QED
  BY <1>2, InvariantHolds, PTL DEF Spec, UpdateIsNotOvertaken

\* The event in force of an address, and its newest event, only move forward.
THEOREM AddressesMoveForward == Spec => AddressMovesForward
<1> DEFINE A == \A n \in Names : rows[n].state # "absent" /\ rows'[n].state # "absent" =>
                    /\ rows'[n].eid >= rows[n].eid
                    /\ Newest(rows'[n]) >= Newest(rows[n])
<1>1. ASSUME LifecycleInv, [Next]_vars PROVE A
  <2> SUFFICES ASSUME NEW n \in Names, rows[n].state # "absent", rows'[n].state # "absent"
               PROVE  /\ rows'[n].eid >= rows[n].eid
                      /\ Newest(rows'[n]) >= Newest(rows[n])
    OBVIOUS
  <2>1. RowStep(n)
    BY <1>1, RowSteps
  <2>2. /\ rows[n].eid \in Nat /\ rows[n].pEid \in Nat
        /\ rows[n].pEid # 0 => rows[n].pEid > rows[n].eid
    <3>1. rows[n] \in Row
      BY <1>1 DEF LifecycleInv, TypeOK, StoreTypeOK
    <3>2. QED
      BY <1>1, <3>1 DEF LifecycleInv, StoreInv, PendingIsNewer, Row, EventIds
  <2>3. rows'[n].eid \in Nat /\ rows'[n].pEid \in Nat
    <3>1. StoreTypeOK'
      BY <1>1, NextInv DEF LifecycleInv, TypeOK
    <3>2. rows'[n] \in Row
      BY <3>1 DEF StoreTypeOK
    <3>3. QED
      BY <3>2 DEF Row, EventIds
  <2>4. QED
    BY <2>1, <2>2, <2>3
    DEF RowStep, Claimed, Staged, ClaimSettled, UpdateSettled, RemovalSettled, Newest
<1>2. LifecycleInv /\ [Next]_vars => [A]_vars
  BY <1>1
<1>3. QED
  BY <1>2, InvariantHolds, PTL DEF Spec, AddressMovesForward

-----------------------------------------------------------------------------
(* The refinement of BackedRegistry.  What it needs beyond the invariant:   *)
(* nothing is published that was not staged, or staging would put a record  *)
(* on a relay.                                                              *)

\* Only staged events are queued, published or on a relay, and an active record
\* names a destination.
OnlyStaged ==
    /\ \A e \in EventIds : outbox[e] # "none" => e \in DOMAIN events
    /\ \A n \in Names : backups[n] # 0 => backups[n] \in DOMAIN events
    /\ batch \subseteq DOMAIN events
    /\ \A p \in Processes : pub[p].phase # "idle" => pub[p].eid \in DOMAIN events
    /\ taken \subseteq DOMAIN events
    /\ \A e \in DOMAIN events : events[e].kind = "active" => events[e].dest \in Dests

LEMMA InitOnlyStaged == Init => OnlyStaged
<1> SUFFICES ASSUME Init PROVE OnlyStaged
  OBVIOUS
<1>1. PICK dests \in [DOMAIN Restored -> Dests] :
          events = [i \in DOMAIN Restored |->
                       [name |-> Restored[i], kind |-> "active", rev |-> 1, dest |-> dests[i]]]
  BY DEF Init
<1>2. DOMAIN events = DOMAIN Restored /\ \A e \in DOMAIN events : events[e].dest \in Dests
  BY <1>1
<1>3. \A n \in Names : backups[n] # 0 => backups[n] \in DOMAIN Restored
  BY RestoredAtFacts DEF Init
<1>4. \A p \in Processes : pub[p].phase = "idle"
  BY DEF Init, Idle
<1>5. \A e \in EventIds : outbox[e] = "none"
  BY DEF Init
<1>6. QED
  BY <1>2, <1>3, <1>4, <1>5 DEF Init, OnlyStaged

\* A staging step adds one event, and nothing resolves differently.
LEMMA StagingEffect ==
    ASSUME LifecycleInv, NEW h \in Handlers, Stages(h)
    PROVE  /\ StartPublishing(h)
           /\ \E record \in Record :
                 /\ Enqueue(record)
                 /\ record.kind = "active" => record.dest \in Dests
           /\ \A n \in Names : Resolved(n)' = Resolved(n)
<1>1. StoreTypeOK /\ TypeOK
  BY DEF LifecycleInv, TypeOK
<1>2. ASSUME NEW name \in Names, NEW d \in Dests, Register(h, name, d)
      PROVE  /\ StartPublishing(h)
             /\ \E record \in Record : Enqueue(record) /\ record.dest \in Dests
             /\ \A n \in Names : Resolved(n)' = Resolved(n)
  <2> DEFINE record == ActiveRecord(name, 0, d)
  <2>1. record \in Record /\ record.dest = d
    BY EncodedFacts
  <2>2. StageFree(name, record) /\ StartPublishing(h)
    BY <1>2 DEF Register
  <2> HIDE DEF record
  <2>3. /\ Enqueue(record) /\ rows[name].state = "absent"
        /\ rows' = [rows EXCEPT ![name] = NewRow(record.dest)]
    BY <2>2 DEF StageFree
  <2>4. NewRow(record.dest).state = "publishing"
    BY DEF NewRow, Absent
  <2>5. \A n \in Names : Resolved(n)' = Resolved(n)
    BY <1>1, <2>3, <2>4 DEF Resolved, StoreTypeOK
  <2>6. QED
    BY <2>1, <2>2, <2>3, <2>5
<1>3. ASSUME NEW d \in Dests, Update(h, d)
      PROVE  /\ StartPublishing(h)
             /\ \E record \in Record : Enqueue(record) /\ record.dest \in Dests
             /\ \A n \in Names : Resolved(n)' = Resolved(n)
  <2> DEFINE r == req[h]
             record == ActiveRecord(r.name, r.rev, d)
  <2>1. r.name \in Names /\ r.rev \in Nat
    BY <1>1, <1>3, PreparingFacts DEF Update, Request
  <2>2. record \in Record /\ record.dest = d
    BY <2>1, EncodedFacts
  <2>3. StageAddressUpdate(r.name, record) /\ StartPublishing(h)
    BY <1>3 DEF Update
  <2> HIDE DEF r, record
  <2>4. Enqueue(record)
    BY <2>3 DEF StageAddressUpdate
  <2>5. \A n \in Names : rows'[n].state = rows[n].state /\ rows'[n].dest = rows[n].dest
    BY <1>1, <2>1, <2>3 DEF StageAddressUpdate, StoreTypeOK, Row
  <2>6. \A n \in Names : Resolved(n)' = Resolved(n)
    BY <2>5 DEF Resolved
  <2>7. QED
    BY <2>2, <2>3, <2>4, <2>6
<1>4. ASSUME Remove(h)
      PROVE  /\ StartPublishing(h)
             /\ \E record \in Record : Enqueue(record) /\ record.kind = "deleted"
             /\ \A n \in Names : Resolved(n)' = Resolved(n)
  <2> DEFINE r == req[h]
             record == Tombstone(r.name, r.rev)
  <2>1. r.name \in Names /\ r.rev \in Nat
    BY <1>1, <1>4, PreparingFacts DEF Remove, Request
  <2>2. record \in Record /\ record.kind = "deleted"
    BY <2>1, TombstoneFacts
  <2>3. StageDeletion(r.name, record) /\ StartPublishing(h)
    BY <1>4 DEF Remove
  <2> HIDE DEF r, record
  <2>4. Enqueue(record) /\ rows[r.name].state = "active"
    BY <2>3 DEF StageDeletion
  <2>5. /\ rows'[r.name].state = "deleting"
        /\ \A n \in Names : rows'[n].dest = rows[n].dest
        /\ \A n \in Names : n # r.name => rows'[n] = rows[n]
    BY <1>1, <2>1, <2>3 DEF StageDeletion, StoreTypeOK, Row
  <2>6. \A n \in Names : Resolved(n)' = Resolved(n)
    BY <2>4, <2>5 DEF Resolved
  <2>7. QED
    BY <2>2, <2>3, <2>4, <2>6
<1>5. QED
  BY <1>2, <1>3, <1>4 DEF Stages

\* The new event is staged by the time anything points to it.
LEMMA StagingOnlyStaged ==
    ASSUME LifecycleInv, OnlyStaged, NEW h \in Handlers, Stages(h)
    PROVE  OnlyStaged'
<1>1. StartPublishing(h)
  BY StagingEffect
<1>2. PICK record \in Record : Enqueue(record) /\ (record.kind = "active" => record.dest \in Dests)
  BY StagingEffect
<1>3. StoreTypeOK
  BY DEF LifecycleInv, TypeOK
<1>4. /\ DOMAIN events' = 1 .. NextId /\ NextId = Len(events) + 1 /\ Len(events) \in Nat
      /\ DOMAIN events = 1 .. Len(events)
      /\ events'[NextId] = record
      /\ \A e \in DOMAIN events : events'[e] = events[e]
  BY <1>2, <1>3, EnqueueFacts
<1>5. DOMAIN events \subseteq DOMAIN events' /\ NextId \in DOMAIN events'
  BY <1>4
<1>6. \A e \in DOMAIN events' : events'[e].kind = "active" => events'[e].dest \in Dests
  <2>1. \A e \in DOMAIN events' : e \in DOMAIN events \/ e = NextId
    BY <1>4
  <2>2. QED
    BY <1>2, <1>4, <2>1 DEF OnlyStaged
<1>7. \A e \in EventIds : outbox'[e] # "none" => e \in DOMAIN events'
  <2>1. \A e \in EventIds : e = NextId \/ outbox'[e] = outbox[e]
    BY <1>2, <1>3 DEF Enqueue, StoreTypeOK
  <2>2. QED
    BY <1>5, <2>1 DEF OnlyStaged
<1>8. \A n \in Names : backups'[n] # 0 => backups'[n] \in DOMAIN events'
  <2>1. \A n \in Names : backups'[n] = NextId \/ backups'[n] = backups[n]
    BY <1>2, <1>3 DEF Enqueue, StoreTypeOK
  <2>2. QED
    BY <1>5, <2>1 DEF OnlyStaged
<1>9. \A p \in Processes : pub'[p].phase # "idle" => pub'[p].eid \in DOMAIN events'
  <2>1. \A p \in Processes : pub'[p] = pub[p] \/ pub'[p].eid = NextId
    BY <1>1 DEF StartPublishing, LifecycleInv, TypeOK
  <2>2. QED
    BY <1>5, <2>1 DEF OnlyStaged
<1>10. batch' = batch /\ taken' = taken
  BY <1>1 DEF StartPublishing, netVars
<1>11. QED
  BY <1>5, <1>6, <1>7, <1>8, <1>9, <1>10 DEF OnlyStaged

\* A publication goes on or ends without a new event, and only its event may come
\* to a relay.
LEMMA PublishOnlyStaged ==
    ASSUME LifecycleInv, OnlyStaged, NEW p \in Processes, Publish(p)
    PROVE  /\ OnlyStaged'
           /\ UNCHANGED events
           /\ taken' = taken \/ taken' = taken \cup {pub[p].eid}
           /\ pub[p].eid \in DOMAIN events
<1>1. pub[p].phase # "idle"
  BY DEF Publish, PublishAccepted, PublishFailed, RecordPublication, Acknowledge, RecordFailure
<1>2. pub[p].eid \in DOMAIN events /\ pub[p].eid \in EventIds
  BY <1>1, PublishingFacts DEF OnlyStaged
<1>3. UNCHANGED <<events, backups, batch>>
  BY DEF Publish, PublishAccepted, PublishFailed, RecordPublication, Acknowledge, RecordFailure,
         AcknowledgeEvent, FailEvent, storeVars
<1>4. taken' = taken \/ taken' = taken \cup {pub[p].eid}
  BY DEF Publish, PublishAccepted, PublishFailed, RecordPublication, Acknowledge, RecordFailure,
         netVars
<1>5. \A e \in EventIds : outbox'[e] # "none" => outbox[e] # "none"
  <2>1. CASE outbox' = outbox
    BY <2>1
  <2>2. ASSUME NEW e \in EventIds, outbox[e] # "none", NEW x, outbox' = [outbox EXCEPT ![e] = x]
        PROVE  \A f \in EventIds : outbox'[f] # "none" => outbox[f] # "none"
    BY <2>2 DEF LifecycleInv, TypeOK, StoreTypeOK
  <2>3. CASE Acknowledge(p)
    BY <1>2, <2>2, <2>3 DEF Acknowledge, AcknowledgeEvent
  <2>4. CASE RecordFailure(p)
    BY <1>2, <2>2, <2>4 DEF RecordFailure, FailEvent
  <2>5. QED
    BY <2>1, <2>3, <2>4 DEF Publish, PublishAccepted, PublishFailed, RecordPublication, storeVars
<1>6. \A q \in Processes : pub'[q].phase # "idle" => pub[q].phase # "idle" /\ pub'[q].eid = pub[q].eid
  <2>1. pub \in [Processes -> Publication] /\ Idle.phase = "idle"
    BY DEF LifecycleInv, TypeOK, Idle
  <2>2. \/ Finish(p)
        \/ \E phase \in Phases : MoveTo(p, phase)
    BY DEF Publish, PublishAccepted, PublishFailed, RecordPublication, Acknowledge,
           RecordFailure, Phases
  <2>3. CASE Finish(p)
    BY <2>1, <2>3 DEF Finish
  <2>4. CASE \E phase \in Phases : MoveTo(p, phase)
    BY <1>1, <2>1, <2>4 DEF MoveTo, Publication
  <2>5. QED
    BY <2>2, <2>3, <2>4
<1>7. QED
  BY <1>2, <1>3, <1>4, <1>5, <1>6 DEF OnlyStaged

\* The other steps stage nothing, publish nothing and settle nothing.
Bookkeeping ==
    \/ \E h \in Handlers :
          \/ \E n \in Names : BeginUpdate(h, n) \/ BeginRemove(h, n)
          \/ \E n \in Names : BeginAdminDelete(h, n) \/ BeginRetry(h, n)
          \/ ReadReceipt(h) \/ NameReserved(h) \/ Retry(h) \/ Abandon(h)
    \/ PollOutbox \/ PollBackups \/ PublishNext
    \/ \E e \in EventIds : BackoffOver(e)
    \/ WorkerAborts \/ Restart
    \/ UNCHANGED vars

LEMMA BookkeepingOnlyStaged ==
    ASSUME LifecycleInv, OnlyStaged, Bookkeeping
    PROVE  OnlyStaged' /\ UNCHANGED <<rows, events, taken>>
<1>1. /\ pub \in [Processes -> Publication] /\ outbox \in [EventIds -> OutboxStates]
      /\ Idle.phase = "idle" /\ Handlers \subseteq Processes /\ Worker \in Processes
  BY DEF LifecycleInv, TypeOK, StoreTypeOK, Idle, Processes
<1>2. CASE UNCHANGED <<storeVars, pub, batch, netVars>>
  BY <1>2 DEF OnlyStaged, storeVars, netVars
<1>3. ASSUME NEW e \in EventIds, outbox[e] # "none", outbox' = [outbox EXCEPT ![e] = "due"],
             UNCHANGED <<rows, backups, events, pub, batch, taken>>
      PROVE  OnlyStaged' /\ UNCHANGED <<rows, events, taken>>
  BY <1>1, <1>3 DEF OnlyStaged
<1>4. ASSUME UNCHANGED <<storeVars, taken>>, batch' \subseteq DOMAIN events,
             \A p \in Processes : pub'[p] = pub[p] \/ pub'[p].phase = "idle"
      PROVE  OnlyStaged' /\ UNCHANGED <<rows, events, taken>>
  BY <1>4 DEF OnlyStaged, storeVars
<1>5. ASSUME NEW h \in Handlers, NEW n \in Names,
             BeginUpdate(h, n) \/ BeginRemove(h, n) \/ BeginAdminDelete(h, n) \/ BeginRetry(h, n)
      PROVE  UNCHANGED <<storeVars, pub, batch, netVars>>
  BY <1>5 DEF BeginUpdate, BeginRemove, BeginAdminDelete, BeginRetry, Begin
<1>6. ASSUME NEW h \in Handlers, ReadReceipt(h) \/ NameReserved(h)
      PROVE  UNCHANGED <<storeVars, pub, batch, netVars>>
  BY <1>6 DEF ReadReceipt, NameReserved
<1>7. ASSUME NEW h \in Handlers, Retry(h)
      PROVE  OnlyStaged' /\ UNCHANGED <<rows, events, taken>>
  <2>1. req[h].base \in EventIds
    BY <1>7, PreparingFacts DEF Retry, LifecycleInv, Request
  <2>2. QED
    BY <1>3, <1>7, <2>1 DEF Retry, RetryEventNow, Disturb
<1>8. ASSUME NEW h \in Handlers, Abandon(h)
      PROVE  OnlyStaged' /\ UNCHANGED <<rows, events, taken>>
  <2>1. \A p \in Processes : pub'[p] = pub[p] \/ pub'[p].phase = "idle"
    BY <1>1, <1>8 DEF Abandon
  <2>2. batch' \subseteq DOMAIN events
    BY <1>8 DEF Abandon, OnlyStaged
  <2>3. QED
    BY <1>4, <1>8, <2>1, <2>2 DEF Abandon, netVars
<1>9. CASE PollOutbox \/ PollBackups
  <2>1. batch' \subseteq DOMAIN events
    BY <1>9 DEF PollOutbox, PollBackups, OldestDue, Due, OnlyStaged
  <2>2. QED
    BY <1>4, <1>9, <2>1 DEF PollOutbox, PollBackups, netVars
<1>10. CASE PublishNext
  <2>1. PICK e \in batch : /\ pub' = [pub EXCEPT ![Worker] = [phase |-> "publishing", eid |-> e]]
                           /\ batch' = batch \ {e}
    BY <1>10 DEF PublishNext
  <2>2. \A p \in Processes : pub'[p] = pub[p] \/ pub'[p].eid = e
    BY <1>1, <2>1
  <2>3. UNCHANGED <<storeVars, taken>>
    BY <1>10 DEF PublishNext, netVars
  <2>4. QED
    BY <2>1, <2>2, <2>3 DEF OnlyStaged, storeVars
<1>11. ASSUME NEW e \in EventIds, BackoffOver(e)
       PROVE  OnlyStaged' /\ UNCHANGED <<rows, events, taken>>
  BY <1>3, <1>11 DEF BackoffOver, BackoffElapses, procVars, netVars
<1>12. CASE WorkerAborts \/ Restart
  <2>1. \A p \in Processes : pub'[p] = pub[p] \/ pub'[p].phase = "idle"
    BY <1>1, <1>12 DEF WorkerAborts, Restart
  <2>2. QED
    BY <1>4, <1>12, <2>1 DEF WorkerAborts, Restart, Disturb
<1>13. CASE UNCHANGED vars
  BY <1>2, <1>13 DEF vars, procVars, storeVars, netVars
<1>14. QED
  BY <1>2, <1>5, <1>6, <1>7, <1>8, <1>9, <1>10, <1>11, <1>12, <1>13
     DEF Bookkeeping, storeVars, netVars

\* Every step is one of the three.
LEMMA StepKinds ==
    ASSUME [Next]_vars
    PROVE  \/ \E h \in Handlers : Stages(h)
           \/ \E p \in Processes : Publish(p)
           \/ Bookkeeping
  BY DEF Next, Handle, Stages, Bookkeeping

RegistryInv == LifecycleInv /\ OnlyStaged

LEMMA RegistryInvHolds == Spec => []RegistryInv
<1>1. Init => RegistryInv
  BY InitInv, InitOnlyStaged DEF RegistryInv
<1>2. RegistryInv /\ [Next]_vars => RegistryInv'
  BY NextInv, StepKinds, StagingOnlyStaged, PublishOnlyStaged, BookkeepingOnlyStaged
     DEF RegistryInv
<1>3. QED
  BY <1>1, <1>2, PTL DEF Spec

-----------------------------------------------------------------------------
\* The states of BackedRegistry.
Served == [n \in Names |-> Resolved(n)]
Notices == {[name |-> events[e].name, kind |-> events[e].kind, dest |-> events[e].dest] :
                e \in taken \cap DOMAIN events}

LEMMA NoticeFacts ==
    ASSUME TypeOK, NEW e \in DOMAIN events
    PROVE  [name |-> events[e].name, kind |-> events[e].kind, dest |-> events[e].dest]
               \in Registry!Notice
<1>1. events[e] \in Record
  BY DEF TypeOK, StoreTypeOK
<1>2. QED
  BY <1>1 DEF Record, Registry!Notice

\* What is on a relay backs an answer, or withdraws it.
LEMMA BackedFacts ==
    ASSUME TypeOK, NEW e \in taken, NEW n \in Names, NEW d
    PROVE  /\ Says(e, n, "active", d) => Registry!Backed(n, d)
           /\ Says(e, n, "deleted", NoDest) => Registry!Withdrawn(n)
  BY DEF Says, Registry!Backed, Registry!Withdrawn

LEMMA RegistryInit == ASSUME Init PROVE Registry!Init
<1>1. LifecycleInv
  BY InitInv
<1>2. Notices \in SUBSET Registry!Notice
  BY <1>1, NoticeFacts DEF Notices, LifecycleInv
<1>3. Served \in [Names -> Dests \cup {NoDest}]
  BY <1>1 DEF Served, Resolved, LifecycleInv, TypeOK, StoreTypeOK, Row
<1>4. ASSUME NEW n \in Names, Resolved(n) # NoDest PROVE Registry!Backed(n, Resolved(n))
  <2>1. rows[n].state \in {"active", "deleting"} /\ Resolved(n) = rows[n].dest
    BY <1>4 DEF Resolved
  <2>2. PICK a \in taken \cap DOMAIN events : Says(a, n, "active", rows[n].dest)
    BY <1>1, <2>1 DEF LifecycleInv, InForceIsTaken
  <2>3. QED
    BY <1>1, <2>1, <2>2, BackedFacts DEF LifecycleInv
<1>5. QED
  BY <1>2, <1>3, <1>4 DEF Served, Notices, Registry!Init

\* A publication puts at most one more record on a relay.
LEMMA StoreStep ==
    ASSUME RegistryInv, UNCHANGED <<rows, events>>, NEW e \in DOMAIN events,
           taken' = taken \/ taken' = taken \cup {e}
    PROVE  [Registry!Next]_(Registry!vars)
<1> DEFINE notice == [name |-> events[e].name, kind |-> events[e].kind, dest |-> events[e].dest]
<1>1. notice \in Registry!Notice
  BY NoticeFacts DEF RegistryInv, LifecycleInv
<1>2. Notices' = Notices \/ Notices' = Notices \cup {notice}
  BY DEF Notices
<1>3. Served' = Served
  BY DEF Served, Resolved
<1>4. QED
  BY <1>1, <1>2, <1>3
  DEF Served, Notices, Registry!Next, Registry!Store, Registry!vars

\* An acknowledgement changes the answer for one address, to what its event says.
LEMMA ServeStep ==
    ASSUME RegistryInv, NEW p \in Processes, Acknowledge(p)
    PROVE  [Registry!Next]_(Registry!vars)
<1> DEFINE e == pub[p].eid
<1>1. /\ e \in EventIds /\ e \in taken /\ AcknowledgeEvent(e)
      /\ e \in DOMAIN events
  BY PublishingFacts DEF Acknowledge, RegistryInv, OnlyStaged
<1>2. UNCHANGED <<events, taken>>
  BY DEF Acknowledge, AcknowledgeEvent, netVars
<1>3. StoreTypeOK /\ TypeOK /\ \A n \in Names : RowDescribed(n)
  BY DEF RegistryInv, LifecycleInv, StoreInv, EventsDescribeRows
<1> HIDE DEF e
<1>4. PICK name \in Names : events[e].name = name
  <2>1. events[e] \in Record
    BY <1>1, <1>3 DEF StoreTypeOK
  <2>2. QED
    BY <2>1 DEF Record
<1>5. ASSUME NEW n \in Names PROVE rows'[n] = Settled(rows[n], e)
  BY <1>1, <1>5 DEF AcknowledgeEvent
<1>6. e # 0
  BY <1>1 DEF EventIds
<1>7. ASSUME NEW n \in Names
      PROVE  \/ Resolved(n)' = Resolved(n)
             \/ /\ Says(e, n, "active", Resolved(n)') /\ Resolved(n)' \in Dests
             \/ /\ Says(e, n, "deleted", NoDest) /\ Resolved(n)' = NoDest
  <2> DEFINE r == rows[n]
             s == Settled(r, e)
  <2>1. RowDescribed(n) /\ rows'[n] = s
    BY <1>3, <1>5
  <2>2. \A d : Says(e, n, "active", d) => d \in Dests
    BY DEF Says, RegistryInv, OnlyStaged
  <2>3. \/ s = r
        \/ r.state = "publishing" /\ r.eid = e /\ s.state = "active" /\ s.dest = r.dest
        \/ r.pEid = e /\ s.state = "active" /\ s.dest = r.pDest
        \/ r.state = "deleting" /\ r.eid = e /\ s = Absent
    BY <1>1, <1>3, SettledRow
  <2> HIDE DEF s
  <2>4. CASE s = r
    BY <2>1, <2>4 DEF Resolved
  <2>5. CASE r.state = "publishing" /\ r.eid = e /\ s.state = "active" /\ s.dest = r.dest
    BY <2>1, <2>2, <2>5 DEF Resolved, RowDescribed
  <2>6. CASE r.pEid = e /\ s.state = "active" /\ s.dest = r.pDest
    BY <1>6, <2>1, <2>2, <2>6 DEF Resolved, RowDescribed
  <2>7. CASE r.state = "deleting" /\ r.eid = e /\ s = Absent
    BY <2>1, <2>7 DEF Resolved, RowDescribed, Absent
  <2>8. QED
    BY <2>3, <2>4, <2>5, <2>6, <2>7
<1>8. \A n \in Names : n # name => Resolved(n)' = Resolved(n)
  BY <1>4, <1>7 DEF Says
<1>9. Served' = [Served EXCEPT ![name] = Resolved(name)']
  <2>1. Served = [n \in Names |-> Served[n]] /\ Served' = [n \in Names |-> Served'[n]]
    BY DEF Served
  <2>2. \A n \in Names : Served[n] = Resolved(n) /\ Served'[n] = Resolved(n)'
    BY DEF Served
  <2>3. \A n \in Names : n # name => Served'[n] = Served[n]
    BY <1>8, <2>2
  <2>4. Served'[name] = Resolved(name)'
    BY <1>4, <2>2
  <2>5. QED
    BY <1>4, <2>1, <2>3, <2>4
<1>10. Notices' = Notices
  BY <1>2 DEF Notices
<1>11. CASE Resolved(name)' = Resolved(name)
  BY <1>4, <1>9, <1>10, <1>11 DEF Served, Notices, Registry!vars
<1>12. CASE Says(e, name, "active", Resolved(name)') /\ Resolved(name)' \in Dests
  <2>1. Registry!Backed(name, Resolved(name)')
    BY <1>1, <1>3, <1>4, <1>12, BackedFacts
  <2>2. Registry!Serve(name, Resolved(name)')
    BY <1>9, <1>10, <2>1 DEF Served, Notices, Registry!Serve
  <2>3. QED
    BY <1>4, <1>12, <2>2 DEF Registry!Next
<1>13. CASE Says(e, name, "deleted", NoDest) /\ Resolved(name)' = NoDest
  <2>1. Registry!Withdrawn(name)
    BY <1>1, <1>3, <1>4, <1>13, BackedFacts
  <2>2. Registry!Withdraw(name)
    BY <1>9, <1>10, <1>13, <2>1 DEF Served, Notices, Registry!Withdraw
  <2>3. QED
    BY <1>4, <2>2 DEF Registry!Next
<1>14. \/ Resolved(name)' = Resolved(name)
       \/ Says(e, name, "active", Resolved(name)') /\ Resolved(name)' \in Dests
       \/ Says(e, name, "deleted", NoDest) /\ Resolved(name)' = NoDest
  BY <1>4, <1>7
<1>15. QED
  BY <1>11, <1>12, <1>13, <1>14

LEMMA RegistryStep == RegistryInv /\ [Next]_vars => [Registry!Next]_(Registry!vars)
<1> SUFFICES ASSUME RegistryInv, [Next]_vars PROVE [Registry!Next]_(Registry!vars)
  OBVIOUS
<1>1. RegistryInv => LifecycleInv /\ OnlyStaged
  BY DEF RegistryInv
<1>2. ASSUME NEW h \in Handlers, Stages(h) PROVE [Registry!Next]_(Registry!vars)
  <2>1. Served' = Served
    BY <1>1, <1>2, StagingEffect DEF Served
  <2>2. PICK record \in Record : Enqueue(record)
    BY <1>1, <1>2, StagingEffect
  <2>3. /\ DOMAIN events \subseteq DOMAIN events'
        /\ \A e \in DOMAIN events : events'[e] = events[e]
    BY <1>1, <2>2, EnqueueFacts DEF LifecycleInv, TypeOK
  <2>4. taken' = taken /\ taken \subseteq DOMAIN events
    BY <1>1, <1>2, StagingEffect DEF StartPublishing, netVars, OnlyStaged
  <2>5. Notices' = Notices
    BY <2>3, <2>4 DEF Notices
  <2>6. QED
    BY <2>1, <2>5 DEF Served, Notices, Registry!vars
<1>3. ASSUME NEW p \in Processes, Publish(p) PROVE [Registry!Next]_(Registry!vars)
  <2>1. CASE Acknowledge(p)
    BY <2>1, ServeStep
  <2>2. CASE ~Acknowledge(p)
    <3>1. rows' = rows
      BY <1>3, <2>2 DEF Publish, PublishAccepted, PublishFailed, RecordPublication,
                        RecordFailure, FailEvent, storeVars
    <3>2. QED
      BY <1>1, <1>3, <3>1, PublishOnlyStaged, StoreStep
  <2>3. QED
    BY <2>1, <2>2
<1>4. CASE Bookkeeping
  <2>1. UNCHANGED <<rows, events, taken>>
    BY <1>1, <1>4, BookkeepingOnlyStaged
  <2>2. Served' = Served /\ Notices' = Notices
    BY <2>1 DEF Served, Notices, Resolved
  <2>3. QED
    BY <2>2 DEF Served, Notices, Registry!vars
<1>5. QED
  BY <1>2, <1>3, <1>4, StepKinds

\* Handlers, worker, tables and relays together implement BackedRegistry: what the
\* server answers changes for one address at a time, and only to what a relay has
\* on record (direct.rs, publisher.rs, acknowledge_event in sqlite.rs).
THEOREM RegistryIsImplemented == Spec => ImplementsRegistry
<1>1. Init => Registry!Init
  BY RegistryInit
<1>2. QED
  BY <1>1, RegistryStep, RegistryInvHolds, PTL DEF Spec, ImplementsRegistry, Registry!Spec

-----------------------------------------------------------------------------
(* What the runs check.                                                     *)

\* The tables, the outbox and the relays stay consistent whatever two handlers,
\* the worker and a restart do in between (sqlite.rs, direct.rs, publisher.rs).
THEOREM TablesStayConsistent == Spec => []Consistency
  BY TypeCorrect, NothingIsWedged, BackupIsNewest, RowsMatchEvents,
     ActivationIsRecorded, PTL DEF Consistency

\* No step overtakes what was staged: rows disappear after their tombstone, and
\* updates and the events in force only move forward (sqlite.rs:604).
THEOREM AddressesOnlyAdvance == Spec => AddressesAdvance
  BY RemovalsAreBackedUp, UpdatesAreNotOvertaken, AddressesMoveForward
     DEF AddressesAdvance

=============================================================================
