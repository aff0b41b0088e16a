------------------------- MODULE AddressStoreProofs -------------------------
(***************************************************************************)
(* Every transaction of AddressStore preserves StoreInv, whoever runs it   *)
(* and whatever it read before.  The modules that compose the store with   *)
(* processes cite these lemmas for their own invariants.                   *)
(***************************************************************************)
EXTENDS AddressStore, TLAPS

\* What staging one more event does to the sequence of events.
LEMMA AppendFacts ==
    ASSUME NEW s \in Seq(Record), NEW r \in Record
    PROVE  /\ Append(s, r) \in Seq(Record)
           /\ Len(Append(s, r)) = Len(s) + 1
           /\ DOMAIN Append(s, r) = 1 .. (Len(s) + 1)
           /\ DOMAIN s = 1 .. Len(s)
           /\ Len(s) \in Nat
           /\ \A i \in DOMAIN s : Append(s, r)[i] = s[i]
           /\ Append(s, r)[Len(s) + 1] = r
  OBVIOUS

\* The event half of a staging transaction: a new event under a fresh id, due,
\* and the current backup record of its name.
LEMMA EnqueueFacts ==
    ASSUME StoreTypeOK, NEW record \in Record, Enqueue(record)
    PROVE  /\ NextId \in EventIds
           /\ NextId = Len(events) + 1
           /\ Len(events) \in Nat
           /\ DOMAIN events = 1 .. Len(events)
           /\ DOMAIN events' = 1 .. NextId
           /\ events' \in Seq(Record)
           /\ Len(events') <= MaxEvents
           /\ \A i \in DOMAIN events : events'[i] = events[i]
           /\ events'[NextId] = record
           /\ \A e, n, k, d : Says(e, n, k, d) => Says(e, n, k, d)'
           /\ outbox' \in [EventIds -> OutboxStates]
           /\ backups' \in [Names -> EventIds \cup {0}]
           /\ outbox'[NextId] = "due"
           /\ \A e \in EventIds : Pending(e) => Pending(e)'
           /\ backups'[record.name] = NextId
           /\ \A n \in Names : n # record.name => backups'[n] = backups[n]
<1>1. record.name \in Names
  BY DEF Record
<1>2. NextId \in EventIds /\ NextId = Len(events) + 1 /\ Len(events) \in Nat
  BY StoreAssumption DEF StoreTypeOK, Enqueue, NextId, EventIds
<1>3. outbox' = [outbox EXCEPT ![NextId] = "due"]
  BY DEF Enqueue
<1>4. outbox' \in [EventIds -> OutboxStates] /\ outbox'[NextId] = "due"
  BY <1>2, <1>3 DEF StoreTypeOK, OutboxStates
<1>5. \A e \in EventIds : Pending(e) => Pending(e)'
  <2>1. \A e \in EventIds : outbox'[e] = outbox[e] \/ outbox'[e] = "due"
    BY <1>2, <1>3 DEF StoreTypeOK
  <2>2. QED
    BY <2>1 DEF Pending
<1>6. /\ backups' \in [Names -> EventIds \cup {0}]
      /\ backups'[record.name] = NextId
      /\ \A n \in Names : n # record.name => backups'[n] = backups[n]
  BY <1>1, <1>2 DEF Enqueue, StoreTypeOK
<1>7. events' = Append(events, record) /\ events \in Seq(Record)
  BY DEF Enqueue, StoreTypeOK
<1>8. Len(events) < MaxEvents
  BY DEF Enqueue
<1>9. /\ DOMAIN events = 1 .. Len(events)
      /\ DOMAIN events' = 1 .. NextId
      /\ events' \in Seq(Record)
      /\ Len(events') <= MaxEvents
      /\ \A i \in DOMAIN events : events'[i] = events[i]
      /\ events'[NextId] = record
  BY <1>2, <1>7, <1>8, AppendFacts, StoreAssumption
<1>10. \A e, n, k, d : Says(e, n, k, d) => Says(e, n, k, d)'
  BY <1>2, <1>9 DEF Says
<1>11. QED
  BY <1>2, <1>4, <1>5, <1>6, <1>9, <1>10

-----------------------------------------------------------------------------
(* Staging.  Only the row (and attempt) of one name changes, and the ids    *)
(* already in use keep their events.                                        *)

\* What the four staging transactions have in common: the row of one name is
\* replaced by a row r that waits for the new event and is described by it.
LEMMA StageOneRow ==
    ASSUME StoreInv, NEW n \in Names, NEW record \in Record, record.name = n,
           Enqueue(record),
           NEW r \in Row, rows' = [rows EXCEPT ![n] = r],
           r.state # "absent",
           Unsettled(r) = {NextId},
           NextId = IF r.pEid # 0 THEN r.pEid ELSE r.eid,
           r.pEid # 0 => r.pEid > r.eid,
           RowDescribed(n)',
           attempts' \in [Names -> Attempt],
           AttemptsFollowRows'
    PROVE  StoreInv'
<1>1. StoreTypeOK
  BY DEF StoreInv
<1>2. /\ rows'[n] = r
      /\ \A m \in Names : m # n => rows'[m] = rows[m]
  BY <1>1 DEF StoreTypeOK
<1>3. StoreTypeOK'
  BY <1>1, EnqueueFacts DEF StoreTypeOK
<1>4. EventsDescribeRows'
  <2>1. \A m \in Names : m # n => RowDescribed(m)'
    BY <1>1, <1>2, EnqueueFacts DEF StoreInv, EventsDescribeRows, RowDescribed
  <2>2. QED
    BY <2>1 DEF EventsDescribeRows
<1>5. WaitingRowsAreQueued'
  <2>1. \A m \in Names : m # n =>
            \A e \in Unsettled(rows'[m]) : e \in EventIds /\ Pending(e)'
    BY <1>1, <1>2, EnqueueFacts DEF StoreInv, WaitingRowsAreQueued
  <2>2. \A e \in Unsettled(rows'[n]) : e \in EventIds /\ Pending(e)'
    BY <1>1, <1>2, EnqueueFacts DEF Pending
  <2>3. QED
    BY <2>1, <2>2 DEF WaitingRowsAreQueued, Unsettled
<1>6. BackupIsNewestIntent'
  BY <1>1, <1>2, EnqueueFacts DEF StoreInv, BackupIsNewestIntent
<1>7. PendingIsNewer'
  BY <1>2 DEF StoreInv, PendingIsNewer
<1>8. QED
  BY <1>3, <1>4, <1>5, <1>6, <1>7 DEF StoreInv

\* The row of a new claim.
LEMMA NewRowFacts ==
    ASSUME StoreTypeOK, NEW record \in Record, Enqueue(record), record.kind = "active"
    PROVE  LET r == NewRow(record.dest)
           IN  /\ r \in Row
               /\ r.state = "publishing"
               /\ r.eid = NextId
               /\ r.dest = record.dest
               /\ r.pEid = 0
               /\ Unsettled(r) = {NextId}
  BY EnqueueFacts DEF NewRow, Absent, Row, RowStates, Record, Unsettled

\* A registration without an attempt preserves the invariant.
LEMMA StageFreeInv ==
    ASSUME StoreInv, NEW n \in Names, NEW record \in Record,
           record.name = n, record.kind = "active", StageFree(n, record)
    PROVE  StoreInv'
<1> DEFINE r == NewRow(record.dest)
<1>1. Enqueue(record) /\ StoreTypeOK
  BY DEF StageFree, StoreInv
<1>2. /\ rows' = [rows EXCEPT ![n] = r]
      /\ attempts' = attempts
      /\ attempts[n].state # "publishing"
  BY DEF StageFree
<1>3. /\ r \in Row
      /\ r.state = "publishing" /\ r.eid = NextId /\ r.dest = record.dest /\ r.pEid = 0
      /\ Unsettled(r) = {NextId}
  BY <1>1, NewRowFacts
<1>4. rows'[n] = r /\ \A m \in Names : m # n => rows'[m] = rows[m]
  BY <1>1, <1>2 DEF StoreTypeOK
<1> HIDE DEF r
<1>5. RowDescribed(n)'
  BY <1>1, <1>3, <1>4, EnqueueFacts DEF RowDescribed, Says
<1>6. attempts' \in [Names -> Attempt] /\ AttemptsFollowRows'
  BY <1>2, <1>4 DEF StoreInv, StoreTypeOK, AttemptsFollowRows
<1>7. QED
  BY <1>1, <1>2, <1>3, <1>5, <1>6, StageOneRow

\* So does the registration of a settled attempt.
LEMMA StagePaidInv ==
    ASSUME StoreInv, NEW n \in Names, NEW record \in Record,
           record.name = n, record.kind = "active", StagePaid(n, record)
    PROVE  StoreInv'
<1> DEFINE r == NewRow(record.dest)
<1>1. Enqueue(record) /\ StoreTypeOK
  BY DEF StagePaid, StoreInv
<1>2. /\ rows' = [rows EXCEPT ![n] = r]
      /\ attempts' = [attempts EXCEPT ![n].state = "publishing", ![n].eid = NextId]
  BY DEF StagePaid
<1>3. /\ r \in Row
      /\ r.state = "publishing" /\ r.eid = NextId /\ r.dest = record.dest /\ r.pEid = 0
      /\ Unsettled(r) = {NextId}
  BY <1>1, NewRowFacts
<1>4. rows'[n] = r /\ \A m \in Names : m # n => rows'[m] = rows[m]
  BY <1>1, <1>2 DEF StoreTypeOK
<1> HIDE DEF r
<1>5. RowDescribed(n)'
  BY <1>1, <1>3, <1>4, EnqueueFacts DEF RowDescribed, Says
<1>6. attempts' \in [Names -> Attempt]
  <2> DEFINE a == [attempts[n] EXCEPT !.state = "publishing", !.eid = NextId]
  <2>1. attempts \in [Names -> Attempt] /\ attempts[n] \in Attempt
    BY <1>1 DEF StoreTypeOK
  <2>2. a \in Attempt
    BY <1>1, <2>1, EnqueueFacts DEF Attempt, AttemptStates
  <2>3. attempts' = [attempts EXCEPT ![n] = a]
    BY <1>2, <2>1 DEF Attempt
  <2>4. QED
    BY <2>1, <2>2, <2>3
<1>7. AttemptsFollowRows'
  BY <1>1, <1>2, <1>3, <1>4 DEF StoreInv, StoreTypeOK, AttemptsFollowRows, Attempt
<1>8. QED
  BY <1>1, <1>2, <1>3, <1>5, <1>6, <1>7, StageOneRow

\* So does the removal of an address: its row keeps the destination it serves
\* and waits for the tombstone.
LEMMA StageDeletionInv ==
    ASSUME StoreInv, NEW n \in Names, NEW record \in Record,
           record.name = n, record.kind = "deleted", record.dest = NoDest,
           StageDeletion(n, record)
    PROVE  StoreInv'
<1> DEFINE r == [rows[n] EXCEPT !.state = "deleting", !.rev = @ + 1, !.eid = NextId]
<1>1. Enqueue(record) /\ StoreTypeOK
  BY DEF StageDeletion, StoreInv
<1>2. /\ rows[n] \in Row
      /\ rows[n].state = "active"
      /\ rows[n].pEid = 0
      /\ rows' = [rows EXCEPT ![n] = r]
      /\ attempts' = attempts
  BY <1>1 DEF StageDeletion, StoreTypeOK
<1>3. /\ r \in Row
      /\ r.state = "deleting" /\ r.eid = NextId /\ r.pEid = 0
      /\ Unsettled(r) = {NextId}
  <2> DEFINE rev == rows[n].rev + 1
  <2>1. rev \in Nat
    BY <1>2 DEF Row
  <2>2. NextId \in EventIds
    BY <1>1, EnqueueFacts
  <2>3. r = [rows[n] EXCEPT !.state = "deleting", !.rev = rev, !.eid = NextId]
    OBVIOUS
  <2> HIDE DEF r, rev
  <2>4. r \in Row
    BY <1>2, <2>1, <2>2, <2>3 DEF Row, RowStates
  <2>5. r.state = "deleting" /\ r.eid = NextId /\ r.pEid = 0
    BY <1>2, <2>3 DEF Row
  <2>6. QED
    BY <2>4, <2>5 DEF Unsettled
<1>4. rows'[n] = r /\ \A m \in Names : m # n => rows'[m] = rows[m]
  BY <1>1, <1>2 DEF StoreTypeOK
<1> HIDE DEF r
<1>5. RowDescribed(n)'
  BY <1>1, <1>3, <1>4, EnqueueFacts DEF RowDescribed, Says
<1>6. attempts' \in [Names -> Attempt] /\ AttemptsFollowRows'
  BY <1>2, <1>4 DEF StoreInv, StoreTypeOK, AttemptsFollowRows
<1>7. QED
  BY <1>1, <1>2, <1>3, <1>5, <1>6, StageOneRow

\* So does an update: the row keeps what is in force and gains what will be.
LEMMA StageAddressUpdateInv ==
    ASSUME StoreInv, NEW n \in Names, NEW record \in Record,
           record.name = n, record.kind = "active",
           StageAddressUpdate(n, record)
    PROVE  StoreInv'
<1> DEFINE r == [rows[n] EXCEPT !.pDest = record.dest, !.pRev = rows[n].rev + 1,
                                !.pEid = NextId]
<1>1. Enqueue(record) /\ StoreTypeOK
  BY DEF StageAddressUpdate, StoreInv
<1>2. /\ rows[n] \in Row
      /\ rows[n].state = "active"
      /\ RowDescribed(n)
      /\ rows' = [rows EXCEPT ![n] = r]
      /\ attempts' = attempts
  BY <1>1 DEF StageAddressUpdate, StoreTypeOK, StoreInv, EventsDescribeRows
<1>3. /\ r \in Row
      /\ r.state = "active" /\ r.eid = rows[n].eid /\ r.dest = rows[n].dest
      /\ r.pEid = NextId /\ r.pDest = record.dest
      /\ NextId # 0
      /\ Unsettled(r) = {NextId}
  <2>1. rows[n].rev + 1 \in Nat /\ record.dest \in Dests \cup {NoDest}
    BY <1>2 DEF Row, Record
  <2>2. r \in Row
    BY <1>1, <1>2, <2>1, EnqueueFacts DEF Row, RowStates
  <2>3. /\ r.state = "active" /\ r.eid = rows[n].eid /\ r.dest = rows[n].dest
        /\ r.pEid = NextId /\ r.pDest = record.dest
    BY <1>2 DEF Row
  <2>4. NextId # 0
    BY <1>1, EnqueueFacts
  <2>5. QED
    BY <2>2, <2>3, <2>4 DEF Unsettled
<1>4. rows'[n] = r /\ \A m \in Names : m # n => rows'[m] = rows[m]
  BY <1>1, <1>2 DEF StoreTypeOK
<1> HIDE DEF r
<1>5. Says(rows[n].eid, n, "active", rows[n].dest)
  BY <1>2 DEF RowDescribed
<1>6. RowDescribed(n)'
  <2>1. Says(rows[n].eid, n, "active", rows[n].dest)'
    BY <1>1, <1>3, <1>4, <1>5, EnqueueFacts DEF Says
  <2>2. Says(rows[n].pEid, n, "active", rows[n].pDest)'
    BY <1>1, <1>3, <1>4, EnqueueFacts DEF Says
  <2>3. QED
    BY <1>3, <1>4, <2>1, <2>2 DEF RowDescribed
<1>7. NextId > r.eid
  BY <1>1, <1>3, <1>5, EnqueueFacts DEF Says
<1>8. attempts' \in [Names -> Attempt] /\ AttemptsFollowRows'
  BY <1>2, <1>3, <1>4 DEF StoreInv, StoreTypeOK, AttemptsFollowRows
<1>9. QED
  BY <1>1, <1>2, <1>3, <1>6, <1>7, <1>8, StageOneRow

-----------------------------------------------------------------------------
(* Settling *)

\* The four statements of acknowledge_event together: the event settles the row
\* that waits for it, in the way the row waits, and leaves every other alone.
LEMMA SettledFacts ==
    ASSUME StoreTypeOK, NEW n \in Names, NEW e \in EventIds, RowDescribed(n)
    PROVE  LET r == rows[n]
               s == Settled(r, e)
           IN  /\ e \notin Unsettled(r) => s = r
               /\ r.state = "publishing" /\ r.eid = e =>
                    s = [r EXCEPT !.state = "active"] /\ r.pEid = 0
               /\ r.pEid = e =>
                    /\ r.state = "active"
                    /\ s = [r EXCEPT !.dest = r.pDest, !.rev = r.pRev, !.eid = e,
                                     !.pDest = NoDest, !.pRev = 0, !.pEid = 0]
               /\ r.state = "deleting" /\ r.eid = e => s = Absent
<1> DEFINE r == rows[n]
           u == [r EXCEPT !.dest = r.pDest, !.rev = r.pRev, !.eid = e,
                          !.pDest = NoDest, !.pRev = 0, !.pEid = 0]
<1>1. r \in Row /\ e # 0 /\ (r.pEid # 0 => r.state = "active")
  BY DEF StoreTypeOK, EventIds, RowDescribed
<1> HIDE DEF r
<1>2. e \notin Unsettled(r) => Settled(r, e) = r
  <2> SUFFICES ASSUME e \notin Unsettled(r) PROVE Settled(r, e) = r
    OBVIOUS
  <2>1. ~(r.state = "publishing" /\ r.eid = e) /\ ~(r.state = "deleting" /\ r.eid = e)
    BY DEF Unsettled
  <2>2. r.pEid # e
    BY <1>1 DEF Unsettled
  <2>3. Activated(r, e) = r
    BY <2>1 DEF Activated
  <2>4. Updated(r, e) = r
    BY <2>2 DEF Updated
  <2>5. QED
    BY <2>1, <2>3, <2>4 DEF Settled, Removed
<1>3. ASSUME r.state = "publishing", r.eid = e
      PROVE  Settled(r, e) = [r EXCEPT !.state = "active"] /\ r.pEid = 0
  <2> DEFINE a == [r EXCEPT !.state = "active"]
  <2>1. r.pEid = 0
    BY <1>1, <1>3
  <2>2. a.pEid = 0 /\ a.state = "active"
    BY <1>1, <2>1 DEF Row
  <2>3. Activated(r, e) = a
    BY <1>3 DEF Activated
  <2> HIDE DEF a
  <2>4. Updated(a, e) = a
    BY <1>1, <2>2 DEF Updated
  <2>5. Removed(a, e) = a
    BY <2>2 DEF Removed
  <2>6. QED
    BY <2>1, <2>3, <2>4, <2>5 DEF Settled, a
<1>4. ASSUME r.pEid = e PROVE r.state = "active" /\ Settled(r, e) = u
  <2>1. r.state = "active"
    BY <1>1, <1>4
  <2>2. Activated(r, e) = r
    BY <2>1 DEF Activated
  <2>3. Updated(r, e) = u
    BY <1>4 DEF Updated
  <2>4. u.state = "active"
    BY <1>1, <2>1 DEF Row
  <2> HIDE DEF u
  <2>5. Removed(u, e) = u
    BY <2>4 DEF Removed
  <2>6. QED
    BY <2>1, <2>2, <2>3, <2>5 DEF Settled
<1>5. ASSUME r.state = "deleting", r.eid = e PROVE Settled(r, e) = Absent
  <2>1. Activated(r, e) = r
    BY <1>5 DEF Activated
  <2>2. Updated(r, e) = r
    BY <1>1, <1>5 DEF Updated
  <2>3. QED
    BY <1>5, <2>1, <2>2 DEF Settled, Removed
<1>6. QED
  BY <1>2, <1>3, <1>4, <1>5 DEF r

\* What an acknowledgement does to a row, field by field.
LEMMA SettledRow ==
    ASSUME StoreTypeOK, NEW n \in Names, NEW e \in EventIds, RowDescribed(n)
    PROVE  LET r == rows[n]
               s == Settled(r, e)
           IN  /\ s \in Row
               /\ \/ s = r /\ e \notin Unsettled(r)
                  \/ /\ r.state = "publishing" /\ r.eid = e /\ r.pEid = 0
                     /\ s.state = "active" /\ s.eid = e /\ s.dest = r.dest /\ s.pEid = 0
                  \/ /\ r.state = "active" /\ r.pEid = e
                     /\ s.state = "active" /\ s.eid = e /\ s.dest = r.pDest /\ s.pEid = 0
                  \/ /\ r.state = "deleting" /\ r.eid = e
                     /\ s = Absent
<1> DEFINE r == rows[n]
           s == Settled(r, e)
<1>1. r \in Row
  BY DEF StoreTypeOK
<1>2. CASE e \notin Unsettled(r)
  BY <1>1, <1>2, SettledFacts
<1>3. CASE r.state = "publishing" /\ r.eid = e
  <2>1. s = [r EXCEPT !.state = "active"] /\ r.pEid = 0
    BY <1>3, SettledFacts
  <2>2. s \in Row
    BY <1>1, <2>1 DEF Row, RowStates
  <2>3. s.state = "active" /\ s.eid = r.eid /\ s.dest = r.dest /\ s.pEid = r.pEid
    BY <1>1, <2>1 DEF Row
  <2>4. QED
    BY <1>3, <2>1, <2>2, <2>3
<1>4. CASE r.pEid = e
  <2>1. /\ r.state = "active"
        /\ s = [r EXCEPT !.dest = r.pDest, !.rev = r.pRev, !.eid = e,
                         !.pDest = NoDest, !.pRev = 0, !.pEid = 0]
    BY <1>4, SettledFacts
  <2>2. r.pDest \in Dests \cup {NoDest} /\ r.pRev \in Nat
    BY <1>1 DEF Row
  <2>3. s = [state |-> r.state, rev |-> r.pRev, dest |-> r.pDest, eid |-> e,
             pDest |-> NoDest, pRev |-> 0, pEid |-> 0]
    BY <1>1, <2>1 DEF Row
  <2>4. s \in Row
    <3> HIDE DEF r, s
    <3>1. "active" \in RowStates /\ e \in EventIds \cup {0} /\ 0 \in EventIds \cup {0}
      BY DEF RowStates
    <3>2. QED
      BY <2>1, <2>2, <2>3, <3>1 DEF Row
  <2>5. s.state = "active" /\ s.eid = e /\ s.dest = r.pDest /\ s.pEid = 0
    BY <2>1, <2>3
  <2>6. QED
    BY <1>4, <2>1, <2>4, <2>5
<1>5. CASE r.state = "deleting" /\ r.eid = e
  <2>1. s = Absent
    BY <1>5, SettledFacts
  <2>2. Absent \in Row
    BY DEF Absent, Row, RowStates
  <2>3. QED
    BY <1>5, <2>1, <2>2
<1>6. QED
  BY <1>2, <1>3, <1>4, <1>5 DEF Unsettled

\* An acknowledgement preserves the invariant, however often and however late
\* it comes.
LEMMA AcknowledgeEventInv ==
    ASSUME StoreInv, NEW e \in EventIds, AcknowledgeEvent(e)
    PROVE  StoreInv'
<1>1. StoreTypeOK /\ \A n \in Names : RowDescribed(n)
  BY DEF StoreInv, EventsDescribeRows
<1>2. /\ outbox' = [outbox EXCEPT ![e] = "acknowledged"]
      /\ \A n \in Names : rows'[n] = Settled(rows[n], e)
      /\ \A n \in Names : attempts'[n] = Completed(attempts[n], e)
      /\ backups' = backups /\ events' = events
  BY DEF AcknowledgeEvent
<1>3. StoreTypeOK'
  <2>1. rows' \in [Names -> Row]
    BY <1>1, <1>2, SettledRow DEF AcknowledgeEvent
  <2>2. attempts' \in [Names -> Attempt]
    <3>1. ASSUME NEW n \in Names PROVE Completed(attempts[n], e) \in Attempt
      BY <1>1 DEF StoreTypeOK, Completed, Attempt, AttemptStates
    <3>2. QED
      BY <3>1 DEF AcknowledgeEvent
  <2>3. outbox' \in [EventIds -> OutboxStates]
    BY <1>1, <1>2 DEF StoreTypeOK, OutboxStates
  <2>4. QED
    BY <1>1, <1>2, <2>1, <2>2, <2>3 DEF StoreTypeOK
<1>4. EventsDescribeRows'
  <2> SUFFICES ASSUME NEW n \in Names PROVE RowDescribed(n)'
    BY DEF EventsDescribeRows
  <2>1. \A f, k, d : Says(f, n, k, d) => Says(f, n, k, d)'
    BY <1>2 DEF Says
  <2>2. QED
    BY <1>1, <1>2, <2>1, SettledRow DEF RowDescribed, Says, Absent, EventIds
<1>5. WaitingRowsAreQueued'
  <2> SUFFICES ASSUME NEW n \in Names, NEW f \in Unsettled(rows'[n])
               PROVE  f \in EventIds /\ outbox'[f] \in {"due", "backoff"}
    BY DEF WaitingRowsAreQueued, Unsettled, Pending
  <2>1. rows'[n] = rows[n] /\ e \notin Unsettled(rows[n])
    BY <1>1, <1>2, SettledRow DEF Unsettled, Absent
  <2>2. f \in EventIds /\ Pending(f) /\ f # e
    BY <2>1 DEF StoreInv, WaitingRowsAreQueued
  <2>3. QED
    BY <1>1, <1>2, <2>2 DEF StoreTypeOK, Pending
<1>6. AttemptsFollowRows'
  <2> SUFFICES ASSUME NEW n \in Names, attempts'[n].state = "publishing"
               PROVE  rows'[n].state = "publishing" /\ rows'[n].eid = attempts'[n].eid
    BY DEF AttemptsFollowRows
  <2>1. attempts[n] \in Attempt
    BY <1>1 DEF StoreTypeOK
  <2>2. attempts'[n] = attempts[n] /\ attempts[n].eid # e
    BY <1>2, <2>1 DEF Completed, Attempt
  <2>3. rows[n].state = "publishing" /\ rows[n].eid = attempts[n].eid
    BY <2>2 DEF StoreInv, AttemptsFollowRows
  <2>4. rows'[n] = rows[n]
    BY <1>1, <1>2, <2>2, <2>3, SettledRow
  <2>5. QED
    BY <2>2, <2>3, <2>4
<1>7. BackupIsNewestIntent'
  <2> SUFFICES ASSUME NEW n \in Names, rows'[n].state # "absent"
               PROVE  backups'[n] = IF rows'[n].pEid # 0 THEN rows'[n].pEid ELSE rows'[n].eid
    BY DEF BackupIsNewestIntent
  <2>1. rows[n].state # "absent" =>
            backups[n] = IF rows[n].pEid # 0 THEN rows[n].pEid ELSE rows[n].eid
    BY DEF StoreInv, BackupIsNewestIntent
  <2>2. QED
    BY <1>1, <1>2, <2>1, SettledRow DEF Absent, EventIds
<1>8. PendingIsNewer'
  BY <1>1, <1>2, SettledRow DEF StoreInv, PendingIsNewer, Absent
<1>9. QED
  BY <1>3, <1>4, <1>5, <1>6, <1>7, <1>8 DEF StoreInv

\* A change of an outbox status that keeps pending events pending preserves the
\* invariant: failures, elapsed backoffs and administrator retries.
LEMMA OutboxInv ==
    ASSUME StoreInv, UNCHANGED <<rows, attempts, backups, events>>,
           outbox' \in [EventIds -> OutboxStates],
           \A e \in EventIds : Pending(e) => outbox'[e] \in {"due", "backoff"}
    PROVE  StoreInv'
<1>1. StoreTypeOK'
  BY DEF StoreInv, StoreTypeOK
<1>2. EventsDescribeRows'
  BY DEF StoreInv, EventsDescribeRows, RowDescribed, Says
<1>3. WaitingRowsAreQueued'
  BY DEF StoreInv, WaitingRowsAreQueued, Unsettled, Pending
<1>4. AttemptsFollowRows' /\ BackupIsNewestIntent' /\ PendingIsNewer'
  BY DEF StoreInv, AttemptsFollowRows, BackupIsNewestIntent, PendingIsNewer
<1>5. QED
  BY <1>1, <1>2, <1>3, <1>4 DEF StoreInv

\* A failed publication preserves the invariant: fail_event leaves a waiting
\* event pending.
LEMMA FailEventInv ==
    ASSUME StoreInv, NEW e \in EventIds, FailEvent(e)
    PROVE  StoreInv'
<1>1. outbox \in [EventIds -> OutboxStates]
  BY DEF StoreInv, StoreTypeOK
<1>2. /\ outbox' \in [EventIds -> OutboxStates]
      /\ \A f \in EventIds : Pending(f) => outbox'[f] \in {"due", "backoff"}
  BY <1>1 DEF FailEvent, Pending, OutboxStates
<1>3. QED
  BY <1>2, OutboxInv DEF FailEvent

\* So does reaching next_attempt_at.
LEMMA BackoffElapsesInv ==
    ASSUME StoreInv, NEW e \in EventIds, BackoffElapses(e)
    PROVE  StoreInv'
<1>1. outbox \in [EventIds -> OutboxStates]
  BY DEF StoreInv, StoreTypeOK
<1>2. /\ outbox' \in [EventIds -> OutboxStates]
      /\ \A f \in EventIds : Pending(f) => outbox'[f] \in {"due", "backoff"}
  BY <1>1 DEF BackoffElapses, Pending, OutboxStates
<1>3. QED
  BY <1>2, OutboxInv DEF BackoffElapses

\* So does the administrator's retry, which may reset an acknowledged event.
LEMMA RetryEventNowInv ==
    ASSUME StoreInv, NEW e \in EventIds, RetryEventNow(e)
    PROVE  StoreInv'
<1>1. outbox \in [EventIds -> OutboxStates]
  BY DEF StoreInv, StoreTypeOK
<1>2. /\ outbox' \in [EventIds -> OutboxStates]
      /\ \A f \in EventIds : Pending(f) => outbox'[f] \in {"due", "backoff"}
  BY <1>1 DEF RetryEventNow, Pending, OutboxStates
<1>3. QED
  BY <1>2, OutboxInv DEF RetryEventNow

=============================================================================
