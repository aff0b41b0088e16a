--------------------- MODULE ConfigurationManagerProofs ---------------------
(***************************************************************************)
(* What the configuration tables keep for any number of requests, settings *)
(* and configurations.                                                     *)
(***************************************************************************)
EXTENDS ConfigurationManager, TLAPS

-----------------------------------------------------------------------------
(* The inductive invariant.                                                 *)

\* Events exist for what was staged, and what waits was staged last.
OutboxIsStaged ==
    /\ \A e \in Ids : outbox[e] # "none" => e <= Len(configs)
    /\ pending # 0 => pending = Len(configs)

\* A process publishes what was staged, and acknowledges what a relay took.
PublicationsAreStaged ==
    \A p \in Processes :
        /\ pub[p].phase # "idle" => pub[p].eid \in 1 .. Len(configs)
        /\ pub[p].phase = "acknowledging" => pub[p].eid \in taken

\* What is in force was taken by a relay, and only what waits was staged since.
ActiveIsTaken ==
    \E a \in taken \cap DOMAIN configs :
        /\ configs[a] = active
        /\ \A e \in DOMAIN configs : e <= a \/ e = pending

ConfigurationInv ==
    /\ TypeOK
    /\ ActiveIsTaken
    /\ PendingIsQueued
    /\ OutboxIsStaged
    /\ PublicationsAreStaged

LEMMA IdsAre == /\ Ids = 1 .. MaxConfigurations /\ MaxConfigurations \in Nat \ {0}
                /\ 1 \in Ids /\ 0 \notin Ids /\ Ids \subseteq Nat
  BY ConfigurationAssumption DEF Ids

LEMMA InitInv == Init => ConfigurationInv
<1> SUFFICES ASSUME Init PROVE ConfigurationInv
  OBVIOUS
<1>1. active \in Configuration /\ configs = <<active>>
  BY DEF Init, Configuration
<1>2. configs \in Seq(Configuration) /\ Len(configs) = 1 /\ configs[1] = active
      /\ 1 \in DOMAIN configs
  BY <1>1
<1>3. TypeOK
  <2>1. Len(configs) <= MaxConfigurations
    BY <1>2, IdsAre
  <2>2. /\ outbox \in [Ids -> {"none", "due", "backoff", "acknowledged"}]
        /\ pending \in Ids \cup {0} /\ taken \in SUBSET Ids
    BY IdsAre DEF Init
  <2>3. pub \in [Processes -> [phase: Phases, eid: Ids \cup {0}]]
    BY DEF Init, Idle, Phases
  <2>4. disturbances \in 0 .. MaxDisturbances
    BY ConfigurationAssumption DEF Init
  <2>5. QED
    BY <1>1, <1>2, <2>1, <2>2, <2>3, <2>4 DEF Init, TypeOK
<1>4. ActiveIsTaken
  BY <1>2 DEF Init, ActiveIsTaken
<1>5. PendingIsQueued
  BY IdsAre DEF Init, PendingIsQueued
<1>6. OutboxIsStaged /\ PublicationsAreStaged
  BY <1>2, IdsAre DEF Init, OutboxIsStaged, PublicationsAreStaged, Idle
<1>7. QED
  BY <1>3, <1>4, <1>5, <1>6 DEF ConfigurationInv

-----------------------------------------------------------------------------
(* Steps that leave the tables and the relays alone.                        *)

\* They keep the invariant when publications only end.
LEMMA TablesUntouched ==
  ASSUME ConfigurationInv, UNCHANGED <<tableVars, taken>>,
         lock' \in Admins \cup {Nobody},
         edit' \in [Admins -> Edit \cup {NoEdit}],
         pub' \in [Processes -> [phase: Phases, eid: Ids \cup {0}]],
         \A p \in Processes : pub'[p] = pub[p] \/ pub'[p].phase = "idle",
         disturbances' \in 0 .. MaxDisturbances
  PROVE  ConfigurationInv'
  BY DEF ConfigurationInv, TypeOK, ActiveIsTaken, PendingIsQueued, OutboxIsStaged,
         PublicationsAreStaged, tableVars

LEMMA LockInv ==
  ASSUME ConfigurationInv, NEW a \in Admins, NEW s \in Settings, NEW on \in BOOLEAN,
         Lock(a, s, on)
  PROVE  ConfigurationInv'
<1>1. [step |-> "revision", setting |-> s, on |-> on, rev |-> 0, settings |-> {}] \in Edit
  BY DEF Edit, EditSteps
<1>2. edit' \in [Admins -> Edit \cup {NoEdit}]
  BY <1>1 DEF Lock, ConfigurationInv, TypeOK
<1>3. QED
  BY <1>2, TablesUntouched DEF Lock, ConfigurationInv, TypeOK

\* A request has fields from its first step to its last.
LEMMA EditType ==
  ASSUME ConfigurationInv, NEW a \in Admins, edit[a].step # "idle"
  PROVE  edit[a] \in Edit
  BY DEF ConfigurationInv, TypeOK, NoEdit

LEMMA ReadingInv ==
  ASSUME ConfigurationInv, NEW a \in Admins, NEW from \in EditSteps \ {"idle"},
         NEW to \in EditSteps, NEW rev \in Nat, NEW settings \in SUBSET Settings,
         Reading(a, from, to, rev, settings)
  PROVE  ConfigurationInv'
<1>1. edit[a] \in Edit
  BY EditType DEF Reading
<1>2. [edit[a] EXCEPT !.step = to, !.rev = rev, !.settings = settings] \in Edit
  BY <1>1 DEF Edit
<1>3. edit' = [edit EXCEPT ![a] = [edit[a] EXCEPT !.step = to, !.rev = rev, !.settings = settings]]
  BY DEF Reading, ConfigurationInv, TypeOK
<1>4. edit' \in [Admins -> Edit \cup {NoEdit}]
  BY <1>2, <1>3 DEF ConfigurationInv, TypeOK
<1>5. QED
  BY <1>4, TablesUntouched DEF Reading, ConfigurationInv, TypeOK

LEMMA ReadInv ==
  ASSUME ConfigurationInv, NEW a \in Admins, Read(a) PROVE ConfigurationInv'
<1>1. active.rev \in Nat /\ active.settings \in SUBSET Settings
  BY DEF ConfigurationInv, TypeOK, Configuration
<1>2. CASE ReadRevision(a)
  <2>1. "revision" \in EditSteps \ {"idle"} /\ "reserved" \in EditSteps
    BY DEF EditSteps
  <2>2. QED
    BY <1>1, <1>2, <2>1, ReadingInv DEF ReadRevision
<1>3. ASSUME edit[a].step # "idle"
      PROVE  edit[a].rev \in Nat /\ edit[a].settings \in SUBSET Settings
  BY <1>3, EditType DEF Edit
<1>4. CASE ReadReserved(a)
  <2>1. "reserved" \in EditSteps \ {"idle"} /\ "policies" \in EditSteps
    BY DEF EditSteps
  <2>2. edit[a].step # "idle" /\ active.settings \cap Reservable \in SUBSET Settings
    BY <1>4 DEF ReadReserved, Reading, Settings
  <2>3. QED
    BY <1>3, <1>4, <2>1, <2>2, ReadingInv DEF ReadReserved
<1>5. CASE ReadPolicies(a)
  <2>1. "policies" \in EditSteps \ {"idle"} /\ "staging" \in EditSteps
    BY DEF EditSteps
  <2>2. edit[a].step # "idle"
    BY <1>5 DEF ReadPolicies, Reading
  <2>3. edit[a].settings \cup (active.settings \cap Policies) \in SUBSET Settings
    BY <1>1, <1>3, <2>2
  <2>4. QED
    BY <1>3, <1>5, <2>1, <2>2, <2>3, ReadingInv DEF ReadPolicies
<1>6. QED
  BY <1>2, <1>4, <1>5 DEF Read

LEMMA RejectInv ==
  ASSUME ConfigurationInv, NEW a \in Admins, Reject(a) PROVE ConfigurationInv'
  BY TablesUntouched DEF Reject, Released, ConfigurationInv, TypeOK

LEMMA AbandonInv ==
  ASSUME ConfigurationInv, NEW a \in Admins, Abandon(a) PROVE ConfigurationInv'
<1>1. Idle \in [phase: Phases, eid: Ids \cup {0}] /\ Idle.phase = "idle" /\ a \in Processes
  BY DEF Idle, Phases, Processes
<1>2. /\ pub' \in [Processes -> [phase: Phases, eid: Ids \cup {0}]]
      /\ \A p \in Processes : pub'[p] = pub[p] \/ pub'[p].phase = "idle"
  BY <1>1 DEF Abandon, ConfigurationInv, TypeOK
<1>3. QED
  BY <1>2, TablesUntouched DEF Abandon, Released, ConfigurationInv, TypeOK

LEMMA HangUpInv ==
  ASSUME ConfigurationInv, NEW a \in Admins, HangUp(a) PROVE ConfigurationInv'
  BY TablesUntouched DEF HangUp, ConfigurationInv, TypeOK

LEMMA DisturbInv ==
  ASSUME ConfigurationInv, WorkerAborts \/ Restart PROVE ConfigurationInv'
<1>1. Idle \in [phase: Phases, eid: Ids \cup {0}] /\ Idle.phase = "idle"
      /\ Worker \in Processes
  BY DEF Idle, Phases, Processes
<1>2. /\ pub' \in [Processes -> [phase: Phases, eid: Ids \cup {0}]]
      /\ \A p \in Processes : pub'[p] = pub[p] \/ pub'[p].phase = "idle"
  BY <1>1 DEF WorkerAborts, Restart, ConfigurationInv, TypeOK
<1>3. /\ lock' \in Admins \cup {Nobody}
      /\ edit' \in [Admins -> Edit \cup {NoEdit}]
  BY DEF WorkerAborts, Restart, ConfigurationInv, TypeOK
<1>4. disturbances' \in 0 .. MaxDisturbances
  BY ConfigurationAssumption DEF WorkerAborts, Restart, Disturb, ConfigurationInv, TypeOK
<1>5. QED
  BY <1>2, <1>3, <1>4, TablesUntouched DEF WorkerAborts, Restart, Disturb

-----------------------------------------------------------------------------
(* Staging.                                                                 *)

LEMMA StageInv ==
  ASSUME ConfigurationInv, NEW a \in Admins, Stage(a) PROVE ConfigurationInv'
<1>1. edit[a] \in Edit
  BY EditType DEF Stage
<1>2. Edited(edit[a]) \in Configuration
  BY <1>1 DEF Edited, Edit, Configuration
<1>3. PICK n \in Nat : n = Len(configs) /\ n < MaxConfigurations
  BY DEF Stage, ConfigurationInv, TypeOK
<1>4. /\ NextId = n + 1 /\ n + 1 \in Ids
      /\ configs \in Seq(Configuration)
  BY <1>3, IdsAre DEF NextId, ConfigurationInv, TypeOK
<1>5. /\ configs' \in Seq(Configuration) /\ Len(configs') = n + 1
      /\ \A e \in DOMAIN configs : e \in DOMAIN configs' /\ configs'[e] = configs[e]
  BY <1>2, <1>3, <1>4 DEF Stage
<1>6. a \in Processes /\ Idle \in [phase: Phases, eid: Ids \cup {0}] /\ Idle.phase = "idle"
      /\ [phase |-> "publishing", eid |-> n + 1] \in [phase: Phases, eid: Ids \cup {0}]
  BY <1>4 DEF Processes, Idle, Phases
<1>7. pub' \in [Processes -> [phase: Phases, eid: Ids \cup {0}]]
  BY <1>4, <1>6 DEF Stage, ConfigurationInv, TypeOK
<1>8. /\ outbox' = [outbox EXCEPT ![n + 1] = "due"]
      /\ outbox \in [Ids -> {"none", "due", "backoff", "acknowledged"}]
      /\ pending = 0 /\ pending' = n + 1
  BY <1>4 DEF Stage, ConfigurationInv, TypeOK
<1>9. TypeOK'
  <2>1. outbox' \in [Ids -> {"none", "due", "backoff", "acknowledged"}]
    BY <1>8
  <2>2. edit' \in [Admins -> Edit \cup {NoEdit}]
    BY DEF Stage, ConfigurationInv, TypeOK
  <2>3. Len(configs') <= MaxConfigurations /\ pending' \in Ids
    BY <1>3, <1>4, <1>5, <1>8, IdsAre
  <2>4. UNCHANGED <<active, lock, taken, disturbances>>
    BY DEF Stage
  <2>5. QED
    BY <1>5, <1>7, <2>1, <2>2, <2>3, <2>4 DEF ConfigurationInv, TypeOK
<1>10. ActiveIsTaken'
  <2>1. PICK c \in taken \cap DOMAIN configs :
            configs[c] = active /\ \A e \in DOMAIN configs : e <= c \/ e = pending
    BY DEF ConfigurationInv, ActiveIsTaken
  <2>2. c \in taken' \cap DOMAIN configs' /\ configs'[c] = active'
    BY <1>5, <2>1 DEF Stage
  <2>3. \A e \in DOMAIN configs' : e \in DOMAIN configs \/ e = pending'
    BY <1>3, <1>5, <1>8
  <2>4. \A e \in DOMAIN configs : e # pending
    BY <1>4, <1>8
  <2>5. QED
    BY <2>1, <2>2, <2>3, <2>4 DEF ActiveIsTaken
<1>11. PendingIsQueued'
  <2>1. \A e \in Ids : outbox[e] \notin {"due", "backoff"}
    BY <1>8, IdsAre DEF ConfigurationInv, PendingIsQueued
  <2>2. QED
    BY <1>4, <1>8, <2>1 DEF PendingIsQueued
<1>12. OutboxIsStaged'
  <2>1. \A e \in Ids : outbox[e] # "none" => e <= n
    BY <1>3 DEF ConfigurationInv, OutboxIsStaged
  <2>2. \A e \in Ids : outbox'[e] # "none" => e <= n + 1
    BY <1>3, <1>4, <1>8, <2>1, IdsAre
  <2>3. QED
    BY <1>5, <1>8, <2>2 DEF OutboxIsStaged
<1>13. PublicationsAreStaged'
  <2> SUFFICES ASSUME NEW p \in Processes
               PROVE  /\ pub'[p].phase # "idle" => pub'[p].eid \in 1 .. n + 1
                      /\ pub'[p].phase = "acknowledging" => pub'[p].eid \in taken'
    BY <1>5 DEF PublicationsAreStaged
  <2>1. CASE p = a
    BY <1>3, <1>4, <1>6, <2>1 DEF Stage, ConfigurationInv, TypeOK
  <2>2. CASE p # a
    <3>1. pub'[p] = pub[p] /\ taken' = taken
      BY <2>2 DEF Stage, ConfigurationInv, TypeOK
    <3>2. /\ pub[p].phase # "idle" => pub[p].eid \in 1 .. n
          /\ pub[p].phase = "acknowledging" => pub[p].eid \in taken
      BY <1>3 DEF ConfigurationInv, PublicationsAreStaged
    <3>3. QED
      BY <1>3, <3>1, <3>2
  <2>3. QED
    BY <2>1, <2>2
<1>14. QED
  BY <1>9, <1>10, <1>11, <1>12, <1>13 DEF ConfigurationInv

-----------------------------------------------------------------------------
(* Publication.                                                             *)

\* The event of a publication that is under way.
LEMMA EventOf ==
  ASSUME ConfigurationInv, NEW p \in Processes, pub[p].phase # "idle"
  PROVE  /\ pub[p].eid \in Ids /\ pub[p].eid \in DOMAIN configs
         /\ pub[p] \in [phase: Phases, eid: Ids \cup {0}]
<1>1. pub[p].eid \in 1 .. Len(configs)
  BY DEF ConfigurationInv, PublicationsAreStaged
<1>2. configs \in Seq(Configuration) /\ Len(configs) <= MaxConfigurations
  BY DEF ConfigurationInv, TypeOK
<1>3. pub[p].eid \in Ids /\ pub[p].eid \in DOMAIN configs
  BY <1>1, <1>2, IdsAre
<1>4. QED
  BY <1>3 DEF ConfigurationInv, TypeOK

\* One publication moves, and a relay may take its event.
LEMMA SendInv ==
  ASSUME ConfigurationInv, NEW p \in Processes, pub[p].phase = "publishing",
         NEW phase \in Phases, MoveTo(p, phase),
         taken' \in {taken, taken \cup {pub[p].eid}},
         phase = "acknowledging" => taken' = taken \cup {pub[p].eid},
         UNCHANGED <<tableVars, lock, edit, disturbances>>
  PROVE  ConfigurationInv'
<1>1. pub[p].eid \in Ids /\ pub[p] \in [phase: Phases, eid: Ids \cup {0}]
  BY EventOf
<1>2. pub' = [pub EXCEPT ![p] = [phase |-> phase, eid |-> pub[p].eid]]
  <2>1. [pub[p] EXCEPT !.phase = phase] = [phase |-> phase, eid |-> pub[p].eid]
    BY <1>1
  <2>2. pub' = [pub EXCEPT ![p] = [pub[p] EXCEPT !.phase = phase]]
    BY DEF MoveTo
  <2>3. QED
    BY <2>1, <2>2
<1>3. pub' \in [Processes -> [phase: Phases, eid: Ids \cup {0}]] /\ taken' \in SUBSET Ids
  BY <1>1, <1>2 DEF ConfigurationInv, TypeOK
<1>4. TypeOK' /\ PendingIsQueued' /\ OutboxIsStaged'
  BY <1>3 DEF ConfigurationInv, TypeOK, PendingIsQueued, OutboxIsStaged, tableVars
<1>5. ActiveIsTaken'
  BY DEF ConfigurationInv, ActiveIsTaken, tableVars
<1>6. PublicationsAreStaged'
  <2>1. \A q \in Processes : q # p => pub'[q] = pub[q]
    BY <1>2 DEF ConfigurationInv, TypeOK
  <2>2. pub'[p].phase = phase /\ pub'[p].eid = pub[p].eid
    BY <1>2 DEF ConfigurationInv, TypeOK
  <2>3. configs' = configs /\ taken \subseteq taken'
    BY DEF tableVars
  <2>4. pub[p].eid \in 1 .. Len(configs)
    BY DEF ConfigurationInv, PublicationsAreStaged
  <2>5. QED
    BY <2>1, <2>2, <2>3, <2>4 DEF ConfigurationInv, PublicationsAreStaged
<1>7. QED
  BY <1>4, <1>5, <1>6 DEF ConfigurationInv

\* A publication ends.
LEMMA FinishFacts ==
  ASSUME ConfigurationInv, NEW p \in Processes, Finish(p)
  PROVE  /\ lock' \in Admins \cup {Nobody}
         /\ pub' \in [Processes -> [phase: Phases, eid: Ids \cup {0}]]
         /\ \A q \in Processes : pub'[q] = pub[q] \/ pub'[q].phase = "idle"
<1>1. Idle \in [phase: Phases, eid: Ids \cup {0}] /\ Idle.phase = "idle"
  BY DEF Idle, Phases
<1>2. QED
  BY <1>1 DEF Finish, Released, ConfigurationInv, TypeOK

LEMMA AcknowledgeInv ==
  ASSUME ConfigurationInv, NEW p \in Processes, Acknowledge(p) PROVE ConfigurationInv'
<1>1. PICK e \in Ids : /\ e = pub[p].eid /\ e \in DOMAIN configs /\ e \in taken
                       /\ configs[e] \in Configuration
  <2>1. pub[p].eid \in Ids /\ pub[p].eid \in DOMAIN configs
    BY EventOf DEF Acknowledge
  <2>2. pub[p].eid \in taken
    BY DEF Acknowledge, ConfigurationInv, PublicationsAreStaged
  <2>3. configs \in Seq(Configuration)
    BY DEF ConfigurationInv, TypeOK
  <2>4. QED
    BY <2>1, <2>2, <2>3
<1>2. /\ outbox' = [outbox EXCEPT ![e] = "acknowledged"]
      /\ outbox \in [Ids -> {"none", "due", "backoff", "acknowledged"}]
      /\ UNCHANGED <<configs, edit, taken, disturbances>>
      /\ Finish(p) /\ Apply(e)
  BY <1>1 DEF Acknowledge, ConfigurationInv, TypeOK
<1>3. /\ lock' \in Admins \cup {Nobody}
      /\ pub' \in [Processes -> [phase: Phases, eid: Ids \cup {0}]]
      /\ \A q \in Processes : pub'[q] = pub[q] \/ pub'[q].phase = "idle"
  BY <1>2, FinishFacts
<1>4. TypeOK'
  BY <1>1, <1>2, <1>3 DEF Apply, ConfigurationInv, TypeOK
<1>5. ActiveIsTaken'
  <2>1. CASE pending = e
    <3>1. /\ active' = configs[e] /\ configs' = configs /\ taken' = taken
          /\ e = Len(configs)
      BY <1>1, <1>2, <2>1, IdsAre DEF Apply, ConfigurationInv, OutboxIsStaged
    <3>2. \A f \in DOMAIN configs : f <= e
      BY <3>1 DEF ConfigurationInv, TypeOK
    <3>3. QED
      BY <1>1, <3>1, <3>2 DEF ActiveIsTaken
  <2>2. CASE pending # e
    BY <1>2, <2>2 DEF Apply, ConfigurationInv, ActiveIsTaken
  <2>3. QED
    BY <2>1, <2>2
<1>6. PendingIsQueued'
  BY <1>2, IdsAre DEF Apply, ConfigurationInv, PendingIsQueued
<1>7. OutboxIsStaged'
  <2>1. configs \in Seq(Configuration) /\ e <= Len(configs)
    BY <1>1 DEF ConfigurationInv, TypeOK
  <2>2. QED
    BY <1>2, <2>1 DEF Apply, ConfigurationInv, OutboxIsStaged
<1>8. PublicationsAreStaged'
  BY <1>2, <1>3 DEF ConfigurationInv, PublicationsAreStaged
<1>9. QED
  BY <1>4, <1>5, <1>6, <1>7, <1>8 DEF ConfigurationInv

LEMMA RecordFailureInv ==
  ASSUME ConfigurationInv, NEW p \in Processes, RecordFailure(p) PROVE ConfigurationInv'
<1>1. PICK e \in Ids : e = pub[p].eid
  BY EventOf DEF RecordFailure
<1>2. /\ outbox' = [outbox EXCEPT ![e] = IF @ = "due" THEN "backoff" ELSE @]
      /\ outbox \in [Ids -> {"none", "due", "backoff", "acknowledged"}]
      /\ UNCHANGED <<configs, pending, active, edit, taken, disturbances>>
      /\ Finish(p)
  BY <1>1 DEF RecordFailure, ConfigurationInv, TypeOK
<1>3. /\ lock' \in Admins \cup {Nobody}
      /\ pub' \in [Processes -> [phase: Phases, eid: Ids \cup {0}]]
      /\ \A q \in Processes : pub'[q] = pub[q] \/ pub'[q].phase = "idle"
  BY <1>2, FinishFacts
<1>4. TypeOK'
  BY <1>2, <1>3 DEF ConfigurationInv, TypeOK
<1>5. ActiveIsTaken' /\ PendingIsQueued' /\ OutboxIsStaged'
  BY <1>2 DEF ConfigurationInv, ActiveIsTaken, PendingIsQueued, OutboxIsStaged
<1>6. PublicationsAreStaged'
  BY <1>2, <1>3 DEF ConfigurationInv, PublicationsAreStaged
<1>7. QED
  BY <1>4, <1>5, <1>6 DEF ConfigurationInv

LEMMA PublishInv ==
  ASSUME ConfigurationInv, NEW p \in Processes, Publish(p) PROVE ConfigurationInv'
<1>1. CASE PublishAccepted(p)
  BY <1>1, SendInv DEF PublishAccepted, Phases
<1>2. CASE PublishFailed(p)
  BY <1>2, SendInv DEF PublishFailed, Phases
<1>3. QED
  BY <1>1, <1>2, AcknowledgeInv, RecordFailureInv DEF Publish

LEMMA WorkerPublishesInv ==
  ASSUME ConfigurationInv, NEW e \in Ids, WorkerPublishes(e) PROVE ConfigurationInv'
<1>1. e \in 1 .. Len(configs)
  <2>1. e <= Len(configs) /\ Len(configs) \in Nat
    BY DEF WorkerPublishes, ConfigurationInv, OutboxIsStaged, TypeOK
  <2>2. QED
    BY <2>1, IdsAre
<1>2. Worker \in Processes /\ [phase |-> "publishing", eid |-> e] \in [phase: Phases, eid: Ids \cup {0}]
  BY DEF Processes, Phases
<1>3. pub' \in [Processes -> [phase: Phases, eid: Ids \cup {0}]]
  BY <1>2 DEF WorkerPublishes, ConfigurationInv, TypeOK
<1>4. TypeOK' /\ ActiveIsTaken' /\ PendingIsQueued' /\ OutboxIsStaged'
  BY <1>3 DEF WorkerPublishes, ConfigurationInv, TypeOK, ActiveIsTaken, PendingIsQueued,
              OutboxIsStaged, tableVars
<1>5. PublicationsAreStaged'
  BY <1>1, <1>2 DEF WorkerPublishes, ConfigurationInv, TypeOK, PublicationsAreStaged, tableVars
<1>6. QED
  BY <1>4, <1>5 DEF ConfigurationInv

LEMMA BackoffOverInv ==
  ASSUME ConfigurationInv, NEW e \in Ids, BackoffOver(e) PROVE ConfigurationInv'
  BY DEF BackoffOver, ConfigurationInv, TypeOK, ActiveIsTaken, PendingIsQueued,
         OutboxIsStaged, PublicationsAreStaged

-----------------------------------------------------------------------------
LEMMA NextInv == ConfigurationInv /\ [Next]_vars => ConfigurationInv'
<1> SUFFICES ASSUME ConfigurationInv, [Next]_vars PROVE ConfigurationInv'
  OBVIOUS
<1>1. CASE UNCHANGED vars
  BY <1>1 DEF vars, ConfigurationInv, TypeOK, ActiveIsTaken, PendingIsQueued,
              OutboxIsStaged, PublicationsAreStaged
<1>2. CASE \E a \in Admins, s \in Settings, on \in BOOLEAN : Lock(a, s, on)
  BY <1>2, LockInv
<1>3. CASE \E a \in Admins : Read(a) \/ Stage(a) \/ Reject(a) \/ Abandon(a) \/ HangUp(a)
  BY <1>3, ReadInv, StageInv, RejectInv, AbandonInv, HangUpInv
<1>4. CASE \E e \in Ids : WorkerPublishes(e) \/ BackoffOver(e)
  BY <1>4, WorkerPublishesInv, BackoffOverInv
<1>5. QED
  BY <1>1, <1>2, <1>3, <1>4, PublishInv, DisturbInv DEF Next

\* The inductive invariant, for any number of requests and configurations.
THEOREM ConfigurationInvariant == Spec => []ConfigurationInv
<1>1. Init => ConfigurationInv
  BY InitInv
<1>2. ConfigurationInv /\ [Next]_vars => ConfigurationInv'
  BY NextInv
<1>3. QED
  BY <1>1, <1>2, PTL DEF Spec

\* What the relays keep is in force or waits to be, and exactly what waits is in
\* the outbox, with the worker publishing beside a request that holds the lock
\* (configuration.rs, acknowledge_event).
THEOREM ConfigurationStaysConsistent == Spec => []Consistency
<1>1. ConfigurationInv => Consistency
  <2> SUFFICES ASSUME ConfigurationInv PROVE ActiveIsBacked
    BY DEF ConfigurationInv, Consistency
  <2>1. PICK a \in taken \cap DOMAIN configs :
            configs[a] = active /\ \A e \in DOMAIN configs : e <= a \/ e = pending
    BY DEF ConfigurationInv, ActiveIsTaken
  <2>2. a \in Nat /\ taken \subseteq Nat
    BY IdsAre DEF ConfigurationInv, TypeOK
  <2>3. CASE \A f \in taken \cap DOMAIN configs : f <= a
    BY <2>1, <2>3 DEF ActiveIsBacked
  <2>4. CASE \E f \in taken \cap DOMAIN configs : ~(f <= a)
    <3>1. pending \in taken \cap DOMAIN configs /\ ~(pending <= a)
      BY <2>1, <2>4
    <3>2. \A f \in taken \cap DOMAIN configs : f <= pending
      BY <2>1, <2>2, <3>1
    <3>3. QED
      BY <3>1, <3>2 DEF ActiveIsBacked
  <2>5. QED
    BY <2>3, <2>4
<1>2. QED
  BY <1>1, ConfigurationInvariant, PTL

\* A late or repeated acknowledgement never takes the configuration back: what is
\* in force changes only to what waits, which is newer than all that was
\* acknowledged (sqlite.rs:604).
THEOREM ConfigurationOnlyMovesForward == Spec => ConfigurationMovesForward
<1> DEFINE A == active' # active => /\ pending # 0
                                    /\ active' = configs[pending]
                                    /\ \A e \in Ids : outbox[e] = "acknowledged" => e < pending
<1>1. ASSUME ConfigurationInv, Next, active' # active PROVE A
  <2>1. PICK p \in Processes : Acknowledge(p)
    BY <1>1
       DEF Next, Lock, Read, ReadRevision, ReadReserved, ReadPolicies, Reading, Stage, Reject,
           Abandon, HangUp, Publish, PublishAccepted, PublishFailed, RecordFailure,
           WorkerPublishes, BackoffOver, WorkerAborts, Restart, Disturb, tableVars
  <2>2. pub[p].eid \in Ids
    BY <1>1, <2>1, EventOf DEF Acknowledge
  <2>3. pending = pub[p].eid /\ active' = configs[pending] /\ pending # 0
    BY <1>1, <2>1, <2>2, IdsAre DEF Acknowledge, Apply
  <2>4. ASSUME NEW e \in Ids, outbox[e] = "acknowledged" PROVE e < pending
    <3>1. e # pending
      BY <1>1, <2>4 DEF ConfigurationInv, PendingIsQueued
    <3>2. e <= pending /\ pending \in Nat
      BY <1>1, <2>2, <2>3, <2>4, IdsAre DEF ConfigurationInv, OutboxIsStaged
    <3>3. QED
      BY <3>1, <3>2, IdsAre
  <2>5. QED
    BY <2>3, <2>4
<1>2. ConfigurationInv /\ [Next]_vars => [A]_vars
  <2>1. UNCHANGED vars => active' = active
    BY DEF vars
  <2>2. QED
    BY <1>1, <2>1
<1>3. QED
  BY <1>2, ConfigurationInvariant, PTL DEF Spec, ConfigurationMovesForward
=============================================================================
