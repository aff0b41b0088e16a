---------------------------- MODULE RecoveryProofs ----------------------------
(***************************************************************************)
(* Proofs about Recovery and BackupMerge, for any number of names, relays, *)
(* requests and events.                                                    *)
(*                                                                         *)
(* First the merge: `IsNewer' orders the records of a coordinate strictly  *)
(* and totally, so a winner exists, and one turn of the loop keeps it.     *)
(* Then the relays: a relay that has taken an event in force keeps it or   *)
(* one staged later, so that what is acknowledged can be restored.         *)
(***************************************************************************)
EXTENDS Recovery, AddressStoreProofs, FiniteSetTheorems, WellFoundedInduction

-----------------------------------------------------------------------------
(* The merge *)

\* is_newer never prefers a record to itself, never prefers two records to each
\* other, is transitive, and decides between any two events.
THEOREM MergeOrder ==
    ASSUME NEW a \in Version, NEW b \in Version, NEW c \in Version
    PROVE  /\ ~IsNewer(a, a)
           /\ ~(IsNewer(a, b) /\ IsNewer(b, a))
           /\ IsNewer(a, b) /\ IsNewer(b, c) => IsNewer(a, c)
           /\ a.id # b.id => IsNewer(a, b) \/ IsNewer(b, a)
  BY DEF IsNewer, Version

\* A turn of the loop over the fetched events keeps the winner: if `current' is
\* newer than all other versions seen so far, then what replaces it is newer than
\* all others seen with `v'.
THEOREM TurnKeepsWinner ==
    ASSUME NEW S \in SUBSET Version, NEW current \in S, NEW v \in Version,
           \A w \in S \ {current} : IsNewer(current, w),
           \A w \in S : w # v => w.id # v.id
    PROVE  /\ Newer(current, v) \in S \cup {v}
           /\ \A w \in (S \cup {v}) \ {Newer(current, v)} : IsNewer(Newer(current, v), w)
<1>1. CASE IsNewer(v, current)
  <2>1. Newer(current, v) = v
    BY <1>1 DEF Newer
  <2>2. ASSUME NEW w \in S, w # v PROVE IsNewer(v, w)
    <3>1. CASE w = current
      BY <1>1, <3>1
    <3>2. CASE w # current
      BY <1>1, <3>2, MergeOrder
    <3>3. QED
      BY <3>1, <3>2
  <2>3. QED
    BY <2>1, <2>2
<1>2. CASE ~IsNewer(v, current)
  <2>1. Newer(current, v) = current
    BY <1>2 DEF Newer
  <2>2. v # current => IsNewer(current, v)
    BY <1>2, MergeOrder
  <2>3. QED
    BY <2>1, <2>2
<1>3. QED
  BY <1>1, <1>2

\* Among finitely many versions with different ids one is newer than all others.
LEMMA NewestExists ==
    ASSUME NEW F, IsFiniteSet(F), F # {},
           NEW v \in [F -> Version],
           \A e, f \in F : e # f => v[e].id # v[f].id
    PROVE  \E x \in F : \A y \in F \ {x} : IsNewer(v[x], v[y])
<1> DEFINE Beats(e) == {f \in F : IsNewer(v[f], v[e])}
           T == {Beats(e) : e \in F}
           R == StrictSubsetOrdering(F)
<1>1. IsWellFoundedOn(R, FiniteSubsetsOf(F))
  BY FS_StrictSubsetOrderingWellFounded
<1>2. FiniteSubsetsOf(F) = SUBSET F
  BY FS_FiniteSubsetsOfFinite
<1>3. T \subseteq SUBSET F /\ T # {}
  <2>1. \A e \in F : Beats(e) \in SUBSET F
    OBVIOUS
  <2> HIDE DEF Beats
  <2>2. QED
    BY <2>1
<1>4. \E t \in T : \A u \in T : <<u, t>> \notin R
  <2> HIDE DEF T, R
  <2>1. IsWellFoundedOn(R, SUBSET F)
    BY <1>1, <1>2
  <2>2. QED
    BY <2>1, <1>3, WFMin
<1>5. PICK x \in F : \A y \in F : <<Beats(y), Beats(x)>> \notin R
  BY <1>4
<1>6. ASSUME NEW y \in F, IsNewer(v[y], v[x]) PROVE FALSE
  <2>1. v[x] \in Version /\ v[y] \in Version
    OBVIOUS
  <2>2. y \in Beats(x) /\ y \notin Beats(y)
    BY <1>6, <2>1, MergeOrder
  <2>3. Beats(y) \subseteq Beats(x)
    BY <1>6, <2>1, MergeOrder
  <2>4. <<Beats(y), Beats(x)>> \in R
    BY <2>2, <2>3 DEF StrictSubsetOrdering
  <2>5. QED
    BY <2>4, <1>5
<1>7. \A y \in F \ {x} : IsNewer(v[x], v[y])
  BY <1>6, MergeOrder
<1>8. QED
  BY <1>7

LEMMA LeastNatural ==
    ASSUME NEW T \in SUBSET Nat, T # {}
    PROVE  \E x \in T : \A y \in T : x <= y
<1>1. \E x \in T : \A y \in T : ~(<<y, x>> \in OpToRel(<, Nat))
  BY NatLessThanWellFounded, WFMin, Zenon
<1>2. \A x, y \in Nat : y < x => <<y, x>> \in OpToRel(<, Nat)
  BY Zenon DEF OpToRel
<1>3. \E x \in T : \A y \in T : ~(y < x)
  BY <1>1, <1>2, Zenon
<1>4. QED
  BY <1>3

\* The winner of finitely many versions with different ids is the one that is
\* newer than all others.
LEMMA WinnerFacts ==
    ASSUME NEW S \in SUBSET Version, IsFiniteSet(S), S # {},
           \A v, w \in S : v # w => v.id # w.id
    PROVE  /\ Winner(S) \in S
           /\ \A w \in S \ {Winner(S)} : IsNewer(Winner(S), w)
           /\ \A x \in S : (\A w \in S \ {x} : IsNewer(x, w)) => x = Winner(S)
<1> DEFINE v == [x \in S |-> x]
<1>1. v \in [S -> Version] /\ \A e, f \in S : e # f => v[e].id # v[f].id
  OBVIOUS
<1>2. \E x \in S : \A y \in S \ {x} : IsNewer(v[x], v[y])
  <2> HIDE DEF v
  <2>1. QED
    BY <1>1, NewestExists
<1>3. \E x \in S : \A y \in S \ {x} : IsNewer(x, y)
  BY <1>2
<1>4. Winner(S) \in S /\ \A w \in S \ {Winner(S)} : IsNewer(Winner(S), w)
  BY <1>3 DEF Winner
<1>5. ASSUME NEW x \in S, \A w \in S \ {x} : IsNewer(x, w), x # Winner(S) PROVE FALSE
  <2>1. IsNewer(x, Winner(S)) /\ IsNewer(Winner(S), x)
    BY <1>4, <1>5
  <2>2. QED
    BY <2>1, <1>4, MergeOrder
<1>6. QED
  BY <1>4, <1>5

\* The winner of a set and one more version is what a turn of the loop makes of the
\* winner of the set.
LEMMA NextWinner ==
    ASSUME NEW S \in SUBSET Version, IsFiniteSet(S), S # {}, NEW x \in Version,
           \A v, w \in S \cup {x} : v # w => v.id # w.id
    PROVE  Winner(S \cup {x}) = Newer(Winner(S), x)
<1> DEFINE c == Winner(S)
           n == Newer(c, x)
<1>1. c \in S /\ \A w \in S \ {c} : IsNewer(c, w)
  BY WinnerFacts
<1> HIDE DEF c
<1>2. \A w \in S : w # x => w.id # x.id
  OBVIOUS
<1>3. n \in S \cup {x} /\ \A w \in (S \cup {x}) \ {n} : IsNewer(n, w)
  BY <1>1, <1>2, TurnKeepsWinner
<1> HIDE DEF n
<1>4. S \cup {x} \in SUBSET Version /\ IsFiniteSet(S \cup {x}) /\ S \cup {x} # {}
  BY FS_AddElement
<1>5. n = Winner(S \cup {x})
  BY <1>3, <1>4, WinnerFacts
<1>6. QED
  BY <1>5 DEF n, c

\* The loop returns the winner, in whatever order the versions arrive.  By the least
\* counterexample: its first turn has seen one version and its value is that version;
\* if its value after a turn is the winner of what has arrived so far, then so is it
\* after the next (NextWinner).
THEOREM LoopFindsWinner ==
    ASSUME NEW S \in SUBSET Version, IsFiniteSet(S),
           \A v, w \in S : v # w => v.id # w.id
    PROVE  OrderIrrelevant(S)
<1> DEFINE N == Cardinality(S)
<1> SUFFICES ASSUME S # {}, NEW arrival \in Bijection(1 .. N, S)
             PROVE  MergeLoop(arrival) = Winner(S)
  BY DEF OrderIrrelevant
<1>1. N \in Nat /\ N > 0
  BY FS_CardinalityType, FS_EmptySet
<1> HIDE DEF N
<1>2. /\ arrival \in [1 .. N -> S]
      /\ \A s \in S : \E j \in 1 .. N : arrival[j] = s
  BY DEF Bijection, Injection, Surjection
<1>3. DOMAIN arrival = 1 .. N /\ Len(arrival) = N /\ arrival \in Seq(S)
  BY <1>1, <1>2
<1> DEFINE seen(i) == {arrival[j] : j \in 1 .. i}
           turn(f, i) == IF i = 1 THEN arrival[1] ELSE Newer(f[i - 1], arrival[i])
           current[i \in DOMAIN arrival] ==
               IF i = 1 THEN arrival[1] ELSE Newer(current[i - 1], arrival[i])
           g == [i \in 1 .. N |-> Winner(seen(i))]
<1>4. MergeLoop(arrival) = current[Len(arrival)]
  BY DEF MergeLoop
<1>5. \A i \in 1 .. N : /\ seen(i) \in SUBSET S
                        /\ seen(i) # {}
                        /\ IsFiniteSet(seen(i))
  <2> SUFFICES ASSUME NEW i \in 1 .. N
               PROVE  seen(i) \in SUBSET S /\ seen(i) # {}
    BY FS_Subset
  <2>1. 1 .. i \subseteq 1 .. N /\ i \in 1 .. i
    BY <1>1
  <2>2. QED
    BY <2>1, <1>2
<1>6. seen(1) = {arrival[1]} /\ Winner(seen(1)) = arrival[1]
  <2>1. 1 .. 1 = {1} /\ 1 \in 1 .. N
    BY <1>1
  <2>2. seen(1) = {arrival[1]}
    BY <2>1
  <2>3. Winner({arrival[1]}) = arrival[1]
    BY DEF Winner
  <2>4. QED
    BY <2>2, <2>3
<1>7. \A i \in 1 .. N : i # 1 => /\ i - 1 \in 1 .. N
                                 /\ Winner(seen(i)) = Newer(Winner(seen(i - 1)), arrival[i])
  <2> SUFFICES ASSUME NEW i \in 1 .. N, i # 1
               PROVE  /\ i - 1 \in 1 .. N
                      /\ Winner(seen(i)) = Newer(Winner(seen(i - 1)), arrival[i])
    OBVIOUS
  <2>1. i - 1 \in 1 .. N /\ 1 .. i = (1 .. (i - 1)) \cup {i}
    BY <1>1
  <2>2. seen(i) = seen(i - 1) \cup {arrival[i]}
    BY <2>1
  <2>3. arrival[i] \in S
    BY <1>2
  <2>4. /\ seen(i - 1) \in SUBSET S
        /\ seen(i - 1) # {}
        /\ IsFiniteSet(seen(i - 1))
    BY <2>1, <1>5
  <2> HIDE DEF seen
  <2>5. Winner(seen(i - 1) \cup {arrival[i]}) = Newer(Winner(seen(i - 1)), arrival[i])
    BY <2>3, <2>4, NextWinner
  <2>6. QED
    BY <2>1, <2>2, <2>5
<1>8. g = [i \in 1 .. N |-> IF i = 1 THEN arrival[1] ELSE Newer(g[i - 1], arrival[i])]
  <2> HIDE DEF seen
  <2>1. \A i \in 1 .. N : g[i] = IF i = 1 THEN arrival[1] ELSE Newer(g[i - 1], arrival[i])
    BY <1>6, <1>7
  <2>2. QED
    BY <2>1
<1>9. current = [i \in 1 .. N |-> IF i = 1 THEN arrival[1] ELSE Newer(current[i - 1], arrival[i])]
  <2> HIDE DEF g
  <2>1. QED
    BY <1>3, <1>8
<1> HIDE DEF current, g, seen
<1>10. \A i \in 1 .. N : current[i] = Winner(seen(i))
  <2> DEFINE wrong == {i \in 1 .. N : current[i] # Winner(seen(i))}
  <2> SUFFICES ASSUME wrong # {} PROVE FALSE
    OBVIOUS
  <2>1. PICK i \in wrong : \A j \in wrong : i <= j
    <3>1. wrong \in SUBSET Nat
      BY <1>1
    <3> HIDE DEF wrong
    <3>2. QED
      BY <3>1, LeastNatural
  <2>2. i # 1
    BY <2>1, <1>6, <1>9
  <2>3. i - 1 \in 1 .. N /\ i - 1 \notin wrong
    BY <2>1, <2>2, <1>7
  <2>4. current[i] = Newer(Winner(seen(i - 1)), arrival[i])
    BY <2>1, <2>2, <2>3, <1>9
  <2>5. QED
    BY <2>1, <2>2, <2>4, <1>7
<1>11. seen(N) = S
  BY <1>2, <1>5, <1>1 DEF seen
<1>12. QED
  BY <1>1, <1>3, <1>4, <1>10, <1>11

-----------------------------------------------------------------------------
(* The inductive invariant *)

\* Whatever a table, a relay or a reader of this module takes for an event of a
\* name is one.
SignedFor(n) ==
    /\ \A r \in Relays : held[r][n] # 0 => held[r][n] \in EventsOf(n)
    /\ inForce[n] # 0 => inForce[n] \in EventsOf(n)
    /\ backups[n] # 0 => backups[n] \in EventsOf(n)

EventsSigned ==
    /\ \A n \in Names : SignedFor(n)
    /\ \A e \in EventIds : outbox[e] # "none" => e \in DOMAIN events

\* A relay keeps the event in force, or one staged later.
Retained(n) ==
    inForce[n] # 0 /\ InOrder(n) => \E r \in Relays : held[r][n] >= inForce[n]

RecoveryInv ==
    /\ TypeOK
    /\ StoreInv
    /\ attempts = [n \in Names |-> NoAttempt]
    /\ EventsSigned
    /\ \A n \in Names : Retained(n)

LEMMA IdsAreNat == \A e \in EventIds \cup {0} : e \in Nat
  BY StoreAssumption DEF EventIds

LEMMA HeldIds ==
    ASSUME TypeOK, NEW r \in Relays, NEW n \in Names
    PROVE  held[r][n] \in Nat /\ inForce[n] \in Nat
<1>1. held[r][n] \in EventIds \cup {0} /\ inForce[n] \in EventIds \cup {0}
  BY DEF TypeOK
<1>2. QED
  BY <1>1, IdsAreNat

LEMMA EventFacts ==
    ASSUME TypeOK, NEW e \in DOMAIN events
    PROVE  e \in EventIds /\ e \in Nat /\ events[e] \in Record
<1>1. events \in Seq(Record) /\ Len(events) <= MaxEvents /\ MaxEvents \in Nat
  BY StoreAssumption DEF TypeOK, StoreTypeOK
<1>2. QED
  BY <1>1 DEF EventIds

\* Two events of a name have versions that is_newer decides between.
LEMMA VersionFacts ==
    ASSUME TypeOK, NEW e \in DOMAIN events
    PROVE  /\ e \in EventIds
           /\ e \in Nat
           /\ events[e] \in Record
           /\ events[e].rev \in Nat
           /\ events[e].name \in Names
           /\ signedAt[e] \in Nat
           /\ VersionOf(e) \in Version
           /\ VersionOf(e).rev = events[e].rev
           /\ VersionOf(e).time = signedAt[e]
           /\ VersionOf(e).id = idSign * e
<1>1. /\ e \in EventIds /\ e \in Nat
      /\ events[e] \in Record
      /\ signedAt[e] \in Nat
      /\ idSign \in {1, -1}
  BY EventFacts, RecoveryAssumption DEF TypeOK
<1>2. events[e].rev \in Nat /\ events[e].name \in Names
  BY <1>1 DEF Record
<1>3. idSign * e \in Int
  BY <1>1
<1>4. QED
  BY <1>1, <1>2, <1>3 DEF VersionOf, Version

LEMMA IdsDiffer ==
    ASSUME TypeOK, NEW e \in DOMAIN events, NEW f \in DOMAIN events, e # f
    PROVE  VersionOf(e).id # VersionOf(f).id
<1>1. /\ VersionOf(e).id = idSign * e
      /\ VersionOf(f).id = idSign * f
      /\ e \in Nat /\ f \in Nat
  BY VersionFacts
<1>2. CASE idSign = 1
  BY <1>1, <1>2
<1>3. CASE idSign = -1
  BY <1>1, <1>3
<1>4. QED
  BY <1>2, <1>3 DEF TypeOK

\* `Merged' is the event that is newer than all others.
LEMMA MergedFacts ==
    ASSUME TypeOK, NEW F \in SUBSET (DOMAIN events), F # {}
    PROVE  /\ Merged(F) \in F
           /\ \A f \in F \ {Merged(F)} : IsNewer(VersionOf(Merged(F)), VersionOf(f))
<1> DEFINE v == [e \in F |-> VersionOf(e)]
           S == {VersionOf(f) : f \in F}
<1>1. IsFiniteSet(F)
  <2>1. Len(events) \in Int /\ DOMAIN events = 1 .. Len(events)
    BY DEF TypeOK, StoreTypeOK
  <2>2. IsFiniteSet(DOMAIN events)
    BY <2>1, FS_Interval
  <2>3. QED
    BY <2>2, FS_Subset
<1>2. v \in [F -> Version] /\ \A e, f \in F : e # f => v[e].id # v[f].id
  BY VersionFacts, IdsDiffer
<1>3. PICK x \in F : \A y \in F \ {x} : IsNewer(v[x], v[y])
  <2> HIDE DEF v
  <2>1. QED
    BY <1>1, <1>2, NewestExists
<1>4. \A y \in F \ {x} : IsNewer(VersionOf(x), VersionOf(y))
  BY <1>3
<1>5. VersionOf(x) \in S /\ \A w \in S \ {VersionOf(x)} : IsNewer(VersionOf(x), w)
  BY <1>4
<1>6. Winner(S) \in S /\ \A w \in S \ {Winner(S)} : IsNewer(Winner(S), w)
  BY <1>5 DEF Winner
<1>7. Merged(F) \in F /\ VersionOf(Merged(F)) = Winner(S)
  BY <1>6 DEF Merged
<1>8. ASSUME NEW f \in F, f # Merged(F) PROVE IsNewer(VersionOf(Merged(F)), VersionOf(f))
  <2>1. VersionOf(f) # VersionOf(Merged(F))
    BY <1>7, <1>8, IdsDiffer
  <2>2. QED
    BY <2>1, <1>6, <1>7
<1>9. QED
  BY <1>7, <1>8

-----------------------------------------------------------------------------
(* Initially *)

LEMMA InitInv == Init => RecoveryInv
<1> SUFFICES ASSUME Init PROVE RecoveryInv
  OBVIOUS
<1>1. /\ Absent \in Row /\ Absent.state = "absent" /\ Absent.pEid = 0
      /\ NoAttempt \in Attempt /\ NoAttempt.state = "none"
  BY DEF Absent, Row, RowStates, NoAttempt, Attempt, AttemptStates
<1>2. \A n \in Names : rows[n] = Absent /\ attempts[n] = NoAttempt
  BY DEF Init, EmptyTables
<1>3. StoreTypeOK
  <2>1. rows \in [Names -> Row] /\ attempts \in [Names -> Attempt]
    BY <1>1 DEF Init, EmptyTables
  <2>2. outbox \in [EventIds -> OutboxStates] /\ backups \in [Names -> EventIds \cup {0}]
    BY DEF Init, EmptyTables, OutboxStates
  <2>3. events \in Seq(Record) /\ Len(events) <= MaxEvents
    BY StoreAssumption DEF Init
  <2>4. QED
    BY <2>1, <2>2, <2>3 DEF StoreTypeOK
<1>4. TypeOK
  <2>1. now \in 0 .. MaxTime /\ signedAt \in [EventIds -> 0 .. MaxTime]
    BY RecoveryAssumption DEF Init
  <2>2. held \in [Relays -> [Names -> EventIds \cup {0}]]
    BY DEF Init
  <2>3. read \in [Requests -> [name: Names, rev: Nat] \cup {NoRead}]
    BY DEF Init
  <2>4. inForce \in [Names -> EventIds \cup {0}]
    BY DEF Init
  <2>5. QED
    BY <1>3, <2>1, <2>2, <2>3, <2>4 DEF TypeOK, Init
<1>5. EventsDescribeRows
  BY <1>1, <1>2 DEF EventsDescribeRows, RowDescribed
<1>6. WaitingRowsAreQueued
  BY <1>1, <1>2 DEF WaitingRowsAreQueued, Unsettled
<1>7. AttemptsFollowRows /\ BackupIsNewestIntent /\ PendingIsNewer
  BY <1>1, <1>2 DEF AttemptsFollowRows, BackupIsNewestIntent, PendingIsNewer
<1>8. EventsSigned
  BY DEF EventsSigned, SignedFor, Init, EmptyTables
<1>9. \A n \in Names : Retained(n)
  BY DEF Retained, Init
<1>10. attempts = [n \in Names |-> NoAttempt]
  BY DEF Init, EmptyTables
<1>11. QED
  BY <1>3, <1>4, <1>5, <1>6, <1>7, <1>8, <1>9, <1>10 DEF RecoveryInv, StoreInv

-----------------------------------------------------------------------------
(* Requests *)

\* A mutation adds an event to the sequence and changes nothing at the relays.
LEMMA StagedInv ==
    ASSUME RecoveryInv, NEW record \in Record, Enqueue(record), Signed,
           StoreInv', attempts' = attempts,
           read' \in [Requests -> [name: Names, rev: Nat] \cup {NoRead}],
           UNCHANGED <<now, idSign, held, inForce, lost, partial>>
    PROVE  RecoveryInv'
<1>1. /\ NextId \in EventIds
      /\ DOMAIN events \subseteq DOMAIN events'
      /\ NextId \in DOMAIN events' /\ NextId \notin DOMAIN events
      /\ events'[NextId] = record
      /\ \A e \in DOMAIN events : events'[e] = events[e]
  BY EnqueueFacts DEF RecoveryInv, TypeOK
<1>2. signedAt' = [signedAt EXCEPT ![NextId] = now]
  BY DEF Signed
<1>3. TypeOK'
  BY <1>2 DEF RecoveryInv, StoreInv, TypeOK
<1>4. \A n \in Names : EventsOf(n) \subseteq EventsOf(n)'
  BY <1>1 DEF EventsOf
<1>5. EventsSigned'
  <2>1. backups' = [backups EXCEPT ![record.name] = NextId]
    BY DEF Enqueue
  <2>2. outbox' = [outbox EXCEPT ![NextId] = "due"]
    BY DEF Enqueue
  <2>3. \A n \in Names : backups'[n] # 0 => backups'[n] \in EventsOf(n)'
    <3>1. backups \in [Names -> EventIds \cup {0}]
      BY DEF RecoveryInv, StoreInv, StoreTypeOK
    <3>2. record.name \in Names /\ NextId \in EventsOf(record.name)'
      BY <1>1 DEF EventsOf, Record
    <3>3. QED
      BY <2>1, <3>1, <3>2, <1>4 DEF RecoveryInv, EventsSigned, SignedFor
  <2>4. \A e \in EventIds : outbox'[e] # "none" => e \in DOMAIN events'
    BY <2>2, <1>1 DEF RecoveryInv, EventsSigned, StoreInv, StoreTypeOK
  <2>5. QED
    BY <2>3, <2>4, <1>4 DEF RecoveryInv, EventsSigned, SignedFor
<1>6. ASSUME NEW n \in Names, InOrder(n)' PROVE InOrder(n)
  <2>1. \A e \in DOMAIN events : signedAt'[e] = signedAt[e]
    BY <1>1, <1>2, EventFacts DEF RecoveryInv, TypeOK
  <2>2. QED
    BY <1>1, <1>4, <1>6, <2>1 DEF InOrder, EventsOf
<1>7. \A n \in Names : Retained(n)'
  BY <1>6 DEF Retained, RecoveryInv
<1>8. QED
  BY <1>3, <1>5, <1>7 DEF RecoveryInv

LEMMA RegisterInv ==
    ASSUME RecoveryInv, NEW n \in Names, NEW d \in Dests, Register(n, d)
    PROVE  RecoveryInv'
<1> DEFINE record == [name |-> n, kind |-> "active", rev |-> 1, dest |-> d]
<1>1. record \in Record /\ record.name = n /\ record.kind = "active"
  BY DEF Record
<1> HIDE DEF record
<1>2. /\ StageFree(n, record) /\ Signed
      /\ UNCHANGED <<now, idSign, held, read, inForce, lost, partial>>
  BY DEF Register, record
<1>3. StoreInv'
  BY <1>1, <1>2, StageFreeInv DEF RecoveryInv
<1>4. Enqueue(record) /\ attempts' = attempts
  BY <1>2 DEF StageFree
<1>5. read' \in [Requests -> [name: Names, rev: Nat] \cup {NoRead}]
  BY <1>2 DEF RecoveryInv, TypeOK
<1>6. QED
  BY <1>1, <1>2, <1>3, <1>4, <1>5, StagedInv

\* The row that a request has read.
LEMMA ReadFacts ==
    ASSUME RecoveryInv, NEW q \in Requests, read[q] # NoRead
    PROVE  read[q].name \in Names /\ read[q].rev \in Nat /\ read[q].rev + 1 \in Nat
  BY DEF RecoveryInv, TypeOK

LEMMA AnsweredFacts ==
    ASSUME RecoveryInv, NEW q \in Requests, Answered(q)
    PROVE  read' \in [Requests -> [name: Names, rev: Nat] \cup {NoRead}]
  BY DEF RecoveryInv, TypeOK, Answered

LEMMA UpdateInv ==
    ASSUME RecoveryInv, NEW q \in Requests, NEW d \in Dests, Update(q, d)
    PROVE  RecoveryInv'
<1> DEFINE n == read[q].name
           record == [name |-> n, kind |-> "active", rev |-> read[q].rev + 1, dest |-> d]
<1>1. n \in Names /\ record \in Record /\ record.name = n /\ record.kind = "active"
  BY ReadFacts DEF Update, Record
<1>2. /\ StageAddressUpdate(n, record) /\ Signed /\ Answered(q)
      /\ UNCHANGED <<now, idSign, held, inForce, lost, partial>>
  BY DEF Update
<1> HIDE DEF n, record
<1>3. StoreInv'
  BY <1>1, <1>2, StageAddressUpdateInv DEF RecoveryInv
<1>4. Enqueue(record) /\ attempts' = attempts
  BY <1>2 DEF StageAddressUpdate
<1>5. QED
  BY <1>1, <1>2, <1>3, <1>4, AnsweredFacts, StagedInv

LEMMA RemoveInv ==
    ASSUME RecoveryInv, NEW q \in Requests, Remove(q)
    PROVE  RecoveryInv'
<1> DEFINE n == read[q].name
           record == [name |-> n, kind |-> "deleted", rev |-> read[q].rev + 1,
                      dest |-> NoDest]
<1>1. /\ n \in Names /\ record \in Record
      /\ record.name = n /\ record.kind = "deleted" /\ record.dest = NoDest
  BY ReadFacts DEF Remove, Record
<1>2. /\ StageDeletion(n, record) /\ Signed /\ Answered(q)
      /\ UNCHANGED <<now, idSign, held, inForce, lost, partial>>
  BY DEF Remove
<1> HIDE DEF n, record
<1>3. StoreInv'
  BY <1>1, <1>2, StageDeletionInv DEF RecoveryInv
<1>4. Enqueue(record) /\ attempts' = attempts
  BY <1>2 DEF StageDeletion
<1>5. QED
  BY <1>1, <1>2, <1>3, <1>4, AnsweredFacts, StagedInv

-----------------------------------------------------------------------------
(* Relays *)

\* A relay that takes an event in order never goes back.
LEMMA KeptFacts ==
    ASSUME RecoveryInv, NEW r \in Relays, NEW n \in Names, NEW e \in EventsOf(n),
           InOrder(n)
    PROVE  Kept(r, n, e) >= held[r][n] /\ Kept(r, n, e) >= e
<1> DEFINE h == held[r][n]
<1>1. e \in DOMAIN events /\ e \in Nat
  BY EventFacts DEF EventsOf, RecoveryInv
<1>2. CASE h = 0
  BY <1>1, <1>2 DEF Kept
<1>3. CASE h # 0
  <2>1. h \in EventsOf(n)
    BY <1>3 DEF RecoveryInv, EventsSigned, SignedFor
  <2>2. h \in DOMAIN events /\ h \in Nat
    BY <2>1, EventFacts DEF EventsOf, RecoveryInv
  <2>3. /\ signedAt[e] \in Nat /\ signedAt[h] \in Nat
        /\ VersionOf(e).time = signedAt[e] /\ VersionOf(h).time = signedAt[h]
    BY <1>1, <2>2, VersionFacts DEF RecoveryInv
  <2>4. /\ e < h => signedAt[e] < signedAt[h]
        /\ h < e => signedAt[h] < signedAt[e]
    BY <2>1 DEF InOrder
  <2>5. CASE e = h
    BY <2>5, <2>2 DEF Kept
  <2>6. CASE e < h
    <3>1. ~RelayPrefers(VersionOf(e), VersionOf(h))
      BY <2>3, <2>4, <2>6 DEF RelayPrefers
    <3>2. QED
      BY <3>1, <1>3, <1>1, <2>2, <2>6 DEF Kept
  <2>7. CASE h < e
    <3>1. RelayPrefers(VersionOf(e), VersionOf(h))
      BY <2>3, <2>4, <2>7 DEF RelayPrefers
    <3>2. QED
      BY <3>1, <1>1, <2>2, <2>7 DEF Kept
  <2>8. QED
    BY <1>1, <2>2, <2>5, <2>6, <2>7
<1>4. QED
  BY <1>2, <1>3

LEMMA StoreFacts ==
    ASSUME RecoveryInv, NEW R \in SUBSET Relays, NEW e \in DOMAIN events, Store(R, e)
    PROVE  /\ held' \in [Relays -> [Names -> EventIds \cup {0}]]
           /\ \A r \in Relays, n \in Names : held'[r][n] # 0 => held'[r][n] \in EventsOf(n)
           /\ \A r \in Relays, n \in Names : InOrder(n) => held'[r][n] >= held[r][n]
           /\ \A r \in R : InOrder(events[e].name) => held'[r][events[e].name] >= e
<1> DEFINE m == events[e].name
<1>1. m \in Names /\ e \in EventIds /\ e \in EventsOf(m)
  BY VersionFacts DEF RecoveryInv, EventsOf
<1>2. held \in [Relays -> [Names -> EventIds \cup {0}]]
  BY DEF RecoveryInv, TypeOK
<1>3. \A r \in Relays : Kept(r, m, e) \in {e, held[r][m]}
  BY DEF Kept
<1>4. /\ \A r \in R : held'[r] = [held[r] EXCEPT ![m] = Kept(r, m, e)]
      /\ \A r \in Relays \ R : held'[r] = held[r]
      /\ DOMAIN held' = Relays
  BY DEF Store
<1> HIDE DEF m
<1>5. held' \in [Relays -> [Names -> EventIds \cup {0}]]
  <2>1. ASSUME NEW r \in Relays PROVE held'[r] \in [Names -> EventIds \cup {0}]
    <3>1. held[r] \in [Names -> EventIds \cup {0}]
      BY <1>2
    <3>2. Kept(r, m, e) \in EventIds \cup {0}
      BY <1>1, <1>3, <3>1
    <3>3. CASE r \in R
      BY <1>4, <3>1, <3>2, <3>3
    <3>4. CASE r \notin R
      BY <1>4, <3>1, <3>4
    <3>5. QED
      BY <3>3, <3>4
  <2>2. held' = [r \in Relays |-> held'[r]]
    BY DEF Store
  <2>3. QED
    BY <2>1, <2>2
<1>6. ASSUME NEW r \in Relays, NEW n \in Names
      PROVE  \/ held'[r][n] = held[r][n]
             \/ n = m /\ r \in R
  <2>1. held[r] \in [Names -> EventIds \cup {0}]
    BY <1>2
  <2>2. CASE r \in R
    BY <1>4, <2>1, <2>2
  <2>3. CASE r \notin R
    BY <1>4, <2>3
  <2>4. QED
    BY <2>2, <2>3
<1>7. ASSUME NEW r \in R PROVE held'[r][m] = Kept(r, m, e)
  <2>1. held[r] \in [Names -> EventIds \cup {0}]
    BY <1>2
  <2>2. held'[r] = [held[r] EXCEPT ![m] = Kept(r, m, e)]
    BY <1>4
  <2>3. QED
    BY <1>1, <2>1, <2>2
<1>8. ASSUME NEW r \in Relays, NEW n \in Names, held'[r][n] # 0
      PROVE  held'[r][n] \in EventsOf(n)
  <2>1. held[r][n] # 0 => held[r][n] \in EventsOf(n)
    BY DEF RecoveryInv, EventsSigned, SignedFor
  <2>2. QED
    BY <1>1, <1>3, <1>6, <1>7, <1>8, <2>1
<1>9. ASSUME NEW r \in Relays, NEW n \in Names, InOrder(n)
      PROVE  held'[r][n] >= held[r][n]
  <2>1. held[r][n] \in Nat
    BY <1>2, StoreAssumption DEF EventIds
  <2>2. QED
    BY <1>1, <1>6, <1>7, <1>9, <2>1, KeptFacts
<1>10. ASSUME NEW r \in R, InOrder(m) PROVE held'[r][m] >= e
  BY <1>1, <1>7, <1>10, KeptFacts
<1>11. QED
  BY <1>5, <1>8, <1>9, <1>10 DEF m

\* Events and their order are what they were.
LEMMA SameOrder ==
    ASSUME UNCHANGED <<events, signedAt>>
    PROVE  /\ \A n \in Names : EventsOf(n)' = EventsOf(n)
           /\ \A n \in Names : InOrder(n)' = InOrder(n)
  BY DEF EventsOf, InOrder

\* What relays take without an acknowledgement.
LEMMA TakenInv ==
    ASSUME RecoveryInv, NEW R \in SUBSET Relays, NEW e \in DOMAIN events, Store(R, e),
           UNCHANGED <<storeVars, now, signedAt, idSign, read, inForce, lost, partial>>
    PROVE  RecoveryInv'
<1>1. /\ UNCHANGED <<rows, attempts, outbox, backups, events>>
      /\ inForce' = inForce
  BY DEF storeVars
<1>2. StoreInv'
  BY <1>1, OutboxInv DEF RecoveryInv, StoreInv, StoreTypeOK, Pending
<1>3. TypeOK'
  BY <1>2, StoreFacts DEF RecoveryInv, TypeOK, StoreInv
<1>4. EventsSigned'
  BY <1>1, SameOrder, StoreFacts DEF RecoveryInv, EventsSigned, SignedFor
<1>5. ASSUME NEW n \in Names PROVE Retained(n)'
  <2>1. SUFFICES ASSUME inForce[n] # 0, InOrder(n)
                 PROVE  \E r \in Relays : held'[r][n] >= inForce[n]
    BY <1>1, SameOrder DEF Retained
  <2>2. PICK r \in Relays : held[r][n] >= inForce[n]
    BY <2>1 DEF RecoveryInv, Retained
  <2>3. held'[r][n] >= held[r][n]
    BY <2>1, StoreFacts
  <2>4. /\ held[r][n] \in Nat /\ inForce[n] \in Nat
        /\ held'[r][n] \in Nat
    BY HeldIds, StoreFacts, IdsAreNat DEF RecoveryInv
  <2>5. QED
    BY <2>2, <2>3, <2>4
<1>6. QED
  BY <1>1, <1>2, <1>3, <1>4, <1>5 DEF RecoveryInv

LEMMA PublishInv ==
    ASSUME RecoveryInv, NEW e \in EventIds, NEW R \in SUBSET Relays, Publish(e, R)
    PROVE  RecoveryInv'
<1>1. /\ Pending(e) /\ R # {} /\ Store(R, e) /\ AcknowledgeEvent(e)
      /\ inForce' = [n \in Names |-> IF rows'[n] # rows[n] THEN e ELSE inForce[n]]
      /\ UNCHANGED <<now, signedAt, idSign, read, lost, partial>>
  BY DEF Publish
<1>2. /\ rows' = [n \in Names |-> Settled(rows[n], e)]
      /\ attempts' = [n \in Names |-> Completed(attempts[n], e)]
      /\ outbox' = [outbox EXCEPT ![e] = "acknowledged"]
      /\ backups' = backups /\ events' = events
  BY <1>1 DEF AcknowledgeEvent
<1>3. e \in DOMAIN events
  BY <1>1 DEF RecoveryInv, EventsSigned, Pending
<1>4. StoreInv'
  BY <1>1, AcknowledgeEventInv DEF RecoveryInv
<1>5. attempts' = [n \in Names |-> NoAttempt]
  BY <1>2 DEF RecoveryInv, Completed, NoAttempt
<1>6. inForce' \in [Names -> EventIds \cup {0}]
  BY <1>1 DEF RecoveryInv, TypeOK
<1>7. TypeOK'
  BY <1>1, <1>3, <1>4, <1>6, StoreFacts DEF RecoveryInv, TypeOK, StoreInv
<1>8. ASSUME NEW n \in Names, rows'[n] # rows[n] PROVE e \in EventsOf(n)
  <2>1. /\ StoreTypeOK /\ rows[n] \in Row /\ RowDescribed(n)
    BY DEF RecoveryInv, StoreInv, EventsDescribeRows, StoreTypeOK
  <2>2. e \in Unsettled(rows[n])
    BY <1>2, <1>8, <2>1, SettledFacts
  <2>3. events[e].name = n
    BY <2>1, <2>2 DEF Unsettled, RowDescribed, Says
  <2>4. QED
    BY <1>3, <2>3 DEF EventsOf
<1>9. EventsSigned'
  <2>1. \A n \in Names : inForce'[n] # 0 => inForce'[n] \in EventsOf(n)
    BY <1>1, <1>8 DEF RecoveryInv, EventsSigned, SignedFor
  <2>2. \A f \in EventIds : outbox'[f] # "none" => f \in DOMAIN events
    BY <1>2, <1>3 DEF RecoveryInv, EventsSigned, StoreInv, StoreTypeOK
  <2>3. QED
    BY <1>1, <1>2, <1>3, <2>1, <2>2, SameOrder, StoreFacts
       DEF RecoveryInv, EventsSigned, SignedFor
<1>10. ASSUME NEW n \in Names PROVE Retained(n)'
  <2>1. SUFFICES ASSUME inForce'[n] # 0, InOrder(n)
                 PROVE  \E r \in Relays : held'[r][n] >= inForce'[n]
    BY <1>1, <1>2, SameOrder DEF Retained
  <2>2. CASE rows'[n] # rows[n]
    <3>1. inForce'[n] = e /\ events[e].name = n
      BY <1>1, <1>8, <2>2 DEF EventsOf
    <3>2. PICK r \in R : TRUE
      BY <1>1
    <3>3. held'[r][n] >= e
      BY <1>1, <1>3, <2>1, <3>1, StoreFacts
    <3>4. QED
      BY <3>1, <3>3
  <2>3. CASE rows'[n] = rows[n]
    <3>1. inForce'[n] = inForce[n]
      BY <1>1, <2>3
    <3>2. PICK r \in Relays : held[r][n] >= inForce[n]
      BY <2>1, <3>1 DEF RecoveryInv, Retained
    <3>3. held'[r][n] >= held[r][n]
      BY <1>1, <1>3, <2>1, StoreFacts
    <3>4. held[r][n] \in Nat /\ inForce[n] \in Nat
      BY HeldIds DEF RecoveryInv
    <3>5. held'[r][n] \in Nat
      BY <1>1, <1>3, StoreFacts, IdsAreNat
    <3>6. QED
      BY <3>1, <3>2, <3>3, <3>4, <3>5
  <2>4. QED
    BY <2>2, <2>3
<1>11. QED
  BY <1>4, <1>5, <1>7, <1>9, <1>10 DEF RecoveryInv

LEMMA PublishUnansweredInv ==
    ASSUME RecoveryInv, NEW e \in EventIds, NEW R \in SUBSET Relays, PublishUnanswered(e, R)
    PROVE  RecoveryInv'
<1>1. e \in DOMAIN events
  BY DEF PublishUnanswered, RecoveryInv, EventsSigned, Pending
<1>2. QED
  BY <1>1, TakenInv DEF PublishUnanswered

LEMMA RepairInv ==
    ASSUME RecoveryInv, NEW r \in Relays, NEW n \in Names, Repair(r, n)
    PROVE  RecoveryInv'
<1>1. backups[n] # 0 /\ backups[n] \in DOMAIN events
  BY DEF Repair, CurrentBackups, RecoveryInv, EventsSigned, SignedFor, EventsOf
<1>2. {r} \in SUBSET Relays
  OBVIOUS
<1>3. QED
  BY <1>1, <1>2, TakenInv DEF Repair

\* Neither tables nor relays change.
LEMMA IdleInv ==
    ASSUME RecoveryInv, TypeOK', UNCHANGED <<storeVars, signedAt, held, inForce>>
    PROVE  RecoveryInv'
<1>1. /\ UNCHANGED <<rows, attempts, outbox, backups, events>>
      /\ UNCHANGED <<signedAt, held, inForce>>
  BY DEF storeVars
<1>2. StoreInv'
  BY <1>1, OutboxInv DEF RecoveryInv, StoreInv, StoreTypeOK, Pending
<1>3. EventsSigned'
  BY <1>1, SameOrder DEF RecoveryInv, EventsSigned, SignedFor
<1>4. \A n \in Names : Retained(n)'
  BY <1>1, SameOrder DEF RecoveryInv, Retained
<1>5. QED
  BY <1>1, <1>2, <1>3, <1>4 DEF RecoveryInv

LEMMA ReadRowInv ==
    ASSUME RecoveryInv, NEW q \in Requests, NEW n \in Names, ReadRow(q, n)
    PROVE  RecoveryInv'
<1>1. rows[n].rev \in Nat
  BY DEF RecoveryInv, StoreInv, StoreTypeOK, Row
<1>2. read' \in [Requests -> [name: Names, rev: Nat] \cup {NoRead}]
  BY <1>1 DEF RecoveryInv, TypeOK, ReadRow
<1>3. TypeOK'
  BY <1>2 DEF RecoveryInv, TypeOK, ReadRow, storeVars, StoreTypeOK
<1>4. QED
  BY <1>3, IdleInv DEF ReadRow

LEMMA AbandonInv ==
    ASSUME RecoveryInv, NEW q \in Requests, Abandon(q)
    PROVE  RecoveryInv'
<1>1. read' \in [Requests -> [name: Names, rev: Nat] \cup {NoRead}]
  BY AnsweredFacts DEF Abandon
<1>2. TypeOK'
  BY <1>1 DEF RecoveryInv, TypeOK, Abandon, storeVars, StoreTypeOK
<1>3. QED
  BY <1>2, IdleInv DEF Abandon

LEMMA TickInv ==
    ASSUME RecoveryInv, Tick
    PROVE  RecoveryInv'
<1>1. now' \in 0 .. MaxTime
  BY RecoveryAssumption DEF RecoveryInv, TypeOK, Tick
<1>2. TypeOK'
  BY <1>1 DEF RecoveryInv, TypeOK, Tick, storeVars, StoreTypeOK
<1>3. QED
  BY <1>2, IdleInv DEF Tick

-----------------------------------------------------------------------------
(* Loss and restore *)

\* Tables in which nothing waits, filled from events of their names.
LEMMA FilledInv ==
    ASSUME RecoveryInv, UNCHANGED <<events, now, signedAt, idSign, held, inForce>>,
           rows' = [n \in Names |-> RestoredRow(backups'[n])],
           attempts' = [n \in Names |-> NoAttempt],
           outbox' \in [EventIds -> OutboxStates],
           \A e \in EventIds : outbox'[e] # "none" => outbox[e] # "none",
           backups' \in [Names -> EventIds \cup {0}],
           \A n \in Names : backups'[n] # 0 => backups'[n] \in EventsOf(n),
           read' \in [Requests -> [name: Names, rev: Nat] \cup {NoRead}],
           lost' \in BOOLEAN, partial' \in BOOLEAN
    PROVE  RecoveryInv'
<1>1. NoAttempt \in Attempt /\ NoAttempt.state = "none"
  BY DEF NoAttempt, Attempt, AttemptStates
<1>2. ASSUME NEW n \in Names
      PROVE  /\ rows'[n] \in Row
             /\ rows'[n].state \in {"absent", "active"}
             /\ rows'[n].pEid = 0
             /\ rows'[n].state = "active" =>
                   /\ rows'[n].eid = backups'[n]
                   /\ Says(backups'[n], n, "active", rows'[n].dest)
  <2> DEFINE e == backups'[n]
  <2>1. Absent \in Row /\ Absent.state = "absent" /\ Absent.pEid = 0
    BY DEF Absent, Row, RowStates
  <2>2. rows'[n] = RestoredRow(e)
    OBVIOUS
  <2>3. CASE e = 0 \/ events[e].kind = "deleted"
    BY <2>1, <2>2, <2>3 DEF RestoredRow
  <2>4. CASE e # 0 /\ events[e].kind # "deleted"
    <3>1. e \in DOMAIN events /\ events[e].name = n
      BY <2>4 DEF EventsOf
    <3>2. e \in EventIds /\ events[e] \in Record
      BY <3>1, EventFacts DEF RecoveryInv
    <3>3. /\ events[e].kind = "active" /\ events[e].rev \in Nat
          /\ events[e].dest \in Dests \cup {NoDest}
      BY <2>4, <3>2 DEF Record
    <3>4. rows'[n] = [state |-> "active", rev |-> events[e].rev, dest |-> events[e].dest,
                      eid |-> e, pDest |-> NoDest, pRev |-> 0, pEid |-> 0]
      BY <2>2, <2>4 DEF RestoredRow, Absent
    <3> HIDE DEF e
    <3>5. /\ rows'[n] \in Row
          /\ rows'[n].state = "active" /\ rows'[n].pEid = 0
          /\ rows'[n].eid = e /\ rows'[n].dest = events[e].dest
      BY <3>2, <3>3, <3>4 DEF Row, RowStates
    <3>6. QED
      BY <3>1, <3>3, <3>5 DEF Says, e
  <2>5. QED
    BY <2>3, <2>4
<1>3. StoreTypeOK'
  <2>1. rows' \in [Names -> Row]
    BY <1>2
  <2>2. attempts' \in [Names -> Attempt]
    BY <1>1
  <2>3. QED
    BY <2>1, <2>2 DEF RecoveryInv, StoreInv, StoreTypeOK
<1>4. EventsDescribeRows'
  BY <1>2 DEF EventsDescribeRows, RowDescribed, Says
<1>5. WaitingRowsAreQueued'
  BY <1>2 DEF WaitingRowsAreQueued, Unsettled
<1>6. AttemptsFollowRows' /\ BackupIsNewestIntent' /\ PendingIsNewer'
  BY <1>1, <1>2 DEF AttemptsFollowRows, BackupIsNewestIntent, PendingIsNewer
<1>7. TypeOK'
  BY <1>3 DEF RecoveryInv, TypeOK
<1>8. EventsSigned'
  BY SameOrder DEF RecoveryInv, EventsSigned, SignedFor
<1>9. \A n \in Names : Retained(n)'
  BY SameOrder DEF RecoveryInv, Retained
<1>10. QED
  BY <1>3, <1>4, <1>5, <1>6, <1>7, <1>8, <1>9 DEF RecoveryInv, StoreInv

LEMMA LoseDatabaseInv ==
    ASSUME RecoveryInv, LoseDatabase
    PROVE  RecoveryInv'
<1>1. /\ backups' = [n \in Names |-> 0]
      /\ outbox' = [e \in EventIds |-> "none"]
      /\ rows' = [n \in Names |-> Absent]
      /\ attempts' = [n \in Names |-> NoAttempt]
      /\ read' = [q \in Requests |-> NoRead]
      /\ lost' = TRUE
      /\ UNCHANGED <<events, now, signedAt, idSign, held, inForce, partial>>
  BY DEF LoseDatabase
<1>2. /\ backups' \in [Names -> EventIds \cup {0}]
      /\ \A n \in Names : backups'[n] = 0
      /\ outbox' \in [EventIds -> OutboxStates]
      /\ \A e \in EventIds : outbox'[e] = "none"
      /\ read' \in [Requests -> [name: Names, rev: Nat] \cup {NoRead}]
      /\ lost' \in BOOLEAN /\ partial' \in BOOLEAN
  BY <1>1 DEF OutboxStates, RecoveryInv, TypeOK
<1>3. rows' = [n \in Names |-> RestoredRow(backups'[n])]
  BY <1>1, <1>2 DEF RestoredRow
<1>4. QED
  BY <1>1, <1>2, <1>3, FilledInv

LEMMA RestoreInv ==
    ASSUME RecoveryInv, NEW F \in SUBSET Held, Restore(F)
    PROVE  RecoveryInv'
<1>1. /\ rows' = [n \in Names |-> RestoredRow(Merged(Of(F, n)))]
      /\ backups' = [n \in Names |-> Merged(Of(F, n))]
      /\ lost' = FALSE /\ partial' = (partial \/ F # Held)
      /\ UNCHANGED <<attempts, outbox, events, now, signedAt, idSign, held, read, inForce>>
  BY DEF Restore
<1>2. F \subseteq DOMAIN events
  <2>1. ASSUME NEW e \in F PROVE e \in DOMAIN events
    <3>1. PICK n \in Names, r \in Relays : e = held[r][n] /\ e # 0
      BY DEF Held, HeldOf
    <3>2. QED
      BY <3>1 DEF RecoveryInv, EventsSigned, SignedFor, EventsOf
  <2>2. QED
    BY <2>1
<1>3. ASSUME NEW n \in Names
      PROVE  /\ Merged(Of(F, n)) \in EventIds \cup {0}
             /\ Merged(Of(F, n)) # 0 => Merged(Of(F, n)) \in EventsOf(n)
  <2>1. CASE Of(F, n) = {}
    BY <2>1 DEF Merged
  <2>2. CASE Of(F, n) # {}
    <3>1. Of(F, n) \in SUBSET (DOMAIN events)
      BY <1>2 DEF Of
    <3>2. Merged(Of(F, n)) \in Of(F, n)
      BY <2>2, <3>1, MergedFacts DEF RecoveryInv
    <3>3. Merged(Of(F, n)) \in EventsOf(n)
      BY <1>2, <3>2 DEF Of, EventsOf
    <3>4. QED
      BY <3>3, EventFacts DEF EventsOf, RecoveryInv
  <2>3. QED
    BY <2>1, <2>2
<1>4. /\ backups' \in [Names -> EventIds \cup {0}]
      /\ \A n \in Names : backups'[n] # 0 => backups'[n] \in EventsOf(n)
  BY <1>1, <1>3
<1>5. rows' = [n \in Names |-> RestoredRow(backups'[n])]
  BY <1>1
<1>6. /\ attempts' = [n \in Names |-> NoAttempt]
      /\ outbox' \in [EventIds -> OutboxStates]
      /\ outbox' = outbox
      /\ read' \in [Requests -> [name: Names, rev: Nat] \cup {NoRead}]
      /\ lost' \in BOOLEAN /\ partial' \in BOOLEAN
  BY <1>1 DEF RecoveryInv, TypeOK, StoreTypeOK
<1>7. QED
  BY <1>1, <1>4, <1>5, <1>6, FilledInv

-----------------------------------------------------------------------------
(* Theorems *)

LEMMA NextInv ==
    ASSUME RecoveryInv, [Next]_vars
    PROVE  RecoveryInv'
<1>1. ASSUME NEW n \in Names, NEW d \in Dests, Register(n, d) PROVE RecoveryInv'
  BY <1>1, RegisterInv
<1>2. ASSUME NEW q \in Requests, NEW n \in Names, ReadRow(q, n) PROVE RecoveryInv'
  BY <1>2, ReadRowInv
<1>3. ASSUME NEW q \in Requests, NEW d \in Dests, Update(q, d) PROVE RecoveryInv'
  BY <1>3, UpdateInv
<1>4. ASSUME NEW q \in Requests, Remove(q) PROVE RecoveryInv'
  BY <1>4, RemoveInv
<1>5. ASSUME NEW q \in Requests, Abandon(q) PROVE RecoveryInv'
  BY <1>5, AbandonInv
<1>6. ASSUME NEW e \in EventIds, NEW R \in SUBSET Relays, Publish(e, R) PROVE RecoveryInv'
  BY <1>6, PublishInv
<1>7. ASSUME NEW e \in EventIds, NEW R \in SUBSET Relays, PublishUnanswered(e, R)
      PROVE  RecoveryInv'
  BY <1>7, PublishUnansweredInv
<1>8. ASSUME NEW r \in Relays, NEW n \in Names, Repair(r, n) PROVE RecoveryInv'
  BY <1>8, RepairInv
<1>9. ASSUME LoseDatabase PROVE RecoveryInv'
  BY <1>9, LoseDatabaseInv
<1>10. ASSUME NEW F \in SUBSET Held, Restore(F) PROVE RecoveryInv'
  BY <1>10, RestoreInv
<1>11. ASSUME Tick PROVE RecoveryInv'
  BY <1>11, TickInv
<1>12. ASSUME UNCHANGED vars PROVE RecoveryInv'
  <2>1. TypeOK'
    BY <1>12 DEF vars, relayVars, storeVars, RecoveryInv, TypeOK, StoreTypeOK
  <2>2. QED
    BY <1>12, <2>1, IdleInv DEF vars, relayVars
<1>13. QED
  BY <1>1, <1>2, <1>3, <1>4, <1>5, <1>6, <1>7, <1>8, <1>9, <1>10, <1>11, <1>12 DEF Next

\* The inductive invariant holds of every behaviour.
THEOREM RecoveryInvariant == Spec => []RecoveryInv
<1>1. Init => RecoveryInv
  BY InitInv
<1>2. RecoveryInv /\ [Next]_vars => RecoveryInv'
  BY NextInv
<1>3. QED
  BY <1>1, <1>2, PTL DEF Spec

\* Every variable keeps its type, through any number of losses and restores.
THEOREM RecoveryTypeCorrect == Spec => []TypeOK
<1>1. RecoveryInv => TypeOK
  BY DEF RecoveryInv
<1>2. QED
  BY <1>1, RecoveryInvariant, PTL

\* A restored row, like any other, is what its event says (restore_records inserts
\* active records only).
THEOREM RestoredRowsMatchEvents == Spec => []EventsDescribeRows
<1>1. RecoveryInv => EventsDescribeRows
  BY DEF RecoveryInv, StoreInv
<1>2. QED
  BY <1>1, RecoveryInvariant, PTL

\* What relays keep of a name in order merges to the event in force or a later one.
LEMMA RetainedIsMerged ==
    ASSUME RecoveryInv PROVE AcknowledgedIsRestorable
<1> SUFFICES ASSUME NEW n \in Names, inForce[n] # 0, InOrder(n)
             PROVE  Merged(HeldOf(n)) >= inForce[n]
  BY DEF AcknowledgedIsRestorable
<1> DEFINE w == Merged(HeldOf(n))
<1>1. HeldOf(n) \subseteq EventsOf(n)
  BY DEF HeldOf, RecoveryInv, EventsSigned, SignedFor
<1>2. PICK r \in Relays : held[r][n] >= inForce[n]
  BY DEF RecoveryInv, Retained
<1> DEFINE h == held[r][n]
<1>3. inForce[n] \in Nat /\ inForce[n] > 0 /\ h \in Nat
  BY StoreAssumption DEF RecoveryInv, TypeOK, EventIds
<1>4. h \in HeldOf(n)
  BY <1>2, <1>3 DEF HeldOf
<1>5. w \in HeldOf(n) /\ \A f \in HeldOf(n) \ {w} : IsNewer(VersionOf(w), VersionOf(f))
  <2>1. HeldOf(n) \in SUBSET (DOMAIN events)
    BY <1>1 DEF EventsOf
  <2>2. QED
    BY <2>1, <1>4, MergedFacts DEF RecoveryInv
<1>6. w \in EventsOf(n) /\ h \in EventsOf(n)
  BY <1>1, <1>4, <1>5
<1>7. w \in DOMAIN events /\ h \in DOMAIN events
  BY <1>6 DEF EventsOf
<1>8. /\ w \in Nat
      /\ events[w].rev \in Nat /\ events[h].rev \in Nat
      /\ signedAt[w] \in Nat /\ signedAt[h] \in Nat
      /\ VersionOf(w).rev = events[w].rev /\ VersionOf(h).rev = events[h].rev
      /\ VersionOf(w).time = signedAt[w] /\ VersionOf(h).time = signedAt[h]
  BY <1>7, VersionFacts DEF RecoveryInv
<1> HIDE DEF w, h
<1>9. ASSUME w < h PROVE FALSE
  <2>1. events[w].rev <= events[h].rev /\ signedAt[w] < signedAt[h]
    BY <1>6, <1>9 DEF InOrder
  <2>2. ~IsNewer(VersionOf(w), VersionOf(h))
    BY <1>8, <2>1 DEF IsNewer
  <2>3. h # w
    BY <1>3, <1>8, <1>9
  <2>4. QED
    BY <1>4, <1>5, <2>2, <2>3
<1>10. w >= h
  BY <1>3, <1>8, <1>9
<1>11. QED
  BY <1>2, <1>3, <1>8, <1>10 DEF w, h

\* Whatever was acknowledged can be restored from the relays: for any number of
\* them, as long as clock and revisions of the name are in order.
THEOREM NothingAcknowledgedIsLost == Spec => []AcknowledgedIsRestorable
<1>1. RecoveryInv => AcknowledgedIsRestorable
  BY RetainedIsMerged
<1>2. QED
  BY <1>1, RecoveryInvariant, PTL

\* What relays keep of a name are events of it, with different ids.
LEMMA HeldVersions ==
    ASSUME RecoveryInv, NEW n \in Names
    PROVE  LET S == {VersionOf(e) : e \in HeldOf(n)}
           IN  /\ S \in SUBSET Version
               /\ IsFiniteSet(S)
               /\ \A v, w \in S : v # w => v.id # w.id
<1> DEFINE H == HeldOf(n)
           S == {VersionOf(e) : e \in H}
           v == [e \in H |-> VersionOf(e)]
<1>1. H \subseteq DOMAIN events
  BY DEF HeldOf, EventsOf, RecoveryInv, EventsSigned, SignedFor
<1>2. IsFiniteSet(H)
  <2>1. Len(events) \in Int /\ DOMAIN events = 1 .. Len(events)
    BY DEF RecoveryInv, TypeOK, StoreTypeOK
  <2>2. IsFiniteSet(DOMAIN events)
    BY <2>1, FS_Interval
  <2> HIDE DEF H
  <2>3. QED
    BY <1>1, <2>2, FS_Subset
<1> HIDE DEF H
<1>3. S \in SUBSET Version
  BY <1>1, VersionFacts DEF RecoveryInv
<1>4. v \in Surjection(H, S)
  BY DEF Surjection
<1>5. IsFiniteSet(S)
  <2> HIDE DEF S, v
  <2>1. QED
    BY <1>2, <1>4, FS_Surjection
<1>6. \A a, b \in S : a # b => a.id # b.id
  BY <1>1, IdsDiffer DEF RecoveryInv
<1>7. QED
  BY <1>3, <1>5, <1>6 DEF H

\* Restored rows are what their events say, and the loop over what relays return
\* finds the same record in whatever order they return it.
THEOREM MergeIsConsistent == Spec => []Consistency
<1>1. ASSUME RecoveryInv, NEW n \in Names
      PROVE  OrderIrrelevant({VersionOf(e) : e \in HeldOf(n)})
  <2> DEFINE S == {VersionOf(e) : e \in HeldOf(n)}
  <2>1. /\ S \in SUBSET Version
        /\ IsFiniteSet(S)
        /\ \A v, w \in S : v # w => v.id # w.id
    BY <1>1, HeldVersions
  <2> HIDE DEF S
  <2>2. OrderIrrelevant(S)
    BY <2>1, LoopFindsWinner
  <2>3. QED
    BY <2>2 DEF S
<1>2. RecoveryInv => Consistency
  BY <1>1 DEF Consistency, MergeIgnoresArrival, RecoveryInv, StoreInv
<1>3. QED
  BY <1>2, RecoveryInvariant, PTL

=============================================================================
