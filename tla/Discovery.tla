------------------------------ MODULE Discovery ------------------------------
(***************************************************************************)
(* The page of the marketplace (app.js, counts.js, visibility.js): it asks *)
(* every chosen relay for announcements, keeps the newest one of each      *)
(* operator, verifies their domains over HTTP, fetches how many addresses  *)
(* each operator has, and starts all over when the relays are changed.     *)
(* A relay answers as RelayQuery says (RelayConnection implements it).     *)
(***************************************************************************)
EXTENDS Integers, FiniteSets

CONSTANTS
    Relays,      \* relay URLs
    Malformed,   \* the ones normalizeURL throws on
    Defaults,    \* DEFAULT_RELAYS
    Choices,     \* relay sets considered
    Opened,      \* the ones the page is opened with
    Anns,        \* announcement events; an event is its id, a number
    Coords,      \* coordinates (pubkey, d tag)
    Authors,     \* public keys of operators
    Author,      \* Author[c]
    Coord,       \* Coord[a]
    CreatedAt,   \* CreatedAt[a]
    Valid,       \* the events that pass validateAnnouncement
    Announces,   \* Announces[a]: the domains of a
    SelfCounted, \* the events that announce a usable number of users
    Domains,
    Outcomes,    \* results of a well-known check
    Stored,      \* Stored[r]: announcements relay r may send
    Disguised,   \* the ones that may come in a frame their id cannot be read from
    Backups,     \* Backups[r]: backup records relay r stores
    Owner,       \* Owner[b]: the operator who signed backup record b
    Limit,       \* COUNT_QUERY_LIMIT
    MaxRuns,     \* bound: discoveries started
    MaxLeft      \* bound: requests that outlive the discovery that made them

None == 0

ASSUME EventsAssumption ==
    /\ Anns \subseteq Nat \ {None}
    /\ Valid \subseteq Anns /\ SelfCounted \subseteq Anns
    /\ Coord \in [Anns -> Coords] /\ Author \in [Coords -> Authors]
    /\ CreatedAt \in [Anns -> Nat]
    /\ Announces \in [Anns -> SUBSET Domains]
ASSUME RelaysAssumption ==
    /\ Malformed \subseteq Relays
    /\ Defaults \subseteq Relays /\ Defaults # {}
    /\ Choices \subseteq SUBSET Relays /\ {} \notin Choices
    /\ Opened \subseteq Choices
    /\ Stored \in [Relays -> SUBSET Anns]

AllBackups == UNION {Backups[r] : r \in Relays}

ASSUME CountsAssumption == IsFiniteSet(AllBackups) /\ Limit \in Nat
ASSUME OutcomesAssumption == Outcomes \subseteq {"verified", "mismatch", "unreachable"}
ASSUME RunsAssumption == MaxRuns \in Nat \ {0}

VARIABLES
    run,        \* discoveries started
    chosen,     \* the relays of the URL (currentRelays)
    active,     \* activeRelays
    phase,      \* phase of the query for announcements at each relay
    heard,      \* what onevent was called with in this discovery
    untold,     \* relays that ended the query with CLOSED and an empty reason: it has
                \* left openSubs, and onclose was not called
    settled,    \* settledRelays
    chip,       \* chip[r]: state of the relay's chip
    late,       \* <<n, r>>: relay r was still connecting when discovery n ended
    overheard,  \* <<kind, r>>: callbacks of an earlier discovery for relay r
    operators,  \* operators[c]: the event of the entry, None if there is none
    countOf,    \* countOf[c]: usersCount and usersApprox of the entry
    status,     \* domainStatus
    checks,     \* well-known requests under way
    counted,    \* countedPubkeys
    queued,     \* pendingCountPubkeys
    countTimer, \* countFetchTimer is set
    fetches,    \* fetchBackupCounts calls with a query that is not settled
    renderTimer,\* renderTimer is set
    dirty       \* what the page would show differs from what it shows

queryVars == <<phase, heard, untold>>
statusVars == <<status, checks>>
countVars == <<counted, queued, countTimer, fetches>>
relayVars == <<run, chosen, active, late>>
vars == <<relayVars, queryVars, settled, chip, overheard, operators, countOf,
          statusVars, countVars, renderTimer, dirty>>

Uncounted == [n |-> -1, approx |-> FALSE]
Count == [n : -1 .. Cardinality(AllBackups), approx : BOOLEAN]
Check == [run : 1 .. MaxRuns, ann : Anns, domain : Domains]
Fetch == [run : 1 .. MaxRuns, batch : SUBSET Authors, open : SUBSET Relays,
          seen : SUBSET AllBackups, approx : BOOLEAN]

TypeOK ==
    /\ run \in 1 .. MaxRuns
    /\ chosen \in (SUBSET Relays) \ {{}} /\ active \in (SUBSET Relays) \ {{}}
    /\ phase \in [Relays -> {"idle", "asked", "live", "closed"}]
    /\ heard \in [Relays -> SUBSET Anns]
    /\ untold \subseteq Relays
    /\ settled \subseteq Relays
    /\ overheard \subseteq {"announcements", "counts"} \X Relays
    /\ chip \in [Relays -> {"none", "checking", "connected", "error"}]
    /\ late \subseteq (1 .. MaxRuns) \X Relays
    /\ operators \in [Coords -> Anns \cup {None}]
    /\ countOf \in [Coords -> Count]
    /\ status \in [Authors \X Domains
                    -> {"absent", "checking", "verified", "mismatch", "unreachable"}]
    /\ checks \subseteq Check
    /\ counted \subseteq Authors /\ queued \subseteq counted
    /\ countTimer \in BOOLEAN
    /\ fetches \subseteq Fetch
    /\ renderTimer \in BOOLEAN /\ dirty \in BOOLEAN

(* The query at a relay, as seen by the page, which does not keep count of how
   often an event came. *)
Query == INSTANCE RelayQuery WITH Subs <- Relays, Events <- Anns,
                                  Accepts <- Stored, given <- heard,
                                  again <- [r \in Relays |-> {}]

-----------------------------------------------------------------------------
(* What the page shows, from the state. *)

Entries == {c \in Coords : operators[c] # None}
DomainsOf(c) == Announces[operators[c]]

(* getDomainStatus *)
StatusOf(p, d) == IF status[p, d] = "absent" THEN "checking" ELSE status[p, d]

(* classifyOperator *)
VerifiedDomains(c) == {d \in DomainsOf(c) : StatusOf(Author[c], d) = "verified"}
Category(c) ==
    IF VerifiedDomains(c) # {} THEN "visible"
    ELSE IF \E d \in DomainsOf(c) : StatusOf(Author[c], d) = "checking"
         THEN "pending" ELSE "hidden"

(* buildOperatorRows: a row for each verified domain of a visible operator. *)
Badge(c) == IF operators[c] \in SelfCounted THEN Uncounted ELSE countOf[c]
Rows == UNION {{[coord |-> c, ann |-> operators[c], domain |-> d, count |-> Badge(c)]
                    : d \in VerifiedDomains(c)} : c \in Entries}
Hidden == {c \in Entries : Category(c) = "hidden"}
Pending == \E c \in Entries : Category(c) = "pending"
\* Mutation: one relay that answered is enough.
SomeRelaySettled == active \cap settled # {}

RelaysSettled == active \subseteq settled

(* renderDiscoveryStatus *)
Placeholder ==
    IF Rows # {} THEN "none"
    ELSE IF Pending \/ ~RelaysSettled THEN "Discovering operators"
    ELSE IF Hidden = {} THEN "No operators found" ELSE "none"

Page == <<Rows, Placeholder, Cardinality(Hidden)>>

(* A step that schedules a render, and one that does not. *)
ScheduleRender == renderTimer' = TRUE /\ dirty' = (dirty \/ Page' # Page)
NoRender == UNCHANGED renderTimer /\ dirty' = (dirty \/ Page' # Page)

-----------------------------------------------------------------------------
(* Domain verification. *)

\* Mutation: every announcement has its domains start anew.
SeedAllStatuses(a) ==
    status' = [k \in Authors \X Domains |->
                 IF k[1] # Author[Coord[a]] THEN status[k]
                 ELSE IF k[2] \in Announces[a] THEN "checking" ELSE "absent"]

(* verifyDomains: entries of this pubkey whose domain the announcement does
   not list are deleted, domains without one start as "checking". *)
SeedStatuses(a) ==
    LET p == Author[Coord[a]] IN
    status' = [k \in Authors \X Domains |->
                 IF k[1] # p THEN status[k]
                 ELSE IF k[2] \notin Announces[a] THEN "absent"
                 ELSE IF status[k] = "absent" THEN "checking" ELSE status[k]]

StartChecks(a) ==
    checks' = checks \cup {[run |-> run, ann |-> a, domain |-> d] : d \in Announces[a]}

\* Mutation: the result is noted and the page is not told.
CheckAnswersUnseen(k, outcome) ==
    /\ k \in checks
    /\ checks' = checks \ {k}
    /\ status' = [status EXCEPT ![<<Author[Coord[k.ann]], k.domain>>] = outcome]
    /\ UNCHANGED <<relayVars, queryVars, settled, chip, overheard, operators,
                   countOf, countVars>>
    /\ NoRender

(* verifyDomain has an answer or timed out; it is written whatever has happened
   to the operators since the request. *)
CheckAnswers(k, outcome) ==
    /\ k \in checks
    /\ checks' = checks \ {k}
    /\ status' = [status EXCEPT ![<<Author[Coord[k.ann]], k.domain>>] = outcome]
    /\ UNCHANGED <<relayVars, queryVars, settled, chip, overheard, operators,
                   countOf, countVars>>
    /\ ScheduleRender

-----------------------------------------------------------------------------
(* Announcements. *)

\* Mutation: of two announcements of one second the first to come stays.
NewerByTime(a, b) == CreatedAt[a] > CreatedAt[b]

Newer(a, b) ==
    \/ CreatedAt[a] > CreatedAt[b]
    \/ CreatedAt[a] = CreatedAt[b] /\ a > b

(* upsertByCoordinate *)
Replaces(a) ==
    /\ a \in Valid
    /\ operators[Coord[a]] = None \/ Newer(a, operators[Coord[a]])

(* The operator enters the count queue, once in a discovery. *)
QueueForCount(a) ==
    LET p == Author[Coord[a]] IN
    IF a \in Valid /\ a \notin SelfCounted /\ p \notin counted
    THEN /\ counted' = counted \cup {p}
         /\ queued' = queued \cup {p}
         /\ countTimer' = TRUE
         /\ UNCHANGED fetches
    ELSE UNCHANGED countVars

(* onevent of one relay. *)
OnEvent(r, a) ==
    /\ r \in active \ untold
    /\ Query!Give(r, a) \/ Query!Repeat(r, a)
    /\ IF Replaces(a)
       THEN /\ operators' = [operators EXCEPT ![Coord[a]] = a]
            /\ countOf' = [countOf EXCEPT ![Coord[a]] = Uncounted]
            /\ SeedStatuses(a)
            /\ StartChecks(a)
       ELSE UNCHANGED <<operators, countOf, statusVars>>
    /\ QueueForCount(a)
    /\ UNCHANGED <<relayVars, untold, settled, chip, overheard>>
    /\ ScheduleRender

(* oneose *)
OnEose(r) ==
    /\ r \in active
    /\ Query!EndOfStored(r)
    /\ chip' = [chip EXCEPT ![r] = "connected"]
    /\ settled' = settled \cup {r}
    /\ UNCHANGED <<relayVars, untold, overheard, operators, countOf, statusVars,
                   countVars>>
    /\ ScheduleRender

(* The relay sends CLOSED with an empty reason: oneose if it was not called yet,
   and no onclose.  The page takes the query for one that goes on. *)
EndedUntold(r) ==
    /\ r \in active \ untold
    /\ untold' = untold \cup {r}
    /\ UNCHANGED <<relayVars, overheard, operators, countOf, statusVars, countVars>>
    /\ \/ /\ Query!EndOfStored(r)
          /\ chip' = [chip EXCEPT ![r] = "connected"]
          /\ settled' = settled \cup {r}
          /\ ScheduleRender
       \/ /\ phase[r] = "live"
          /\ UNCHANGED <<phase, heard, chip, settled>>
          /\ NoRender

\* Mutation: a relay that fails is not counted as settled.
OnCloseUnsettled(r) ==
    /\ r \in active \ untold
    /\ Query!End({r})
    /\ chip' = [chip EXCEPT ![r] = "error"]
    /\ UNCHANGED <<relayVars, untold, settled, overheard, operators, countOf,
                   statusVars, countVars>>
    /\ ScheduleRender

(* oneose if it was not called yet, then onclose. *)
OnClose(r) ==
    /\ r \in active \ untold
    /\ Query!End({r})
    /\ chip' = [chip EXCEPT ![r] = "error"]
    /\ settled' = settled \cup {r}
    /\ UNCHANGED <<relayVars, untold, overheard, operators, countOf, statusVars,
                   countVars>>
    /\ ScheduleRender

(* The connection of an earlier discovery fails now that its socket is closed:
   the same callbacks, which write to what belongs to this discovery. *)
LateClose(k) ==
    /\ k \in late
    /\ late' = late \ {k}
    /\ chip' = [chip EXCEPT ![k[2]] = IF @ = "none" THEN @ ELSE "error"]
    /\ settled' = settled \cup {k[2]}
    /\ overheard' = overheard \cup {<<"announcements", k[2]>>}
    /\ UNCHANGED <<run, chosen, active, queryVars, operators, countOf, statusVars,
                   countVars>>
    /\ ScheduleRender

-----------------------------------------------------------------------------
(* Numbers of users. *)

(* The timer of scheduleCountFetch. *)
FetchCounts ==
    /\ countTimer
    /\ countTimer' = FALSE
    /\ queued' = {}
    /\ fetches' = IF queued = {} THEN fetches
                  ELSE fetches \cup {[run |-> run, batch |-> queued, open |-> active,
                                      seen |-> {}, approx |-> FALSE]}
    /\ UNCHANGED <<relayVars, queryVars, settled, chip, overheard, operators,
                   countOf, statusVars, counted>>
    /\ NoRender

(* The aggregator: a record counts once, whatever relays deliver it. *)
Snapshot(f, p) == [n |-> Cardinality({b \in f.seen : Owner[b] = p}),
                   approx |-> f.approx]

(* applyCounts for every operator of the batch. *)
ApplyCounts(f) ==
    countOf' = [c \in Coords |->
                  IF c \in Entries /\ Author[c] \in f.batch
                  THEN Snapshot(f, Author[c]) ELSE countOf[c]]

(* The query of one relay settles (finish): with some of the records the relay
   has (all of them, or those that came before a timeout or a failure) and some
   other events of the same kind. *)
CountsArrive(f, r, got, others) ==
    LET g == [f EXCEPT !.open = @ \ {r},
                       !.seen = @ \cup got,
                       !.approx = @ \/ Cardinality(got) + others >= Limit]
    IN
    /\ f \in fetches /\ r \in f.open \ Malformed
    /\ f.run # run => got = {} /\ others = 0
    /\ fetches' = (fetches \ {f}) \cup (IF g.open = {} THEN {} ELSE {g})
    /\ ApplyCounts(g)
    /\ overheard' = IF f.run = run THEN overheard
                    ELSE overheard \cup {<<"counts", r>>}
    /\ UNCHANGED <<relayVars, queryVars, settled, chip, operators,
                   statusVars, counted, queued, countTimer>>
    /\ IF \E c \in Entries : Author[c] \in f.batch THEN ScheduleRender ELSE NoRender

-----------------------------------------------------------------------------
(* Starting discovery. *)

(* currentRelays: a URL without a relay stands for the defaults. *)
CurrentRelays(url) == IF url = {} THEN Defaults ELSE url

(* The relay editor: the cross on a chip takes that relay out, Enter adds one
   that is not there. *)
Edits == {CurrentRelays(chosen \ {r}) : r \in chosen}
         \cup {chosen \cup {r} : r \in Relays \ chosen}

(* What discovery starts with.  The queries that were ended without the page being
   told have been asked to close, which comes when startDiscovery has returned:
   onclose is called now, and writes to what belongs to the new discovery. *)
Fresh(R) ==
    /\ active' = R
    /\ phase' = [r \in Relays |-> IF r \in R THEN "asked" ELSE "idle"]
    /\ heard' = [r \in Relays |-> {}]
    /\ untold' = {}
    /\ chip' = [r \in Relays |-> IF r \notin R THEN "none"
                                ELSE IF r \in untold THEN "error" ELSE "checking"]
    /\ settled' = untold /\ overheard' = {"announcements"} \X untold
    /\ renderTimer' = (renderTimer \/ untold # {})
    /\ dirty' = (R \subseteq untold)
    /\ operators' = [c \in Coords |-> None]
    /\ countOf' = [c \in Coords |-> Uncounted]
    /\ status' = [k \in Authors \X Domains |-> "absent"]
    /\ counted' = {} /\ queued' = {} /\ countTimer' = FALSE

(* The user changes the relays.  Queries that are open are closed, and their
   callbacks run, before everything is cleared; the ones that still wait for a
   connection are answered later, and so are the well-known requests.  The
   relays of Connecting have a socket that is not open yet, for both queries or,
   after the first connection failed, for the numbers of users alone. *)
StartDiscovery(R, Connecting) ==
    /\ run < MaxRuns
    /\ active \cap Malformed = {}
    /\ Connecting \subseteq active
    /\ \A r \in Connecting : phase[r] \in {"asked", "closed"}
    /\ run' = run + 1
    /\ chosen' = R
    /\ late' = late \cup {<<run, r>> : r \in {q \in Connecting : phase[q] = "asked"}}
    /\ fetches' = {[f EXCEPT !.open = @ \cap Connecting] : f \in
                     {g \in fetches : g.run = run /\ g.open \cap Connecting # {}}}
                  \cup {f \in fetches : f.run # run}
    /\ Fresh(R)
    /\ Cardinality(checks) + Cardinality(late') + Cardinality(fetches') <= MaxLeft
    /\ UNCHANGED checks

(* With a malformed relay among the active ones pool.close throws: only the
   queries that are open have been closed, and nothing is started. *)
StartDiscoveryFails(R, closed) ==
    /\ run < MaxRuns
    /\ active \cap Malformed # {}
    /\ closed \subseteq active \ Malformed
    /\ \A r \in active \ Malformed : phase[r] = "live" => r \in closed
    /\ \A r \in closed : phase[r] \in {"asked", "live"}
    /\ chosen' = R
    /\ phase' = [r \in Relays |-> IF r \in closed THEN "closed" ELSE phase[r]]
    /\ chip' = [r \in Relays |-> IF r \in closed THEN "error" ELSE chip[r]]
    /\ settled' = settled \cup closed
    /\ untold' = untold \ closed
    /\ UNCHANGED <<run, active, late, heard, overheard, operators, countOf,
                   statusVars, countVars>>
    /\ IF closed = {} THEN NoRender ELSE ScheduleRender

(* The timer of scheduleRenderOperators, or an input of the user: every one of
   the browse controls renders at once. *)
Render ==
    /\ renderTimer
    /\ renderTimer' = FALSE
    /\ dirty' = FALSE
    /\ UNCHANGED <<relayVars, queryVars, settled, chip, overheard, operators,
                   countOf, statusVars, countVars>>

-----------------------------------------------------------------------------
Init ==
    /\ run = 1
    /\ chosen \in Opened
    /\ active = chosen
    /\ phase = [r \in Relays |-> IF r \in active THEN "asked" ELSE "idle"]
    /\ heard = [r \in Relays |-> {}]
    /\ untold = {}
    /\ settled = {} /\ overheard = {} /\ late = {}
    /\ chip = [r \in Relays |-> IF r \in active THEN "checking" ELSE "none"]
    /\ operators = [c \in Coords |-> None]
    /\ countOf = [c \in Coords |-> Uncounted]
    /\ status = [k \in Authors \X Domains |-> "absent"]
    /\ checks = {} /\ counted = {} /\ queued = {} /\ countTimer = FALSE
    /\ fetches = {}
    /\ renderTimer = FALSE /\ dirty = FALSE

Settles(r) == OnEose(r) \/ OnClose(r)
Counting(f, r) == \E got \in SUBSET {b \in Backups[r] : Owner[b] \in f.batch},
                     others \in 0 .. 1 : CountsArrive(f, r, got, others)

Next ==
    \/ \E r \in Relays \ Malformed :
          \/ \E a \in Anns : OnEvent(r, a)
          \/ Settles(r)
          \/ EndedUntold(r)
    \/ \E k \in late : LateClose(k)
    \/ \E k \in checks, outcome \in Outcomes : CheckAnswers(k, outcome)
    \/ FetchCounts
    \/ \E f \in fetches, r \in Relays : Counting(f, r)
    \/ \E R \in Edits \cap Choices, S \in SUBSET active :
          StartDiscovery(R, S) \/ StartDiscoveryFails(R, S)
    \/ Render

(* Requests end (after 5 seconds at the latest), relays answer or their queries
   time out (RelayConnection).  What is promised needs no other timer. *)
Fairness ==
    /\ WF_vars(\E r \in Relays \ Malformed :
                  phase[r] = "asked" /\ (Settles(r) \/ EndedUntold(r)))
    /\ WF_vars(\E k \in checks, outcome \in Outcomes : CheckAnswers(k, outcome))

Spec == Init /\ [][Next]_vars /\ Fairness
-----------------------------------------------------------------------------
(* Properties. *)

Heard(c) == {a \in UNION {heard[r] : r \in Relays} : a \in Valid /\ Coord[a] = c}

(* Of all valid announcements of a coordinate that the relays have sent in this
   discovery, the page holds the newest, whichever relay sent it and whatever
   order they came in; nothing of an earlier discovery is left. *)
NewestIsKept ==
    \A c \in Coords :
        \/ operators[c] = None /\ Heard(c) = {}
        \/ /\ operators[c] \in Heard(c)
           /\ \A a \in Heard(c) \ {operators[c]} : Newer(operators[c], a)

(* Whatever changes what the page would show schedules a render: the page never
   rests on a state that is not the current one. *)
ChangesAreRendered == dirty => renderTimer

(* The state is well formed, and the page catches up with it. *)
Consistency == TypeOK /\ ChangesAreRendered

(* "No operators found" is shown only when every relay of this discovery has
   answered and none sent a valid announcement.  There are two exceptions, callbacks
   of an earlier discovery that count as an answer: the failure of a relay it was
   still connecting to, and the end of a query that its relay had ended untold. *)
NoneFoundIsTrue ==
    Placeholder = "No operators found" =>
        /\ \A r \in active : \/ phase[r] \in {"live", "closed"}
                             \/ <<"announcements", r>> \in overheard
        /\ \A c \in Coords : Heard(c) = {}

(* A chip is green only while the relay's own query of this discovery is live
   (app.js: "each relay's chip reflects only its own connection state"), although
   a relay that never connected is reported with oneose first.  Live is what the
   page was told: a query that its relay ended untold still counts. *)
GreenIsLive == \A r \in Relays : chip[r] = "connected" => phase[r] = "live"

(* A number of users never exceeds the records that exist, however many relays
   store the same record. *)
CountsAreReal ==
    \A c \in Coords :
        countOf[c].n <= Cardinality({b \in AllBackups : Owner[b] = Author[c]})

(* What the page claims of operators, relays and numbers is so. *)
PageIsHonest == NoneFoundIsTrue /\ GreenIsLive /\ CountsAreReal

Failing(p, d) == \E k \in checks \ checks' : Author[Coord[k.ann]] = p /\ k.domain = d
Dropping(p, d) == \E c \in Coords : /\ Author[c] = p /\ operators'[c] # operators[c]
                                   /\ d \notin Announces[operators'[c]]

(* Within a discovery a domain stays verified until a check of it fails or an
   announcement of its operator does not list it (visibility.js: "a card only
   ever disappears if a fresh check actually fails").  The announcement may be
   one for another origin of that operator. *)
VerifiedStays ==
    [][\A p \in Authors, d \in Domains :
          status[<<p, d>>] = "verified" /\ status'[<<p, d>>] # "verified"
          => run' # run \/ Failing(p, d) \/ Dropping(p, d)]_vars

(* While its entry stands a number of users only grows and stays approximate once
   it is (counts.js), unless a fetch of an earlier discovery answers. *)
CountsGrow ==
    [][\A c \in Coords :
          /\ run' = run /\ operators'[c] = operators[c]
          /\ ~\E r \in Relays : <<"counts", r>> \in overheard'
          => /\ countOf[c].n <= countOf'[c].n
             /\ countOf[c].approx => countOf'[c].approx]_vars

(* Within a discovery the page takes nothing back that still holds. *)
NothingIsTakenBack == VerifiedStays /\ CountsGrow

(* Discovery ends: once the user leaves the relays alone, every well-formed relay
   is settled and every domain on the page has a result.  The exception is a
   domain whose status was deleted by an announcement of the same operator for
   another origin, which nothing checks again. *)
Shared(c, d) == \E o \in Entries \ {c} : Author[o] = Author[c] /\ d \notin DomainsOf(o)
DiscoverySettles ==
    <>[](/\ active \ Malformed \subseteq settled
         /\ \A c \in Entries : \A d \in DomainsOf(c) :
                StatusOf(Author[c], d) # "checking" \/ Shared(c, d))
=============================================================================
