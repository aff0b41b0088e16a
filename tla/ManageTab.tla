------------------------------ MODULE ManageTab ------------------------------
(***************************************************************************)
(* The Manage tab of the marketplace (manage.js): one table of the         *)
(* addresses an identity has at all verified operators (which identity:    *)
(* IdentityConnection).  The                                               *)
(* table is loaded from all operators at once; updating or deleting a row  *)
(* is followed by a fetch from the operator of that row alone, whose       *)
(* answer replaces that operator's rows.                                   *)
(*                                                                         *)
(* renderManage makes a new table; requests of an earlier one still reach  *)
(* the operators, and their answers are written to what nobody sees.       *)
(***************************************************************************)
EXTENDS Naturals, FiniteSets

CONSTANTS
    Operators,   \* operators the tab asks, with different origins
    Addresses,   \* names, at any operator
    Targets,     \* destinations
    Holdings,    \* what the operators may hold when the page is opened
    MaxTables,   \* bound: calls of renderManage
    MaxActions   \* bound: updates and deletions

NoTarget == "none"
ASSUME TargetsAssumption ==
    /\ NoTarget \notin Targets
    /\ Holdings \subseteq [Operators -> [Addresses -> Targets \cup {NoTarget}]]
ASSUME TablesAssumption == MaxTables \in Nat

VARIABLES
    held,      \* held[o][n]: destination of n at operator o, NoTarget if absent
    staged,    \* staged[o][n]: destination of an update of n that no relay has
               \* acknowledged yet, NoTarget if there is none
    table,     \* calls of renderManage so far; the last one's table is seen
    loading,   \* it still says "Loading your addresses"
    loads,     \* loads[o]: the list request of the first load
    rows,      \* rows of the table: operator, name, destination
    unreached, \* operators of which the table says that they were not reached
    actions,   \* actions[i]: an update or deletion and the fetch after it
    doubt,     \* doubt[o]: of requests to o since the table was made, two
               \* overlapped, or an action got no answer the table could use
    behind     \* behind[o]: names whose update was acknowledged since o was last
               \* asked for its list

operatorVars == <<held, staged, behind>>
manageVars == <<operatorVars, table, loading, loads, rows, unreached, actions, doubt>>

Actions == 1 .. MaxActions
Row == [op : Operators, name : Addresses, to : Targets]
Lists == SUBSET Row
NoAction == [stage |-> "none"]

(* What a request for the list of o finds. *)
ListOf(o) == {[op |-> o, name |-> n, to |-> held[o][n]] :
                 n \in {m \in Addresses : held[o][m] # NoTarget}}

ManageTypeOK ==
    /\ held \in [Operators -> [Addresses -> Targets \cup {NoTarget}]]
    /\ staged \in [Operators -> [Addresses -> Targets \cup {NoTarget}]]
    /\ behind \in [Operators -> SUBSET Addresses]
    /\ table \in 0 .. MaxTables
    /\ loading \in BOOLEAN
    /\ loads \in [Operators -> [stage : {"none", "sent", "failed", "unreadable"}]
                               \cup [stage : {"answered"}, list : Lists]]
    /\ rows \subseteq Row
    /\ unreached \subseteq Operators
    /\ actions \in [Actions -> {NoAction} \cup
          [table : 1 .. table, row : Row, to : Targets \cup {NoTarget},
           stage : {"sent", "served", "refetch", "fetched", "over"},
           list : Lists, here : BOOLEAN]]
    /\ doubt \in [Operators -> BOOLEAN]

ManageInit ==
    /\ held \in Holdings
    /\ staged = [o \in Operators |-> [n \in Addresses |-> NoTarget]]
    /\ behind = [o \in Operators |-> {}]
    /\ table = 0 /\ loading = FALSE
    /\ loads = [o \in Operators |-> [stage |-> "none"]]
    /\ rows = {} /\ unreached = {}
    /\ actions = [i \in Actions |-> NoAction]
    /\ doubt = [o \in Operators |-> FALSE]

Underway(i, o) == /\ actions[i] # NoAction /\ actions[i].stage # "over"
                  /\ actions[i].row.op = o

(* The buttons of a row are disabled while an action on it is under way, unless
   the table was built anew since: its new buttons know nothing of it. *)
Disabled == {actions[i].row : i \in {j \in Actions :
                /\ actions[j] # NoAction /\ actions[j].stage # "over"
                /\ actions[j].here}}
Rebuilt == [i \in Actions |-> IF actions[i] = NoAction THEN NoAction
                              ELSE [actions[i] EXCEPT !.here = FALSE]]

-----------------------------------------------------------------------------
(* renderManage: a click on the tab, or a connect while it is shown. *)
RenderManage ==
    /\ table < MaxTables
    /\ table' = table + 1
    /\ loading' = TRUE
    /\ loads' = [o \in Operators |-> [stage |-> "sent"]]
    /\ rows' = {} /\ unreached' = {}
    /\ actions' = Rebuilt
    /\ doubt' = [o \in Operators |-> \E i \in Actions : Underway(i, o)]
    /\ UNCHANGED operatorVars

(* An operator answers with what it holds then, or the request fails, or the
   answer is a success whose body is no list of addresses (apiFetch makes {} of
   what is no JSON); the table waits for all of them (Promise.allSettled). *)
LoadServed(o) ==
    /\ loads[o].stage = "sent"
    /\ \E answer \in {[stage |-> "answered", list |-> ListOf(o)],
                       [stage |-> "failed"], [stage |-> "unreadable"]} :
          loads' = [loads EXCEPT ![o] = answer]
    /\ behind' = [behind EXCEPT ![o] = {}]
    /\ UNCHANGED <<held, staged, table, loading, rows, unreached, actions, doubt>>

\* Mutation: one operator that fails is enough to show nothing (Promise.all).
LoadedByAll ==
    /\ loading
    /\ \A o \in Operators : loads[o].stage = "answered"
    /\ loading' = FALSE
    /\ rows' = UNION {loads[o].list : o \in Operators}
    /\ loads' = [o \in Operators |-> [stage |-> "none"]]
    /\ UNCHANGED <<operatorVars, table, unreached, actions, doubt>>

(* The loop over an unreadable answer throws, and nothing catches it: the table
   says "Loading your addresses" until another takes its place. *)
Loaded ==
    /\ loading
    /\ \A o \in Operators : loads[o].stage \in {"answered", "failed"}
    /\ loading' = FALSE
    /\ rows' = UNION {loads[o].list : o \in {p \in Operators : loads[p].stage = "answered"}}
    /\ unreached' = {o \in Operators : loads[o].stage = "failed"}
    /\ loads' = [o \in Operators |-> [stage |-> "none"]]
    /\ UNCHANGED <<operatorVars, table, actions, doubt>>

-----------------------------------------------------------------------------
(* A click on Update (to a destination) or, confirmed, on Delete (NoTarget). *)
Act(i, r, to) ==
    /\ r \in rows \ Disabled
    /\ actions[i] = NoAction /\ \A j \in 1 .. i - 1 : actions[j] # NoAction
    /\ actions' = [actions EXCEPT ![i] = [table |-> table, row |-> r, to |-> to,
                                          stage |-> "sent", list |-> {}, here |-> TRUE]]
    /\ doubt' = [doubt EXCEPT ![r.op] = @ \/ \E j \in Actions : Underway(j, r.op)]
    /\ UNCHANGED <<operatorVars, table, loading, loads, rows, unreached>>

(* The operator carries the action out; it has to have the address, with no
   update on its way.  A deleted address is listed no more; an update is staged. *)
ActServed(i) ==
    LET o == actions[i].row.op
        n == actions[i].row.name
    IN  /\ actions[i].stage = "sent"
        /\ held[o][n] # NoTarget /\ staged[o][n] = NoTarget
        /\ IF actions[i].to = NoTarget
           THEN held' = [held EXCEPT ![o][n] = NoTarget] /\ UNCHANGED staged
           ELSE staged' = [staged EXCEPT ![o][n] = actions[i].to] /\ UNCHANGED held
        /\ actions' = [actions EXCEPT ![i].stage = "served"]
        /\ UNCHANGED <<behind, table, loading, loads, rows, unreached, doubt>>

(* acknowledge_event, before the operator answers (200, active) or, where no relay
   took the update then (200, not active), at some time after: only now the list
   of the owner has the new destination. *)
Acknowledge(o, n) ==
    /\ staged[o][n] # NoTarget
    /\ held' = [held EXCEPT ![o][n] = staged[o][n]]
    /\ staged' = [staged EXCEPT ![o][n] = NoTarget]
    /\ behind' = [behind EXCEPT ![o] = @ \cup {n}]
    /\ UNCHANGED <<table, loading, loads, rows, unreached, actions, doubt>>

(* Seen(i): what continuation i writes to is the table the user sees. *)
Seen(i) == actions[i].table = table /\ ~loading

(* Refused, or no answer: the row says so and can be used again.  An action
   that was carried out all the same is not fetched. *)
ActFails(i) ==
    /\ actions[i].stage \in {"sent", "served"}
    /\ actions' = [actions EXCEPT ![i].stage = "over"]
    /\ doubt' = [doubt EXCEPT ![actions[i].row.op] = @ \/ actions[i].stage = "served"]
    /\ UNCHANGED <<operatorVars, table, loading, loads, rows, unreached>>

(* Answered, and whether the update is active yet is not looked at:
   refreshOperator asks for the list. *)
Refetch(i) ==
    /\ actions[i].stage = "served"
    /\ actions' = [actions EXCEPT ![i].stage = "refetch"]
    /\ UNCHANGED <<operatorVars, table, loading, loads, rows, unreached, doubt>>

RefetchServed(i) ==
    /\ actions[i].stage = "refetch"
    /\ actions' = [actions EXCEPT ![i].stage = "fetched",
                                  ![i].list = ListOf(actions[i].row.op)]
    /\ behind' = [behind EXCEPT ![actions[i].row.op] = {}]
    /\ UNCHANGED <<held, staged, table, loading, loads, rows, unreached, doubt>>

\* Mutation: the rows the operator had before stay.
AddRows(o, list) == rows' = rows \cup list

(* The rows of the operator are replaced, and the whole table is built anew. *)
ReplaceRows(o, list) == rows' = {r \in rows : r.op # o} \cup list
Finish(i) == actions' = [(IF Seen(i) THEN Rebuilt ELSE actions) EXCEPT ![i].stage = "over"]

(* refreshOperator, from the answer on. *)
RefreshOperator(i) ==
    /\ actions[i].stage = "fetched"
    /\ Finish(i)
    /\ IF Seen(i) THEN ReplaceRows(actions[i].row.op, actions[i].list)
       ELSE UNCHANGED rows
    /\ UNCHANGED <<operatorVars, table, loading, loads, unreached, doubt>>

(* The request fails, or its answer cannot be read. *)
RefreshFails(i) ==
    /\ actions[i].stage \in {"refetch", "fetched"}
    /\ Finish(i)
    /\ IF Seen(i)
       THEN /\ ReplaceRows(actions[i].row.op, {})
            /\ unreached' = unreached \cup {actions[i].row.op}
       ELSE UNCHANGED <<rows, unreached>>
    /\ UNCHANGED <<operatorVars, table, loading, loads, doubt>>

-----------------------------------------------------------------------------
Continue(i) == \/ ActServed(i) \/ ActFails(i) \/ Refetch(i) \/ RefetchServed(i)
               \/ RefreshOperator(i) \/ RefreshFails(i)

ManageNext ==
    \/ RenderManage
    \/ \E o \in Operators : LoadServed(o) \/ \E n \in Addresses : Acknowledge(o, n)
    \/ Loaded
    \/ \E i \in Actions : \/ \E r \in rows, to \in Targets \cup {NoTarget} : Act(i, r, to)
                          \/ actions[i] # NoAction /\ Continue(i)

-----------------------------------------------------------------------------
(* Properties. *)

Quiet(o) == table > 0 /\ ~loading /\ \A i \in Actions : ~Underway(i, o)
RowsOf(o) == {r \in rows : r.op = o}

(* Once nothing is under way for an operator the table shows what the operator
   lists, or shows no row of it that could be old and says that it was not
   reached.  A row shows the destination before an update that was acknowledged
   only after the list was asked for: the page was answered that the update is not
   active yet, and asks no second time.  The other exceptions are in doubt: two
   requests for one operator that overlapped, whose answers may come in the other
   order, and an action whose answer was lost, after which nothing is fetched. *)
Agrees(o, list) ==
    LET current(l) == {r \in l : r.name \notin behind[o]}
        names(l)   == {r.name : r \in l}
    IN  current(list) = current(ListOf(o)) /\ names(list) = names(ListOf(o))
TableIsTrue ==
    \A o \in Operators : Quiet(o) /\ ~doubt[o] =>
        Agrees(o, RowsOf(o)) \/ (RowsOf(o) = {} /\ o \in unreached)

(* A request that the extension has still to sign, or that was not answered. *)
Out(i) == actions[i].stage \in {"sent", "served", "refetch"}
Unreadable == /\ \E o \in Operators : loads[o].stage = "unreadable"
              /\ \A o \in Operators : loads[o].stage # "sent"

(* If every request is signed and ends, in whatever way and order, every action
   comes to an end and the table stops loading, unless an operator answered the
   first request with what is no list of addresses. *)
ManageSettles ==
    (/\ \A o \in Operators : []<>(loads[o].stage # "sent")
     /\ \A i \in Actions : []<>(~Out(i)))
    => []<>(/\ ~loading \/ Unreadable
            /\ \A o \in Operators, i \in Actions : ~Underway(i, o))
=============================================================================
