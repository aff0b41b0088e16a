----------------------------- MODULE RelayQuery -----------------------------
(***************************************************************************)
(* What the marketplace relies on when it asks one relay for events with   *)
(* pool.subscribeMany([relay], ...): events that match and verify arrive,  *)
(* each at most once unless a relay disguises it, until the query is       *)
(* closed; "that is all I have stored" (oneose) is said once and never     *)
(* taken back, closing (onclose) is said once and last, and one of the two *)
(* is said in the end.                                                     *)
(***************************************************************************)
EXTENDS Naturals

CONSTANTS
    Subs,     \* the queries
    Events,   \* the events relays may send
    Accepts,  \* Accepts[s]: the events that verify and match the filters of s
    Disguised \* the events that may come in a frame their id cannot be read from

VARIABLES
    phase,  \* phase[s]: "idle", "asked", "live" (oneose was called), "closed"
    given,  \* given[s]: the events onevent was called with
    again   \* again[s]: the ones it was called with more than once

queryVars == <<phase, given, again>>

QueryTypeOK ==
    /\ phase \in [Subs -> {"idle", "asked", "live", "closed"}]
    /\ given \in [Subs -> SUBSET Events]
    /\ again \in [Subs -> SUBSET Events]

QueryInit ==
    /\ phase = [s \in Subs |-> "idle"]
    /\ given = [s \in Subs |-> {}]
    /\ again = [s \in Subs |-> {}]

Ask(s) ==
    /\ phase[s] = "idle"
    /\ phase' = [phase EXCEPT ![s] = "asked"]
    /\ UNCHANGED <<given, again>>

Give(s, e) ==
    /\ phase[s] \in {"asked", "live"}
    /\ e \in Accepts[s]
    /\ e \notin given[s]
    /\ given' = [given EXCEPT ![s] = @ \cup {e}]
    /\ UNCHANGED <<phase, again>>

(* A second delivery, as one sees it who does not keep count. *)
Repeat(s, e) ==
    /\ phase[s] \in {"asked", "live"}
    /\ e \in given[s] \cap Disguised
    /\ UNCHANGED <<phase, given>>

GiveAgain(s, e) ==
    /\ Repeat(s, e)
    /\ again' = [again EXCEPT ![s] = @ \cup {e}]

EndOfStored(s) ==
    /\ phase[s] = "asked"
    /\ phase' = [phase EXCEPT ![s] = "live"]
    /\ UNCHANGED <<given, again>>

(* A connection that fails closes all its queries at once. *)
End(S) ==
    /\ S # {}
    /\ \A s \in S : phase[s] \in {"asked", "live"}
    /\ phase' = [s \in Subs |-> IF s \in S THEN "closed" ELSE phase[s]]
    /\ UNCHANGED <<given, again>>

QueryNext ==
    \/ \E s \in Subs : Ask(s) \/ EndOfStored(s)
    \/ \E s \in Subs, e \in Events : Give(s, e) \/ GiveAgain(s, e)
    \/ \E S \in SUBSET Subs : End(S)

Answered(s) == phase[s] = "asked" ~> phase[s] \in {"live", "closed"}

QuerySpec ==
    /\ QueryInit
    /\ [][QueryNext]_queryVars
    /\ \A s \in Subs : Answered(s)
=============================================================================
