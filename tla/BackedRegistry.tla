---------------------------- MODULE BackedRegistry ----------------------------
(***************************************************************************)
(* What the server promises of its addresses, whatever it stores and in    *)
(* whatever order its handlers run: an address starts, changes and stops   *)
(* resolving only after a relay has stored a signed record that says so.   *)
(* Relays replace a record of an address by a newer one; what they still   *)
(* keep of an address that is served is in AddressLifecycle, which         *)
(* implements this.                                                        *)
(***************************************************************************)

CONSTANTS
    Names,    \* addresses
    Dests,    \* destinations
    NoDest    \* the answer for an address that does not resolve

VARIABLES
    served,   \* what an address resolves to
    durable   \* the records at least one relay has stored at some time

vars == <<served, durable>>

Notice == [name: Names, kind: {"active", "deleted"}, dest: Dests \cup {NoDest}]

Backed(n, d) == [name |-> n, kind |-> "active", dest |-> d] \in durable

Withdrawn(n) == [name |-> n, kind |-> "deleted", dest |-> NoDest] \in durable

Init ==
    /\ durable \in SUBSET Notice
    /\ served \in [Names -> Dests \cup {NoDest}]
    /\ \A n \in Names : served[n] # NoDest => Backed(n, served[n])

\* A relay stores one more record.
Store(notice) ==
    /\ durable' = durable \cup {notice}
    /\ UNCHANGED served

\* An address resolves to a destination that is on record.
Serve(n, d) ==
    /\ Backed(n, d)
    /\ served' = [served EXCEPT ![n] = d]
    /\ UNCHANGED durable

\* An address whose tombstone is on record stops resolving.
Withdraw(n) ==
    /\ Withdrawn(n)
    /\ served' = [served EXCEPT ![n] = NoDest]
    /\ UNCHANGED durable

Next ==
    \/ \E notice \in Notice : Store(notice)
    \/ \E n \in Names, d \in Dests : Serve(n, d)
    \/ \E n \in Names : Withdraw(n)

Spec == Init /\ [][Next]_vars

=============================================================================
