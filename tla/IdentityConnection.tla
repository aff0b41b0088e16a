-------------------------- MODULE IdentityConnection --------------------------
(***************************************************************************)
(* Who the page works for (app.js, nostr-auth.js): the key that the        *)
(* browser's signing extension gives out, asked for with the button in the *)
(* header or on the way to a registration.  The page's tab for managing    *)
(* addresses and the registration dialog are made for the key of that      *)
(* moment.  The extension may take its time, answer in any order, refuse,  *)
(* and give another key when it is asked again.  It also signs the         *)
(* requests of the table, with the key that is selected in it then: the    *)
(* page looks at its own key only to see that there is one.                *)
(***************************************************************************)
EXTENDS Naturals

CONSTANTS
    Identities,   \* public keys the extension may give
    MaxAsks       \* bound: times the extension is asked

NoOne == "nobody"
ASSUME IdentitiesAssumption == NoOne \notin Identities

VARIABLES
    connected,   \* connectedPubkey
    asks,        \* asks[i]: a call of doConnect, and who made it
    tab,         \* the section that is shown
    rendered,    \* the tab has a table
    lists,       \* requests for lists of that table: the key that signed, and
                 \* the key the header showed then
    owner,       \* ownerPubkey of the dialog that is open, NoOne if none is
    failure      \* the connect error is shown

identityVars == <<connected, asks, tab, rendered, lists, owner, failure>>

tableVars == <<rendered, lists>>

Asks == 1 .. MaxAsks
NoAsk == [by |-> "nobody", stage |-> "none"]

IdentityTypeOK ==
    /\ connected \in Identities \cup {NoOne}
    /\ asks \in [Asks -> {NoAsk} \cup
                    [by : {"header", "card"}, stage : {"asked", "connected", "over"}]]
    /\ tab \in {"browse", "manage"}
    /\ rendered \in BOOLEAN
    /\ lists \subseteq [signed : Identities, shown : Identities \cup {NoOne}]
    /\ owner \in Identities \cup {NoOne}
    /\ failure \in BOOLEAN

IdentityInit ==
    /\ connected = NoOne
    /\ asks = [i \in Asks |-> NoAsk]
    /\ tab = "browse" /\ rendered = FALSE /\ lists = {} /\ owner = NoOne
    /\ failure = FALSE

AsksFor(who) ==
    \E i \in Asks :
        /\ asks[i] = NoAsk
        /\ \A j \in 1 .. i - 1 : asks[j] # NoAsk
        /\ asks' = [asks EXCEPT ![i] = [by |-> who, stage |-> "asked"]]

(* The overlay of a dialog covers the page. *)
Reachable == owner = NoOne

(* The button in the header. *)
ClickConnect ==
    /\ Reachable
    /\ AsksFor("header")
    /\ failure' = FALSE
    /\ UNCHANGED <<connected, tab, tableVars, owner>>

(* The button of a card: the dialog opens, after connecting where need be. *)
OnRegister ==
    /\ Reachable /\ tab = "browse"
    /\ IF connected = NoOne
       THEN AsksFor("card") /\ UNCHANGED owner
       ELSE owner' = connected /\ UNCHANGED asks
    /\ UNCHANGED <<connected, tab, tableVars, failure>>

(* renderManage, with a key that is connected: a new table, which asks the
   operators for their lists anew. *)
RenderTable == rendered' = TRUE /\ lists' = {}

(* fetchOperatorAddresses, of the first load and after an action on a row: the
   extension signs the request, with whichever key it has. *)
SignList(key) ==
    /\ rendered
    /\ lists' = lists \cup {[signed |-> key, shown |-> connected]}
    /\ UNCHANGED <<connected, asks, tab, rendered, owner, failure>>

(* doConnect: a table that is in view is made anew. *)
DoConnect(i, key) ==
    /\ asks[i].stage = "asked"
    /\ connected' = key
    /\ IF tab = "manage" THEN RenderTable ELSE UNCHANGED tableVars
    /\ asks' = [asks EXCEPT ![i].stage = IF @ = "asked" /\ asks[i].by = "card"
                                         THEN "connected" ELSE "over"]
    /\ UNCHANGED <<tab, owner, failure>>

(* onRegister goes on after its doConnect: it reads the key that is connected
   by now, and its dialog takes the place of one that is open. *)
OpenDialog(i) ==
    /\ asks[i].stage = "connected"
    /\ owner' = connected
    /\ asks' = [asks EXCEPT ![i].stage = "over"]
    /\ UNCHANGED <<connected, tab, tableVars, failure>>

(* No extension, or the user says no; a card tells beside its own button. *)
ConnectFails(i) ==
    /\ asks[i].stage = "asked"
    /\ asks' = [asks EXCEPT ![i].stage = "over"]
    /\ failure' = (failure \/ asks[i].by = "header")
    /\ UNCHANGED <<connected, tab, tableVars, owner>>

CloseDialog ==
    /\ owner # NoOne
    /\ owner' = NoOne
    /\ UNCHANGED <<connected, asks, tab, tableVars, failure>>

(* The button of the other tab is hidden until somebody is connected. *)
SelectTab(t) ==
    /\ Reachable
    /\ t = "manage" => connected # NoOne
    /\ tab' = t
    /\ IF t = "manage" THEN RenderTable ELSE UNCHANGED tableVars
    /\ UNCHANGED <<connected, asks, owner, failure>>

IdentityNext ==
    \/ ClickConnect
    \/ OnRegister
    \/ \E i \in Asks :
          \/ \E key \in Identities : DoConnect(i, key)
          \/ OpenDialog(i)
          \/ ConnectFails(i)
    \/ CloseDialog
    \/ \E t \in {"browse", "manage"} : SelectTab(t)
    \/ \E key \in Identities : SignList(key)

-----------------------------------------------------------------------------
(* The table the user sees was asked for under the identity the header shows,
   although connecting and changing tabs each make one half of it true: a list in
   it that was signed with the key the header showed then is the list of the key
   it shows now.  (Where the user had selected another account in the extension
   the list is that account's, and nothing on the page says so.)  A dialog is for
   the identity in the header too, unless the extension was asked twice and has
   answered with another key since. *)
AskedTwice == \E i, j \in Asks : i # j /\ asks[i] # NoAsk /\ asks[j] # NoAsk
IdentityIsShown ==
    /\ tab = "manage" => rendered /\ \A l \in lists : l.signed = l.shown => l.signed = connected
    /\ owner # NoOne /\ owner # connected => AskedTwice
    /\ connected = NoOne => tab = "browse" /\ owner = NoOne
=============================================================================
