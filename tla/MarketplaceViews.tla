--------------------------- MODULE MarketplaceViews ---------------------------
(***************************************************************************)
(* What the user works with: the identity that is connected, the           *)
(* registration dialog and the Manage tab.  The dialog covers the page and *)
(* the dialog and the table take the identity when they are made and share *)
(* no variable of the program after that, so that a behaviour is one of    *)
(* the three scenes.                                                       *)
(***************************************************************************)
EXTENDS IdentityConnection, RegistrationModal, ManageTab

VARIABLE scene   \* "identity", "dialog" or "manage"

viewVars == <<scene, identityVars, modalVars, manageVars>>

ViewInit ==
    /\ scene \in {"identity", "dialog", "manage"}
    /\ IdentityInit
    /\ ModalInit
    /\ ManageInit

IdentityStep ==
    scene = "identity" /\ IdentityNext /\ UNCHANGED <<scene, modalVars, manageVars>>
DialogStep ==
    scene = "dialog" /\ ModalNext /\ UNCHANGED <<scene, identityVars, manageVars>>
ManageStep ==
    scene = "manage" /\ ManageNext /\ UNCHANGED <<scene, identityVars, modalVars>>
ViewNext == IdentityStep \/ DialogStep \/ ManageStep

(* The interval of a poll fires and its requests end.  What the page does of its
   own accord, with what it has been answered: fill the table. *)
Polling(k) ==
    /\ scene = "dialog"
    /\ \E n \in 1 .. MaxPolls : Poll(k, n) \/ PollServed(k, n) \/ PollAnswers(k, n)
    /\ UNCHANGED <<scene, identityVars, manageVars>>
Refreshes(i) ==
    scene = "manage" /\ RefreshOperator(i) /\ UNCHANGED <<scene, identityVars, modalVars>>
Loads == scene = "manage" /\ Loaded /\ UNCHANGED <<scene, identityVars, modalVars>>

ViewFairness ==
    /\ \A k \in Submits : WF_viewVars(Polling(k))
    /\ \A i \in Actions : WF_viewVars(Refreshes(i))
    /\ WF_viewVars(Loads)

ViewSpec == ViewInit /\ [][ViewNext]_viewVars /\ ViewFairness

-----------------------------------------------------------------------------
ViewTypeOK == IdentityTypeOK /\ ModalTypeOK /\ ManageTypeOK

(* The state is well formed; the intervals that run are those of the dialog the
   user sees, unless dialogs have crossed; and dialog and table are those of the
   identity that is connected, as far as the page can know. *)
ViewConsistency == ViewTypeOK /\ TimersAreOwned /\ IdentityIsShown
=============================================================================
