-------------------------- MODULE RegistrationModal --------------------------
(***************************************************************************)
(* The registration dialog of the marketplace (modal.js): a form that asks *)
(* the operator for a price while the user types, a signed submission, and *)
(* for a name that costs something an invoice that is polled until it is   *)
(* paid.  Answers come back after the dialog was closed, after another one *)
(* was opened, and in any order; the browser's timers are one global       *)
(* record for all dialogs.                                                 *)
(*                                                                         *)
(* The operator is what status and start of registration.rs let a client   *)
(* see of it (PaidRegistration models it in full).                         *)
(***************************************************************************)
EXTENDS Naturals, FiniteSets

CONSTANTS
    Names,      \* user names the user may type
    Price,      \* Price[name]: what a quote says, "free" or "paid"
    MaxModals,  \* bound: dialogs opened
    MaxQuotes,  \* bound: quotes asked for
    MaxSubmits, \* bound: submissions
    MaxPolls    \* bound: polls of one invoice under way at a time

NoName == ""   \* the user-name field when it is empty
ASSUME ModalAssumption ==
    /\ NoName \notin Names
    /\ Price \in [Names -> {"free", "paid"}]
    /\ MaxModals \in Nat /\ MaxQuotes \in Nat /\ MaxSubmits \in Nat

VARIABLES
    opened,     \* dialogs opened so far; a dialog is its number
    open,       \* the dialog whose overlay is in the page, 0 if there is none
    shows,      \* shows[d]: the submission the body of d shows, 0 for the form
    \* the form of the open dialog (that of a closed one is seen by nobody)
    typed,      \* the value of the user-name field
    debounce,   \* timers.debounce
    quoteSeq,
    quotes,     \* quotes under way: [seq, name]
    lastQuote,  \* [name, price]
    message,    \* what quoteStatus says: of which name, and what
    enabled,    \* the submit button
    \* submissions and their invoices
    submits,    \* submits[k]: dialog, name, price and state
    attempt,    \* attempt[k]: the registration at the operator
    page,       \* page[k]: what the invoice view of k says
    stopped,    \* stopped[k]
    polls,      \* polls[k]: requests of poll() under way, with their answers
    \* intervals
    polling,    \* invoices whose poll interval the browser runs
    ticking,    \* invoices whose countdown interval the browser runs
    timers,     \* timers.poll and timers.countdown: an invoice each, or 0
    crossed     \* an answer that came late has touched the intervals of another
                \* dialog or invoice

formVars == <<typed, debounce, quoteSeq, quotes, lastQuote, message, enabled>>
invoiceVars == <<page, stopped>>
timerVars == <<polling, ticking, timers>>
modalVars == <<opened, open, shows, formVars, submits, attempt, invoiceVars,
               polls, timerVars, crossed>>

Dialogs == 1 .. MaxModals
Submits == 1 .. MaxSubmits
NoQuote == [name |-> NoName, price |-> "none"]
Silent == [name |-> NoName, says |-> "nothing"]
Unused == [dialog |-> 0, name |-> NoName, price |-> "none", state |-> "unused"]
Answers == {"pending", "publishing", "complete", "expired", "error"}
Final == {"complete", "expired", "error"}

ModalTypeOK ==
    /\ opened \in 0 .. MaxModals /\ open \in {0, opened}
    /\ shows \in [Dialogs -> 0 .. MaxSubmits]
    /\ typed \in Names \cup {NoName}
    /\ debounce \in BOOLEAN /\ (open = 0 => ~debounce)
    /\ quoteSeq \in 0 .. MaxQuotes
    /\ quotes \subseteq [seq : 1 .. quoteSeq, name : Names]
    /\ lastQuote \in {NoQuote} \cup [name : Names, price : {"free", "paid"}]
    /\ message \in [name : Names \cup {NoName},
                    says : {"nothing", "checking", "price", "error"}]
    /\ enabled \in BOOLEAN
    /\ submits \in [Submits -> {Unused} \cup
          [dialog : Dialogs, name : Names, price : {"free", "paid"},
           state : {"sent", "failed", "shown"}]]
    /\ attempt \in [Submits -> {"none", "pending", "publishing", "complete", "expired"}]
    /\ page \in [Submits -> {"none", "waiting", "paid"} \cup Final]
    /\ stopped \in [Submits -> BOOLEAN]
    /\ polls \in [Submits -> [1 .. MaxPolls -> {"idle", "asked"} \cup Answers]]
    /\ polling \subseteq Submits /\ ticking \subseteq Submits
    /\ timers \in [{"poll", "countdown"} -> 0 .. MaxSubmits]
    /\ crossed \in BOOLEAN

ModalInit ==
    /\ opened = 0 /\ open = 0
    /\ shows = [d \in Dialogs |-> 0]
    /\ typed = NoName /\ debounce = FALSE /\ quoteSeq = 0 /\ quotes = {}
    /\ lastQuote = NoQuote /\ message = Silent /\ enabled = FALSE
    /\ submits = [k \in Submits |-> Unused]
    /\ attempt = [k \in Submits |-> "none"]
    /\ page = [k \in Submits |-> "none"]
    /\ stopped = [k \in Submits |-> FALSE]
    /\ polls = [k \in Submits |-> [n \in 1 .. MaxPolls |-> "idle"]]
    /\ polling = {} /\ ticking = {}
    /\ timers = [t \in {"poll", "countdown"} |-> 0]
    /\ crossed = FALSE

-----------------------------------------------------------------------------
(* The shell. *)

(* clearInterval on what the record holds, whosever interval that is. *)
ClearIntervals ==
    /\ polling' = polling \ {timers["poll"]}
    /\ ticking' = ticking \ {timers["countdown"]}
    /\ timers' = [t \in {"poll", "countdown"} |-> 0]

(* A new form, or none.  Quotes are numbered on across the forms. *)
FreshForm ==
    /\ typed' = NoName /\ debounce' = FALSE /\ quotes' = {} /\ UNCHANGED quoteSeq
    /\ lastQuote' = NoQuote /\ message' = Silent /\ enabled' = FALSE

(* openRegisterModal: it closes the dialog that is open.  Two clicks that wait
   for the extension open two dialogs, one after the other. *)
OpenModal ==
    /\ opened < MaxModals
    /\ opened' = opened + 1
    /\ open' = opened + 1
    /\ FreshForm
    /\ ClearIntervals
    /\ UNCHANGED <<shows, submits, attempt, invoiceVars, polls, crossed>>

\* Mutation: the dialog is removed, its intervals are not.
CloseOverlay ==
    /\ open # 0
    /\ open' = 0
    /\ FreshForm
    /\ UNCHANGED <<opened, shows, submits, attempt, invoiceVars, polls, timerVars, crossed>>

CloseModal ==
    /\ open # 0
    /\ open' = 0
    /\ FreshForm
    /\ ClearIntervals
    /\ UNCHANGED <<opened, shows, submits, attempt, invoiceVars, polls, crossed>>

-----------------------------------------------------------------------------
(* The form and its price. *)

AtForm == open # 0 /\ shows[open] = 0

Type(name) ==
    /\ AtForm
    /\ name # typed
    /\ typed' = name
    /\ enabled' = FALSE
    /\ debounce' = TRUE
    /\ UNCHANGED <<opened, open, shows, quoteSeq, quotes, lastQuote, message,
                   submits, attempt, invoiceVars, polls, timerVars, crossed>>

(* The timer of 400 ms: runQuote up to its request.  An empty field does not
   count as a newer question: a quote under way still arrives. *)
RunQuote ==
    /\ debounce
    /\ debounce' = FALSE
    /\ enabled' = FALSE
    /\ \/ /\ typed = NoName
          /\ lastQuote' = NoQuote
          /\ message' = Silent
          /\ UNCHANGED <<quoteSeq, quotes>>
       \/ /\ typed # NoName /\ quoteSeq < MaxQuotes
          /\ quoteSeq' = quoteSeq + 1
          /\ quotes' = quotes \cup {[seq |-> quoteSeq + 1, name |-> typed]}
          /\ message' = [name |-> typed, says |-> "checking"]
          /\ UNCHANGED lastQuote
    /\ UNCHANGED <<opened, open, shows, typed, submits, attempt, invoiceVars,
                   polls, timerVars, crossed>>

\* Mutation: the button is enabled whatever the field says by now.
QuotedForAny(q) ==
    /\ lastQuote' = [name |-> q.name, price |-> Price[q.name]]
    /\ message' = [name |-> q.name, says |-> "price"]
    /\ enabled' = TRUE

Quoted(q) ==
    /\ lastQuote' = [name |-> q.name, price |-> Price[q.name]]
    /\ message' = [name |-> q.name, says |-> "price"]
    /\ enabled' = (q.name = typed)

NotQuoted(q) ==
    /\ lastQuote' = NoQuote
    /\ message' = [name |-> q.name, says |-> "error"]
    /\ enabled' = FALSE

(* runQuote from its answer on. *)
QuoteArrives(q) ==
    /\ q \in quotes
    /\ quotes' = quotes \ {q}
    /\ \/ /\ q.seq # quoteSeq
          /\ UNCHANGED <<lastQuote, message, enabled>>
       \/ q.seq = quoteSeq /\ (Quoted(q) \/ NotQuoted(q))
    /\ UNCHANGED <<opened, open, shows, typed, debounce, quoteSeq, submits,
                   attempt, invoiceVars, polls, timerVars, crossed>>

-----------------------------------------------------------------------------
(* Submitting. *)

(* The click, up to the request.  The button does not tell that a submission is
   under way: a quote that arrives enables it again. *)
Submit(k) ==
    /\ AtForm /\ enabled
    /\ lastQuote.name = typed
    /\ submits[k] = Unused /\ \A j \in 1 .. k - 1 : submits[j] # Unused
    /\ enabled' = FALSE
    /\ submits' = [submits EXCEPT ![k] = [dialog |-> open, name |-> typed,
                                          price |-> lastQuote.price, state |-> "sent"]]
    /\ UNCHANGED <<opened, open, shows, typed, debounce, quoteSeq, quotes,
                   lastQuote, message, attempt, invoiceVars, polls, timerVars, crossed>>

(* An error: what the operator says, no answer, or an extension that refuses to
   sign; the operator may have done its part, of which the page learns nothing. *)
SubmitFails(k) ==
    /\ submits[k].state = "sent"
    /\ submits' = [submits EXCEPT ![k].state = "failed"]
    /\ enabled' = IF submits[k].dialog = open /\ AtForm
                  THEN lastQuote # NoQuote /\ lastQuote.name = typed ELSE enabled
    /\ UNCHANGED <<opened, open, shows, typed, debounce, quoteSeq, quotes, lastQuote,
                   message, attempt, invoiceVars, polls, timerVars, crossed>>

Intervals == polling \cup ticking

(* What the body of a dialog is replaced by.  A form that is replaced goes on
   where nobody sees it. *)
Replace(k) ==
    /\ shows' = [shows EXCEPT ![submits[k].dialog] = k]
    /\ IF submits[k].dialog = open THEN FreshForm ELSE UNCHANGED formVars

(* The operator has registered the name: renderFreeSuccess. *)
FreeSuccess(k) ==
    /\ submits[k].state = "sent" /\ submits[k].price = "free"
    /\ attempt' = [attempt EXCEPT ![k] = "complete"]
    /\ submits' = [submits EXCEPT ![k].state = "shown"]
    /\ Replace(k)
    /\ page' = [page EXCEPT ![k] = "complete"]
    /\ crossed' = (crossed \/ (submits[k].dialog = open /\ Intervals # {}))
    /\ UNCHANGED <<opened, open, stopped, polls, timerVars>>

(* The operator has made an invoice: renderInvoice.  The first tick of the
   countdown may find it expired (due) and stop; the intervals are set all the
   same, over whatever handles the record holds.  (An answer without a time of
   expiry, which the operator does not give, would have no countdown.) *)
ShowInvoice(k, due) ==
    /\ submits[k].state = "sent" /\ submits[k].price = "paid"
    /\ attempt' = [attempt EXCEPT ![k] = "pending"]
    /\ submits' = [submits EXCEPT ![k].state = "shown"]
    /\ Replace(k)
    /\ page' = [page EXCEPT ![k] = IF due THEN "expired" ELSE "waiting"]
    /\ stopped' = [stopped EXCEPT ![k] = due]
    /\ polling' = {k} \cup (IF due THEN polling \ {timers["poll"]} ELSE polling)
    /\ ticking' = {k} \cup (IF due THEN ticking \ {timers["countdown"]} ELSE ticking)
    /\ timers' = [t \in {"poll", "countdown"} |-> k]
    /\ crossed' = (crossed \/ submits[k].dialog # open \/ Intervals # {})
    /\ UNCHANGED <<opened, open, polls>>

-----------------------------------------------------------------------------
(* The invoice. *)

(* stop, with what the view says from now on. *)
StopWith(k, words) ==
    /\ stopped' = [stopped EXCEPT ![k] = TRUE]
    /\ page' = [page EXCEPT ![k] = words]
    /\ ClearIntervals

(* tickCountdown when the time is over, which may be any time; in the view of a
   completed registration there is no text of it any more. *)
Tick(k) ==
    /\ k \in ticking
    /\ StopWith(k, IF page[k] = "complete" THEN "complete" ELSE "expired")
    /\ crossed' = (crossed \/ Intervals \ {k} # {})
    /\ UNCHANGED <<opened, open, shows, formVars, submits, attempt, polls>>

(* poll, up to its request. *)
Poll(k, n) ==
    /\ k \in polling /\ ~stopped[k]
    /\ polls[k][n] = "idle" /\ \A i \in 1 .. n - 1 : polls[k][i] # "idle"
    /\ polls' = [polls EXCEPT ![k][n] = "asked"]
    /\ UNCHANGED <<opened, open, shows, formVars, submits, attempt, invoiceVars,
                   timerVars, crossed>>

(* The operator answers with what it knows then, or the request fails. *)
PollServed(k, n) ==
    /\ polls[k][n] = "asked"
    /\ \E answer \in {attempt[k], "error"} : polls' = [polls EXCEPT ![k][n] = answer]
    /\ UNCHANGED <<opened, open, shows, formVars, submits, attempt, invoiceVars,
                   timerVars, crossed>>

\* Mutation: the first answer ends the polling.
HandleStatusOnce(k, answer) ==
    /\ StopWith(k, IF answer = "pending" THEN "waiting"
                   ELSE IF answer = "publishing" THEN "paid" ELSE answer)
    /\ UNCHANGED shows

(* poll, from the answer on. *)
HandleStatus(k, answer) ==
    \/ /\ answer \in {"pending", "publishing"}
       /\ page' = [page EXCEPT ![k] = IF answer = "pending" THEN "waiting" ELSE "paid"]
       /\ UNCHANGED <<shows, stopped, timerVars>>
    \/ /\ answer \in Final
       /\ StopWith(k, answer)
       /\ IF answer = "complete" THEN shows' = [shows EXCEPT ![submits[k].dialog] = k]
          ELSE UNCHANGED shows

\* Mutation: an answer that comes after the end is handled too.
PollAnswersLate(k, n) ==
    /\ polls[k][n] \in Answers
    /\ polls' = [polls EXCEPT ![k][n] = "idle"]
    /\ HandleStatus(k, polls[k][n])
    /\ crossed' = (crossed \/ (polls[k][n] \in Final /\ Intervals \ {k} # {}))
    /\ UNCHANGED <<opened, open, formVars, submits, attempt>>

PollAnswers(k, n) ==
    /\ polls[k][n] \in Answers
    /\ polls' = [polls EXCEPT ![k][n] = "idle"]
    /\ IF stopped[k] THEN UNCHANGED <<shows, page, stopped, timerVars>>
       ELSE HandleStatus(k, polls[k][n])
    /\ crossed' = (crossed \/ (/\ polls[k][n] \in Final /\ ~stopped[k]
                               /\ Intervals \ {k} # {}))
    /\ UNCHANGED <<opened, open, formVars, submits, attempt>>

(* The attempt at the operator: paid, acknowledged by a relay, or expired. *)
Progress(k) ==
    /\ submits[k].state = "shown"
    /\ \E next \in {<<"pending", "publishing">>, <<"pending", "expired">>,
                    <<"publishing", "complete">>} :
          attempt[k] = next[1] /\ attempt' = [attempt EXCEPT ![k] = next[2]]
    /\ UNCHANGED <<opened, open, shows, formVars, submits, invoiceVars, polls,
                   timerVars, crossed>>

-----------------------------------------------------------------------------
Invoice(k) ==
    \/ Tick(k) \/ Progress(k)
    \/ \E n \in 1 .. MaxPolls : Poll(k, n) \/ PollServed(k, n) \/ PollAnswers(k, n)

ModalNext ==
    \/ OpenModal \/ CloseModal
    \/ \E name \in Names \cup {NoName} : Type(name)
    \/ RunQuote
    \/ \E q \in quotes : QuoteArrives(q)
    \/ \E k \in Submits :
          \/ Submit(k) \/ SubmitFails(k) \/ FreeSuccess(k)
          \/ \E due \in BOOLEAN : ShowInvoice(k, due)
          \/ Invoice(k)

-----------------------------------------------------------------------------
(* Properties. *)

(* What the form says of a price is about the name it asked for last, whatever
   order the answers come in, and a submission can only be made for the name
   in the field with the price that was quoted for it (modal.js: "a stale quote
   for an older input value can never enable submit for the current one"). *)
QuoteIsCurrent ==
    /\ enabled => typed # NoName /\ lastQuote.name = typed
    /\ message.says = "price" => lastQuote.name = message.name
    /\ \A q \in quotes : q.seq = quoteSeq /\ message # Silent => message.name = q.name

(* The intervals are those of the invoice that the open dialog shows, and while
   it is not stopped it has them: no callback fires after the dialog is gone
   (modal.js:77-79), no dialog loses its own to another one.  Nothing is claimed
   once dialogs have crossed: an answer, to a submission or to a poll, that comes
   when its dialog is gone or another invoice runs sets or clears the intervals of
   others, as the one record of timers is shared by all dialogs. *)
TimersAreOwned ==
    ~crossed =>
        /\ \A k \in Intervals : open # 0 /\ shows[open] = k
        /\ open # 0 /\ shows[open] # 0 /\ submits[shows[open]].price = "paid" /\ ~stopped[shows[open]] =>
               /\ shows[open] \in polling \cap ticking
               /\ \A t \in {"poll", "countdown"} : timers[t] = shows[open]

(* Once an invoice view says complete, expired or an error it says so for good,
   although answers to earlier polls are still under way; only, once dialogs have
   crossed, the countdown of an invoice that has failed may still run and replace
   the error. *)
FinalIsFinal ==
    [][\A k \in Submits : page[k] \in Final /\ page'[k] # page[k]
                          => crossed /\ page[k] = "error"]_modalVars

(* A dialog that stays open learns that the registration is complete, or says
   why it does not look any more, if every poll is answered or fails.  Nothing is
   claimed once dialogs have crossed: the polls of the open one may be cleared. *)
Uninformed(k) == /\ open # 0 /\ shows[open] = k /\ ~crossed
                 /\ attempt[k] = "complete" /\ page[k] \notin Final
PaymentIsShown == []<>(\A k \in Submits : ~Uninformed(k))
=============================================================================
