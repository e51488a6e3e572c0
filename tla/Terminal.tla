------------------------------ MODULE Terminal -----------------------------
(***************************************************************************)
(* The user's terminal: one mode, which is the tab's own view or the popup *)
(* on top of it, changed by the keys of the user and by everything the     *)
(* main loop receives from its background tasks.                           *)
(*                                                                         *)
(* A request to Mostro is a spawned task that always answers: wait_for_dm  *)
(* gives up after FETCH_EVENTS_TIMEOUT.  Its answer waits in a channel for *)
(* the main loop; here the task stays in flight until the answer is taken. *)
(* The answers come in any order, and so do the messages of the trade DM   *)
(* listener.  Nothing ties an answer to the mode that waits for it.        *)
(*                                                                         *)
(* The role is User.  The mode is redrawn after each branch of the loop,   *)
(* and drawing the Create New Order tab opens its form.                    *)
(***************************************************************************)
EXTENDS Naturals, FiniteSets

CONSTANTS
  BondReplies,   \* actions Mostro acknowledges a bond payout invoice with
  MaxAsked,      \* bound: tasks in flight
  MaxNotes       \* bound: popups the trade DM listener asks for

ASSUME BondRepliesAssumption ==
  BondReplies \subseteq {"AddInvoice", "WaitingBuyerInvoice", "WaitingSellerToPay",
                         "HoldInvoicePaymentAccepted", "BuyerInvoiceAccepted"}
ASSUME TerminalBounds == MaxAsked \in Nat \ {0} /\ MaxNotes \in Nat

VARIABLES
  mode,    \* app.mode
  tab,     \* app.active_tab
  draft,   \* order_form_draft holds a form
  asked,   \* tasks in flight, of each kind
  stash,   \* pending_post_take_operation_result holds a result
  restart, \* backup_requires_restart
  notes

vars == <<mode, tab, draft, asked, stash, restart, notes>>

\* New order, take, bond payout invoice; any other message to Mostro; work on
\* the local history, keys and addresses; Mostro info; key rotation; seed words.
Kinds == {"new", "take", "bond", "send", "local", "info", "rotate", "seeds"}

\* The Mostro Info and Exit tabs are taken together with Settings.
Tabs == {"Orders", "MyTrades", "Messages", "CreateNewOrder", "Settings"}

\* Popups that an order result must not replace.
InvoicePopups ==
  {"AddInvoice", "AddBondInvoice", "PayInvoice", "PayBondInvoice",
   "ConfirmSavedLnAddress"}

WaitingModes == {"WaitingForMostro", "WaitingTakeOrder", "WaitingAddInvoice"}

Modes == InvoicePopups \cup WaitingModes \cup
  {"Normal", "CreatingOrder", "ConfirmingOrder", "TakingOrder", "WaitingPopup",
   "ViewingMessage", "RatingOrder", "OperationResult", "ConfirmDelete",
   "SettingPopup", "ConfirmGenerateNewKeys", "BackupNewKeys", "ConfirmExit",
   "HelpPopup", "Exited"}

\* The mode after the loop has drawn: resting on the Create New Order tab opens
\* the form, with the draft if there is one.
Show(m, kept) ==
  LET opens == m = "Normal" /\ tab' = "CreateNewOrder"
  IN  /\ mode' = IF opens THEN "CreatingOrder" ELSE m
      /\ draft' = (kept /\ ~opens)

Stay(m) == UNCHANGED tab /\ Show(m, draft)

InFlight == asked["new"] + asked["take"] + asked["bond"] + asked["send"]
            + asked["local"] + asked["info"] + asked["rotate"] + asked["seeds"]

Ask(k) ==
  /\ InFlight < MaxAsked
  /\ asked' = [asked EXCEPT ![k] = @ + 1]

Quiet == UNCHANGED <<asked, stash, restart, notes>>

-----------------------------------------------------------------------------
(* Keys: tabs, the order form, taking an order.                            *)

\* Left and Right; leaving the form keeps it as the draft.
SwitchTab(t) ==
  /\ mode \in {"Normal", "CreatingOrder"} /\ t # tab
  /\ tab' = t
  /\ Show("Normal", draft \/ mode = "CreatingOrder")
  /\ Quiet

SubmitForm ==
  /\ mode = "CreatingOrder" /\ Stay("ConfirmingOrder") /\ Quiet

\* Esc drops the form, and the tab opens a new one.
DiscardForm ==
  /\ mode = "CreatingOrder"
  /\ UNCHANGED tab /\ Show("Normal", FALSE)
  /\ Quiet

ConfirmOrder ==
  /\ mode = "ConfirmingOrder"
  /\ Ask("new")
  /\ UNCHANGED tab /\ Show("WaitingForMostro", TRUE)
  /\ UNCHANGED <<stash, restart, notes>>

BackToForm ==
  /\ mode = "ConfirmingOrder" /\ Stay("CreatingOrder") /\ Quiet

\* Enter on the book takes an order, or offers to cancel one of the user's own.
OpenBookOrder ==
  /\ mode = "Normal" /\ tab = "Orders"
  /\ \E m \in {"TakingOrder", "ViewingMessage"} : Stay(m)
  /\ Quiet

TakeOrder ==
  /\ mode = "TakingOrder"
  /\ Ask("take")
  /\ Stay("WaitingTakeOrder")
  /\ UNCHANGED <<stash, restart, notes>>

-----------------------------------------------------------------------------
(* Keys: messages and trades.                                              *)

\* Enter on a message opens what its action and its status call for.
OpenMessage ==
  /\ mode = "Normal" /\ tab = "Messages"
  /\ \E m \in InvoicePopups \cup
        {"WaitingPopup", "ViewingMessage", "RatingOrder", "OperationResult"} : Stay(m)
  /\ Quiet

\* Shift+C, F, R and D act only in the normal mode, so that what was submitted
\* is not submitted again while it is waited for.
TradeShortcut ==
  /\ mode = "Normal" /\ tab = "MyTrades"
  /\ \E m \in {"ViewingMessage", "OperationResult"} : Stay(m)
  /\ Quiet

\* Shift+K shows the key of the conversation when it has been read.
RevealSharedKey ==
  /\ mode = "Normal" /\ tab = "MyTrades"
  /\ Ask("local")
  /\ UNCHANGED <<mode, tab, draft, stash, restart, notes>>

\* Delete, Ctrl+Delete and Shift+V on My Trades look at no mode but the help.
TradeKeyAnywhere ==
  /\ mode \notin {"HelpPopup", "Exited"} /\ tab = "MyTrades"
  /\ \E m \in {"ConfirmDelete", "RatingOrder", "OperationResult"} : Stay(m)
  /\ Quiet

\* YES sends a message, a dispute or a rating.
SendMessage ==
  /\ mode \in {"ViewingMessage", "RatingOrder"}
  /\ Ask("send")
  /\ Stay("WaitingAddInvoice")
  /\ UNCHANGED <<stash, restart, notes>>

submit_add_invoice ==
  /\ mode \in {"AddInvoice", "ConfirmSavedLnAddress"}
  /\ Ask("send")
  /\ Stay("WaitingAddInvoice")
  /\ stash' = FALSE
  /\ UNCHANGED <<restart, notes>>

submit_add_bond_invoice ==
  /\ mode = "AddBondInvoice"
  /\ Ask("bond")
  /\ Stay("WaitingAddInvoice")
  /\ stash' = FALSE
  /\ UNCHANGED <<restart, notes>>

\* An empty invoice is refused through the result channel.
EmptyInvoice ==
  /\ mode \in {"AddInvoice", "AddBondInvoice"}
  /\ Ask("local")
  /\ Stay("Normal")
  /\ UNCHANGED <<stash, restart, notes>>

\* Mutated: the mode is set and the message is not sent.
cancel_not_sent ==
  /\ mode \in (InvoicePopups \ {"ConfirmSavedLnAddress"}) \cup {"WaitingPopup"}
  /\ Stay("WaitingAddInvoice")
  /\ Quiet

spawn_cancel_from_notification ==
  /\ mode \in (InvoicePopups \ {"ConfirmSavedLnAddress"}) \cup {"WaitingPopup"}
  /\ Ask("send")
  /\ Stay("WaitingAddInvoice")
  /\ UNCHANGED <<stash, restart, notes>>

\* Enter on a payment only acknowledges it: a stashed result stays stashed.
Acknowledge ==
  /\ mode \in {"PayInvoice", "PayBondInvoice", "WaitingPopup"}
  /\ Stay("Normal") /\ Quiet

\* NO to the saved Lightning address; YES finds none if it was cleared meanwhile.
TypeInvoice ==
  /\ mode = "ConfirmSavedLnAddress"
  /\ \E m \in {"AddInvoice", "OperationResult"} : Stay(m)
  /\ Quiet

\* Esc shows the result of the take that came while the popup was open.
DismissPopup ==
  /\ mode \in InvoicePopups \cup {"WaitingPopup"}
  /\ Stay(IF stash THEN "OperationResult" ELSE "Normal")
  /\ stash' = FALSE
  /\ UNCHANGED <<asked, restart, notes>>

ConfirmDelete ==
  /\ mode = "ConfirmDelete"
  /\ Ask("local")
  /\ Stay("OperationResult")
  /\ UNCHANGED <<stash, restart, notes>>

-----------------------------------------------------------------------------
(* Keys: settings, keys, help, exit.                                       *)

OpenSetting ==
  /\ mode = "Normal" /\ tab = "Settings"
  /\ \E m \in {"SettingPopup", "ConfirmGenerateNewKeys", "ConfirmExit"} : Stay(m)
  /\ Quiet

\* View Seed Words, and Enter on the Mostro Info tab.
LoadFromSettings(k) ==
  /\ mode = "Normal" /\ tab = "Settings" /\ k \in {"seeds", "info"}
  /\ Ask(k)
  /\ Stay("OperationResult")
  /\ UNCHANGED <<stash, restart, notes>>

\* A Mostro pubkey fetches its info, a Lightning address is verified; the other
\* settings are saved and done.
ConfirmSetting ==
  /\ mode = "SettingPopup"
  /\ \/ \E k \in {"info", "local"} : Ask(k) /\ Stay("OperationResult")
     \/ Stay("Normal") /\ UNCHANGED asked
  /\ UNCHANGED <<stash, restart, notes>>

GenerateKeys ==
  /\ mode = "ConfirmGenerateNewKeys"
  /\ Ask("rotate")
  /\ Stay("OperationResult")
  /\ UNCHANGED <<stash, restart, notes>>

\* After a rotation the keys are reloaded, which clears the stash if it works.
CloseBackup ==
  /\ mode = "BackupNewKeys"
  /\ Stay(IF restart THEN "OperationResult" ELSE "Normal")
  /\ \/ restart /\ stash' = FALSE /\ restart' = FALSE
     \/ UNCHANGED <<stash, restart>>
  /\ UNCHANGED <<asked, notes>>

\* NO or Esc on a popup that only asks.
Decline ==
  /\ mode \in {"TakingOrder", "ViewingMessage", "RatingOrder", "ConfirmDelete",
               "SettingPopup", "ConfirmGenerateNewKeys", "ConfirmExit"}
  /\ Stay("Normal") /\ Quiet

\* Closing a result goes to the first tab, but from tabs that stay: Messages,
\* Settings (not Exit), and, with Enter only, My Trades and Mostro Info.
CloseResult ==
  /\ mode = "OperationResult"
  /\ CASE tab = "Messages" -> tab' = tab
       [] tab \in {"MyTrades", "Settings"} -> tab' \in {tab, "Orders"}
       [] OTHER -> tab' = "Orders"
  /\ Show("Normal", draft)
  /\ Quiet

Help ==
  /\ \/ mode = "Normal" /\ Stay("HelpPopup")
     \/ mode = "HelpPopup" /\ Stay("Normal")
  /\ Quiet

Exit ==
  /\ mode = "ConfirmExit" /\ Stay("Exited") /\ Quiet

-----------------------------------------------------------------------------
(* What the main loop receives.                                            *)

Answered(k) ==
  /\ mode # "Exited" /\ asked[k] > 0
  /\ asked' = [asked EXCEPT ![k] = @ - 1]

\* Which form is kept when a result ends the wait for a new order.
DraftAfter(result) ==
  IF mode = "WaitingForMostro" /\ result \in {"Success", "Error"}
  THEN result = "Error" ELSE draft

\* Mutated: a result replaces an invoice popup like any other mode.
handle_operation_result_over_popup(k, result) ==
  /\ Answered(k)
  /\ Stay("OperationResult")
  /\ UNCHANGED <<stash, restart, notes>>

\* A result replaces whatever is shown, a form and a backup of keys included,
\* but an invoice popup: that one stashes it, in place of an earlier one.
handle_operation_result(k, result) ==
  /\ Answered(k)
  /\ UNCHANGED tab
  /\ IF mode \in InvoicePopups
       THEN stash' = TRUE /\ Show(mode, draft)
       ELSE UNCHANGED stash /\ Show("OperationResult", DraftAfter(result))
  /\ UNCHANGED <<restart, notes>>

ResultsOf(k) ==
  CASE k = "new"  -> {"Success", "Error"}
    [] k = "take" -> {"Error"}
    [] k \in {"bond", "send", "local"} -> {"Info", "Error"}
    [] OTHER -> {}

\* Mostro asks for a payment first, a trade's or a bond's.
PaymentRequestRequired(k) ==
  /\ k \in {"new", "take", "bond"} /\ Answered(k)
  /\ \E m \in {"PayInvoice", "PayBondInvoice"} :
       UNCHANGED tab /\ Show(m, draft /\ mode # "WaitingForMostro")
  /\ UNCHANGED <<stash, restart, notes>>

inferred_status_from_trade_action(action) ==
  CASE action \in {"WaitingBuyerInvoice", "AddInvoice"} -> "WaitingBuyerInvoice"
    [] action = "WaitingSellerToPay" -> "WaitingPayment"
    [] OTHER -> "None"

invoice_popup_allowed_for_order_status(action, status) ==
  action = "AddInvoice" /\ status \in {"WaitingBuyerInvoice", "SettledHoldInvoice", "None"}

\* Mutated: a waiting reply is gated as itself, not as the AddInvoice it leads to.
OpensAsReplied(action) ==
  invoice_popup_allowed_for_order_status(action, inferred_status_from_trade_action(action))

\* Whether the reply of an execute_ function opens a popup.
Opens(action) ==
  LET gate_action == IF action \in {"WaitingBuyerInvoice", "WaitingSellerToPay"}
                     THEN "AddInvoice" ELSE action
  IN  invoice_popup_allowed_for_order_status(gate_action,
                                             inferred_status_from_trade_action(action))

\* The user is asked for an invoice, or shown that the other side is to act.
OpenInvoicePopup ==
  \E m \in {"AddInvoice", "ConfirmSavedLnAddress", "WaitingPopup"} : Stay(m)

\* A reply that opens no popup leaves the mode as it is.
apply_open_invoice_popup_from_execute(k, action) ==
  /\ Answered(k)
  /\ IF Opens(action) THEN OpenInvoicePopup ELSE Stay(mode)
  /\ UNCHANGED <<stash, restart, notes>>

\* These results are not matched against the mode.
ShowInfo ==
  /\ Answered("info") /\ Stay("OperationResult")
  /\ UNCHANGED <<stash, restart, notes>>

\* A failed rotation or load leaves the flag as it is.
ShowKeys(k) ==
  /\ k \in {"rotate", "seeds"} /\ Answered(k)
  /\ \/ Stay("BackupNewKeys") /\ restart' = (k = "rotate")
     \/ Stay("OperationResult") /\ UNCHANGED restart
  /\ UNCHANGED <<stash, notes>>

\* A message that calls for an invoice or a payment replaces any mode.
handle_message_notification ==
  /\ mode # "Exited" /\ notes < MaxNotes
  /\ notes' = notes + 1
  /\ \E m \in InvoicePopups : Stay(m)
  /\ UNCHANGED <<asked, stash, restart>>

\* The session was restored after a lost connection.
Reconnected ==
  /\ mode # "Exited" /\ stash
  /\ stash' = FALSE
  /\ UNCHANGED <<mode, tab, draft, asked, restart, notes>>

-----------------------------------------------------------------------------
\* A first run shows the words of its new keys.
Init ==
  /\ mode \in {"Normal", "BackupNewKeys"} /\ tab = "Orders"
  /\ draft = FALSE /\ stash = FALSE /\ restart = FALSE
  /\ asked = [k \in Kinds |-> 0]
  /\ notes = 0

Key ==
  \/ \E t \in Tabs : SwitchTab(t)
  \/ SubmitForm \/ DiscardForm \/ ConfirmOrder \/ BackToForm
  \/ OpenBookOrder \/ TakeOrder \/ OpenMessage \/ TradeShortcut \/ RevealSharedKey
  \/ TradeKeyAnywhere
  \/ SendMessage \/ submit_add_invoice \/ submit_add_bond_invoice \/ EmptyInvoice
  \/ spawn_cancel_from_notification \/ Acknowledge \/ TypeInvoice \/ DismissPopup
  \/ ConfirmDelete \/ OpenSetting \/ (\E k \in Kinds : LoadFromSettings(k))
  \/ ConfirmSetting \/ GenerateKeys \/ CloseBackup \/ Decline \/ CloseResult
  \/ Help \/ Exit

Answer(k) ==
  \/ \E result \in ResultsOf(k) : handle_operation_result(k, result)
  \/ PaymentRequestRequired(k)
  \/ k = "take" /\ apply_open_invoice_popup_from_execute(k, "AddInvoice")
  \/ k = "bond" /\ \E a \in BondReplies : apply_open_invoice_popup_from_execute(k, a)
  \/ k = "info" /\ ShowInfo
  \/ ShowKeys(k)

Next ==
  Key \/ (\E k \in Kinds : Answer(k)) \/ handle_message_notification \/ Reconnected

Spec == Init /\ [][Next]_vars

\* Every task ends, and the main loop takes its answer.
FairSpec == Spec /\ \A k \in Kinds : WF_vars(Answer(k))

-----------------------------------------------------------------------------
(* Properties.                                                             *)

\* Type correctness of the terminal's state.
TerminalTypeOK ==
  /\ mode \in Modes /\ tab \in Tabs
  /\ draft \in BOOLEAN /\ stash \in BOOLEAN /\ restart \in BOOLEAN
  /\ asked \in [Kinds -> 0 .. MaxAsked]
  /\ notes \in 0 .. MaxNotes

\* What a waiting mode waits for.
Awaited(m) ==
  CASE m = "WaitingForMostro"  -> {"new"}
    [] m = "WaitingTakeOrder"  -> {"take"}
    [] m = "WaitingAddInvoice" -> {"send", "bond"}
    [] OTHER -> {}

\* No key closes a waiting mode (handle_esc_key and handle_enter_key return), so
\* a request that it waits for is still in flight, whatever answers and messages
\* came in between.
WaitHasAnswer ==
  mode \in WaitingModes => \E k \in Awaited(mode) : asked[k] > 0

\* Every wait ends, if only by the request's timeout.
WaitEnds == mode \in WaitingModes ~> mode \notin WaitingModes

\* An order result that comes while the user is asked for an invoice or a
\* payment leaves the question on the screen, and is kept for later unless it
\* is itself a question.
AnswerOf(k) == asked'[k] < asked[k]

QuestionSurvives ==
  [][\A k \in {"new", "take", "bond", "send", "local"} :
       AnswerOf(k) /\ mode \in InvoicePopups =>
         mode' \in InvoicePopups \cup {"WaitingPopup"}]_vars
=============================================================================
