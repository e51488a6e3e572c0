----------------------------- MODULE TradeCard -----------------------------
(***************************************************************************)
(* What the Messages tab makes of the Messages row of a trade              *)
(* (ui/orders.rs, ui/tabs/message_flow_tab.rs): the six-step timeline, the *)
(* status banner with its next step, the badge and the label of the        *)
(* sidebar, and what Enter opens on the row.  Each is computed from the    *)
(* row's status, action, side and role by a function of its own; here they *)
(* are read off the rows the listener of TradeDm leaves behind.            *)
(***************************************************************************)
EXTENDS TradeDm

-----------------------------------------------------------------------------
(* The timeline: step 0 highlights no column.                              *)

RateActions == {"Rate", "RateReceived", "HoldInvoicePaymentSettled", "PurchaseCompleted"}
ReleaseActions == {"FiatSentOk", "Release", "Released"}

\* Statuses shown without a highlighted column because the trade left its path.
OffPath == (TerminalTradeStatuses \ {"Success"}) \cup {"Dispute"}

timeline_blocks_post_fiat_action_override(s, block_success) ==
  s \in OffPath \/ (block_success /\ s = "Success")

\* Mutated: the columns of a buy listing for either side.
listing_step_of_buy(kind, s) ==
  CASE s = "WaitingPayment" -> 1
    [] s \in {"WaitingBuyerInvoice", "SettledHoldInvoice"} -> 2
    [] s \in {"Active", "InProgress"} -> 3
    [] s = "FiatSent" -> 4
    [] s = "Success" -> 6
    [] OTHER -> 0

\* Payment and invoice change places between buy and sell listings.
listing_step_from_status(kind, s) ==
  CASE s = "WaitingPayment" -> IF kind = "buy" THEN 1 ELSE 2
    [] s \in {"WaitingBuyerInvoice", "SettledHoldInvoice"} -> IF kind = "buy" THEN 2 ELSE 1
    [] s \in {"Active", "InProgress"} -> 3
    [] s = "FiatSent" -> 4
    [] s = "Success" -> 6
    [] OTHER -> 0

\* A row without a kind is read as a buy listing's.
listing_flow_step_from_action(kind, action) ==
  CASE action \in {"AddInvoice", "WaitingBuyerInvoice"} -> IF kind = "sell" THEN 1 ELSE 2
    [] action \in {"PayInvoice", "WaitingSellerToPay"} -> IF kind = "sell" THEN 2 ELSE 1
    [] action = "FiatSent" -> 4
    [] action \in ReleaseActions -> 5
    [] action \in RateActions -> 6
    [] OTHER -> 3

\* Mutated: the last action decides.
step_by_action(m) == listing_flow_step_from_action(m.kind, m.action)

message_trade_timeline_step(m) ==
  CASE m.kind = NoKind -> listing_flow_step_from_action(NoKind, m.action)
    [] m.kind # NoKind /\ m.action \in RateActions
         /\ ~timeline_blocks_post_fiat_action_override(m.status, FALSE) -> 6
    [] m.kind # NoKind /\ m.action \in ReleaseActions
         /\ ~timeline_blocks_post_fiat_action_override(m.status, TRUE) -> 5
    [] OTHER -> IF m.status # NoStatus THEN listing_step_from_status(m.kind, m.status)
                ELSE listing_flow_step_from_action(m.kind, m.action)

-----------------------------------------------------------------------------
(* Banner, badge and label.                                                *)

CanceledStatuses == {"Canceled", "CanceledByAdmin", "CooperativelyCanceled", "Expired"}
DisputeActions == {"DisputeInitiatedByYou", "DisputeInitiatedByPeer"}

\* The status warns first; where it does not, the last action may.
message_timeline_warning_for_order_status(s) ==
  CASE s \in CanceledStatuses -> "over"
    [] s = "Dispute" -> "dispute"
    [] OTHER -> "none"

message_timeline_warning(action) ==
  CASE action \in {"Canceled", "AdminCanceled"} -> "over"
    [] action \in DisputeActions -> "dispute"
    [] OTHER -> "none"

\* A row of unknown role is neither's.
IsSeller(m) == (m.kind = "buy" /\ m.mine = "taker") \/ (m.kind = "sell" /\ m.mine = "maker")
IsBuyer(m) == (m.kind = "buy" /\ m.mine = "maker") \/ (m.kind = "sell" /\ m.mine = "taker")

actionable_next_step(m) ==
  \/ m.action \in PopupActions /\ local_user_must_act_on_invoice_popup(m, m.action)
  \/ m.action \in {"FiatSentOk", "Release"} /\ IsSeller(m)
  \/ m.action = "FiatSent" /\ IsBuyer(m)
  \/ m.action \in {"HoldInvoicePaymentAccepted", "CooperativeCancelInitiatedByPeer", "Rate"}

message_status_presentation(m) ==
  LET warning == message_timeline_warning_for_order_status(m.status) IN
  CASE warning # "none" -> warning
    [] warning = "none" /\ message_timeline_warning(m.action) # "none" ->
         message_timeline_warning(m.action)
    [] OTHER ->
         CASE m.status = "Success" -> IF m.action = "Rate" THEN "rate" ELSE "done"
           [] m.status \in {"SettledByAdmin", "CompletedByAdmin"} -> "done"
           [] OTHER -> IF actionable_next_step(m) THEN "act" ELSE "wait"

\* order_status_badge of the header, message_action_emoji_for_message of the
\* sidebar: the badge takes a row without a status for a running trade.
order_status_badge(s) ==
  CASE s \in {"Success", "SettledByAdmin", "CompletedByAdmin"} -> "done"
    [] s \in CanceledStatuses -> "over"
    [] s = "Dispute" -> "dispute"
    [] s \in {"Pending", "WaitingPayment", "WaitingBuyerInvoice", "WaitingTakerBond",
              "WaitingMakerBond"} -> "waiting"
    [] OTHER -> "running"

-----------------------------------------------------------------------------
(* Enter on the row.                                                       *)

invoice_popup_action_for_message_action(action) ==
  CASE action \in {"AddInvoice", "WaitingBuyerInvoice"} -> "AddInvoice"
    [] action \in {"PayInvoice", "WaitingSellerToPay"} -> "PayInvoice"
    [] OTHER -> action

AskedActions ==
  {"HoldInvoicePaymentAccepted", "FiatSentOk", "CooperativeCancelInitiatedByPeer", "BuyerTookOrder"}

\* Mutated: the side is not looked at.
EnterOpens_for_either_side(m) ==
  LET asked == invoice_popup_action_for_message_action(m.action) IN
  CASE asked \in PopupActions ->
         IF ~invoice_popup_allowed_for_order_status(asked, m.status) THEN "stale" ELSE asked
    [] asked \in AskedActions -> "question"
    [] asked = "Rate" -> "rating"
    [] OTHER -> "label"

\* The popup of the acting side, that of the waiting side, a word that the
\* trade has moved on, a question, the rating, or the label once more.
EnterOpens(m) ==
  LET asked == invoice_popup_action_for_message_action(m.action) IN
  CASE asked \in PopupActions ->
         IF ~invoice_popup_allowed_for_order_status(asked, m.status) THEN "stale"
         ELSE IF local_user_must_act_on_invoice_popup(m, asked) THEN asked ELSE "waiting"
    [] asked \in AskedActions -> "question"
    [] asked = "Rate" -> "rating"
    [] OTHER -> "label"

\* What the theorem about banner and Enter supposes: the buyer is asked for an invoice,
\* the seller for the payment, and the other side is told to wait, a taker once the
\* order is stored; only a trade that succeeds is rated.
SidesAgree ==
  \A t \in Trades : \A i \in 1 .. Len(t.dms) :
    /\ t.dms[i].action = "WaitingBuyerInvoice" => (t.kind = "buy" <=> ~t.maker)
    /\ t.dms[i].action = "WaitingSellerToPay" => (t.kind = "buy" <=> t.maker) /\ i > t.early
RatedTradesSucceed ==
  \A t \in Trades : \A i \in 1 .. Len(t.dms) :
    t.dms[i].action = "Rate" => Spoken(t) \cap (TerminalDmStatuses \cup {"Dispute"}) = {}

\* What the theorem about the timeline supposes: once the fiat is confirmed, later
\* messages confirm it again, end the trade or ask for the rating; after that, they end
\* the trade or are about the rating.
AfterFiat ==
  \A t \in Trades : \A i, j \in 1 .. Len(t.dms) :
    LET d == t.dms[i]  e == t.dms[j] IN
      d.action \in RateActions \cup ReleaseActions /\ e.ts >= d.ts =>
        \/ resolved_status_candidate(e) \in TerminalTradeStatuses
        \/ e.action \in RateActions
        \/ d.action \in ReleaseActions /\ e.action \in ReleaseActions

\* What the theorem about the settled card supposes: a word that the fiat is confirmed
\* says so or that the trade has succeeded; the rating follows a success that was told
\* when the order was stored; a canceled trade is not told to have been settled.
OutcomesAreTold ==
  \A t \in Trades : \A i \in 1 .. Len(t.dms) :
    LET d == t.dms[i] IN
      /\ d.action \in ReleaseActions => resolved_status_candidate(d) \in {"FiatSent", "Success"}
      /\ d.action \in RateActions =>
           \E j \in t.early + 1 .. i : resolved_status_candidate(t.dms[j]) = "Success"
      /\ d.action \in {"Canceled", "AdminCanceled"} =>
           Spoken(t) \cap {"Success", "SettledByAdmin", "CompletedByAdmin"} = {}

-----------------------------------------------------------------------------
(* Properties.                                                             *)

\* While the listener lives, a message that is not older than the one on the card
\* never moves the timeline back, unless it takes the trade off its path; after a
\* restart or a respawn older messages come again and may win the row.
TimelineKept ==
  /\ restarts' = restarts /\ reloads' = 0
  /\ msg # NoMsg /\ msg' # NoMsg /\ msg.kind # NoKind /\ msg'.status \notin OffPath /\ msg'.ts >= msg.ts
  => message_trade_timeline_step(msg') >= message_trade_timeline_step(msg)
TimelineOnlyForward == [][TimelineKept]_msg

\* However messages were replayed, once every message was handled and nothing is on
\* its way (a row without a cursor is caught up with the newest message alone, which
\* may not name the phase) the card of a trade tells what the database stores: the highlighted column is the status's (one
\* further when the fiat is confirmed), banner and badge say that the trade is
\* over exactly when it is.
CardSettles ==
  /\ row # NoRow /\ msg # NoMsg /\ msg.kind # NoKind
  /\ Quiescent /\ handled = 1 .. published /\ (reloads > 0 => tracked) /\ ~StoredAnew
  =>
    /\ \/ message_trade_timeline_step(msg) = listing_step_from_status(trade.kind, row.status)
       \/ msg.action \in ReleaseActions /\ row.status = "FiatSent"
    /\ row.status \in CanceledStatuses <=> message_status_presentation(msg) = "over"
    /\ row.status \in CanceledStatuses <=> order_status_badge(msg.status) = "over"

\* The banner asks the buyer to confirm the fiat, the seller to release, when Mostro's
\* last message has the name of the user's own request; Enter then opens the label only.
LabelOnlyActions == {"FiatSent", "Release"}

\* The banner and the Enter key sort the row by different functions: where the
\* banner asks the user to do something, Enter opens the popup for it (or says
\* that the trade has moved on), and where Enter opens an invoice popup or the
\* rating for this user, the banner asks for it.  Excepted: the two actions above; a
\* lost take stored as a listing of the user's own, whose older messages are then read
\* from the wrong side.
CardAndEnterAgree ==
  msg # NoMsg /\ ~StoredAnew =>
    LET asks == message_status_presentation(msg) \in {"act", "rate"}
        opens == EnterOpens(msg)
    IN /\ asks => \/ opens \in PopupActions \cup {"question", "rating", "stale"}
                  \/ msg.action \in LabelOnlyActions
       /\ opens \in PopupActions \cup {"rating"} => asks
=============================================================================
