---------------------------- MODULE OrderStatus ----------------------------
(***************************************************************************)
(* The status algebra every status write of Mostrix goes through: the      *)
(* order statuses of the Mostro protocol, the sets the program sorts them  *)
(* into, the phase rank that orders them for a listing of a given kind,    *)
(* and the two guards (`should_apply_status_transition`,                   *)
(* `should_strictly_advance_status`) that decide whether a direct message  *)
(* may move an order from one status to another.                           *)
(*                                                                         *)
(* Rust's `Option::None` is a distinguished value of each domain.          *)
(***************************************************************************)
EXTENDS Integers

NoStatus == "no-status"
NoKind   == "no-kind"
NoRank   == -1

\* mostro_core::order::Kind, the side of the listing.
Kinds == {"buy", "sell"}

\* Statuses that end a trade (is_terminal_trade_status).
TerminalTradeStatuses ==
  {"Canceled", "CanceledByAdmin", "SettledByAdmin", "CompletedByAdmin",
   "Expired", "CooperativelyCanceled", "Success"}

\* TERMINAL_DM_STATUSES: rows that startup does not listen for; Success is
\* kept so that rating messages still arrive.
TerminalDmStatuses == TerminalTradeStatuses \ {"Success"}

\* is_pre_active_status: the trade has not been locked in by both sides.
PreActiveStatuses ==
  {"Pending", "WaitingTakerBond", "WaitingMakerBond", "WaitingPayment",
   "WaitingBuyerInvoice", "SettledHoldInvoice"}

\* mostro_core::order::Status.
Statuses ==
  TerminalTradeStatuses \cup PreActiveStatuses
    \cup {"Active", "InProgress", "FiatSent", "Dispute"}

is_terminal_trade_status(s) == s \in TerminalTradeStatuses

\* The first waiting phase of a listing of the given kind: a buy listing
\* waits for the hold invoice first, a sell listing for the buyer's invoice.
FirstPhase(kind) ==
  IF kind = "buy" THEN {"WaitingPayment"}
                  ELSE {"WaitingBuyerInvoice", "SettledHoldInvoice"}

\* Position of a status in the life of a trade; NoRank when the position is
\* unknown (Dispute, the terminal failures, or a waiting phase of a listing
\* whose kind is unknown).
status_phase_rank_for_actor(s, kind) ==
  CASE s \in {"Pending", "WaitingTakerBond", "WaitingMakerBond"} -> 0
    [] s \in {"WaitingPayment", "WaitingBuyerInvoice", "SettledHoldInvoice"} ->
         IF kind = NoKind THEN NoRank
         ELSE IF s \in FirstPhase(kind) THEN 1 ELSE 2
    [] s \in {"InProgress", "Active"} -> 3
    [] s = "FiatSent" -> 4
    [] s = "Success"  -> 5
    [] OTHER -> NoRank

\* Mutated: an unknown position never holds a candidate back.
unknown_rank_allows(current, candidate, kind) ==
  \/ status_phase_rank_for_actor(current, kind) = NoRank
  \/ status_phase_rank_for_actor(candidate, kind) = NoRank
  \/ status_phase_rank_for_actor(candidate, kind)
       >= status_phase_rank_for_actor(current, kind)

\* Both positions are known and the candidate's is not an earlier one.
RankAllows(current, candidate, kind) ==
  /\ status_phase_rank_for_actor(current, kind) # NoRank
  /\ status_phase_rank_for_actor(candidate, kind) # NoRank
  /\ status_phase_rank_for_actor(candidate, kind)
       >= status_phase_rank_for_actor(current, kind)

should_apply_status_transition(current, candidate, kind) ==
  \/ current = NoStatus
  \/ current = candidate
  \/ /\ ~is_terminal_trade_status(current)
     /\ \/ is_terminal_trade_status(candidate)
        \/ RankAllows(current, candidate, kind)

should_strictly_advance_status(current, candidate, kind) ==
  /\ current # candidate
  /\ should_apply_status_transition(current, candidate, kind)

-----------------------------------------------------------------------------

\* The status an action implies when the message carries no order.
inferred_status_from_trade_action(action) ==
  CASE action = "Canceled" -> "Canceled"
    [] action = "CooperativeCancelAccepted" -> "CooperativelyCanceled"
    [] action \in {"WaitingBuyerInvoice", "AddInvoice"} -> "WaitingBuyerInvoice"
    [] action \in {"WaitingSellerToPay", "PayInvoice"} -> "WaitingPayment"
    [] action = "PayBondInvoice" -> "WaitingTakerBond"
    [] action = "AdminCanceled" -> "CanceledByAdmin"
    [] action = "FiatSentOk" -> "FiatSent"
    [] action \in {"Release", "Released", "HoldInvoicePaymentSettled",
                   "PurchaseCompleted"} -> "Success"
    [] OTHER -> NoStatus

\* An explicit status of the embedded order wins over the inferred one.
map_action_to_status(action, status) ==
  IF status # NoStatus THEN status ELSE inferred_status_from_trade_action(action)
=============================================================================
