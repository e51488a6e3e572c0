----------------------------- MODULE MCTradeDm -----------------------------
(***************************************************************************)
(* Conversations for TLC: what Mostro says to the user in the trades worth *)
(* telling apart, by side, listing kind and way of ending.                 *)
(***************************************************************************)
EXTENDS TradeCard

Message(ts, action, payload, status, peer) ==
  [ts |-> ts, action |-> action, payload |-> payload, status |-> status, peer |-> peer]
Bare(ts, action) == Message(ts, action, "none", NoStatus, FALSE)
Order(ts, action, status) == Message(ts, action, "order", status, FALSE)
Matched(ts, action) == Message(ts, action, "order", "Active", TRUE)
Pay(ts) == Message(ts, "PayInvoice", "invoiceOrder", "WaitingPayment", FALSE)
PayBond(ts) == Message(ts, "PayBondInvoice", "invoice", NoStatus, FALSE)
Ask(ts) == Order(ts, "AddInvoice", "WaitingBuyerInvoice")

Take(kind, saved, reply, dms) ==
  [kind |-> kind, maker |-> FALSE, saved |-> saved, early |-> 1, reply |-> reply, dms |-> dms]
Listing(kind, dms) ==
  [kind |-> kind, maker |-> TRUE, saved |-> "Pending", early |-> 1, reply |-> "created", dms |-> dms]

\* The user takes a sell listing and pays in fiat; two messages share a second.
Purchase ==
  Take("sell", "WaitingBuyerInvoice", "addInvoice",
    <<Ask(1), Matched(2, "HoldInvoicePaymentAccepted"),
      Bare(3, "PurchaseCompleted"), Bare(3, "Rate")>>)

\* The beginning of a purchase whose seller takes a while to pay.
OpenPurchase ==
  Take("sell", "WaitingBuyerInvoice", "addInvoice",
    <<Ask(1), Bare(2, "WaitingSellerToPay"), Matched(2, "HoldInvoicePaymentAccepted")>>)

\* The user takes a buy listing and pays the hold invoice.
OpenSale ==
  Take("buy", "WaitingPayment", "payment",
    <<Pay(1), Bare(1, "WaitingBuyerInvoice"), Matched(3, "BuyerTookOrder")>>)

\* The user sells; the last message ends the trade.
Sale ==
  Take("buy", "WaitingPayment", "payment",
    <<Pay(1), Matched(2, "BuyerTookOrder"), Bare(3, "FiatSentOk"), Order(3, "Released", "Success")>>)

\* A take that is canceled before it became active.
CanceledTake == Take("sell", "WaitingBuyerInvoice", "addInvoice", <<Ask(1), Bare(2, "Canceled")>>)

\* A take whose listing is back on the book.
LostTake ==
  Take("sell", "WaitingBuyerInvoice", "addInvoice", <<Ask(1), Order(2, "NewOrder", "Pending")>>)

\* A take whose listing is back on the book after the payment.
LostSale ==
  Take("buy", "WaitingPayment", "payment",
    <<Pay(1), Bare(2, "WaitingBuyerInvoice"), Order(3, "NewOrder", "Pending")>>)

\* A bonded take that both sides cancel.
BondedTake ==
  Take("sell", "WaitingTakerBond", "payment",
    <<PayBond(1), Ask(2), Bare(3, "CooperativeCancelAccepted")>>)

\* The buyer, then the seller, is sent a message with the name of the user's own request;
\* the first trade ends when the seller asks for it.
ConfirmedPurchase ==
  Take("sell", "WaitingBuyerInvoice", "addInvoice",
    <<Ask(1), Matched(2, "HoldInvoicePaymentAccepted"), Bare(3, "FiatSent"),
      Bare(4, "CooperativeCancelInitiatedByPeer"), Bare(5, "CooperativeCancelAccepted")>>)
ConfirmedSale ==
  Take("buy", "WaitingPayment", "payment",
    <<Pay(1), Order(2, "Release", "FiatSent"), Bare(3, "HoldInvoicePaymentSettled"),
      Bare(4, "RateReceived")>>)

\* Mostro refuses something the user tried.
RefusedTake ==
  Take("buy", "WaitingPayment", "payment",
    <<Pay(1), Bare(2, "CantDo"), Bare(3, "WaitingBuyerInvoice")>>)

\* The user's own sell listing, disputed and canceled by the admin.
DisputedSale ==
  Listing("sell",
    <<Pay(1), Matched(2, "BuyerTookOrder"),
      Message(3, "DisputeInitiatedByPeer", "dispute", NoStatus, FALSE),
      Message(4, "AdminTookDispute", "solver", NoStatus, FALSE),
      Order(5, "AdminCanceled", "CanceledByAdmin")>>)

\* A sale that the admin cancels, respawned at every await.
CanceledSale ==
  Take("buy", "WaitingPayment", "payment",
    <<Pay(1), Matched(2, "BuyerTookOrder"), Order(3, "AdminCanceled", "CanceledByAdmin")>>)

\* The user's own buy listing: a first taker is lost, a second one stays.
Republished ==
  Listing("buy",
    <<Ask(1), Order(2, "NewOrder", "Pending"), Ask(3), Matched(4, "HoldInvoicePaymentAccepted")>>)

SomeTrades ==
  {Purchase, OpenPurchase, Sale, OpenSale, CanceledTake, LostTake, LostSale, BondedTake,
   ConfirmedPurchase, ConfirmedSale, RefusedTake, DisputedSale, CanceledSale, Republished}
RespawnedTrades == {OpenSale, BondedTake, CanceledTake, LostTake, LostSale, RefusedTake,
   CanceledSale}
CanceledTrades == {CanceledTake}

ASSUME SomeTradesEnd == EndComesLast /\ OneOutcome /\ LostBeforeActive /\ DisputesAreStored
ASSUME SomeTradesAgree ==
  /\ OrdersNameTheirStatus /\ OneStatusPerPhase /\ SidesAgree /\ RatedTradesSucceed
  /\ RepliesAgree /\ TwinsAgree /\ TakesAreRespawned /\ RespawnedMoveForward /\ AfterFiat
  /\ OutcomesAreTold
=============================================================================
