------------------------------ MODULE TradeDm ------------------------------
(***************************************************************************)
(* One trade of the local user, seen through the trade-DM listener         *)
(* (util/dm_utils/mod.rs).  Mostro publishes direct messages for the trade *)
(* key; the listener task handles them one at a time and keeps three       *)
(* copies of the trade in step: the SQLite row of `orders`, the in-memory  *)
(* Messages row, and the chat subscriptions.  Everything in that code is   *)
(* keyed by order id, so one order is modelled.                            *)
(*                                                                         *)
(* The listener awaits every database call, and between two of them the    *)
(* create/take task, the main loop, a crash of the process or an abort of  *)
(* the task (`Reload`: reconnect and key reload respawn the listener) may  *)
(* step: each await is an action boundary here.                            *)
(***************************************************************************)
EXTENDS OrderStatus, Sequences, FiniteSets

CONSTANTS
  Trades,        \* the conversations Mostro may have with this user
  NoRow, NoMsg,  \* absent database row, absent Messages row
  MaxRestarts,   \* bound on process restarts
  MaxReloads,    \* bound on listener respawns
  Respawned,     \* bound: the conversations in which the listener is respawned
  MaxUnread      \* bound on the messages the listener is behind by

NoTs == -1       \* NULL `last_seen_dm_ts`, no popup floor

Actions ==
  {"NewOrder", "AddInvoice", "PayInvoice", "PayBondInvoice", "AddBondInvoice",
   "WaitingSellerToPay", "WaitingBuyerInvoice", "BuyerTookOrder",
   "HoldInvoicePaymentAccepted", "FiatSent", "FiatSentOk", "Release", "Released",
   "HoldInvoicePaymentSettled", "PurchaseCompleted", "Rate", "RateReceived",
   "Canceled", "CooperativeCancelInitiatedByPeer", "CooperativeCancelAccepted",
   "AdminCanceled", "AdminSettled", "CantDo", "TakeBuy", "TakeSell",
   "DisputeInitiatedByYou", "DisputeInitiatedByPeer", "AdminTookDispute"}

\* none: `payload: null`.  order: an embedded SmallOrder.  invoice and
\* invoiceOrder: a PaymentRequest without and with one; emptyInvoice: with one
\* but with an empty invoice.  bond: a BondPayoutRequest with its order.
\* dispute and solver: a dispute id, the key of the solver.
Payloads == {"none", "order", "invoice", "invoiceOrder", "emptyInvoice",
             "bond", "dispute", "solver"}

StatusOpt == Statuses \cup {NoStatus}

\* A direct message: `ts` is the rumor's created_at, `status` the status of the
\* embedded order, `peer` whether that order names the counterparty's trade key.
\* TakeBuy and TakeSell are requests of the user, seen on history rows only.
Dms == [ts : Nat, action : Actions \ {"TakeBuy", "TakeSell"}, payload : Payloads,
        status : StatusOpt, peer : BOOLEAN]

\* The embedded order of a direct message names the listing's kind; `reply` is
\* what the create/take task waits for, `saved` the status it then stores.  The
\* first `early` messages may come before it is stored; the others answer
\* something the user does with the stored order.
TradeType == [kind : Kinds, maker : BOOLEAN, saved : Statuses, early : Nat,
              reply : {"created", "addInvoice", "payment"}, dms : Seq(Dms)]

ASSUME TradesAssumption == Trades \subseteq TradeType
ASSUME BoundsAssumption ==
  /\ MaxRestarts \in Nat /\ MaxReloads \in Nat /\ MaxUnread \in Nat \ {0}
  /\ Respawned \subseteq Trades

VARIABLES
  trade,      \* the conversation that takes place
  published,  \* how many of its direct messages Mostro has published
  fresh,      \* indices of those the relay will still deliver to the listener
  row,        \* the `orders` row
  msg,        \* the Messages row of the order
  notes,      \* message_notification channel: indices of dms not yet shown
  chats,      \* live chat subscriptions: the order chat, the dispute chat
  tracked,    \* the order has an active index and a bound DM subscription
  dropped,    \* dropped_user_history_order_ids holds the order
  flow,       \* the create/take task
  inbox,      \* sent by tasks: TrackOrder to the router, their results to the UI
  floor,      \* startup_popup_floor_ts of the order
  opened,     \* dms whose popup the user was shown in this process, with the phase
  reopened,   \* some popup was shown again in another phase
  panicked,   \* the main loop has panicked
  restarts, reloads,
  pc, cur, notify, snap, base, prior,  \* the listener's locals
  before,     \* history: the row when the message being handled was received
  handled     \* history: indices of the messages handled to the end

listener == <<pc, cur, notify, snap, base, prior, before, handled>>
locals   == <<cur, notify, snap, base, prior>>
history  == <<before, handled>>
ui       == <<notes, floor, opened, reopened, panicked>>
world    == <<trade, published, restarts, reloads>>
vars     == <<world, fresh, row, msg, ui, chats, tracked, dropped, flow, inbox, listener>>

Rows == [status : StatusOpt, mine : BOOLEAN, seen : Nat \cup {NoTs}, created : Nat,
         peer : BOOLEAN, dispute : BOOLEAN, solver : BOOLEAN]

\* mine is Option<bool>: the role may be unknown before the row is saved.
Msgs == [ts : Nat, action : Actions, status : StatusOpt, kind : Kinds \cup {NoKind},
         mine : {"maker", "taker", "unknown"}, invoice : BOOLEAN, popup : BOOLEAN]

ASSUME AbsentAssumption == NoRow \notin Rows /\ NoMsg \notin Msgs

Pcs == {"idle", "lookup", "dropTake", "forgetTake", "revertRead", "revertWrite",
        "revertStatus", "revertForget", "saveChild", "snapshot", "upsertRead",
        "upsertWrite", "dispute", "trackChat", "statusWrite", "publish", "seen",
        "cleanup"}

dm  == trade.dms[cur]
Now == IF published = 0 THEN 0 ELSE trade.dms[published].ts

-----------------------------------------------------------------------------
(* What the code reads off a message.                                      *)

small_order_ref_from_payload(d) == d.payload \in {"order", "invoiceOrder", "emptyInvoice"}

resolved_status_candidate(d) ==
  IF d.action = "CantDo" THEN NoStatus
  ELSE IF small_order_ref_from_payload(d) THEN map_action_to_status(d.action, d.status)
  ELSE inferred_status_from_trade_action(d.action)

Upserts(d) ==
  \/ d.payload = "order" /\ d.action \in {"AddInvoice", "BuyerTookOrder",
                                          "HoldInvoicePaymentAccepted", "NewOrder"}
  \/ d.payload \in {"invoiceOrder", "emptyInvoice"} /\ d.action \in {"PayInvoice", "PayBondInvoice"}
  \/ d.payload = "bond" /\ d.action = "AddBondInvoice"

ClosingActions == {"AdminCanceled", "Canceled", "CooperativeCancelAccepted"}

\* Mutated: a refusal closes the order; only a payload closes it; a cancel by
\* the admin keeps the chats.
refusal_is_terminal(d) == d.action \in ClosingActions \cup {"CantDo"}
only_payload_is_terminal(d) == d.payload = "order" /\ is_terminal_trade_status(d.status)
only_user_cancel_untracks(d) == d.action \in ClosingActions \ {"AdminCanceled"}

\* Only Payload::Order is looked into, whatever the action.
trade_message_is_terminal(d) ==
  \/ d.action \in ClosingActions
  \/ d.payload = "order" /\ is_terminal_trade_status(d.status)

trade_message_should_untrack_order_chat(d) ==
  \/ d.action \in ClosingActions
  \/ d.payload = "order" /\ d.status \in TerminalDmStatuses

is_pending_listing(d) ==
  d.action = "NewOrder" /\ d.payload = "order" /\ d.status = "Pending"

IsInvoice(d) == d.action \in {"PayInvoice", "PayBondInvoice"}

is_actionable_notification(d) ==
  CASE IsInvoice(d) -> d.payload \in {"invoice", "invoiceOrder"}
    [] d.action = "AddInvoice" -> d.payload = "order"
    [] d.action = "AddBondInvoice" -> d.payload = "bond"
    [] OTHER -> TRUE

is_pre_active_taker_take(r) == r # NoRow /\ ~r.mine /\ r.status \in PreActiveStatuses
is_pre_active_maker_listing(r) == r # NoRow /\ r.mine /\ r.status \in PreActiveStatuses

\* What Mostro's conversations are known to be like: a listing does not come back
\* to the book before the user's take of it, or its creation, is confirmed; an
\* order sent along with a cancel has ended; a payment request carries no bare
\* order, a refusal none at all.
ASSUME ReplyComesFirst ==
  \A t \in Trades : \A i \in 1 .. Len(t.dms) :
    i <= t.early => ~is_pending_listing(t.dms[i])
ASSUME ClosingOrderHasEnded ==
  \A t \in Trades : \A i \in 1 .. Len(t.dms) :
    LET d == t.dms[i] IN
      /\ d.action \in ClosingActions /\ small_order_ref_from_payload(d)
           => d.status \in TerminalTradeStatuses
      /\ IsInvoice(d) \/ d.action = "CantDo" => d.payload # "order"

\* What the theorems about the end of a trade suppose of its conversation, and the
\* conversations TLC runs do: what ends the user's part in the trade is said last, and
\* not before the order is stored; only a bare order tells of an end.
EndsTrade(d) ==
  d.action \in ClosingActions \/ (d.payload = "order" /\ d.status \in TerminalTradeStatuses)
LastWord(t, i) == EndsTrade(t.dms[i]) \/ (~t.maker /\ is_pending_listing(t.dms[i]))
EndComesLast ==
  \A t \in Trades :
    /\ t.saved \notin TerminalTradeStatuses
    /\ \A i \in 1 .. Len(t.dms) :
         /\ LastWord(t, i) => i = Len(t.dms) /\ i > t.early
         /\ t.dms[i].status \in TerminalTradeStatuses => t.dms[i].payload = "order"

\* A trade that is told to have succeeded is not told to have failed.
OneOutcome ==
  \A t \in Trades : \A i, j \in 1 .. Len(t.dms) :
    resolved_status_candidate(t.dms[i]) = "Success" =>
      /\ t.dms[i].action \notin ClosingActions
      /\ resolved_status_candidate(t.dms[j]) \notin TerminalDmStatuses

\* Somebody else's listing goes back to the book only from a take that never
\* became active.
LostBeforeActive ==
  \A t \in Trades : \A i, j \in 1 .. Len(t.dms) :
    ~t.maker /\ is_pending_listing(t.dms[i]) =>
      /\ t.saved \in PreActiveStatuses
      /\ resolved_status_candidate(t.dms[j]) \in PreActiveStatuses \cup {NoStatus}
      /\ Upserts(t.dms[j]) => t.dms[j].status \in PreActiveStatuses

\* A solver takes the dispute of an order that is stored, and of no take that is lost.
DisputesAreStored ==
  \A t \in Trades : \A i, j \in 1 .. Len(t.dms) :
    t.dms[i].action = "AdminTookDispute" /\ t.dms[i].payload = "solver" =>
      /\ i > t.early
      /\ ~(~t.maker /\ is_pending_listing(t.dms[j]))

\* What the theorems about cards and popups suppose.  An order that is sent along has a
\* status, and a refusal carries none; a new order is a listing that is back on the book
\* (a bond payout and an order without its invoice are left out).
OrdersNameTheirStatus ==
  \A t \in Trades : \A i \in 1 .. Len(t.dms) :
    LET d == t.dms[i] IN
      /\ d.action # "AddBondInvoice" /\ d.payload # "emptyInvoice"
      /\ small_order_ref_from_payload(d) => d.status # NoStatus /\ d.action # "CantDo"
      /\ d.action = "NewOrder" => is_pending_listing(d)

\* The statuses a conversation speaks of, the stored one among them.
Spoken(t) == {t.saved} \cup {resolved_status_candidate(t.dms[i]) : i \in 1 .. Len(t.dms)}

\* A trade asks for an invoice in one phase only, and for a bond of one side only.
OneStatusPerPhase ==
  \A t \in Trades :
    \A phase \in {{"WaitingBuyerInvoice", "SettledHoldInvoice"}, {"WaitingTakerBond", "WaitingMakerBond"}} :
      \A s1, s2 \in Spoken(t) \cap phase : s1 = s2

\* Bound: the listener is respawned in takes only.
TakesAreRespawned == \A t \in Respawned : ~t.maker

\* The first messages to a take speak of the status the reply stores, and ask for the
\* invoice when the reply does.
RepliesAgree ==
  \A t \in Trades :
    /\ t.maker <=> t.reply = "created"
    /\ \A i \in 1 .. Len(t.dms) : ~t.maker /\ i <= t.early =>
         /\ resolved_status_candidate(t.dms[i]) = t.saved
         /\ t.reply = "addInvoice" => t.dms[i].action = "AddInvoice"

\* Two messages of one action in the same second speak of the same status; a maker is
\* asked for the bond in the phase of the maker's bond.
Twins(d, e) == d.ts = e.ts /\ d.action = e.action
TwinsAgree ==
  \A t \in Trades : \A i, j \in 1 .. Len(t.dms) :
    /\ Twins(t.dms[i], t.dms[j]) =>
         resolved_status_candidate(t.dms[i]) = resolved_status_candidate(t.dms[j])
    /\ t.maker /\ t.dms[i].action = "PayBondInvoice" =>
         resolved_status_candidate(t.dms[i]) = "WaitingMakerBond"

\* Where the listener is respawned the messages come in the order of their times, no
\* two of one action in the same second, and name one status after the other; payment
\* requests carry an invoice, and only a take that never became active is lost.
NamesStatus(d) == ~is_pending_listing(d) /\ resolved_status_candidate(d) # NoStatus
StrictlyBefore(s1, s2, kind) ==
  /\ should_apply_status_transition(s1, s2, kind)
  /\ should_apply_status_transition(s2, s1, kind) => s1 = s2
RespawnedMoveForward ==
  \A t \in Respawned : \A i, j \in 1 .. Len(t.dms) :
    LET d == t.dms[i]  e == t.dms[j] IN
      /\ i < j => d.ts <= e.ts
      /\ Twins(d, e) => i = j
      /\ NamesStatus(d) => StrictlyBefore(t.saved, resolved_status_candidate(d), t.kind)
      /\ NamesStatus(d) /\ NamesStatus(e) /\ i < j =>
           StrictlyBefore(resolved_status_candidate(d), resolved_status_candidate(e), t.kind)
      /\ IsInvoice(d) => is_actionable_notification(d)
      /\ is_pending_listing(d) =>
           /\ t.saved \in PreActiveStatuses
           /\ NamesStatus(e) => resolved_status_candidate(e) \in PreActiveStatuses

\* build_order_from_small_order: the payload's status replaces the stored one
\* even when the payload has none; keys, role and cursor come from the old row.
build_order_from_small_order(d, r) ==
  [r EXCEPT !.status = d.status, !.peer = d.peer \/ r.peer]

\* The history row startup makes of a database row.
db_order_to_history_message(r) ==
  [ts |-> IF r.seen # NoTs THEN r.seen ELSE r.created,
   action |-> IF ~r.mine THEN IF trade.kind = "buy" THEN "TakeBuy" ELSE "TakeSell"
              ELSE IF r.status = "WaitingMakerBond" THEN "PayBondInvoice" ELSE "NewOrder",
   status |-> r.status, kind |-> trade.kind,
   mine |-> IF r.mine THEN "maker" ELSE "taker", invoice |-> FALSE,
   popup |-> r.status \notin {"WaitingBuyerInvoice", "WaitingMakerBond", "WaitingTakerBond"}]

\* get_startup_active_orders
IsStartupActive(r) == r # NoRow /\ r.status \notin TerminalDmStatuses

track_startup_chats(r) ==
  IF IsStartupActive(r)
  THEN (IF r.peer THEN {"order"} ELSE {}) \cup (IF r.solver THEN {"dispute"} ELSE {})
  ELSE {}

-----------------------------------------------------------------------------
(* The listener: receiving a message and the NewOrder special cases.       *)

Goto(label) == pc' = label /\ UNCHANGED <<locals, history>>

StartHandling(i, loud) ==
  /\ cur' = i
  /\ notify' = loud
  /\ pc' = IF is_pending_listing(trade.dms[i]) THEN "lookup" ELSE "snapshot"
  /\ snap' = NoRow /\ base' = NoRow /\ prior' = NoMsg
  /\ before' = row
  /\ UNCHANGED handled

\* The locals go out of scope.
Finish == /\ pc' = "idle" /\ cur' = 0 /\ notify' = FALSE
          /\ snap' = NoRow /\ base' = NoRow /\ prior' = NoMsg /\ before' = NoRow

\* dispatch_giftwrap_batch: a message for an order the user removed is skipped.
Receive(i) ==
  /\ pc = "idle" /\ tracked /\ i \in fresh
  /\ fresh' = fresh \ {i}
  /\ IF dropped THEN UNCHANGED listener ELSE StartHandling(i, TRUE)
  /\ UNCHANGED <<world, row, msg, ui, chats, tracked, dropped, flow, inbox>>

\* try_handle_new_order_trade_dm: which of the cases, by the row as it is now.
NewOrderLookup ==
  /\ pc = "lookup"
  /\ Goto(CASE is_pre_active_taker_take(row) -> "dropTake"
            [] is_pre_active_maker_listing(row) -> "revertRead"
            [] row = NoRow -> "saveChild"
            [] OTHER -> "snapshot")
  /\ UNCHANGED <<world, fresh, row, msg, ui, chats, tracked, dropped, flow, inbox>>

\* drop_pre_active_taker_take: delete the row, then forget it in memory.
DropTake ==
  /\ pc = "dropTake"
  /\ row' = NoRow
  /\ Goto("forgetTake")
  /\ UNCHANGED <<world, fresh, msg, ui, chats, tracked, dropped, flow, inbox>>

\* The in-memory half of drop_pre_active_taker_take and of
\* revert_maker_to_pending_on_book_republish.
Forget ==
  /\ pc \in {"forgetTake", "revertForget"}
  /\ msg' = NoMsg
  /\ chats' = {}
  /\ Goto("seen")
  /\ UNCHANGED <<world, fresh, row, ui, tracked, dropped, flow, inbox>>

\* The upsert of a row reads it, awaits, and writes all of its columns; a row
\* that was not there cannot be inserted (no trade index), and one that is gone
\* is not updated.
ReadForUpsert(from, to) ==
  /\ pc = from
  /\ base' = row
  /\ pc' = to
  /\ UNCHANGED <<cur, notify, snap, prior, history>>
  /\ UNCHANGED <<world, fresh, row, msg, ui, chats, tracked, dropped, flow, inbox>>

WriteUpsert(from, to) ==
  /\ pc = from
  /\ row' = IF base = NoRow \/ row = NoRow THEN row ELSE build_order_from_small_order(dm, base)
  /\ pc' = to /\ base' = NoRow
  /\ UNCHANGED <<cur, notify, snap, prior, history>>
  /\ UNCHANGED <<world, fresh, msg, ui, chats, tracked, dropped, flow, inbox>>

\* revert_maker_to_pending_on_book_republish: update_order_status(Pending).
RevertStatus ==
  /\ pc = "revertStatus"
  /\ row' = IF row = NoRow THEN NoRow ELSE [row EXCEPT !.status = "Pending"]
  /\ Goto("revertForget")
  /\ UNCHANGED <<world, fresh, msg, ui, chats, tracked, dropped, flow, inbox>>

\* What save_order stores: a fresh row, whatever was there.
SavedRow(status, mine) ==
  [status |-> status, mine |-> mine, seen |-> NoTs, created |-> Now,
   peer |-> FALSE, dispute |-> FALSE, solver |-> FALSE]

\* persist_range_child_listing_from_new_order
SaveChild ==
  /\ pc = "saveChild"
  /\ row' = SavedRow("Pending", TRUE)
  /\ inbox' = inbox \cup {"track"}
  /\ Goto("seen")
  /\ UNCHANGED <<world, fresh, msg, ui, chats, tracked, dropped, flow>>

-----------------------------------------------------------------------------
(* The listener: handle_trade_dm_for_order.                                *)

\* get_by_id before the upsert; the cancel of a take that never became active
\* drops the row instead of closing it.
Snapshot ==
  /\ pc = "snapshot"
  /\ snap' = row
  /\ pc' = IF dm.action = "Canceled" /\ dm.payload = "none" /\ is_pre_active_taker_take(row)
           THEN "dropTake"
           ELSE IF Upserts(dm) THEN "upsertRead" ELSE "dispute"
  /\ UNCHANGED <<cur, notify, base, prior, history>>
  /\ UNCHANGED <<world, fresh, row, msg, ui, chats, tracked, dropped, flow, inbox>>

\* update_dispute_id, or update_solver_chat and the dispute chat it opens.
RecordDispute ==
  /\ pc = "dispute"
  /\ LET announced == /\ dm.action \in {"DisputeInitiatedByYou", "DisputeInitiatedByPeer"}
                     /\ dm.payload = "dispute"
         taken == dm.action = "AdminTookDispute" /\ dm.payload = "solver"
     IN /\ row' = IF row = NoRow THEN NoRow
                  ELSE [row EXCEPT !.dispute = @ \/ announced, !.solver = @ \/ taken]
        /\ chats' = IF taken THEN chats \cup {"dispute"} ELSE chats
  /\ Goto("trackChat")
  /\ UNCHANGED <<world, fresh, msg, ui, tracked, dropped, flow, inbox>>

\* maybe_track_order_chat, then the prior Messages row under its lock; a
\* payment request without an invoice ends here.
TrackChat ==
  /\ pc = "trackChat"
  /\ chats' = IF row # NoRow /\ row.peer THEN chats \cup {"order"} ELSE chats
  /\ prior' = msg
  /\ pc' = IF IsInvoice(dm) /\ ~is_actionable_notification(dm) THEN "seen" ELSE "statusWrite"
  /\ UNCHANGED <<cur, notify, snap, base, history>>
  /\ UNCHANGED <<world, fresh, row, msg, ui, tracked, dropped, flow, inbox>>

\* The payload's kind, the prior row's, the action's, the stored row's.
effective_order_kind ==
  IF small_order_ref_from_payload(dm) THEN trade.kind
  ELSE IF prior # NoMsg /\ prior.kind # NoKind THEN prior.kind
  ELSE IF dm.action \in {"TakeBuy", "TakeSell"} THEN IF dm.action = "TakeBuy" THEN "buy" ELSE "sell"
  ELSE IF snap # NoRow THEN trade.kind ELSE NoKind

status_from_db == IF snap = NoRow THEN NoStatus ELSE snap.status

\* Mutated: the action implies nothing when there is no payload.
candidate_of_payload ==
  IF dm.action # "CantDo" /\ small_order_ref_from_payload(dm) THEN dm.status ELSE NoStatus

status_candidate == resolved_status_candidate(dm)

baseline_status ==
  IF status_from_db # NoStatus THEN status_from_db
  ELSE IF prior = NoMsg THEN NoStatus ELSE prior.status

should_accept_candidate ==
  /\ status_candidate # NoStatus
  /\ should_apply_status_transition(baseline_status, status_candidate, effective_order_kind)

effective_order_status == IF should_accept_candidate THEN status_candidate ELSE baseline_status

\* Mutated: a stale status stored by the upsert is not restored.
StatusToWriteWithoutRestore == IF should_accept_candidate THEN status_candidate ELSE NoStatus

\* The status this step writes, if any: the candidate, or the status of the
\* snapshot when the upsert may have stored a stale one.
StatusToWrite ==
  CASE should_accept_candidate ->
         IF status_candidate # baseline_status THEN status_candidate ELSE NoStatus
    [] status_candidate # NoStatus /\ ~should_accept_candidate -> status_from_db
    [] OTHER -> NoStatus

StatusWrite ==
  /\ pc = "statusWrite"
  /\ row' = IF row = NoRow \/ StatusToWrite = NoStatus THEN row
            ELSE [row EXCEPT !.status = StatusToWrite]
  /\ Goto("publish")
  /\ UNCHANGED <<world, fresh, msg, ui, chats, tracked, dropped, flow, inbox>>

is_new_message == prior = NoMsg \/ prior.action # dm.action \/ dm.ts > prior.ts

\* A row known before the upsert tells the role; otherwise only an earlier
\* Messages row does.
effective_is_mine ==
  IF snap # NoRow /\ row # NoRow THEN IF row.mine THEN "maker" ELSE "taker"
  ELSE IF prior = NoMsg THEN "unknown" ELSE prior.mine

order_message ==
  [ts |-> dm.ts, action |-> dm.action, status |-> effective_order_status,
   kind |-> effective_order_kind, mine |-> effective_is_mine,
   invoice |-> dm.payload \in {"invoice", "invoiceOrder"} \/ (prior # NoMsg /\ prior.invoice),
   popup |-> prior # NoMsg /\ prior.popup /\ prior.action = dm.action]

\* Mutated: a message of the same second does not replace the row.
should_replace_by_newer_only == prior = NoMsg \/ dm.ts > prior.ts

should_replace_row ==
  \/ prior = NoMsg
  \/ /\ dm.action = "NewOrder" => prior.action = "NewOrder"
     /\ \/ dm.ts > prior.ts
        \/ dm.ts = prior.ts /\ dm.action # prior.action
        \/ /\ dm.ts < prior.ts /\ status_candidate # NoStatus
           /\ should_strictly_advance_status(prior.status, status_candidate, effective_order_kind)

PublishRow ==
  /\ pc = "publish"
  /\ msg' = IF should_replace_row THEN order_message ELSE msg
  /\ notes' = IF notify /\ is_new_message /\ is_actionable_notification(dm)
              THEN Append(notes, cur) ELSE notes
  /\ Goto("seen")
  /\ UNCHANGED <<world, fresh, row, floor, opened, reopened, panicked, chats, tracked, dropped,
                 flow, inbox>>

\* update_last_seen_dm_ts: the cursor never moves back.
AdvanceCursor ==
  /\ pc = "seen"
  /\ row' = IF row = NoRow \/ row.seen >= dm.ts THEN row ELSE [row EXCEPT !.seen = dm.ts]
  /\ Goto("cleanup")
  /\ UNCHANGED <<world, fresh, msg, ui, chats, tracked, dropped, flow, inbox>>

\* The end of dispatch_giftwrap_batch: a closing message ends the chats, and
\* the subscription with them.
Cleanup ==
  /\ pc = "cleanup"
  /\ chats' = IF trade_message_should_untrack_order_chat(dm) THEN {} ELSE chats
  /\ tracked' = (tracked /\ ~trade_message_is_terminal(dm))
  /\ fresh' = IF tracked' THEN fresh ELSE {}
  /\ Finish
  /\ handled' = handled \cup {cur}
  /\ UNCHANGED <<world, row, msg, ui, dropped, flow, inbox>>

Handling ==
  \/ NewOrderLookup \/ DropTake \/ Forget \/ RevertStatus \/ SaveChild
  \/ ReadForUpsert("revertRead", "revertWrite") \/ WriteUpsert("revertWrite", "revertStatus")
  \/ ReadForUpsert("upsertRead", "upsertWrite") \/ WriteUpsert("upsertWrite", "dispute")
  \/ Snapshot \/ RecordDispute \/ TrackChat \/ StatusWrite \/ PublishRow
  \/ AdvanceCursor \/ Cleanup

-----------------------------------------------------------------------------
(* Mostro, the create/take task, and the main loop.                        *)

\* Mostro publishes the next message; it reaches a live subscription only.
Publish ==
  /\ published < Len(trade.dms) /\ Cardinality(fresh) < MaxUnread
  /\ \/ published < trade.early
     \/ flow \notin {"saving", "detached"} /\ inbox \cap {"track", "result"} = {}
  /\ published' = published + 1
  /\ fresh' = IF tracked THEN fresh \cup {published'} ELSE fresh
  /\ UNCHANGED <<trade, restarts, reloads, row, msg, ui, chats, tracked, dropped, flow, inbox,
                 listener>>

\* The reply has come (a maker's is not part of the conversation; a taker's is
\* its first message): save_order, TrackOrder, and the result for the UI.  A
\* detached task holds the command channel of a listener that is gone.
SaveOrder ==
  /\ flow \in {"saving", "detached"}
  /\ trade.maker \/ published > 0
  /\ row' = SavedRow(trade.saved, trade.maker)
  /\ IF flow = "saving" THEN flow' = "done" /\ inbox' = inbox \cup {"track", "result"}
     ELSE flow' = "untracked" /\ inbox' = inbox \cup {"result"}
  /\ UNCHANGED <<world, fresh, msg, ui, chats, tracked, dropped, listener>>

\* The listener takes TrackOrder between two messages.
TrackOrder ==
  /\ pc = "idle" /\ "track" \in inbox
  /\ inbox' = inbox \ {"track"}
  /\ tracked' = TRUE
  /\ UNCHANGED <<world, fresh, row, msg, ui, chats, dropped, flow, listener>>

ResultRow(action, shown) ==
  [ts |-> Now, action |-> action, status |-> trade.saved, kind |-> trade.kind,
   mine |-> IF trade.maker THEN "maker" ELSE "taker", invoice |-> FALSE, popup |-> shown]

\* handle_operation_result: a placeholder for a created order, the AddInvoice
\* popup of a take (remember_open_invoice_order_message), nothing to remember
\* for a payment request.
ShowResult ==
  /\ "result" \in inbox
  /\ inbox' = inbox \ {"result"}
  /\ msg' = CASE trade.reply = "created" -> IF msg = NoMsg THEN ResultRow("NewOrder", FALSE) ELSE msg
              [] trade.reply = "addInvoice" ->
                   IF msg = NoMsg THEN ResultRow("AddInvoice", TRUE) ELSE [msg EXCEPT !.popup = TRUE]
              [] OTHER -> msg
  /\ UNCHANGED <<world, fresh, row, ui, chats, tracked, dropped, flow, listener>>

\* The user deletes an order that has ended from the history: a task deletes the
\* row and reports it.
DeleteOrder ==
  /\ row # NoRow /\ row.status \in TerminalTradeStatuses
  /\ row' = NoRow
  /\ inbox' = inbox \cup {"deleted"}
  /\ UNCHANGED <<world, fresh, msg, ui, chats, tracked, dropped, flow, listener>>

\* remove_many_orders_from_messages_tab, then the resync of the history rows:
\* the order is not listened to any more, but chats and subscription stay.
ForgetDeleted ==
  /\ "deleted" \in inbox
  /\ inbox' = inbox \ {"deleted"}
  /\ dropped' = TRUE
  /\ msg' = IF row = NoRow THEN NoMsg ELSE db_order_to_history_message(row)
  /\ UNCHANGED <<world, fresh, row, ui, chats, tracked, flow, listener>>

PopupActions == {"AddInvoice", "PayInvoice", "PayBondInvoice", "AddBondInvoice"}

\* Mutated: the phase is not looked at, only whether the trade has ended.
popup_in_any_phase(action, s) == action \in PopupActions /\ s \notin TerminalTradeStatuses

invoice_popup_allowed_for_order_status(action, s) ==
  CASE action = "PayInvoice" -> s = "WaitingPayment"
    [] action = "PayBondInvoice" -> s \in {"WaitingTakerBond", "WaitingMakerBond", NoStatus}
    [] action = "AddInvoice" -> s \in {"WaitingBuyerInvoice", "SettledHoldInvoice", NoStatus}
    [] action = "AddBondInvoice" -> s \notin {"Canceled", "CanceledByAdmin"}
    [] OTHER -> FALSE

local_user_must_act_on_invoice_popup(m, action) ==
  LET maker == m.mine = "maker" IN
  CASE action = "AddBondInvoice" -> TRUE
    [] action = "PayBondInvoice" -> \/ m.status \in {"WaitingMakerBond", NoStatus} /\ maker
                                    \/ m.status = "WaitingTakerBond" /\ ~maker
    [] action = "AddInvoice" -> \/ m.kind = "buy" /\ maker
                                \/ m.kind = "sell" /\ ~maker
    [] action = "PayInvoice" -> \/ m.kind = "buy" /\ ~maker
                                \/ m.kind = "sell" /\ maker
                                \/ m.kind = NoKind /\ m.invoice
    [] OTHER -> FALSE

check_if_popup_should_be_shown(d) ==
  /\ d.ts > floor
  /\ invoice_popup_allowed_for_order_status(d.action, msg.status)
  /\ local_user_must_act_on_invoice_popup(msg, d.action)
  /\ ~msg.popup

\* handle_message_notification, in the main loop: the Messages row is looked up
\* with `expect`, unless the popup floor has already turned the note away.
HandleNotification ==
  /\ notes # <<>> /\ ~panicked
  /\ notes' = Tail(notes)
  /\ LET i == Head(notes)
         d == trade.dms[i]
     IN IF d.action \notin PopupActions \/ d.ts <= floor
        THEN UNCHANGED <<msg, opened, reopened, panicked>>
        ELSE IF msg = NoMsg THEN panicked' = TRUE /\ UNCHANGED <<msg, opened, reopened>>
        ELSE /\ UNCHANGED panicked
             /\ IF check_if_popup_should_be_shown(d)
                THEN /\ msg' = [msg EXCEPT !.popup = TRUE]
                     /\ opened' = opened \cup {<<i, msg.status>>}
                     /\ reopened' = (reopened \/ \E s \in StatusOpt \ {msg.status} : <<i, s>> \in opened)
                ELSE UNCHANGED <<msg, opened, reopened>>
  /\ UNCHANGED <<world, fresh, row, floor, chats, tracked, dropped, flow, inbox, listener>>

-----------------------------------------------------------------------------
(* Restart of the process and respawn of the listener.                     *)

\* Mutated: only what is strictly newer than the cursor.
RedeliveredAfterCursor(r) ==
  IF IsStartupActive(r) THEN {i \in 1 .. published : trade.dms[i].ts > r.seen} ELSE {}

\* The bound subscription re-delivers: everything since the cursor (widened by
\* three days, more than a trade of the model lasts), or only the newest
\* message when there is no cursor.
Redelivered(r) ==
  IF ~IsStartupActive(r) \/ published = 0 THEN {}
  ELSE IF r.seen = NoTs THEN {published} ELSE 1 .. published

\* The message fetch_and_replay_startup_trade_dms picks: the greatest rumor
\* timestamp, the last published of equals.
Freshest(i) ==
  /\ \A j \in 1 .. published : trade.dms[j].ts <= trade.dms[i].ts
  /\ \A j \in i + 1 .. published : trade.dms[j].ts < trade.dms[i].ts

\* The listener starts over from the database: hydrated index and cursor, then
\* the silent replay, which a failed fetch skips.
StartListener ==
  /\ tracked' = IsStartupActive(row)
  /\ fresh' = Redelivered(row)
  /\ floor' = IF IsStartupActive(row) THEN row.seen ELSE NoTs
  /\ \/ Finish /\ UNCHANGED handled
     \/ /\ IsStartupActive(row) /\ ~dropped'
        /\ \E i \in 1 .. published : Freshest(i) /\ StartHandling(i, FALSE)

Restart ==
  /\ restarts < MaxRestarts
  /\ restarts' = restarts + 1
  /\ dropped' = FALSE
  /\ StartListener
  /\ msg' = IF row = NoRow THEN NoMsg ELSE db_order_to_history_message(row)
  /\ notes' = <<>>
  /\ opened' = {} /\ reopened' = FALSE /\ panicked' = FALSE
  /\ chats' = track_startup_chats(row)
  /\ flow' = IF flow \in {"saving", "detached"} THEN "orphaned" ELSE flow
  /\ inbox' = {}
  /\ UNCHANGED <<trade, published, reloads, row>>

\* The listener task is aborted at whatever await it is in; Messages rows and
\* notifications survive, the command channel does not, and a create/take task
\* either loses its waiter or is past it.  A reconnect also rebuilds the chats
\* and forgets the removed orders; a transport change keeps both.
Reload ==
  /\ reloads < MaxReloads /\ trade \in Respawned
  /\ reloads' = reloads + 1
  /\ \/ dropped' = FALSE /\ chats' = track_startup_chats(row)
     \/ UNCHANGED <<dropped, chats>>
  /\ StartListener
  /\ inbox' = inbox \ {"track"}
  /\ IF flow = "saving" THEN flow' \in {"orphaned", "detached"} ELSE UNCHANGED flow
  /\ UNCHANGED <<trade, published, restarts, row, msg, notes, opened, reopened, panicked>>

-----------------------------------------------------------------------------
\* A taker's order is tracked before the request is sent, a maker's only after
\* the reply is stored.
Init ==
  /\ trade \in Trades
  /\ published = 0 /\ fresh = {}
  /\ row = NoRow /\ msg = NoMsg
  /\ notes = <<>> /\ chats = {}
  /\ tracked = ~trade.maker
  /\ dropped = FALSE
  /\ flow = "saving" /\ inbox = {}
  /\ floor = NoTs /\ opened = {} /\ reopened = FALSE /\ panicked = FALSE
  /\ restarts = 0 /\ reloads = 0
  /\ pc = "idle" /\ cur = 0 /\ notify = FALSE
  /\ snap = NoRow /\ base = NoRow /\ prior = NoMsg
  /\ before = NoRow /\ handled = {}

ListenerNext == TrackOrder \/ Handling \/ \E i \in fresh : Receive(i)

Next ==
  \/ ListenerNext
  \/ Publish \/ SaveOrder \/ ShowResult \/ HandleNotification
  \/ DeleteOrder \/ ForgetDeleted
  \/ Restart \/ Reload

Spec == Init /\ [][Next]_vars

-----------------------------------------------------------------------------
(* Fairness: tokio polls the listener task whenever a message or a command   *)
(* waits for it, the create/take task whenever its reply has come, and the   *)
(* main loop whenever a result waits for it.                                 *)
Fairness == WF_vars(ListenerNext) /\ WF_vars(SaveOrder) /\ WF_vars(ShowResult \/ ForgetDeleted)

FairSpec == Spec /\ Fairness

-----------------------------------------------------------------------------
(* Properties.                                                             *)

\* The types of the variables; messages are referred to by their index among
\* those published, and a message is being handled exactly when `cur` names it.
TypeOK ==
  /\ trade \in Trades
  /\ published \in 0 .. Len(trade.dms)
  /\ fresh \subseteq 1 .. published
  /\ row \in Rows \cup {NoRow}
  /\ msg \in Msgs \cup {NoMsg}
  /\ notes \in Seq(1 .. published)
  /\ chats \subseteq {"order", "dispute"}
  /\ tracked \in BOOLEAN /\ dropped \in BOOLEAN
  /\ flow \in {"saving", "detached", "done", "untracked", "orphaned"}
  /\ inbox \subseteq {"track", "result", "deleted"}
  /\ floor \in Nat \cup {NoTs}
  /\ opened \subseteq (1 .. published) \X StatusOpt
  /\ reopened \in BOOLEAN /\ panicked \in BOOLEAN
  /\ restarts \in 0 .. MaxRestarts /\ reloads \in 0 .. MaxReloads
  /\ pc \in Pcs /\ cur \in 0 .. published /\ (pc # "idle" => cur # 0)
  /\ notify \in BOOLEAN
  /\ snap \in Rows \cup {NoRow} /\ base \in Rows \cup {NoRow}
  /\ prior \in Msgs \cup {NoMsg}
  /\ before \in Rows \cup {NoRow}
  /\ handled \subseteq 1 .. published

AtRest == pc = "idle"

\* Nothing is on its way: no message, command or result waits for anyone.
Quiescent == AtRest /\ fresh = {} /\ inbox = {} /\ flow = "done"

\* The messages whose handling may legitimately, or by the code's own choice,
\* leave a row in an earlier phase: a republished listing, a bond payout
\* request (no status candidate, so nothing restores what its upsert stored), an
\* upsert without a status, and an invoice-less payment request (handling ends
\* before the guard).
MayRegress(d) ==
  \/ is_pending_listing(d)
  \/ d.action = "AddBondInvoice"
  \/ Upserts(d) /\ (d.status = NoStatus \/ d.payload = "emptyInvoice")

\* Handling a direct message, however stale and whatever the unguarded upsert
\* stored half-way, ends with a status the guard allows from the one the row
\* had when the message was received (handle_trade_dm_for_order's restore).
NeverBackward ==
  pc = "cleanup" /\ before # NoRow /\ row # NoRow /\ ~MayRegress(dm)
    => should_apply_status_transition(before.status, row.status, trade.kind)

\* Between two messages, a saved order known not to have ended is subscribed to:
\* Mostro's next message will reach it.  Only an order saved by a task whose
\* listener was replaced meanwhile (`untracked`) waits for the next restart.
LiveOrderIsTracked ==
  /\ AtRest /\ flow = "done" /\ "track" \notin inbox
  /\ row # NoRow /\ row.status \in Statuses \ TerminalTradeStatuses
  => tracked

\* Between two messages, an order stored as ended is not subscribed to any more:
\* what the listener calls terminal and what it stores agree, although they are
\* computed from the message by different functions.
DeadOrderIsReleased ==
  AtRest /\ row # NoRow /\ row.status \in TerminalDmStatuses => ~tracked

\* A take whose listing went back to the book is dropped; when that message comes a
\* second time the order is stored as a listing of the user's own, beside whatever
\* the Messages tab still shows of the take.
StoredAnew == row # NoRow /\ row.mine /\ ~trade.maker

\* Between two messages the Messages tab shows the status the database holds.
\* An abort of the listener between the two writes leaves them apart, but what
\* the new subscription re-delivers brings them together again.
RowsAgree ==
  /\ row # NoRow /\ msg # NoMsg
  /\ AtRest /\ (reloads > 0 => Quiescent /\ tracked) /\ ~StoredAnew
  => msg.status = row.status

\* Between two messages, chats are open only for an order that is stored and
\* has not ended; deleting a completed order from the history keeps its chats,
\* and so does a change of the transport that aborts the listener between storing
\* an end and ending the chats: nothing brings it back to that.
ChatsOnlyForLiveOrders ==
  AtRest /\ chats # {} /\ (reloads > 0 => tracked) =>
    \/ row # NoRow /\ row.status \notin TerminalDmStatuses
    \/ dropped \/ "deleted" \in inbox

\* However restarts, aborts and reorderings fall, once nothing is on its way the
\* newest message Mostro has published to a tracked take has been handled, unless
\* the user deleted the order.
NothingMissed ==
  Quiescent /\ tracked /\ ~dropped /\ ~trade.maker /\ published > 0 => published \in handled

\* A message that ends the trade leaves a row that says so, or none at all; and
\* once nothing is on its way, no row of the user's take is left of a listing that
\* went back to the book, whatever is re-delivered after the message that said so.
CancelIsRecorded ==
  /\ AtRest => \A i \in handled :
       trade.dms[i].action \in ClosingActions => row = NoRow \/ is_terminal_trade_status(row.status)
  /\ Quiescent /\ ~trade.maker /\ published \in handled /\ is_pending_listing(trade.dms[published])
       => row = NoRow \/ StoredAnew

\* A respawned listener gets the messages of the process's life again, and an order
\* that was refused something, or forgotten, asks a second time.  It does so in the
\* phase it asked in first: a trade that has moved on does not ask for an old payment.
PopupKeepsPhase == ~reopened

\* The listener eventually rests with nothing left to deliver, and stays so; a
\* tracked take has then handled the newest message.
EventuallyCaughtUp == <>[](AtRest /\ fresh = {} /\ NothingMissed)

-----------------------------------------------------------------------------
(* What a comment promises and the code does not keep.                     *)

\* notifications_ch_mng.rs: the Messages row is guaranteed to exist when its
\* notification is handled, so that the `expect` cannot fail.
NoPanic == ~panicked
=============================================================================
