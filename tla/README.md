# Mostrix in TLA+

Mostrix is a terminal client of the Mostro peer-to-peer exchange.  A user
creates or takes an order; from then on the Mostro daemon talks to the user
through encrypted direct messages to a *trade key* derived for that order, and
the client keeps several copies of the trade in step: the row of the SQLite
table `orders`, a row of the in-memory Messages tab, and the relay and chat
subscriptions of the order.  Solvers use the same program to take and settle
disputes.  These modules model the code that does it, check it with TLC, and
prove what matters most with TLAPS.

Paths below are relative to the repository's `src/`.

## 1. Inventory

| Component | State it keeps | Operations | Correct when |
|---|---|---|---|
| Status guards (`util/order_utils/helper.rs`) | none | phase rank, transition guard, strict guard, status implied by an action | no chain of accepted candidates leads back; the first outcome is the last |
| Trade DM listener (`util/dm_utils/mod.rs`) | active indices, subscriptions, waiters, Messages rows, popup floors | `listen_for_order_messages`, `dispatch_giftwrap_batch`, `handle_trade_dm_for_order`, startup replay, prune tick | row, Messages row, chats, subscription agree between two messages; nothing is missed; nothing moves back |
| DM router, request side (`mod.rs`: `wait_for_dm`, `RegisterWaiter`) | pending waiters, one-shot channels | send a request and wait for its reply | a waiter is heard; keys, subscriptions and bindings agree |
| Order rows (`models.rs`, `util/db_utils.rs`) | table `orders` | `save_order`, whole-row upsert, column updates, deletes | cursor never moves back; no lost update |
| Create/take tasks (`send_new_order.rs`, `take_order.rs`) | reserved trade index | request, save, `TrackOrder`, result for the UI | a saved order is listened to |
| Order form and take popup (`ui/order_form.rs`, `order_confirm.rs`, `order_take.rs`) | the form, one draft, the amount typed | typing, toggles, preview, confirmation, draft | what is shown is what is sent; a draft is neither lost nor doubled |
| Later requests (`execute_send_msg.rs`, `execute_add_invoice.rs`) | none | fiat sent, release, cancel, dispute, rate, add invoice | the row takes both the reply's and the listener's writes |
| Terminal (`ui/key_handler/`, `order_ch_mng.rs`, `notifications_ch_mng.rs`, `main.rs`) | one mode, draft, stashed result | every key, every answer, every message | a waiting mode has its answer; a question stays on the screen |
| Lists and selections (`ui/helpers/*_selection.rs`, `chat_helpers.rs`) | five lists, their selections | move, filter, open, send, review, delete | a key acts on the row the user saw |
| Messages card (`ui/orders.rs`) | none | timeline, banner, badge, what Enter opens | the card tells what the database stores |
| Attachments (`util/send_attachment.rs`, `blossom.rs`) | sending flag, kept uploads | pick, upload, send, retry | one upload at a time; an upload is not lost |
| Startup (`ui/helpers/startup.rs`, `startup.rs`, `main.rs`) | all of the above | hydrate indices, cursors, history rows, chats | the state after a restart is one the running program could be in |
| Session reloads (`ui/key_handler/async_tasks.rs`, `network.rs`) | client, background tasks, settings | setting saved, key rotation, reconnect, fatal error | stopped tasks come back |
| Relay reconciliation and order book (`fetch_scheduler.rs`, `relay_order_db_reconcile.rs`) | the book, reconcile cursor | live update, 30 s refresh, terminal statuses to the rows | the book ends as the relays say; no listing ages |
| Admin disputes (`models.rs`, `execute_*dispute.rs`, `execute_admin_*.rs`) | table `admin_disputes`, list, shared vector | take, settle, cancel, reconcile | a dispute ends as Mostro decided |
| Chat router (`chat_listener.rs`, `chat_utils.rs`, `chat_storage.rs`) | tracked chats, one live filter, seen ids, rate limits, files | track, untrack, hydrate, deliver, write | no message lost between subscribe and hydrate, none kept twice |
| Database file and migrations (`db.rs`) | the SQLite file | first start, column checks, added and dropped columns | no start loses a row or refuses a file that once worked |
| Trade indices and keys (`models.rs`) | table `users` | reserve an index, rotate the mnemonic | no key is handed out twice |
| Settings and currencies, instance info, rendering | files, records | parsing, layout | section 7 |

How they meet: Mostro's messages come over one notification stream of the relay
client, read by the listener task.  The create/take/later tasks send it commands
(`TrackOrder`, `RegisterWaiter`) over one unbounded channel, write the database
themselves, and report to the main loop.  The listener writes the database and
the Messages rows (under a mutex it never holds across an await) and notifies
the main loop.  The two schedulers keep the shared vectors of orders and
disputes and write the same rows.  The chat router hands messages to the main
loop over a bounded channel.  The main loop changes Messages rows too, opens
popups and performs the reloads, which abort the background tasks.  The
database, the settings file and the chat transcripts survive the process.

What is hard here, and listed under `hazards` in `PROJECT.json` line by line:
every database call is an await at which the other tasks, an abort or a crash
may step in; relays redeliver and reorder; several functions decide separately
whether an order is over, or what the user has to do; nothing ties an answer to
the mode that waits for it, or a frame to the list a key is handled against;
timestamps have seconds.

## 2. Modules

**`OrderStatus`** - the statuses of the protocol, the sets the code sorts them
into, `status_phase_rank_for_actor`, `should_apply_status_transition`,
`should_strictly_advance_status`, `inferred_status_from_trade_action`.  Rust's
`None` is a value of each domain (`NoStatus`, `NoKind`, `NoRank`).

**`StatusHistory`** - a stored status under an arbitrary stream of candidates,
each stored exactly when the guard allows.  `past` remembers all of them; the
specification is `HistorySpec`.

**`TradeDm`** - one order of the user, seen through the listener.  Everything
in that code is keyed by order id, so one order is enough for what concerns one
order.  The state is the `orders` row (`row`, its columns reduced to what the
properties tell apart), the Messages row (`msg`), open chats, whether the order
has an active index and a bound subscription (`tracked`), the notifications on
their way to the main loop, the create/take task (`flow`), what tasks have sent
(`inbox`), and the listener's own program counter and locals.  Messages are
records (`Dms`): the rumor's second, action, kind of payload, status of the
embedded order, whether it names the counterparty.

| Actions | Code |
|---|---|
| `Receive`, `AdvanceCursor`, `Cleanup` | `dispatch_giftwrap_batch` |
| `NewOrderLookup`, `DropTake`, `Forget`, `ReadForUpsert`/`WriteUpsert("revert...")`, `RevertStatus`, `SaveChild` | `try_handle_new_order_trade_dm` and its three cases |
| `Snapshot` ... `PublishRow` | `handle_trade_dm_for_order`, cut at each await |
| `SaveOrder`, `TrackOrder`, `ShowResult` | the create/take task, the listener's command arm, `handle_operation_result` |
| `HandleNotification` | `handle_message_notification` and the popup predicates of `ui/orders.rs` |
| `DeleteOrder`, `ForgetDeleted` | deletion of an ended order from the history |
| `Publish` | Mostro (external) |
| `Restart` | a crash and the whole startup path: hydrated index, cursor, history row, chats, silent replay |
| `Reload` | the listener aborted at whatever await it is in and respawned, by a reconnect or a transport change |

`before` and `handled` are history variables: the row when the message was
received, and the messages handled to the end.  `opened` holds the popups the user
was shown with the phase the order was in, `reopened` that one was shown again in
another phase.  After an abort the same popup may open a second time, and a change of
the transport that aborts the listener between storing an end and ending the chats
leaves them open: `PopupKeepsPhase` and `ChatsOnlyForLiveOrders` say what remains
true then.

**`TradeCard`** extends `TradeDm` with what the Messages tab makes of the row it
leaves: `message_trade_timeline_step` with the two step tables,
`message_timeline_warning...`, `actionable_next_step` with all its arms,
`order_status_badge`, and what `handle_enter_normal_mode` opens.  They are functions
of the row; the properties put two of them, or one of them and the stored status, side
by side over every row the listener can leave.  For two actions banner and Enter
disagree (`LabelOnlyActions`, section 6).

**`MCTradeDm`** - the fourteen conversations TLC explores: two purchases, two sales, a
sale the admin cancels, a canceled, a bonded and a refused take, a disputed listing, a
listing that comes back to the book and finds a second taker, two takes whose listing
goes back, a purchase with a `FiatSent` from Mostro that the seller asks to cancel, a
sale with a `Release` from Mostro.  Some messages share a second.

**`DmRouter`** - the other half of the listener: several orders, trade keys and
requests, and no contents of messages.  Commands, one-shot channels and the
registered waiters are queue, slots and set; `subscribed`, `keySub` and `bound`
are the listener's three tables (`subscribed_pubkeys`, `pubkey_to_subscription`,
`subscription_to_order`) and `subKey` what the relay really serves.  A table
entry exists exactly when it is not one of the `No...` values.  `TradeDm`
takes over where this module says that an event reaches an order; here such
an event only ends the order or does not.

| Actions | Code |
|---|---|
| `Start`, `Register`, `Send`, `GiveUp`, `Resume` | `take_order`, `send_new_order`, `execute_send_msg` around `wait_for_dm`, cut at its awaits; `Accepted` is `handle_mostro_response` |
| `HandleResult` | the index the main loop inserts in `handle_operation_result` |
| `Bootstrap`, `TakeTrack`, `ensure_order_dm_subscription` | startup subscriptions, the `TrackOrder` arm |
| `TakeWait`, `PruneTick`, `prune_closed_waiters` | the `RegisterWaiter` arm with its cap, the garbage-collection tick |
| `Deliver`, `RouteBound`, `RouteByKey`, `Finished` | the notification arm: waiters first, then the bound order or the fallback over all active keys, with the two terminal policies of `dispatch_giftwrap_batch` |
| `Reload` | abort, unsubscribe, new channel, rows hydrated |
| `Reply`, `Push` | Mostro and the relay (external) |

`Deliver` and `Route...` are separate because the awaits between the waiters and
the order let the tasks run; the listener itself takes nothing else up
meanwhile (`Listening`).  `missed` and `deaf` are history: events published
with nobody subscribed to their key, and keys whose `TrackOrder` was lost with the
old channel or could not subscribe.  **`MCDmRouter`** has five requests in three
sessions: an order created and canceled by the user; an order taken, refused or
ended, and taken again under a new key; a take that Mostro answers with another
order.

**`OrderBook`** - the order scheduler's select loop against the relays and
against the trade DM listener, which writes the same rows.  An event is order,
status and time; a relay keeps the newest of each order.  `Idle`, `FetchAnswered`,
`ReadRow`, `WriteRow`, `FillBook`, `ListRows`, `NextId`, `AskAnswered` are the tick
cut at its awaits (`snap`, `todo`, `rec`, `queue` its locals); `ApplyLive` is
`apply_live_order_update`; `ReadForDm`/`WriteForDm` the listener's read and write
of a status; `Reload` aborts the task wherever it is.

**`AdminDisputes`** - a solver's disputes: Mostro (`mostro`, `listed`, `inbox`,
`replies`), the take and finalize tasks (`job`, one place per await of
`execute_take_dispute`, `AdminDispute::new`, `execute_finalize_dispute`,
`execute_admin_settle` and `_cancel`), the disputes scheduler (as in `OrderBook`),
and the main loop's list.  All admin requests wait on one key, so `Deliver` hands
a task whichever answer comes next.  A take sends no request id and believes any answer
that its dispute was taken (`AcceptsTook`), so two takes may go on with one answer; a
settlement or cancel fails on an answer to another request.  Mostro may end a dispute without being
asked (`CloseUnasked`).

**`ChatRouter`** - `listen_for_chat_messages`: commands, subscribe, then the
histories one by one, oldest message first and in any order within a second, then the
live events; the outer-id LRU, the inner ids on disk, the token buckets, the bounded
channel; `apply_user_order_chat_updates` and
`apply_admin_chat_updates` with the transcript file and the id file written one
after the other; `Restart` and `Respawn`.  What is queued when a chat is untracked is
still shown and written; only a dispute that is not in the list is dropped
(`SignerUnknown`).  A chat that is over is `"forgotten"` once its order is deleted from
the history, or by a restart: the interface then has no lines left to recognise a
message by, only the ids on disk.  The specification is `ChatSpec`.
**`ChatTranscript`** is its abstract
specification: no line of a transcript is dropped or overtaken by a later one, and
what it gains are lines the parties have written, each once, at its end; of a chat that
is forgotten, that what is still under way goes to the end, be it there or not.  Further up,
a placeholder of an older version may become the attachment it stood for, and a line
that was shown without being saved may be kept after all: an admin's own line is shown
and sent whether it could be saved or not, and the next attachment rewrites the file
from what is shown (`late`).  `ChatRouter` implements it (`Transcript == INSTANCE
ChatTranscript WITH ...`, property `KeepsTranscript`).

**`Session`** - what replaces the background tasks while the program runs: a
setting saved, the identity keys rotated, the connection lost and back, a fatal
error.  Each reload has a `...Done` and a `...Failed` action for the two ways its
awaits may end; the rotation task reads the settings, commits and renames in
three steps; monitor, retries and channel of the network status are the ones of
`network_status.rs` and `main.rs`.  The specification is `SessionSpec`.

**`Terminal`** - the user's mode (`UiMode`), the active tab, tasks in flight, the
saved draft and the stashed result.  One action per key that changes the mode,
named for its handler; `Answer` and `handle_operation_result` for results,
`handle_message_notification` for messages.  Drawing is part of every step
(`Show`, `Stay`): drawing the Create tab opens its form.

**`OrderEntry`** - the order form and the take popup in detail.  A text is what its
parsers make of it: a number, blank, junk, one and a half.  The same form is read
by `field_status`, `validate`, the details, the preview, the confirmation and
`send_new_order`; each is an operator of its own.  Popups and results of every
sort come over the form (`Cover`, `handle_operation_result`).

**`ListPanes`** - the five tabs that are lists, every key that moves in them or acts
on the highlighted row, and the popups about a row.  A turn of the main loop has
three phases (`turn`): input, the repairs of selections and lists (`Settle`), the
frame (`Draw`); background tasks insert, move and remove rows between any two.
`frame` is what the user last saw, `did` what the key of this turn did.  `Only` filters
a list; it is a recursive function of the length, so that one can prove what it returns.
**`Attachments`**, which it extends, has the files: the sending flag, the tasks, and
the uploads kept for a retry.

**`Database`** - `init_db` and `migrate_db` statement by statement: the file, its
tables, the user; the column checks, the one transaction that adds what is
missing, the obsolete column dropped by `ALTER TABLE` or, on an old SQLite, by
rebuilding the table in a transaction.  `staged` is the open transaction's view,
`todo` the set of columns it has still to add.
Once the program runs, `ReadUser`, `UpdateIndex`, `CommitIndex` are the three
statements of `reserve_next_trade_index`; `stale` and `writer` are what WAL mode makes of
concurrent transactions (a snapshot is refused the write lock after any
commit); a rotation holds the lock while it writes the settings.  `Stop` may come
between any two statements.  `known`, `handed` and `completed` are history.

**`...Proofs`** - the theorems (section 5).

## 3. Runs

| Run | Question | Bounds | States, time |
|---|---|---|---|
| `status` | can a chain of accepted statuses lead back? | 5 writes: the rank has 6 values, every pair of the 17 statuses is met at depth 2 | 9,400, 2 s |
| `listener` | do row, Messages row, card, Enter, chats, popups, subscription stay in step through a crash or an abort at any await; is nothing missed; does the listener catch up? | fourteen conversations, one restart, one respawn in seven of them, at most 2 messages unread | 1.1 million, 140 s |
| `router` | do keys, subscriptions, bindings and waiters stay in step? | three sessions of one or two requests, a waiter table of one, four subscriptions per listener, up to two troubles in a session | 434,000, 25 s |
| `book` | do listings age; do book and rows end as the relays say? | three orders, two of the user's; a list request reaches one event, a tick asks for one row; one respawn | 197,000, 40 s |
| `disputes` | do row and list end as Mostro decided, and do the chats stay? | one dispute, two tasks, one reload or crash | 673,000, 170 s |
| `chat` | is every message kept and shown once? | one chat, four messages (peer, peer by an old client, ours, a stranger), caps of 1, one fault besides a line of ours that is not saved, one respawn or restart | 1.2 million, 80 s |
| `session` | do stopped tasks come back? | two instances, one rotation, three faults | 23,000, 3 s |
| `terminal` | does each wait have an answer; does a question stay? | two tasks of a kind in flight, two messages | 48,000, 17 s |
| `form` | is what is shown what is sent; is the draft kept? | one text of every sort a parser tells apart per field, two requests in flight, amounts on and around every limit | 2.4 million, 110 s |
| `panes` | does a key act on what the user saw; is one file sent at a time? | up to three rows in each of five tabs, two files | 1.8 million, 75 s |
| `database` | does the file survive its migrations; is a key handed out twice? | a first start or one of four older files, four SQLite versions, two stops, two tasks, one rotation | 344,000, 20 s |
| `panic` | the sentence of section 6 the code does not keep | the one conversation that shows it | violation |

Why the bounds are enough.  One restart is enough for `listener` because
`Restart` forgets everything but the row, and the rows it can start from are those
any prefix of the conversation leaves; TLC reaches those by running the prefix.
A listener two behind is enough for a message to be overtaken by its successor;
`Redelivered` may hand it all published messages at once after a restart.  A
respawn is left to seven conversations because it multiplies with what lives on:
one of each way a take ends, the two whose listing goes back, a sale that goes on and
one that an admin cancels.

A waiter table of one is enough to fill it: the second take of an order may
register while the first still waits for a reply under way; the code's cap is 32.
Two troubles let a subscription fail after a respawn and a respawn follow a
failure.  No session opens a fifth subscription of one listener: the states are
the same with `MaxSubs` 4 and 5.

`FetchLimit` 1 in `book` makes a snapshot miss orders, which is what the targeted
requests are for, and two rows with one request a tick make the cursor turn.  With
one dispute the cursor of `disputes` has nothing to turn over: its rotation is
exercised in `book` only, by code of the same shape.  The caps of `chat` are the
smallest that fill; the code's are 4096 ids, 128 updates and a burst of 60 per chat, and a
fetch of history is further limited to 100 events and 7 days, which is not modelled.

In `database` a first start and an older file are separate initial states; the
oldest lacks every column, the newest only has the obsolete one to lose.  Two
stops cut off one start in a migration and the next one again.  Two tasks and a rotation
are three writers, enough for one to commit between another's read and write.

What each property would catch is in the comment above it; each is paired in
`PROJECT.json` with a mutation of the code that breaks it.

Fairness.  `TradeDm`: weak fairness of the listener's own steps, of the
create/take task and of the main loop's handling of results.  Tokio polls a ready
task, and none of these steps is ever disabled by another task once it is enabled
for good.  `OrderBook`, `AdminDisputes`: weak fairness of scheduler, listener,
tasks and main loop; strong fairness of the relay's answers, since a tick asks again
every 30 s and an attempt may fail in between: a relay that is asked again and again
answers at some time.  `Session`: the monitor's ticks, the retry timers and the main
loop; nothing makes the user press a key and nothing brings the connection back, so
`SessionReturns` says so in its premise.  `Terminal`: a task always answers, since
`wait_for_dm` times out.  Nothing is assumed of Mostro, of the user, of
notifications, faults, restarts or reloads.

Assumptions about Mostro (`ReplyComesFirst`, `ClosingOrderHasEnded`): a listing
does not return to the book before the take of it, or its creation, is stored;
an order sent along with a cancel has ended; a refusal and a payment request carry
no bare order.  The proofs use them; TLC evaluates them on every run.  The theorems
about the end of a trade suppose more of a conversation, as named hypotheses: what
ends the user's part is said last, and after the order is stored (`EndComesLast`); a
trade told to have succeeded is not told to have failed (`OneOutcome`); a listing goes
back to the book only from a take that never became active (`LostBeforeActive`); a
solver takes the dispute of an order that is stored, and of no take that is lost
(`DisputesAreStored`).  They are facts about the daemon, not about this repository, and
the fourteen conversations satisfy all of them (`SomeTradesEnd` in `MCTradeDm`).

The theorems about cards, rows and popups name theirs, which `SomeTradesAgree` in
`MCTradeDm` evaluates over the same conversations:

| Hypothesis | What it says of a conversation |
|---|---|
| `OrdersNameTheirStatus` | an order sent along has a status, a refusal carries no order, a `NewOrder` is a listing; bond payouts and orders without their invoice are left out |
| `RepliesAgree` | the first messages to a take speak of the status its reply stores |
| `TwinsAgree` | two messages of one action and second speak of one status |
| `TakesAreRespawned` | the bound `Respawned` of the model contains takes only |
| `RespawnedMoveForward` | where the listener is respawned, times and statuses follow the order of the messages, payment requests carry an invoice, and only a take that never became active is lost |
| `OneStatusPerPhase` | an invoice, or a bond, is asked for in one status only |
| `SidesAgree`, `RatedTradesSucceed` | the buyer gives the invoice and the seller pays, the other side waits; only a trade that succeeds is rated |
| `AfterFiat` | once the fiat is confirmed, messages confirm it again, end the trade or are about the rating |
| `OutcomesAreTold` | confirmed fiat says `FiatSent` or `Success`; the success is told before the rating; a canceled trade is not told to be settled |

Without `RespawnedMoveForward` the rows need not agree: an abort between the row's write
and the card's leaves them apart, and what is delivered again mends that only if the
guard lets it pass.

## 4. Abstractions

* Trade keys, invoices, texts are left out; a payload is one of eight kinds.  Time
  is the rumor's second.
* `Redelivered` over-approximates the widened cursor of a resumed subscription:
  the code goes back three days, the model to the first message.
* The relay delivers what is published to a live subscription in any order and
  may be slow, but not twice within one subscription (the client deduplicates
  event ids).
* Decryption failures and failing database calls are not modelled in `TradeDm`; a
  failed startup fetch is.
* `DmRouter` assumes that the client's notification stream hands a stored event
  to a subscription made after a respawn, and it lets each live subscription
  of a key deliver or drop an event.  The user's own requests echoed by the
  relay and the waiters of admin commands are left out.
* `OrderBook`: the relays agree on the newest event of an order; parsing of tags is data.
* `AdminDisputes`: `AdminDispute::new` fails without the parties' keys; that is data.
* `ChatRouter` has one kind of chat at a time, a user's or an admin's.  The user's
  chat with a solver runs through the peer chat's code and has no variable of its own.
* `Session`: with `BadRelay`, a relay of the settings that the client refuses makes a
  reload, and then the next start, fail; the run has it `FALSE` (section 6).
* `Terminal`'s tasks always answer; a panicking one does not (section 6).
* `ListPanes` knows that text was typed, not which; the set of trades with a solver is fixed.
* `Database` leaves out the columns every release has had, and takes each file of an
  earlier release to have the three tables and a user.
* A purge of history rows by the user is one order at a time.

## 5. Proofs

All theorems hold for every value of the constants that satisfies the named
assumptions, and for `TradeDm` every conversation that satisfies the hypotheses the
theorem names.  Type correctness is proved, and is part of the inductive invariants;
the runs spend their properties elsewhere.

`TradeDmProofs` starts with the guards: `TransitionTransitive` (the guard composes),
hence `HistoryForward`, and `OutcomeStays`.  The inductive invariant of the former is
the property itself together with the typing of `past`; transitivity is what
lets the step compare with the last status only.  Then the listener:

* `TypeCorrect`, and the inductive invariant `IInv`, a conjunction of named parts about
  the program counter: what the snapshot, the base of an upsert and the row have to do
  with the row at the time the message was received (`Progress`), that a terminal message
  leaves a terminal row (`LiveOrderIsTracked` needs it at `Cleanup`), and what the inbox
  may hold while the task has not saved (`Control`).  `NeverBackward` alone is not
  inductive: between the upsert and the restore the row *is* in an earlier phase, and
  only the snapshot taken before knows where to return to.  `NeverBackwardHolds` and
  `LiveOrderIsTrackedHolds` follow.
* `DeadOrdersAreReleased` from `EndInv`.  "Ended and not subscribed" is not inductive
  either: the message that ends a trade kills the row some awaits before it ends the
  subscription, and a queued `TrackOrder` would begin it anew.  `DeadAtEnd` says that
  only the last message kills the row and that its handling is not over, `NothingQueued`
  and `MissingIsUntracked` that nothing tracks the order behind it, `OwnRows` whose
  listing the row is, and `NoSuccess` that a trade which fails never stores a success,
  over which the guard would let nothing pass.
* `NothingIsMissed` from `KeptInv`: the newest message is to be delivered, or being
  handled, or handled, through any abort (`NewestKept`).
* `EndIsRecorded` from `EndInv`, `RecordedInv` and `LossInv`: how the handling of the last
  message leads to a row that has ended or is gone (`EndIsStored`, `LossIsHandled`), and
  that whatever is delivered after it brings nothing back (`EndIsHandled`,
  `LossIsRecorded`).  The Messages row takes part, since its status guards the write
  (`ShownIsStored`, `NoSuccessShown`), and so does a row being deleted (`DeletedIsGone`).
* `ChatsAreForLiveOrders` from `ChatInv` with the others.

Then what the user sees.  `Live` is the stored order that is still the user's part of
the conversation: neither deleted nor a lost take come back as a listing.

* `PopupsKeepTheirPhase`: a message of another phase opens no popup, but one of the same
  phase under another status could, so whatever row, card, snapshot and upsert hold was
  told by the conversation (`ToldInv`), and a popup was opened in a phase its message
  allows (`OpenedInPhase`).
* `CardAndEnterAlwaysAgree`, but for `LabelOnlyActions`: the sides of card and remembered
  card are the user's
  (`SidesInv`), and an action on the card was said by Mostro (`ActionSaid`).  `LifeInv`
  says when a row is live at all: nothing happens before the reply is stored, a row keeps
  its owner, a deleted order stays deleted.
* `RowsAlwaysAgree` from `RowsInv`.  That the card shows the row's status is not
  inductive: the row is written some awaits before the card, and an abort in between
  leaves the two apart for good, if nothing is delivered again.  `RowFollows` compares
  the card with the status the row had when the message was looked at (`Judged`), and
  where they differ names a message still to come that `Repairs` it: a newer one, or one
  whose status both sides accept.  That such a message exists after an abort is
  `RedeliveredRepairs`; for a row without a cursor, which is given the newest message
  only, `NoCursor` says that neither row nor card is ahead of that one.  `Settings` are
  ten facts these need, among them that status and twins of the card were said
  (`CardSaid`), that the card remembered under the lock is still the card
  (`PriorIsShown`), and that the placeholder made of a reply fits the row
  (`PlaceholderFits`).  A maker's order must not have been deleted: a listing that is
  deleted while its `NewOrder` is handled is stored anew beside the old card.
* `TimelineMovesForward` adds that a card that tells of confirmed fiat or of the rating
  comes from a published message (`CardTold`), and that the kind of the trade does not
  get lost between the card looked at and the card replaced (`CardStands`).  `ColumnsGrow`
  is the lemma about the two step tables: where the guard lets a status go, the
  highlighted column is no earlier one.  It speaks of behaviours in which the order is
  awaited or live throughout.
* `CardAlwaysSettles`: the card is compared with the row by `RowsInv`; what remains is
  that a card telling of an end shows a status that goes with it (`EndsShown`), and that
  the success behind a rating is stored.  `SuccessKept` carries that from the message to
  the end: a handled success is stored or will be handled again, since a message that was
  handled has left its time in the row (`SeenIsStored`), what ends the trade is written
  before it is forgotten (`OutcomeIsWritten`), and no listing is reverted that had ended
  (`RevertedIsOpen`).

`DmRouterProofs`: `TypeCorrect`, `KeySubIsLiveHolds`, `WaiterIsHeardHolds`,
`RefusedOnlyWhenFullHolds`, from the assumptions on the requests (a request's key and
order exist, a take names an order) and `NoneAssumption`.  `KeySubIsLive` needs to
know that the end of an order takes away only its own key's subscription: what a
delivery came over serves the delivery's key or none (`DeliveriesServed`), also
after ids are given out anew (`UnopenedIsDead`).  `WaiterIsHeard` needs that nobody
waits for the key of the event under way (`NobodyWaitsForCur`), which holds
because an event satisfies every waiter of its key, whatever it answers, and
because no waiter is registered between waiters and order.  That a channel never
opens again under a waiter that was given up is `WaitersRegistered` and
`QueuedRegistered`; they also make the waiters that survive pruning the ones that
really wait, which is `RefusedOnlyWhenFull`.

`StoredOrderIsHeardHolds` rests on `HeardInv`.  A stored order is heard, or the command
or the startup step that will bind it is still to come, or its command was lost
(`StoredIsHeard`).  To keep that, no other order may take its binding: bindings of an
order under an earlier key, and commands that would make them, come from requests that
were begun before (`OpeningInv`, `ForeignInv`); and a subscription that is gone is gone
because its trade has ended, since a key has one subscription until then
(`DeliveryInv`).

`OrderBookProofs`: `BookListsOnce`, `BookNeverAges` from `BookInv` = `EventsTyped`
and `RelayInv` and `ListedOnce` and `SnapshotInv`.  That a snapshot replaces a
listing by no older one needs that it was taken from the relays after every event
the book had taken in and that live updates wait until the tick is over
(`SnapshotInv`), and that relays keep the newest event of an order (`RelayInv`).

`AdminDisputesProofs`: `DisputesEndAsDecided` from `DisputesInv`: typing, and that
every place an outcome passes through tells the truth - the views
(`ViewsTruthful`), the events under way (`EventsTold`), requests and answers
(`RequestsTrue`), and what a task is about to write (`WritersTrue`).  The
property alone says nothing of a task that holds an answer and has not written it.
`OpenDisputesHaveChats` adds `ChatsInv`: the scheduler ends the chats of disputes that
have ended only (`TodoIsTerminal`), and Mostro's decisions are final.

`TerminalProofs`: `SessionTyped`; `NeverBlind` under the hypothesis that no relay is
refused (`BadRelay = FALSE`); `TerminalTyped`; `WaitsAreAnswered` under the hypothesis
that Mostro acknowledges a bond payout with `AddInvoice` or `WaitingBuyerInvoice`;
`QuestionsSurvive`.

`DatabaseProofs`: `KeysAreNew` from `KeysInvariant`.  The counter alone does not show
it, since a task reads it before it writes: a reader whose snapshot is current
holds the counter's value (`ReadIsCurrent`), a writer holds the lock and a free
index (`WrittenIsFree`), what was handed out lies below the counter or under an
earlier mnemonic (`HandedBelow`), and a rotation has a newer one (`SeedsFresh`).
`FilesSurvive` from `FileInv`: between two statements of a migration the file on the
disk has its rows and its user (`FileKept`, `UserKept`), what the open transaction would
leave is usable and lacks only the columns it has still to add (`StagedKept`), and
after it no column is missing (`TablesComplete`).

`OrderEntryProofs`: `FormHasOneVersion`, `ReadyGoesOutAsShown`, `DraftsAreKept`,
`TakesAreWithinRange`, from `EntryInv` = typing, one version of the form among screen,
request and draft, and that a form being sent is kept (`SentIsKept`).  The second needs
lemmas about the readers of the form: where `validate` finds nothing, details, preview,
confirmation and request read the same, except a blank premium (section 6).

`ScreenProofs`, the lists: `KeysActOnShown`, `HighlightsStay` from `PanesInv`, which says that
between frame and key the highlighted row is the one the frame told (`FrameTold`);
`UploadsAreAlone`, `UploadsAreKept` from `FilesInv`, which orders the uploads by when
they were picked (`PickedInOrder`, `KeptIsOlder`) and says that no picker is open while
a file is sent (`PickerWaits`).  What `Only` returns is proved by induction: the least
position at which a statement fails contradicts it (`Least`, `SetInduction`, from the
well-foundedness of the naturals).

`ScreenProofs`, the chats: `FilesAreTranscripts`, the refinement of `ChatTranscript` by
`ChatRouter`, `ScreenIsTranscriptHolds`, both from `ChatInv`, and `NothingIsLost`.  That a file is a
transcript is not inductive alone, since an attachment rewrites the file from what is
shown (`Upgraded`), and what is shown may have lines the file lacks.  `ChatInv` says that
in an open chat every line of the file stands on the screen, in the same order, and that
what the screen has besides is an admin's own line or one the file keeps in another form
(`Places`); that neither has a line twice (`Distinct`); and that both have only what the
parties wrote or an older version's placeholder of it (`Told`).  `Grows` is the step of
the abstract file; it composes (`GrowsOn`), so the messages of an update are taken one by
one, by induction (`UpdateApplied`).  Of a chat that
is forgotten it says less: its file only ever gets longer (`Extend`).
Two hypotheses: attachments have names that are
not wrapped, and nobody types what reads like the placeholder of one (`NamesAreClear`), as
a wrapped placeholder would not be recognised and a typed one would be taken for one;
and no two messages of ours in a chat have the same words and second (`OwnLinesDiffer`):
the file takes such two for one when they stand next to each other and keeps both
when a line of the other party stands between them.  The instance that TLC checks
satisfies both.

`NothingIsLost`, of `ChatLosesNothing`, adds `KeptInv`.  The property speaks of quiet
states, so the invariant must say where each message of the other party is in the others
(`Accounted`): one whose id was recorded on disk is in the file; one whose id the router
has let through was passed on, which is to say that it is in the file, in the channel, or
among those a counted failure took (`Passed`); and one that is due was passed on, or
belongs to a history still to be fetched (`ToFetch`), or waits in the subscription and
would not be refused as seen (`ToRead`).  That holds of what is published next
only if each tracked chat is subscribed to, or is known not to be, or has its subscription
and history still ahead (`AllHeard`).  A message taken for a line the screen shows is in
the file only if what the screen shows of the other party is (`PeerKept`), which is where
`ChatInv` and its hypotheses come in.  An untrack between two tracks, a respawn and a
restart all begin a chat anew: the ids the router trusts from then on are those on
disk (`CmdsBooked`, by induction over the commands taken together).  `lost` counts the
failures one by one (an envelope not fetched, a full channel, the rate limit, a lagging
receiver, a failed write or subscription), and a chat tracked anew gives its share back.

Only model-checked: liveness (`EventuallyCaughtUp`, `BookConverges`, `RowsFollowRelay`,
`DisputesClose`, `SessionReturns`, `WaitEnds`), which is out of the prover's reach.  Every
invariant and every action property of the passing runs is stated by a theorem.

## 6. Where documentation, comments and code disagree

With a run:

* `NoPanic` - `util/dm_utils/notifications_ch_mng.rs:15-17` guarantees a Messages
  row that the listener may already have removed when line 54 expects it.

The models reach the following; the code does it, so no property is stated of it.

Trade DMs and requests
* `docs/DATABASE.md:235` says stale messages do not move an order back; a
  redelivered `NewOrder(pending)` reverts a listing that has found its second taker
  (`util/dm_utils/mod.rs:615`).  `NeverBackward` excepts exactly that.
* `docs/DATABASE.md:237`: a lost take whose row was dropped by the silent replay is
  stored as an own listing by the redelivered message (`mod.rs:645`).  `RowsAgree`,
  `CardSettles` and `CardAndEnterAgree` except that row (`StoredAnew`): older messages that
  come again are read from the maker's side, so Enter opens an invoice popup where the
  banner says to wait.
* A row whose cursor was never stored (its first message was handled before `save_order`)
  is caught up after a restart with the newest message alone (`dm_helpers.rs:53`,
  `limit(1)`); if that names no phase (`Rate`), row and card stay at the phase before.
  `CardSettles` is stated of orders whose every message was handled.
* `docs/DM_LISTENER_FLOW.md:202`: a `CantDo` replaces the Messages row; after a
  respawn that lets a popup of the phase before open again.
* Deleting an ended listing of the user's own while its republished `NewOrder` is handled
  stores it anew (`mod.rs:645`) beside the card of the deleted one; `RowsAlwaysAgree` and
  `CardAlwaysSettles` except it.
* A refusal or a dispute after `FiatSentOk` moves the timeline from step 5 back to 4
  (`AfterFiat` leaves it out); a rating asked for after an admin's settlement opens on
  Enter under a banner that says "done" (`RatedTradesSucceed`).
* An invoice request delivered again once the hold invoice is settled opens the old popup,
  as both statuses allow it (`OneStatusPerPhase`); a bond payout asks for its invoice after a
  cooperative cancel.
* A payment request without an invoice that is the newest message ends before the card
  is written (`mod.rs:918`); after an abort it leaves row and card apart.
* `helper.rs:205-209` calls the strict guard an advance; equal ranks replace each other.
* `mod.rs:322` and `docs/MESSAGE_FLOW_AND_PROTOCOL.md:717` say that a waiter is
  registered before the request is sent; it is only queued (`mod.rs:351`), and a
  busy listener subscribes after the reply has passed.
* `docs/DM_LISTENER_FLOW.md` says a maker's pre-active cancel reverts or removes the
  row; the code writes `Canceled`.
* The end of an earlier take, handled late, removes index and row of a later take of
  the same order (`mod.rs:1280`); a deleted order that had completed keeps its chat
  subscription; deleting an order while one of its messages is handled leaves a
  Messages row without a database row; the child key of a range order's `NextTrade`
  is never subscribed to (`execute_send_msg.rs:19-28`); a request refused at the cap
  of waiters is still sent; a `TrackOrder` sent on the channel of a replaced
  listener is lost (`deaf`).

Keys, settings, session
* `docs/KEY_MANAGEMENT.md:7` says database and settings stay in sync; a setting saved
  while a rotation runs is overwritten, and a rename that fails after the commit
  leaves another key in the settings (`async_tasks.rs:1135-1170`).  A task in flight
  across a rotation saves an order under the old mnemonic into the table the rotation
  has just cleared of them.
* `docs/DATABASE.md:51-55` calls the migrations atomic and safe; they are, for a file a start
  has completed (`DatabaseSurvives`).  A first start cut off between `File::create`
  (`db.rs:43`) and the tables, or before the user, leaves a file every later start refuses.
* A fetch reload that fails and a key reload that fails after it leave no tasks
  (`async_tasks.rs:604`), and the next start refuses the same relay; the comment at 643
  speaks of a retry.  The popup with rotated keys may be replaced by another, and the
  reload due at its closing never comes.  A retry that reports `Online` clears the
  overlay while offline.
* `async_tasks.rs:768` says every chat resubscribes after a reload; a dispute taken and
  not listed yet does not.

Terminal
* After a bond payout invoice, replies other than `AddInvoice` and
  `WaitingBuyerInvoice` leave a waiting mode no request answers
  (`notifications_ch_mng.rs:246`, against `docs/MESSAGE_FLOW_AND_PROTOCOL.md:627`); the
  popups of a bond reply are not those the comment at 210-211 names.
* Delete, Ctrl+Delete and Shift+V on My Trades look at no mode and replace a waiting
  one; the second submit that `key_handler/mod.rs:131-134` rules out is then possible.
* An unsolicited message may answer a waiting request, whose acceptance is then reported
  as failed.

Order form
* Enter never validates (`docs/TUI_INTERFACE.md:255`).  An amount that is no number is
  shown as typed and sent as market price; `"150.5"` on a range take is green and sent
  without an amount (`user_handlers.rs:67-75`); a blank premium counts as ready, previews as
`? premium`, is confirmed as `%` alone (`order_confirm.rs:143-149`) and is sent as 0, which
only the details show (`ReadyIsSentAsShown` excepts it in preview and confirmation);
  a blank expiry is one day in the details; a negative expiry passes `send_new_order`
  and an enormous one panics the task, which then never answers.
* Any result popup replaces a form being typed; submitting clears the draft
  (`docs/TUI_INTERFACE.md:165, 356`) only when no popup replaced the wait, and with two
  orders in flight the first success clears the second's draft, whatever
  `enter_handlers.rs:449-451` says.

Lists, chats, card
* `docs/MESSAGE_FLOW_AND_PROTOCOL.md:336` and `docs/TUI_INTERFACE.md:406`: where a list is
  selected by index, a row that comes or goes between frame and key makes the key act
  on another (`ActsOnShown` says where it cannot).  An arriving message moves its row to
  the front and Enter opens another; My Trades highlights a clamped index and looks up an
  unclamped one.
* With no explicit selection a dispute just taken is highlighted under typed text; an
  arriving file changes dispute and party under it (`startup.rs:790`); a message to the
  solver of a trade without one is kept as sent and delivered to nobody.
* A later success on the same trade drops the kept upload of another file; retry entries
  survive the deletion of the history.
* A rate-limited chat event is not looked at again until the chat is tracked anew; one
  envelope fetch that fails hides its share of the history; an admin's message before the
  dispute is listed is dropped with the cursor past it ("later delivery can retry",
  `startup.rs:476`).
* When Mostro's last message is a `FiatSent`, or a `Release` of an order that has not
  succeeded, the banner asks the buyer to confirm the fiat, the seller to release
  (`ui/orders.rs:1012-1029`); Enter opens the label only (`enter_handlers.rs:1163-1208`), as
  `docs/TUI_INTERFACE.md:306` has these two triggered from My Trades.  `CardAndEnterAgree`
  excepts the two actions.
* Two takes of one dispute in flight both go on with the first answer
  (`execute_take_dispute.rs:57-99` sends no request id and compares the dispute's id only);
  the second may put an ended dispute back in progress (`models.rs:896`) until the next
  reconciliation (`DisputesClose`).
* An update of a user's chat that is queued when the chat is untracked is still shown and
  appended (`startup.rs:481-638`; the admin's side drops those of an unlisted dispute,
  `startup.rs:690-716`).  Once the order is deleted from the history
  (`order_ch_mng.rs:77-86`) the screen no longer tells a duplicate, and a line delivered
  again whose id was not recorded is written a second time.
* A `PayBondInvoice` without an order leaves a row without a kind, and the timeline then
  shows step 3 where `docs/MESSAGE_FLOW_AND_PROTOCOL.md:534` and `docs/TUI_INTERFACE.md:292`
  highlight none.  `AdminTookDispute` replaces the row, and the banner no longer says
  that there is a dispute.  After a restart an older message with a later status may
  move the timeline back until the replay is over.

Found by reading, outside the models: an in-flight whole-row upsert may overwrite
`Dispute` by `Active`, and nothing restores it; a dispute task may write `Dispute` over a
terminal status; resynchronising the history after a deletion overwrites live Messages
rows (`startup.rs:430`); a late bond reply writes its status unguarded.

## 7. Not modelled

* What the later requests (cancel, dispute, rate, add invoice) write to the order row
  from their own tasks: most of it is the kind of unguarded write just listed, of which
  hardly a property holds.  Their requests, replies, keys and waits are in `DmRouter`
  and `Terminal`.
* Widgets, layout and colours; what a frame *says* is in `ListPanes`, `OrderEntry` and
  `TradeCard`.  The observer tab, adding a solver, the admin's settings popups, paste.
* Parsing of order tags, of instance info and of settings values; validation of single
  values; key derivation; encryption and signing; HTTP; saving a received file.
* Logging, splash screen, single-instance checks.

## 8. Plan

1. A second take of one order told apart from the first in rows and indices: composition
   of `DmRouter` and `TradeDm` for one order id with two keys.
2. The later requests' writes, composed with `TradeDm`, for the properties that hold
   of conversations without a dispute.
3. Proofs: the theorems about the card without `TakesAreRespawned`, for which the bound
   `Respawned` would have to include listings.
4. An abstract book (the pending orders by their newest event) that `OrderBook`
   implements between two ticks.
