----------------------------- MODULE OrderBook -----------------------------
(***************************************************************************)
(* The order scheduler: one task that keeps the public order book and the  *)
(* statuses of the user's own order rows in line with the order events     *)
(* Mostro publishes on the relays.                                         *)
(*                                                                         *)
(* The task runs one select loop.  A tick fetches the newest events, moves *)
(* rows to terminal statuses, replaces the book, and then asks the relays  *)
(* for a few of the user's open orders by id, round robin.  Between ticks  *)
(* it applies the events of a live subscription.  Every database read and  *)
(* write, and every relay request, is an await: the DM listener writes the *)
(* same rows meanwhile, and a reload may abort the task there.             *)
(*                                                                         *)
(* An order event is a record of its order, its status and its time; a     *)
(* relay keeps the newest one of each order (they are replaceable).        *)
(***************************************************************************)
EXTENDS OrderStatus, Sequences, SequencesExt, FiniteSets

CONSTANTS
  NumOrders,   \* orders 1 .. NumOrders, sorted as the database sorts their ids
  Mine,        \* the user's own: they have a row and get messages
  MaxPerTick,  \* TARGETED_RELAY_RECONCILE_MAX_PER_TICK
  FetchLimit,  \* MOSTRO_LIST_FETCH_EVENT_LIMIT
  Endings,     \* the terminal statuses Mostro gives orders here
  Filters,     \* the currency filters, each as the set of orders it lets through
  MaxTime,     \* bound: time of the last event Mostro publishes
  MaxReloads   \* bound: times the scheduler is respawned

Orders == 1 .. NumOrders

ASSUME OrdersAssumption  == NumOrders \in Nat /\ Mine \subseteq Orders
ASSUME LimitsAssumption  == MaxPerTick \in Nat \ {0} /\ FetchLimit \in Nat \ {0}
ASSUME EndingsAssumption == Endings \subseteq TerminalTradeStatuses
ASSUME FiltersAssumption == Filters \subseteq SUBSET Orders /\ Filters # {}
ASSUME BookBounds        == MaxTime \in Nat /\ MaxTime >= NumOrders /\ MaxReloads \in Nat

VARIABLES
  relay,    \* the newest event of each order, as the relays keep them
  clock,    \* time of the last event published
  notes,    \* events the live subscription may still hand over, in any order or never
  dms,      \* <<order, status>> messages the DM listener has still to handle
  rows,     \* status column of the user's order rows
  hand,     \* status write the DM listener has decided on and not made, if any
  book,     \* the shared vector of pending orders, as a set
  phase,    \* where the scheduler task is
  snap,     \* the events it is working from
  todo,     \* those of them whose row it has still to look at
  rec,      \* status write it has decided on and not made, if any
  queue,    \* ids left to ask for in this tick
  cursor,   \* targeted_reconcile_cursor
  filter,   \* currency filter the task was spawned with
  reloads

task == <<phase, snap, todo, rec, queue, cursor>>
plan == <<queue, cursor>>
config == <<filter, reloads>>
vars == <<relay, clock, notes, dms, rows, hand, book, task, config>>

\* Statuses Mostro gives its order events and its messages to the user.
RelayStatuses == {"Pending", "InProgress"} \cup Endings
DmStatuses    == {"Active"} \cup Endings

Events == [order : Orders, status : RelayStatuses, ts : 1 .. MaxTime]
Writes == [order : Mine, status : RelayStatuses \cup DmStatuses]
Phases == {"idle", "snap", "list", "target", "live"}

Of(o, events) == {e \in events : e.order = o}
Terminal(events) == {e \in events : is_terminal_trade_status(e.status)}

\* The relays answer a list request with the newest events only.
Newest ==
  {e \in relay : Cardinality({x \in relay : x.ts > e.ts}) < FetchLimit}

pending_orders_for_book(events) ==
  {e \in events : e.status = "Pending" /\ e.order \in filter}

\* Rows that may still need a terminal status, in the order of their ids.
list_ids_for_targeted_relay_reconcile ==
  SetToSortSeq({o \in Mine : ~is_terminal_trade_status(rows[o])},
               LAMBDA a, b : a < b)

-----------------------------------------------------------------------------
(* Mostro.                                                                 *)

MayFollow(old, new) ==
  CASE old = "Pending"    -> new \in RelayStatuses
    [] old = "InProgress" -> new \in {"Pending"} \cup Endings
    [] OTHER              -> FALSE

\* The messages Mostro may send the user along with the event.
Tells(o, status) ==
  IF o \notin Mine \/ status = "Pending" THEN {}
  ELSE {<<o, IF status = "InProgress" THEN "Active" ELSE status>>}

\* A pending order may be published again; not every end is told to the user,
\* and not every message arrives.
Publish(o, status) ==
  /\ clock < MaxTime
  /\ \E e \in Of(o, relay) : MayFollow(e.status, status)
  /\ LET e == [order |-> o, status |-> status, ts |-> clock + 1]
     IN  /\ relay' = (relay \ Of(o, relay)) \cup {e}
         /\ notes' = notes \cup {e}
  /\ clock' = clock + 1
  /\ \E told \in SUBSET Tells(o, status) : dms' = dms \cup told
  /\ UNCHANGED <<rows, hand, book, task, config>>

-----------------------------------------------------------------------------
(* The DM listener, the other writer of the rows.                          *)

\* The DM listener reads the row and decides; messages come in any order.
ReadForDm(o, status) ==
  /\ hand = {} /\ <<o, status>> \in dms
  /\ dms' = dms \ {<<o, status>>}
  /\ hand' = IF should_apply_status_transition(rows[o], status, "buy")
             THEN {[order |-> o, status |-> status]} ELSE {}
  /\ UNCHANGED <<relay, clock, notes, rows, book, task, config>>

\* ... and writes what it decided.
WriteForDm ==
  /\ \E w \in hand : rows' = [rows EXCEPT ![w.order] = w.status]
  /\ hand' = {}
  /\ UNCHANGED <<relay, clock, notes, dms, book, task, config>>

-----------------------------------------------------------------------------
(* reconcile_one_order_if_terminal, in the three places it is called from. *)

\* No row of the current call is being looked at, and none is left.
Reconciled == todo = {} /\ rec = {}

ReadRow(e) ==
  /\ e \in todo /\ rec = {}
  /\ todo' = todo \ {e}
  /\ rec' = IF e.order \in Mine /\ should_apply_status_transition(rows[e.order], e.status, "buy")
            THEN {[order |-> e.order, status |-> e.status]} ELSE {}
  /\ UNCHANGED <<relay, clock, notes, dms, rows, hand, book, phase, snap, plan, config>>

\* Order::update_status: whatever the row says by now.
WriteRow ==
  /\ \E w \in rec : rows' = [rows EXCEPT ![w.order] = w.status]
  /\ rec' = {}
  /\ UNCHANGED <<relay, clock, notes, dms, hand, book, phase, snap, todo, plan, config>>

-----------------------------------------------------------------------------
(* The 30 s tick.                                                          *)

\* Waiting for a tick or a live event.
Idle == phase = "idle" /\ Reconciled

FetchAnswered ==
  /\ Idle
  /\ phase' = "snap" /\ snap' = Newest /\ todo' = Terminal(Newest)
  /\ UNCHANGED <<relay, clock, notes, dms, rows, hand, book, rec, plan, config>>

FetchFailed ==
  /\ Idle
  /\ phase' = "list"
  /\ UNCHANGED <<relay, clock, notes, dms, rows, hand, book, snap, todo, rec, plan, config>>

\* Mutated: the snapshot is added to what the book lists already.
added == {e \in book : Of(e.order, snap) = {}} \cup pending_orders_for_book(snap)

replaced == pending_orders_for_book(snap)

\* The book is cleared and filled with the snapshot.
FillBook ==
  /\ phase = "snap" /\ Reconciled
  /\ book' = replaced
  /\ phase' = "list" /\ snap' = {}
  /\ UNCHANGED <<relay, clock, notes, dms, rows, hand, todo, rec, plan, config>>

-----------------------------------------------------------------------------
(* run_targeted_relay_order_db_reconcile_tick.                             *)

MinOf(a, b) == IF a <= b THEN a ELSE b

\* Mutated: the cursor is not moved.
StuckCursor(take, length) == cursor % length

AdvancedCursor(take, length) == (cursor + take) % length

\* The open rows are listed once per tick; the cursor of the last tick picks
\* where to start in the list as it is now.  The program stores the new one
\* when the tick is over; nothing reads it before, and an abort resets it.
ListRows ==
  /\ phase = "list"
  /\ LET ids  == list_ids_for_targeted_relay_reconcile
         take == MinOf(MaxPerTick, Len(ids))
     IN  IF ids = <<>> THEN phase' = "idle" /\ UNCHANGED <<queue, cursor>>
         ELSE /\ phase' = "target"
              /\ queue' = [i \in 1 .. take |-> ids[1 + ((cursor + i - 1) % Len(ids))]]
              /\ cursor' = AdvancedCursor(take, Len(ids))
  /\ UNCHANGED <<relay, clock, notes, dms, rows, hand, book, snap, todo, rec, config>>

\* Takes the next id; with the last one the tick is over.
NextId ==
  /\ phase = "target" /\ Reconciled
  /\ queue' = Tail(queue)
  /\ phase' = IF Tail(queue) = <<>> THEN "idle" ELSE "target"

AskAnswered(o) ==
  /\ NextId /\ Head(queue) = o
  /\ todo' = Terminal(Of(o, relay))
  /\ UNCHANGED <<relay, clock, notes, dms, rows, hand, book, snap, rec, cursor, config>>

AskFailed ==
  /\ NextId
  /\ UNCHANGED <<relay, clock, notes, dms, rows, hand, book, snap, todo, rec, cursor, config>>

-----------------------------------------------------------------------------
(* A live event.                                                           *)

Hear(e) ==
  /\ Idle /\ e \in notes
  /\ notes' = notes \ {e}
  /\ phase' = "live" /\ snap' = {e} /\ todo' = Terminal({e})
  /\ UNCHANGED <<relay, clock, dms, rows, hand, book, rec, plan, config>>

\* Mutated: an event replaces the listing whatever its time.
apply_live_order_update_any_time(e) ==
  LET others == {x \in book : x.order # e.order}
  IN  IF e.status # "Pending" THEN others ELSE others \cup {e}

apply_live_order_update(e) ==
  LET others == {x \in book : x.order # e.order}
      listed == book \ others
  IN  IF e.status # "Pending" THEN others
      ELSE IF \A x \in listed : e.ts >= x.ts THEN others \cup {e} ELSE book

\* The currency filter comes first: an event it holds back does not even
\* take its order off the book.
ApplyLive ==
  /\ phase = "live" /\ Reconciled
  /\ \E e \in snap : book' = IF e.order \in filter THEN apply_live_order_update(e) ELSE book
  /\ phase' = "idle" /\ snap' = {}
  /\ UNCHANGED <<relay, clock, notes, dms, rows, hand, todo, rec, plan, config>>

-----------------------------------------------------------------------------
\* A reload aborts the task at the await it is in and spawns another, with
\* the filter of the settings, a new cursor and a subscription that starts
\* now.  The shared vector is kept.
Reload(f) ==
  /\ reloads < MaxReloads
  /\ reloads' = reloads + 1
  /\ filter' = f
  /\ phase' = "idle" /\ snap' = {} /\ todo' = {} /\ rec' = {}
  /\ queue' = <<>> /\ cursor' = 0 /\ notes' = {}
  /\ UNCHANGED <<relay, clock, dms, rows, hand, book>>

\* The program starts with the rows of an earlier session and an empty book;
\* the orders are still pending.
Init ==
  /\ relay = {[order |-> o, status |-> "Pending", ts |-> o] : o \in Orders}
  /\ clock = NumOrders /\ notes = {} /\ dms = {}
  /\ rows = [o \in Mine |-> "Pending"] /\ hand = {} /\ book = {}
  /\ phase = "idle" /\ snap = {} /\ todo = {} /\ rec = {}
  /\ queue = <<>> /\ cursor = 0
  /\ filter \in Filters /\ reloads = 0

MostroNext == \E o \in Orders, status \in RelayStatuses : Publish(o, status)

DmNext ==
  \/ \E o \in Mine, status \in DmStatuses : ReadForDm(o, status)
  \/ WriteForDm

SchedulerNext ==
  \/ FetchAnswered \/ FetchFailed \/ FillBook
  \/ ListRows \/ AskFailed \/ ApplyLive \/ WriteRow
  \/ \E o \in Mine : AskAnswered(o)
  \/ \E e \in notes : Hear(e)
  \/ \E e \in todo : ReadRow(e)

Next ==
  \/ MostroNext \/ DmNext \/ SchedulerNext
  \/ \E f \in Filters : Reload(f)

Spec == Init /\ [][Next]_vars

\* The tasks keep running; a relay that is asked over and over answers at
\* some time.
Fairness ==
  /\ WF_vars(SchedulerNext) /\ WF_vars(DmNext)
  /\ SF_vars(FetchAnswered)
  /\ \A o \in Mine : SF_vars(AskAnswered(o))

FairSpec == Spec /\ Fairness

-----------------------------------------------------------------------------

\* The book lists an order once, with a revision that was published for it.
ListedOnce ==
  \A e, x \in book : e.order = x.order => e = x

\* What the user sees of an order never goes back to an older revision while
\* the order stays listed: not by a late event, nor by a snapshot that was
\* fetched before the rows were reconciled.
ListingsNeverAge ==
  [][\A e \in book, x \in book' : e.order = x.order => x.ts >= e.ts]_vars

\* Once Mostro rests, the book comes to show exactly the pending orders of
\* the newest events, and stays so: an order a live event removed and an
\* older one brought back, or one the filter of a reload hides, is put right.
BookConverges == <>[](book = pending_orders_for_book(Newest))

\* Every order of the user's that has ended on the relays has its row end the
\* same way, for good: also one that no snapshot reaches, and one whose row
\* the DM listener overwrote with an older status it had read for.
RowsFollowRelay ==
  <>[](\A e \in Terminal(relay) :
         e.order \in Mine => rows[e.order] = e.status)
=============================================================================
