-------------------------- MODULE OrderBookProofs --------------------------
(***************************************************************************)
(* Proofs about the order book the user sees: an order is listed once, and *)
(* the listing never goes back to an older revision, for any number of     *)
(* orders, any limits, filters and reloads, and any order of live events.  *)
(*                                                                         *)
(* The argument: nothing the program holds is newer than what the relays   *)
(* hold, and a snapshot is what the relays held when it was fetched; until *)
(* it fills the book, no live event is applied, so it is at least as new   *)
(* as the book it replaces.                                                *)
(***************************************************************************)
EXTENDS OrderBook, TLAPS

\* The relays keep one event of an order, and none from the future.
OneEach(events) == \A e, x \in events : e.order = x.order => e = x

\* What is held of an order is not newer than what the relays hold of it.
Superseded(events) ==
  \A e \in events : \E r \in relay : r.order = e.order /\ r.ts >= e.ts

EventsTyped ==
  /\ relay \subseteq Events /\ notes \subseteq Events
  /\ snap \subseteq Events /\ book \subseteq Events
  /\ clock \in 0 .. MaxTime

RelayInv ==
  /\ OneEach(relay)
  /\ \A e \in relay : e.ts <= clock
  /\ Superseded(notes) /\ Superseded(snap) /\ Superseded(book)

\* A snapshot that is to replace the book is not older than the book.
SnapshotInv ==
  phase = "snap" =>
    /\ OneEach(snap)
    /\ \A e \in book, x \in snap : e.order = x.order => x.ts >= e.ts

BookInv == EventsTyped /\ RelayInv /\ ListedOnce /\ SnapshotInv

LEMMA EventTimes ==
  ASSUME NEW e \in Events
  PROVE  e.ts \in Nat /\ e.order \in Orders
  BY BookBounds DEF Events

\* Later revisions are reached in any number of steps.
LEMMA Later ==
  ASSUME NEW a \in Nat, NEW b \in Nat, NEW c \in Nat, c >= b, b >= a
  PROVE  c >= a
  OBVIOUS

-----------------------------------------------------------------------------
LEMMA BookInvInit == Init => BookInv
  <1> SUFFICES ASSUME Init PROVE BookInv
    OBVIOUS
  <1>1. relay = {[order |-> o, status |-> "Pending", ts |-> o] : o \in Orders}
    BY DEF Init
  <1>2. /\ notes = {} /\ snap = {} /\ book = {}
        /\ phase = "idle" /\ clock = NumOrders
    BY DEF Init
  <1>3. \A o \in Orders : o \in 1 .. MaxTime /\ o <= NumOrders
    BY OrdersAssumption, BookBounds DEF Orders
  <1>4. relay \subseteq Events
    BY <1>1, <1>3 DEF Events, RelayStatuses
  <1>5. OneEach(relay) /\ \A e \in relay : e.ts <= clock
    BY <1>1, <1>2, <1>3 DEF OneEach
  <1>6. clock \in 0 .. MaxTime
    BY <1>2, OrdersAssumption, BookBounds
  <1> QED
    BY <1>2, <1>4, <1>5, <1>6
    DEF BookInv, EventsTyped, RelayInv, Superseded, ListedOnce, SnapshotInv

\* A new event of an order takes the place of the one the relays had.
LEMMA PublishStep ==
  ASSUME BookInv, NEW o \in Orders, NEW status \in RelayStatuses, Publish(o, status)
  PROVE  BookInv' /\ book' = book
  <1> DEFINE n == [order |-> o, status |-> status, ts |-> clock + 1]
  <1>1. /\ clock < MaxTime /\ clock' = clock + 1
        /\ relay' = (relay \ Of(o, relay)) \cup {n}
        /\ notes' = notes \cup {n}
        /\ book' = book /\ snap' = snap /\ phase' = phase
    BY DEF Publish, task
  <1>2. clock \in Nat /\ clock + 1 \in 1 .. MaxTime
    BY <1>1, BookBounds DEF BookInv, EventsTyped
  <1>3. n \in Events /\ n.order = o /\ n.ts = clock + 1
    BY <1>2 DEF Events
  <1>4. EventsTyped'
    BY <1>1, <1>2, <1>3 DEF BookInv, EventsTyped
  <1>5. OneEach(relay)'
    BY <1>1, <1>3 DEF BookInv, RelayInv, OneEach, Of
  <1>6. \A e \in relay : e.ts \in Nat /\ e.ts <= clock
    BY EventTimes DEF BookInv, EventsTyped, RelayInv
  <1>7. \A e \in relay' : e.ts <= clock'
    BY <1>1, <1>2, <1>3, <1>6
  <1>8. ASSUME NEW events, events \subseteq Events, Superseded(events),
               NEW e \in events
        PROVE  \E r \in relay' : r.order = e.order /\ r.ts >= e.ts
    <2>1. PICK r \in relay : r.order = e.order /\ r.ts >= e.ts
      BY <1>8 DEF Superseded
    <2>2. e.ts \in Nat /\ r.ts \in Nat /\ r.ts <= clock
      BY <1>6, <1>8, EventTimes
    <2>3. CASE e.order = o
      <3>1. n.ts >= e.ts
        BY <1>2, <1>3, <2>1, <2>2
      <3> QED
        BY <1>1, <1>3, <2>3, <3>1
    <2>4. CASE e.order # o
      BY <1>1, <2>1, <2>4 DEF Of
    <2> QED
      BY <2>3, <2>4
  <1>9. Superseded(notes)' /\ Superseded(snap)' /\ Superseded(book)'
    <2>1. \A e \in notes : \E r \in relay' : r.order = e.order /\ r.ts >= e.ts
      BY <1>8 DEF BookInv, EventsTyped, RelayInv
    <2>2. n \in relay' /\ n.ts >= n.ts
      BY <1>1, <1>2, <1>3
    <2>3. Superseded(notes)'
      BY <1>1, <2>1, <2>2 DEF Superseded
    <2>4. Superseded(snap)' /\ Superseded(book)'
      BY <1>1, <1>8 DEF BookInv, EventsTyped, RelayInv, Superseded
    <2> QED
      BY <2>3, <2>4
  <1> QED
    BY <1>1, <1>4, <1>5, <1>7, <1>9
    DEF BookInv, RelayInv, ListedOnce, SnapshotInv, OneEach

\* Steps of the DM listener, and the awaits of the scheduler that hold no event.
LEMMA OtherSteps ==
  ASSUME BookInv, UNCHANGED <<relay, clock, notes, snap, book>>,
         phase' # "snap" \/ phase' = phase
  PROVE  BookInv'
  BY DEF BookInv, EventsTyped, RelayInv, ListedOnce, SnapshotInv, OneEach, Superseded

LEMMA FetchStep ==
  ASSUME BookInv, FetchAnswered
  PROVE  BookInv' /\ book' = book
  <1>1. snap' = Newest /\ UNCHANGED <<relay, clock, notes, book>>
    BY DEF FetchAnswered
  <1>2. Newest \subseteq relay
    BY DEF Newest
  <1>3. EventsTyped'
    BY <1>1, <1>2 DEF BookInv, EventsTyped
  <1>4. Superseded(snap)'
    BY <1>1, <1>2, EventTimes DEF BookInv, EventsTyped, Superseded
  <1>5. OneEach(snap)'
    BY <1>1, <1>2 DEF BookInv, RelayInv, OneEach
  <1>6. ASSUME NEW e \in book, NEW x \in Newest, e.order = x.order
        PROVE  x.ts >= e.ts
    <2>1. PICK r \in relay : r.order = e.order /\ r.ts >= e.ts
      BY DEF BookInv, RelayInv, Superseded
    <2>2. r = x
      BY <1>2, <1>6, <2>1 DEF BookInv, RelayInv, OneEach
    <2> QED
      BY <2>1, <2>2
  <1>7. SnapshotInv'
    BY <1>1, <1>5, <1>6 DEF SnapshotInv
  <1> QED
    BY <1>1, <1>3, <1>4, <1>7 DEF BookInv, RelayInv, ListedOnce, OneEach, Superseded

\* The book never shows an older revision of what it listed.
NeverOlder == \A e \in book, x \in book' : e.order = x.order => x.ts >= e.ts

LEMMA FillStep ==
  ASSUME BookInv, FillBook
  PROVE  BookInv' /\ NeverOlder
  <1>1. /\ phase = "snap" /\ phase' = "list" /\ snap' = {}
        /\ book' \subseteq snap /\ UNCHANGED <<relay, clock, notes>>
    BY DEF FillBook, replaced, pending_orders_for_book
  <1>2. EventsTyped'
    BY <1>1 DEF BookInv, EventsTyped
  <1>3. ListedOnce' /\ NeverOlder
    BY <1>1 DEF BookInv, SnapshotInv, OneEach, ListedOnce, NeverOlder
  <1>4. Superseded(book)' /\ Superseded(snap)'
    BY <1>1 DEF BookInv, RelayInv, Superseded
  <1> QED
    BY <1>1, <1>2, <1>3, <1>4
    DEF BookInv, RelayInv, SnapshotInv, OneEach, Superseded

LEMMA HearStep ==
  ASSUME BookInv, NEW e \in notes, Hear(e)
  PROVE  BookInv' /\ book' = book
  <1>1. /\ notes' = notes \ {e} /\ snap' = {e} /\ phase' = "live"
        /\ UNCHANGED <<relay, clock, book>>
    BY DEF Hear
  <1> QED
    BY <1>1
    DEF BookInv, EventsTyped, RelayInv, ListedOnce, SnapshotInv, OneEach, Superseded

\* What a live event makes of the book.
LEMMA LiveUpdate ==
  ASSUME book \subseteq Events, ListedOnce, NEW e \in Events,
         NEW b, b = apply_live_order_update(e) \/ b = book
  PROVE  /\ b \subseteq book \cup {e}
         /\ \A x, y \in b : x.order = y.order => x = y
         /\ \A x \in book, y \in b : x.order = y.order => y.ts >= x.ts
  <1>1. \A x \in book : x.ts \in Nat
    BY EventTimes
  <1>2. CASE b = book
    <2>1. \A x, y \in book : x.order = y.order => x = y
      BY DEF ListedOnce
    <2>2. \A x, y \in book : x.order = y.order => y.ts >= x.ts
      BY <1>1, <2>1
    <2> QED
      BY <1>2, <2>1, <2>2
  <1>3. CASE b = {x \in book : x.order # e.order}
    BY <1>1, <1>3 DEF ListedOnce
  <1>4. CASE /\ b = {x \in book : x.order # e.order} \cup {e}
             /\ \A x \in book : x.order = e.order => e.ts >= x.ts
    BY <1>1, <1>4 DEF ListedOnce
  <1>5. \/ b = book
        \/ b = {x \in book : x.order # e.order}
        \/ /\ b = {x \in book : x.order # e.order} \cup {e}
           /\ \A x \in book : x.order = e.order => e.ts >= x.ts
    BY DEF apply_live_order_update
  <1> QED
    BY <1>2, <1>3, <1>4, <1>5

LEMMA ApplyStep ==
  ASSUME BookInv, ApplyLive
  PROVE  BookInv' /\ NeverOlder
  <1>1. PICK e \in snap :
          book' = IF e.order \in filter THEN apply_live_order_update(e) ELSE book
    BY DEF ApplyLive
  <1>2. phase' = "idle" /\ snap' = {} /\ UNCHANGED <<relay, clock, notes>>
    BY DEF ApplyLive
  <1>3. e \in Events /\ book \subseteq Events /\ ListedOnce
    BY DEF BookInv, EventsTyped
  <1>4. /\ book' \subseteq book \cup {e}
        /\ \A x, y \in book' : x.order = y.order => x = y
        /\ \A x \in book, y \in book' : x.order = y.order => y.ts >= x.ts
    BY <1>1, <1>3, LiveUpdate
  <1>5. Superseded(book)' /\ Superseded(snap)' /\ Superseded(notes)'
    BY <1>2, <1>4 DEF BookInv, RelayInv, Superseded
  <1>6. EventsTyped'
    BY <1>2, <1>3, <1>4 DEF BookInv, EventsTyped
  <1> QED
    BY <1>2, <1>4, <1>5, <1>6
    DEF BookInv, RelayInv, ListedOnce, SnapshotInv, NeverOlder, OneEach

LEMMA ReloadStep ==
  ASSUME BookInv, NEW f \in Filters, Reload(f)
  PROVE  BookInv' /\ book' = book
  <1>1. /\ phase' = "idle" /\ snap' = {} /\ notes' = {}
        /\ UNCHANGED <<relay, clock, book>>
    BY DEF Reload
  <1> QED
    BY <1>1
    DEF BookInv, EventsTyped, RelayInv, ListedOnce, SnapshotInv, OneEach, Superseded

LEMMA BookUnchanged ==
  ASSUME EventsTyped, ListedOnce, book' = book
  PROVE  NeverOlder
  BY EventTimes DEF EventsTyped, ListedOnce, NeverOlder

LEMMA BookStep ==
  ASSUME BookInv, [Next]_vars
  PROVE  BookInv' /\ NeverOlder
  <1>0. book' = book => NeverOlder
    BY BookUnchanged DEF BookInv
  <1>1. CASE MostroNext
    BY <1>0, <1>1, PublishStep DEF MostroNext
  <1>2. CASE DmNext
    <2>1. UNCHANGED <<relay, clock, notes, snap, book, phase>>
      BY <1>2 DEF DmNext, ReadForDm, WriteForDm, task
    <2> QED
      BY <1>0, <2>1, OtherSteps
  <1>3. CASE FetchAnswered
    BY <1>0, <1>3, FetchStep
  <1>4. CASE FillBook
    BY <1>4, FillStep
  <1>5. CASE ApplyLive
    BY <1>5, ApplyStep
  <1>6. ASSUME NEW e \in notes, Hear(e) PROVE BookInv' /\ NeverOlder
    BY <1>0, <1>6, HearStep
  <1>7. CASE FetchFailed \/ ListRows
    <2>1. UNCHANGED <<relay, clock, notes, snap, book>> /\ phase' # "snap"
      BY <1>7 DEF FetchFailed, ListRows
    <2> QED
      BY <1>0, <2>1, OtherSteps
  <1>8. CASE AskFailed \/ \E o \in Mine : AskAnswered(o)
    <2>1. UNCHANGED <<relay, clock, notes, snap, book>> /\ phase' # "snap"
      BY <1>8 DEF AskFailed, AskAnswered, NextId
    <2> QED
      BY <1>0, <2>1, OtherSteps
  <1>9. CASE WriteRow \/ \E e \in todo : ReadRow(e)
    <2>1. UNCHANGED <<relay, clock, notes, snap, book, phase>>
      BY <1>9 DEF WriteRow, ReadRow
    <2> QED
      BY <1>0, <2>1, OtherSteps
  <1>10. ASSUME NEW f \in Filters, Reload(f) PROVE BookInv' /\ NeverOlder
    BY <1>0, <1>10, ReloadStep
  <1>11. CASE UNCHANGED vars
    <2>1. UNCHANGED <<relay, clock, notes, snap, book, phase>>
      BY <1>11 DEF vars, task
    <2> QED
      BY <1>0, <2>1, OtherSteps
  <1> QED
    BY <1>1, <1>2, <1>3, <1>4, <1>5, <1>6, <1>7, <1>8, <1>9, <1>10, <1>11
    DEF Next, SchedulerNext

LEMMA BookInvariant == Spec => []BookInv
  <1>1. BookInv /\ [Next]_vars => BookInv'
    BY BookStep
  <1> QED
    BY <1>1, BookInvInit, PTL DEF Spec

\* The book lists an order once, for every value of the constants.
THEOREM BookListsOnce == Spec => []ListedOnce
  <1>1. BookInv => ListedOnce
    BY DEF BookInv
  <1> QED
    BY <1>1, BookInvariant, PTL

\* A listing never goes back to an older revision of its order.
THEOREM BookNeverAges == Spec => ListingsNeverAge
  <1> DEFINE Ages == \A e \in book, x \in book' : e.order = x.order => x.ts >= e.ts
  <1>1. BookInv /\ [Next]_vars => [Ages]_vars
    BY BookStep DEF NeverOlder
  <1> QED
    BY <1>1, BookInvariant, PTL DEF Spec, ListingsNeverAge
=============================================================================
