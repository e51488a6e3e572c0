------------------------------ MODULE DmRouter ------------------------------
(***************************************************************************)
(* The direct-message router: `listen_for_order_messages` with the tasks   *)
(* that send requests to Mostro and wait for the reply (`wait_for_dm`).    *)
(*                                                                         *)
(* Tasks send commands over one channel: TrackOrder binds a trade key to   *)
(* an order, RegisterWaiter hands over the sending half of a one-shot      *)
(* channel.  The listener alone owns the relay subscriptions.  It offers   *)
(* each incoming event first to the waiters of its key and then to the     *)
(* order its subscription is bound to.  What the order makes of it is the  *)
(* subject of TradeDm; here an event only updates the order or ends it.    *)
(***************************************************************************)
EXTENDS Naturals, Sequences, FiniteSets

CONSTANTS
  Orders, Keys, Requests,
  Sessions,     \* which requests one user may make, and how much may go wrong
  NoOrder, NoKey, NoRequest, NoEvent, NoDelivery,
  MaxWaiters,   \* MAX_PENDING_WAITERS
  MaxSubs       \* bound on the subscriptions one listener opens

NoSub == 0
Subs  == 1 .. MaxSubs

\* A create, take, or later request uses one trade key.  Mostro may fill in
\* another order than the one the user asked to take.
RequestType == {r \in [kind : {"create", "take", "later"}, key : Keys,
                      asked : Orders \cup {NoOrder}, order : Orders] :
                  r.kind = "take" => r.asked # NoOrder}
Opening(r) == r.kind # "later"

\* `troubles` bounds the respawns of the listener and the failing subscriptions.
SessionType == [requests : SUBSET Requests, troubles : Nat]

ASSUME RequestsAssumption == Requests \subseteq RequestType /\ Sessions \subseteq SessionType

\* reserve_next_trade_index gives every create and take a key of its own, and a
\* later request takes the key from the order's row.
ASSUME KeysAssumption ==
  \A r, q \in Requests : r.key = q.key => r.order = q.order /\ (Opening(r) /\ Opening(q) => r = q)
ASSUME NoneAssumption ==
  NoOrder \notin Orders /\ NoKey \notin Keys /\ NoRequest \notin Requests
ASSUME BoundsAssumption == MaxWaiters \in Nat /\ MaxSubs \in Nat

\* A direct message answers a request or none.
Events == [key : Keys, answers : Requests \cup {NoRequest}, what : {"update", "refusal", "end"}]
Deliveries == [event : Events, sub : Subs]

ASSUME NoEventAssumption == NoEvent \notin Events /\ NoDelivery \notin Deliveries

\* DmRouterCmd: TrackOrder and RegisterWaiter.
TrackCmd(o, k) == [order |-> o, key |-> k, waiter |-> NoRequest]
WaitCmd(r)     == [order |-> NoOrder, key |-> r.key, waiter |-> r]
Cmds == {TrackCmd(o, k) : o \in Orders, k \in Keys} \cup {WaitCmd(r) : r \in Requests}

VARIABLES
  stage,      \* where the task of each request is
  slot,       \* its one-shot channel
  answer,     \* the event in that channel
  stale,      \* requests whose task holds the channel of a replaced listener
  stored,     \* the trade key in the order's row, while the order has not ended
  results,    \* results the main loop has yet to handle
  cmds,       \* the command channel
  indices,    \* active_order_trade_indices
  subscribed, \* subscribed_pubkeys
  keySub,     \* pubkey_to_subscription
  bound,      \* subscription_to_order
  subKey,     \* the relay's live subscriptions
  opened,     \* subscriptions opened by this listener
  waiters,    \* pending_waiters
  boot,       \* orders whose startup subscription is still to be made
  cur,        \* the event between the waiters and the order
  published, inFlight,
  deaf,       \* history: keys whose TrackOrder was lost or could not subscribe
  troubles    \* respawns and failed subscriptions so far

tasks   == <<stage, slot, answer, stale>>
subs    == <<subscribed, keySub, bound, subKey, opened, troubles, deaf>>
world   == <<published, inFlight>>
vars    == <<tasks, stored, results, cmds, indices, subs, waiters, boot, cur, world>>

Live(k) == {s \in Subs : subKey[s] = k}
Made == {r \in Requests : stage[r] # "idle"}
Allowed(R, n) == \E S \in Sessions : R \subseteq S.requests /\ n <= S.troubles
MayFail == Allowed(Made, troubles + 1)
Listening == boot = {} /\ cur = NoDelivery

-----------------------------------------------------------------------------
(* The task of a request.                                                  *)

\* Row of the order, or the user's choice of a listing that is on the book: an
\* earlier take of it has ended.
MayStart(r) ==
  /\ Allowed(Made \cup {r}, troubles)
  /\ r.kind = "later" => stored[r.order] = r.key
  /\ \A q \in Requests : q.key # r.key /\ q.order = r.order /\ stage[q] # "idle"
       => \E e \in published : e.key = q.key /\ e.what # "update"

\* take_order tracks the order it asks for before the request is sent.
Start(r) ==
  /\ stage[r] = "idle" /\ MayStart(r)
  /\ stage' = [stage EXCEPT ![r] = "started"]
  /\ cmds' = IF r.kind = "take" THEN Append(cmds, TrackCmd(r.asked, r.key)) ELSE cmds
  /\ UNCHANGED <<slot, answer, stale, stored, results, indices, subs, waiters, boot, cur, world>>

\* wait_for_dm: the waiter goes to the listener that is current now.
Register(r) ==
  /\ stage[r] = "started"
  /\ stage' = [stage EXCEPT ![r] = "sending"]
  /\ slot' = [slot EXCEPT ![r] = "open"]
  /\ cmds' = Append(cmds, WaitCmd(r))
  /\ UNCHANGED <<answer, stale, stored, results, indices, subs, waiters, boot, cur, world>>

Send(r) ==
  /\ stage[r] = "sending"
  /\ stage' = [stage EXCEPT ![r] = "waiting"]
  /\ UNCHANGED <<slot, answer, stale, stored, results, cmds, indices, subs, waiters, boot, cur, world>>

\* The request cannot be sent, the reply does not come in time, or the listener
\* has dropped the waiter: the receiving half goes away.
GiveUp(r) ==
  /\ \/ stage[r] = "sending"
     \/ stage[r] = "waiting" /\ slot[r] \in {"open", "dropped"}
  /\ stage' = [stage EXCEPT ![r] = "failed"]
  /\ slot' = [slot EXCEPT ![r] = "closed"]
  /\ UNCHANGED <<answer, stale, stored, results, cmds, indices, subs, waiters, boot, cur, world>>

\* handle_mostro_response: only an answer to this very request is accepted.
Accepted(r) == answer[r].answers = r /\ answer[r].what # "refusal"

\* The reply names the order to track.
TrackReplied(r) == TrackCmd(r.order, r.key)

\* The task wakes up with an event; an accepted create or take is saved and
\* tracked, and its result goes to the main loop.
Resume(r) ==
  /\ stage[r] = "waiting" /\ slot[r] = "answered"
  /\ slot' = [slot EXCEPT ![r] = "closed"]
  /\ IF Accepted(r)
     THEN /\ stage' = [stage EXCEPT ![r] = "done"]
          /\ IF Opening(r)
             THEN /\ stored' = [stored EXCEPT ![r.order] = r.key]
                  /\ results' = results \cup {r}
                  /\ cmds' = IF r \in stale THEN cmds ELSE Append(cmds, TrackReplied(r))
                  /\ deaf' = IF r \in stale THEN deaf \cup {r.key} ELSE deaf
             ELSE UNCHANGED <<stored, results, cmds, deaf>>
     ELSE /\ stage' = [stage EXCEPT ![r] = "failed"]
          /\ UNCHANGED <<stored, results, cmds, deaf>>
  /\ UNCHANGED <<answer, stale, indices, subscribed, keySub, bound, subKey, opened, troubles,
                 waiters, boot, cur, world>>

\* The main loop adds the index of a created or taken order.
HandleResult(r) ==
  /\ r \in results
  /\ results' = results \ {r}
  /\ indices' = [indices EXCEPT ![r.order] = r.key]
  /\ UNCHANGED <<tasks, stored, cmds, subs, waiters, boot, cur, world>>

-----------------------------------------------------------------------------
(* The listener: subscriptions.                                            *)

\* client.subscribe for key k, its subscription bound to o.
Subscribe(k, o) ==
  /\ opened < MaxSubs
  /\ opened' = opened + 1
  /\ subscribed' = subscribed \cup {k}
  /\ keySub' = [keySub EXCEPT ![k] = opened']
  /\ subKey' = [subKey EXCEPT ![opened'] = k]
  /\ bound' = [bound EXCEPT ![opened'] = o]
  /\ UNCHANGED troubles

\* Mutated: the key of a failed subscription stays marked.
MarkedThoughFailed(k) ==
  /\ MayFail
  /\ troubles' = troubles + 1
  /\ subscribed' = subscribed \cup {k}
  /\ UNCHANGED <<subKey, bound, opened>>

SubscribeFails(k) ==
  /\ MayFail
  /\ troubles' = troubles + 1
  /\ subscribed' = subscribed \ {k}
  /\ UNCHANGED <<subKey, bound, opened>>

\* Mutated: a key that is subscribed already is left alone.
only_first_binding(k, o) ==
  IF k \in subscribed THEN UNCHANGED subs
  ELSE Subscribe(k, o) /\ deaf' = deaf \ {k}

\* ensure_order_dm_subscription: rebind the key's subscription, or open one.
ensure_order_dm_subscription(k, o) ==
  IF k \in subscribed /\ keySub[k] # NoSub
  THEN /\ bound' = [bound EXCEPT ![keySub[k]] = o]
       /\ deaf' = deaf \ {k}
       /\ UNCHANGED <<subscribed, keySub, subKey, opened, troubles>>
  ELSE \/ Subscribe(k, o) /\ deaf' = deaf \ {k}
       \/ /\ SubscribeFails(k)
          /\ keySub' = [keySub EXCEPT ![k] = NoSub]
          /\ deaf' = deaf \cup {k}

\* Startup subscribes to one hydrated order after the other; the relay delivers
\* again what it has stored for the key.
Bootstrap(b) ==
  /\ b \in boot
  /\ boot' = boot \ {b}
  /\ ensure_order_dm_subscription(b.key, b.order)
  /\ inFlight' = inFlight \cup
       IF b.key \in subscribed' THEN [event : {e \in published : e.key = b.key}, sub : {keySub'[b.key]}]
       ELSE {}
  /\ UNCHANGED <<tasks, stored, results, cmds, indices, waiters, cur, published>>

\* TrackOrder: the key leaves any other order it was tracked under.
TakeTrack ==
  /\ Listening /\ cmds # <<>> /\ Head(cmds).waiter = NoRequest
  /\ cmds' = Tail(cmds)
  /\ LET k == Head(cmds).key
         o == Head(cmds).order
     IN /\ indices' = [p \in Orders |-> IF p = o THEN k
                                        ELSE IF indices[p] = k THEN NoKey ELSE indices[p]]
        /\ ensure_order_dm_subscription(k, o)
  /\ UNCHANGED <<tasks, stored, results, waiters, boot, cur, world>>

Open(W) == {r \in W : slot[r] # "closed"}

\* prune_closed_waiters
prune_closed_waiters(W) == Open(W)

\* RegisterWaiter: refused at the cap and when the key cannot be subscribed to.
TakeWait ==
  /\ Listening /\ cmds # <<>> /\ Head(cmds).waiter # NoRequest
  /\ cmds' = Tail(cmds)
  /\ LET r == Head(cmds).waiter
         kept == prune_closed_waiters(waiters)
         Refuse == /\ waiters' = kept
                   /\ slot' = IF slot[r] = "open" THEN [slot EXCEPT ![r] = "dropped"] ELSE slot
         Queue == waiters' = kept \cup {r} /\ UNCHANGED slot
     IN IF Cardinality(kept) >= MaxWaiters THEN Refuse /\ UNCHANGED subs
        ELSE IF r.key \in subscribed THEN Queue /\ UNCHANGED subs
        ELSE /\ UNCHANGED deaf
             /\ \/ Queue /\ Subscribe(r.key, NoOrder)
                \/ Refuse /\ SubscribeFails(r.key) /\ UNCHANGED keySub
  /\ UNCHANGED <<stage, answer, stale, stored, results, indices, boot, cur, world>>

\* waiter_gc_interval
PruneTick ==
  /\ Listening
  /\ waiters' = prune_closed_waiters(waiters)
  /\ UNCHANGED <<tasks, stored, results, cmds, indices, subs, boot, cur, world>>

-----------------------------------------------------------------------------
(* The listener: an event.                                                 *)

\* Mutated: an event goes to the one request it answers.
only_the_addressee(e) == {r \in waiters : slot[r] = "open" /\ e.answers = r}

\* An event satisfies every waiter that can decrypt it, whatever it answers.
Satisfied(e) == {r \in waiters : slot[r] = "open" /\ r.key = e.key}

Deliver(d) ==
  /\ Listening /\ d \in inFlight
  /\ inFlight' = inFlight \ {d}
  /\ cur' = d
  /\ slot' = [r \in Requests |-> IF r \in Satisfied(d.event) THEN "answered" ELSE slot[r]]
  /\ answer' = [r \in Requests |-> IF r \in Satisfied(d.event) THEN d.event ELSE answer[r]]
  /\ waiters' = Open(waiters) \ Satisfied(d.event)
  /\ UNCHANGED <<stage, stale, stored, results, cmds, indices, subs, boot, published>>

Unmark(k) == subscribed' = subscribed \ {k}

\* dispatch_giftwrap_batch for an event of order o: its end frees index and key,
\* whichever key the index and the row name by now.
Finished(o, k) ==
  /\ indices' = [indices EXCEPT ![o] = NoKey]
  /\ stored' = [stored EXCEPT ![o] = NoKey]
  /\ Unmark(k)

\* The subscription is bound: an end unsubscribes it as well.
RouteBound ==
  /\ cur # NoDelivery /\ bound[cur.sub] # NoOrder
  /\ IF cur.event.what = "end"
     THEN /\ Finished(bound[cur.sub], cur.event.key)
          /\ bound' = [bound EXCEPT ![cur.sub] = NoOrder]
          /\ subKey' = [subKey EXCEPT ![cur.sub] = NoKey]
     ELSE UNCHANGED <<indices, stored, subscribed, bound, subKey>>
  /\ cur' = NoDelivery
  /\ UNCHANGED <<tasks, results, cmds, keySub, opened, troubles, deaf, waiters, boot, world>>

ActiveWith(k) == {o \in Orders : indices[o] = k}

\* resolve_order_for_event: some active order whose key decrypts the event; the
\* subscription is not the order's and stays.
RouteByKey ==
  /\ cur # NoDelivery /\ bound[cur.sub] = NoOrder
  /\ \/ ActiveWith(cur.event.key) = {} /\ UNCHANGED <<indices, stored, subscribed>>
     \/ \E o \in ActiveWith(cur.event.key) :
          IF cur.event.what = "end" THEN Finished(o, cur.event.key)
          ELSE UNCHANGED <<indices, stored, subscribed>>
  /\ cur' = NoDelivery
  /\ UNCHANGED <<tasks, results, cmds, keySub, bound, subKey, opened, troubles, deaf, waiters, boot,
                 world>>

-----------------------------------------------------------------------------
(* Mostro and the relay.                                                   *)

\* Each live subscription of the key may deliver the event.
Publish(e) ==
  /\ e \notin published
  /\ published' = published \cup {e}
  /\ IF Live(e.key) = {} THEN UNCHANGED inFlight
     ELSE \E S \in SUBSET Live(e.key) \ {{}} : inFlight' = inFlight \cup [event : {e}, sub : S]
  /\ UNCHANGED <<tasks, stored, results, cmds, indices, subs, waiters, boot, cur>>

\* Mostro answers a request once; the answer to a later request may end the trade.
Reply(r, what) ==
  /\ stage[r] = "waiting" \/ (stage[r] = "failed" /\ slot[r] = "closed")
  /\ \A e \in published : e.answers # r
  /\ Opening(r) => what # "end"
  /\ Publish([key |-> r.key, answers |-> r, what |-> what])

\* Mostro reports what the counterparty does in a trade it knows.
Push(r, what) ==
  /\ Opening(r)
  /\ \E e \in published : e.answers = r /\ e.what = "update"
  /\ Publish([key |-> r.key, answers |-> NoRequest, what |-> what])

-----------------------------------------------------------------------------

\* The listener is aborted and respawned: command channel, waiters and
\* subscriptions go, and the rows tell what to track.
Reload ==
  /\ MayFail
  /\ troubles' = troubles + 1
  /\ stale' = stale \cup {r \in Requests : stage[r] \in {"started", "sending", "waiting"}}
  /\ slot' = [r \in Requests |-> IF slot[r] = "open" THEN "dropped" ELSE slot[r]]
  /\ cmds' = <<>> /\ waiters' = {} /\ cur' = NoDelivery
  /\ indices' = stored
  /\ subscribed' = {} /\ opened' = 0
  /\ keySub' = [k \in Keys |-> NoSub]
  /\ subKey' = [s \in Subs |-> NoKey]
  /\ bound' = [s \in Subs |-> NoOrder]
  /\ boot' = {[order |-> o, key |-> stored[o]] : o \in {p \in Orders : stored[p] # NoKey}}
  /\ inFlight' = {}
  /\ deaf' = {}
  /\ UNCHANGED <<stage, answer, stored, results, published>>

Init ==
  /\ stage = [r \in Requests |-> "idle"]
  /\ slot = [r \in Requests |-> "none"]
  /\ answer = [r \in Requests |-> NoEvent]
  /\ stale = {} /\ results = {} /\ cmds = <<>>
  /\ stored = [o \in Orders |-> NoKey]
  /\ indices = [o \in Orders |-> NoKey]
  /\ subscribed = {} /\ opened = 0
  /\ keySub = [k \in Keys |-> NoSub]
  /\ subKey = [s \in Subs |-> NoKey]
  /\ bound = [s \in Subs |-> NoOrder]
  /\ waiters = {} /\ boot = {} /\ cur = NoDelivery
  /\ published = {} /\ inFlight = {} /\ deaf = {}
  /\ troubles = 0

ListenerNext ==
  \/ TakeTrack \/ TakeWait \/ PruneTick \/ RouteBound \/ RouteByKey
  \/ \E b \in boot : Bootstrap(b)
  \/ \E d \in inFlight : Deliver(d)

TaskNext(r) ==
  Start(r) \/ Register(r) \/ Send(r) \/ GiveUp(r) \/ Resume(r) \/ HandleResult(r)

MostroNext(r) ==
  \E what \in {"update", "refusal", "end"} :
    Reply(r, what) \/ (what # "refusal" /\ Push(r, what))

Next ==
  \/ ListenerNext \/ Reload
  \/ \E r \in Requests : TaskNext(r) \/ MostroNext(r)

Spec == Init /\ [][Next]_vars

-----------------------------------------------------------------------------
(* Properties.                                                             *)

\* The types of the variables.
TypeOK ==
  /\ stage \in [Requests -> {"idle", "started", "sending", "waiting", "done", "failed"}]
  /\ slot \in [Requests -> {"none", "open", "answered", "dropped", "closed"}]
  /\ answer \in [Requests -> Events \cup {NoEvent}]
  /\ stale \subseteq Requests /\ results \subseteq Requests /\ waiters \subseteq Requests
  /\ stored \in [Orders -> Keys \cup {NoKey}] /\ indices \in [Orders -> Keys \cup {NoKey}]
  /\ cmds \in Seq(Cmds)
  /\ subscribed \subseteq Keys /\ deaf \subseteq Keys
  /\ keySub \in [Keys -> Subs \cup {NoSub}]
  /\ bound \in [Subs -> Orders \cup {NoOrder}] /\ subKey \in [Subs -> Keys \cup {NoKey}]
  /\ opened \in 0 .. MaxSubs
  /\ boot \subseteq [order : Orders, key : Keys]
  /\ cur \in Deliveries \cup {NoDelivery}
  /\ published \subseteq Events /\ inFlight \subseteq Deliveries
  /\ troubles \in Nat

\* A key marked as subscribed has a live subscription under the id remembered for
\* it: TrackOrder and RegisterWaiter skip the relay when they find the mark.
KeySubIsLive == \A k \in subscribed : keySub[k] # NoSub /\ subKey[keySub[k]] = k

\* A registered waiter whose task still waits is never left on a key nobody is
\* subscribed to, although the end of an order unsubscribes its key.
WaiterIsHeard == \A r \in waiters : slot[r] = "open" => Live(r.key) # {}

Tracking(o, k) == \E i \in DOMAIN cmds : cmds[i] = TrackCmd(o, k)

\* A stored order that has not ended is bound to the live subscription of its key
\* once the commands about it are handled, whatever waiters, rebindings, takes
\* of the same order under another key, failed subscriptions and respawns came
\* between; `deaf` holds the orders a lost command leaves to the next restart.
StoredOrderIsBound ==
  boot = {} => \A o \in Orders : LET k == stored[o] IN
    k # NoKey /\ k \notin deaf /\ ~Tracking(o, k)
      => k \in subscribed /\ bound[keySub[k]] = o

\* While a trade runs, an event of a stored order is dropped by the listener only
\* in the gap before its TrackOrder is handled.
StoredOrderLosesNothing ==
  cur # NoDelivery => LET k == cur.event.key IN
    \/ bound[cur.sub] # NoOrder \/ ActiveWith(k) # {}
    \/ \E e \in published : e.key = k /\ e.what = "end"
    \/ \A o \in Orders : stored[o] = k => k \in deaf \/ Tracking(o, k) \/ boot # {}

\* A stored order is heard: bound to the live subscription of its key at rest,
\* and losing no event of a running trade meanwhile.
StoredOrderIsHeard == StoredOrderIsBound /\ StoredOrderLosesNothing

\* The listener cancels a waiting request only at the cap, counting the requests
\* that really wait, or when its key cannot be subscribed to.
RefusedOnlyWhenFull ==
  [][\A r \in Requests : slot[r] = "open" /\ slot'[r] = "dropped"
       => \/ Cardinality({q \in waiters : slot[q] = "open"}) >= MaxWaiters
          \/ troubles' # troubles]_vars
=============================================================================
