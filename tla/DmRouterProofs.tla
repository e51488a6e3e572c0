--------------------------- MODULE DmRouterProofs ---------------------------
(***************************************************************************)
(* Proofs about the direct-message router, for every set of orders, keys,  *)
(* requests and sessions and every bound.  A first inductive invariant     *)
(* joins the listener's subscription tables, the waiters it holds and the  *)
(* registrations still queued; a second one, on top of it, follows a       *)
(* trade key from the request that opens its order to the order's end.     *)
(***************************************************************************)
EXTENDS DmRouter, TLAPS

\* The part of TypeOK about the subscription tables.
SubsTyped ==
  /\ subscribed \subseteq Keys /\ deaf \subseteq Keys
  /\ keySub \in [Keys -> Subs \cup {NoSub}]
  /\ bound \in [Subs -> Orders \cup {NoOrder}] /\ subKey \in [Subs -> Keys \cup {NoKey}]
  /\ opened \in 0 .. MaxSubs
  /\ troubles \in Nat

\* What a subscription table still offers has been opened.
UnopenedIsDead == \A s \in Subs : s > opened => subKey[s] = NoKey

\* The relay keeps what it delivered: a subscription serves the key of its
\* deliveries or none.
ServesKey(d) == d.sub <= opened /\ subKey[d.sub] \in {d.event.key, NoKey}
DeliveriesServed == (\A d \in inFlight : ServesKey(d)) /\ (cur # NoDelivery => ServesKey(cur))

\* The key of a waiting request is marked, and while an event is between waiters
\* and order no request waits for its key any more.
WaiterIsMarked == \A r \in waiters : slot[r] = "open" => r.key \in subscribed
NobodyWaitsForCur ==
  cur # NoDelivery => \A r \in waiters : slot[r] = "open" => r.key # cur.event.key

\* A registration is on its way or at the listener, once, and its channel is open
\* or its task is gone.
Registered(r) == stage[r] \notin {"idle", "started"} /\ slot[r] \in {"open", "closed"}
RegisteredNext(r) == stage'[r] \notin {"idle", "started"} /\ slot'[r] \in {"open", "closed"}
WaitersRegistered == \A r \in waiters : Registered(r)
QueuedRegistered ==
  \A i \in DOMAIN cmds : cmds[i].waiter \in Requests =>
    /\ Registered(cmds[i].waiter) /\ cmds[i].waiter \notin waiters
    /\ \A j \in DOMAIN cmds : cmds[j].waiter = cmds[i].waiter => i = j

-----------------------------------------------------------------------------
(* Commands and subscriptions.                                             *)

\* A command names an order and a key, or a request and its key.
LEMMA CmdParts ==
  ASSUME NEW c \in Cmds
  PROVE  \/ c.waiter = NoRequest /\ c.order \in Orders /\ c.key \in Keys
         \/ c.waiter \in Requests /\ c.key = c.waiter.key
BY DEF Cmds, TrackCmd, WaitCmd

\* The key and the orders of a request.
LEMMA RequestParts ==
  ASSUME NEW r \in Requests
  PROVE  /\ r.key \in Keys /\ r.order \in Orders
         /\ r.kind = "take" => r.asked \in Orders
BY RequestsAssumption DEF RequestType

\* What a request queues is a command.
LEMMA CmdTypes ==
  /\ \A o \in Orders, k \in Keys : TrackCmd(o, k) \in Cmds /\ TrackCmd(o, k).waiter = NoRequest
  /\ \A r \in Requests : WaitCmd(r) \in Cmds /\ WaitCmd(r).waiter = r
BY DEF Cmds, TrackCmd, WaitCmd

\* What a change of the subscription tables leaves alone: their types, the marks,
\* and the keys of the subscriptions that were open.
SubsKept ==
  /\ SubsTyped' /\ KeySubIsLive' /\ UnopenedIsDead'
  /\ subscribed \subseteq subscribed'
  /\ opened <= opened'
  /\ \A s \in Subs : s <= opened => subKey'[s] = subKey[s]

\* A new subscription keeps the tables and marks its key.
LEMMA SubscribeKeeps ==
  ASSUME SubsTyped, KeySubIsLive, UnopenedIsDead,
         NEW k \in Keys, NEW o \in Orders \cup {NoOrder}, Subscribe(k, o), deaf' \subseteq Keys
  PROVE  SubsKept /\ k \in subscribed'
<1>1. opened + 1 \in Subs /\ opened' = opened + 1
  BY BoundsAssumption DEF Subs, SubsTyped, Subscribe
<1>2. SubsTyped'
  BY <1>1, BoundsAssumption DEF Subs, SubsTyped, Subscribe
<1>3. KeySubIsLive'
  <2> SUFFICES ASSUME NEW q \in subscribed' PROVE keySub'[q] # NoSub /\ subKey'[keySub'[q]] = q
    BY DEF KeySubIsLive
  <2>1. CASE q = k
    BY <2>1, <1>1 DEF SubsTyped, Subscribe, Subs, NoSub
  <2>2. CASE q # k
    <3>1. q \in subscribed /\ q \in Keys /\ keySub'[q] = keySub[q]
      BY <2>2 DEF SubsTyped, Subscribe
    <3>2. keySub[q] \in Subs /\ subKey[keySub[q]] = q
      BY <3>1 DEF KeySubIsLive, SubsTyped
    <3>3. keySub[q] # opened + 1
      BY <3>1, <3>2, <1>1, NoneAssumption DEF UnopenedIsDead, SubsTyped, Subs
    <3> QED BY <3>1, <3>2, <3>3, <1>1 DEF SubsTyped, Subscribe, Subs, NoSub
  <2> QED BY <2>1, <2>2
<1>4. UnopenedIsDead'
  BY <1>1 DEF UnopenedIsDead, SubsTyped, Subscribe, Subs
<1>5. subscribed \subseteq subscribed' /\ k \in subscribed' /\ opened <= opened'
  BY <1>1 DEF SubsTyped, Subscribe
<1>6. \A s \in Subs : s <= opened => subKey'[s] = subKey[s]
  BY <1>1 DEF SubsTyped, Subscribe, Subs
<1> QED BY <1>2, <1>3, <1>4, <1>5, <1>6 DEF SubsKept

\* A failed subscription to a key that is not marked keeps the tables.
LEMMA FailureKeeps ==
  ASSUME SubsTyped, KeySubIsLive, UnopenedIsDead,
         NEW k \in Keys, k \notin subscribed, SubscribeFails(k), deaf' \subseteq Keys,
         keySub' \in [Keys -> Subs \cup {NoSub}], \A q \in subscribed : keySub'[q] = keySub[q]
  PROVE  SubsKept
<1>1. subscribed' = subscribed /\ UNCHANGED <<subKey, bound, opened>> /\ troubles' = troubles + 1
  BY DEF SubscribeFails
<1> QED BY <1>1 DEF SubsKept, SubsTyped, KeySubIsLive, UnopenedIsDead

\* TrackOrder and the startup bootstrap keep the tables.
LEMMA EnsureKeeps ==
  ASSUME SubsTyped, KeySubIsLive, UnopenedIsDead,
         NEW k \in Keys, NEW o \in Orders, ensure_order_dm_subscription(k, o)
  PROVE  SubsKept
<1>1. CASE k \in subscribed /\ keySub[k] # NoSub
  <2>1. /\ bound' = [bound EXCEPT ![keySub[k]] = o] /\ deaf' = deaf \ {k}
        /\ UNCHANGED <<subscribed, keySub, subKey, opened, troubles>>
    BY <1>1 DEF ensure_order_dm_subscription
  <2>2. SubsTyped'
    BY <2>1 DEF SubsTyped
  <2>3. KeySubIsLive' /\ UnopenedIsDead'
    BY <2>1 DEF KeySubIsLive, UnopenedIsDead
  <2> QED BY <2>1, <2>2, <2>3 DEF SubsKept, SubsTyped
<1>2. CASE ~(k \in subscribed /\ keySub[k] # NoSub)
  <2>1. k \notin subscribed
    BY <1>2 DEF KeySubIsLive
  <2>2. CASE Subscribe(k, o) /\ deaf' = deaf \ {k}
    BY <2>2, SubscribeKeeps DEF SubsTyped
  <2>3. CASE SubscribeFails(k) /\ keySub' = [keySub EXCEPT ![k] = NoSub] /\ deaf' = deaf \cup {k}
    <3>1. /\ keySub' \in [Keys -> Subs \cup {NoSub}] /\ deaf' \subseteq Keys
          /\ \A q \in subscribed : keySub'[q] = keySub[q]
      BY <2>1, <2>3 DEF SubsTyped
    <3> QED BY <2>1, <2>3, <3>1, FailureKeeps
  <2> QED BY <1>2, <2>2, <2>3 DEF ensure_order_dm_subscription
<1> QED BY <1>1, <1>2

-----------------------------------------------------------------------------
(* Type correctness.                                                       *)

LEMMA InitTyped == Init => TypeOK
BY BoundsAssumption DEF Init, TypeOK, NoSub

\* The actions of a request's task keep the types.
LEMMA TaskTyped ==
  ASSUME TypeOK, NEW r \in Requests, TaskNext(r) PROVE TypeOK'
<1> USE DEF tasks, subs, world
<1>1. CASE Start(r)
  BY <1>1, RequestParts, CmdTypes DEF Start, TypeOK
<1>2. CASE Register(r)
  BY <1>2, CmdTypes DEF Register, TypeOK
<1>3. CASE Send(r)
  BY <1>3 DEF Send, TypeOK
<1>4. CASE GiveUp(r)
  BY <1>4 DEF GiveUp, TypeOK
<1>5. CASE Resume(r)
  <2>1. CASE Accepted(r) /\ Opening(r)
    <3>1. TrackReplied(r) \in Cmds /\ r.key \in Keys /\ r.order \in Orders
      BY RequestParts, CmdTypes DEF TrackReplied
    <3>2. cmds' = cmds \/ cmds' = Append(cmds, TrackReplied(r))
      BY <1>5, <2>1 DEF Resume
    <3>3. deaf' = deaf \/ deaf' = deaf \cup {r.key}
      BY <1>5, <2>1 DEF Resume
    <3>4. cmds \in Seq(Cmds) /\ deaf \subseteq Keys
      BY DEF TypeOK
    <3>5. cmds' \in Seq(Cmds) /\ deaf' \subseteq Keys
      BY <3>1, <3>2, <3>3, <3>4
    <3> QED BY <1>5, <2>1, <3>1, <3>5 DEF Resume, TypeOK
  <2>2. CASE ~(Accepted(r) /\ Opening(r))
    BY <1>5, <2>2 DEF Resume, TypeOK
  <2> QED BY <2>1, <2>2
<1>6. CASE HandleResult(r)
  BY <1>6, RequestParts DEF HandleResult, TypeOK
<1> QED BY <1>1, <1>2, <1>3, <1>4, <1>5, <1>6 DEF TaskNext

\* What the listener takes up next.
LEMMA HeadParts ==
  ASSUME TypeOK, cmds # <<>>
  PROVE  /\ Tail(cmds) \in Seq(Cmds) /\ Head(cmds) \in Cmds
         /\ \/ Head(cmds).waiter = NoRequest /\ Head(cmds).order \in Orders /\ Head(cmds).key \in Keys
            \/ Head(cmds).waiter \in Requests /\ Head(cmds).key = Head(cmds).waiter.key
<1>1. Head(cmds) \in Cmds /\ Tail(cmds) \in Seq(Cmds)
  BY DEF TypeOK
<1> QED BY <1>1, CmdParts

\* The three things RegisterWaiter may do for a request.
Refused(r) ==
  /\ waiters' = prune_closed_waiters(waiters)
  /\ slot' = IF slot[r] = "open" THEN [slot EXCEPT ![r] = "dropped"] ELSE slot
RefusedForCap(r) ==
  Refused(r) /\ Cardinality(prune_closed_waiters(waiters)) >= MaxWaiters /\ UNCHANGED subs
RefusedForRelay(r) ==
  Refused(r) /\ r.key \notin subscribed /\ SubscribeFails(r.key) /\ UNCHANGED <<keySub, deaf>>
Queued(r) ==
  /\ waiters' = prune_closed_waiters(waiters) \cup {r} /\ UNCHANGED slot
  /\ \/ r.key \in subscribed /\ UNCHANGED subs
     \/ r.key \notin subscribed /\ Subscribe(r.key, NoOrder) /\ UNCHANGED deaf

\* TakeWait refuses or queues the request it takes up.
LEMMA TakeWaitParts ==
  ASSUME TakeWait
  PROVE  LET r == Head(cmds).waiter IN RefusedForCap(r) \/ RefusedForRelay(r) \/ Queued(r)
BY DEF TakeWait, RefusedForCap, RefusedForRelay, Refused, Queued

\* The subscription tables keep their types and their meaning in every action
\* that subscribes.
LEMMA TakeTrackKeeps ==
  ASSUME TypeOK, KeySubIsLive, UnopenedIsDead, TakeTrack PROVE SubsKept
<1>1. Head(cmds).order \in Orders /\ Head(cmds).key \in Keys
  BY HeadParts, NoneAssumption DEF TakeTrack
<1> QED BY <1>1, EnsureKeeps DEF TakeTrack, TypeOK, SubsTyped

LEMMA TakeWaitKeeps ==
  ASSUME TypeOK, KeySubIsLive, UnopenedIsDead, TakeWait
  PROVE  SubsKept /\ (Queued(Head(cmds).waiter) => Head(cmds).waiter.key \in subscribed')
<1> DEFINE r == Head(cmds).waiter
<1>1. r \in Requests /\ r.key \in Keys
  BY HeadParts, RequestParts DEF TakeWait
<1>2. SubsTyped
  BY DEF TypeOK, SubsTyped
<1>3. ASSUME UNCHANGED subs PROVE SubsKept
  <2>1. UNCHANGED <<subscribed, keySub, bound, subKey, opened, troubles, deaf>>
    BY <1>3 DEF subs
  <2>2. SubsTyped' /\ opened <= opened'
    BY <1>2, <2>1 DEF SubsTyped
  <2>3. KeySubIsLive' /\ UnopenedIsDead'
    BY <2>1 DEF KeySubIsLive, UnopenedIsDead
  <2> QED BY <2>1, <2>2, <2>3 DEF SubsKept
<1>4. ASSUME r.key \notin subscribed, Subscribe(r.key, NoOrder), UNCHANGED deaf PROVE SubsKept
  BY <1>1, <1>2, <1>4, SubscribeKeeps DEF SubsTyped
<1>5. ASSUME r.key \notin subscribed, SubscribeFails(r.key), UNCHANGED <<keySub, deaf>>
      PROVE  SubsKept
  <2>1. /\ keySub' \in [Keys -> Subs \cup {NoSub}] /\ deaf' \subseteq Keys
        /\ \A q \in subscribed : keySub'[q] = keySub[q]
    BY <1>2, <1>5 DEF SubsTyped
  <2> QED BY <1>1, <1>2, <1>5, <2>1, FailureKeeps
<1>6. SubsKept
  BY <1>3, <1>4, <1>5, TakeWaitParts DEF RefusedForCap, RefusedForRelay, Queued
<1>7. ASSUME Queued(r) PROVE r.key \in subscribed'
  <2>1. CASE r.key \in subscribed
    BY <2>1, <1>6 DEF SubsKept
  <2>2. CASE r.key \notin subscribed
    BY <2>2, <1>7 DEF Queued, Subscribe
  <2> QED BY <2>1, <2>2
<1> QED BY <1>6, <1>7

LEMMA BootstrapKeeps ==
  ASSUME TypeOK, KeySubIsLive, UnopenedIsDead, NEW b \in boot, Bootstrap(b) PROVE SubsKept
<1>1. b.order \in Orders /\ b.key \in Keys
  BY DEF TypeOK
<1> QED BY <1>1, EnsureKeeps DEF Bootstrap, TypeOK, SubsTyped

\* The actions of the listener keep the types.
LEMMA ListenerTyped ==
  ASSUME TypeOK, KeySubIsLive, UnopenedIsDead, ListenerNext PROVE TypeOK'
<1> USE DEF tasks, world
<1>1. CASE TakeTrack
  <2>1. Head(cmds).order \in Orders /\ Head(cmds).key \in Keys /\ Tail(cmds) \in Seq(Cmds)
    BY <1>1, HeadParts, NoneAssumption DEF TakeTrack
  <2>2. indices' \in [Orders -> Keys \cup {NoKey}] /\ cmds' \in Seq(Cmds)
    BY <1>1, <2>1 DEF TakeTrack, TypeOK
  <2>3. SubsTyped'
    BY <1>1, TakeTrackKeeps DEF SubsKept
  <2> QED BY <1>1, <2>2, <2>3 DEF TakeTrack, TypeOK, SubsTyped
<1>2. CASE TakeWait
  <2> DEFINE r == Head(cmds).waiter
  <2>1. r \in Requests /\ Tail(cmds) \in Seq(Cmds)
    BY <1>2, HeadParts DEF TakeWait
  <2>2. waiters' \subseteq Requests
    BY <1>2, <2>1, TakeWaitParts
    DEF RefusedForCap, RefusedForRelay, Refused, Queued, prune_closed_waiters, Open, TypeOK
  <2>3. slot' \in [Requests -> {"none", "open", "answered", "dropped", "closed"}]
    BY <1>2, <2>1, TakeWaitParts DEF RefusedForCap, RefusedForRelay, Refused, Queued, TypeOK
  <2>4. SubsTyped'
    BY <1>2, TakeWaitKeeps DEF SubsKept
  <2> QED BY <1>2, <2>1, <2>2, <2>3, <2>4 DEF TakeWait, TypeOK, SubsTyped
<1>3. CASE PruneTick
  BY <1>3 DEF PruneTick, TypeOK, subs, prune_closed_waiters, Open
<1>4. CASE RouteBound
  <2>1. cur.sub \in Subs /\ cur.event.key \in Keys /\ bound[cur.sub] \in Orders
    BY <1>4 DEF RouteBound, TypeOK, Deliveries, Events
  <2> QED BY <1>4, <2>1 DEF RouteBound, TypeOK, Finished, Unmark
<1>5. CASE RouteByKey
  <2>1. cur.event.key \in Keys
    BY <1>5 DEF RouteByKey, TypeOK, Deliveries, Events
  <2> QED BY <1>5, <2>1 DEF RouteByKey, TypeOK, Finished, Unmark, ActiveWith
<1>6. ASSUME NEW b \in boot, Bootstrap(b) PROVE TypeOK'
  <2>1. SubsTyped' /\ KeySubIsLive'
    BY <1>6, BootstrapKeeps DEF SubsKept
  <2>2. inFlight' \subseteq Deliveries
    BY <1>6, <2>1 DEF Bootstrap, TypeOK, Deliveries, SubsTyped, KeySubIsLive
  <2> QED BY <1>6, <2>1, <2>2 DEF Bootstrap, TypeOK, SubsTyped
<1>7. ASSUME NEW d \in inFlight, Deliver(d) PROVE TypeOK'
  <2>1. d \in Deliveries /\ d.event \in Events
    BY DEF TypeOK, Deliveries
  <2> QED BY <1>7, <2>1 DEF Deliver, TypeOK, subs, Open, Satisfied
<1> QED BY <1>1, <1>2, <1>3, <1>4, <1>5, <1>6, <1>7 DEF ListenerNext

\* What Mostro publishes is an event, delivered to live subscriptions of its key.
LEMMA PublishTyped ==
  ASSUME TypeOK, NEW e \in Events, Publish(e) PROVE TypeOK'
<1>1. inFlight' \subseteq Deliveries
  BY DEF Publish, TypeOK, Deliveries, Live
<1> QED BY <1>1 DEF Publish, TypeOK, tasks, subs

\* An event Mostro publishes for a request is an event.
LEMMA MostroPublishes ==
  ASSUME NEW r \in Requests, MostroNext(r) PROVE \E e \in Events : Publish(e)
BY RequestParts DEF MostroNext, Reply, Push, Events

\* A respawn keeps the types.
LEMMA ReloadTyped == ASSUME TypeOK, Reload PROVE TypeOK'
BY BoundsAssumption DEF Reload, TypeOK, NoSub

\* The types after any step.
LEMMA NextTyped ==
  ASSUME TypeOK, KeySubIsLive, UnopenedIsDead, [Next]_vars PROVE TypeOK'
<1>1. CASE ListenerNext
  BY <1>1, ListenerTyped
<1>2. CASE Reload
  BY <1>2, ReloadTyped
<1>3. ASSUME NEW r \in Requests, TaskNext(r) PROVE TypeOK'
  BY <1>3, TaskTyped
<1>4. ASSUME NEW r \in Requests, MostroNext(r) PROVE TypeOK'
  BY <1>4, MostroPublishes, PublishTyped
<1>5. CASE UNCHANGED vars
  BY <1>5 DEF vars, tasks, subs, world, TypeOK
<1> QED BY <1>1, <1>2, <1>3, <1>4, <1>5 DEF Next

-----------------------------------------------------------------------------
(* The subscription tables and their deliveries.                           *)

SubsInv == KeySubIsLive /\ UnopenedIsDead /\ DeliveriesServed

\* Deliveries stay served while subscriptions are only added or rebound.
LEMMA StillServed ==
  ASSUME TypeOK, SubsKept, NEW d \in Deliveries, ServesKey(d) PROVE ServesKey(d)'
BY DEF SubsKept, ServesKey, Deliveries, TypeOK, SubsTyped, Subs

\* The end of an order takes the mark off its key and, when the subscription is
\* bound, the subscription away: no other key loses its subscription.
LEMMA RouteKeepsSubs ==
  ASSUME TypeOK, SubsInv, RouteBound \/ RouteByKey PROVE SubsInv'
<1> DEFINE k == cur.event.key
<1>1. cur \in Deliveries /\ k \in Keys /\ cur.sub \in Subs /\ subKey[cur.sub] \in {k, NoKey}
  BY DEF RouteBound, RouteByKey, TypeOK, Deliveries, Events, SubsInv, DeliveriesServed, ServesKey
<1>2. /\ UNCHANGED <<keySub, opened, inFlight>> /\ cur' = NoDelivery
      /\ subKey' = subKey \/ subKey' = [subKey EXCEPT ![cur.sub] = NoKey]
  BY DEF RouteBound, RouteByKey, world
<1>3. \/ subscribed' = subscribed /\ subKey' = subKey
      \/ subscribed' = subscribed \ {k}
  BY DEF RouteBound, RouteByKey, Finished, Unmark
<1>4. KeySubIsLive'
  <2> SUFFICES ASSUME NEW q \in subscribed' PROVE keySub[q] # NoSub /\ subKey'[keySub[q]] = q
    BY <1>2 DEF KeySubIsLive
  <2>1. q \in subscribed /\ q \in Keys /\ keySub[q] \in Subs /\ subKey[keySub[q]] = q
    BY <1>3 DEF SubsInv, KeySubIsLive, TypeOK
  <2>2. CASE subKey' = subKey
    BY <2>1, <2>2 DEF Subs, NoSub
  <2>3. CASE subscribed' = subscribed \ {k}
    <3>1. keySub[q] # cur.sub
      BY <2>1, <2>3, <1>1, NoneAssumption
    <3>2. subKey'[keySub[q]] = subKey[keySub[q]]
      BY <2>1, <3>1, <1>2 DEF TypeOK
    <3> QED BY <2>1, <3>2 DEF Subs, NoSub
  <2> QED BY <1>3, <2>2, <2>3
<1>5. UnopenedIsDead'
  BY <1>1, <1>2 DEF SubsInv, UnopenedIsDead, TypeOK
<1>6. DeliveriesServed'
  <2>1. ASSUME NEW d \in inFlight PROVE ServesKey(d)'
    BY <1>1, <1>2 DEF SubsInv, DeliveriesServed, ServesKey, TypeOK, Deliveries
  <2> QED BY <1>2, <2>1 DEF DeliveriesServed
<1> QED BY <1>4, <1>5, <1>6 DEF SubsInv

\* Startup delivers what it asks for to the subscription of the key.
LEMMA BootstrapKeepsSubs ==
  ASSUME TypeOK, SubsInv, NEW b \in boot, Bootstrap(b) PROVE SubsInv'
<1>1. SubsKept
  BY BootstrapKeeps DEF SubsInv
<1>2. ASSUME NEW d \in inFlight' PROVE ServesKey(d)'
  <2>1. CASE d \in inFlight
    BY <1>1, <2>1, StillServed DEF SubsInv, DeliveriesServed, TypeOK
  <2>2. CASE d \notin inFlight
    <3>1. d.event.key = b.key /\ d.sub = keySub'[b.key] /\ b.key \in subscribed'
      BY <1>2, <2>2 DEF Bootstrap
    <3>2. d.sub \in Subs /\ subKey'[d.sub] = b.key
      BY <1>1, <3>1 DEF SubsKept, SubsTyped, KeySubIsLive
    <3>3. b.key # NoKey
      BY NoneAssumption DEF TypeOK
    <3>4. d.sub <= opened'
      BY <1>1, <3>2, <3>3 DEF SubsKept, SubsTyped, UnopenedIsDead, Subs
    <3> QED BY <3>1, <3>2, <3>4 DEF ServesKey
  <2> QED BY <2>1, <2>2
<1>3. ASSUME cur' # NoDelivery PROVE ServesKey(cur)'
  BY <1>1, <1>3, StillServed DEF Bootstrap, SubsInv, DeliveriesServed, TypeOK, ServesKey
<1> QED BY <1>1, <1>2, <1>3 DEF SubsInv, SubsKept, DeliveriesServed

\* Every step keeps the subscription tables and their deliveries in step.
LEMMA NextKeepsSubs ==
  ASSUME TypeOK, SubsInv, [Next]_vars PROVE SubsInv'
<1>1. CASE TakeTrack \/ TakeWait
  <2>1. SubsKept
    BY <1>1, TakeTrackKeeps, TakeWaitKeeps DEF SubsInv
  <2>2. cur' = cur /\ inFlight' = inFlight
    BY <1>1 DEF TakeTrack, TakeWait, world
  <2>3. ASSUME NEW d \in inFlight' PROVE ServesKey(d)'
    BY <2>1, <2>2, StillServed DEF SubsInv, DeliveriesServed, TypeOK
  <2>4. ASSUME cur' # NoDelivery PROVE ServesKey(cur)'
    BY <2>1, <2>2, <2>4, StillServed DEF SubsInv, DeliveriesServed, TypeOK, ServesKey
  <2> QED BY <2>1, <2>3, <2>4 DEF SubsInv, SubsKept, DeliveriesServed
<1>2. CASE RouteBound \/ RouteByKey
  BY <1>2, RouteKeepsSubs
<1>3. ASSUME NEW b \in boot, Bootstrap(b) PROVE SubsInv'
  BY <1>3, BootstrapKeepsSubs
<1>4. ASSUME NEW d \in inFlight, Deliver(d) PROVE SubsInv'
  BY <1>4 DEF Deliver, subs, SubsInv, KeySubIsLive, UnopenedIsDead, DeliveriesServed, ServesKey
<1>5. ASSUME NEW r \in Requests, TaskNext(r) PROVE SubsInv'
  <2>1. UNCHANGED <<subscribed, keySub, subKey, opened, inFlight, cur>>
    BY <1>5 DEF TaskNext, Start, Register, Send, GiveUp, Resume, HandleResult, subs, world
  <2> QED BY <2>1 DEF SubsInv, KeySubIsLive, UnopenedIsDead, DeliveriesServed, ServesKey
<1>6. ASSUME NEW r \in Requests, MostroNext(r) PROVE SubsInv'
  <2>1. PICK e \in Events : Publish(e)
    BY <1>6, MostroPublishes
  <2>2. e.key \in Keys
    BY DEF Events
  <2>3. UNCHANGED <<subscribed, keySub, subKey, opened, cur>>
    BY <2>1 DEF Publish, subs
  <2>4. ASSUME NEW d \in inFlight' PROVE ServesKey(d)'
    <3>1. CASE d \in inFlight
      BY <2>3, <3>1 DEF SubsInv, DeliveriesServed, ServesKey
    <3>2. CASE d \notin inFlight
      <4>1. d.event = e /\ d.sub \in Live(e.key)
        BY <2>1, <2>4, <3>2 DEF Publish
      <4>2. d.sub \in Subs /\ subKey[d.sub] = e.key /\ e.key # NoKey
        BY <4>1, <2>2, NoneAssumption DEF Live
      <4>3. d.sub <= opened
        BY <4>2 DEF SubsInv, UnopenedIsDead, TypeOK, Subs
      <4> QED BY <4>1, <4>2, <4>3, <2>3 DEF ServesKey
    <3> QED BY <3>1, <3>2
  <2> QED BY <2>3, <2>4 DEF SubsInv, KeySubIsLive, UnopenedIsDead, DeliveriesServed, ServesKey
<1>7. CASE Reload
  BY <1>7 DEF Reload, SubsInv, KeySubIsLive, UnopenedIsDead, DeliveriesServed
<1>8. CASE PruneTick \/ UNCHANGED vars
  <2>1. UNCHANGED <<subscribed, keySub, subKey, opened, inFlight, cur>>
    BY <1>8 DEF PruneTick, vars, subs, world
  <2> QED BY <2>1 DEF SubsInv, KeySubIsLive, UnopenedIsDead, DeliveriesServed, ServesKey
<1> QED BY <1>1, <1>2, <1>3, <1>4, <1>5, <1>6, <1>7, <1>8 DEF Next, ListenerNext

-----------------------------------------------------------------------------
(* Waiters and registrations.                                              *)

WaitInv == WaiterIsMarked /\ NobodyWaitsForCur /\ WaitersRegistered /\ QueuedRegistered

\* A step in which registered requests stay registered, no channel opens again,
\* no registration is queued and no waiter is added keeps what is queued.
LEMMA QueueShrinks ==
  ASSUME TypeOK, QueuedRegistered,
         cmds' = cmds \/ (cmds # <<>> /\ cmds' = Tail(cmds)) \/ cmds' = <<>>
           \/ \E c \in Cmds : c.waiter = NoRequest /\ cmds' = Append(cmds, c),
         waiters' \subseteq waiters,
         \A r \in Requests \ waiters : Registered(r) => Registered(r)' \/ cmds' = <<>>
  PROVE  QueuedRegistered'
<1>1. cmds \in Seq(Cmds)
  BY DEF TypeOK
<1>2. CASE cmds' = cmds
  BY <1>2 DEF QueuedRegistered
<1>3. CASE cmds # <<>> /\ cmds' = Tail(cmds)
  <2>1. \A i \in DOMAIN cmds' : i + 1 \in DOMAIN cmds /\ cmds'[i] = cmds[i + 1] /\ i \in Nat
    BY <1>1, <1>3
  <2> QED BY <1>3, <2>1 DEF QueuedRegistered
<1>4. CASE cmds' = <<>>
  BY <1>4 DEF QueuedRegistered
<1>5. ASSUME NEW c \in Cmds, c.waiter = NoRequest, cmds' = Append(cmds, c)
      PROVE  QueuedRegistered'
  <2>1. \A i \in DOMAIN cmds' : cmds'[i].waiter \in Requests
                                  => i \in DOMAIN cmds /\ cmds'[i] = cmds[i]
    BY <1>1, <1>5, NoneAssumption
  <2> QED BY <1>5, <2>1 DEF QueuedRegistered
<1> QED BY <1>2, <1>3, <1>4, <1>5

\* Queueing a registration whose request has none yet.
LEMMA QueueGrows ==
  ASSUME TypeOK, WaitInv, NEW r \in Requests, Register(r) PROVE QueuedRegistered'
<1>1. cmds \in Seq(Cmds) /\ WaitCmd(r) \in Cmds /\ WaitCmd(r).waiter = r
  BY CmdTypes DEF TypeOK
<1>2. cmds' = Append(cmds, WaitCmd(r)) /\ waiters' = waiters /\ ~Registered(r) /\ Registered(r)'
  BY DEF Register, Registered, TypeOK
<1>3. \A q \in Requests : Registered(q) => Registered(q)'
  BY DEF Register, Registered, TypeOK
<1>4. \A i \in DOMAIN cmds' : \/ i \in DOMAIN cmds /\ cmds'[i] = cmds[i]
                              \/ i = Len(cmds) + 1 /\ i \notin DOMAIN cmds /\ cmds'[i].waiter = r
  BY <1>1, <1>2
<1>5. \A i \in DOMAIN cmds : cmds[i].waiter # r
  BY <1>2 DEF WaitInv, QueuedRegistered
<1>6. r \notin waiters
  BY <1>2 DEF WaitInv, WaitersRegistered
<1>7. SUFFICES ASSUME NEW i \in DOMAIN cmds', cmds'[i].waiter \in Requests
               PROVE  /\ RegisteredNext(cmds'[i].waiter) /\ cmds'[i].waiter \notin waiters'
                      /\ \A j \in DOMAIN cmds' : cmds'[j].waiter = cmds'[i].waiter => i = j
  BY DEF QueuedRegistered, Registered, RegisteredNext
<1>8. CASE i \in DOMAIN cmds /\ cmds'[i] = cmds[i]
  BY <1>2, <1>3, <1>4, <1>5, <1>7, <1>8 DEF WaitInv, QueuedRegistered, Registered, RegisteredNext
<1>9. CASE i = Len(cmds) + 1 /\ cmds'[i].waiter = r
  BY <1>2, <1>4, <1>5, <1>6, <1>9 DEF Registered, RegisteredNext
<1> QED BY <1>4, <1>8, <1>9

\* A request's task keeps the waiters in order.
LEMMA TaskKeepsWaiters ==
  ASSUME TypeOK, WaitInv, NEW r \in Requests, TaskNext(r) PROVE WaitInv'
<1>1. waiters' = waiters /\ subscribed' = subscribed /\ cur' = cur
  BY DEF TaskNext, Start, Register, Send, GiveUp, Resume, HandleResult, subs
<1>2. \A q \in Requests : Registered(q) => Registered(q)'
  BY DEF TaskNext, Start, Register, Send, GiveUp, Resume, HandleResult, Registered, TypeOK, tasks
<1>3. \A q \in waiters : q \in Requests /\ Registered(q)
  BY DEF WaitInv, WaitersRegistered, TypeOK
<1>4. \A q \in waiters : slot'[q] = "open" => slot[q] = "open"
  BY <1>3
  DEF TaskNext, Start, Register, Send, GiveUp, Resume, HandleResult, Registered, TypeOK, tasks
<1>5. WaiterIsMarked' /\ NobodyWaitsForCur'
  BY <1>1, <1>4 DEF WaitInv, WaiterIsMarked, NobodyWaitsForCur
<1>6. WaitersRegistered'
  BY <1>1, <1>2, <1>3 DEF WaitersRegistered
<1>7. QueuedRegistered'
  <2>1. CASE Register(r)
    BY <2>1, QueueGrows
  <2>2. CASE Start(r) \/ Send(r) \/ GiveUp(r) \/ Resume(r) \/ HandleResult(r)
    <3>1. cmds' = cmds \/ \E c \in Cmds : c.waiter = NoRequest /\ cmds' = Append(cmds, c)
      BY <2>2, RequestParts, CmdTypes
      DEF Start, Send, GiveUp, Resume, HandleResult, TrackReplied
    <3> QED BY <1>1, <1>2, <3>1, QueueShrinks DEF WaitInv
  <2> QED BY <2>1, <2>2 DEF TaskNext
<1> QED BY <1>5, <1>6, <1>7 DEF WaitInv

\* The listener takes a registration off the queue before it holds the waiter, and
\* marks the key.
LEMMA TakeWaitKeepsWaiters ==
  ASSUME TypeOK, SubsInv, WaitInv, TakeWait PROVE WaitInv'
<1> DEFINE r == Head(cmds).waiter
<1>1. r \in Requests /\ cmds \in Seq(Cmds) /\ cmds # <<>> /\ cmds' = Tail(cmds) /\ r = cmds[1].waiter
  BY HeadParts DEF TakeWait, TypeOK
<1>2. Registered(r) /\ r \notin waiters /\ \A j \in DOMAIN cmds : cmds[j].waiter = r => j = 1
  BY <1>1 DEF WaitInv, QueuedRegistered
<1>3. subscribed \subseteq subscribed' /\ (Queued(r) => r.key \in subscribed')
  BY TakeWaitKeeps DEF SubsInv, SubsKept
<1>4. cur = NoDelivery /\ cur' = NoDelivery /\ stage' = stage
  BY DEF TakeWait, Listening
<1>5. /\ waiters' \subseteq waiters \cup {r}
      /\ r \in waiters' => Queued(r)
      /\ \A q \in Requests : q # r \/ Queued(r) => slot'[q] = slot[q]
  BY <1>1, <1>2, TakeWaitParts
  DEF RefusedForCap, RefusedForRelay, Refused, Queued, prune_closed_waiters, Open, TypeOK
<1>6. WaiterIsMarked'
  BY <1>1, <1>3, <1>5 DEF WaitInv, WaiterIsMarked, TypeOK
<1>7. WaitersRegistered'
  BY <1>1, <1>2, <1>4, <1>5 DEF WaitInv, WaitersRegistered, Registered, TypeOK
<1>8. QueuedRegistered'
  <2>1. \A i \in DOMAIN cmds' : i \in Nat /\ i + 1 \in DOMAIN cmds /\ i + 1 # 1 /\ cmds'[i] = cmds[i + 1]
    BY <1>1
  <2>2. \A i \in DOMAIN cmds' : cmds'[i].waiter # r
    BY <1>2, <2>1
  <2>3. SUFFICES ASSUME NEW i \in DOMAIN cmds', cmds'[i].waiter \in Requests
                 PROVE  /\ RegisteredNext(cmds'[i].waiter) /\ cmds'[i].waiter \notin waiters'
                        /\ \A j \in DOMAIN cmds' : cmds'[j].waiter = cmds'[i].waiter => i = j
    BY DEF QueuedRegistered, Registered, RegisteredNext
  <2>4. Registered(cmds[i + 1].waiter) /\ cmds[i + 1].waiter \notin waiters
    BY <2>1, <2>3 DEF WaitInv, QueuedRegistered
  <2>5. RegisteredNext(cmds'[i].waiter) /\ cmds'[i].waiter \notin waiters'
    BY <1>4, <1>5, <2>1, <2>2, <2>3, <2>4 DEF Registered, RegisteredNext
  <2>6. ASSUME NEW j \in DOMAIN cmds', cmds'[j].waiter = cmds'[i].waiter PROVE i = j
    BY <2>1, <2>3, <2>6 DEF WaitInv, QueuedRegistered
  <2> QED BY <2>5, <2>6
<1> QED BY <1>4, <1>6, <1>7, <1>8 DEF WaitInv, NobodyWaitsForCur

\* An event satisfies every open waiter of its key before it is routed on, so the
\* end of the order unmarks a key nobody waits for.
LEMMA EventKeepsWaiters ==
  ASSUME TypeOK, WaitInv,
         RouteBound \/ RouteByKey \/ \E d \in inFlight : Deliver(d)
  PROVE  WaitInv'
<1>1. CASE RouteBound \/ RouteByKey
  <2>1. /\ UNCHANGED <<waiters, slot, stage, cmds>> /\ cur' = NoDelivery /\ cur # NoDelivery
        /\ subscribed' = subscribed \/ subscribed' = subscribed \ {cur.event.key}
    BY <1>1 DEF RouteBound, RouteByKey, Finished, Unmark, tasks
  <2>2. WaiterIsMarked'
    BY <2>1 DEF WaitInv, WaiterIsMarked, NobodyWaitsForCur
  <2> QED BY <2>1, <2>2
      DEF WaitInv, NobodyWaitsForCur, WaitersRegistered, QueuedRegistered, Registered
<1>2. ASSUME NEW d \in inFlight, Deliver(d) PROVE WaitInv'
  <2>1. /\ waiters' \subseteq waiters /\ UNCHANGED <<cmds, stage, subscribed>> /\ cur' = d
        /\ \A q \in waiters' : q \notin Satisfied(d.event)
        /\ \A q \in Requests : q \notin Satisfied(d.event) => slot'[q] = slot[q]
    BY <1>2 DEF Deliver, Open, subs
  <2>2. Satisfied(d.event) \subseteq waiters /\ waiters \subseteq Requests
    BY DEF Satisfied, TypeOK
  <2>3. WaiterIsMarked' /\ WaitersRegistered'
    BY <2>1, <2>2 DEF WaitInv, WaiterIsMarked, WaitersRegistered, Registered
  <2>4. NobodyWaitsForCur'
    BY <2>1, <2>2 DEF NobodyWaitsForCur, Satisfied
  <2>5. \A q \in Requests \ waiters : Registered(q) => Registered(q)'
    BY <2>1, <2>2 DEF Registered
  <2> QED BY <2>1, <2>3, <2>4, <2>5, QueueShrinks DEF WaitInv
<1> QED BY <1>1, <1>2

\* Every step keeps the waiters in order.
LEMMA NextKeepsWaiters ==
  ASSUME TypeOK, SubsInv, WaitInv, [Next]_vars PROVE WaitInv'
<1>1. CASE TakeTrack
  <2>1. /\ UNCHANGED <<waiters, stage, slot, cur>> /\ cmds # <<>> /\ cmds' = Tail(cmds)
    BY <1>1 DEF TakeTrack, tasks
  <2>2. subscribed \subseteq subscribed'
    BY <1>1, TakeTrackKeeps DEF SubsInv, SubsKept
  <2>3. QueuedRegistered'
    BY <2>1, QueueShrinks DEF WaitInv, Registered
  <2> QED BY <2>1, <2>2, <2>3
      DEF WaitInv, WaiterIsMarked, NobodyWaitsForCur, WaitersRegistered, Registered
<1>2. CASE TakeWait
  BY <1>2, TakeWaitKeepsWaiters
<1>3. CASE PruneTick
  <2>1. waiters' \subseteq waiters /\ UNCHANGED <<cmds, stage, slot, subscribed, cur>>
    BY <1>3 DEF PruneTick, prune_closed_waiters, Open, tasks, subs
  <2> QED BY <2>1
      DEF WaitInv, WaiterIsMarked, NobodyWaitsForCur, WaitersRegistered, QueuedRegistered, Registered
<1>4. ASSUME NEW b \in boot, Bootstrap(b) PROVE WaitInv'
  <2>1. UNCHANGED <<waiters, stage, slot, cur, cmds>>
    BY <1>4 DEF Bootstrap, tasks
  <2>2. subscribed \subseteq subscribed'
    BY <1>4, BootstrapKeeps DEF SubsInv, SubsKept
  <2> QED BY <2>1, <2>2
      DEF WaitInv, WaiterIsMarked, NobodyWaitsForCur, WaitersRegistered, QueuedRegistered, Registered
<1>5. CASE RouteBound \/ RouteByKey \/ \E d \in inFlight : Deliver(d)
  BY <1>5, EventKeepsWaiters
<1>6. ASSUME NEW r \in Requests, TaskNext(r) PROVE WaitInv'
  BY <1>6, TaskKeepsWaiters
<1>7. CASE (\E r \in Requests : MostroNext(r)) \/ UNCHANGED vars
  <2>1. UNCHANGED <<waiters, stage, slot, cur, cmds, subscribed>>
    BY <1>7, MostroPublishes DEF Publish, vars, tasks, subs
  <2> QED BY <2>1
      DEF WaitInv, WaiterIsMarked, NobodyWaitsForCur, WaitersRegistered, QueuedRegistered, Registered
<1>8. CASE Reload
  BY <1>8
  DEF Reload, WaitInv, WaiterIsMarked, NobodyWaitsForCur, WaitersRegistered, QueuedRegistered
<1> QED BY <1>1, <1>2, <1>3, <1>4, <1>5, <1>6, <1>7, <1>8 DEF Next, ListenerNext

-----------------------------------------------------------------------------
(* The theorems.                                                           *)

\* Together the three parts are inductive.
THEOREM Invariance == Spec => [](TypeOK /\ SubsInv /\ WaitInv)
<1>1. Init => TypeOK /\ SubsInv /\ WaitInv
  BY InitTyped
  DEF Init, SubsInv, KeySubIsLive, UnopenedIsDead, DeliveriesServed,
      WaitInv, WaiterIsMarked, NobodyWaitsForCur, WaitersRegistered, QueuedRegistered
<1>2. TypeOK /\ SubsInv /\ WaitInv /\ [Next]_vars => (TypeOK /\ SubsInv /\ WaitInv)'
  BY NextTyped, NextKeepsSubs, NextKeepsWaiters DEF SubsInv
<1> QED BY <1>1, <1>2, PTL DEF Spec

\* Type correctness of the router.
THEOREM TypeCorrect == Spec => []TypeOK
BY Invariance, PTL

\* A marked key always has a live subscription under its remembered id.
THEOREM KeySubIsLiveHolds == Spec => []KeySubIsLive
<1>1. TypeOK /\ SubsInv /\ WaitInv => KeySubIsLive
  BY DEF SubsInv
<1> QED BY <1>1, Invariance, PTL

\* A registered waiter whose task still waits always has a live subscription.
THEOREM WaiterIsHeardHolds == Spec => []WaiterIsHeard
<1>1. TypeOK /\ SubsInv /\ WaitInv => WaiterIsHeard
  BY DEF SubsInv, WaitInv, WaiterIsMarked, KeySubIsLive, WaiterIsHeard, Live, TypeOK
<1> QED BY <1>1, Invariance, PTL

\* The steps of the listener that cancel a waiting request.
LEMMA RefusalHasReason ==
  ASSUME TypeOK, WaitInv, [Next]_vars, ~Reload,
         NEW r \in Requests, slot[r] = "open", slot'[r] = "dropped"
  PROVE  \/ Cardinality({q \in waiters : slot[q] = "open"}) >= MaxWaiters
         \/ troubles' # troubles
<1>1. TakeWait
  <2>1. \A q \in Requests : TaskNext(q) => slot'[r] # "dropped"
    BY DEF TaskNext, Start, Register, Send, GiveUp, Resume, HandleResult, TypeOK, tasks
  <2>2. \A d \in inFlight : Deliver(d) => slot'[r] # "dropped"
    BY DEF Deliver
  <2>3. \A q \in Requests : MostroNext(q) => slot' = slot
    BY MostroPublishes DEF Publish, tasks
  <2>4. TakeTrack \/ PruneTick \/ RouteBound \/ RouteByKey \/ (\E b \in boot : Bootstrap(b))
          \/ UNCHANGED vars => slot' = slot
    BY DEF TakeTrack, PruneTick, RouteBound, RouteByKey, Bootstrap, vars, tasks
  <2> QED BY <2>1, <2>2, <2>3, <2>4 DEF Next, ListenerNext
<1>2. prune_closed_waiters(waiters) = {q \in waiters : slot[q] = "open"}
  BY DEF prune_closed_waiters, Open, WaitInv, WaitersRegistered, Registered
<1>3. CASE RefusedForCap(Head(cmds).waiter)
  BY <1>2, <1>3 DEF RefusedForCap
<1>4. CASE RefusedForRelay(Head(cmds).waiter)
  BY <1>4 DEF RefusedForRelay, SubscribeFails, TypeOK
<1>5. CASE Queued(Head(cmds).waiter)
  BY <1>5 DEF Queued
<1> QED BY <1>1, <1>3, <1>4, <1>5, TakeWaitParts

\* A waiting request is canceled only at the cap, with as many requests really
\* waiting, or when its key cannot be subscribed to or the listener is replaced.
THEOREM RefusedOnlyWhenFullHolds == Spec => RefusedOnlyWhenFull
<1> DEFINE P == \A r \in Requests : slot[r] = "open" /\ slot'[r] = "dropped"
                  => \/ Cardinality({q \in waiters : slot[q] = "open"}) >= MaxWaiters
                     \/ troubles' # troubles
<1>1. TypeOK /\ SubsInv /\ WaitInv /\ [Next]_vars => [P]_vars
  <2> SUFFICES ASSUME TypeOK, WaitInv, [Next]_vars PROVE P
    OBVIOUS
  <2>1. CASE Reload
    BY <2>1 DEF Reload, TypeOK
  <2>2. CASE ~Reload
    BY <2>2, RefusalHasReason
  <2> QED BY <2>1, <2>2
<1> QED BY <1>1, Invariance, PTL DEF Spec, RefusedOnlyWhenFull

-----------------------------------------------------------------------------
(* Whom a key belongs to.                                                  *)

Openers == {r \in Requests : Opening(r)}

\* The order o was opened under key k, by a create or take that is through.
OpenedBy(o, k) == \E r \in Openers : r.order = o /\ r.key = k /\ stage[r] = "done"

\* A create or take is on its way: the command that tracks its order is yet to come.
Pending(r) ==
  stage[r] # "idle" /\ r \notin stale /\ (stage[r] = "done" => Tracking(r.order, r.key))

Delivered == inFlight \cup ({cur} \ {NoDelivery})

\* Nothing of key k is at the relay.
Unheard(k) ==
  /\ k \notin subscribed /\ \A s \in Subs : subKey[s] # k
  /\ \A d \in Delivered : d.event.key # k
Named(k) == \E i \in DOMAIN cmds : cmds[i].key = k
IsTrack(i, k) == cmds[i].waiter = NoRequest /\ cmds[i].key = k

\* Keys of creates and takes not yet begun are untouched; everything stored,
\* tracked or hydrated was opened by one that is.
StaleWasBegun == \A r \in stale : stage[r] # "idle"
LaterFollows == \A q \in Requests : ~Opening(q) /\ stage[q] # "idle" => OpenedBy(q.order, q.key)
StoredWasOpened == \A o \in Orders : stored[o] # NoKey => OpenedBy(o, stored[o])
BootWasOpened ==
  \A b \in boot : OpenedBy(b.order, b.key) /\ \A i \in DOMAIN cmds : ~IsTrack(i, b.key)
TracksAreOurs ==
  \A i \in DOMAIN cmds : cmds[i].waiter = NoRequest =>
    \E r \in Openers : r.key = cmds[i].key /\ r \notin stale /\ stage[r] # "idle"
IdleIsUntouched ==
  \A r \in Openers : stage[r] = "idle" => Unheard(r.key) /\ ~Named(r.key)
OpeningInv ==
  /\ StaleWasBegun /\ LaterFollows /\ StoredWasOpened /\ BootWasOpened /\ TracksAreOurs
  /\ IdleIsUntouched

\* Opening requests of one key are one, and name its order.
LEMMA OneOpener ==
  /\ \A r, q \in Openers : r.key = q.key => r = q
  /\ \A r, q \in Requests : r.key = q.key => r.order = q.order
BY KeysAssumption DEF Openers

\* How the tasks advance.
LEMMA StagesAdvance ==
  ASSUME TypeOK, [Next]_vars, NEW r \in Requests
  PROVE  /\ stage[r] # "idle" => stage'[r] # "idle"
         /\ stage[r] = "done" => stage'[r] = "done"
         /\ stage[r] = "idle" /\ stage'[r] # "idle" => Start(r)
         /\ stage[r] # "done" /\ stage'[r] = "done" => Resume(r)
<1>1. ASSUME NEW q \in Requests, TaskNext(q)
      PROVE  /\ stage[r] # "idle" => stage'[r] # "idle"
             /\ stage[r] = "done" => stage'[r] = "done"
             /\ stage[r] = "idle" /\ stage'[r] # "idle" => Start(r)
             /\ stage[r] # "done" /\ stage'[r] = "done" => Resume(r)
  <2>1. CASE Start(q)
    BY <2>1 DEF Start, TypeOK
  <2>2. CASE Register(q) \/ Send(q) \/ GiveUp(q) \/ HandleResult(q)
    BY <2>2 DEF Register, Send, GiveUp, HandleResult, TypeOK, tasks
  <2>3. CASE Resume(q)
    BY <2>3 DEF Resume, TypeOK
  <2> QED BY <1>1, <2>1, <2>2, <2>3 DEF TaskNext
<1>2. ASSUME ~ \E q \in Requests : TaskNext(q) PROVE stage' = stage
  <2>1. \A q \in Requests : MostroNext(q) => stage' = stage
    BY MostroPublishes DEF Publish, tasks
  <2> QED BY <1>2, <2>1
      DEF Next, ListenerNext, TakeTrack, TakeWait, PruneTick, RouteBound, RouteByKey, Bootstrap,
          Deliver, Reload, vars, tasks
<1> QED BY <1>1, <1>2

\* Only a respawn leaves tasks behind with a replaced listener.
LEMMA StaleKept == ASSUME [Next]_vars, ~Reload PROVE stale' = stale
<1>1. \A r \in Requests : TaskNext(r) => stale' = stale
  BY DEF TaskNext, Start, Register, Send, GiveUp, Resume, HandleResult, tasks
<1>2. \A r \in Requests : MostroNext(r) => stale' = stale
  BY MostroPublishes DEF Publish, tasks
<1> QED BY <1>1, <1>2
    DEF Next, ListenerNext, TakeTrack, TakeWait, PruneTick, RouteBound, RouteByKey, Bootstrap,
        Deliver, vars, tasks

\* What was opened stays opened.
LEMMA OpenedStays ==
  ASSUME TypeOK, [Next]_vars, NEW o, NEW k, OpenedBy(o, k) PROVE OpenedBy(o, k)'
BY StagesAdvance DEF OpenedBy, Openers

\* The command queue only loses its head, is dropped, or takes a command at its end:
\* a registration, or the tracking of the order of a create or take.
TracksFor(r, c) ==
  /\ r \in Openers /\ r \notin stale /\ c.waiter = NoRequest /\ c.key = r.key
  /\ \/ Start(r)
     \/ Resume(r) /\ c.order = r.order
Waits(q, c) == Register(q) /\ c.waiter = q /\ c.key = q.key
CmdsAfter ==
  \/ cmds' = cmds
  \/ cmds # <<>> /\ cmds' = Tail(cmds) /\ (TakeTrack \/ TakeWait)
  \/ cmds' = <<>> /\ Reload
  \/ \E c \in Cmds, r \in Requests : cmds' = Append(cmds, c) /\ (TracksFor(r, c) \/ Waits(r, c))

\* The queue changes in no other way.
LEMMA CmdsChange ==
  ASSUME TypeOK, StaleWasBegun, [Next]_vars PROVE CmdsAfter
<1>1. ASSUME NEW r \in Requests, TaskNext(r) PROVE CmdsAfter
  <2>1. CASE Start(r)
    <3>1. CASE r.kind = "take"
      <4> DEFINE c == TrackCmd(r.asked, r.key)
      <4>1. c \in Cmds /\ c.waiter = NoRequest /\ c.key = r.key
        BY <3>1, RequestParts, CmdTypes DEF TrackCmd
      <4>2. r \in Openers /\ r \notin stale /\ cmds' = Append(cmds, c)
        BY <2>1, <3>1 DEF Start, Openers, Opening, StaleWasBegun
      <4> HIDE DEF c
      <4>3. TracksFor(r, c)
        BY <2>1, <4>1, <4>2 DEF TracksFor
      <4> QED BY <4>1, <4>2, <4>3 DEF CmdsAfter
    <3>2. CASE r.kind # "take"
      BY <2>1, <3>2 DEF Start, CmdsAfter
    <3> QED BY <3>1, <3>2
  <2>2. CASE Register(r)
    <3> DEFINE c == WaitCmd(r)
    <3>1. c \in Cmds /\ c.waiter = r /\ c.key = r.key /\ cmds' = Append(cmds, c)
      BY <2>2, CmdTypes DEF Register, WaitCmd
    <3> HIDE DEF c
    <3> QED BY <2>2, <3>1 DEF CmdsAfter, Waits
  <2>3. CASE Send(r) \/ GiveUp(r) \/ HandleResult(r)
    BY <2>3 DEF Send, GiveUp, HandleResult, CmdsAfter
  <2>4. CASE Resume(r)
    <3>1. CASE Accepted(r) /\ Opening(r) /\ r \notin stale
      <4> DEFINE c == TrackReplied(r)
      <4>1. c \in Cmds /\ c.waiter = NoRequest /\ c.key = r.key /\ c.order = r.order
        BY RequestParts, CmdTypes DEF TrackReplied, TrackCmd
      <4>2. cmds' = Append(cmds, c)
        BY <2>4, <3>1 DEF Resume
      <4> HIDE DEF c
      <4> QED BY <2>4, <3>1, <4>1, <4>2 DEF CmdsAfter, TracksFor, Openers
    <3>2. CASE ~(Accepted(r) /\ Opening(r) /\ r \notin stale)
      BY <2>4, <3>2 DEF Resume, CmdsAfter
    <3> QED BY <3>1, <3>2
  <2> QED BY <1>1, <2>1, <2>2, <2>3, <2>4 DEF TaskNext
<1>2. ASSUME ~ \E q \in Requests : TaskNext(q) PROVE CmdsAfter
  <2>1. \A q \in Requests : MostroNext(q) => cmds' = cmds
    BY MostroPublishes DEF Publish
  <2> QED BY <1>2, <2>1
      DEF Next, ListenerNext, TakeTrack, TakeWait, PruneTick, RouteBound, RouteByKey, Bootstrap,
          Deliver, Reload, vars, CmdsAfter
<1> QED BY <1>1, <1>2

\* Where a command after the step was before it.
LEMMA CmdAt ==
  ASSUME TypeOK, CmdsAfter, NEW i \in DOMAIN cmds'
  PROVE  \/ i \in DOMAIN cmds /\ cmds'[i] = cmds[i] /\ cmds' = cmds
         \/ /\ i \in Nat /\ i + 1 \in DOMAIN cmds /\ i + 1 # 1 /\ cmds'[i] = cmds[i + 1]
            /\ cmds # <<>> /\ cmds' = Tail(cmds) /\ 1 \in DOMAIN cmds /\ Head(cmds) = cmds[1]
            /\ TakeTrack \/ TakeWait
         \/ \E c \in Cmds, r \in Requests :
              /\ cmds' = Append(cmds, c) /\ (TracksFor(r, c) \/ Waits(r, c))
              /\ \/ i \in DOMAIN cmds /\ cmds'[i] = cmds[i]
                 \/ i = Len(cmds) + 1 /\ i \notin DOMAIN cmds /\ cmds'[i] = c
<1>1. cmds \in Seq(Cmds)
  BY DEF TypeOK
<1>2. CASE cmds' = cmds
  BY <1>2
<1>3. CASE cmds # <<>> /\ cmds' = Tail(cmds) /\ (TakeTrack \/ TakeWait)
  BY <1>1, <1>3
<1>4. CASE cmds' = <<>>
  BY <1>4
<1>5. ASSUME NEW c \in Cmds, NEW r \in Requests, cmds' = Append(cmds, c),
             TracksFor(r, c) \/ Waits(r, c)
      PROVE  /\ cmds' = Append(cmds, c) /\ (TracksFor(r, c) \/ Waits(r, c))
             /\ \/ i \in DOMAIN cmds /\ cmds'[i] = cmds[i]
                \/ i = Len(cmds) + 1 /\ i \notin DOMAIN cmds /\ cmds'[i] = c
  BY <1>1, <1>5
<1> QED BY <1>2, <1>3, <1>4, <1>5 DEF CmdsAfter

\* Opening a subscription for a key concerns that key only.
LEMMA SubscribeFrame ==
  ASSUME SubsTyped, NEW k \in Keys, NEW o \in Orders \cup {NoOrder},
         \/ ensure_order_dm_subscription(k, o) \/ Subscribe(k, o) \/ SubscribeFails(k)
  PROVE  /\ subscribed' \subseteq subscribed \cup {k} /\ subscribed \ {k} \subseteq subscribed'
         /\ \A s \in Subs : subKey'[s] \in {subKey[s], k}
BY DEF ensure_order_dm_subscription, Subscribe, SubscribeFails, SubsTyped

\* Nothing of a key comes to the relay but by a command that names it, or at startup.
LEMMA UnheardStays ==
  ASSUME TypeOK, [Next]_vars, NEW k \in Keys, Unheard(k),
         TakeTrack \/ TakeWait => Head(cmds).key # k, \A b \in boot : b.key # k
  PROVE  Unheard(k)'
<1>1. SubsTyped
  BY DEF TypeOK, SubsTyped
<1>2. CASE TakeTrack
  <2> DEFINE h == Head(cmds)
  <2>1. h.key \in Keys /\ h.order \in Orders /\ h.key # k
    BY <1>2, HeadParts, NoneAssumption DEF TakeTrack
  <2>2. ensure_order_dm_subscription(h.key, h.order) /\ cur' = cur /\ inFlight' = inFlight
    BY <1>2 DEF TakeTrack, world
  <2> HIDE DEF h
  <2> QED BY <1>1, <2>1, <2>2, SubscribeFrame DEF Unheard, Delivered
<1>3. CASE TakeWait
  <2> DEFINE r == Head(cmds).waiter
  <2>1. r \in Requests /\ r.key \in Keys /\ r.key # k
    BY <1>3, HeadParts, RequestParts DEF TakeWait
  <2>2. cur' = cur /\ inFlight' = inFlight
    BY <1>3 DEF TakeWait, world
  <2>3. UNCHANGED subs \/ Subscribe(r.key, NoOrder) \/ SubscribeFails(r.key)
    BY <1>3, TakeWaitParts DEF RefusedForCap, RefusedForRelay, Queued
  <2> HIDE DEF r
  <2>4. CASE UNCHANGED subs
    BY <2>2, <2>4 DEF subs, Unheard, Delivered
  <2>5. CASE Subscribe(r.key, NoOrder) \/ SubscribeFails(r.key)
    BY <1>1, <2>1, <2>2, <2>5, SubscribeFrame DEF Unheard, Delivered
  <2> QED BY <2>3, <2>4, <2>5
<1>4. CASE RouteBound \/ RouteByKey
  <2>1. /\ subscribed' \subseteq subscribed /\ cur' = NoDelivery /\ inFlight' = inFlight
        /\ \A s \in Subs : subKey'[s] \in {subKey[s], NoKey}
    BY <1>4 DEF RouteBound, RouteByKey, Finished, Unmark, world, TypeOK
  <2> QED BY <2>1, NoneAssumption DEF Unheard, Delivered
<1>5. ASSUME NEW b \in boot, Bootstrap(b) PROVE Unheard(k)'
  <2>1. b.key \in Keys /\ b.order \in Orders /\ b.key # k
    BY DEF TypeOK
  <2>2. ensure_order_dm_subscription(b.key, b.order) /\ cur' = cur
    BY <1>5 DEF Bootstrap
  <2>3. \A d \in inFlight' : d \in inFlight \/ d.event.key = b.key
    BY <1>5 DEF Bootstrap
  <2> QED BY <1>1, <2>1, <2>2, <2>3, SubscribeFrame DEF Unheard, Delivered
<1>6. ASSUME NEW d \in inFlight, Deliver(d) PROVE Unheard(k)'
  BY <1>6 DEF Deliver, subs, Unheard, Delivered
<1>7. ASSUME NEW r \in Requests, MostroNext(r) PROVE Unheard(k)'
  <2>1. PICK e \in Events : Publish(e)
    BY <1>7, MostroPublishes
  <2>2. \A d \in inFlight' : d \in inFlight \/ (d.event = e /\ Live(e.key) # {})
    BY <2>1 DEF Publish
  <2>3. \A d \in inFlight' : d \in inFlight \/ d.event.key # k
    BY <2>2 DEF Live, Unheard
  <2> QED BY <2>1, <2>3 DEF Publish, subs, Unheard, Delivered
<1>8. ASSUME NEW r \in Requests, TaskNext(r) PROVE Unheard(k)'
  <2>1. UNCHANGED <<subscribed, subKey, inFlight, cur>>
    BY <1>8 DEF TaskNext, Start, Register, Send, GiveUp, Resume, HandleResult, subs, world
  <2> QED BY <2>1 DEF Unheard, Delivered
<1>9. CASE PruneTick \/ UNCHANGED vars
  BY <1>9 DEF PruneTick, vars, subs, world, Unheard, Delivered
<1>10. CASE Reload
  BY <1>10, NoneAssumption DEF Reload, Unheard, Delivered
<1> QED BY <1>2, <1>3, <1>4, <1>5, <1>6, <1>7, <1>8, <1>9, <1>10 DEF Next, ListenerNext

\* What the rows and the startup list name after the step.
LEMMA StoredChange ==
  ASSUME TypeOK, [Next]_vars
  PROVE  /\ \A o \in Orders : stored'[o] # NoKey =>
              \/ stored'[o] = stored[o]
              \/ \E r \in Openers : Resume(r) /\ stage'[r] = "done" /\ r.order = o /\ stored'[o] = r.key
         /\ \/ boot' \subseteq boot
            \/ Reload /\ \A b \in boot' : b.order \in Orders /\ stored[b.order] = b.key /\ b.key # NoKey
<1>1. ASSUME NEW r \in Requests, TaskNext(r)
      PROVE  /\ boot' = boot
             /\ \A o \in Orders : stored'[o] = stored[o] \/
                  \E q \in Openers : Resume(q) /\ stage'[q] = "done" /\ q.order = o /\ stored'[o] = q.key
  <2>1. CASE Resume(r) /\ Accepted(r) /\ Opening(r)
    <3>1. r \in Openers /\ stage'[r] = "done" /\ boot' = boot /\ stored' = [stored EXCEPT ![r.order] = r.key]
      BY <2>1 DEF Resume, Openers, TypeOK
    <3> QED BY <2>1, <3>1 DEF TypeOK
  <2>2. CASE Resume(r) /\ ~(Accepted(r) /\ Opening(r))
    BY <2>2 DEF Resume
  <2>3. CASE Start(r) \/ Register(r) \/ Send(r) \/ GiveUp(r) \/ HandleResult(r)
    BY <2>3 DEF Start, Register, Send, GiveUp, HandleResult
  <2> QED BY <1>1, <2>1, <2>2, <2>3 DEF TaskNext
<1>2. CASE RouteBound \/ RouteByKey
  BY <1>2 DEF RouteBound, RouteByKey, Finished, TypeOK
<1>3. CASE Reload
  BY <1>3 DEF Reload
<1>4. ASSUME NEW r \in Requests, MostroNext(r) PROVE stored' = stored /\ boot' = boot
  BY <1>4, MostroPublishes DEF Publish
<1>5. CASE TakeTrack \/ TakeWait \/ PruneTick \/ (\E d \in inFlight : Deliver(d)) \/ UNCHANGED vars
  BY <1>5 DEF TakeTrack, TakeWait, PruneTick, Deliver, vars
<1>6. ASSUME NEW b \in boot, Bootstrap(b) PROVE stored' = stored /\ boot' \subseteq boot
  BY <1>6 DEF Bootstrap
<1> QED BY <1>1, <1>2, <1>3, <1>4, <1>5, <1>6 DEF Next, ListenerNext

\* Every step keeps the record of who opened what.
LEMMA NextKeepsOpening ==
  ASSUME TypeOK, OpeningInv, [Next]_vars PROVE OpeningInv'
<1>1. CmdsAfter
  BY CmdsChange DEF OpeningInv
<1>2. StaleWasBegun'
  <2>1. \A r \in stale' : r \in Requests /\ (r \in stale \/ stage[r] # "idle")
    <3>1. CASE Reload
      BY <3>1 DEF Reload, TypeOK
    <3> QED BY <3>1, StaleKept DEF TypeOK
  <2> QED BY <2>1, StagesAdvance DEF OpeningInv, StaleWasBegun
<1>3. LaterFollows'
  <2> SUFFICES ASSUME NEW q \in Requests, ~Opening(q), stage'[q] # "idle"
               PROVE  OpenedBy(q.order, q.key)'
    BY DEF LaterFollows
  <2>1. CASE stage[q] # "idle"
    BY <2>1, OpenedStays DEF OpeningInv, LaterFollows
  <2>2. CASE stage[q] = "idle"
    <3>1. stored[q.order] = q.key /\ q.key \in Keys /\ q.order \in Orders
      BY <2>2, StagesAdvance, RequestParts DEF Start, MayStart, Opening
    <3> QED BY <3>1, NoneAssumption, OpenedStays DEF OpeningInv, StoredWasOpened
  <2> QED BY <2>1, <2>2
<1>4. StoredWasOpened'
  <2> SUFFICES ASSUME NEW o \in Orders, stored'[o] # NoKey
               PROVE  \E r \in Openers : r.order = o /\ r.key = stored'[o] /\ stage'[r] = "done"
    BY DEF StoredWasOpened, OpenedBy, Openers, Opening
  <2>1. CASE stored'[o] = stored[o]
    BY <2>1, StagesAdvance DEF OpeningInv, StoredWasOpened, OpenedBy, Openers
  <2> QED BY <2>1, StoredChange
<1>5. BootWasOpened'
  <2> SUFFICES ASSUME NEW b \in boot'
               PROVE  OpenedBy(b.order, b.key)' /\ \A i \in DOMAIN cmds' : ~IsTrack(i, b.key)'
    BY DEF BootWasOpened
  <2>1. CASE Reload
    BY <2>1, StoredChange, OpenedStays DEF Reload, OpeningInv, StoredWasOpened, BootWasOpened
  <2>2. CASE b \in boot /\ ~Reload
    <3>1. OpenedBy(b.order, b.key) /\ \A i \in DOMAIN cmds : ~IsTrack(i, b.key)
      BY <2>2 DEF OpeningInv, BootWasOpened
    <3>2. ASSUME NEW r \in Requests, NEW c \in Cmds, TracksFor(r, c) PROVE c.key # b.key
      BY <3>1, <3>2, OneOpener DEF TracksFor, OpenedBy, Start, Resume
    <3>3. ASSUME NEW r \in Requests, NEW c \in Cmds, Waits(r, c) PROVE c.waiter # NoRequest
      BY <3>3, NoneAssumption DEF Waits
    <3>4. ASSUME NEW i \in DOMAIN cmds' PROVE ~IsTrack(i, b.key)'
      BY <1>1, <3>1, <3>2, <3>3, CmdAt DEF IsTrack
    <3> QED BY <3>1, <3>4, OpenedStays
  <2> QED BY <2>1, <2>2, StoredChange
<1>6. TracksAreOurs'
  <2> SUFFICES ASSUME NEW i \in DOMAIN cmds', cmds'[i].waiter = NoRequest
               PROVE  \E r \in Openers : r.key = cmds'[i].key /\ r \notin stale' /\ stage'[r] # "idle"
    BY DEF TracksAreOurs, Openers, Opening
  <2>1. stale' = stale
    <3>1. ~Reload
      BY DEF Reload
    <3> QED BY <3>1, StaleKept
  <2>2. ASSUME NEW j \in DOMAIN cmds, cmds'[i] = cmds[j]
        PROVE  \E r \in Openers : r.key = cmds'[i].key /\ r \notin stale' /\ stage'[r] # "idle"
    BY <2>1, <2>2, StagesAdvance DEF OpeningInv, TracksAreOurs, Openers
  <2>3. ASSUME NEW c \in Cmds, NEW r \in Requests, cmds'[i] = c, TracksFor(r, c)
        PROVE  r \in Openers /\ r.key = cmds'[i].key /\ r \notin stale' /\ stage'[r] # "idle"
    BY <2>1, <2>3 DEF TracksFor, Start, Resume, TypeOK
  <2>4. ASSUME NEW c \in Cmds, NEW r \in Requests, Waits(r, c) PROVE c.waiter # NoRequest
    BY <2>4, NoneAssumption DEF Waits
  <2> QED BY <1>1, <2>2, <2>3, <2>4, CmdAt
<1>7. IdleIsUntouched'
  <2> SUFFICES ASSUME NEW r \in Openers, stage'[r] = "idle" PROVE Unheard(r.key)' /\ ~Named(r.key)'
    BY DEF IdleIsUntouched, Openers, Opening
  <2>1. stage[r] = "idle" /\ r \in Requests /\ r.key \in Keys
    BY StagesAdvance, RequestParts DEF Openers
  <2>2. Unheard(r.key) /\ ~Named(r.key)
    BY <2>1 DEF OpeningInv, IdleIsUntouched
  <2>3. TakeTrack \/ TakeWait => Head(cmds).key # r.key
    BY <2>2 DEF TakeTrack, TakeWait, Named, TypeOK
  <2>4. \A b \in boot : b.key # r.key
    BY <2>1, OneOpener DEF OpeningInv, BootWasOpened, OpenedBy
  <2>5. ASSUME NEW q \in Requests, NEW c \in Cmds, TracksFor(q, c) \/ Waits(q, c)
        PROVE  c.key # r.key
    <3>1. CASE q = r
      BY <2>1, <2>5, <3>1 DEF TracksFor, Waits, Start, Resume, Register, TypeOK
    <3>2. CASE q # r /\ q \in Openers
      BY <2>5, <3>2, OneOpener DEF TracksFor, Waits
    <3>3. CASE q \notin Openers
      BY <2>1, <2>5, <3>3, OneOpener
      DEF TracksFor, Waits, Register, Openers, OpeningInv, LaterFollows, OpenedBy
    <3> QED BY <3>1, <3>2, <3>3
  <2>6. ASSUME NEW i \in DOMAIN cmds' PROVE cmds'[i].key # r.key
    BY <1>1, <2>2, <2>5, CmdAt DEF Named
  <2> QED BY <2>1, <2>2, <2>3, <2>4, <2>6, UnheardStays DEF Named
<1> QED BY <1>2, <1>3, <1>4, <1>5, <1>6, <1>7 DEF OpeningInv

-----------------------------------------------------------------------------
(* A take that asked for another order than the one it got.                *)

\* Everything at the relay about key k goes through subscription s.
OnlySub(k, s) ==
  /\ k \in subscribed
  /\ \A t \in Subs : subKey[t] = k => t = s
  /\ \A d \in Delivered : d.event.key = k => d.sub = s

\* The command that tracks the order asked for is the first about its key; the
\* index and the binding it makes last until the reply's order is tracked.
TrackIsFirst(r, i) ==
  /\ Unheard(r.key) /\ Pending(r)
  /\ \A j \in DOMAIN cmds : j # i /\ cmds[j].key = r.key => j > i
ForeignTrackIsFirst ==
  \A r \in Openers : \A i \in DOMAIN cmds :
    IsTrack(i, r.key) /\ cmds[i].order # r.order => TrackIsFirst(r, i)
ForeignIndexIsPending ==
  \A r \in Openers : \A o \in Orders : indices[o] = r.key /\ o # r.order => Pending(r)
ForeignBinding(r) ==
  \A s \in Subs : subKey[s] = r.key /\ bound[s] \notin {NoOrder, r.order}
                    => Pending(r) /\ OnlySub(r.key, s)
ForeignBindingIsPending == \A r \in Openers : ForeignBinding(r)
ClosedIsUnbound == \A s \in Subs : subKey[s] = NoKey => bound[s] = NoOrder
ForeignInv ==
  ForeignTrackIsFirst /\ ForeignIndexIsPending /\ ForeignBindingIsPending /\ ClosedIsUnbound

\* A tracking command leaves the queue when it is handled or the listener goes.
LEMMA TrackingStays ==
  ASSUME TypeOK, StaleWasBegun, [Next]_vars, ~Reload, NEW o, NEW k, Tracking(o, k),
         TakeTrack => Head(cmds) # TrackCmd(o, k)
  PROVE  Tracking(o, k)'
<1>1. CmdsAfter
  BY CmdsChange
<1>2. cmds \in Seq(Cmds)
  BY DEF TypeOK
<1>3. PICK i \in DOMAIN cmds : cmds[i] = TrackCmd(o, k)
  BY DEF Tracking
<1>4. CASE cmds # <<>> /\ cmds' = Tail(cmds) /\ (TakeTrack \/ TakeWait)
  <2>1. Head(cmds) # TrackCmd(o, k)
    BY <1>4 DEF TakeWait, TrackCmd
  <2>2. i # 1
    BY <1>2, <1>3, <2>1
  <2>3. i - 1 \in DOMAIN cmds' /\ cmds'[i - 1] = cmds[i]
    BY <1>2, <1>3, <1>4, <2>2
  <2> QED BY <1>3, <2>3 DEF Tracking, TrackCmd
<1>5. ASSUME NEW c \in Cmds, cmds' = Append(cmds, c) PROVE Tracking(o, k)'
  <2>1. i \in DOMAIN cmds' /\ cmds'[i] = cmds[i]
    BY <1>2, <1>3, <1>5
  <2> QED BY <1>3, <2>1 DEF Tracking, TrackCmd
<1>6. CASE cmds' = cmds
  BY <1>3, <1>6 DEF Tracking, TrackCmd
<1> QED BY <1>1, <1>4, <1>5, <1>6 DEF CmdsAfter

\* The command a task queues at its end is tracked from then on.
LEMMA AppendTracks ==
  ASSUME TypeOK, NEW o \in Orders, NEW k \in Keys, cmds' = Append(cmds, TrackCmd(o, k))
  PROVE  Tracking(o, k)'
<1>1. cmds \in Seq(Cmds) /\ TrackCmd(o, k) \in Cmds
  BY CmdTypes DEF TypeOK
<1>2. Len(cmds) + 1 \in DOMAIN cmds' /\ cmds'[Len(cmds) + 1] = TrackCmd(o, k)
  BY <1>1
<1> QED BY <1>2 DEF Tracking, TrackCmd

\* A create or take stays on its way until its order is tracked.
LEMMA PendingStays ==
  ASSUME TypeOK, StaleWasBegun, [Next]_vars, ~Reload, NEW r \in Openers, Pending(r),
         TakeTrack => Head(cmds) # TrackCmd(r.order, r.key)
  PROVE  Pending(r)'
<1>1. r \in Requests /\ Opening(r) /\ r.order \in Orders /\ r.key \in Keys
  BY RequestParts DEF Openers
<1>2. stage'[r] # "idle" /\ r \notin stale'
  BY <1>1, StagesAdvance, StaleKept DEF Pending
<1>3. ASSUME stage'[r] = "done" PROVE Tracking(r.order, r.key)'
  <2>1. CASE stage[r] = "done"
    BY <2>1, TrackingStays DEF Pending
  <2>2. CASE stage[r] # "done"
    <3>1. Resume(r)
      BY <1>1, <1>3, <2>2, StagesAdvance
    <3>2. Accepted(r)
      BY <1>1, <1>3, <3>1 DEF Resume, TypeOK
    <3>3. cmds' = Append(cmds, TrackCmd(r.order, r.key))
      BY <1>1, <3>1, <3>2 DEF Resume, Pending, TrackReplied
    <3> QED BY <1>1, <3>3, AppendTracks
  <2> QED BY <2>1, <2>2
<1> QED BY <1>2, <1>3 DEF Pending, Tracking, TrackCmd

\* The command that tracks the order asked for is overtaken by none of its key.
LEMMA NextKeepsForeignTrack ==
  ASSUME TypeOK, OpeningInv, ForeignTrackIsFirst, [Next]_vars PROVE ForeignTrackIsFirst'
<1> SUFFICES ASSUME NEW r \in Openers, NEW i \in DOMAIN cmds', IsTrack(i, r.key)',
                    cmds'[i].order # r.order
             PROVE  /\ Unheard(r.key)' /\ Pending(r)'
                    /\ \A j \in DOMAIN cmds' : j # i /\ cmds'[j].key = r.key => j > i
  BY DEF ForeignTrackIsFirst, TrackIsFirst, Openers, Opening
<1> DEFINE k == r.key
<1>1. CmdsAfter /\ r \in Requests /\ k \in Keys /\ StaleWasBegun /\ cmds \in Seq(Cmds)
  BY CmdsChange, RequestParts DEF OpeningInv, Openers, TypeOK
<1>2. ~Reload
  BY DEF Reload
<1>3. ASSUME NEW j \in DOMAIN cmds, cmds'[i] = cmds[j],
             TakeTrack \/ TakeWait => Head(cmds) = cmds[1] /\ 1 \in DOMAIN cmds /\ j # 1
      PROVE  /\ Unheard(k)' /\ Pending(r)'
             /\ \A t \in DOMAIN cmds : t # j /\ cmds[t].key = k => t > j
  <2>1. IsTrack(j, k) /\ cmds[j].order # r.order
    BY <1>3 DEF IsTrack
  <2>2. TrackIsFirst(r, j)
    BY <2>1 DEF ForeignTrackIsFirst
  <2>3. TakeTrack \/ TakeWait => Head(cmds).key # k
    BY <1>1, <1>3, <2>2 DEF TrackIsFirst
  <2>4. \A b \in boot : b.key # k
    BY <2>1 DEF OpeningInv, BootWasOpened
  <2>5. Unheard(k)'
    BY <1>1, <2>2, <2>3, <2>4, UnheardStays DEF TrackIsFirst
  <2>6. TakeTrack => Head(cmds) # TrackCmd(r.order, k)
    BY <2>3 DEF TrackCmd
  <2>7. Pending(r)'
    BY <1>1, <1>2, <2>2, <2>6, PendingStays DEF TrackIsFirst
  <2> QED BY <2>2, <2>5, <2>7 DEF TrackIsFirst
<1>4. ASSUME NEW c \in Cmds, NEW q \in Requests, cmds' = Append(cmds, c),
             TracksFor(q, c) \/ Waits(q, c), cmds'[i] = c, i = Len(cmds) + 1
      PROVE  /\ Unheard(k)' /\ Pending(r)' /\ \A t \in DOMAIN cmds : cmds[t].key # k
  <2>1. TracksFor(q, c) /\ q = r
    BY <1>4, OneOpener, NoneAssumption DEF TracksFor, Waits, IsTrack
  <2>2. Start(r) /\ stage[r] = "idle"
    BY <1>4, <2>1 DEF TracksFor, Start
  <2>3. Unheard(k) /\ ~Named(k)
    BY <2>2 DEF OpeningInv, IdleIsUntouched
  <2>4. \A b \in boot : b.key # k
    BY <2>2, OneOpener DEF OpeningInv, BootWasOpened, OpenedBy
  <2>5. ~TakeTrack /\ ~TakeWait
    BY <2>2, <1>1 DEF Start, TakeTrack, TakeWait, tasks, TypeOK
  <2>6. Unheard(k)'
    BY <1>1, <2>3, <2>4, <2>5, UnheardStays
  <2>7. Pending(r)'
    BY <1>1, <2>1, <2>2 DEF Start, TracksFor, Pending, TypeOK
  <2> QED BY <2>3, <2>6, <2>7 DEF Named
<1>5. CASE cmds' = cmds
  <2>1. ~TakeTrack /\ ~TakeWait
    BY <1>1, <1>5 DEF TakeTrack, TakeWait
  <2> QED BY <1>3, <1>5, <2>1
<1>6. CASE cmds # <<>> /\ cmds' = Tail(cmds) /\ (TakeTrack \/ TakeWait)
  <2>1. \A t \in DOMAIN cmds' : /\ t \in Nat /\ t + 1 \in DOMAIN cmds /\ t + 1 # 1
                                /\ cmds'[t] = cmds[t + 1]
    BY <1>1, <1>6
  <2>2. Head(cmds) = cmds[1] /\ 1 \in DOMAIN cmds
    BY <1>1, <1>6
  <2>3. Unheard(k)' /\ Pending(r)' /\ \A t \in DOMAIN cmds : t # i + 1 /\ cmds[t].key = k => t > i + 1
    BY <1>3, <2>1, <2>2
  <2> QED BY <2>1, <2>3
<1>7. ASSUME NEW c \in Cmds, NEW q \in Requests, cmds' = Append(cmds, c),
             TracksFor(q, c) \/ Waits(q, c)
      PROVE  /\ Unheard(k)' /\ Pending(r)'
             /\ \A j \in DOMAIN cmds' : j # i /\ cmds'[j].key = k => j > i
  <2>1. \A t \in DOMAIN cmds' : \/ t \in DOMAIN cmds /\ cmds'[t] = cmds[t] /\ t < Len(cmds) + 1
                                \/ t = Len(cmds) + 1 /\ cmds'[t] = c
    BY <1>1, <1>7
  <2>2. ~TakeTrack /\ ~TakeWait
    BY <1>1, <1>7 DEF TakeTrack, TakeWait, TracksFor, Waits, Start, Resume, Register, tasks, TypeOK
  <2>3. CASE i \in DOMAIN cmds /\ cmds'[i] = cmds[i] /\ i < Len(cmds) + 1
    BY <1>3, <2>1, <2>2, <2>3
  <2>4. CASE i = Len(cmds) + 1 /\ cmds'[i] = c
    BY <1>4, <1>7, <2>1, <2>4
  <2> QED BY <2>1, <2>3, <2>4
<1> QED BY <1>1, <1>2, <1>5, <1>6, <1>7 DEF CmdsAfter

\* What the indices name after the step.
LEMMA IndexChange ==
  ASSUME TypeOK, [Next]_vars, NEW o \in Orders, indices'[o] # NoKey
  PROVE  \/ ~Reload /\ indices'[o] = indices[o] /\ (TakeTrack => Head(cmds).key # indices'[o])
         \/ ~Reload /\ TakeTrack /\ Head(cmds).order = o /\ Head(cmds).key = indices'[o]
         \/ \E q \in Requests : q.order = o /\ q.key = indices'[o]
         \/ Reload /\ indices'[o] = stored[o]
<1>1. CASE Reload
  BY <1>1 DEF Reload
<1>2. CASE TakeTrack
  <2>1. indices'[o] = IF o = Head(cmds).order THEN Head(cmds).key
                      ELSE IF indices[o] = Head(cmds).key THEN NoKey ELSE indices[o]
    BY <1>2 DEF TakeTrack
  <2> QED BY <1>1, <1>2, <2>1
<1>3. ASSUME ~TakeTrack PROVE indices'[o] = indices[o] \/ Reload \/
                              \E q \in Requests : q.order = o /\ q.key = indices'[o]
  <2>1. ASSUME NEW r \in Requests, TaskNext(r)
        PROVE  indices'[o] = indices[o] \/ (r.order = o /\ r.key = indices'[o])
    BY <2>1 DEF TaskNext, Start, Register, Send, GiveUp, Resume, HandleResult, TypeOK
  <2>2. CASE RouteBound \/ RouteByKey
    BY <2>2 DEF RouteBound, RouteByKey, Finished, TypeOK
  <2>3. ASSUME NEW r \in Requests, MostroNext(r) PROVE indices' = indices
    BY <2>3, MostroPublishes DEF Publish
  <2>4. CASE TakeWait \/ PruneTick \/ (\E d \in inFlight : Deliver(d))
               \/ (\E b \in boot : Bootstrap(b)) \/ UNCHANGED vars
    BY <2>4 DEF TakeWait, PruneTick, Deliver, Bootstrap, vars
  <2> QED BY <1>3, <2>1, <2>2, <2>3, <2>4 DEF Next, ListenerNext
<1> QED BY <1>1, <1>2, <1>3

\* An index of another order than the request's lasts until the order is tracked.
LEMMA NextKeepsForeignIndex ==
  ASSUME TypeOK, OpeningInv, ForeignInv, [Next]_vars PROVE ForeignIndexIsPending'
<1> SUFFICES ASSUME NEW r \in Openers, NEW o \in Orders, indices'[o] = r.key, o # r.order
             PROVE  Pending(r)'
  BY DEF ForeignIndexIsPending, Openers, Opening
<1>1. r \in Requests /\ r.key \in Keys /\ r.key # NoKey /\ StaleWasBegun
  BY RequestParts, NoneAssumption DEF Openers, OpeningInv
<1>2. CASE ~Reload /\ indices'[o] = indices[o] /\ (TakeTrack => Head(cmds).key # r.key)
  <2>1. TakeTrack => Head(cmds) # TrackCmd(r.order, r.key)
    BY <1>2 DEF TrackCmd
  <2>2. Pending(r)
    BY <1>2 DEF ForeignInv, ForeignIndexIsPending
  <2> QED BY <1>1, <1>2, <2>1, <2>2, PendingStays
<1>3. CASE ~Reload /\ TakeTrack /\ Head(cmds).order = o /\ Head(cmds).key = r.key
  <2>1. 1 \in DOMAIN cmds /\ Head(cmds) = cmds[1]
    BY <1>3 DEF TakeTrack, TypeOK
  <2>2. IsTrack(1, r.key) /\ cmds[1].order # r.order
    BY <1>3, <2>1 DEF TakeTrack, IsTrack
  <2>3. Pending(r)
    BY <2>1, <2>2 DEF ForeignInv, ForeignTrackIsFirst, TrackIsFirst
  <2>4. Head(cmds) # TrackCmd(r.order, r.key)
    BY <1>3 DEF TrackCmd
  <2> QED BY <1>1, <1>3, <2>1, <2>3, <2>4, PendingStays
<1>4. ASSUME NEW q \in Requests, q.order = o, q.key = r.key PROVE FALSE
  BY <1>1, <1>4, OneOpener
<1>5. CASE Reload /\ r.key = stored[o]
  BY <1>1, <1>5, OneOpener DEF OpeningInv, StoredWasOpened, OpenedBy
<1> QED BY <1>1, <1>2, <1>3, <1>4, <1>5, IndexChange

\* Opening or rebinding the subscription of a key leaves the other subscriptions
\* bound as they were.
LEMMA BindingFrame ==
  ASSUME TypeOK, SubsInv, NEW k \in Keys, NEW o \in Orders \cup {NoOrder},
         \/ Subscribe(k, o) \/ SubscribeFails(k)
         \/ o \in Orders /\ ensure_order_dm_subscription(k, o),
         NEW s \in Subs
  PROVE  \/ bound'[s] = bound[s] /\ subKey'[s] = subKey[s]
         \/ bound'[s] = o /\ subKey'[s] = k /\ k \in subscribed' /\ keySub'[k] = s
<1>1. CASE Subscribe(k, o)
  BY <1>1 DEF Subscribe, TypeOK
<1>2. CASE SubscribeFails(k)
  BY <1>2 DEF SubscribeFails
<1>3. CASE ensure_order_dm_subscription(k, o) /\ k \in subscribed /\ keySub[k] # NoSub
  <2>1. /\ bound' = [bound EXCEPT ![keySub[k]] = o]
        /\ UNCHANGED <<subscribed, keySub, subKey>>
    BY <1>3 DEF ensure_order_dm_subscription
  <2> QED BY <1>3, <2>1 DEF SubsInv, KeySubIsLive, TypeOK
<1> QED BY <1>1, <1>2, <1>3 DEF ensure_order_dm_subscription

\* A subscription other than the remembered one is left alone, and after tracking
\* the remembered one is bound to the order.
LEMMA EnsureBinds ==
  ASSUME TypeOK, SubsInv, NEW k \in Keys, NEW o \in Orders, ensure_order_dm_subscription(k, o)
  PROVE  \/ k \in subscribed' /\ bound'[keySub'[k]] = o /\ deaf' = deaf \ {k}
         \/ /\ k \notin subscribed /\ k \notin subscribed' /\ deaf' = deaf \cup {k}
            /\ UNCHANGED <<bound, subKey>>
<1>1. CASE k \in subscribed /\ keySub[k] # NoSub
  BY <1>1 DEF ensure_order_dm_subscription, TypeOK
<1>2. CASE ~(k \in subscribed /\ keySub[k] # NoSub)
  <2>1. k \notin subscribed
    BY <1>2 DEF SubsInv, KeySubIsLive
  <2>2. CASE Subscribe(k, o) /\ deaf' = deaf \ {k}
    <3>1. opened + 1 \in Subs
      BY <2>2, BoundsAssumption DEF Subs, TypeOK, Subscribe
    <3> QED BY <2>2, <3>1 DEF Subscribe, TypeOK
  <2>3. CASE SubscribeFails(k) /\ deaf' = deaf \cup {k}
    BY <2>1, <2>3 DEF SubscribeFails
  <2> QED BY <1>2, <2>2, <2>3 DEF ensure_order_dm_subscription
<1> QED BY <1>1, <1>2

\* Tracking an order or bootstrapping it leaves a foreign binding only of a
\* request on its way.
LEMMA EnsureKeepsForeign ==
  ASSUME TypeOK, SubsInv, NEW k \in Keys, NEW o \in Orders, ensure_order_dm_subscription(k, o),
         NEW r \in Openers, ForeignBinding(r),
         r.key = k => o = r.order \/ (Unheard(k) /\ Pending(r)'),
         r.key # k => (Pending(r) => Pending(r)'),
         \A d \in Delivered' : \/ d \in Delivered
                               \/ d.event.key = k /\ d.sub = keySub'[k] /\ k \in subscribed'
  PROVE  ForeignBinding(r)'
<1>1. SubsKept
  BY EnsureKeeps DEF TypeOK, SubsTyped, SubsInv
<1> SUFFICES ASSUME NEW s \in Subs, subKey'[s] = r.key, bound'[s] \notin {NoOrder, r.order}
             PROVE  Pending(r)' /\ OnlySub(r.key, s)'
  BY DEF ForeignBinding
<1>2. CASE r.key # k
  <2>1. \A t \in Subs : subKey'[t] = r.key => subKey[t] = r.key /\ bound'[t] = bound[t]
    BY <1>2, BindingFrame
  <2>2. Pending(r) /\ OnlySub(r.key, s)
    BY <2>1 DEF ForeignBinding
  <2>3. r.key \in subscribed'
    BY <1>1, <2>2 DEF OnlySub, SubsKept
  <2> QED BY <1>2, <2>1, <2>2, <2>3 DEF OnlySub
<1>3. CASE r.key = k /\ o = r.order
  <2>1. bound'[s] = bound[s] /\ subKey[s] = k
    BY <1>3, BindingFrame
  <2>2. k \in subscribed /\ \A t \in Subs : subKey[t] = k => t = s
    BY <1>3, <2>1 DEF ForeignBinding, OnlySub
  <2>3. k \in subscribed' /\ bound'[keySub'[k]] = o
    BY <2>2, EnsureBinds
  <2>4. keySub'[k] = keySub[k]
    BY <2>2 DEF ensure_order_dm_subscription, SubsInv, KeySubIsLive
  <2>5. keySub[k] = s
    BY <2>2 DEF SubsInv, KeySubIsLive, TypeOK
  <2> QED BY <1>3, <2>3, <2>4, <2>5
<1>4. CASE r.key = k /\ o # r.order
  <2>1. Unheard(k) /\ Pending(r)'
    BY <1>4
  <2>2. \A t \in Subs : subKey'[t] = k => k \in subscribed' /\ keySub'[k] = t
    BY <2>1, BindingFrame DEF Unheard
  <2> QED BY <1>4, <2>1, <2>2 DEF OnlySub, Unheard
<1> QED BY <1>2, <1>3, <1>4

\* A step that adds no subscription of the key, rebinds none and takes no mark off
\* keeps the binding of a request on its way.
LEMMA QuietKeepsForeign ==
  ASSUME NEW r \in Openers, ForeignBinding(r), Pending(r) => Pending(r)',
         r.key \in subscribed => r.key \in subscribed',
         \A t \in Subs : subKey'[t] = r.key => subKey[t] = r.key /\ bound'[t] = bound[t],
         \A d \in Delivered' : d.event.key = r.key => d \in Delivered \/ subKey[d.sub] = r.key,
         \A d \in Delivered' : d.sub \in Subs
  PROVE  ForeignBinding(r)'
BY DEF ForeignBinding, OnlySub

\* When the order asked for is tracked, nothing of its key is at the relay yet.
LEMMA ForeignAtHead ==
  ASSUME TypeOK, ForeignTrackIsFirst, TakeTrack, NEW r \in Openers, Head(cmds).key = r.key,
         Head(cmds).order # r.order
  PROVE  Unheard(r.key) /\ Pending(r)
<1>1. 1 \in DOMAIN cmds /\ Head(cmds) = cmds[1]
  BY DEF TakeTrack, TypeOK
<1> QED BY <1>1 DEF TakeTrack, IsTrack, ForeignTrackIsFirst, TrackIsFirst

\* A binding to another order than the request's lasts until the order is tracked.
LEMMA NextKeepsForeignBinding ==
  ASSUME TypeOK, SubsInv, OpeningInv, ForeignInv, [Next]_vars PROVE ForeignBindingIsPending'
<1> SUFFICES ASSUME ~Reload, NEW r \in Openers PROVE ForeignBinding(r)'
  <2>1. CASE Reload
    BY <2>1, RequestParts, NoneAssumption DEF Reload, ForeignBindingIsPending, ForeignBinding, Openers
  <2> QED BY <2>1 DEF ForeignBindingIsPending, Openers, Opening
<1>1. r \in Requests /\ r.key \in Keys /\ r.key # NoKey /\ StaleWasBegun /\ ForeignBinding(r)
  BY RequestParts, NoneAssumption DEF Openers, OpeningInv, ForeignInv, ForeignBindingIsPending
<1>2. (TakeTrack => Head(cmds) # TrackCmd(r.order, r.key)) /\ Pending(r) => Pending(r)'
  BY <1>1, PendingStays
<1>3. \A d \in Delivered : d.sub \in Subs /\ d.event.key \in Keys /\ subKey[d.sub] \in {d.event.key, NoKey}
  BY DEF Delivered, TypeOK, Deliveries, Events, SubsInv, DeliveriesServed, ServesKey
<1>4. CASE TakeTrack
  <2> DEFINE k == Head(cmds).key
             o == Head(cmds).order
  <2>1. k \in Keys /\ o \in Orders
    BY <1>4, HeadParts, NoneAssumption DEF TakeTrack
  <2>2. ensure_order_dm_subscription(k, o) /\ Delivered' = Delivered
    BY <1>4 DEF TakeTrack, world, Delivered
  <2>3. k # r.key \/ o # r.order => Head(cmds) # TrackCmd(r.order, r.key)
    BY DEF TrackCmd
  <2>4. r.key = k => o = r.order \/ (Unheard(k) /\ Pending(r)')
    BY <1>2, <1>4, <2>3, ForeignAtHead DEF ForeignInv
  <2> HIDE DEF k, o
  <2> QED BY <1>1, <1>2, <2>1, <2>2, <2>3, <2>4, EnsureKeepsForeign
<1>5. CASE TakeWait
  <2> DEFINE q == Head(cmds).waiter
  <2>1. q \in Requests /\ q.key \in Keys /\ ~TakeTrack
    BY <1>5, HeadParts, RequestParts DEF TakeWait, TakeTrack
  <2>2. Delivered' = Delivered
    BY <1>5 DEF TakeWait, world, Delivered
  <2>3. UNCHANGED subs \/ Subscribe(q.key, NoOrder) \/ SubscribeFails(q.key)
    BY <1>5, TakeWaitParts DEF RefusedForCap, RefusedForRelay, Queued
  <2>4. SubsKept
    BY <1>5, TakeWaitKeeps DEF SubsInv
  <2> HIDE DEF q
  <2>5. CASE UNCHANGED subs
    BY <1>1, <1>2, <1>3, <2>1, <2>2, <2>5, QuietKeepsForeign DEF subs
  <2>6. CASE (Subscribe(q.key, NoOrder) \/ SubscribeFails(q.key)) /\ q.key # r.key
    <3>1. \A t \in Subs : subKey'[t] = r.key => subKey[t] = r.key /\ bound'[t] = bound[t]
      BY <2>1, <2>6, BindingFrame
    <3> QED BY <1>1, <1>2, <1>3, <2>1, <2>2, <2>4, <3>1, QuietKeepsForeign DEF SubsKept
  <2>7. CASE (Subscribe(q.key, NoOrder) \/ SubscribeFails(q.key)) /\ q.key = r.key
               /\ ~UNCHANGED subs
    <3>1. r.key \notin subscribed
      BY <1>5, <2>7, TakeWaitParts DEF RefusedForCap, RefusedForRelay, Queued, q
    <3>2. \A t \in Subs : subKey'[t] = r.key => bound'[t] = NoOrder \/
                            (subKey[t] = r.key /\ bound'[t] = bound[t])
      BY <2>1, <2>7, BindingFrame
    <3> QED BY <1>1, <3>1, <3>2 DEF ForeignBinding, OnlySub
  <2> QED BY <2>3, <2>5, <2>6, <2>7
<1>6. CASE RouteBound \/ RouteByKey
  <2> DEFINE k == cur.event.key
  <2>1. cur \in Delivered /\ Delivered' \subseteq Delivered /\ ~TakeTrack
    BY <1>6, <1>3 DEF RouteBound, RouteByKey, Delivered, world, TakeTrack, Listening
  <2>2. /\ \A t \in Subs : subKey'[t] = r.key => subKey[t] = r.key /\ bound'[t] = bound[t]
        /\ \/ subscribed' = subscribed
           \/ subscribed' = subscribed \ {k} /\ (bound[cur.sub] # NoOrder => subKey'[cur.sub] = NoKey)
    BY <1>1, <1>3, <1>6, <2>1 DEF RouteBound, RouteByKey, Finished, Unmark, TypeOK
  <2>3. CASE subscribed' = subscribed \/ k # r.key
    BY <1>1, <1>2, <1>3, <2>1, <2>2, <2>3, QuietKeepsForeign
  <2>4. CASE k = r.key /\ subscribed' = subscribed \ {k}
    <3> SUFFICES ASSUME NEW s \in Subs, subKey'[s] = r.key, bound'[s] \notin {NoOrder, r.order}
                 PROVE  FALSE
      BY DEF ForeignBinding
    <3>1. s = cur.sub /\ bound[s] # NoOrder /\ k \in subscribed
      BY <1>1, <2>1, <2>2, <2>4 DEF ForeignBinding, OnlySub
    <3> QED BY <1>1, <2>1, <2>2, <2>4, <3>1
  <2> QED BY <2>2, <2>3, <2>4
<1>7. ASSUME NEW b \in boot, Bootstrap(b) PROVE ForeignBinding(r)'
  <2>1. b.key \in Keys /\ b.order \in Orders /\ ~TakeTrack
    BY DEF TypeOK, TakeTrack, Listening
  <2>2. ensure_order_dm_subscription(b.key, b.order)
    BY <1>7 DEF Bootstrap
  <2>3. r.key = b.key => b.order = r.order
    BY OneOpener DEF OpeningInv, BootWasOpened, OpenedBy, Openers
  <2>4. \A d \in Delivered' : \/ d \in Delivered
                              \/ d.event.key = b.key /\ d.sub = keySub'[b.key] /\ b.key \in subscribed'
    BY <1>7 DEF Bootstrap, Delivered
  <2> QED BY <1>1, <1>2, <2>1, <2>2, <2>3, <2>4, EnsureKeepsForeign
<1>8. ASSUME NEW d \in inFlight, Deliver(d) PROVE ForeignBinding(r)'
  <2>1. Delivered' \subseteq Delivered /\ ~TakeTrack /\ UNCHANGED <<subscribed, subKey, bound>>
    BY <1>8 DEF Deliver, Delivered, subs, TakeTrack, TypeOK
  <2> QED BY <1>1, <1>2, <1>3, <2>1, QuietKeepsForeign
<1>9. ASSUME NEW q \in Requests, MostroNext(q) PROVE ForeignBinding(r)'
  <2>1. PICK e \in Events : Publish(e)
    BY <1>9, MostroPublishes
  <2>2. UNCHANGED <<subscribed, subKey, bound, cur, cmds, stage, stale>>
    BY <2>1 DEF Publish, subs, tasks
  <2>3. \A d \in inFlight' : d \in inFlight \/ (d.event = e /\ d.sub \in Live(e.key))
    BY <2>1 DEF Publish
  <2>4. \A d \in Delivered' : d \in Delivered \/ (d.sub \in Subs /\ subKey[d.sub] = d.event.key)
    BY <2>2, <2>3 DEF Delivered, Live
  <2>5. Pending(r) => Pending(r)'
    BY <2>2 DEF Pending, Tracking
  <2> QED BY <1>1, <1>3, <2>2, <2>4, <2>5, QuietKeepsForeign
<1>10. ASSUME NEW q \in Requests, TaskNext(q) PROVE ForeignBinding(r)'
  <2>1. UNCHANGED <<subscribed, subKey, bound, inFlight, cur>>
    BY <1>10 DEF TaskNext, Start, Register, Send, GiveUp, Resume, HandleResult, subs, world
  <2>2. ~TakeTrack
    <3>1. cmds' = cmds \/ \E c : cmds' = Append(cmds, c)
      BY <1>10 DEF TaskNext, Start, Register, Send, GiveUp, Resume, HandleResult
    <3>2. ASSUME TakeTrack PROVE Len(cmds') < Len(cmds)
      BY <3>2 DEF TakeTrack, TypeOK
    <3>3. Len(cmds') >= Len(cmds)
      BY <3>1 DEF TypeOK
    <3> QED BY <3>2, <3>3 DEF TypeOK
  <2>3. Delivered' = Delivered
    BY <2>1 DEF Delivered
  <2> QED BY <1>1, <1>2, <1>3, <2>1, <2>2, <2>3, QuietKeepsForeign
<1>11. CASE PruneTick \/ UNCHANGED vars
  <2>1. UNCHANGED <<subscribed, subKey, bound, inFlight, cur, cmds, stage, stale>>
    BY <1>11 DEF PruneTick, vars, subs, world, tasks
  <2>2. Delivered' = Delivered /\ (Pending(r) => Pending(r)')
    BY <2>1 DEF Delivered, Pending, Tracking
  <2> QED BY <1>1, <1>3, <2>1, <2>2, QuietKeepsForeign
<1> QED BY <1>4, <1>5, <1>6, <1>7, <1>8, <1>9, <1>10, <1>11 DEF Next, ListenerNext

\* What is open to others is left alone by a step about one key.
LEMMA OtherKeysKept ==
  ASSUME TypeOK, SubsInv, SubsKept, NEW k \in Keys, NEW o \in Orders \cup {NoOrder},
         \/ Subscribe(k, o) \/ (SubscribeFails(k) /\ UNCHANGED keySub)
         \/ o \in Orders /\ ensure_order_dm_subscription(k, o),
         NEW q \in Keys, q # k
  PROVE  /\ keySub'[q] = keySub[q] /\ (q \in subscribed' <=> q \in subscribed)
         /\ q \in subscribed => bound'[keySub'[q]] = bound[keySub[q]]
<1>1. keySub'[q] = keySub[q] /\ (q \in subscribed' <=> q \in subscribed)
  BY DEF Subscribe, SubscribeFails, ensure_order_dm_subscription, TypeOK
<1>2. ASSUME q \in subscribed PROVE bound'[keySub[q]] = bound[keySub[q]]
  <2>1. q \in subscribed'
    BY <1>1, <1>2
  <2>2. keySub[q] \in Subs /\ subKey'[keySub[q]] = q
    BY <1>1, <1>2, <2>1 DEF SubsKept, SubsInv, KeySubIsLive, TypeOK
  <2> QED BY <2>2, BindingFrame
<1> QED BY <1>1, <1>2

\* A subscription that has no key has no order.
LEMMA NextKeepsClosed ==
  ASSUME TypeOK, SubsInv, ClosedIsUnbound, [Next]_vars PROVE ClosedIsUnbound'
<1>1. ASSUME NEW k \in Keys, NEW o \in Orders \cup {NoOrder},
             \/ Subscribe(k, o) \/ SubscribeFails(k)
             \/ o \in Orders /\ ensure_order_dm_subscription(k, o)
      PROVE  ClosedIsUnbound'
  BY <1>1, BindingFrame, NoneAssumption DEF ClosedIsUnbound
<1>2. CASE TakeTrack
  BY <1>1, <1>2, HeadParts, NoneAssumption DEF TakeTrack
<1>3. CASE TakeWait
  <2>1. Head(cmds).waiter.key \in Keys
    BY <1>3, HeadParts, RequestParts DEF TakeWait
  <2>2. CASE UNCHANGED subs
    BY <2>2 DEF subs, ClosedIsUnbound
  <2> QED BY <1>1, <1>3, <2>1, <2>2, TakeWaitParts DEF RefusedForCap, RefusedForRelay, Queued
<1>4. ASSUME NEW b \in boot, Bootstrap(b) PROVE ClosedIsUnbound'
  BY <1>1, <1>4 DEF Bootstrap, TypeOK
<1>5. CASE RouteBound \/ RouteByKey
  BY <1>5 DEF RouteBound, RouteByKey, ClosedIsUnbound, TypeOK
<1>6. CASE Reload
  BY <1>6 DEF Reload, ClosedIsUnbound
<1>7. CASE PruneTick \/ (\E d \in inFlight : Deliver(d)) \/ UNCHANGED vars
  BY <1>7 DEF PruneTick, Deliver, vars, subs, ClosedIsUnbound
<1>8. ASSUME NEW r \in Requests, TaskNext(r) \/ MostroNext(r) PROVE ClosedIsUnbound'
  <2>1. UNCHANGED <<bound, subKey>>
    BY <1>8, MostroPublishes
    DEF Publish, TaskNext, Start, Register, Send, GiveUp, Resume, HandleResult, subs
  <2> QED BY <2>1 DEF ClosedIsUnbound
<1> QED BY <1>2, <1>3, <1>4, <1>5, <1>6, <1>7, <1>8 DEF Next, ListenerNext

-----------------------------------------------------------------------------
(* Stored orders are heard.                                                *)

Ended(k) == \E e \in published : e.key = k /\ e.what = "end"

\* Until its trade ends, all that is delivered for a key comes through the one
\* subscription remembered for it.
HeardOnce(k) ==
  /\ \A s \in Subs : subKey[s] = k => k \in subscribed /\ keySub[k] = s
  /\ \A d \in Delivered : d.event.key = k => k \in subscribed /\ keySub[k] = d.sub
DeliveredWasPublished == \A d \in Delivered : d.event \in published
OneSubUntilEnd == \A k \in Keys : Ended(k) \/ HeardOnce(k)
DeliveryInv == DeliveredWasPublished /\ OneSubUntilEnd

\* The order is bound to the live subscription of its key.
Heard(o, k) == k \in subscribed /\ bound[keySub[k]] = o

\* What a stored order is owed: it is heard, or the command or the startup step
\* that will bind it is still to come, or its command was lost.
Attended(o, k) ==
  k \in deaf \/ Tracking(o, k) \/ Heard(o, k) \/ [order |-> o, key |-> k] \in boot
StoredIsHeard == \A o \in Orders : stored[o] # NoKey => Attended(o, stored[o])

\* What is published stays published.
LEMMA PublishedGrows == ASSUME [Next]_vars PROVE published \subseteq published'
<1>1. \A r \in Requests : TaskNext(r) => published' = published
  BY DEF TaskNext, Start, Register, Send, GiveUp, Resume, HandleResult, world
<1>2. \A r \in Requests : MostroNext(r) => published \subseteq published'
  BY MostroPublishes DEF Publish
<1> QED BY <1>1, <1>2
    DEF Next, ListenerNext, TakeTrack, TakeWait, PruneTick, RouteBound, RouteByKey, Bootstrap,
        Deliver, Reload, vars, world

\* What is delivered after the step.
LEMMA DeliveredChange ==
  ASSUME TypeOK, [Next]_vars, NEW d \in Delivered'
  PROVE  \/ d \in Delivered
         \/ \E b \in boot : /\ Bootstrap(b) /\ d.event \in published /\ d.event.key = b.key
                            /\ d.sub = keySub'[b.key] /\ b.key \in subscribed'
         \/ \E r \in Requests, e \in Events :
              MostroNext(r) /\ Publish(e) /\ d.event = e /\ d.sub \in Live(e.key)
<1>1. ASSUME NEW r \in Requests, TaskNext(r) PROVE Delivered' = Delivered
  BY <1>1 DEF TaskNext, Start, Register, Send, GiveUp, Resume, HandleResult, world, Delivered
<1>2. ASSUME NEW r \in Requests, MostroNext(r)
      PROVE  \/ d \in Delivered
             \/ \E e \in Events : Publish(e) /\ d.event = e /\ d.sub \in Live(e.key)
  <2>1. PICK e \in Events : Publish(e)
    BY <1>2, MostroPublishes
  <2> QED BY <2>1 DEF Publish, Delivered
<1>3. CASE TakeTrack \/ TakeWait \/ PruneTick \/ UNCHANGED vars
  BY <1>3 DEF TakeTrack, TakeWait, PruneTick, vars, world, Delivered
<1>4. CASE RouteBound \/ RouteByKey \/ Reload
  BY <1>4 DEF RouteBound, RouteByKey, Reload, world, Delivered
<1>5. ASSUME NEW b \in boot, Bootstrap(b)
      PROVE  \/ d \in Delivered
             \/ /\ d.event \in published /\ d.event.key = b.key
                /\ d.sub = keySub'[b.key] /\ b.key \in subscribed'
  BY <1>5 DEF Bootstrap, Delivered
<1>6. ASSUME NEW e \in inFlight, Deliver(e) PROVE d \in Delivered
  BY <1>6 DEF Deliver, Delivered
<1> QED BY <1>1, <1>2, <1>3, <1>4, <1>5, <1>6 DEF Next, ListenerNext

\* Opening a subscription for a key that has none, or rebinding the one it has,
\* leaves every key with one at most.
LEMMA OpeningKeepsOne ==
  ASSUME TypeOK, SubsInv, SubsKept, NEW k \in Keys, NEW o \in Orders \cup {NoOrder},
         \/ k \notin subscribed /\ Subscribe(k, o)
         \/ k \notin subscribed /\ SubscribeFails(k) /\ UNCHANGED keySub
         \/ o \in Orders /\ ensure_order_dm_subscription(k, o),
         NEW q \in Keys, HeardOnce(q),
         \A d \in Delivered' : \/ d \in Delivered
                               \/ d.event.key = k /\ d.sub = keySub'[k] /\ k \in subscribed'
  PROVE  HeardOnce(q)'
<1>1. CASE q # k
  <2>1. keySub'[q] = keySub[q] /\ (q \in subscribed' <=> q \in subscribed)
    BY <1>1, OtherKeysKept
  <2>2. \A s \in Subs : subKey'[s] = q => subKey[s] = q
    BY <1>1, BindingFrame
  <2> QED BY <1>1, <2>1, <2>2 DEF HeardOnce
<1>2. CASE q = k
  <2>1. CASE k \in subscribed
    <3>1. k \in subscribed' /\ keySub'[k] = keySub[k] /\ subKey' = subKey
      BY <2>1 DEF ensure_order_dm_subscription, SubsInv, KeySubIsLive
    <3> QED BY <1>2, <3>1 DEF HeardOnce
  <2>2. CASE k \notin subscribed
    <3>1. \A s \in Subs : subKey'[s] = k => k \in subscribed' /\ keySub'[k] = s
      BY <1>2, <2>2, BindingFrame DEF HeardOnce
    <3> QED BY <1>2, <2>2, <3>1 DEF HeardOnce
  <2> QED BY <2>1, <2>2
<1> QED BY <1>1, <1>2

\* Every step keeps what is delivered in step with the subscriptions.
LEMMA NextKeepsDelivery ==
  ASSUME TypeOK, SubsInv, DeliveryInv, [Next]_vars PROVE DeliveryInv'
<1>1. DeliveredWasPublished'
  <2> SUFFICES ASSUME NEW d \in Delivered' PROVE d.event \in published'
    BY DEF DeliveredWasPublished
  <2> QED BY DeliveredChange, PublishedGrows DEF Publish, DeliveryInv, DeliveredWasPublished
<1>2. OneSubUntilEnd'
  <2> SUFFICES ASSUME NEW q \in Keys, ~Ended(q)' PROVE HeardOnce(q)'
    BY DEF OneSubUntilEnd
  <2>1. ~Ended(q) /\ HeardOnce(q)
    BY PublishedGrows DEF Ended, DeliveryInv, OneSubUntilEnd
  <2>2. \A d \in Delivered : d.sub \in Subs /\ d.event \in published
    BY DEF Delivered, TypeOK, Deliveries, DeliveryInv, DeliveredWasPublished
  <2>3. ASSUME UNCHANGED <<subscribed, keySub, subKey>>,
               \A d \in Delivered' : d \in Delivered \/ d.sub \in Live(d.event.key)
        PROVE  HeardOnce(q)'
    BY <2>1, <2>3 DEF HeardOnce, Live
  <2>4. CASE TakeTrack
    <3>1. Head(cmds).key \in Keys /\ Head(cmds).order \in Orders /\ SubsKept
      BY <2>4, HeadParts, NoneAssumption, TakeTrackKeeps DEF TakeTrack, SubsInv
    <3>2. ensure_order_dm_subscription(Head(cmds).key, Head(cmds).order) /\ Delivered' = Delivered
      BY <2>4 DEF TakeTrack, world, Delivered
    <3> QED BY <2>1, <3>1, <3>2, OpeningKeepsOne
  <2>5. CASE TakeWait
    <3> DEFINE k == Head(cmds).waiter.key
    <3>1. k \in Keys /\ SubsKept /\ Delivered' = Delivered
      BY <2>5, HeadParts, RequestParts, TakeWaitKeeps DEF TakeWait, SubsInv, world, Delivered
    <3>2. \/ UNCHANGED subs
          \/ k \notin subscribed /\ Subscribe(k, NoOrder)
          \/ k \notin subscribed /\ SubscribeFails(k) /\ UNCHANGED keySub
      BY <2>5, TakeWaitParts DEF RefusedForCap, RefusedForRelay, Queued
    <3> HIDE DEF k
    <3>3. CASE UNCHANGED subs
      BY <2>3, <3>1, <3>3 DEF subs
    <3> QED BY <2>1, <3>1, <3>2, <3>3, OpeningKeepsOne
  <2>6. ASSUME NEW b \in boot, Bootstrap(b) PROVE HeardOnce(q)'
    <3>1. b.key \in Keys /\ b.order \in Orders /\ SubsKept
      BY <2>6, BootstrapKeeps DEF TypeOK, SubsInv
    <3>2. ensure_order_dm_subscription(b.key, b.order)
      BY <2>6 DEF Bootstrap
    <3>3. \A d \in Delivered' : \/ d \in Delivered
                                \/ d.event.key = b.key /\ d.sub = keySub'[b.key] /\ b.key \in subscribed'
      BY <2>6 DEF Bootstrap, Delivered
    <3> QED BY <2>1, <3>1, <3>2, <3>3, OpeningKeepsOne
  <2>7. CASE RouteBound \/ RouteByKey
    <3>1. cur \in Delivered /\ Delivered' \subseteq Delivered
      BY <2>7 DEF RouteBound, RouteByKey, Delivered, world
    <3>2. \/ UNCHANGED <<subscribed, keySub, subKey>>
          \/ /\ cur.event.what = "end" /\ subscribed' = subscribed \ {cur.event.key}
             /\ keySub' = keySub /\ \A s \in Subs : subKey'[s] \in {subKey[s], NoKey}
      BY <2>7 DEF RouteBound, RouteByKey, Finished, Unmark, TypeOK
    <3>3. CASE cur.event.what = "end"
      <4>1. cur.event.key # q
        BY <2>1, <2>2, <3>1, <3>3 DEF Ended
      <4> QED BY <2>1, <3>1, <3>2, <4>1, NoneAssumption DEF HeardOnce
    <3> QED BY <2>3, <3>1, <3>2, <3>3
  <2>8. CASE Reload
    BY <2>8, NoneAssumption DEF Reload, HeardOnce, Delivered
  <2>9. CASE PruneTick \/ (\E d \in inFlight : Deliver(d)) \/ UNCHANGED vars
    <3>1. UNCHANGED <<subscribed, keySub, subKey>> /\ Delivered' \subseteq Delivered
      BY <2>9 DEF PruneTick, Deliver, vars, subs, world, Delivered
    <3> QED BY <2>3, <3>1
  <2>10. ASSUME NEW r \in Requests, TaskNext(r) PROVE HeardOnce(q)'
    <3>1. UNCHANGED <<subscribed, keySub, subKey>> /\ Delivered' = Delivered
      BY <2>10
      DEF TaskNext, Start, Register, Send, GiveUp, Resume, HandleResult, subs, world, Delivered
    <3> QED BY <2>3, <3>1
  <2>11. ASSUME NEW r \in Requests, MostroNext(r) PROVE HeardOnce(q)'
    <3>1. PICK e \in Events : Publish(e)
      BY <2>11, MostroPublishes
    <3>2. UNCHANGED <<subscribed, keySub, subKey, cur>>
      BY <3>1 DEF Publish, subs
    <3>3. \A d \in Delivered' : d \in Delivered \/ d.sub \in Live(d.event.key)
      BY <3>1, <3>2 DEF Publish, Delivered
    <3> QED BY <2>3, <3>2, <3>3
  <2> QED BY <2>4, <2>5, <2>6, <2>7, <2>8, <2>9, <2>10, <2>11 DEF Next, ListenerNext
<1> QED BY <1>1, <1>2 DEF DeliveryInv

\* A step about the key of a stored order binds the order, or finds it deaf, or
\* precedes the command that will bind it.
LEMMA EnsureAttends ==
  ASSUME TypeOK, SubsInv, SubsKept, NEW k \in Keys, NEW o \in Orders,
         NEW q \in Keys, NEW p \in Orders, ensure_order_dm_subscription(q, p),
         q = k => p = o \/ Tracking(o, k)',
         q # k => Attended(o, k), boot' = boot \ {[order |-> p, key |-> q]},
         Tracking(o, k) => q = k \/ Tracking(o, k)'
  PROVE  Attended(o, k)'
<1>1. CASE q = k
  BY <1>1, EnsureBinds DEF Attended, Heard
<1>2. CASE q # k
  <2>1. deaf \ {q} \subseteq deaf'
    BY EnsureBinds
  <2>2. Heard(o, k) => Heard(o, k)'
    BY <1>2, OtherKeysKept DEF Heard
  <2>3. [order |-> o, key |-> k] # [order |-> p, key |-> q]
    BY <1>2
  <2> QED BY <1>2, <2>1, <2>2, <2>3 DEF Attended
<1> QED BY <1>1, <1>2

\* A stored order stays attended.
LEMMA NextKeepsAttended ==
  ASSUME TypeOK, SubsInv, OpeningInv, ForeignInv, [Next]_vars, ~Reload,
         NEW o \in Orders, NEW k \in Keys, stored[o] = k, stored'[o] = k, Attended(o, k)
  PROVE  Attended(o, k)'
<1>1. PICK r \in Openers : r.order = o /\ r.key = k /\ stage[r] = "done"
  BY NoneAssumption DEF OpeningInv, StoredWasOpened, OpenedBy
<1>2. StaleWasBegun /\ r \in Requests
  BY <1>1 DEF OpeningInv, Openers
<1>3. Pending(r) => Tracking(o, k)
  BY <1>1 DEF Pending
<1>4. Tracking(o, k) /\ (TakeTrack => Head(cmds) # TrackCmd(o, k)) => Tracking(o, k)'
  BY <1>2, TrackingStays
<1>5. ASSUME ~TakeTrack, boot' = boot, deaf \subseteq deaf', Heard(o, k) => Heard(o, k)' \/ Tracking(o, k)
      PROVE  Attended(o, k)'
  BY <1>4, <1>5 DEF Attended
<1>6. CASE TakeTrack
  <2> DEFINE q == Head(cmds).key
             p == Head(cmds).order
  <2>1. q \in Keys /\ p \in Orders /\ SubsKept /\ boot = {} /\ boot' = boot
    BY <1>6, HeadParts, NoneAssumption, TakeTrackKeeps DEF TakeTrack, SubsInv, Listening
  <2>2. ensure_order_dm_subscription(q, p)
    BY <1>6 DEF TakeTrack
  <2>3. q # k \/ p # o => Head(cmds) # TrackCmd(o, k)
    BY DEF TrackCmd
  <2>4. q = k /\ p # o => Tracking(o, k)'
    BY <1>1, <1>3, <1>4, <1>6, <2>3, ForeignAtHead DEF ForeignInv
  <2>5. q # k /\ Tracking(o, k) => Tracking(o, k)'
    BY <1>4, <2>3
  <2> HIDE DEF q, p
  <2> QED BY <2>1, <2>2, <2>4, <2>5, EnsureAttends
<1>7. CASE TakeWait
  <2> DEFINE q == Head(cmds).waiter.key
  <2>1. q \in Keys /\ SubsKept /\ ~TakeTrack /\ boot' = boot
    BY <1>7, HeadParts, RequestParts, TakeWaitKeeps DEF TakeWait, SubsInv, TakeTrack
  <2>2. /\ deaf' = deaf
        /\ \/ UNCHANGED subs
           \/ q \notin subscribed /\ Subscribe(q, NoOrder)
           \/ q \notin subscribed /\ SubscribeFails(q) /\ UNCHANGED keySub
    BY <1>7, TakeWaitParts DEF RefusedForCap, RefusedForRelay, Queued, subs
  <2> HIDE DEF q
  <2>3. Heard(o, k) => Heard(o, k)'
    <3>1. CASE UNCHANGED subs
      BY <3>1 DEF subs, Heard
    <3>2. CASE ~UNCHANGED subs
      BY <2>1, <2>2, <3>2, OtherKeysKept DEF Heard
    <3> QED BY <3>1, <3>2
  <2> QED BY <1>5, <2>1, <2>2, <2>3
<1>8. ASSUME NEW b \in boot, Bootstrap(b) PROVE Attended(o, k)'
  <2>1. b.key \in Keys /\ b.order \in Orders /\ SubsKept /\ ~TakeTrack
        /\ b = [order |-> b.order, key |-> b.key]
    BY <1>8, BootstrapKeeps DEF TypeOK, SubsInv, TakeTrack, Listening
  <2>2. ensure_order_dm_subscription(b.key, b.order) /\ boot' = boot \ {b}
    BY <1>8 DEF Bootstrap
  <2>3. b.key = k => b.order = o
    BY <1>1, OneOpener DEF OpeningInv, BootWasOpened, OpenedBy
  <2> QED BY <1>4, <2>1, <2>2, <2>3, EnsureAttends
<1>9. CASE RouteBound \/ RouteByKey
  <2> DEFINE q == cur.event.key
  <2>1. /\ cur.sub \in Subs /\ q \in Keys /\ subKey[cur.sub] \in {q, NoKey}
        /\ ~TakeTrack /\ boot' = boot /\ deaf' = deaf /\ keySub' = keySub
    BY <1>9
    DEF RouteBound, RouteByKey, TypeOK, Deliveries, Events, SubsInv, DeliveriesServed, ServesKey,
        TakeTrack, Listening
  <2>2. \/ UNCHANGED <<subscribed, bound>>
        \/ \E p \in Orders : /\ subscribed' = subscribed \ {q} /\ stored' = [stored EXCEPT ![p] = NoKey]
                             /\ \/ p = bound[cur.sub] /\ bound' = [bound EXCEPT ![cur.sub] = NoOrder]
                                \/ p \in ActiveWith(q) /\ bound' = bound
    BY <1>9, <2>1 DEF RouteBound, RouteByKey, Finished, Unmark, ActiveWith, TypeOK
  <2>3. CASE UNCHANGED <<subscribed, bound>>
    BY <1>5, <2>1, <2>3 DEF Heard
  <2>4. ASSUME NEW p \in Orders, subscribed' = subscribed \ {q}, stored' = [stored EXCEPT ![p] = NoKey],
               \/ p = bound[cur.sub] /\ bound' = [bound EXCEPT ![cur.sub] = NoOrder]
               \/ p \in ActiveWith(q) /\ bound' = bound,
               Heard(o, k)
        PROVE  Heard(o, k)' \/ Tracking(o, k)
    <3>1. p # o
      BY <2>4, NoneAssumption DEF TypeOK
    <3>2. CASE q = k /\ p \in ActiveWith(q)
      BY <1>1, <1>3, <3>1, <3>2 DEF ForeignInv, ForeignIndexIsPending, ActiveWith
    <3>3. CASE q = k /\ p = bound[cur.sub]
      <4>1. subKey[cur.sub] = k
        BY <2>1, <2>4, <3>3, NoneAssumption DEF ForeignInv, ClosedIsUnbound
      <4> QED BY <1>1, <1>3, <2>1, <3>1, <3>3, <4>1, NoneAssumption
          DEF ForeignInv, ForeignBindingIsPending, ForeignBinding
    <3>4. CASE q # k
      <4>1. keySub[k] # cur.sub /\ keySub[k] \in Subs
        BY <2>1, <2>4, <3>4, NoneAssumption DEF Heard, SubsInv, KeySubIsLive, TypeOK
      <4> QED BY <2>1, <2>4, <3>4, <4>1 DEF Heard, TypeOK
    <3> QED BY <2>4, <3>2, <3>3, <3>4
  <2> QED BY <1>5, <2>1, <2>2, <2>3, <2>4
<1>10. CASE PruneTick \/ (\E d \in inFlight : Deliver(d)) \/ UNCHANGED vars
  <2>1. UNCHANGED <<subscribed, keySub, bound, boot, deaf, cmds>>
    BY <1>10 DEF PruneTick, Deliver, vars, subs
  <2> QED BY <2>1 DEF Attended, Heard, Tracking
<1>11. ASSUME NEW q \in Requests, TaskNext(q) PROVE Attended(o, k)'
  <2>1. UNCHANGED <<subscribed, keySub, bound, boot>> /\ deaf \subseteq deaf'
    BY <1>11 DEF TaskNext, Start, Register, Send, GiveUp, Resume, HandleResult, subs
  <2>2. cmds' = cmds \/ \E c \in Cmds : cmds' = Append(cmds, c)
    BY <1>11, CmdTypes, RequestParts
    DEF TaskNext, Start, Register, Send, GiveUp, Resume, HandleResult, TrackReplied
  <2>3. ~TakeTrack
    <3>1. ASSUME TakeTrack PROVE Len(cmds') < Len(cmds)
      BY <3>1 DEF TakeTrack, TypeOK
    <3>2. Len(cmds') >= Len(cmds)
      BY <2>2 DEF TypeOK
    <3> QED BY <3>1, <3>2 DEF TypeOK
  <2> QED BY <1>5, <2>1, <2>3 DEF Heard
<1>12. ASSUME NEW q \in Requests, MostroNext(q) PROVE Attended(o, k)'
  <2>1. UNCHANGED <<subscribed, keySub, bound, boot, deaf, cmds>>
    BY <1>12, MostroPublishes DEF Publish, subs
  <2> QED BY <2>1 DEF Attended, Heard, Tracking
<1> QED BY <1>6, <1>7, <1>8, <1>9, <1>10, <1>11, <1>12 DEF Next, ListenerNext

\* Every stored order is attended after the step.
LEMMA NextKeepsHeard ==
  ASSUME TypeOK, SubsInv, OpeningInv, ForeignInv, StoredIsHeard, [Next]_vars PROVE StoredIsHeard'
<1> SUFFICES ASSUME NEW o \in Orders, NEW k \in Keys, stored'[o] = k PROVE Attended(o, k)'
  <2>1. stored' \in [Orders -> Keys \cup {NoKey}]
    BY NextTyped DEF TypeOK, SubsInv
  <2>2. \A o \in Orders : stored'[o] # NoKey => \E k \in Keys : stored'[o] = k /\ Attended(o, k)'
    BY <2>1
  <2> QED BY <2>2 DEF StoredIsHeard, Attended, Heard, Tracking, TrackCmd
<1>1. k # NoKey
  BY NoneAssumption
<1>2. CASE Reload
  BY <1>1, <1>2 DEF Reload, Attended
<1>3. CASE stored[o] = k /\ ~Reload
  BY <1>1, <1>3, NextKeepsAttended DEF StoredIsHeard
<1>4. ASSUME NEW r \in Openers, Resume(r), stage'[r] = "done", r.order = o, k = r.key
      PROVE  Attended(o, k)'
  <2>1. r \in Requests /\ Opening(r) /\ Accepted(r)
    BY <1>4 DEF Openers, Resume, TypeOK
  <2>2. CASE r \in stale
    BY <1>4, <2>1, <2>2 DEF Resume, Attended
  <2>3. CASE r \notin stale
    <3>1. cmds' = Append(cmds, TrackCmd(o, k))
      BY <1>4, <2>1, <2>3 DEF Resume, TrackReplied
    <3> QED BY <3>1, AppendTracks DEF Attended
  <2> QED BY <2>2, <2>3
<1> QED BY <1>1, <1>2, <1>3, <1>4, StoredChange

HeardInv == OpeningInv /\ ForeignInv /\ DeliveryInv /\ StoredIsHeard

\* The invariant under StoredOrderIsHeard.
LEMMA HeardInvariance == Spec => [](TypeOK /\ SubsInv /\ HeardInv)
<1>1. Init => HeardInv
  <2> SUFFICES ASSUME Init PROVE HeardInv
    OBVIOUS
  <2>1. Delivered = {} /\ cmds = <<>>
    BY DEF Init, Delivered
  <2>2. OpeningInv
    BY <2>1, RequestParts, NoneAssumption
    DEF Init, OpeningInv, StaleWasBegun, LaterFollows, StoredWasOpened, BootWasOpened, TracksAreOurs,
        IdleIsUntouched, Unheard, Named, Openers
  <2>3. ForeignInv
    BY <2>1, RequestParts, NoneAssumption
    DEF Init, ForeignInv, ForeignTrackIsFirst, ForeignIndexIsPending, ForeignBindingIsPending,
        ForeignBinding, ClosedIsUnbound, Openers
  <2>4. DeliveryInv /\ StoredIsHeard
    BY <2>1, NoneAssumption
    DEF Init, DeliveryInv, DeliveredWasPublished, OneSubUntilEnd, HeardOnce, StoredIsHeard
  <2> QED BY <2>2, <2>3, <2>4 DEF HeardInv
<1>2. TypeOK /\ SubsInv /\ HeardInv /\ [Next]_vars => HeardInv'
  <2> SUFFICES ASSUME TypeOK, SubsInv, HeardInv, [Next]_vars PROVE HeardInv'
    OBVIOUS
  <2>1. OpeningInv'
    BY NextKeepsOpening DEF HeardInv
  <2>2. ForeignInv'
    BY NextKeepsForeignTrack, NextKeepsForeignIndex, NextKeepsForeignBinding, NextKeepsClosed
    DEF HeardInv, ForeignInv
  <2> QED BY <2>1, <2>2, NextKeepsDelivery, NextKeepsHeard DEF HeardInv
<1> QED BY <1>1, <1>2, Invariance, PTL DEF Spec

\* A stored order is bound to the live subscription of its key at rest, and no
\* event of a running trade is dropped but in the gap before its TrackOrder.
THEOREM StoredOrderIsHeardHolds == Spec => []StoredOrderIsHeard
<1>1. TypeOK /\ HeardInv => StoredOrderIsBound
  <2> SUFFICES ASSUME HeardInv, boot = {}, NEW o \in Orders, stored[o] # NoKey,
                      stored[o] \notin deaf, ~Tracking(o, stored[o])
               PROVE  stored[o] \in subscribed /\ bound[keySub[stored[o]]] = o
    BY DEF StoredOrderIsBound
  <2> QED BY DEF HeardInv, StoredIsHeard, Attended, Heard
<1>2. TypeOK /\ HeardInv => StoredOrderLosesNothing
  <2> DEFINE k == cur.event.key
  <2> SUFFICES ASSUME TypeOK, HeardInv, cur # NoDelivery, bound[cur.sub] = NoOrder, ~Ended(k),
                      NEW o \in Orders, stored[o] = k
               PROVE  k \in deaf \/ Tracking(o, k) \/ boot # {}
    BY DEF StoredOrderLosesNothing, Ended
  <2>1. cur \in Delivered /\ k \in Keys
    BY DEF Delivered, TypeOK, Deliveries, Events
  <2>2. keySub[k] = cur.sub
    BY <2>1 DEF HeardInv, DeliveryInv, OneSubUntilEnd, HeardOnce
  <2>3. ~Heard(o, k)
    BY <2>2, NoneAssumption DEF Heard
  <2> QED BY <2>1, <2>3, NoneAssumption DEF HeardInv, StoredIsHeard, Attended
<1> QED BY <1>1, <1>2, HeardInvariance, PTL DEF StoredOrderIsHeard

=============================================================================
