SPECIFICATION Spec
CONSTANTS
  o1 = o1  o2 = o2  k1 = k1  k2 = k2  k3 = k3  k4 = k4
  Orders = {o1, o2}
  Keys = {k1, k2, k3, k4}
  Requests <- SomeRequests
  Sessions <- SomeSessions
  NoOrder = NoOrder  NoKey = NoKey  NoRequest = NoRequest
  NoEvent = NoEvent  NoDelivery = NoDelivery
  MaxWaiters = 1
  MaxSubs = 4
INVARIANT KeySubIsLive WaiterIsHeard StoredOrderIsHeard
