----------------------------- MODULE MCDmRouter -----------------------------
(***************************************************************************)
(* Requests for TLC: a created order that is canceled, an order taken      *)
(* twice under two keys, and a take Mostro answers with another order.     *)
(***************************************************************************)
EXTENDS DmRouter

CONSTANTS o1, o2, k1, k2, k3, k4

Create == [kind |-> "create", key |-> k1, asked |-> NoOrder, order |-> o1]
Cancel == [kind |-> "later", key |-> k1, asked |-> o1, order |-> o1]
Take   == [kind |-> "take", key |-> k2, asked |-> o2, order |-> o2]
Retake == [kind |-> "take", key |-> k3, asked |-> o2, order |-> o2]
Filled == [kind |-> "take", key |-> k4, asked |-> o1, order |-> o2]

SomeRequests == {Create, Cancel, Take, Retake, Filled}
Session(R, n) == [requests |-> R, troubles |-> n]
SomeSessions ==
  {Session({Create, Cancel}, 2), Session({Take, Retake}, 0), Session({Filled}, 2)}
=============================================================================
