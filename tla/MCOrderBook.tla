---------------------------- MODULE MCOrderBook ----------------------------
(* A small instance of OrderBook: three orders, two of them the user's. *)
EXTENDS OrderBook

MCMine    == {1, 2}
MCFilters == {{1, 3}, {1, 2, 3}}
=============================================================================
