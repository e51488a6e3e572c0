---------------------------- MODULE MCListPanes ----------------------------
(* Three rows in a tab, two where a row has more to it, and two files. *)
EXTENDS ListPanes

MCRowable == [p \in Panes |-> IF p \in {"MyTrades", "DisputesInProgress"} THEN {1, 2} ELSE {1, 2, 3}]
=============================================================================
