----------------------------- MODULE MCSession -----------------------------
(* Two Mostro instances, one rotation, faults of every kind.               *)
EXTENDS Session
=============================================================================
