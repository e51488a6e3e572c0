-------------------------- MODULE MCAdminDisputes --------------------------
(* One dispute of the solver's, two tasks, one reload or crash. *)
EXTENDS AdminDisputes
=============================================================================
