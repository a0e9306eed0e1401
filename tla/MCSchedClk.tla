----------------------------- MODULE MCSchedClk -----------------------------
(* Small instances of SchedClk. *)
EXTENDS SchedClk
=============================================================================
