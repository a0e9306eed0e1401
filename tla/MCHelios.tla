------------------------------ MODULE MCHelios ------------------------------
(* Small instances of Helios. *)
EXTENDS Helios, TLC

Interchangeable == Permutations(Tasks)
=============================================================================
