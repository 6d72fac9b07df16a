------------------------------ MODULE MCRunGroup ------------------------------
(* RunGroup for TLC. *)
EXTENDS RunGroup
=============================================================================
