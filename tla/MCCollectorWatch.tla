-------------------------- MODULE MCCollectorWatch --------------------------
(* CollectorWatch for TLC.                                                  *)
EXTENDS CollectorWatch
=============================================================================
