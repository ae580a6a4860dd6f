-------------------------- MODULE MCPerceptionLoop --------------------------
(* Small instances of PerceptionLoop.                                      *)
EXTENDS PerceptionLoop
=============================================================================
