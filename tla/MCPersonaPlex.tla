---------------------------- MODULE MCPersonaPlex ----------------------------
(* Small instances of PersonaPlex.                                         *)
EXTENDS PersonaPlex
=============================================================================
