--------------------------- MODULE MCStreamSession ---------------------------
(* Small instances of StreamSession: streams of at most three chunks.      *)
EXTENDS StreamSession
=============================================================================
