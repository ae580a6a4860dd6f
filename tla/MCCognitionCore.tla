--------------------------- MODULE MCCognitionCore ---------------------------
(* A small instance of CognitionCore: a primary and echo.                  *)
EXTENDS CognitionCore
=============================================================================
