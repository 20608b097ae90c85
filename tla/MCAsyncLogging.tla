--------------------------- MODULE MCAsyncLogging ---------------------------
(* Instances of AsyncLogging for TLC. *)
EXTENDS AsyncLogging
=============================================================================
