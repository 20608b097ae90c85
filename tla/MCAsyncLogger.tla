--------------------------- MODULE MCAsyncLogger ---------------------------
(* Instances of AsyncLogger for TLC. *)
EXTENDS AsyncLogger, TLC

CONSTANTS p1, p2, w

MCProducer == {p1, p2}
MCConsumer == {w}
Symmetry   == Permutations(MCProducer)
============================================================================
