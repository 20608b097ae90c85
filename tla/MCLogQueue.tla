---------------------------- MODULE MCLogQueue ----------------------------
(* Instances of LogQueue for TLC. *)
EXTENDS LogQueue, TLC

CONSTANTS p1, p2, c1, c2

MCProducer == {p1, p2}
MCConsumer == {c1, c2}
Symmetry   == Permutations(MCProducer) \cup Permutations(MCConsumer)
===========================================================================
