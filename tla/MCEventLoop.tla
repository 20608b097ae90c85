---------------------------- MODULE MCEventLoop ----------------------------
(***************************************************************************)
(* Two threads that queue functors into one loop.                          *)
(***************************************************************************)
EXTENDS EventLoop, TLC

CONSTANTS c1, c2

MCCaller == {c1, c2}
=============================================================================
