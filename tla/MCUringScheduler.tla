-------------------------- MODULE MCUringScheduler --------------------------
(* Instances of UringScheduler for TLC. *)
EXTENDS UringScheduler

CONSTANTS t1, t2

MCTask == {t1, t2}

\* One task that receives or sends, and one that receives again.
MixedKinds == (t1 :> {"plain", "timed"}) @@ (t2 :> {"timed"})
MixedAwait == (t1 :> 1) @@ (t2 :> 2)

\* Two connections that wait for a request.
Timed    == [t \in MCTask |-> {"timed"}]
OneAwait == [t \in MCTask |-> 1]
=============================================================================
