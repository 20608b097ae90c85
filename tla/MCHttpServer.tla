---------------------------- MODULE MCHttpServer ----------------------------
(* Instances of HttpServer for TLC. *)
EXTENDS HttpServer

CONSTANTS acc, w1, w2, loop1, c1, c2

OneWorker  == <<w1>>
TwoWorkers == <<w1, w2>>
OneWorkerScheds  == {acc, w1}
TwoWorkerScheds  == {acc, w1, w2}
OneClient  == {c1}
TwoClients == {c1, c2}
OneClientTasks  == {c1, loop1}
TwoClientTasks  == {c1, c2, loop1}

\* The accept loop accepts; a connection sends, and receives with a timeout.
OneClientKinds == [t \in OneClientTasks |-> IF t = loop1 THEN {"plain"} ELSE {"plain", "timed"}]
TwoClientKinds == [t \in TwoClientTasks |-> IF t = loop1 THEN {"plain"} ELSE {"plain", "timed"}]

\* Operations after which submitting may fail no more, and accepts that may fail.
FailOnce  == [t \in OneClientTasks |-> 1]
FailTwice == [t \in OneClientTasks |-> 2]
AcceptFailsOnce == [t \in TwoClientTasks |-> IF t = loop1 THEN 2 ELSE 0]

\* Clients are interchangeable; workers are not, they are dealt to in order.
ClientSymmetry == Permutations(TwoClients)
=============================================================================
