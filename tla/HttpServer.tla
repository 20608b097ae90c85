----------------------------- MODULE HttpServer -----------------------------
(***************************************************************************)
(* The coroutine HTTP server on top of UringScheduler: the main thread     *)
(* that starts, stops and joins, the accept loop on the acceptor's         *)
(* scheduler, one handle_connection coroutine per client on the worker it  *)
(* was dealt to, and the clients and their sockets as the environment.     *)
(*                                                                         *)
(* Bytes are counted in pieces: a request is complete after ReqLen pieces  *)
(* (try_parse_request), a response has RespLen, a receive or a send moves  *)
(* any positive number of them.  A client's connection task is named after *)
(* the client.                                                             *)
(***************************************************************************)
EXTENDS UringScheduler

CONSTANTS
    Client,
    Acceptor,      \* the scheduler of the accept thread
    Worker,        \* the sequence of worker schedulers
    AcceptLoop,    \* the accept loop's task
    ReqLen,        \* pieces of a request
    RespLen,       \* pieces of a response
    MaxRequests,   \* bound: requests a client sends
    MaxClosed,     \* bound: clients that close their side
    MaxWaiting     \* bound: completions that wait at a scheduler when a timeout ends there

ASSUME TasksOfServer  == Task = Client \cup {AcceptLoop} /\ AcceptLoop \notin Client
ASSUME SchedsOfServer == Sched = {Acceptor} \cup ToSet(Worker) /\ NoTask \notin Sched /\ Acceptor \notin ToSet(Worker)
ASSUME WorkersOfServer == Worker \in Seq(Sched) /\ Len(Worker) > 0 /\ IsInjective(Worker)
ASSUME LengthsArePositive == ReqLen \in Nat \ {0} /\ RespLen \in Nat \ {0} /\ MaxRequests \in Nat
ASSUME BoundsAreNumbers == MaxClosed \in Nat /\ MaxWaiting \in Nat

VARIABLES
    mpc,         \* main: "init", "spawned", "serving", "stopping", "waiting", "joined" or "crashed"
    stops,       \* schedulers stop() has been called on so far
    srv,         \* HttpServer::running_
    nextWorker,  \* next_worker_
    accepted,    \* result of the last accept: a client
    home,        \* the worker a client was dealt to (history)
    fd,          \* the server's socket of a client: "none", "backlog", "open", "closed"
    cpc,         \* where a task's coroutine stands: "loop", "io", "write", "send"
    sent,        \* pieces the client has sent and the server not received
    total,       \* pieces the client has sent (history)
    eof,         \* the client has closed its side
    buf,         \* pieces in handle_connection's buffer
    off,         \* write_all's offset
    served,      \* requests taken out of the buffer
    got          \* what the client has received: <<request, piece>> in order

server  == <<mpc, stops, srv>>
deal    == <<nextWorker, accepted, home>>
peer    == <<sent, total, eof, got>>
session == <<cpc, buf, off, served>>
hvars   == <<svars, server, deal, fd, session, peer>>

\* The process is running.
Up == mpc \notin {"init", "joined", "crashed"}

HInit ==
    /\ Init
    /\ mpc = "init"
    /\ stops = 0
    /\ srv = FALSE
    /\ nextWorker = 0
    /\ accepted = NoTask
    /\ home = [c \in Client |-> NoTask]
    /\ fd = [c \in Client |-> "none"]
    /\ cpc = [t \in Task |-> "loop"]
    /\ sent = [c \in Client |-> 0]
    /\ total = [c \in Client |-> 0]
    /\ eof = [c \in Client |-> FALSE]
    /\ buf = [c \in Client |-> 0]
    /\ off = [c \in Client |-> 0]
    /\ served = [c \in Client |-> 0]
    /\ got = [c \in Client |-> << >>]

-----------------------------------------------------------------------------
(* The main thread                                                         *)

\* start(): running_ is set, the schedulers are built and their threads spawned ...
StartThreads ==
    /\ mpc = "init"
    /\ mpc' = "spawned"
    /\ srv' = TRUE
    /\ UNCHANGED <<svars, stops, deal, fd, session, peer>>

\* ... and then the accept loop is handed to the acceptor.
StartAcceptLoop ==
    /\ mpc = "spawned"
    /\ mpc' = "serving"
    /\ Start(Acceptor, AcceptLoop)
    /\ UNCHANGED <<stops, srv, deal, fd, session, peer>>

StopServer ==
    /\ mpc = "serving"
    /\ mpc' = "stopping"
    /\ srv' = FALSE
    /\ UNCHANGED <<svars, stops, deal, fd, session, peer>>

\* The acceptor first, then the workers in order.
StopOrder == <<Acceptor>> \o Worker

\* A slip: the loop over the workers ends one too early.
StopSchedulerButLast ==
    /\ mpc = "stopping"
    /\ Stop(StopOrder[stops + 1])
    /\ stops' = stops + 1
    /\ mpc' = IF stops + 2 >= Len(StopOrder) THEN "waiting" ELSE mpc
    /\ UNCHANGED <<srv, deal, fd, session, peer>>

StopScheduler ==
    /\ mpc = "stopping"
    /\ Stop(StopOrder[stops + 1])
    /\ stops' = stops + 1
    /\ mpc' = IF stops + 1 = Len(StopOrder) THEN "waiting" ELSE mpc
    /\ UNCHANGED <<srv, deal, fd, session, peer>>

\* wait(): every thread is joined.
Joined ==
    /\ mpc = "waiting"
    /\ \A s \in Sched : lpc[s] = "exited"
    /\ mpc' = "joined"
    /\ UNCHANGED <<svars, stops, srv, deal, fd, session, peer>>

Thread(s) ==
    /\ mpc # "init"
    /\ LoopStep(s)
    /\ UNCHANGED <<server, deal, fd, session, peer>>

\* The process dies of undefined behaviour.
Crash ==
    /\ Die
    /\ mpc' = "crashed"
    /\ UNCHANGED <<stops, srv, deal, fd, session, peer>>

\* A completion for an operation that is gone reaches handle_cqe.
DanglingCompletion(s) ==
    /\ ReapDangling(s)
    /\ mpc' = "crashed"
    /\ UNCHANGED <<stops, srv, deal, fd, session, peer>>

-----------------------------------------------------------------------------
(* accept_loop                                                             *)

Accepting(pc) == cur[Acceptor].task = AcceptLoop /\ cpc[AcceptLoop] = pc

AcceptAwait ==
    /\ Accepting("loop")
    /\ srv
    /\ Await(Acceptor, "plain")
    /\ cpc' = [cpc EXCEPT ![AcceptLoop] = "io"]
    /\ UNCHANGED <<server, deal, fd, buf, off, served, peer>>

\* A slip: next_worker_ is not used.
PickFirstWorker(i) == Worker[1]

\* The next client goes to the next worker in turn.
PickWorker(i) == Worker[(i % Len(Worker)) + 1]

\* A slip: the connection is started on the accept thread.
AcceptKeep ==
    LET w == PickWorker(nextWorker)
    IN  /\ Accepting("io")
        /\ op[AcceptLoop].res >= 0
        /\ Start(Acceptor, accepted)
        /\ nextWorker' = nextWorker + 1
        /\ home' = [home EXCEPT ![accepted] = w]
        /\ cpc' = [cpc EXCEPT ![AcceptLoop] = "loop"]
        /\ UNCHANGED <<server, accepted, fd, buf, off, served, peer>>

AcceptDeal ==
    LET w == PickWorker(nextWorker)
    IN  /\ Accepting("io")
        /\ op[AcceptLoop].res >= 0
        /\ Post(w, accepted)
        /\ nextWorker' = nextWorker + 1
        /\ home' = [home EXCEPT ![accepted] = w]
        /\ cpc' = [cpc EXCEPT ![AcceptLoop] = "loop"]
        /\ UNCHANGED <<server, accepted, fd, buf, off, served, peer>>

\* A slip: the catch clause leaves the loop.
AcceptErrorEnds ==
    /\ Accepting("io")
    /\ op[AcceptLoop].res < 0
    /\ srv
    /\ Finish(Acceptor)
    /\ UNCHANGED <<server, deal, fd, session, peer>>

\* accept failed: try again, unless stopping.  (Submitting it cannot fail: the accept loop
\* is alone on its ring, and its queue is empty whenever it awaits.)
AcceptError ==
    /\ Accepting("io")
    /\ op[AcceptLoop].res < 0
    /\ srv
    /\ cpc' = [cpc EXCEPT ![AcceptLoop] = "loop"]
    /\ UNCHANGED <<svars, server, deal, fd, buf, off, served, peer>>

AcceptExit ==
    /\ \/ Accepting("loop")
       \/ Accepting("io") /\ op[AcceptLoop].res < 0
    /\ ~ srv
    /\ Finish(Acceptor)
    /\ UNCHANGED <<server, deal, fd, session, peer>>

AcceptStep == AcceptAwait \/ AcceptDeal \/ AcceptError \/ AcceptExit

-----------------------------------------------------------------------------
(* handle_connection, with the read_request and write_all it awaits        *)

At(s, c, pc) == cur[s].task = c /\ cpc[c] = pc

\* handle_connection returns; destroying the frame closes the socket.
Return(s, c) ==
    /\ Finish(s)
    /\ fd' = [fd EXCEPT ![c] = IF cur[s].destroy THEN "closed" ELSE @]
    /\ UNCHANGED <<server, deal, session, peer>>

\* running_ is clear: both loops end.
ConnStopped(s, c) == At(s, c, "loop") /\ ~ srv /\ Return(s, c)

\* A slip: a request that has been received only in part is answered.
ConnRequestEarly(s, c) ==
    /\ At(s, c, "loop")
    /\ srv
    /\ buf[c] > 0
    /\ buf' = [buf EXCEPT ![c] = IF @ >= ReqLen THEN @ - ReqLen ELSE 0]
    /\ served' = [served EXCEPT ![c] = @ + 1]
    /\ off' = [off EXCEPT ![c] = 0]
    /\ cpc' = [cpc EXCEPT ![c] = "write"]
    /\ UNCHANGED <<svars, server, deal, fd, peer>>

\* A complete request is in the buffer: take it out and answer it.
ConnRequest(s, c) ==
    /\ At(s, c, "loop")
    /\ srv
    /\ buf[c] >= ReqLen
    /\ buf' = [buf EXCEPT ![c] = @ - ReqLen]
    /\ served' = [served EXCEPT ![c] = @ + 1]
    /\ off' = [off EXCEPT ![c] = 0]
    /\ cpc' = [cpc EXCEPT ![c] = "write"]
    /\ UNCHANGED <<svars, server, deal, fd, peer>>

ConnRecv(s, c) ==
    /\ At(s, c, "loop")
    /\ srv
    /\ buf[c] < ReqLen
    /\ Await(s, "timed")
    /\ cpc' = [cpc EXCEPT ![c] = "io"]
    /\ UNCHANGED <<server, deal, fd, buf, off, served, peer>>

ConnReceived(s, c) ==
    /\ At(s, c, "io")
    /\ op[c].res > 0
    /\ buf' = [buf EXCEPT ![c] = @ + op[c].res]
    /\ cpc' = [cpc EXCEPT ![c] = "loop"]
    /\ UNCHANGED <<svars, server, deal, fd, off, served, peer>>

\* End of file, or ECANCELED: read_request returns no request.
ConnEnd(s, c) == At(s, c, "io") /\ op[c].res \in {0, ECANCELED} /\ Return(s, c)

\* An exception crosses a Task: await_resume destroys the frame that holds the exception
\* and then rethrows it.  If it survives, handle_connection catches it and returns.
Rethrow(s, c) ==
    \/ Return(s, c)
    \/ Crash

\* Any other error of a receive (a timeout's ETIME is not ETIMEDOUT) or of a send.
ConnError(s, c) ==
    /\ At(s, c, "io") \/ At(s, c, "send")
    /\ op[c].res < 0 /\ ~ (cpc[c] = "io" /\ op[c].res = ECANCELED)
    /\ Rethrow(s, c)

\* Submitting the receive or the send fails.
ConnSubmitFails(s, c) ==
    /\ srv
    /\ op[c].n < MaxAwait[c]
    /\ \/ At(s, c, "loop") /\ buf[c] < ReqLen /\ AwaitThrows(s, "timed")
          /\ cpc' = [cpc EXCEPT ![c] = "io"]
       \/ At(s, c, "write") /\ off[c] < RespLen /\ AwaitThrows(s, "plain")
          /\ cpc' = [cpc EXCEPT ![c] = "send"]
    /\ UNCHANGED <<server, deal, fd, buf, off, served, peer>>

ConnSend(s, c) ==
    /\ At(s, c, "write")
    /\ off[c] < RespLen
    /\ srv
    /\ Await(s, "plain")
    /\ cpc' = [cpc EXCEPT ![c] = "send"]
    /\ UNCHANGED <<server, deal, fd, buf, off, served, peer>>

\* A slip: one send is taken to have sent everything.
ConnSentAll(s, c) ==
    /\ At(s, c, "send")
    /\ op[c].res > 0
    /\ off' = [off EXCEPT ![c] = RespLen]
    /\ cpc' = [cpc EXCEPT ![c] = "write"]
    /\ UNCHANGED <<svars, server, deal, fd, buf, served, peer>>

ConnSent(s, c) ==
    /\ At(s, c, "send")
    /\ op[c].res > 0
    /\ off' = [off EXCEPT ![c] = @ + op[c].res]
    /\ cpc' = [cpc EXCEPT ![c] = "write"]
    /\ UNCHANGED <<svars, server, deal, fd, buf, served, peer>>

\* write_all is over; a request that is not keep-alive ends the connection.
WriteAllOver(s, c) == At(s, c, "write") /\ (off[c] >= RespLen \/ ~ srv)

ConnKeepAlive(s, c) ==
    /\ WriteAllOver(s, c)
    /\ cpc' = [cpc EXCEPT ![c] = "loop"]
    /\ UNCHANGED <<svars, server, deal, fd, buf, off, served, peer>>

ConnClose(s, c) == WriteAllOver(s, c) /\ Return(s, c)

ConnStep(s, c) ==
    \/ ConnStopped(s, c) \/ ConnRequest(s, c) \/ ConnRecv(s, c) \/ ConnReceived(s, c)
    \/ ConnEnd(s, c) \/ ConnError(s, c) \/ ConnSubmitFails(s, c)
    \/ ConnSend(s, c) \/ ConnSent(s, c) \/ ConnKeepAlive(s, c) \/ ConnClose(s, c)

-----------------------------------------------------------------------------
(* Clients and the kernel                                                  *)

Connect(c) ==
    /\ Up
    /\ fd[c] = "none"
    /\ fd' = [fd EXCEPT ![c] = "backlog"]
    /\ UNCHANGED <<svars, server, deal, session, peer>>

ClientSends(c) ==
    /\ Up
    /\ fd[c] # "none"
    /\ ~ eof[c]
    /\ total[c] < MaxRequests * ReqLen
    /\ total' = [total EXCEPT ![c] = @ + 1]
    /\ sent' = [sent EXCEPT ![c] = @ + 1]
    /\ UNCHANGED <<svars, server, deal, fd, session, eof, got>>

ClientCloses(c) ==
    /\ Up
    /\ fd[c] # "none"
    /\ ~ eof[c]
    /\ Cardinality({d \in Client : eof[d]}) < MaxClosed
    /\ eof' = [eof EXCEPT ![c] = TRUE]
    /\ UNCHANGED <<svars, server, deal, fd, session, sent, total, got>>

AcceptDone(c) ==
    /\ fd[c] = "backlog"
    /\ \E r \in flight[Acceptor] : IoDone(Acceptor, r, 1)
    /\ fd' = [fd EXCEPT ![c] = "open"]
    /\ accepted' = c
    /\ UNCHANGED <<server, nextWorker, home, session, peer>>

AcceptFails ==
    /\ op[AcceptLoop].n < MaxAwait[AcceptLoop]
    /\ \E r \in flight[Acceptor] : IoDone(Acceptor, r, EIO)
    /\ UNCHANGED <<server, deal, fd, session, peer>>

\* A receive takes what has arrived.  One whose operation is gone has taken it for nobody.
RecvDone(s, c, r) ==
    /\ op[c].kind = "timed" \/ r.n # op[c].n
    /\ \/ \E k \in 1..sent[c] : IoDone(s, r, k) /\ sent' = [sent EXCEPT ![c] = @ - k]
       \/ sent[c] = 0 /\ eof[c] /\ IoDone(s, r, 0) /\ UNCHANGED sent
       \/ eof[c] /\ IoDone(s, r, EIO) /\ UNCHANGED sent
    /\ UNCHANGED <<server, deal, fd, session, total, eof, got>>

\* A send moves part of the response that starts at write_all's offset.
SendDone(s, c, r) ==
    /\ op[c].kind = "plain" /\ r.n = op[c].n
    /\ \/ \E k \in 1..(RespLen - off[c]) :
             /\ IoDone(s, r, k)
             /\ got' = [got EXCEPT ![c] = @ \o [i \in 1..k |-> <<served[c], off[c] + i>>]]
       \/ eof[c] /\ IoDone(s, r, EIO) /\ UNCHANGED got
    /\ UNCHANGED <<server, deal, fd, session, sent, total, eof>>

SocketStep(s) ==
    \E r \in flight[s] :
        /\ r.task \in Client /\ r.kind = "io"
        /\ RecvDone(s, r.task, r) \/ SendDone(s, r.task, r)

Timer(s) ==
    /\ Len(cq[s]) < MaxWaiting
    /\ \E r \in flight[s] : TimerFires(s, r)
    /\ UNCHANGED <<server, deal, fd, session, peer>>

BadTimespec(s) ==
    /\ Len(cq[s]) < MaxWaiting
    /\ \E r \in flight[s] : TimerRejected(s, r)
    /\ UNCHANGED <<server, deal, fd, session, peer>>

-----------------------------------------------------------------------------

Main == StartThreads \/ StartAcceptLoop \/ StopScheduler \/ Joined
WorkerTask(s) == \E c \in Client : ConnStep(s, c)

HNext ==
    \/ Main \/ StopServer \/ AcceptStep \/ AcceptFails
    \/ \E s \in Sched : Thread(s) \/ WorkerTask(s) \/ SocketStep(s) \/ Timer(s) \/ BadTimespec(s)
                          \/ DanglingCompletion(s)
    \/ \E c \in Client : Connect(c) \/ ClientSends(c) \/ ClientCloses(c) \/ AcceptDone(c)

HSpec == HInit /\ [][HNext]_hvars

\* Threads run, main joins what has ended, coroutines run on, submissions succeed in the
\* end, and an accept with a client in the backlog completes.  Clients are free.
HFairness ==
    /\ WF_hvars(Main)
    /\ WF_hvars(AcceptStep)
    /\ WF_hvars(\E c \in Client : AcceptDone(c))
    /\ \A s \in Sched :
          /\ WF_hvars(Thread(s))
          /\ WF_hvars(WorkerTask(s))
          /\ WF_hvars(SocketStep(s))
          /\ SF_hvars(Thread(s) /\ Submit(s) /\ sq'[s] = << >>)

HFairSpec == HSpec /\ HFairness

-----------------------------------------------------------------------------
(* Properties                                                              *)

\* A client is dealt to exactly one worker, in turn, and nothing of its connection is ever
\* on another thread: frames and buffers need no lock.
Confined ==
    \A s \in Sched, c \in Client :
        (\/ c \in ToSet(posts[s])
         \/ \E i \in ToSet(Schedule(s)) : i.task = c
         \/ \E r \in ToSet(sq[s]) \cup flight[s] \cup ToSet(cq[s]) : r.task = c) => home[c] = s

\* Worker loads never differ by more than one client.
DealtInTurn ==
    \A v, w \in ToSet(Worker) :
        Cardinality({c \in Client : home[c] = v}) <= Cardinality({c \in Client : home[c] = w}) + 1

\* A client receives the responses in the order of its requests, each one whole and once:
\* partial sends, keep-alive and pipelining neither skip, repeat nor mix pieces.
ResponsesInOrder ==
    \A c \in Client : \A i \in 1..Len(got[c]) :
        got[c][i] = <<((i - 1) \div RespLen) + 1, ((i - 1) % RespLen) + 1>>

\* The server answers no request it has not completely received, on a connection that has
\* never been given the bytes of another one (a receive which its connection gave up for a
\* late timeout, and whose awaiter's memory is the awaiter of this connection when it ends).
AnswersFollowRequests ==
    \A c \in Client : ~ op[c].foreign => served[c] * ReqLen + buf[c] <= total[c] - sent[c]

\* A connection that is over has closed its socket ("Connection: close").
EndedConnectionIsClosed == \A c \in Client : st[c] \in {"done", "destroyed"} => fd[c] = "closed"

\* stop() followed by wait() returns, if every thread had entered its loop before stop().
StopReturns ==
    (mpc = "stopping" /\ stops = 0 /\ \A s \in Sched : lpc[s] # "boot") ~> mpc \in {"joined", "crashed"}

\* While the server runs, a client in the backlog is accepted and its connection started.
ClientIsServed ==
    \A c \in Client : fd[c] = "backlog" ~> (st[c] \in {"running", "waiting", "done"} \/ ~ srv \/ ~ Up)
=============================================================================
