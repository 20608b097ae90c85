---------------------------- MODULE EpollServer ----------------------------
(***************************************************************************)
(* The epoll server: Server accepts connections on the main thread and     *)
(* deals them to the loops of EventLoopThreadPool; each loop has an Epoll  *)
(* with its maps and a TimerManager, and HttpData objects that live as     *)
(* long as a map, a timer or a functor refers to them.  The kernel's side  *)
(* of a socket and of epoll, and the clients, are modelled as they are     *)
(* used.                                                                   *)
(*                                                                         *)
(* Registrations are edge-triggered (EPOLLET is not written out).  A timer *)
(* node that clearReq has emptied only waits to be popped: it is left out. *)
(* queueInLoop and the wakeup are those of module EventLoop, in one step.  *)
(***************************************************************************)
EXTENDS HttpData, FiniteSets

CONSTANTS
    Conn,          \* connections, each one an HttpData and its socket
    NoConn,        \* the null pointer of a map
    NLoops,        \* threadNum
    MaxFds,        \* MAXFDS
    Cap,           \* pieces of a response a socket holds until the client reads them
    Expired,       \* DEFAULT_EXPIRED_TIME
    KeepAliveTime, \* DEFAULT_KEEP_ALIVE_TIME
    Period,        \* where the clock of the timers wraps around (10000 s)
    Pieces,        \* what a client may send at once
    Talkers,       \* bound: connections whose clients do more than connect
    MaxSends,      \* bound: sends of all clients together
    MaxNow,        \* bound: the time
    MaxFaults      \* bound: failing system calls

ASSUME EpollServerConstants ==
    /\ NoConn \notin Conn /\ Talkers \subseteq Conn
    /\ NLoops \in Nat \ {0} /\ MaxFds \in Nat \ {0} /\ Cap \in Nat \ {0} /\ Period \in Nat \ {0}
    /\ Expired \in Nat \ {0} /\ KeepAliveTime \in Nat \ {0}
    /\ Pieces \subseteq Seq(STRING)
    /\ MaxSends \in Nat /\ MaxNow \in Nat /\ MaxFaults \in Nat

Loop == 0..(NLoops - 1)
Fd   == 1..(MaxFds - 1)   \* the descriptors that are left for connections

VARIABLES
    now,       \* the time
    sock,      \* the socket: unread input, FIN and RST received, pieces the client has not read, all sent
    life,      \* "idle", "backlog", "alive", "leaked" or "closed"
    backlog,   \* connections to be accepted
    edge,      \* the listening socket is on its epoll's ready list
    armed,     \* the listening socket's registration is in force
    accepting, \* handNewConn is running
    next,      \* next_ of EventLoopThreadPool
    data,      \* the HttpData, with its Channel's events_ (ev) and lastEvents_ (last)
    fd, loop,  \* its descriptor (0: none) and its loop
    link,      \* its timer_
    pending,   \* a loop's functors: connections for newEvent
    wake,      \* an event of a loop's wakeupFd_
    lpc,       \* "poll", "handle", "conn" (between handleRead or handleWrite and handleConn), "expire"
    cur,       \* the connection at "conn"
    batch,     \* what poll has returned and is still to be handled: connections with their revents_
    chan,      \* fd2chan_
    http,      \* fd2http_
    mask,      \* the events registered with the kernel; none if disabled
    ready,     \* the socket is on epoll's ready list
    timers,    \* a loop's timer nodes: [conn, exp]
    sends, faults,
    quiet      \* when the timeout a connection was last given is over (history)

sys    == <<now, sends, faults>>
accept == <<backlog, edge, armed, accepting, next>>
object == <<life, data, fd, loop>>
thread == <<lpc, cur, batch>>
poller == <<chan, http, mask, ready>>
clock  == <<timers, link, quiet>>
functor == <<pending, wake>>
vars   == <<sys, sock, accept, object, functor, thread, poller, clock>>

None  == [conn |-> NoConn, exp |-> 0]
Fresh == [in |-> << >>, fin |-> FALSE, rst |-> FALSE, unread |-> 0, sent |-> << >>]

PInit ==
    /\ now = 0 /\ sends = 0 /\ faults = {}
    /\ sock = [c \in Conn |-> Fresh]
    /\ life = [c \in Conn |-> "idle"]
    /\ backlog = << >> /\ edge = FALSE /\ armed = TRUE /\ accepting = FALSE /\ next = 0
    /\ data = [c \in Conn |-> New]
    /\ fd = [c \in Conn |-> 0] /\ loop = [c \in Conn |-> 0]
    /\ pending = [l \in Loop |-> << >>] /\ wake = [l \in Loop |-> FALSE]
    /\ lpc = [l \in Loop |-> "poll"] /\ cur = [l \in Loop |-> NoConn]
    /\ batch = [l \in Loop |-> {}]
    /\ chan = [l \in Loop |-> [f \in Fd |-> NoConn]] /\ http = chan
    /\ mask = [c \in Conn |-> {}] /\ ready = [c \in Conn |-> FALSE]
    /\ timers = [l \in Loop |-> {}] /\ link = [c \in Conn |-> None]
    /\ quiet = [c \in Conn |-> 0]

\* A system call fails.
Fault(kind) == Cardinality(faults) < MaxFaults /\ faults' = faults \cup {kind}

-----------------------------------------------------------------------------
(* The kernel                                                              *)

\* The events of a socket that a registration asks for; an error is always reported.
Level(s, m) ==
    {e \in m \cup {"err"} : \/ e = "in"  /\ (s.in # << >> \/ s.fin)
                            \/ e = "out" /\ s.unread < Cap
                            \/ e = "err" /\ s.rst /\ m # {}}

\* An edge: something happened to the socket that its registration asks for.
Edge(c, e) == ready' = [ready EXCEPT ![c] = @ \/ (mask[c] # {} /\ (e = "err" \/ e \in mask[c]))]

\* EPOLL_CTL_ADD and EPOLL_CTL_MOD look at the socket as it is.
Ctl(c, m) ==
    /\ mask' = [mask EXCEPT ![c] = m]
    /\ ready' = [ready EXCEPT ![c] = Level(sock[c], m) # {}]

-----------------------------------------------------------------------------
(* The clients and time                                                    *)

Tick ==
    /\ now < MaxNow
    /\ now' = now + 1
    /\ UNCHANGED <<sends, faults, sock, accept, object, functor, thread, poller, clock>>

Connect(c) ==
    /\ life[c] = "idle"
    /\ life' = [life EXCEPT ![c] = "backlog"]
    /\ backlog' = Append(backlog, c)
    /\ edge' = (edge \/ armed)
    /\ UNCHANGED <<sys, sock, armed, accepting, next, data, fd, loop, functor, thread, poller, clock>>

Connected(c) == c \in Talkers /\ life[c] \in {"backlog", "alive"} /\ ~ sock[c].rst

Send(c, piece) ==
    /\ Connected(c) /\ ~ sock[c].fin
    /\ sends < MaxSends /\ sends' = sends + 1
    /\ sock' = [sock EXCEPT ![c].in = @ \o piece]
    /\ Edge(c, "in")
    /\ UNCHANGED <<now, faults, accept, object, functor, thread, chan, http, mask, clock>>

\* The client has nothing more to send,
Shutdown(c) ==
    /\ Connected(c) /\ ~ sock[c].fin
    /\ sock' = [sock EXCEPT ![c].fin = TRUE]
    /\ Edge(c, "in")
    /\ UNCHANGED <<sys, accept, object, functor, thread, chan, http, mask, clock>>

\* resets the connection,
Abort(c) ==
    /\ Connected(c) /\ life[c] = "alive"
    /\ sock' = [sock EXCEPT ![c].rst = TRUE, ![c].in = << >>]
    /\ Edge(c, "err")
    /\ UNCHANGED <<sys, accept, object, functor, thread, chan, http, mask, clock>>

\* or reads what it has been sent.
Drain(c) ==
    /\ Connected(c) /\ sock[c].unread > 0
    /\ sock' = [sock EXCEPT ![c].unread = 0]
    /\ Edge(c, "out")
    /\ UNCHANGED <<sys, accept, object, functor, thread, chan, http, mask, clock>>

-----------------------------------------------------------------------------
(* Server::handNewConn and EventLoopThreadPool::getNextLoop                *)

AcceptEvent ==
    /\ edge /\ ~ accepting
    /\ accepting' = TRUE /\ edge' = FALSE
    /\ UNCHANGED <<sys, sock, backlog, armed, next, object, functor, thread, poller, clock>>

Free == Fd \ {fd[c] : c \in Conn}

\* The new descriptor is the lowest free one.
Lowest(f) == f \in Free /\ \A g \in Free : f <= g

\* next_ goes round.
GetNextLoop == next' = (next + 1) % NLoops

\* accept succeeds: the loop is chosen before anything else is looked at.
Accepted(c) ==
    /\ accepting /\ backlog # << >> /\ c = Head(backlog)
    /\ backlog' = Tail(backlog)
    /\ GetNextLoop
    /\ UNCHANGED <<sock, poller, clock, thread, data, now, sends>>

\* A connection is made and handed to its loop.
Deal(c) ==
    /\ Accepted(c)
    /\ \E f \in Free : Lowest(f) /\ fd' = [fd EXCEPT ![c] = f]
    /\ loop' = [loop EXCEPT ![c] = next]
    /\ life' = [life EXCEPT ![c] = "alive"]
    /\ pending' = [pending EXCEPT ![next] = Append(@, c)] /\ wake' = [wake EXCEPT ![next] = TRUE]
    /\ UNCHANGED <<edge, armed, accepting, faults>>

\* Too many descriptors, of connections and others: this one is closed.
Refuse(c) ==
    /\ Accepted(c)
    /\ life' = [life EXCEPT ![c] = "closed"]
    /\ UNCHANGED <<edge, armed, accepting, faults, fd, loop, functor>>

\* setSocketNonBlocking fails: the handler returns, with a descriptor nobody owns and the
\* listening socket's events_ at 0, which handThisConn then registers.
NonBlockFails(c) ==
    /\ Accepted(c)
    /\ Fault("nonblock")
    /\ \E f \in Free : Lowest(f) /\ fd' = [fd EXCEPT ![c] = f]
    /\ life' = [life EXCEPT ![c] = "leaked"]
    /\ armed' = FALSE /\ edge' = FALSE /\ accepting' = FALSE
    /\ UNCHANGED <<loop, functor>>

\* accept fails: nothing is left to be accepted, or there is some other error.  The events of the
\* listening socket are as they were: epoll is not told anything.
AcceptEnds ==
    /\ accepting
    /\ \/ backlog = << >> /\ UNCHANGED faults
       \/ backlog # << >> /\ Fault("accept")
    /\ accepting' = FALSE
    /\ UNCHANGED <<now, sends, sock, backlog, edge, armed, next, object, functor, thread, poller, clock>>

-----------------------------------------------------------------------------
(* EventLoop::loop and Epoll                                               *)

\* poll: the channels of what is ready.  An event whose channel is gone does not end it.
Poll(l) ==
    LET R == {c \in Conn : ready[c] /\ loop[c] = l}
        E == {c \in R : Level(sock[c], mask[c]) # {}}
        B == {<<chan[l][fd[c]], Level(sock[c], mask[c])>> : c \in {e \in E : chan[l][fd[e]] # NoConn}}
    IN  /\ lpc[l] = "poll"
        /\ R # {} \/ wake[l]
        /\ wake' = [wake EXCEPT ![l] = FALSE]
        /\ batch' = [batch EXCEPT ![l] = B]
        /\ lpc' = [lpc EXCEPT ![l] = IF B # {} \/ wake[l] THEN "handle" ELSE "poll"]
        /\ ready' = [c \in Conn |-> ready[c] /\ c \notin R]
        /\ mask' = [c \in Conn |-> IF c \in E /\ "oneshot" \in mask[c] THEN {} ELSE mask[c]]
        /\ UNCHANGED <<sys, sock, accept, object, pending, cur, chan, http, clock>>

\* The second half of handleRead, for the HttpData p that the first half has left.  io holds the
\* room in the socket and the pieces written to it so far.
Respond(io, p, fails) ==
    LET n    == Written(p, io.room, fails)
        page == IF p.page # 0 /\ io.room > 0 /\ ~ fails THEN << <<0, p.page>> >> ELSE << >>
    IN  [d |-> AfterRead(p, io.room, fails), room |-> io.room - n - Len(page),
         wrote |-> io.wrote \o page \o SubSeq(p.out, 1, n)]

\* One call of handleRead with what readn has read, and another one if it ends in a call of itself.
Call(io, read, zero, fails) == Respond(io, Parse(io.d, read, zero, fails), fails)
CallAgain(io) == IF io.d.again THEN Call(io, << >>, FALSE, FALSE) ELSE io

\* handleRead with all its calls of itself, each of which takes a request.
ReadAll(io, s) ==
    LET n == Cardinality({i \in 1..Len(io.d.buf \o s.in) : (io.d.buf \o s.in)[i] \in Versions})
        f[k \in 0..n] == IF k = 0 THEN Call(io, s.in, s.fin, s.rst) ELSE CallAgain(f[k - 1])
    IN  f[n]

\* handleWrite.
WriteAll(io, s) ==
    LET n == Written(io.d, io.room, s.rst)
    IN  [d |-> HandleWrite(io.d, io.room, s.rst), room |-> io.room - n, wrote |-> io.wrote \o SubSeq(io.d.out, 1, n)]

\* Channel::handleEvents without handleConn; an error or a hangup ends it here.  reset, in
\* handleRead, takes the timer off; handleConn would do it anyway.
HandleEvents(l, c, rev) ==
    LET start == [d |-> [data[c] EXCEPT !.ev = {}], room |-> Cap - sock[c].unread, wrote |-> << >>]
        Reads(io)  == IF "in" \in rev THEN ReadAll(io, sock[c]) ELSE io
        Writes(io) == IF "out" \in rev THEN WriteAll(io, sock[c]) ELSE io
    IN  /\ lpc[l] = "handle" /\ <<c, rev>> \in batch[l]
        /\ batch' = [batch EXCEPT ![l] = @ \ {<<c, rev>>}]
        /\ IF "err" \in rev
           THEN data' = [data EXCEPT ![c] = start.d] /\ UNCHANGED <<sock, lpc, cur>>
           ELSE /\ \E io \in {Writes(Reads(start))} :
                      /\ data' = [data EXCEPT ![c] = io.d]
                      /\ sock' = [sock EXCEPT ![c].in = IF "in" \in rev THEN << >> ELSE @,
                                              ![c].unread = Cap - io.room, ![c].sent = @ \o io.wrote]
                /\ lpc' = [lpc EXCEPT ![l] = "conn"] /\ cur' = [cur EXCEPT ![l] = c]
        /\ UNCHANGED <<sys, accept, life, fd, loop, functor, poller, clock>>

-----------------------------------------------------------------------------
(* HttpData::handleConn, handleClose and newEvent; TimerManager            *)

Node(c, timeout) == [conn |-> c, exp |-> (now % Period) + timeout]

\* A slip: addTimer without linkTimer.
AddTimerUnlinked(l, c, N, timeout) ==
    /\ timers' = [timers EXCEPT ![l] = N \cup {Node(c, timeout)}]
    /\ quiet' = [quiet EXCEPT ![c] = now + timeout]
    /\ UNCHANGED link

\* addTimer, to a loop's nodes N.
AddTimer(l, c, N, timeout) ==
    /\ timers' = [timers EXCEPT ![l] = N \cup {Node(c, timeout)}]
    /\ link' = [link EXCEPT ![c] = Node(c, timeout)]
    /\ quiet' = [quiet EXCEPT ![c] = now + timeout]

\* A slip: epoll_del resets nothing.
ForgetNothing(map, l, F) == map

\* A map of loop l without the descriptors F.
Forget(map, l, F) == [map EXCEPT ![l] = [f \in Fd |-> IF f \in F THEN NoConn ELSE map[l][f]]]

\* handleClose of the connections K, which leaves the nodes N: the maps forget their
\* descriptors; an HttpData that no map and no node refers to is destroyed, and closes its own.
Close(l, K, N) ==
    LET F    == {fd[c] : c \in K}
        Dead == {c \in K : \A n \in N : n.conn # c}
        destroy(v, w) == [c \in Conn |-> IF c \in Dead THEN w ELSE v[c]]
    IN  /\ chan' = Forget(chan, l, F) /\ http' = Forget(http, l, F)
        /\ mask' = [c \in Conn |-> IF c \in K THEN {} ELSE mask[c]]
        /\ ready' = [c \in Conn |-> ready[c] /\ c \notin K]
        /\ timers' = [timers EXCEPT ![l] = N]
        /\ link' = [c \in Conn |-> IF c \in K THEN None ELSE link[c]]
        /\ data' = [c \in Conn |-> IF c \in Dead THEN New
                                   ELSE IF c \in K THEN [data[c] EXCEPT !.cstate = "disconnected"] ELSE data[c]]
        /\ life' = destroy(life, "closed")
        /\ fd' = destroy(fd, 0) /\ loop' = destroy(loop, 0) /\ quiet' = destroy(quiet, 0)
        /\ sock' = [c \in Conn |-> IF c \in Dead THEN [Fresh EXCEPT !.sent = sock[c].sent] ELSE sock[c]]

\* A slip: one-shot registrations, as in the lines of handleConn that are commented out.
WantedOnce(d) ==
    IF d.ev = {} THEN [ev |-> {"in", "oneshot"}, timeout |-> IF d.keep THEN KeepAliveTime ELSE KeepAliveTime \div 2]
    ELSE [ev |-> (IF d.ev = {"in", "out"} THEN {"out"} ELSE d.ev) \cup {"oneshot"},
          timeout |-> IF d.keep THEN KeepAliveTime ELSE Expired]

\* The events to wait for and the timeout, if the connection goes on.
Wanted(d) ==
    IF d.ev = {} THEN [ev |-> {"in"}, timeout |-> IF d.keep THEN KeepAliveTime ELSE KeepAliveTime \div 2]
    ELSE [ev |-> IF d.ev = {"in", "out"} THEN {"out"} ELSE d.ev, timeout |-> IF d.keep THEN KeepAliveTime ELSE Expired]

\* epoll_mod: the kernel is told only of other events than the last ones.  It may refuse.
EpollMod(l, c, ev) ==
    \/ ev = data[c].last /\ UNCHANGED <<poller, faults>>
    \/ ev # data[c].last /\ Ctl(c, ev) /\ UNCHANGED <<chan, http, faults>>
    \/ ev # data[c].last /\ Fault("ctl") /\ chan' = [chan EXCEPT ![l][fd[c]] = NoConn]
       /\ UNCHANGED <<http, mask, ready>>

\* A slip: the timer is left in the heap.
AllOfThem(l, c) == timers[l]

\* seperateTimer: the nodes without the connection's own.
Others(l, c) == timers[l] \ {link[c]}

Resume(l, c) ==
    LET d == data[c]
        w == Wanted(d)
    IN  /\ ~ d.err /\ d.cstate = "connected"
        /\ EpollMod(l, c, w.ev)
        /\ data' = [data EXCEPT ![c].ev = w.ev, ![c].last = w.ev]
        /\ AddTimer(l, c, Others(l, c), w.timeout)
        /\ UNCHANGED <<life, fd, loop, sock>>

\* The client has sent everything and there is output left: epoll is not told of the events,
\* and there is no timer.
Linger(l, c) ==
    LET d == data[c]
    IN  /\ ~ d.err /\ d.cstate = "disconnecting" /\ "out" \in d.ev
        /\ data' = [data EXCEPT ![c].ev = {"out"}]
        /\ timers' = [timers EXCEPT ![l] = Others(l, c)]
        /\ link' = [link EXCEPT ![c] = None]
        /\ UNCHANGED <<life, fd, loop, sock, poller, faults, quiet>>

Finish(l, c) ==
    LET d == data[c]
    IN  /\ d.err \/ d.cstate = "disconnected" \/ (d.cstate = "disconnecting" /\ "out" \notin d.ev)
        /\ Close(l, {c}, Others(l, c))
        /\ UNCHANGED faults

HandleConn(l) ==
    LET c == cur[l]
    IN  /\ lpc[l] = "conn"
        /\ Resume(l, c) \/ Linger(l, c) \/ Finish(l, c)
        /\ lpc' = [lpc EXCEPT ![l] = "handle"] /\ cur' = [cur EXCEPT ![l] = NoConn]
        /\ UNCHANGED <<now, sends, accept, functor, batch>>

\* The events of newEvent.
DefaultEvent == {"in", "oneshot"}

\* doPendingFunctors: newEvent of each new connection.  epoll_add forgets the channel of one
\* that the kernel refuses, but not its HttpData.
DoPendingFunctors(l) ==
    LET P == {pending[l][i] : i \in 1..Len(pending[l])}
        Put(m, K) == [m EXCEPT ![l] = [f \in Fd |-> IF \E c \in P : fd[c] = f
                                                     THEN LET c == CHOOSE c \in P : fd[c] = f
                                                          IN  IF c \in K THEN c ELSE NoConn
                                                     ELSE m[l][f]]]
    IN  /\ lpc[l] = "handle" /\ batch[l] = {}
        /\ \E bad \in {{}} \cup {{c} : c \in P} :
              /\ \/ bad = {} /\ UNCHANGED faults
                 \/ bad # {} /\ Fault("ctl")
              /\ chan' = Put(chan, P \ bad)
              /\ mask' = [c \in Conn |-> IF c \in P \ bad THEN DefaultEvent ELSE mask[c]]
              /\ ready' = [c \in Conn |-> IF c \in P \ bad THEN Level(sock[c], {"in"}) # {} ELSE ready[c]]
        /\ http' = Put(http, P)
        /\ data' = [c \in Conn |-> IF c \in P THEN [data[c] EXCEPT !.ev = DefaultEvent, !.last = DefaultEvent]
                                   ELSE data[c]]
        /\ timers' = [timers EXCEPT ![l] = @ \cup {Node(c, Expired) : c \in P}]
        /\ link' = [c \in Conn |-> IF c \in P THEN Node(c, Expired) ELSE link[c]]
        /\ quiet' = [c \in Conn |-> IF c \in P THEN now + Expired ELSE quiet[c]]
        /\ pending' = [pending EXCEPT ![l] = << >>]
        /\ lpc' = [lpc EXCEPT ![l] = "expire"]
        /\ UNCHANGED <<wake, now, sends, sock, accept, life, fd, loop, cur, batch>>

\* isValid, by the clock that wraps around.
Valid(n) == now % Period < n.exp

\* handleExpired: nodes are popped as long as the first one's time is over; their destructors
\* close their connections.
HandleExpired(l) ==
    LET X == {n \in timers[l] : ~ Valid(n)}
        K == {n.conn : n \in X}
    IN  /\ lpc[l] = "expire"
        /\ lpc' = [lpc EXCEPT ![l] = "poll"]
        /\ Close(l, K, timers[l] \ X)
        /\ UNCHANGED <<sys, accept, functor, cur, batch>>

-----------------------------------------------------------------------------

ServerStep == AcceptEvent \/ AcceptEnds \/ \E c \in Conn : Deal(c) \/ Refuse(c) \/ NonBlockFails(c)

LoopStep(l) ==
    \/ Poll(l) \/ HandleConn(l) \/ DoPendingFunctors(l) \/ HandleExpired(l)
    \/ \E b \in batch[l] : HandleEvents(l, b[1], b[2])

ClientStep(c) ==
    \/ Connect(c) \/ Shutdown(c) \/ Abort(c) \/ Drain(c)
    \/ \E p \in Pieces : Send(c, p)

PNext == Tick \/ ServerStep \/ (\E l \in Loop : LoopStep(l)) \/ (\E c \in Conn : ClientStep(c))

PSpec == PInit /\ [][PNext]_vars

-----------------------------------------------------------------------------
(* Properties                                                              *)

Alive(l, c) == life[c] = "alive" /\ loop[c] = l

\* A map, a batch of events or a handler never refers to a destroyed HttpData or by another's
\* descriptor: a Channel's callbacks hold a plain this, and descriptors are used again, by the
\* accepting thread and in any loop, as soon as ~HttpData closes them.
NoDanglingHandler ==
    \A l \in Loop :
        /\ \A f \in Fd : \A c \in {chan[l][f], http[l][f]} \ {NoConn} : Alive(l, c) /\ fd[c] = f
        /\ \A c \in {b[1] : b \in batch[l]} \cup {n.conn : n \in timers[l]} : Alive(l, c)
        /\ lpc[l] = "conn" => Alive(l, cur[l])

\* Output is left and nobody will write it: the client has shut down its side (see Linger).
Stranded(c) == data[c].cstate = "disconnecting" /\ data[c].out # << >>

\* Every connection that a loop has taken has exactly one timer, the one it can take
\* back: a lost one would leave its descriptor open for ever, and a second one would close it while
\* it is in use.  Only a stranded connection has none.
Guarded ==
    \A l \in Loop : \A c \in Conn :
        Alive(l, c) /\ c # cur[l] /\ c \notin {pending[l][i] : i \in 1..Len(pending[l])} =>
            {n \in timers[l] : n.conn = c} = IF Stranded(c) THEN {} ELSE {link[c]}

Ended(c) == life[c] = "closed" \/ data[c].cstate = "disconnected"

\* A timer closes a connection only when the timeout it was last given is over (Timer.cpp: the
\* timeout is the least time until then), whatever nodes of earlier events are in the heap.
ClosedOnlyWhenDue ==
    [][\A l \in Loop : \A c \in Conn :
          lpc[l] = "expire" /\ lpc'[l] = "poll" /\ Alive(l, c) /\ ~ Ended(c) /\ Ended(c)'
              => now >= quiet[c]]_vars

\* Edge-triggered and one-shot registrations lose nothing: a connection that its loop is done
\* with is registered, and what it waits for, if it is there, is on its way.
NoLostEvent ==
    \A l \in Loop : \A c \in Conn :
        /\ Alive(l, c) /\ data[c].last # {} /\ data[c].cstate = "connected" /\ ~ sock[c].rst
        /\ (\A b \in batch[l] : b[1] # c) /\ c # cur[l] /\ "ctl" \notin faults
        => mask[c] # {} /\ (Level(sock[c], mask[c]) # {} => ready[c])

\* A client that does not ask for /hello (whose answer replaces outBuffer_ and with it what is
\* left of earlier responses) gets the pieces of its responses in order, none twice and none
\* left out, however the socket fills up; an error page comes last.
PiecesInOrder ==
    \A c \in Conn : \A i \in 1..Len(sock[c].sent) :
        \/ sock[c].sent[i] = <<((i - 1) \div RespLen) + 1, ((i - 1) % RespLen) + 1>>
        \/ i = Len(sock[c].sent) /\ sock[c].sent[i][1] = 0
=============================================================================
