# A verification project for CorioWebServer

The repository holds two HTTP servers. The **coroutine server**
(`WebServer/coroutineWebServer/`) runs C++20 coroutines on one io_uring per
thread and logs through a lock-free ring; it is the server the repository's own
README describes. The **epoll server** (`WebServer/`, with `WebServer/base/`) is
the older reactor it grew out of. This project models both: threads, completions,
queues and lifetimes, the parsers of requests, and both loggers; checks them with TLC
and proves, with TLAPS, nearly all of what the runs check about safety.
`PROJECT.json` maps every definition to its lines.

## 1. Inventory

### The coroutine server

| part | state | operations | talks to |
|---|---|---|---|
| `AsyncLogger::LogQueue` | `head_`, `tail_`, per slot `sequence` and `payload` | `push`, `pop` | called by `log` and `worker_loop` |
| `AsyncLogger` | `running_`, `sink_`, `worker_` | `start`, `stop`, `log`, `direct_write`, `worker_loop` | every thread logs; the sink is shared under `sink_mutex_` |
| `UringScheduler` | `running_`, `posts_`, `ready_`, the ring | `run`, `stop`, `post`, `enqueue`, `handle_cqe`, awaiters' `submit` | the kernel; `post` is called from other threads |
| `Task` | coroutine frames and who destroys them | `start`, `co_await`, final suspension, `await_resume` | `ready_` of a scheduler |
| `HttpServer` (threads, connections) | `running_`, `next_worker_`, threads, per connection a buffer and a socket | `start`, `stop`, `wait`, `accept_loop`, `handle_connection`, `read_request`, `write_all` | schedulers, clients |
| `HttpServer` (requests, responses), `Types` | none | `try_parse_request`, `build_response`, `resolve_path`, `load_file` | the file system |
| `UniqueFd`, `CoroutineMain`, `MemoryResource` | a descriptor; options; pools per thread | RAII; `main`; allocation of frames | `HttpServer` |

Each scheduler belongs to one thread; the only calls that cross threads are
`post`, `stop`, and `start` of the accept loop. What is hard here: the ring of the
logger has no lock at all; a completion names its awaiter by address, so its
lifetime matters; two requests (a receive and its timeout) name one awaiter; the
submission queue may be full, submitting may fail, sends and receives are partial;
and everything must end after `stop`.

What makes it right: no log line is lost, torn or doubled; a coroutine is resumed
once per operation, on its own thread; completions reach the operation they belong
to; clients are shared out; responses arrive in order, whole and once; an ended
connection closes its socket; every loop ends when it is told to.

### The epoll server and `base`

| part | state | operations | talks to |
|---|---|---|---|
| `EventLoop`, `EventLoopThread` | `quit_`, `pendingFunctors_`, `wakeupFd_`, `loop_` | `startLoop`, `loop`, `queueInLoop`, `runInLoop`, `wakeup`, `quit`, destructor | other threads, epoll |
| `EventLoopThreadPool`, `Server`, `Main` | `next_`, listening socket | `start`, `getNextLoop`, `handNewConn`, `handThisConn` | `queueInLoop` of the loops |
| `HttpData`, `Channel`, `Epoll`, `Timer` | per connection: parse state, `events_`, `lastEvents_`, `connectionState_`, timer; per loop: `fd2chan_`, `fd2http_`, timer heap | `handleRead`, `handleWrite`, `handleConn`, `handleClose`, `newEvent`, `epoll_add/mod/del`, `poll`, `handleExpired` | epoll, clients |
| `AsyncLogging`, `CountDownLatch`, `Thread`, `Condition`, `MutexLock` | current, next and full buffers; a count | `append`, `threadFunc`, `start`, `stop`; `wait`, `countDown` | every thread logs |
| `LogFile`, `FileUtil`, `LogStream`, `Logging` | a file and its buffer | formatting and writing | `AsyncLogging` |
| `ThreadPool` | a bounded queue of tasks | `threadpool_add`, `threadpool_destroy` | used by neither server |
| `Util` | none | read and write loops, socket options | the kernel |

Hard here: wakeups that must not be lost, objects that live on another thread's
stack, edge-triggered events, timers that share ownership of a connection, and
buffers exchanged between threads. `WebBench` and `tests/` are a third-party load
generator and test clients.

`PROJECT.json` lists under `hazards` the lines at which each of these can go wrong
and the properties that would notice.

## 2. Modules

| module | models | extends |
|---|---|---|
| `LogQueue` | `AsyncLogger::LogQueue`, any number of pushing and popping threads | |
| `BoundedFifo` | what the queue promises: a bounded FIFO with atomic put and get | |
| `LogQueueProofs` | theorems about `LogQueue` | `LogQueue` |
| `AsyncLogger` | `start`, `stop`, `log`, `direct_write`, `worker_loop` | `LogQueue` |
| `AsyncLoggerProofs` | theorems about `AsyncLogger` | `AsyncLogger`, `LogQueueProofs` |
| `UringScheduler` | schedulers, awaiters, coroutine frames, io_uring | |
| `UringSchedulerProofs` | theorems about `UringScheduler` | `UringScheduler` |
| `HttpServer` | main, accept loop, connections, clients | `UringScheduler` |
| `HttpServerProofs` | theorems about how connections are dealt to workers, and about the requests and responses of a connection | `HttpServer`, `UringSchedulerProofs` |
| `EventLoop` | `EventLoop` and `EventLoopThread`, any number of callers | |
| `EventLoopProofs` | theorems about `EventLoop` | `EventLoop` |
| `Tokens` | a byte stream as the parsers see it, and the searches of `std::string` | |
| `HttpRequest` | `try_parse_request`, `keep_alive`, `resolve_path`, `build_response`, `to_wire` | `Tokens` |
| `HttpData` | what the handlers of `HttpData` do to one connection object | `Tokens` |
| `Requests` | one connection of either server and a client whose requests arrive cut anywhere | `HttpRequest`, `HttpData` |
| `RequestsProofs` | theorems about `Requests` | `Requests` |
| `EpollServer` | `Server`, `EventLoopThreadPool`, `Epoll`, `Channel`, `TimerManager`, the handlers of `HttpData` on loops and sockets | `HttpData` |
| `EpollServerProofs` | theorems about `EpollServer` | `EpollServer` |
| `AsyncLogging` | `AsyncLogging` with `CountDownLatch`, `Thread`, `Condition`, `LogFile`, `AppendFile` | |
| `AsyncLoggingProofs` | theorems about `AsyncLogging` | `AsyncLogging` |
| `MC*` | constants for TLC | the module of that name |

**LogQueue.** One action is one atomic access: the load of `tail_` (`EnterPush`),
of the slot's sequence (`PushCheck`), the compare-and-swap (`PushClaim`, or
`PushLose`, also without cause because it is a weak one), the store of the payload,
the store of the sequence; likewise for `pop`. `claimed` is a history variable: the
entry whose push drew ticket *t*. Atomics are sequentially consistent: the code's
acquire/release pairs on `sequence` order exactly the accesses the properties
speak of. Tickets are naturals; 2^64 of them are out of a program's reach. The
repository's README calls the queue SPSC; the code is the many-producer,
many-consumer algorithm, and that is what is modelled.

**AsyncLogger.** A critical section of `sink_mutex_` is one action. A line is
`<<producer, n>>`. `file` and `flushed` are the stream and the part of it that has
left the buffer.

**UringScheduler.** `lpc` is the place in `run()`: `Drain` tests `running_` and
calls the posted functions (one step, since `stop` and `post` write one of the two
each), `SwapReady` and `Resume` are `drain_ready`, `Submit` is `io_uring_submit`,
`Reap` is `handle_cqe`. A chain of coroutines that await each other is one task;
it has at most one operation object, numbered. All operations (accept, send, read,
write, timeout, cancel) prepare one request and share the action `Await`; a receive
with a timeout prepares two, linked. Three behaviours are undefined in the code and
nondeterministic here: a completion for an operation that is gone (below); the timespec
that the kernel reads after `submit` has returned (`TimerRejected`, or any delay); and
rethrowing an exception out of a destroyed frame (`Rethrow` in `HttpServer`).

A completion for an operation that is gone does nothing, or kills the process
(`ReapDangling`), or completes whatever operation lies at its address now (`Reap`,
`Aliased`). That is a timed receive, of the same coroutine or of any other one on the same
scheduler. Only timed receives leave completions behind, and their awaiters are part of the
frame of `read_request`, which with its chunk of 8 KiB is larger than the largest block of
the thread's pool (`MemoryResource.cpp:61`): such a frame comes from the general allocator
and its memory can become another frame of that kind, while the awaiters of sends and
accepts lie in the pool's small blocks. A frame is allocated and freed by its worker's
thread, and both allocators the code may be built with keep memory of that size with the
thread that freed it, so the address of one worker's frame as another's is left out.
So a connection can be given the bytes which another one's receive, given up
for a late timeout, brings later; `foreign` (history) records that it was.

**HttpServer.** Bytes are counted in pieces: a request is `ReqLen` pieces, a response
`RespLen`, and a receive or send moves any positive number of them. Whether a request
asks for keep-alive is a free choice. `StartThreads` ... `Joined` are `main`.
`home`, `total` and `got` are history.

**EventLoop.** One action per critical section of `mutex_`, per write to `wakeupFd_`
and per functor. `signal` is an event of `wakeupFd_` that `epoll_wait` has not
reported; with EPOLLET a write makes one and a read takes it back. `Poll` does not
return on a timeout, as `Epoll::poll` does not. Handlers and functors may queue
functors themselves, which no caller in the repository does today, but which
`callingPendingFunctors_` exists for. `quit_` is a plain `bool` read by another
thread: the loop sees it at some later test. The loop is an object on the thread's stack: writing
to `wakeupFd_` after the thread is gone does nothing or kills the process (`Write`).

**Tokens, HttpRequest, HttpData, Requests.** A byte stream is a sequence of tokens:
words (a method, a target, a header's name or value) and the separators space, colon,
`\r`, `\n`. A read may cut it between any two tokens, so it may fall inside a request
line, a header, the blank line or a body, but not inside a word: no decision of either
parser depends on a part of a word. `find` returns 0 for `npos`, and what the code does
with `npos` (adds one to it, compares it with `< 0`, passes it on as a position) is kept.
In `HttpData` a connection is a record and a handler an operator from records to
records; `hState_` outlives a call of `parseHeaders` and its positions do not, as in
the code. A response is `RespLen` pieces `<<request, piece>>`; an error page is
`<<0, code>>`, because `handleError` writes it past `outBuffer_`. `dead` is the
exception of `stoi` that nobody catches. In `Requests` a plan is a sequence of requests,
each with its reference: the status, the length of the body and the fate of the
connection that it must lead to. The assumption `RequestsAlone` says what a reference is:
what the request leads to when it is the only one of a new connection and comes whole (to
the epoll server also in two reads, its line and the rest). TLC evaluates it for the
requests of the run, whose references are written down by hand; the properties are about
everything else, requests one behind the other and cut anywhere. Sums of lengths are taken
modulo `SizeMax`.

**EpollServer.** Per loop, `Poll`, `HandleEvents` (`Channel::handleEvents` up to
`handleConn`, with all the calls `handleRead` makes of itself), `HandleConn`,
`DoPendingFunctors` (`newEvent` of each new connection) and `HandleExpired` are one
action each; the accepting thread, the clients, the other loops and the clock come in
between. Inside such an action the loop only touches what belongs to it, and the
sockets, whose state it reads once. An `HttpData` lives as long as a map, a timer node
or a functor refers to it: `Close` destroys those that nothing refers to and frees their
descriptors, which the next `accept`, on another thread, gives out again lowest first.
`mask` and `ready` are the kernel's side: a registration in force and a place on the
ready list, with edge-triggered and one-shot semantics. A socket holds `Cap` pieces
until the client reads them. System calls that may fail are `accept`,
`setSocketNonBlocking` and `epoll_ctl`; reads and writes fail after a reset.
`queueInLoop` is one step here, since module `EventLoop` shows that its functor is
called. `quiet` is history.

**AsyncLogging.** One action per critical section of `mutex_`, per buffer written and
per test of `running_`. A buffer is the sequence of its lines. `waitForSeconds` may
return at any time; `fwrite` may write any part of a buffer and fail. `lost` is history:
what was dropped for overload or not written by a failing `fwrite`.

Definitions introduced by "A slip:" are not part of any specification. Each is a
plausible mistake in the definition that follows it (a dropped test, a wrong order);
`PROJECT.json` pairs every property with one, and TLC finds the property violated
when the slip takes the definition's place.

## 3. Runs

| run | instance | distinct states | shows |
|---|---|---|---|
| `log_queue` | 2 producers, 2 consumers, capacity 2, 3 lines each | 385 000 (up to symmetry) | nothing overwritten, FIFO by ticket, one owner per slot, `IInv`, refinement of `BoundedFifo` |
| `async_logger` | 2 producers, capacity 2, 2 attempts, 2 starts, 3 calls | 41 000 | no line twice, `stop` loses nothing, order, flushing; `log`, `stop` and the worker make progress |
| `uring` | 1 scheduler, a task that receives or sends, one that receives twice, 2 entries | 299 000 | with late completions that end any later receive: resumed once, none that awaits is forgotten; completions, posts and `stop` take effect |
| `uring_no_timeout` | 2 timed tasks, 4 entries | | *violated*: a timed receive ends |
| `http_session` | 1 client, 1 worker, 2 requests and responses of 2 pieces each | 3 460 000 | responses in order, whole and once; only completely received requests are answered |
| `http_deal` | 2 clients, 2 workers, a failing accept | 630 000 (up to symmetry) | connections stay on their worker; loads differ by at most one |
| `http_stop` | 1 client, 1 worker, 1 entry, failing accepts and submissions | 60 000 | no completion of the accept loop meets a dead operation; `stop` and `wait` return; a client in the backlog gets its connection |
| `http_leak` | 1 client, 1 worker | | *violated*: an ended connection has closed its socket |
| `event_loop` | 2 callers, 3 functors | 20 000 | functors once and in order, no lost wakeup, functors are called, the destructor returns |
| `requests` | every sequence of one or two requests of 8 kinds (coroutine server) or 11 kinds (epoll server), received in pieces cut in every way | 30 800 | the coroutine server answers exactly the requests that have arrived, each with its own status, body and fate; the epoll server does if no read cuts a line or a header block or holds two requests |
| `epoll_server` | 2 connections, one of which talks, 2 loops, 2 descriptors, responses of 2 pieces through sockets that hold 1, 2 sends, 1 failing call | 1 440 000 | no dangling handler, every connection has its one timer, timers do not fire early, no event is lost, responses in order |
| `async_logging` | buffers of 2 lines, 2 buffers written at once, 7 lines, a file that may fail | 56 800 | lines once and in order, the asserts hold; lines reach the disk, `stop` returns |

Why the bounds are enough to meet the hard cases. With capacity 2 and three lines
per producer the ring goes round three times, so every slot is reused while a slow
thread still holds an old ticket. With two attempts and a queue of two, `log` meets a
full queue, retries and falls back. Two starts exercise a second run on what the first
left. In `uring`, two receives after each other let a late completion meet the task's next
receive, and a second task lets it meet another's; that other task then gives its receive
up, whose bytes go to the first (TLC reaches such states). Two entries, or one, make the
submission queue full between a receive and its timeout. Two pieces per request and response
make receives and sends partial, two requests make a connection pipelined. In `http_session`
a timeout ends only while no completion waits at the scheduler (`MaxWaiting` is 1): late
completions come before that of a receive or a send and in a round of their own, but not
behind it in the same round, which is in `uring`; the other runs do not reach their limit. Clients that close are
in `http_stop`. Two connections that share a worker are too many states for the whole
server: late completions that meet another connection are in `uring`, and in the proofs,
which hold for any number of clients and any limit. In
`event_loop`, two callers and three functors let one
functor be queued before the swap, one after, and one by a functor. Two requests, each
cut anywhere, meet every pair of a request and what the one before it left in the
buffer and in the parser. In `epoll_server` two connections on two loops let a descriptor
be closed by one loop and used again by the other; a socket for one piece makes every
response partial, and two sends make one arrive while the rest of the last response
waits. The clock wraps around at 2 and timeouts are 1 and 2, so a timer is replaced by
one with another timeout, expires, and is made too late before the wrap to expire at all.
Seven lines in buffers of two fill more buffers than may be written at once, and let the
spares be given away and replaced twice. `MaxAwait` in
the `Http*` instances limits failing submissions and accepts only, not operations.

`CHECK_DEADLOCK FALSE` is set where the system may stop: nobody has to log again,
post again or connect again, and threads end. `LogQueue` is checked for deadlock.

**Fairness.** A running thread takes its next step (WF on each thread, on the
coroutine it runs and on joins). Timeouts that the kernel has accepted expire (WF).
Two things are only retried and get SF: a weak compare-and-swap does not fail
spuriously for ever (each retry is a new attempt of the hardware), and
`io_uring_submit` does not fail for ever. Clients, sockets, callers of `log`, `post`,
`queueInLoop`, `start` and `stop` owe nothing; in `HttpStop` a pending accept
completes if a client is in the backlog, and in `EventLoop` the thread is not assumed
to be woken by connections, only by `wakeupFd_`. In `AsyncLogging` the thread's steps
and the joins are weakly fair; that includes the return of the timed wait, on which
both of its liveness properties rest, since `stop` notifies without the mutex and the
notification may come before the wait. `EpollServer` has no liveness property: what one
would ask for (idle connections are closed in time, new ones are accepted) is false,
see below.

**What the liveness properties assume.** The worker's pop loop does not test
`running_`, so `StopReturns` of the logger rests on the bound of calls: threads that
log without pause can keep `stop` waiting. `run()` and `loop()` set their flag
themselves and so forget a `stop()` or `quit()` that came before: `StopEndsRun`,
`StopReturns` and `DestructorReturns` speak of threads that had entered their loop.
A crash through undefined behaviour ends the obligations.

## 4. Findings

* `uring_no_timeout`. The repository's README promises request-level timeouts by
  linked timeouts. The awaiter links an ordinary timeout *behind* the receive, so it
  starts when the receive has ended: a receive from a silent peer never ends. Its late
  completion names an awaiter that is gone, or a later receive at the same address, of the
  same connection or of another one on the same worker. If that receive is given up for it
  and its bytes come later, they can in the same way end up with a connection that did not
  ask for them (`AnswersFollowRequests` exempts such a connection).
* `http_leak`. Only a task's first resumption carries `destroy_after_resume`, so the
  frame of a connection that has suspended once is never destroyed and its socket
  never closed, although the response said `Connection: close`.

Met while modelling, kept in the models, and given no run of their own; where a
property excludes one of them, its comment says so:

* `HttpData.cpp:325`: `pos` is unsigned, so a request line that has not arrived whole is
  parsed at once and answered with 400. `:470`: the end of the headers is noticed at
  the next character, which goes with them, so that of two pipelined requests the
  second loses its first letter, and a body its first byte.
* `HttpData.cpp:530`: the answer to `/hello` replaces `outBuffer_` instead of being
  appended to it, so if it comes in one read with the request before it, what is left of that
  request's response is not sent.
* `HttpData.cpp:313`: when a client shuts down its side while output is left, epoll is
  not told to wait for `EPOLLOUT` and the connection has no timer (`Stranded`).
* `Timer.cpp:14`: the clock wraps around every 10 000 s; a timer made less than its
  timeout before that never fires. `Epoll.cpp:87`: timers are looked at only after
  some event.
* `Server.cpp:66`: when `setSocketNonBlocking` fails, the listening socket's
  registration is left empty, and nobody is accepted any more. An `accept` that fails
  for want of descriptors leaves clients in the backlog without a further edge.
* `HttpServer.cpp:329`: a malformed request line, or a `Content-Length` that is no
  number, stays in the buffer: the connection reads on and answers nothing. `:363`:
  `body_begin + body_length` wraps for lengths near the largest `size_t`.
* `AsyncLogging.cpp:53`: lines appended after the last swap are not written by `stop`.
  `Thread.cpp:97`: if `pthread_create` fails, `AsyncLogging::start` never returns.

## 5. Proofs

`PROJECT.json` lists the theorems. Each holds for every value of the constants that
satisfies the assumptions in the module that declares them; TLC evaluates those
assumptions on every run. The bounds (lines, calls, operations, faults, the time) are
constants like the others, so that nothing is proved from their being small. The
assumptions say what the program guarantees by construction: `OneWorker` (one thread
pops from the logger's queue), `WorkersOfServer` (there is a worker, and no two are the
same scheduler), sizes that are positive.

**LogQueue** (for every set of threads, every number of lines, every capacity that is
a power of two; `NoOverwrite`, `PopIsFifo`, `SlotOwnership`, `Invariance` and
`Refinement` for a capacity above one). Capacity one is accepted by the constructor
but broken: there the numbers of a published and of a freed slot coincide, and `push`
overwrites. No queue in the program has it.

The properties are not inductive: that a slot is free when `push` stores to it
depends on every ticket between `head_` and `tail_ + capacity`. `IInv` says of each
ticket in that window what its slot holds: a ticket from `head_` to `tail_` is
`Occupied` (published with its entry, or still being pushed by its owner), one from
there to `head_ + capacity` is `Vacant` (freed, or still being popped by its owner a
lap before), and `ProducerInv` and `ConsumerInv` say what a thread between two
accesses may rely on. Since the window is one lap long, no two tickets in it share a
slot (`SlotInjective`), so an action touches one ticket and leaves the others alone:
one lemma per action. `Refinement` maps the queue to the entries claimed and not
popped, and each compare-and-swap to a put or a get.

**EventLoop** (for every set of callers and number of functors). `NoLostWakeup` says
that the loop does not sleep on work; what makes it inductive is
`FunctorsAreAnnounced`: a functor always comes with an event, or a caller about to
make one, or handlers that are followed by a swap. `CalledInOrder` is inductive with
the fact that the local vector is empty outside `doPendingFunctors`.

**AsyncLogger** (for any number of producers, lines, attempts and restarts, and a queue
of more than one slot, on top of `IInv` of `LogQueue`). The four properties share one
inductive invariant, `LogInv`. `LineInv` says where a logged line may be: still being
tried, claimed by a ticket, written directly, or dropped; a claimed one has one
ticket and is not written directly;
`HandInv` that the worker, being the only consumer, draws the tickets in turn;
`FileInv` that the file holds the direct lines and the lines of the first `Written`
tickets, each once, and a queued line after all those claimed before it. `StopInv`
carries what makes `StopLosesNothing` true: if no `log` call overlaps `stop`, a final
`pop` that finds nothing means `head = tail`, which for the ring is not a matter of
course (`pop` also fails at a slot that is claimed and not yet published).

**UringScheduler** (for any schedulers, coroutines, ring size and number of operations).
`ResumedOnce` needs `SchedInv`: a handle in `posts_`, `ready_` or the batch that is being
resumed occurs once in all of them together, its coroutine is in the state that fits the
place, and an operation exists only while its coroutine waits. It holds whatever late
completions of timeouts do. `NoneForgotten` is its counterpart and holds with timeouts,
too: a coroutine that awaits has its request in the ring of its scheduler or its handle in
that scheduler's queue. `KeptInv` makes it inductive on top of `SchedInv` with the fact that
the batch is empty outside `drain_ready`, so that the swap loses nothing. What each action
does to a handle, a request and a completion is stated once (`HandlesStay` and the
definitions after it). `NoDanglingRequest` is stated for
tasks without timeouts, since for the others it is false (the first finding). It
needs `RInv`: of such a task there is at most one request or completion in the submission
queues, the kernel and the completion queues of all schedulers together, and it names
the operation the task waits on. The lemmas about
`Unique` (at most one) are stated for any set of requests and used again for the
connections below.

**HttpServer: dealing** (`HttpServerProofs`). `Confined` follows from `AtHome`: whatever
any scheduler has of a connection (a posted function, a handle, a request, a completion)
is at the worker it was dealt to. Each action of the scheduler is shown once to bring
no task to a scheduler that had nothing of it (`Stays`); only the accept loop does.
`DealtInTurn` counts: after *q* whole rounds the first `next_worker_ % n` workers have
been dealt *q* + 1 connections and the others *q* (`LoadInv`).

**HttpServer: sessions** (also `HttpServerProofs`, for any lengths of requests and responses
and any number of requests). `SessInv` ties what the client has sent and got and what
is in the socket to what `handle_connection` believes, through everything that may be
under way: a receive or send that is queued, in flight, completed or reaped. Receives
here do have timeouts, and a late completion may end a later receive of any connection of
the worker. `RingInv` says how much of this the stream survives: of the requests and
completions that carry bytes there is at most one for the present operation of each
connection, and none for an earlier one unless the connection was given bytes that were not
its own (`Latest`, `Misled`). `ServerAnswersWhatItReceived` is therefore about connections
that were not. `ServerRespondsInOrder` is about all of them: sends are never aliased, so even
a connection that has been misled sends its responses whole and in order.

**EpollServer** (for every number of connections, loops and descriptors, any input,
timeouts and failing calls). There are five theorems. `OwnershipInv`, `DataInv` and
`ClockInv` are each stronger than the one before, and `EventInv` and `FlowInv` extend
`ClockInv`; each has a lemma per action, or per group of actions it cannot tell apart.

* `HandlersAreOwned`. `NoDanglingHandler` says that what leads to an `HttpData` leads to
  a living one of its own loop, under its own descriptor. It is not inductive: that a
  destroyed connection is forgotten depends on who may still refer to it.
  `OwnershipInv` adds that living connections have different descriptors (`FdInv`:
  `accept` takes a free one), that a loop's batch has one event for each connection and
  none for the one being handled (`BatchInv`, `HandlerInv`: what `poll` finds under a
  ready descriptor is its owner, by `MapInv`), and that a connection waiting for
  `newEvent` is not yet known to any timer, event or map of its loop (`PendingInv`).
  `CloseInv` then shows once, for `handleConn` and `handleExpired` alike, that whatever
  `Close` destroys is referred to by nothing.
* `ConnectionsAreGuarded` and `TimersCloseWhenDue`. `DataInv` says what `handleRead`
  (with the calls it makes of itself), `handleWrite` and the parser leave of an
  `HttpData`; `ClockInv` that a node in the heap is the one its connection can take back,
  that its expiry, by the clock that wraps around, is the timeout the connection was
  last given (`Timely`), and that a connection the loop is done with has its node
  (`Watched`), unless it is `Stranded`.
* `EventsAreNotLost`. `EventInv` follows a connection round the loop, as long as
  `epoll_ctl` has not failed: registered and on the ready list if there is something to
  report; in the batch with what was reported; between its handler and `handleConn`,
  where what has come since is on the ready list; registered again.
* `PiecesComeInOrder`. `FlowInv` says that what a living connection has sent and what is
  in `outBuffer_` are together the responses so far. The hypothesis `NoEcho` is needed:
  the answer to `/hello` replaces `outBuffer_` (section 4), so that the property is false
  when a read brings a request and `/hello` behind it (TLC finds the missing piece as soon
  as `Pieces` has such a read). The requests of the run satisfy the hypothesis.

**Requests** (for every sequence of requests that satisfy `RequestsAlone`, of any length and
with any words; for the coroutine server every way to cut them into reads, for the epoll
server those its property speaks of).

* `ParsingIsStable`. If `try_parse_request` finds a request in a buffer, it finds the same
  request, and takes out as much, whatever has come behind it (unless `body_begin +
  body_length` wraps around): each of its searches that has found something finds the same
  in a longer string (`FindSeqExtends`), and the header block is cut off before it is
  searched for lines.
* `CoroutineAnswersRequests`. The buffer is inductively a slice of the client's stream:
  `Taken(n)` says that *n* requests have been taken out and answered as each would be alone,
  and the buffer holds what has been received behind them. So it begins with the next
  request, which parses as it does alone (by stability), or is a proper beginning of it, which
  does not parse: if it did, the whole request would parse to the same smaller size.
* `EpollAnswersRequests`. Here a connection keeps its parser between requests, and the
  hazard is that something of one request is left for the next. `Alike` says that two
  `HttpData` differ in nothing that decides how they read: the number of requests, a
  `keepAlive_` that an earlier request set and is never taken back, and a method that the
  next request line overwrites are all that may differ. Each stage of `handleRead` takes alike
  connections to alike ones (`ReadAlike`), and `reset` makes a connection that has answered
  alike a new one (`AfterRead`); what the next request leads to is then its reference.
  `EpollInv` follows a connection between requests, behind a request line, stuck in a body
  whose first byte is gone, or closed.

**AsyncLogging** (for buffers of any size at least two, any number of lines and any limit
of at least two buffers). `AssertsHold`: that two buffers can be recycled when both
spares were given away follows from `SpareWasUsed`: `append` takes `nextBuffer_` only
when it leaves a full buffer behind in `buffers_`, so the swap takes over at least two;
`Replaceable` carries this past the dropping, which keeps two. `LinesAreKept`: `LineInv`
says that the file, the buffers being written, the waiting ones and the current one each
rise, come in that order and have between them every line that is not lost, and that
the spare `append` takes is empty. There is a lemma for each way lines move (appended,
handed over, dropped, written in part), stated without buffers.

**Recursion and induction.** `Lines` (`AsyncLogging`), the scan of `parseHeaders`
(`HttpData`), the calls `handleRead` makes of itself (`EpollServer`) and the stream of a plan
(`Wire` of `Requests`) are recursive functions. The library's induction theorems take an operator as a parameter, which no
backend can instantiate. `NatSetInduction` says the same of a set (one that has 0 and with each
number the next has them all), is proved from the well-foundedness of `<`, and suffices
wherever what is to be shown of a loop is a property of its rounds: the proofs define
the set of numbers of rounds for which it holds.

**Only model-checked.** All liveness properties: they need fairness, which these
backends do not treat. Every invariant and every action property of the passing runs is
stated by a theorem. That concrete requests satisfy `RequestsAlone` is for TLC: what a search
finds in a given string is a computation, not a proof.

## 6. Not modelled, and the plan

* `ThreadPool`: neither server uses it.
* `MemoryResource`: pools per thread without shared state. That the memory of a freed
  receive can become another one's is in `UringScheduler` (`Aliased`), without the
  allocator's rules of when it does.
* Wording, dates and MIME types of responses, the format of log lines (`LogStream`,
  `Logging`), options and signals of both `main`s, socket options.
* `WebBench` and `tests/`: clients of the servers.
* Memory orders weaker than sequential consistency; data races on plain flags are seen
  late, but not torn.

What is left: requests that the epoll server is shown cut inside a line or a header block,
for which its parser does not do what it should (section 4), so that a theorem would have to
describe the mistake; and an abstract specification of a connection, a stream of requests
and one of responses, that both servers implement.
