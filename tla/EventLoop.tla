----------------------------- MODULE EventLoop -----------------------------
(***************************************************************************)
(* EventLoop and EventLoopThread of the epoll server: a thread that sleeps *)
(* in epoll_wait, handles events and calls the functors that other threads *)
(* (and its own handlers and functors) give it with queueInLoop; an owner  *)
(* that starts the thread and, in the destructor, makes it quit and joins. *)
(*                                                                         *)
(* A functor is <<x, n>>, the n-th one queued by thread x.  wakeupFd_ is   *)
(* registered with EPOLLET: each write makes one event, reported once and  *)
(* taken back when handleRead empties the counter before epoll_wait looks. *)
(* Timers and the channels of connections are left to other modules.       *)
(***************************************************************************)
EXTENDS Integers, Sequences

CONSTANTS
    Caller,      \* threads that call queueInLoop
    LoopThread,  \* the loop's own thread
    MaxCalls     \* bound: functors queued by all threads together

ASSUME LoopThreadIsNoCaller == LoopThread \notin Caller
ASSUME MaxCallsIsNatural == MaxCalls \in Nat

VARIABLES
    tpc,       \* the loop's thread: see ThreadPC
    published, \* EventLoopThread::loop_ is set
    owner,     \* the owner of the EventLoopThread: see OwnerPC
    quit,      \* quit_
    calling,   \* callingPendingFunctors_
    pending,   \* pendingFunctors_
    functors,  \* doPendingFunctors' local vector
    todo,      \* what epoll_wait has reported and is not handled yet
    signal,    \* an event of wakeupFd_ that epoll_wait has not reported
    waking,    \* callers between emplace_back and wakeup in queueInLoop
    calls,     \* number of functors a thread has queued
    queued,    \* functors in the order of their emplace_back (history)
    ran        \* functors in the order in which they were called (history)

thread == <<tpc, published, quit, calling, functors, todo>>
queue  == <<pending, calls, queued>>
evars  == <<thread, queue, owner, signal, waking, ran>>

ThreadPC == {"none", "build", "ready", "test", "poll", "handle", "call", "left", "gone", "crashed"}
OwnerPC  == {"new", "starting", "started", "quitting", "joining", "joined"}

Functor == (Caller \cup {LoopThread}) \X Nat

EInit ==
    /\ tpc = "none"
    /\ published = FALSE
    /\ owner = "new"
    /\ quit = FALSE
    /\ calling = FALSE
    /\ pending = << >>
    /\ functors = << >>
    /\ todo = {}
    /\ signal = FALSE
    /\ waking = {}
    /\ calls = [x \in Caller \cup {LoopThread} |-> 0]
    /\ queued = << >>
    /\ ran = << >>

-----------------------------------------------------------------------------
(* The thread's life: startLoop, threadFunc, ~EventLoopThread              *)

\* startLoop: thread_.start()
StartThread ==
    /\ owner = "new"
    /\ owner' = "starting"
    /\ tpc' = "build"
    /\ UNCHANGED <<published, quit, calling, functors, todo, queue, signal, waking, ran>>

\* threadFunc builds the loop on its stack and sets loop_ under the mutex ...
Publish ==
    /\ tpc = "build"
    /\ tpc' = "ready"
    /\ published' = TRUE
    /\ UNCHANGED <<quit, calling, functors, todo, queue, owner, signal, waking, ran>>

\* ... which startLoop waits for.
StartReturns ==
    /\ owner = "starting"
    /\ published
    /\ owner' = "started"
    /\ UNCHANGED <<thread, queue, signal, waking, ran>>

\* The destructor's quit(): first the flag ...
Quit ==
    /\ owner = "started"
    /\ published
    /\ quit' = TRUE
    /\ owner' = "quitting"
    /\ UNCHANGED <<tpc, published, calling, functors, todo, queue, signal, waking, ran>>

\* Writing to wakeupFd_.  Once the thread has left threadFunc its EventLoop is gone and the
\* write is undefined: it fails on a closed descriptor, or the process dies.
Write ==
    \/ tpc # "gone" /\ signal' = TRUE /\ UNCHANGED tpc
    \/ tpc = "gone" /\ UNCHANGED <<signal, tpc>>
    \/ tpc = "gone" /\ tpc' = "crashed" /\ UNCHANGED signal

\* A slip: quit() only sets the flag.
QuitSilently ==
    /\ owner = "quitting"
    /\ tpc # "crashed"
    /\ owner' = "joining"
    /\ UNCHANGED <<thread, queue, signal, waking, ran>>

\* ... and then the wakeup,
QuitWakeup ==
    /\ owner = "quitting"
    /\ tpc # "crashed"
    /\ Write
    /\ owner' = "joining"
    /\ UNCHANGED <<published, quit, calling, functors, todo, queue, waking, ran>>

\* and join.
Join ==
    /\ owner = "joining"
    /\ tpc = "gone"
    /\ owner' = "joined"
    /\ UNCHANGED <<thread, queue, signal, waking, ran>>

-----------------------------------------------------------------------------
(* queueInLoop, and runInLoop when called from another thread              *)

\* Thread x adds its next functor to pendingFunctors_ under the mutex.
Emplace(x) ==
    /\ Len(queued) < MaxCalls
    /\ calls' = [calls EXCEPT ![x] = @ + 1]
    /\ pending' = Append(pending, <<x, calls[x] + 1>>)
    /\ queued' = Append(queued, <<x, calls[x] + 1>>)

\* A slip: the test for the loop's own thread is the wrong way round.
QueueInLoopSilently(c) ==
    /\ owner = "started"
    /\ tpc \notin {"gone", "crashed"}
    /\ c \notin waking
    /\ Emplace(c)
    /\ UNCHANGED <<thread, owner, signal, waking, ran>>

\* Calls begin while the thread is started; they may overlap the destructor.
QueueInLoop(c) ==
    /\ owner = "started"
    /\ tpc \notin {"gone", "crashed"}
    /\ c \notin waking
    /\ Emplace(c)
    /\ waking' = waking \cup {c}
    /\ UNCHANGED <<thread, owner, signal, ran>>

Wakeup(c) ==
    /\ c \in waking
    /\ tpc # "crashed"
    /\ Write
    /\ waking' = waking \ {c}
    /\ UNCHANGED <<published, quit, calling, functors, todo, queue, owner, ran>>

\* A slip: only other threads write to wakeupFd_.
QueueInOwnLoopSilently ==
    /\ Emplace(LoopThread)
    /\ UNCHANGED signal

\* From the loop's own thread: wakeup only while functors are being called.
QueueInOwnLoop ==
    /\ Emplace(LoopThread)
    /\ signal' = (signal \/ calling)

-----------------------------------------------------------------------------
(* loop()                                                                  *)

EnterLoop ==
    /\ tpc = "ready"
    /\ tpc' = "test"
    /\ quit' = FALSE
    /\ UNCHANGED <<published, calling, functors, todo, queue, owner, signal, waking, ran>>

Test ==
    /\ tpc = "test"
    /\ tpc' = IF quit THEN "left" ELSE "poll"
    /\ UNCHANGED <<published, quit, calling, functors, todo, queue, owner, signal, waking, ran>>

\* Epoll::poll returns with the events of wakeupFd_, of other channels, or of both.  Its
\* timeout of ten seconds does not make it return.
Poll(events) ==
    /\ tpc = "poll"
    /\ events # {}
    /\ signal <=> "wakeup" \in events
    /\ tpc' = "handle"
    /\ todo' = events
    /\ signal' = FALSE
    /\ UNCHANGED <<published, quit, calling, functors, queue, owner, waking, ran>>

\* handleRead empties wakeupFd_, also of writes since epoll_wait.
HandleRead ==
    /\ tpc = "handle"
    /\ "wakeup" \in todo
    /\ todo' = todo \ {"wakeup"}
    /\ signal' = FALSE
    /\ UNCHANGED <<tpc, published, quit, calling, functors, queue, owner, waking, ran>>

\* The handlers of other channels, which may queue a functor.
HandleEvents ==
    /\ tpc = "handle"
    /\ "io" \in todo
    /\ todo' = todo \ {"io"}
    /\ QueueInOwnLoop \/ UNCHANGED <<queue, signal>>
    /\ UNCHANGED <<tpc, published, quit, calling, functors, owner, waking, ran>>

\* A slip: the functors are copied, not swapped out.
CopyFunctors ==
    /\ tpc = "handle"
    /\ todo = {}
    /\ tpc' = "call"
    /\ calling' = TRUE
    /\ functors' = pending
    /\ UNCHANGED <<published, quit, todo, queue, owner, signal, waking, ran>>

SwapFunctors ==
    /\ tpc = "handle"
    /\ todo = {}
    /\ tpc' = "call"
    /\ calling' = TRUE
    /\ functors' = pending
    /\ pending' = << >>
    /\ UNCHANGED <<published, quit, todo, calls, queued, owner, signal, waking, ran>>

\* A functor, which may queue another one.
CallFunctor ==
    /\ tpc = "call"
    /\ functors # << >>
    /\ functors' = Tail(functors)
    /\ ran' = Append(ran, Head(functors))
    /\ QueueInOwnLoop \/ UNCHANGED <<queue, signal>>
    /\ UNCHANGED <<tpc, published, quit, calling, todo, owner, waking>>

\* doPendingFunctors returns, timers are looked at, and the loop tests quit_ again.
FunctorsDone ==
    /\ tpc = "call"
    /\ functors = << >>
    /\ tpc' = "test"
    /\ calling' = FALSE
    /\ UNCHANGED <<published, quit, functors, todo, queue, owner, signal, waking, ran>>

\* threadFunc returns: loop_ is reset, without the mutex, and the EventLoop destroyed.
ThreadEnds ==
    /\ tpc = "left"
    /\ tpc' = "gone"
    /\ published' = FALSE
    /\ UNCHANGED <<quit, calling, functors, todo, queue, owner, signal, waking, ran>>

-----------------------------------------------------------------------------

\* What the thread does by itself, whether or not a connection has events.
ThreadStep ==
    \/ Publish \/ EnterLoop \/ Test \/ HandleRead \/ HandleEvents
    \/ SwapFunctors \/ CallFunctor \/ FunctorsDone \/ ThreadEnds
    \/ \E io \in SUBSET {"io"} : Poll(io \cup {"wakeup"})

ENext ==
    \/ StartThread \/ StartReturns \/ Quit \/ QuitWakeup \/ Join
    \/ ThreadStep \/ Poll({"io"})
    \/ \E c \in Caller : QueueInLoop(c) \/ Wakeup(c)

ESpec == EInit /\ [][ENext]_evars

\* Threads run.  Nobody has to call queueInLoop or to destroy the thread's owner, and
\* connections may stay silent.
EFairness ==
    /\ WF_evars(ThreadStep)
    /\ WF_evars(StartReturns)
    /\ WF_evars(QuitWakeup)
    /\ WF_evars(Join)
    /\ \A c \in Caller : WF_evars(Wakeup(c))

EFairSpec == ESpec /\ EFairness

-----------------------------------------------------------------------------
(* Properties                                                              *)

ETypeOK ==
    /\ tpc \in ThreadPC
    /\ owner \in OwnerPC
    /\ published \in BOOLEAN /\ quit \in BOOLEAN /\ calling \in BOOLEAN /\ signal \in BOOLEAN
    /\ todo \in SUBSET {"wakeup", "io"}
    /\ waking \in SUBSET Caller
    /\ calls \in [Caller \cup {LoopThread} -> Nat]
    /\ pending \in Seq(Functor) /\ functors \in Seq(Functor)
    /\ queued \in Seq(Functor) /\ ran \in Seq(Functor)

\* Functors are called in the order of their queueInLoop, each one once, whatever the
\* interleaving of emplace_back with the swap of pendingFunctors_.
CalledInOrder == ran \o functors \o pending = queued

\* The loop never goes to sleep on work, with only a silent connection to wake it: if there
\* is a functor, or quit_ is set, wakeupFd_ has an event or somebody is about to write to it.
NoLostWakeup ==
    tpc = "poll" =>
        /\ pending # << >> => signal \/ waking # {}
        /\ quit => signal \/ owner = "quitting"

\* What makes NoLostWakeup inductive: outside of the handlers, which are followed by a swap,
\* a functor always comes with an event or a caller about to make one.
FunctorsAreAnnounced ==
    pending # << >> =>
        signal \/ waking # {} \/ tpc \in {"handle", "gone", "crashed"}

\* callingPendingFunctors_ is set, and the local vector used, only by doPendingFunctors;
\* before startLoop there is no thread.
ThreadState ==
    /\ tpc = "call" => calling
    /\ tpc # "call" => functors = << >>
    /\ owner = "new" => tpc = "none"

EInv == ETypeOK /\ FunctorsAreAnnounced /\ ThreadState /\ NoLostWakeup /\ CalledInOrder

In(f, s) == \E i \in 1..Len(s) : s[i] = f

\* A functor is called sooner or later, unless the loop ends.
QueuedFunctorIsCalled ==
    \A f \in (Caller \cup {LoopThread}) \X (1..MaxCalls) :
        In(f, pending) ~> (In(f, ran) \/ tpc \in {"gone", "crashed"})

\* The destructor returns, if the thread had entered loop() when quit_ was set.
DestructorReturns ==
    (owner = "quitting" /\ quit /\ tpc \notin {"build", "ready"}) ~> (owner = "joined" \/ tpc = "crashed")
=============================================================================
