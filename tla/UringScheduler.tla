--------------------------- MODULE UringScheduler ---------------------------
(***************************************************************************)
(* The io_uring scheduler of the coroutine server: one thread per          *)
(* scheduler runs UringScheduler::run, which drains posted functions and   *)
(* ready coroutines, submits the ring and reaps completions.  A task is a  *)
(* top-level coroutine with the chain of coroutines it awaits; it owns at  *)
(* most one operation (an awaiter object in its frame) at a time, whose    *)
(* address is the user data of the requests submitted for it.              *)
(*                                                                         *)
(* The n-th operation of task t is named <<t, n>>.  A timed receive lies   *)
(* in a frame with an 8 KiB buffer, too large for the pools of a thread:   *)
(* the general allocator hands its block out again to the next frame of    *)
(* that size, so a completion meant for a receive that is over may reach   *)
(* a later one of the same task, or of any task of the same thread.        *)
(***************************************************************************)
EXTENDS Integers, Sequences, FiniteSets, SequencesExt

CONSTANTS
    Sched,     \* the schedulers
    Task,      \* the top-level coroutines
    NoTask,    \* no coroutine is running
    Entries,   \* size of a submission queue (ring_entries)
    Kinds,     \* Kinds[t]: what task t awaits, of "plain" and "timed" (async_recv_for)
    MaxAwait   \* bound: operations task t awaits

ASSUME EntriesIsPositive == Entries \in Nat \ {0}
ASSUME KindsAssumption   == Kinds \in [Task -> SUBSET {"plain", "timed"}]
ASSUME MaxAwaitAssumption == MaxAwait \in [Task -> Nat]
ASSUME NoTaskIsNoTask    == NoTask \notin Task

VARIABLES
    running,  \* running_
    lpc,      \* the thread in run(): "boot", "test", "swap", "resume", "reap" or "exited"
    last,     \* it is draining for the last time, after the loop
    posts,    \* posts_: functions that start a task
    ready,    \* ready_: [task, destroy] with destroy_after_resume
    batch,    \* drain_ready's local deque
    cur,      \* the ReadyItem being resumed
    sq,       \* submission queue entries not yet given to the kernel
    flight,   \* requests the kernel holds
    cq,       \* completion queue
    st,       \* a task: "none", "posted", "created", "running", "waiting", "done" or "destroyed"
    op        \* a task's current (or last) operation object

loop == <<running, lpc, last>>
ring == <<sq, flight, cq>>
coro == <<st, op>>
svars == <<loop, posts, ready, batch, cur, ring, coro>>

\* A result is a count of bytes or a descriptor, or a negated errno.
EIO       == -5
EINVAL    == -22
ETIME     == -62
ECANCELED == -125

\* A request: "io" is the operation itself.  The timeout of a timed receive is
\* "held" behind it by IOSQE_IO_LINK, "armed" once released, "free" if never linked.
Request(t, n, kind) == [task |-> t, n |-> n, kind |-> kind]
Completion(r, res)  == [task |-> r.task, n |-> r.n, res |-> res]
Idle == [task |-> NoTask, destroy |-> FALSE]

\* at is the scheduler it was awaited on; foreign (history) says that the task has taken
\* bytes received for another one as its own.
NoOp == [n |-> 0, kind |-> "plain", live |-> FALSE, completed |-> FALSE, res |-> 0,
         at |-> NoTask, foreign |-> FALSE]

Init ==
    /\ running = [s \in Sched |-> FALSE]
    /\ lpc = [s \in Sched |-> "boot"]
    /\ last = [s \in Sched |-> FALSE]
    /\ posts = [s \in Sched |-> << >>]
    /\ ready = [s \in Sched |-> << >>]
    /\ batch = [s \in Sched |-> << >>]
    /\ cur = [s \in Sched |-> Idle]
    /\ sq = [s \in Sched |-> << >>]
    /\ flight = [s \in Sched |-> {}]
    /\ cq = [s \in Sched |-> << >>]
    /\ st = [t \in Task |-> "none"]
    /\ op = [t \in Task |-> NoOp]

-----------------------------------------------------------------------------
(* Called from other threads                                               *)

\* post(fn), where fn starts task t
Post(s, t) ==
    /\ st[t] = "none"
    /\ posts' = [posts EXCEPT ![s] = Append(@, t)]
    /\ st' = [st EXCEPT ![t] = "posted"]
    /\ UNCHANGED <<loop, ready, batch, cur, ring, op>>

\* Task::start: the frame exists, suspended at its start, and is owned by ready_.
Start(s, t) ==
    /\ st[t] = "none"
    /\ ready' = [ready EXCEPT ![s] = Append(@, [task |-> t, destroy |-> TRUE])]
    /\ st' = [st EXCEPT ![t] = "created"]
    /\ UNCHANGED <<loop, posts, batch, cur, ring, op>>

Stop(s) ==
    /\ running' = [running EXCEPT ![s] = FALSE]
    /\ UNCHANGED <<lpc, last, posts, ready, batch, cur, ring, coro>>

-----------------------------------------------------------------------------
(* run()                                                                   *)

Boot(s) ==
    /\ lpc[s] = "boot"
    /\ running' = [running EXCEPT ![s] = TRUE]
    /\ lpc' = [lpc EXCEPT ![s] = "test"]
    /\ UNCHANGED <<last, posts, ready, batch, cur, ring, coro>>

\* Slips in the round: running_ is not tested again; only the first function is called.
DrainForever(s) ==
    /\ lpc[s] = "test"
    /\ posts' = [posts EXCEPT ![s] = << >>]
    /\ ready' = [ready EXCEPT ![s] =
                    @ \o [i \in 1..Len(posts[s]) |-> [task |-> posts[s][i], destroy |-> TRUE]]]
    /\ st' = [t \in Task |-> IF t \in ToSet(posts[s]) THEN "created" ELSE st[t]]
    /\ lpc' = [lpc EXCEPT ![s] = "swap"]
    /\ UNCHANGED <<running, last, batch, cur, ring, op>>

DrainOnePost(s) ==
    LET first == SubSeq(posts[s], 1, IF posts[s] = << >> THEN 0 ELSE 1)
    IN  /\ lpc[s] = "test"
        /\ last' = [last EXCEPT ![s] = ~ running[s]]
        /\ posts' = [posts EXCEPT ![s] = << >>]
        /\ ready' = [ready EXCEPT ![s] =
                        @ \o [i \in 1..Len(first) |-> [task |-> first[i], destroy |-> TRUE]]]
        /\ st' = [t \in Task |-> IF t \in ToSet(first) THEN "created" ELSE st[t]]
        /\ lpc' = [lpc EXCEPT ![s] = "swap"]
        /\ UNCHANGED <<running, batch, cur, ring, op>>

\* while (running_) { drain_posts(): swap posts_ out and call each function, which starts
\* its task here.  After the loop the same is done for the last time.  stop() writes only
\* running_ and post() only posts_, so reading both is one step.
Drain(s) ==
    /\ lpc[s] = "test"
    /\ last' = [last EXCEPT ![s] = ~ running[s]]
    /\ posts' = [posts EXCEPT ![s] = << >>]
    /\ ready' = [ready EXCEPT ![s] =
                    @ \o [i \in 1..Len(posts[s]) |-> [task |-> posts[s][i], destroy |-> TRUE]]]
    /\ st' = [t \in Task |-> IF t \in ToSet(posts[s]) THEN "created" ELSE st[t]]
    /\ lpc' = [lpc EXCEPT ![s] = "swap"]
    /\ UNCHANGED <<running, batch, cur, ring, op>>

SwapReady(s) ==
    /\ lpc[s] = "swap"
    /\ batch' = [batch EXCEPT ![s] = ready[s]]
    /\ ready' = [ready EXCEPT ![s] = << >>]
    /\ lpc' = [lpc EXCEPT ![s] = "resume"]
    /\ UNCHANGED <<running, last, posts, cur, ring, coro>>

\* resume_ready of the next item; await_resume ends the life of the operation.
Resume(s) ==
    /\ lpc[s] = "resume"
    /\ cur[s] = Idle
    /\ batch[s] # << >>
    /\ cur' = [cur EXCEPT ![s] = Head(batch[s])]
    /\ batch' = [batch EXCEPT ![s] = Tail(@)]
    /\ st' = [st EXCEPT ![Head(batch[s]).task] = "running"]
    /\ op' = [op EXCEPT ![Head(batch[s]).task].live = FALSE]
    /\ UNCHANGED <<loop, posts, ready, ring>>

BatchDone(s) == lpc[s] = "resume" /\ cur[s] = Idle /\ batch[s] = << >>

\* A slip: the entries stay in the queue and are submitted again.
SubmitAgain(s) ==
    /\ BatchDone(s)
    /\ ~ last[s]
    /\ lpc' = [lpc EXCEPT ![s] = "reap"]
    /\ flight' = [flight EXCEPT ![s] = @ \cup ToSet(sq[s])]
    /\ UNCHANGED <<running, last, posts, ready, batch, cur, sq, cq, coro>>

\* io_uring_submit; run() ignores a failure and tries again next time round.
Submit(s) ==
    /\ BatchDone(s)
    /\ ~ last[s]
    /\ lpc' = [lpc EXCEPT ![s] = "reap"]
    /\ \/ /\ flight' = [flight EXCEPT ![s] = @ \cup ToSet(sq[s])]
          /\ sq' = [sq EXCEPT ![s] = << >>]
       \/ sq[s] # << >> /\ UNCHANGED <<flight, sq>>
    /\ UNCHANGED <<running, last, posts, ready, batch, cur, cq, coro>>

Exit(s) ==
    /\ BatchDone(s)
    /\ last[s]
    /\ lpc' = [lpc EXCEPT ![s] = "exited"]
    /\ UNCHANGED <<running, last, posts, ready, batch, cur, ring, coro>>

\* The result of completion c in the operation object of task t.
Ended(t, c) ==
    [op[t] EXCEPT !.completed = TRUE, !.res = c.res,
                  !.foreign = @ \/ (c.task # t /\ c.res > 0)]

\* Slips in complete: no test of completed; no enqueue.
CompleteEveryTime(t, c) ==
    /\ op' = [op EXCEPT ![t] = Ended(t, c)]
    /\ ready' = [ready EXCEPT ![op[t].at] = Append(@, [task |-> t, destroy |-> FALSE])]

CompleteSilently(t, c) ==
    /\ op' = [op EXCEPT ![t] = Ended(t, c)]
    /\ UNCHANGED ready

\* OperationBase::complete: only the first completion of an operation counts.
Complete(t, c) ==
    IF op[t].completed
    THEN UNCHANGED <<ready, op>>
    ELSE /\ op' = [op EXCEPT ![t] = Ended(t, c)]
         /\ ready' = [ready EXCEPT ![op[t].at] = Append(@, [task |-> t, destroy |-> FALSE])]

\* The object at the completion's user data: its own operation while it lives, and after
\* that any timed receive which the allocator of this thread has put in its place.
Addressed(c)  == op[c.task].live /\ op[c.task].n = c.n
Aliased(s, t) == op[t].live /\ op[t].kind = "timed" /\ op[t].at = s

\* handle_cqe for the next completion.  Writing to a dead object is undefined: nothing that
\* matters lies there, or a later receive does, or the process dies of it (ReapDangling).
Reap(s) ==
    LET c == Head(cq[s])
    IN  /\ lpc[s] = "reap"
        /\ cq[s] # << >>
        /\ cq' = [cq EXCEPT ![s] = Tail(@)]
        /\ \/ Addressed(c) /\ Complete(c.task, c)
           \/ ~ Addressed(c) /\ \E t \in Task : Aliased(s, t) /\ Complete(t, c)
           \/ ~ Addressed(c) /\ UNCHANGED <<ready, op>>
        /\ UNCHANGED <<loop, posts, batch, cur, sq, flight, st>>

\* The process dies: its threads are gone and the kernel drops what it held for them.
Die ==
    /\ lpc' = [s \in Sched |-> "exited"]
    /\ cur' = [s \in Sched |-> Idle]
    /\ flight' = [s \in Sched |-> {}]
    /\ UNCHANGED <<running, last, posts, ready, batch, sq, cq, coro>>

ReapDangling(s) ==
    /\ lpc[s] = "reap"
    /\ cq[s] # << >>
    /\ ~ Addressed(Head(cq[s]))
    /\ Die

\* No completion is left: sleep, or go round again.
ReapDone(s) ==
    /\ lpc[s] = "reap"
    /\ cq[s] = << >>
    /\ lpc' = [lpc EXCEPT ![s] = "test"]
    /\ UNCHANGED <<running, last, posts, ready, batch, cur, ring, coro>>

LoopStep(s) ==
    \/ Boot(s) \/ Drain(s) \/ SwapReady(s) \/ Resume(s)
    \/ Submit(s) \/ Exit(s) \/ Reap(s) \/ ReapDone(s)

-----------------------------------------------------------------------------
(* co_await of an operation, by the coroutine that scheduler s is running  *)

Room(q) == Len(q) < Entries

\* The queue and the kernel after io_uring_get_sqe, which submits when there is no room.
Queued(q, fl, r) ==
    IF Room(q) THEN [sq |-> Append(q, r), flight |-> fl]
    ELSE [sq |-> <<r>>, flight |-> fl \cup ToSet(q)]

\* A timed receive links its timeout behind it, unless the timeout found the queue full
\* and the receive was submitted on its own first.
QueuedWithTimeout(q, fl, t, n) ==
    LET io == Queued(q, fl, Request(t, n, "io"))
    IN  Queued(io.sq, io.flight, Request(t, n, IF Room(io.sq) THEN "held" ELSE "free"))

\* A slip: an awaiter is used again with its completed flag still set.
NewOpUsedAgain(t, kind, s) ==
    [op[t] EXCEPT !.n = @ + 1, !.kind = kind, !.live = TRUE, !.at = s]

NewOp(t, kind, s) ==
    [NoOp EXCEPT !.n = op[t].n + 1, !.kind = kind, !.live = TRUE, !.at = s,
                 !.foreign = op[t].foreign]

Await(s, kind) ==
    LET t == cur[s].task
        n == op[t].n + 1
        q == IF kind = "timed" THEN QueuedWithTimeout(sq[s], flight[s], t, n)
             ELSE Queued(sq[s], flight[s], Request(t, n, "io"))
    IN  /\ t # NoTask
        /\ op' = [op EXCEPT ![t] = NewOp(t, kind, s)]
        /\ st' = [st EXCEPT ![t] = "waiting"]
        /\ cur' = [cur EXCEPT ![s] = Idle]
        /\ sq' = [sq EXCEPT ![s] = q.sq]
        /\ flight' = [flight EXCEPT ![s] = q.flight]
        /\ UNCHANGED <<loop, posts, ready, batch, cq>>

\* submit() throws out of await_suspend: the coroutine goes on with the exception.  When
\* it was the timeout that found no room, the receive stays queued for a dead operation.
AwaitThrows(s, kind) ==
    LET t  == cur[s].task
        io == Queued(sq[s], flight[s], Request(t, op[t].n + 1, "io"))
    IN  /\ t # NoTask
        /\ op' = [op EXCEPT ![t] = [NewOp(t, kind, s) EXCEPT !.live = FALSE, !.res = EIO]]
        /\ \/ ~ Room(sq[s]) /\ UNCHANGED <<sq, flight>>
           \/ /\ kind = "timed" /\ ~ Room(io.sq)
              /\ sq' = [sq EXCEPT ![s] = io.sq]
              /\ flight' = [flight EXCEPT ![s] = io.flight]
        /\ UNCHANGED <<loop, posts, ready, batch, cur, cq, st>>

\* co_return of the top-level coroutine: only its first resumption may destroy the frame.
Finish(s) ==
    LET t == cur[s].task
    IN  /\ t # NoTask
        /\ st' = [st EXCEPT ![t] = IF cur[s].destroy THEN "destroyed" ELSE "done"]
        /\ cur' = [cur EXCEPT ![s] = Idle]
        /\ UNCHANGED <<loop, posts, ready, batch, ring, op>>

-----------------------------------------------------------------------------
(* The kernel                                                              *)

\* An operation ends.  Its linked timeout starts only now, or is cancelled if it failed.
IoDone(s, r, res) ==
    LET timer    == Request(r.task, r.n, "held")
        released == timer \in flight[s] /\ res >= 0
        failed   == timer \in flight[s] /\ res < 0
    IN  /\ r \in flight[s]
        /\ r.kind = "io"
        /\ flight' = [flight EXCEPT ![s] = (@ \ {r, timer}) \cup
                        (IF released THEN {Request(r.task, r.n, "armed")} ELSE {})]
        /\ cq' = [cq EXCEPT ![s] = @ \o <<Completion(r, res)>> \o
                        (IF failed THEN <<Completion(r, ECANCELED)>> ELSE << >>)]
        /\ UNCHANGED <<loop, posts, ready, batch, cur, sq, coro>>

\* A timeout expires.
TimerFires(s, r) ==
    /\ r \in flight[s]
    /\ r.kind \in {"armed", "free"}
    /\ flight' = [flight EXCEPT ![s] = @ \ {r}]
    /\ cq' = [cq EXCEPT ![s] = Append(@, Completion(r, ETIME))]
    /\ UNCHANGED <<loop, posts, ready, batch, cur, sq, coro>>

\* The timespec is a local of submit() and is read by the kernel after submit() has
\* returned: it may no longer be one, and the kernel rejects the timeout and its link.
TimerRejected(s, r) ==
    LET io == Request(r.task, r.n, "io")
    IN  /\ r \in flight[s]
        /\ \/ r.kind = "held" /\ io \in flight[s]
              /\ flight' = [flight EXCEPT ![s] = @ \ {r, io}]
              /\ cq' = [cq EXCEPT ![s] = @ \o <<Completion(io, ECANCELED), Completion(r, EINVAL)>>]
           \/ r.kind = "free"
              /\ flight' = [flight EXCEPT ![s] = @ \ {r}]
              /\ cq' = [cq EXCEPT ![s] = Append(@, Completion(r, EINVAL))]
        /\ UNCHANGED <<loop, posts, ready, batch, cur, sq, coro>>

-----------------------------------------------------------------------------
(* Schedulers whose tasks await up to MaxAwait operations in any order     *)

TaskStep(s) ==
    LET t == cur[s].task
    IN  /\ t # NoTask
        /\ \/ op[t].n < MaxAwait[t] /\ \E kind \in Kinds[t] : Await(s, kind) \/ AwaitThrows(s, kind)
           \/ Finish(s)

TimerStep(s) == \E r \in flight[s] : TimerFires(s, r) \/ TimerRejected(s, r)

Next ==
    \E s \in Sched :
        \/ \E t \in Task : Post(s, t) \/ Start(s, t)
        \/ running[s] /\ Stop(s)
        \/ LoopStep(s) \/ ReapDangling(s)
        \/ TaskStep(s)
        \/ \E r \in flight[s], res \in {1, 0, EIO} : IoDone(s, r, res)
        \/ TimerStep(s)

Spec == Init /\ [][Next]_svars

\* The scheduler's thread keeps running, a coroutine runs to its next suspension,
\* io_uring_submit does not fail for ever, and timeouts expire.  Whether a socket ever
\* becomes ready, and whether anybody posts or stops, is up to others.
Fairness ==
    \A s \in Sched :
        /\ WF_svars(LoopStep(s))
        /\ WF_svars(TaskStep(s))
        /\ SF_svars(Submit(s) /\ sq'[s] = << >>)
        /\ WF_svars(\E r \in flight[s] : TimerFires(s, r))

FairSpec == Spec /\ Fairness

-----------------------------------------------------------------------------
(* Properties                                                              *)

\* The coroutines that scheduler s is running or going to resume, in order.
Schedule(s) == (IF cur[s] = Idle THEN << >> ELSE <<cur[s]>>) \o batch[s] \o ready[s]

\* A coroutine is never scheduled twice at once, on one scheduler or two, and one that
\* awaits an operation is scheduled only after that operation completed: resuming it
\* otherwise would be undefined behaviour.
ResumedOnce ==
    \A s1, s2 \in Sched : \A i \in DOMAIN Schedule(s1), j \in DOMAIN Schedule(s2) :
        LET t == Schedule(s1)[i].task
        IN  /\ t = Schedule(s2)[j].task => s1 = s2 /\ i = j
            /\ st[t] \in {"created", "running"} \/ (st[t] = "waiting" /\ op[t].completed)

\* Task t awaits no operation with a timeout.
Untimed(t) == "timed" \notin Kinds[t]

\* Without timeouts, whatever the kernel still holds or has completed for a task belongs to
\* an operation that is alive and awaited, so handle_cqe never touches a dead object.
NoDanglingRequest ==
    \A s \in Sched : \A r \in ToSet(sq[s]) \cup flight[s] \cup ToSet(cq[s]) :
        Untimed(r.task) => Addressed(r) /\ st[r.task] = "waiting"

\* The request of the operation that t awaits is queued, in the kernel or has completed.
Requested(t) ==
    LET s == op[t].at
    IN  \/ Request(t, op[t].n, "io") \in ToSet(sq[s]) \cup flight[s]
        \/ \E c \in ToSet(cq[s]) : c.task = t /\ c.n = op[t].n

\* Its handle is in the queue of the scheduler it awaits on.
Handed(t) == \E i \in ToSet(batch[op[t].at]) \cup ToSet(ready[op[t].at]) : i.task = t

\* A coroutine that awaits is never forgotten: until its operation completes, its request
\* is on its way through the ring of its scheduler, and from then on its handle is in that
\* scheduler's queue.  A full queue, a submission that fails, a late completion of an
\* earlier operation and the thread's rounds lose neither.
NoneForgotten ==
    \A t \in Task : st[t] = "waiting" /\ lpc[op[t].at] # "exited" =>
        IF op[t].completed THEN Handed(t) ELSE Requested(t)

\* A completion of the operation that a coroutine awaits resumes it, unless the scheduler
\* is stopped.  (One of an earlier operation may be lost on a dead object.)
CompletionResumes ==
    \A s \in Sched, t \in Task :
        (\E i \in 1..Len(cq[s]) : cq[s][i].task = t /\ Addressed(cq[s][i]))
            ~> (st[t] # "waiting" \/ lpc[s] = "exited")

\* A posted function runs and the task it starts is resumed, unless the scheduler is stopped.
PostedTaskRuns ==
    \A s \in Sched, t \in Task :
        (t \in ToSet(posts[s])) ~> (st[t] \notin {"posted", "created"} \/ lpc[s] = "exited")

\* run() returns once stop() is called after it has set running_ itself.
StopEndsRun ==
    \A s \in Sched : (~ running[s] /\ lpc[s] # "boot") ~> lpc[s] = "exited"

\* "Request-level timeout": a receive with a timeout does not wait for ever.
TimedReceiveEnds ==
    \A t \in Task :
        (st[t] = "waiting" /\ op[t].kind = "timed")
            ~> (st[t] # "waiting" \/ \E s \in Sched : lpc[s] = "exited")
=============================================================================
