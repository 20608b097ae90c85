-------------------------- MODULE HttpServerProofs --------------------------
(***************************************************************************)
(* Proofs about the HTTP server, for any number of workers and clients.    *)
(* How it deals connections to its workers: a connection stays with the    *)
(* worker it was dealt to, and the workers are dealt connections in turn.  *)
(* Its sessions, for any number of requests and any lengths: what a client *)
(* receives are the responses to its requests, in order and each byte      *)
(* once, and no request is answered before it has been received, unless    *)
(* the connection was given the bytes of another one.  SessInv ties what   *)
(* the client and the kernel have to what handle_connection believes; a    *)
(* connection that was misled may leave receives of its own behind, and    *)
(* the invariant tells those from its present one.                         *)
(***************************************************************************)
EXTENDS HttpServer, UringSchedulerProofs, FiniteSetTheorems

\* Task t is in the queue of s, is posted to s, or has a request in the ring of s.
InQueue(q, s, t) == \E i \in 1..Len(q[s]) : q[s][i].task = t
InPosts(s, t)    == \E i \in 1..Len(posts[s]) : posts[s][i] = t
InRing(s, t)     == \E r \in Held(sq, flight, s) : r.task = t
\* The operation that t awaits is one of s.
AwaitsAt(s, t)   == op[t].live /\ op[t].at = s

\* Scheduler s has something of task t: its handle, a request, a completion or the operation it awaits.
Here(s, t) ==
    \/ InPosts(s, t) \/ InQueue(ready, s, t) \/ InQueue(batch, s, t) \/ cur[s].task = t
    \/ InRing(s, t) \/ InQueue(cq, s, t) \/ AwaitsAt(s, t)

\* The step brings no task to a scheduler that had nothing of it, and takes no task back to before its start.
Stays == \A v \in Sched, t \in Task : (Here(v, t)' => Here(v, t)) /\ (st[t] # "none" => st'[t] # "none")

\* The queues p are q, with nothing new but the tasks of f at s.
Gains(p, q, s, f) ==
    \A v \in Sched : \A t : InQueue(p, v, t) => InQueue(q, v, t) \/ (v = s /\ \E i \in 1..Len(f) : f[i].task = t)

\* The tasks in a queue after push_back ...
LEMMA InAppended ==
    ASSUME NEW S, NEW q \in [Sched -> Seq(S)], NEW s \in Sched, NEW x \in S, NEW p,
           p = [q EXCEPT ![s] = Append(@, x)]
    PROVE  Gains(p, q, s, <<x>>)
<1>1. /\ p \in [Sched -> Seq(S)] /\ p[s][Len(p[s])] = x
      /\ \A v \in Sched : \A i \in 1..Len(p[v]) :
            \/ i \in 1..Len(q[v]) /\ p[v][i] = q[v][i]
            \/ v = s /\ i = Len(p[s])
  BY Appended
<1>2. \A v \in Sched : \A t : InQueue(p, v, t) => InQueue(q, v, t) \/ (v = s /\ t = x.task)
  BY <1>1 DEF InQueue
<1>3. 1 \in 1..Len(<<x>>) /\ <<x>>[1] = x
  OBVIOUS
<1> QED
  BY <1>2, <1>3 DEF Gains

\* ... after its first element is taken ...
LEMMA InPopped ==
    ASSUME NEW S, NEW q \in [Sched -> Seq(S)], NEW s \in Sched, q[s] # << >>, NEW p,
           p = [q EXCEPT ![s] = Tail(@)]
    PROVE  /\ \A v \in Sched : \A t : InQueue(p, v, t) => InQueue(q, v, t)
           /\ InQueue(q, s, Head(q[s]).task)
<1>1. /\ p \in [Sched -> Seq(S)]
      /\ Head(q[s]) = q[s][1] /\ 1 \in 1..Len(q[s])
      /\ \A v \in Sched : v # s => p[v] = q[v]
      /\ \A i \in 1..Len(p[s]) : i + 1 \in 1..Len(q[s]) /\ p[s][i] = q[s][i + 1]
  BY Popped
<1> QED
  BY <1>1 DEF InQueue

\* ... after several elements are added ...
LEMMA InExtended ==
    ASSUME NEW S, NEW q \in [Sched -> Seq(S)], NEW s \in Sched, NEW f \in Seq(S), NEW p,
           p = [q EXCEPT ![s] = @ \o f]
    PROVE  Gains(p, q, s, f)
<1>1. /\ p \in [Sched -> Seq(S)]
      /\ \A v \in Sched : v # s => p[v] = q[v]
      /\ \A i \in 1..Len(p[s]) :
            \/ i \in 1..Len(q[s]) /\ p[s][i] = q[s][i]
            \/ i - Len(q[s]) \in 1..Len(f) /\ p[s][i] = f[i - Len(q[s])]
  BY Extended
<1> QED
  BY <1>1 DEF InQueue, Gains

\* ... and after clear.
LEMMA InEmptied ==
    ASSUME NEW S, NEW q \in [Sched -> Seq(S)], NEW s \in Sched, NEW p,
           p = [q EXCEPT ![s] = << >>]
    PROVE  \A v \in Sched : \A t : InQueue(p, v, t) => InQueue(q, v, t) /\ v # s
<1>1. 1..Len(p[s]) = {} /\ \A v \in Sched : v # s => p[v] = q[v]
  BY Emptied
<1> QED
  BY <1>1 DEF InQueue

\* Draining the posts keeps their tasks where they are.
LEMMA DrainStays ==
    ASSUME NEW s \in Sched, TypeOK, Drain(s)
    PROVE  Stays
<1> DEFINE f == [i \in 1..Len(posts[s]) |-> [task |-> posts[s][i], destroy |-> TRUE]]
<1>0. /\ f \in Seq(Item) /\ Len(f) = Len(posts[s])
      /\ \A i \in 1..Len(posts[s]) : f[i].task = posts[s][i]
  BY MappedPosts DEF TypeOK
<1>1. /\ ready' = [ready EXCEPT ![s] = @ \o f] /\ posts' = [posts EXCEPT ![s] = << >>]
      /\ UNCHANGED <<batch, cur, sq, flight, cq, op>> /\ ready \in [Sched -> Seq(Item)]
      /\ posts \in [Sched -> Seq(Task)]
  BY DEF Drain, ring, TypeOK
<1>2. \A t \in Task : st[t] # "none" => st'[t] # "none"
  BY DEF Drain, TypeOK
<1> HIDE DEF f
<1>3. \A v \in Sched : \A t : InQueue(ready, v, t)' => InQueue(ready, v, t) \/ InPosts(v, t)
  <2>1. Gains(ready', ready, s, f)
    BY <1>0, <1>1, InExtended
  <2> QED
    BY <1>0, <1>1, <2>1 DEF InPosts, Gains
<1>4. \A v \in Sched : \A t : InPosts(v, t)' => InPosts(v, t)
  BY <1>1, Emptied DEF InPosts
<1> QED
  BY <1>1, <1>2, <1>3, <1>4 DEF Stays, Here, InRing, AwaitsAt

\* So does swapping ready_ with the batch ...
LEMMA SwapReadyStays ==
    ASSUME NEW s \in Sched, TypeOK, SwapReady(s)
    PROVE  Stays
<1>1. /\ batch' = [batch EXCEPT ![s] = ready[s]] /\ ready' = [ready EXCEPT ![s] = << >>]
      /\ UNCHANGED <<posts, cur, sq, flight, cq, st, op>>
      /\ batch \in [Sched -> Seq(Item)] /\ ready \in [Sched -> Seq(Item)]
  BY DEF SwapReady, ring, coro, TypeOK
<1>2. \A v \in Sched : \A t : InQueue(batch, v, t)' => InQueue(batch, v, t) \/ InQueue(ready, v, t)
  BY <1>1 DEF InQueue
<1>3. \A v \in Sched : \A t : InQueue(ready, v, t)' => InQueue(ready, v, t)
  BY <1>1, InEmptied
<1> QED
  BY <1>1, <1>2, <1>3 DEF Stays, Here, InRing, InPosts, AwaitsAt

\* ... resuming a handle ...
LEMMA ResumeStays ==
    ASSUME NEW s \in Sched, TypeOK, Resume(s)
    PROVE  Stays
<1>1. /\ batch[s] # << >> /\ batch' = [batch EXCEPT ![s] = Tail(@)]
      /\ cur' = [cur EXCEPT ![s] = Head(batch[s])]
      /\ UNCHANGED <<posts, ready, sq, flight, cq>>
      /\ batch \in [Sched -> Seq(Item)] /\ cur \in [Sched -> Item \cup {Idle}]
  BY DEF Resume, ring, TypeOK
<1>2. \A t \in Task : st[t] # "none" => st'[t] # "none"
  BY DEF Resume, TypeOK
<1>3. /\ \A v \in Sched : \A t : InQueue(batch, v, t)' => InQueue(batch, v, t)
      /\ InQueue(batch, s, Head(batch[s]).task)
  BY <1>1, InPopped
<1>4. \A v \in Sched : cur'[v] = IF v = s THEN Head(batch[s]) ELSE cur[v]
  BY <1>1
<1>5. \A v \in Sched, t \in Task : AwaitsAt(v, t)' => AwaitsAt(v, t)
  <2>1. op' = [op EXCEPT ![Head(batch[s]).task].live = FALSE] /\ op \in [Task -> Op]
    BY DEF Resume, TypeOK
  <2>2. \A t \in Task : op'[t].live => op'[t] = op[t]
    BY <2>1 DEF Op
  <2> QED
    BY <2>2 DEF AwaitsAt
<1> QED
  BY <1>1, <1>2, <1>3, <1>4, <1>5 DEF Stays, Here, InRing, InPosts

\* ... submitting the ring ...
LEMMA SubmitStays ==
    ASSUME NEW s \in Sched, TypeOK, Submit(s)
    PROVE  Stays
<1>0. UNCHANGED <<posts, ready, batch, cur, cq, st, op>> /\ sq \in [Sched -> Seq(Req)]
      /\ flight \in [Sched -> SUBSET Req]
  BY DEF Submit, coro, TypeOK
<1>1. CASE UNCHANGED <<flight, sq>>
  BY <1>0, <1>1 DEF Stays, Here, InRing, InPosts, AwaitsAt
<1>2. CASE flight' = [flight EXCEPT ![s] = @ \cup ToSet(sq[s])] /\ sq' = [sq EXCEPT ![s] = << >>]
  <2>1. \A v \in Sched : \A x \in Held(sq', flight', v) : x \in Held(sq, flight, v)
    <3>1. Submits(sq', flight', sq, flight, s) /\ Queues(sq, flight, cq)
      BY <1>2, QueuesNow DEF Submits
    <3> QED
      BY <3>1, HeldSubmitted
  <2> QED
    BY <1>0, <2>1 DEF Stays, Here, InRing, InPosts, AwaitsAt
<1> QED
  BY <1>1, <1>2 DEF Submit

\* ... and reaping a completion, whose handle is queued at the scheduler that its task awaits at.
LEMMA ReapStays ==
    ASSUME NEW s \in Sched, TypeOK, Reap(s)
    PROVE  Stays
<1>0. /\ cq[s] # << >> /\ cq' = [cq EXCEPT ![s] = Tail(@)]
      /\ UNCHANGED <<posts, batch, cur, sq, flight, st>> /\ cq[s][1] \in Cqe
      /\ cq \in [Sched -> Seq(Cqe)] /\ ready \in [Sched -> Seq(Item)] /\ op \in [Task -> Op]
  BY ReapShape DEF TypeOK
<1>1. \A v \in Sched : \A t : InQueue(cq, v, t)' => InQueue(cq, v, t)
  BY <1>0, InPopped
<1>2. CASE UNCHANGED <<ready, op>>
  BY <1>0, <1>1, <1>2 DEF Stays, Here, InRing, InPosts, AwaitsAt
<1>3. ASSUME NEW t \in Task, Completes(s, cq[s][1], t) PROVE Stays
  <2> DEFINE item == [task |-> t, destroy |-> FALSE]
             at == op[t].at
  <2>1. /\ op[t].live /\ op' = [op EXCEPT ![t] = Ended(t, cq[s][1])]
        /\ ready' = [ready EXCEPT ![at] = Append(@, item)] /\ item \in Item /\ item.task = t
    BY <1>3 DEF Completes, Item
  <2>2. \A v \in Sched, u \in Task : AwaitsAt(v, u)' => AwaitsAt(v, u)
    <3>1. Ended(t, cq[s][1]).live = op[t].live /\ Ended(t, cq[s][1]).at = op[t].at
      BY <1>0, EndedValue
    <3>2. \A u \in Task : op'[u].live = op[u].live /\ op'[u].at = op[u].at
      BY <1>0, <2>1, <3>1
    <3> QED
      BY <3>2 DEF AwaitsAt
  <2> HIDE DEF item, at
  <2>3. \A v \in Sched : \A u : InQueue(ready, v, u)' => InQueue(ready, v, u) \/ AwaitsAt(v, u)
    <3>1. CASE at \in Sched
      <4>1. Gains(ready', ready, at, <<item>>)
        BY <1>0, <2>1, <3>1, InAppended
      <4> QED
        BY <2>1, <4>1 DEF Gains, AwaitsAt, at
    <3>2. CASE at \notin Sched
      BY <1>0, <2>1, <3>2 DEF InQueue
    <3> QED
      BY <3>1, <3>2
  <2> QED
    BY <1>0, <1>1, <2>2, <2>3 DEF Stays, Here, InRing, InPosts
<1> QED
  BY <1>2, <1>3, ReapShape

\* A step that moves nothing.
LEMMA FrameStays ==
    ASSUME UNCHANGED <<posts, ready, batch, cur, sq, flight, cq, st, op>>
    PROVE  Stays
BY DEF Stays, Here, InRing, InPosts, AwaitsAt

\* Every step of run.
LEMMA LoopStays ==
    ASSUME NEW s \in Sched, TypeOK, LoopStep(s)
    PROVE  Stays
<1>1. CASE Boot(s) \/ Exit(s) \/ ReapDone(s)
  BY <1>1, FrameStays DEF Boot, Exit, ReapDone, ring, coro
<1> QED
  BY <1>1, DrainStays, SwapReadyStays, ResumeStays, SubmitStays, ReapStays DEF LoopStep

\* A coroutine queues its requests at the scheduler that runs it ...
LEMMA AwaitStays ==
    ASSUME NEW s \in Sched, NEW kind \in {"plain", "timed"}, TypeOK, Await(s, kind)
    PROVE  Stays
<1> DEFINE t == cur[s].task
           r == Request(t, op[t].n + 1, "io")
<1>0. /\ cur' = [cur EXCEPT ![s] = Idle] /\ cur \in [Sched -> Item \cup {Idle}] /\ t \in Task
      /\ UNCHANGED <<posts, ready, batch, cq>> /\ NoTask \notin Task
  BY AwaitShape, NoTaskIsNoTask DEF Await, TypeOK
<1>1. \A u \in Task : st[u] # "none" => st'[u] # "none"
  BY <1>0 DEF Await, TypeOK
<1>2. \A v \in Sched : cur'[v].task \in Task => cur'[v] = cur[v]
  BY <1>0 DEF Idle
<1>3. r.task = t /\ Queues(sq, flight, cq)
  BY QueuesNow DEF Request
<1>4. \A v \in Sched : \A x \in Held(sq', flight', v) : x \in Held(sq, flight, v) \/ (v = s /\ x.task = t)
  <2>0. \/ Enqueues(sq', flight', sq, flight, s, r)
        \/ \E SQ1, FL1, x :
              /\ Enqueues(SQ1, FL1, sq, flight, s, r)
              /\ x.task = t /\ Enqueues(sq', flight', SQ1, FL1, s, x)
    BY AwaitQueues
  <2> HIDE DEF r, t
  <2>1. CASE Enqueues(sq', flight', sq, flight, s, r)
    BY <1>3, <2>1, HeldQueued
  <2>2. ASSUME NEW SQ1, NEW FL1, NEW x, Enqueues(SQ1, FL1, sq, flight, s, r),
               x.task = t, Enqueues(sq', flight', SQ1, FL1, s, x)
        PROVE  \A v \in Sched : \A y \in Held(sq', flight', v) : y \in Held(sq, flight, v) \/ (v = s /\ y.task = t)
    <3>1. Queues(SQ1, FL1, cq)
      BY <1>3, <2>2, QueuesQueued
    <3>2. \A v \in Sched : \A y \in Held(SQ1, FL1, v) : y \in Held(sq, flight, v) \/ (v = s /\ y = r)
      BY <1>3, <2>2, HeldQueued
    <3>3. \A v \in Sched : \A y \in Held(sq', flight', v) : y \in Held(SQ1, FL1, v) \/ (v = s /\ y = x)
      BY <2>2, <3>1, HeldQueued
    <3> QED
      BY <1>3, <2>2, <3>2, <3>3
  <2> QED
    BY <2>0, <2>1, <2>2
<1> HIDE DEF r
<1>5. \A v \in Sched : \A u : InRing(v, u)' => InRing(v, u) \/ cur[v].task = u
  BY <1>4 DEF InRing
<1>6. \A v \in Sched, u \in Task : AwaitsAt(v, u)' => AwaitsAt(v, u) \/ cur[v].task = u
  <2>1. op[t] \in Op /\ op'[t] = NewOp(t, kind, s) /\ \A u \in Task : u # t => op'[u] = op[u]
    BY <1>0, AwaitShape DEF TypeOK
  <2>2. op'[t].at = s
    BY <1>0, <2>1, NewOpValue
  <2> HIDE DEF t
  <2> QED
    BY <2>1, <2>2 DEF AwaitsAt, t
<1> QED
  BY <1>0, <1>1, <1>2, <1>5, <1>6 DEF Stays, Here, InPosts

\* ... also when the await then throws.
LEMMA AwaitThrowsStays ==
    ASSUME NEW s \in Sched, NEW kind \in {"plain", "timed"}, TypeOK, AwaitThrows(s, kind)
    PROVE  Stays
<1> DEFINE t == cur[s].task
           r == Request(t, op[t].n + 1, "io")
<1>0. t \in Task /\ UNCHANGED <<posts, ready, batch, cur, cq, st>>
  BY AwaitThrowsShape DEF AwaitThrows
<1>1. r \in Req /\ r.task = t /\ Queues(sq, flight, cq)
  <2>1. op[t].n + 1 \in Nat
    BY <1>0 DEF TypeOK, Op
  <2> QED
    BY <1>0, <2>1, RequestType, QueuesNow
<1>2. \/ UNCHANGED <<sq, flight>>
      \/ Enqueues(sq', flight', sq, flight, s, r)
  BY <1>1 DEF AwaitThrows, Enqueues
<1> HIDE DEF r
<1>3. \A v \in Sched : \A x \in Held(sq', flight', v) : x \in Held(sq, flight, v) \/ (v = s /\ x.task = t)
  BY <1>1, <1>2, HeldQueued
<1>4. \A v \in Sched : \A u : InRing(v, u)' => InRing(v, u) \/ cur[v].task = u
  BY <1>3 DEF InRing
<1>5. \A v \in Sched, u \in Task : AwaitsAt(v, u)' => AwaitsAt(v, u)
  <2>1. /\ op[t] \in Op /\ op'[t] = [NewOp(t, kind, s) EXCEPT !.live = FALSE, !.res = EIO]
        /\ \A u \in Task : u # t => op'[u] = op[u]
    BY <1>0, AwaitThrowsShape DEF TypeOK
  <2>2. ~ op'[t].live
    BY <1>0, <2>1, NewOpValue DEF Op
  <2> QED
    BY <2>1, <2>2 DEF AwaitsAt
<1> QED
  BY <1>0, <1>4, <1>5 DEF Stays, Here, InPosts

\* Its end takes things away ...
LEMMA FinishStays ==
    ASSUME NEW s \in Sched, TypeOK, Finish(s)
    PROVE  Stays
<1>0. /\ cur' = [cur EXCEPT ![s] = Idle] /\ cur \in [Sched -> Item \cup {Idle}]
      /\ UNCHANGED <<posts, ready, batch, sq, flight, cq, op>> /\ NoTask \notin Task
  BY NoTaskIsNoTask DEF Finish, TypeOK, ring
<1>1. \A u \in Task : st[u] # "none" => st'[u] # "none"
  BY DEF Finish, TypeOK
<1>2. \A v \in Sched : cur'[v].task \in Task => cur'[v] = cur[v]
  BY <1>0 DEF Idle
<1> QED
  BY <1>0, <1>1, <1>2 DEF Stays, Here, InPosts, InRing, AwaitsAt

\* ... and so does the end of the process.
LEMMA DieStays ==
    ASSUME TypeOK, Die
    PROVE  Stays
<1>0. /\ \A v \in Sched : cur'[v].task = NoTask /\ flight'[v] = {}
      /\ UNCHANGED <<posts, ready, batch, sq, cq, st, op>> /\ NoTask \notin Task
  BY NoTaskIsNoTask DEF Die, coro, Idle
<1> QED
  BY <1>0 DEF Stays, Here, InPosts, InRing, Held, AwaitsAt

\* The kernel turns requests into completions of the same task, at the same scheduler.
LEMMA KernelStays ==
    ASSUME NEW s \in Sched, NEW t, NEW f \in Seq(Cqe), TypeOK, InRing(s, t),
           cq' = [cq EXCEPT ![s] = @ \o f], \A i \in 1..Len(f) : f[i].task = t,
           \A v \in Sched : \A x \in flight'[v] : x \in flight[v] \/ (v = s /\ x.task = t),
           UNCHANGED <<posts, ready, batch, cur, sq, st, op>>
    PROVE  Stays
<1>1. Gains(cq', cq, s, f)
  BY InExtended DEF TypeOK
<1>2. \A v \in Sched : \A u : InQueue(cq', v, u) => InQueue(cq, v, u) \/ (v = s /\ u = t)
  BY <1>1 DEF Gains
<1>3. \A v \in Sched : \A u : InRing(v, u)' => InRing(v, u)
  BY DEF InRing, Held
<1> QED
  BY <1>2, <1>3 DEF Stays, Here, InPosts, AwaitsAt

\* One completion, as a sequence of completions.
LEMMA AppendsAsConcat ==
    ASSUME NEW q \in [Sched -> Seq(Cqe)], NEW s \in Sched, NEW x \in Cqe
    PROVE  Append(q[s], x) = q[s] \o <<x>>
<1>1. q[s] \in Seq(Cqe)
  OBVIOUS
<1> QED
  BY <1>1, AppendIsConcat

\* What the kernel adds to the completion queue of s when the operation of r ends with res.
EndsWith(s, r, res, f) ==
    /\ f \in Seq(Cqe) /\ cq' = [cq EXCEPT ![s] = @ \o f]
    /\ \A i \in 1..Len(f) : f[i] = Completion(r, res) \/ f[i] = Completion(r, ECANCELED)
    /\ res >= 0 => f = <<Completion(r, res)>>

\* What the kernel leaves behind when it ends an operation ...
LEMMA IoDoneShape ==
    ASSUME NEW s \in Sched, NEW r, NEW res \in Int, TypeOK, IoDone(s, r, res)
    PROVE  /\ r \in flight[s] /\ r \in Req /\ r.kind = "io"
           /\ UNCHANGED <<posts, ready, batch, cur, sq, st, op>>
           /\ flight' \in [Sched -> SUBSET Req] /\ r \notin flight'[s]
           /\ \A v \in Sched : \A x \in flight'[v] : x \in flight[v] \/ (v = s /\ x.task = r.task /\ x.kind = "armed")
           /\ \E f : EndsWith(s, r, res, f)
<1> DEFINE timer == Request(r.task, r.n, "held")
           armed == Request(r.task, r.n, "armed")
           more == IF timer \in flight[s] /\ res < 0 THEN <<Completion(r, ECANCELED)>> ELSE << >>
<1>0. /\ flight \in [Sched -> SUBSET Req] /\ cq \in [Sched -> Seq(Cqe)] /\ r \in flight[s] /\ r \in Req
      /\ r.kind = "io" /\ UNCHANGED <<posts, ready, batch, cur, sq, st, op>>
  BY DEF TypeOK, IoDone, coro
<1>1. /\ flight' = [flight EXCEPT ![s] = (@ \ {r, timer}) \cup
                    (IF timer \in flight[s] /\ res >= 0 THEN {armed} ELSE {})]
      /\ cq' = [cq EXCEPT ![s] = @ \o <<Completion(r, res)>> \o more]
  BY DEF IoDone
<1>2. /\ Completion(r, res) \in Cqe /\ Completion(r, ECANCELED) \in Cqe
      /\ armed \in Req /\ armed.task = r.task /\ armed.kind = "armed"
  BY <1>0, CompletionType, RequestType DEF ECANCELED, Req
<1>3. /\ flight' \in [Sched -> SUBSET Req] /\ r \notin flight'[s]
      /\ \A v \in Sched : \A x \in flight'[v] : x \in flight[v] \/ (v = s /\ x.task = r.task /\ x.kind = "armed")
  <2> HIDE DEF armed, timer
  <2> QED
    BY <1>0, <1>1, <1>2
<1>4. more \in Seq(Cqe) /\ (more = << >> \/ more = <<Completion(r, ECANCELED)>>) /\ (res >= 0 => more = << >>)
  BY <1>2
<1> HIDE DEF more, timer, armed
<1>5. PICK f \in Seq(Cqe) : f = <<Completion(r, res)>> \o more
  <2>1. (<<Completion(r, res)>> \o more) \in Seq(Cqe)
    BY <1>2, <1>4
  <2> QED
    BY <2>1, Zenon
<1>6. /\ \A i \in 1..Len(f) : f[i] = Completion(r, res) \/ f[i] = Completion(r, ECANCELED)
      /\ res >= 0 => f = <<Completion(r, res)>>
  <2>1. \A i \in 1..Len(f) : f[i] = Completion(r, res) \/ f[i] = Completion(r, ECANCELED)
    BY <1>2, <1>4, <1>5
  <2>2. <<Completion(r, res)>> \o << >> = <<Completion(r, res)>>
    BY <1>2
  <2> QED
    BY <1>4, <1>5, <2>1, <2>2
<1>7. cq' = [cq EXCEPT ![s] = @ \o f]
  <2>1. <<Completion(r, res)>> \in Seq(Cqe) /\ cq[s] \in Seq(Cqe)
    BY <1>0, <1>2
  <2>2. cq[s] \o <<Completion(r, res)>> \o more = cq[s] \o (<<Completion(r, res)>> \o more)
    BY <1>4, <2>1, CompletionsAssociative
  <2> QED
    BY <1>1, <1>5, <2>2
<1>8. EndsWith(s, r, res, f)
  BY <1>6, <1>7 DEF EndsWith
<1> QED
  BY <1>0, <1>3, <1>8

\* ... and a timer.
LEMMA TimerShape ==
    ASSUME NEW s \in Sched, NEW r, TypeOK, TimerFires(s, r) \/ TimerRejected(s, r)
    PROVE  /\ r \in flight[s] /\ r \in Req
           /\ UNCHANGED <<posts, ready, batch, cur, sq, st, op>>
           /\ flight' \in [Sched -> SUBSET Req]
           /\ \A v \in Sched : flight'[v] \subseteq flight[v]
           /\ \E f \in Seq(Cqe) :
                 /\ cq' = [cq EXCEPT ![s] = @ \o f]
                 /\ \A i \in 1..Len(f) : f[i].task = r.task /\ f[i].res < 0
<1> DEFINE io == Request(r.task, r.n, "io")
<1>0. /\ flight \in [Sched -> SUBSET Req] /\ cq \in [Sched -> Seq(Cqe)] /\ r \in flight[s] /\ r \in Req
      /\ UNCHANGED <<posts, ready, batch, cur, sq, st, op>>
      /\ flight' = [flight EXCEPT ![s] = @ \ {r, io}] \/ flight' = [flight EXCEPT ![s] = @ \ {r}]
      /\ \/ cq' = [cq EXCEPT ![s] = @ \o <<Completion(io, ECANCELED), Completion(r, EINVAL)>>]
         \/ cq' = [cq EXCEPT ![s] = Append(@, Completion(r, EINVAL))]
         \/ cq' = [cq EXCEPT ![s] = Append(@, Completion(r, ETIME))]
  BY DEF TypeOK, TimerFires, TimerRejected, coro
<1>a. io \in Req /\ io.task = r.task
  BY <1>0, RequestType DEF Req
<1>1. /\ Completion(r, EINVAL) \in Cqe /\ Completion(r, EINVAL).task = r.task
      /\ Completion(r, ETIME) \in Cqe /\ Completion(r, ETIME).task = r.task
      /\ Completion(io, ECANCELED) \in Cqe /\ Completion(io, ECANCELED).task = r.task
  BY <1>0, <1>a, CompletionType DEF EINVAL, ECANCELED, ETIME
<1>b. Completion(r, EINVAL).res < 0 /\ Completion(r, ETIME).res < 0 /\ Completion(io, ECANCELED).res < 0
  BY DEF Completion, EINVAL, ECANCELED, ETIME
<1> HIDE DEF io
<1>2. \E f \in Seq(Cqe) : /\ cq' = [cq EXCEPT ![s] = @ \o f]
                          /\ \A i \in 1..Len(f) : f[i].task = r.task /\ f[i].res < 0
  <2>1. CASE cq' = [cq EXCEPT ![s] = @ \o <<Completion(io, ECANCELED), Completion(r, EINVAL)>>]
    <3>1. /\ <<Completion(io, ECANCELED), Completion(r, EINVAL)>> \in Seq(Cqe)
          /\ \A i \in 1..Len(<<Completion(io, ECANCELED), Completion(r, EINVAL)>>) :
                /\ <<Completion(io, ECANCELED), Completion(r, EINVAL)>>[i].task = r.task
                /\ <<Completion(io, ECANCELED), Completion(r, EINVAL)>>[i].res < 0
      BY <1>1, <1>b
    <3> QED
      BY <2>1, <3>1, Zenon
  <2>2. ASSUME NEW x \in Cqe, x.task = r.task, x.res < 0, cq' = [cq EXCEPT ![s] = Append(@, x)]
        PROVE  \E f \in Seq(Cqe) : /\ cq' = [cq EXCEPT ![s] = @ \o f]
                                   /\ \A i \in 1..Len(f) : f[i].task = r.task /\ f[i].res < 0
    <3>1. /\ <<x>> \in Seq(Cqe)
          /\ \A i \in 1..Len(<<x>>) : <<x>>[i].task = r.task /\ <<x>>[i].res < 0
      BY <2>2
    <3>2. Append(cq[s], x) = cq[s] \o <<x>>
      BY <1>0, AppendsAsConcat
    <3>3. cq' = [cq EXCEPT ![s] = @ \o <<x>>]
      BY <2>2, <3>2
    <3> QED
      BY <3>1, <3>3, Zenon
  <2> QED
    BY <1>0, <1>1, <1>b, <2>1, <2>2
<1>3. /\ flight' \in [Sched -> SUBSET Req]
      /\ \A v \in Sched : flight'[v] \subseteq flight[v]
  BY <1>0
<1> QED
  BY <1>0, <1>2, <1>3

\* The kernel completes an operation in the ring it was submitted to ...
LEMMA IoDoneStays ==
    ASSUME NEW s \in Sched, NEW r, NEW res \in Int, TypeOK, IoDone(s, r, res)
    PROVE  Stays
<1>0. /\ r \in flight[s] /\ UNCHANGED <<posts, ready, batch, cur, sq, st, op>>
      /\ \A v \in Sched : \A x \in flight'[v] : x \in flight[v] \/ (v = s /\ x.task = r.task /\ x.kind = "armed")
  BY IoDoneShape, Zenon
<1>1. \A v \in Sched : \A x \in flight'[v] : x \in flight[v] \/ (v = s /\ x.task = r.task)
  BY <1>0
<1>b. PICK f : EndsWith(s, r, res, f)
  BY IoDoneShape
<1>2. /\ f \in Seq(Cqe) /\ cq' = [cq EXCEPT ![s] = @ \o f]
      /\ \A i \in 1..Len(f) : f[i] = Completion(r, res) \/ f[i] = Completion(r, ECANCELED)
  BY <1>b DEF EndsWith
<1>3. Completion(r, res).task = r.task /\ Completion(r, ECANCELED).task = r.task
  BY DEF Completion
<1>4. (\A i \in 1..Len(f) : f[i].task = r.task) /\ InRing(s, r.task)
  BY <1>0, <1>2, <1>3 DEF InRing, Held
<1> QED
  BY <1>0, <1>1, <1>2, <1>4, KernelStays

\* ... and a timer too.
LEMMA TimerStays ==
    ASSUME NEW s \in Sched, NEW r, TypeOK, TimerFires(s, r) \/ TimerRejected(s, r)
    PROVE  Stays
<1>1. /\ r \in flight[s] /\ UNCHANGED <<posts, ready, batch, cur, sq, st, op>>
      /\ \A v \in Sched : flight'[v] \subseteq flight[v]
  BY TimerShape
<1>2. PICK f \in Seq(Cqe) : /\ cq' = [cq EXCEPT ![s] = @ \o f]
                            /\ \A i \in 1..Len(f) : f[i].task = r.task
  BY TimerShape
<1>3. InRing(s, r.task)
  BY <1>1 DEF InRing, Held
<1> QED
  BY <1>1, <1>2, <1>3, KernelStays

\* post() and start() put one task, at one scheduler.
LEMMA PostComes ==
    ASSUME NEW s \in Sched, NEW t \in Task, TypeOK, Post(s, t) \/ Start(s, t)
    PROVE  /\ \A v \in Sched, u \in Task : Here(v, u)' => Here(v, u) \/ (v = s /\ u = t)
           /\ \A u \in Task : u # t => st'[u] = st[u]
           /\ st[t] = "none" /\ st'[t] # "none"
<1>0. /\ UNCHANGED <<batch, cur, sq, flight, cq, op>>
      /\ ready \in [Sched -> Seq(Item)] /\ posts \in [Sched -> Seq(Task)]
  BY DEF Post, Start, ring, TypeOK
<1>1. /\ \A u \in Task : u # t => st'[u] = st[u]
      /\ st[t] = "none" /\ st'[t] # "none"
  BY DEF Post, Start, TypeOK
<1>2. CASE Post(s, t)
  <2>1. posts' = [posts EXCEPT ![s] = Append(@, t)] /\ UNCHANGED ready
    BY <1>2 DEF Post
  <2>2. \A v \in Sched : \A u : InPosts(v, u)' => InPosts(v, u) \/ (v = s /\ u = t)
    <3>1. /\ posts' \in [Sched -> Seq(Task)]
          /\ posts'[s][Len(posts'[s])] = t
          /\ \A v \in Sched : \A i \in 1..Len(posts'[v]) :
               \/ i \in 1..Len(posts[v]) /\ posts'[v][i] = posts[v][i]
               \/ v = s /\ i = Len(posts'[s])
      BY <1>0, <2>1, Appended
    <3> QED
      BY <1>0, <3>1 DEF InPosts
  <2> QED
    BY <1>0, <1>1, <2>1, <2>2 DEF Here, InRing, AwaitsAt
<1>3. CASE Start(s, t)
  <2> DEFINE item == [task |-> t, destroy |-> TRUE]
  <2>1. ready' = [ready EXCEPT ![s] = Append(@, item)] /\ UNCHANGED posts /\ item \in Item /\ item.task = t
    BY <1>3 DEF Start, Item
  <2> HIDE DEF item
  <2>2. Gains(ready', ready, s, <<item>>)
    BY <1>0, <2>1, InAppended
  <2>3. \A v \in Sched : \A u : InQueue(ready', v, u) => InQueue(ready, v, u) \/ (v = s /\ u = t)
    BY <2>1, <2>2 DEF Gains
  <2> QED
    BY <1>0, <1>1, <2>1, <2>3 DEF Here, InRing, InPosts, AwaitsAt
<1> QED
  BY <1>2, <1>3

-----------------------------------------------------------------------------
(* What the steps of the server are to the schedulers                      *)

\* All but those of the threads and the two that bring a new task.
OtherStep ==
    \/ UNCHANGED svars
    \/ \E x : Stop(x)
    \/ \E s \in Sched : Finish(s)
    \/ \E s \in Sched, kind \in {"plain", "timed"} : Await(s, kind) \/ AwaitThrows(s, kind)
    \/ \E s \in Sched : \E r : \E res \in Int : IoDone(s, r, res)
    \/ \E s \in Sched : \E r : TimerFires(s, r) \/ TimerRejected(s, r)
    \/ Die

\* With those of the threads.
CoreStep == OtherStep \/ \E s \in Sched : LoopStep(s)

\* The steps that bring no new task keep SchedInv ...
LEMMA CoreSched ==
    ASSUME SchedInv, CoreStep
    PROVE  SchedInv'
<1>1. CASE UNCHANGED svars
  BY <1>1, NextSched
<1>2. ASSUME NEW x, Stop(x) PROVE SchedInv'
  <2>1. UNCHANGED <<lpc, last, posts, ready, batch, cur, sq, flight, cq, st, op>>
    BY <1>2 DEF Stop, ring, coro
  <2>2. TypeOK'
    BY <1>2, <2>1 DEF SchedInv, TypeOK, Stop
  <2> QED
    BY <2>1, <2>2, SchedFrame
<1> QED
  BY <1>1, <1>2, LoopStepSched, FinishSched, AwaitSched, AwaitThrowsSched, IoDoneSched,
     TimerFiresSched, TimerRejectedSched, DieSched DEF CoreStep, OtherStep

\* ... and keep every task where it is.
LEMMA CoreStays ==
    ASSUME TypeOK, CoreStep
    PROVE  Stays
<1>1. CASE UNCHANGED svars
  BY <1>1, FrameStays DEF svars, ring, coro
<1>2. ASSUME NEW x, Stop(x) PROVE Stays
  BY <1>2, FrameStays DEF Stop, ring, coro
<1> QED
  BY <1>1, <1>2, LoopStays, FinishStays, AwaitStays, AwaitThrowsStays, IoDoneStays,
     TimerStays, DieStays DEF CoreStep, OtherStep

\* Which step of the schedulers a step of the server is: those of main ...
LEMMA MainIsOther ==
    ASSUME StartThreads \/ StopServer \/ StopScheduler \/ Joined
    PROVE  OtherStep
BY DEF StartThreads, StopServer, StopScheduler, Joined, OtherStep

\* ... of the accept loop ...
LEMMA AcceptIsOther ==
    ASSUME AcceptAwait \/ AcceptError \/ AcceptExit \/ AcceptFails \/ (\E c \in Client : AcceptDone(c))
    PROVE  OtherStep
<1>0. Acceptor \in Sched /\ 1 \in Int /\ EIO \in Int
  BY SchedsOfServer DEF EIO
<1> QED
  BY <1>0 DEF AcceptAwait, AcceptError, AcceptExit, AcceptFails, AcceptDone, OtherStep

\* ... of a connection ...
LEMMA ConnIsOther ==
    ASSUME NEW s \in Sched, NEW c \in Client, ConnStep(s, c)
    PROVE  OtherStep
<1>1. CASE ConnRequest(s, c) \/ ConnReceived(s, c) \/ ConnSent(s, c) \/ ConnKeepAlive(s, c)
  BY <1>1 DEF ConnRequest, ConnReceived, ConnSent, ConnKeepAlive, OtherStep
<1>2. CASE ConnRecv(s, c) \/ ConnSend(s, c) \/ ConnSubmitFails(s, c)
  BY <1>2 DEF ConnRecv, ConnSend, ConnSubmitFails, OtherStep
<1>3. CASE ConnStopped(s, c) \/ ConnEnd(s, c) \/ ConnError(s, c) \/ ConnClose(s, c)
  BY <1>3 DEF ConnStopped, ConnEnd, ConnError, ConnClose, Rethrow, Return, Crash, OtherStep
<1> QED
  BY <1>1, <1>2, <1>3 DEF ConnStep

\* ... and of the kernel.
LEMMA KernelIsOther ==
    ASSUME NEW s \in Sched, SocketStep(s) \/ Timer(s) \/ BadTimespec(s) \/ DanglingCompletion(s)
    PROVE  OtherStep
<1>1. CASE Timer(s) \/ BadTimespec(s)
  BY <1>1 DEF Timer, BadTimespec, OtherStep
<1>2. CASE DanglingCompletion(s)
  BY <1>2 DEF DanglingCompletion, ReapDangling, OtherStep
<1>3. CASE SocketStep(s)
  <2>0. 0 \in Int /\ EIO \in Int /\ \A a : \A k \in 1..a : k \in Int
    BY DEF EIO
  <2>1. \E r : \E res \in Int : IoDone(s, r, res)
    BY <1>3, <2>0 DEF SocketStep, RecvDone, SendDone
  <2> QED
    BY <2>1 DEF OtherStep
<1> QED
  BY <1>1, <1>2, <1>3

\* Only the start of the accept loop and the dealing of a connection bring a new task.
LEMMA NextIsCore ==
    ASSUME HNext
    PROVE  OtherStep \/ StartAcceptLoop \/ AcceptDeal \/ \E s \in Sched : Thread(s)
<1>1. CASE Main \/ StopServer
  BY <1>1, MainIsOther DEF Main
<1>2. CASE AcceptStep \/ AcceptFails \/ \E c \in Client : AcceptDone(c)
  BY <1>2, AcceptIsOther DEF AcceptStep
<1>3. ASSUME NEW s \in Sched, WorkerTask(s) PROVE OtherStep
  BY <1>3, ConnIsOther DEF WorkerTask
<1>4. ASSUME NEW s \in Sched, SocketStep(s) \/ Timer(s) \/ BadTimespec(s) \/ DanglingCompletion(s)
      PROVE  OtherStep
  BY <1>4, KernelIsOther
<1>5. ASSUME NEW c \in Client, Connect(c) \/ ClientSends(c) \/ ClientCloses(c) PROVE OtherStep
  BY <1>5 DEF Connect, ClientSends, ClientCloses, OtherStep
<1> QED
  BY <1>1, <1>2, <1>3, <1>4, <1>5 DEF HNext

-----------------------------------------------------------------------------
(* Dealing                                                                 *)

\* An accept that succeeded has left a client to deal, and accepting has no timeout.
AcceptInv ==
    /\ op[AcceptLoop].kind = "plain"
    /\ \A s \in Sched : \A e \in ToSet(cq[s]) : e.task = AcceptLoop /\ e.res >= 0 => accepted \in Client
    /\ op[AcceptLoop].completed /\ op[AcceptLoop].res >= 0 => accepted \in Client
    /\ cpc[AcceptLoop] = "io" =>
          /\ st[AcceptLoop] \in {"running", "waiting", "done", "destroyed"}
          /\ st[AcceptLoop] = "running" => op[AcceptLoop].completed

\* The type of the variables that dealing uses.
DealType ==
    /\ nextWorker \in Nat
    /\ accepted \in Client \cup {NoTask}
    /\ home \in [Client -> ToSet(Worker) \cup {NoTask}]
    /\ cpc \in [Task -> {"loop", "io", "write", "send"}]

\* A client that has not been dealt has no worker, and one that is anywhere is at the worker it was dealt to.
NotDealt == \A c \in Client : st[c] = "none" => home[c] = NoTask
AtHome   == \A s \in Sched, c \in Client : Here(s, c) => home[c] = s /\ st[c] # "none"

\* The inductive invariant behind Confined.
DealInv == SchedInv /\ DealType /\ AcceptInv /\ NotDealt /\ AtHome

\* The accept loop is not a connection, and runs at a scheduler of the server.
LEMMA TheTasks == AcceptLoop \in Task /\ AcceptLoop \notin Client /\ Client \subseteq Task /\ Acceptor \in Sched
BY TasksOfServer, SchedsOfServer

\* A step that gives the accept loop no result, or one with an accepted client, keeps AcceptInv.
LEMMA AcceptFrame ==
    ASSUME AcceptInv, accepted' = accepted \/ accepted' \in Client,
           op'[AcceptLoop] = op[AcceptLoop], st'[AcceptLoop] = st[AcceptLoop],
           cpc'[AcceptLoop] = cpc[AcceptLoop],
           \A s \in Sched : \A e \in ToSet(cq'[s]) :
              e \in ToSet(cq[s]) \/ e.task # AcceptLoop \/ e.res < 0 \/ accepted' \in Client,
           \A s \in Sched : \A e \in ToSet(cq'[s]) : e.res \in Int
    PROVE  AcceptInv'
<1>1. \A s \in Sched : \A e \in ToSet(cq'[s]) : e.task = AcceptLoop /\ e.res >= 0 => accepted' \in Client
  <2> SUFFICES ASSUME NEW s \in Sched, NEW e \in ToSet(cq'[s]), e.task = AcceptLoop, e.res >= 0
               PROVE  accepted' \in Client
    OBVIOUS
  <2>1. e.res \in Int
    OBVIOUS
  <2>2. ~ (e.res < 0)
    BY <2>1
  <2> QED
    BY <2>2 DEF AcceptInv
<1> QED
  BY <1>1 DEF AcceptInv

\* The fields of the completions.
LEMMA CqTypes ==
    ASSUME NEW CQ \in [Sched -> Seq(Cqe)]
    PROVE  \A s \in Sched : \A e \in ToSet(CQ[s]) : e \in Cqe /\ e.res \in Int /\ e.task \in Task
<1>1. /\ \A s \in Sched : DOMAIN CQ[s] = 1..Len(CQ[s])
      /\ \A s \in Sched : \A i \in 1..Len(CQ[s]) : CQ[s][i] \in Cqe
  BY QueueDomains, Element
<1>2. \A s \in Sched : \A e \in ToSet(CQ[s]) : e \in Cqe
  BY <1>1, SetOfSeq
<1> QED
  BY <1>2 DEF Cqe

\* The threads keep AcceptInv: they hand the accept loop what the kernel completed.
LEMMA LoopStepAccept ==
    ASSUME NEW s \in Sched, SchedInv, AcceptInv, LoopStep(s), UNCHANGED <<accepted, cpc>>
    PROVE  AcceptInv'
<1>0. TypeOK /\ TypeOK' /\ AcceptLoop \in Task
  BY LoopStepSched, TheTasks DEF SchedInv
<1>t. \A v \in Sched : \A e \in ToSet(cq'[v]) : e.res \in Int
  <2>1. cq' \in [Sched -> Seq(Cqe)]
    BY <1>0 DEF TypeOK
  <2> QED
    BY <2>1, CqTypes
<1>1. CASE Boot(s) \/ SwapReady(s) \/ Submit(s) \/ Exit(s) \/ ReapDone(s)
  <2>1. UNCHANGED <<cq, st, op>>
    BY <1>1 DEF Boot, SwapReady, Submit, Exit, ReapDone, ring, coro
  <2> QED
    BY <2>1 DEF AcceptInv
<1>2. CASE Drain(s)
  <2>1. UNCHANGED <<cq, op>>
    BY <1>2 DEF Drain, ring
  <2>2. posts[s] \in Seq(Task) /\ st \in [Task -> {"none", "posted", "created", "running", "waiting", "done", "destroyed"}]
    BY <1>0 DEF TypeOK
  <2>3. st[AcceptLoop] # "posted" => st'[AcceptLoop] = st[AcceptLoop]
    <3>1. AcceptLoop \in ToSet(posts[s]) => st[AcceptLoop] = "posted"
      BY <2>2 DEF SchedInv, PostsPosted, ToSet
    <3> QED
      BY <1>0, <1>2, <3>1 DEF Drain
  <2> QED
    BY <2>1, <2>3 DEF AcceptInv
<1>3. CASE Resume(s)
  <2>1. /\ batch \in [Sched -> Seq(Item)] /\ batch[s] # << >> /\ batch' = [batch EXCEPT ![s] = Tail(@)]
        /\ op \in [Task -> Op] /\ UNCHANGED cq
    BY <1>0, <1>3 DEF TypeOK, Resume, ring
  <2>2. Head(batch[s]) = batch[s][1] /\ 1 \in 1..Len(batch[s]) /\ batch[s][1] \in Item
    BY <2>1, Popped
  <2>3. batch[s][1].task \in Task
    BY <2>2 DEF Item
  <2>4. CASE batch[s][1].task = AcceptLoop
    <3>1. /\ st'[AcceptLoop] = "running" /\ op'[AcceptLoop].kind = op[AcceptLoop].kind
          /\ op'[AcceptLoop].completed = op[AcceptLoop].completed /\ op'[AcceptLoop].res = op[AcceptLoop].res
      BY <1>0, <1>3, <2>1, <2>2, <2>4, SMTT(30) DEF Resume, TypeOK, Op
    <3>2. Pending(AcceptLoop)
      BY <2>2, <2>4 DEF SchedInv, BatchPending
    <3> QED
      BY <2>1, <3>1, <3>2 DEF AcceptInv, Pending
  <2>5. CASE batch[s][1].task # AcceptLoop
    <3>1. st'[AcceptLoop] = st[AcceptLoop] /\ op'[AcceptLoop] = op[AcceptLoop]
      BY <1>0, <1>3, <2>1, <2>2, <2>3, <2>5 DEF Resume, TypeOK
    <3> QED
      BY <2>1, <3>1 DEF AcceptInv
  <2> QED
    BY <2>4, <2>5
<1>4. CASE Reap(s)
  <2> DEFINE c == cq[s][1]
  <2>1. /\ cq \in [Sched -> Seq(Cqe)] /\ cq[s] # << >> /\ cq' = [cq EXCEPT ![s] = Tail(@)]
        /\ op \in [Task -> Op] /\ UNCHANGED st
    BY <1>0, <1>4 DEF TypeOK, Reap
  <2>2. Head(cq[s]) = c /\ 1 \in 1..Len(cq[s]) /\ c \in Cqe
    BY <2>1, Popped
  <2>3. c \in ToSet(cq[s]) /\ c.task \in Task
    BY <2>1, <2>2, QueueDomains, SetOfSeq DEF Cqe
  <2>4. \A v \in Sched : \A x \in ToSet(cq'[v]) : x \in ToSet(cq[v])
    <3>1. Reaps(cq', cq, s)
      BY <2>1 DEF Reaps
    <3> QED
      BY <3>1, ReapedSet
  <2>5. CASE UNCHANGED op
    BY <1>t, <2>1, <2>4, <2>5, AcceptFrame
  <2>6. ASSUME NEW t \in Task, Completes(s, c, t) PROVE AcceptInv'
    <3>0. op' = [op EXCEPT ![t] = Ended(t, c)]
      BY <2>6 DEF Completes
    <3>1. CASE t = AcceptLoop
      <4>1. c.task = AcceptLoop
        BY <2>6, <3>1 DEF Completes, AcceptInv
      <4>2. op'[AcceptLoop].completed /\ op'[AcceptLoop].res = c.res /\ op'[AcceptLoop].kind = op[AcceptLoop].kind
        <5>1. /\ Ended(AcceptLoop, c).completed /\ Ended(AcceptLoop, c).res = c.res
              /\ Ended(AcceptLoop, c).kind = op[AcceptLoop].kind
          BY <1>0, <2>1, <2>2, EndedValue
        <5> QED
          BY <1>0, <2>1, <3>0, <3>1, <5>1
      <4>3. c.res >= 0 => accepted \in Client
        BY <2>3, <4>1 DEF AcceptInv
      <4> HIDE DEF c
      <4> QED
        BY <2>1, <2>4, <4>2, <4>3 DEF AcceptInv
    <3>2. CASE t # AcceptLoop
      <4>1. op'[AcceptLoop] = op[AcceptLoop]
        BY <1>0, <2>1, <3>0, <3>2
      <4> HIDE DEF c
      <4> QED
        BY <1>t, <2>1, <2>4, <4>1, AcceptFrame
    <3> QED
      BY <3>1, <3>2
  <2> QED
    BY <1>0, <1>4, <2>5, <2>6, ReapShape
<1> QED
  BY <1>1, <1>2, <1>3, <1>4 DEF LoopStep

\* What a step of connection c leaves alone.
LEMMA ConnOther ==
    ASSUME NEW s \in Sched, NEW c \in Client, TypeOK, DealType, ConnStep(s, c)
    PROVE  /\ \A t \in Task : t # c => op'[t] = op[t] /\ st'[t] = st[t] /\ cpc'[t] = cpc[t]
           /\ UNCHANGED <<cq, nextWorker, accepted, home>>
           /\ cpc' \in [Task -> {"loop", "io", "write", "send"}]
<1>0. c \in Task /\ cpc \in [Task -> {"loop", "io", "write", "send"}]
  BY TheTasks DEF DealType
<1>1. CASE ConnRequest(s, c) \/ ConnReceived(s, c) \/ ConnSent(s, c) \/ ConnKeepAlive(s, c)
  <2>1. UNCHANGED <<op, st, cq, nextWorker, accepted, home>>
    BY <1>1 DEF ConnRequest, ConnReceived, ConnSent, ConnKeepAlive, svars, ring, coro, deal
  <2>2. \E pc \in {"loop", "io", "write", "send"} : cpc' = [cpc EXCEPT ![c] = pc]
    BY <1>1 DEF ConnRequest, ConnReceived, ConnSent, ConnKeepAlive
  <2> QED
    BY <1>0, <2>1, <2>2
<1>2. CASE ConnRecv(s, c) \/ ConnSend(s, c) \/ ConnSubmitFails(s, c)
  <2>1. cur[s].task = c /\ UNCHANGED <<nextWorker, accepted, home>>
    BY <1>2 DEF ConnRecv, ConnSend, ConnSubmitFails, At, deal
  <2>2. \E kind \in {"plain", "timed"} : Await(s, kind) \/ AwaitThrows(s, kind)
    BY <1>2 DEF ConnRecv, ConnSend, ConnSubmitFails
  <2>3. \E pc \in {"loop", "io", "write", "send"} : cpc' = [cpc EXCEPT ![c] = pc]
    BY <1>2 DEF ConnRecv, ConnSend, ConnSubmitFails
  <2>4. UNCHANGED cq /\ \A t \in Task : t # c => op'[t] = op[t] /\ st'[t] = st[t]
    <3>1. ASSUME NEW kind \in {"plain", "timed"}, Await(s, kind)
          PROVE  UNCHANGED cq /\ \A t \in Task : t # c => op'[t] = op[t] /\ st'[t] = st[t]
      BY <2>1, <3>1, AwaitShape DEF Await
    <3>2. ASSUME NEW kind \in {"plain", "timed"}, AwaitThrows(s, kind)
          PROVE  UNCHANGED cq /\ \A t \in Task : t # c => op'[t] = op[t] /\ st'[t] = st[t]
      BY <2>1, <3>2, AwaitThrowsShape DEF AwaitThrows
    <3> QED
      BY <2>2, <3>1, <3>2
  <2> QED
    BY <1>0, <2>1, <2>3, <2>4
<1>3. CASE ConnStopped(s, c) \/ ConnEnd(s, c) \/ ConnError(s, c) \/ ConnClose(s, c)
  <2>1. cur[s].task = c /\ (Return(s, c) \/ Crash)
    BY <1>3 DEF ConnStopped, ConnEnd, ConnError, ConnClose, Rethrow, At, WriteAllOver
  <2>2. CASE Return(s, c)
    BY <1>0, <2>1, <2>2 DEF Return, Finish, TypeOK, ring, deal, session
  <2>3. CASE Crash
    BY <1>0, <2>3 DEF Crash, Die, coro, deal, session
  <2> QED
    BY <2>1, <2>2, <2>3
<1> QED
  BY <1>1, <1>2, <1>3 DEF ConnStep

\* A step of the kernel, for AcceptInv: nothing succeeds for the accept loop unasked.
LEMMA KernelAccept ==
    ASSUME NEW s \in Sched, NEW f, AcceptInv, TypeOK, Extends(cq', cq, s, f), UNCHANGED <<op, st, cpc>>,
           accepted' = accepted \/ accepted' \in Client,
           \A i \in 1..Len(f) : f[i].task # AcceptLoop \/ f[i].res < 0 \/ accepted' \in Client
    PROVE  AcceptInv'
<1>1. OnlyAdds(cq', cq, f)
  BY OnlyAddsExtended
<1>2. cq' \in [Sched -> Seq(Cqe)]
  BY Extended DEF Extends
<1>3. \A v \in Sched : \A e \in ToSet(cq'[v]) : e.res \in Int
  BY <1>2, CqTypes
<1>4. \A v \in Sched : \A e \in ToSet(cq'[v]) :
         e \in ToSet(cq[v]) \/ e.task # AcceptLoop \/ e.res < 0 \/ accepted' \in Client
  BY <1>1 DEF OnlyAdds
<1> QED
  BY <1>3, <1>4, AcceptFrame

\* A completed operation keeps AcceptInv ...
LEMMA IoDoneAccept ==
    ASSUME NEW s \in Sched, NEW r, NEW res \in Int, AcceptInv, TypeOK, IoDone(s, r, res), UNCHANGED cpc,
           accepted' = accepted \/ accepted' \in Client,
           r.task # AcceptLoop \/ res < 0 \/ accepted' \in Client
    PROVE  AcceptInv'
<1>1. UNCHANGED <<op, st>>
  BY DEF IoDone, coro
<1>2. PICK f : EndsWith(s, r, res, f)
  BY IoDoneShape
<1>3. Extends(cq', cq, s, f)
  BY <1>2 DEF EndsWith, Extends, TypeOK
<1>4. \A i \in 1..Len(f) : f[i].task # AcceptLoop \/ f[i].res < 0 \/ accepted' \in Client
  BY <1>2 DEF EndsWith, Completion, ECANCELED
<1> QED
  BY <1>1, <1>3, <1>4, KernelAccept

\* ... and so does a timer.
LEMMA TimerAccept ==
    ASSUME NEW s \in Sched, NEW r, AcceptInv, TypeOK, TimerFires(s, r) \/ TimerRejected(s, r),
           UNCHANGED <<cpc, accepted>>
    PROVE  AcceptInv'
<1>1. UNCHANGED <<op, st>>
  BY DEF TimerFires, TimerRejected, coro
<1>2. PICK f \in Seq(Cqe) : /\ cq' = [cq EXCEPT ![s] = @ \o f]
                            /\ \A i \in 1..Len(f) : f[i].task = r.task /\ f[i].res < 0
  BY TimerShape
<1>3. Extends(cq', cq, s, f)
  BY <1>2 DEF Extends, TypeOK
<1> QED
  BY <1>1, <1>2, <1>3, KernelAccept

\* The accept loop keeps AcceptInv: it takes its result before it awaits again.
LEMMA AcceptStepAccept ==
    ASSUME DealInv, AcceptStep
    PROVE  AcceptInv'
<1>0. /\ SchedInv /\ TypeOK /\ AcceptInv /\ AcceptLoop \in Task /\ Acceptor \in Sched
      /\ cpc \in [Task -> {"loop", "io", "write", "send"}]
  BY TheTasks DEF DealInv, SchedInv, DealType
<1>1. CASE AcceptAwait
  <2>1. /\ Await(Acceptor, "plain") /\ cur[Acceptor].task = AcceptLoop /\ UNCHANGED <<accepted, cq>>
    BY <1>1 DEF AcceptAwait, Accepting, deal, Await
  <2>2. op'[AcceptLoop] = NewOp(AcceptLoop, "plain", Acceptor) /\ op[AcceptLoop] \in Op
    BY <1>0, <2>1, AwaitShape DEF TypeOK
  <2>3. ~ op'[AcceptLoop].completed /\ op'[AcceptLoop].kind = "plain"
    BY <1>0, <2>2, NewOpValue
  <2>4. st'[AcceptLoop] = "waiting"
    BY <1>0, <2>1 DEF Await, TypeOK
  <2> QED
    BY <1>0, <2>1, <2>3, <2>4 DEF AcceptInv
<1>2. CASE AcceptDeal \/ AcceptError
  <2>1. cpc'[AcceptLoop] = "loop" /\ UNCHANGED <<accepted, cq, op>>
    BY <1>0, <1>2 DEF AcceptDeal, AcceptError, Post, svars, ring, coro, deal
  <2> QED
    BY <1>0, <2>1 DEF AcceptInv
<1>3. CASE AcceptExit
  <2>1. Finish(Acceptor) /\ cur[Acceptor].task = AcceptLoop /\ UNCHANGED <<accepted, cq, op, cpc>>
    BY <1>3 DEF AcceptExit, Accepting, Finish, ring, deal, session
  <2>2. st'[AcceptLoop] \in {"done", "destroyed"}
    BY <1>0, <2>1 DEF Finish, TypeOK
  <2> QED
    BY <1>0, <2>1, <2>2 DEF AcceptInv
<1> QED
  BY <1>1, <1>2, <1>3 DEF AcceptStep

\* AcceptInv is inductive relative to DealInv.
LEMMA NextAccept ==
    ASSUME DealInv, HNext
    PROVE  AcceptInv'
<1>0. /\ SchedInv /\ TypeOK /\ DealType /\ AcceptInv /\ AcceptLoop \in Task /\ Acceptor \in Sched
      /\ AcceptLoop \notin Client
  BY TheTasks DEF DealInv, SchedInv
<1>1. CASE \/ StartThreads \/ StopServer \/ StopScheduler \/ Joined
           \/ \E c \in Client : Connect(c) \/ ClientSends(c) \/ ClientCloses(c)
  <2>1. UNCHANGED <<cq, st, op, cpc, accepted>>
    BY <1>1 DEF StartThreads, StopServer, StopScheduler, Joined, Connect, ClientSends, ClientCloses,
                Stop, svars, ring, coro, deal, session
  <2> QED
    BY <1>0, <2>1 DEF AcceptInv
<1>2. CASE StartAcceptLoop
  <2>1. UNCHANGED <<cq, op, cpc, accepted>> /\ st[AcceptLoop] = "none"
    BY <1>2 DEF StartAcceptLoop, Start, ring, deal, session
  <2> QED
    BY <1>0, <2>1 DEF AcceptInv
<1>3. ASSUME NEW s \in Sched, Thread(s) PROVE AcceptInv'
  BY <1>0, <1>3, LoopStepAccept DEF Thread, deal, session
<1>4. ASSUME NEW s \in Sched, WorkerTask(s) PROVE AcceptInv'
  <2>1. PICK c \in Client : ConnStep(s, c)
    BY <1>4 DEF WorkerTask
  <2>2. /\ op'[AcceptLoop] = op[AcceptLoop] /\ st'[AcceptLoop] = st[AcceptLoop]
        /\ cpc'[AcceptLoop] = cpc[AcceptLoop] /\ UNCHANGED <<cq, accepted>>
    BY <1>0, <2>1, ConnOther
  <2> QED
    BY <1>0, <2>2 DEF AcceptInv
<1>5. ASSUME NEW s \in Sched, Timer(s) \/ BadTimespec(s) PROVE AcceptInv'
  BY <1>0, <1>5, TimerAccept DEF Timer, BadTimespec, deal, session
<1>6. ASSUME NEW s \in Sched, DanglingCompletion(s) PROVE AcceptInv'
  <2>1. UNCHANGED <<cq, st, op, cpc, accepted>>
    BY <1>6 DEF DanglingCompletion, ReapDangling, Die, coro, deal, session
  <2> QED
    BY <1>0, <2>1 DEF AcceptInv
<1>7. ASSUME NEW s \in Sched, SocketStep(s) PROVE AcceptInv'
  <2>0. 0 \in Int /\ EIO \in Int /\ \A a : \A k \in 1..a : k \in Int
    BY DEF EIO
  <2>1. PICK r \in flight[s] : r.task \in Client /\ (RecvDone(s, r.task, r) \/ SendDone(s, r.task, r))
    BY <1>7 DEF SocketStep
  <2>2. PICK res \in Int : IoDone(s, r, res)
    BY <2>0, <2>1 DEF RecvDone, SendDone
  <2>3. UNCHANGED <<cpc, accepted>>
    BY <2>1 DEF RecvDone, SendDone, deal, session
  <2> QED
    BY <1>0, <2>1, <2>2, <2>3, IoDoneAccept
<1>8. ASSUME NEW c \in Client, AcceptDone(c) PROVE AcceptInv'
  <2>1. PICK r : IoDone(Acceptor, r, 1)
    BY <1>8 DEF AcceptDone
  <2>2. accepted' \in Client /\ UNCHANGED cpc /\ 1 \in Int
    BY <1>8 DEF AcceptDone, session
  <2> QED
    BY <1>0, <2>1, <2>2, IoDoneAccept
<1>9. CASE AcceptFails
  <2>1. PICK r : IoDone(Acceptor, r, EIO)
    BY <1>9 DEF AcceptFails
  <2>2. UNCHANGED <<cpc, accepted>> /\ EIO \in Int /\ EIO < 0
    BY <1>9 DEF AcceptFails, session, deal, EIO
  <2> QED
    BY <1>0, <2>1, <2>2, IoDoneAccept
<1> QED
  BY <1>1, <1>2, <1>3, <1>4, <1>5, <1>6, <1>7, <1>8, <1>9, AcceptStepAccept DEF HNext, Main

\* The accept loop has a client in hand when it deals.
LEMMA AcceptedIsClient ==
    ASSUME DealInv, AcceptDeal
    PROVE  /\ accepted \in Client /\ st[accepted] = "none" /\ home[accepted] = NoTask
           /\ PickWorker(nextWorker) \in ToSet(Worker) /\ PickWorker(nextWorker) \in Sched
<1>0. /\ cur[Acceptor].task = AcceptLoop /\ cpc[AcceptLoop] = "io" /\ op[AcceptLoop].res >= 0
      /\ st[accepted] = "none"
  BY DEF AcceptDeal, Accepting, Post
<1>1. st[AcceptLoop] = "running"
  BY <1>0, TheTasks, NoTaskIsNoTask DEF DealInv, SchedInv, CurRuns
<1>2. accepted \in Client
  BY <1>0, <1>1 DEF DealInv, AcceptInv
<1>3. PickWorker(nextWorker) \in ToSet(Worker)
  <2>1. nextWorker \in Nat /\ Len(Worker) \in Nat \ {0} /\ DOMAIN Worker = 1..Len(Worker)
    BY WorkersOfServer DEF DealInv, DealType
  <2>2. PICK m \in 0..(Len(Worker) - 1) : m = nextWorker % Len(Worker)
    BY <2>1
  <2>3. m + 1 \in 1..Len(Worker)
    BY <2>1
  <2> QED
    BY <2>1, <2>2, <2>3, SetOfSeq DEF PickWorker
<1> QED
  BY <1>0, <1>2, <1>3, SchedsOfServer DEF DealInv, NotDealt

\* Only the accept loop deals.
LEMMA DealFrame ==
    ASSUME DealInv, HNext
    PROVE  /\ AcceptDeal \/ UNCHANGED <<nextWorker, home>>
           /\ accepted' = accepted \/ accepted' \in Client
           /\ cpc' \in [Task -> {"loop", "io", "write", "send"}]
<1>0. cpc \in [Task -> {"loop", "io", "write", "send"}] /\ TypeOK /\ DealType
  BY DEF DealInv, DealType, SchedInv
<1>1. CASE Main \/ StopServer \/ AcceptFails
  BY <1>0, <1>1 DEF Main, StartThreads, StartAcceptLoop, StopServer, StopScheduler, Joined,
                    AcceptFails, deal, session
<1>2. CASE AcceptStep
  BY <1>0, <1>2 DEF AcceptStep, AcceptAwait, AcceptDeal, AcceptError, AcceptExit, deal, session
<1>3. ASSUME NEW s \in Sched, WorkerTask(s)
      PROVE  /\ UNCHANGED <<nextWorker, home, accepted>>
             /\ cpc' \in [Task -> {"loop", "io", "write", "send"}]
  BY <1>0, <1>3, ConnOther DEF WorkerTask
<1>4. ASSUME NEW s \in Sched, Thread(s) \/ SocketStep(s) \/ Timer(s) \/ BadTimespec(s) \/ DanglingCompletion(s)
      PROVE  UNCHANGED <<nextWorker, home, accepted, cpc>>
  BY <1>4 DEF Thread, SocketStep, RecvDone, SendDone, Timer, BadTimespec, DanglingCompletion, deal, session
<1>5. ASSUME NEW c \in Client, Connect(c) \/ ClientSends(c) \/ ClientCloses(c)
      PROVE  UNCHANGED <<nextWorker, home, accepted, cpc>>
  BY <1>5 DEF Connect, ClientSends, ClientCloses, deal, session
<1>6. ASSUME NEW c \in Client, AcceptDone(c)
      PROVE  UNCHANGED <<nextWorker, home, cpc>> /\ accepted' \in Client
  BY <1>6 DEF AcceptDone, session
<1> QED
  BY <1>0, <1>1, <1>2, <1>3, <1>4, <1>5, <1>6 DEF HNext

\* DealInv is inductive.
LEMMA NextDeal == DealInv /\ [HNext]_hvars => DealInv'
<1> SUFFICES ASSUME DealInv, [HNext]_hvars PROVE DealInv'
  OBVIOUS
<1>0. SchedInv /\ TypeOK /\ DealType /\ Client \subseteq Task
  BY TheTasks DEF DealInv, SchedInv
<1>1. CASE UNCHANGED hvars
  <2>1. UNCHANGED svars /\ UNCHANGED <<nextWorker, accepted, home, cpc, cq, st, op>>
    BY <1>1 DEF hvars, deal, session, svars, ring, coro
  <2>2. SchedInv'
    BY <1>0, <2>1, NextSched
  <2>3. Stays
    BY <2>1, FrameStays DEF svars, ring, coro
  <2>4. AtHome'
    BY <1>0, <2>1, <2>3 DEF DealInv, AtHome, Stays
  <2> QED
    BY <2>1, <2>2, <2>4 DEF DealInv, DealType, AcceptInv, NotDealt
<1>2. CASE HNext
  <2>1. /\ AcceptDeal \/ UNCHANGED <<nextWorker, home>>
        /\ accepted' = accepted \/ accepted' \in Client
        /\ cpc' \in [Task -> {"loop", "io", "write", "send"}]
    BY <1>2, DealFrame
  <2>2. AcceptInv'
    BY <1>2, NextAccept
  <2>3. CASE AcceptDeal
    <3> DEFINE w == PickWorker(nextWorker)
    <3>1. accepted \in Client /\ home[accepted] = NoTask /\ w \in ToSet(Worker) /\ w \in Sched
      BY <2>3, AcceptedIsClient
    <3>2. Post(w, accepted) /\ nextWorker' = nextWorker + 1 /\ home' = [home EXCEPT ![accepted] = w]
      BY <2>3 DEF AcceptDeal
    <3> HIDE DEF w
    <3>3. SchedInv'
      BY <1>0, <3>1, <3>2, PostSched
    <3>4. /\ \A v \in Sched, u \in Task : Here(v, u)' => Here(v, u) \/ (v = w /\ u = accepted)
          /\ \A u \in Task : u # accepted => st'[u] = st[u]
          /\ st[accepted] = "none" /\ st'[accepted] # "none"
      BY <1>0, <3>1, <3>2, PostComes
    <3>5. home \in [Client -> ToSet(Worker) \cup {NoTask}]
      BY <1>0 DEF DealType
    <3>6. /\ home' \in [Client -> ToSet(Worker) \cup {NoTask}] /\ home'[accepted] = w
          /\ \A c \in Client : c # accepted => home'[c] = home[c]
      BY <3>1, <3>2, <3>5
    <3>7. DealType'
      BY <1>0, <2>1, <3>2, <3>6 DEF DealType
    <3>8. NotDealt'
      BY <1>0, <3>4, <3>6 DEF DealInv, NotDealt
    <3>9. AtHome'
      <4> SUFFICES ASSUME NEW v \in Sched, NEW c \in Client, Here(v, c)'
                   PROVE  home'[c] = v /\ st'[c] # "none"
        BY DEF AtHome
      <4>1. CASE Here(v, c)
        <5>1. home[c] = v /\ st[c] # "none"
          BY <4>1 DEF DealInv, AtHome
        <5> QED
          BY <1>0, <3>4, <3>6, <5>1
      <4>2. CASE v = w /\ c = accepted
        BY <3>4, <3>6, <4>2
      <4> QED
        BY <1>0, <3>4, <4>1, <4>2
    <3> QED
      BY <2>2, <3>3, <3>7, <3>8, <3>9 DEF DealInv
  <2>4. CASE StartAcceptLoop /\ UNCHANGED <<nextWorker, home>>
    <3>1. Start(Acceptor, AcceptLoop) /\ AcceptLoop \in Task /\ Acceptor \in Sched /\ AcceptLoop \notin Client
      BY <2>4, TheTasks DEF StartAcceptLoop
    <3>2. SchedInv'
      BY <1>0, <3>1, StartSched
    <3>3. /\ \A v \in Sched, u \in Task : Here(v, u)' => Here(v, u) \/ (v = Acceptor /\ u = AcceptLoop)
          /\ \A u \in Task : u # AcceptLoop => st'[u] = st[u]
      BY <1>0, <3>1, PostComes
    <3>4. DealType'
      BY <1>0, <2>1, <2>4 DEF DealType
    <3>5. NotDealt'
      BY <1>0, <2>4, <3>1, <3>3 DEF DealInv, NotDealt
    <3>6. AtHome'
      <4> SUFFICES ASSUME NEW v \in Sched, NEW c \in Client, Here(v, c)'
                   PROVE  home'[c] = v /\ st'[c] # "none"
        BY DEF AtHome
      <4>1. Here(v, c) /\ st'[c] = st[c]
        BY <1>0, <3>1, <3>3
      <4> QED
        BY <2>4, <4>1 DEF DealInv, AtHome
    <3> QED
      BY <2>2, <3>2, <3>4, <3>5, <3>6 DEF DealInv
  <2>5. CASE CoreStep /\ UNCHANGED <<nextWorker, home>>
    <3>1. SchedInv' /\ Stays
      BY <1>0, <2>5, CoreSched, CoreStays
    <3>2. DealType'
      BY <1>0, <2>1, <2>5 DEF DealType
    <3>3. NotDealt'
      BY <1>0, <2>5, <3>1, TheTasks DEF DealInv, NotDealt, Stays
    <3>4. AtHome'
      BY <1>0, <2>5, <3>1 DEF DealInv, AtHome, Stays
    <3> QED
      BY <2>2, <3>1, <3>2, <3>3, <3>4 DEF DealInv
  <2> QED
    BY <1>2, <2>1, <2>3, <2>4, <2>5, NextIsCore DEF CoreStep, Thread
<1> QED
  BY <1>1, <1>2

\* DealInv holds initially.
LEMMA InitDeal == HInit => DealInv
<1> SUFFICES ASSUME HInit PROVE DealInv
  OBVIOUS
<1> USE DEF HInit
<1>1. SchedInv
  BY InitSched
<1>2. DealType
  BY DEF DealType
<1>3. NotDealt
  BY DEF NotDealt
<1>4. \A s \in Sched : /\ 1..Len(posts[s]) = {} /\ 1..Len(ready[s]) = {} /\ 1..Len(batch[s]) = {}
                       /\ 1..Len(cq[s]) = {} /\ flight[s] = {} /\ cur[s].task = NoTask
                       /\ ToSet(sq[s]) = {} /\ ToSet(cq[s]) = {}
  BY DEF Init, ToSet, Idle
<1>5. AtHome
  <2>1. \A c \in Client : ~ op[c].live
    BY TheTasks DEF Init, NoOp
  <2> QED
    BY <1>4, <2>1, TheTasks, NoTaskIsNoTask DEF AtHome, Here, InPosts, InQueue, InRing, Held, AwaitsAt
<1>6. AcceptInv
  <2>1. ~ op[AcceptLoop].completed /\ cpc[AcceptLoop] = "loop" /\ op[AcceptLoop].kind = "plain"
    BY TheTasks DEF Init, NoOp
  <2> QED
    BY <1>4, <2>1 DEF AcceptInv
<1> QED
  BY <1>1, <1>2, <1>3, <1>5, <1>6 DEF DealInv

\* Who is on a schedule is running, in the batch or ready.
LEMMA ScheduleTasks ==
    ASSUME SchedInv, NEW s \in Sched, NEW c \in Task, \E i \in ToSet(Schedule(s)) : i.task = c
    PROVE  InQueue(ready, s, c) \/ InQueue(batch, s, c) \/ cur[s].task = c
<1>1. PICK i \in DOMAIN Schedule(s) : Schedule(s)[i].task = c
  BY DEF ToSet
<1>2. PICK k \in {0, 1} :
              /\ k = 0 => cur[s].task = NoTask
              /\ k = 1 => cur[s].task # NoTask
              /\ \A j \in DOMAIN Schedule(s) :
                    \/ j = 1 /\ k = 1 /\ Schedule(s)[j] = cur[s]
                    \/ j - k \in 1..Len(batch[s]) /\ Schedule(s)[j] = batch[s][j - k]
                    \/ /\ j - (k + Len(batch[s])) \in 1..Len(ready[s])
                       /\ Schedule(s)[j] = ready[s][j - (k + Len(batch[s]))]
  BY ScheduleShape
<1>3. CASE Schedule(s)[i] = cur[s]
  BY <1>1, <1>3
<1>4. CASE i - k \in 1..Len(batch[s]) /\ Schedule(s)[i] = batch[s][i - k]
  BY <1>1, <1>4 DEF InQueue
<1>5. CASE /\ i - (k + Len(batch[s])) \in 1..Len(ready[s])
           /\ Schedule(s)[i] = ready[s][i - (k + Len(batch[s]))]
  BY <1>1, <1>5 DEF InQueue
<1> QED
  BY <1>2, <1>3, <1>4, <1>5

\* The invariant implies Confined.
LEMMA ConfinedHolds == DealInv => Confined
<1> SUFFICES ASSUME DealInv, NEW s \in Sched, NEW c \in Client,
                    \/ c \in ToSet(posts[s])
                    \/ \E i \in ToSet(Schedule(s)) : i.task = c
                    \/ \E r \in ToSet(sq[s]) \cup flight[s] \cup ToSet(cq[s]) : r.task = c
             PROVE  home[c] = s
  BY DEF Confined
<1>0. /\ posts \in [Sched -> Seq(Task)] /\ ready \in [Sched -> Seq(Item)] /\ batch \in [Sched -> Seq(Item)]
      /\ cq \in [Sched -> Seq(Cqe)] /\ TypeOK
  BY DEF DealInv, SchedInv, TypeOK
<1>1. CASE c \in ToSet(posts[s])
  <2>1. InPosts(s, c)
    BY <1>0, <1>1, QueueDomains, SetOfSeq DEF InPosts
  <2> QED
    BY <2>1 DEF Here, DealInv, AtHome
<1>2. CASE \E i \in ToSet(Schedule(s)) : i.task = c
  <2>1. InQueue(ready, s, c) \/ InQueue(batch, s, c) \/ cur[s].task = c
    BY <1>0, <1>2, ScheduleTasks, TheTasks DEF DealInv
  <2> QED
    BY <2>1 DEF Here, DealInv, AtHome
<1>3. CASE \E r \in ToSet(sq[s]) \cup flight[s] : r.task = c
  <2>1. InRing(s, c)
    BY <1>3 DEF InRing, Held
  <2> QED
    BY <2>1 DEF Here, DealInv, AtHome
<1>4. CASE \E r \in ToSet(cq[s]) : r.task = c
  <2>0. DOMAIN cq[s] = 1..Len(cq[s])
    BY <1>0, QueueDomains
  <2>1. InQueue(cq, s, c)
    BY <1>4, <2>0 DEF InQueue, ToSet
  <2> QED
    BY <2>1 DEF Here, DealInv, AtHome
<1> QED
  BY <1>1, <1>2, <1>3, <1>4

\* For any number of workers and clients: the coroutine of a connection, its requests and its completions are
\* only ever on the scheduler its socket was posted to by accept_loop, so that its frame, its buffers and its
\* operations are used by one thread and need no lock.
THEOREM ServerConfinesConnections == HSpec => []Confined
<1>1. HInit => DealInv
  BY InitDeal
<1>2. DealInv /\ [HNext]_hvars => DealInv'
  BY NextDeal
<1>3. DealInv => Confined
  BY ConfinedHolds
<1> QED
  BY <1>1, <1>2, <1>3, PTL DEF HSpec

-----------------------------------------------------------------------------
(* Dealing in turn                                                         *)

\* Worker w has been dealt n clients.
Load(h, w, n) ==
    /\ IsFiniteSet({c \in Client : h[c] = w})
    /\ Cardinality({c \in Client : h[c] = w}) = n

\* After q whole rounds the first k workers have had their turn once more.
Loads(h, k, q) == \A j \in 1..Len(Worker) : Load(h, Worker[j], IF j <= k THEN q + 1 ELSE q)

\* The inductive invariant behind DealtInTurn: who has had a turn follows from next_worker_.
LoadInv == DealInv /\ \E q \in Nat : Loads(home, nextWorker % Len(Worker), q)

\* Division with remainder ...
LEMMA Division ==
    ASSUME NEW K \in Nat \ {0}, NEW m \in Nat
    PROVE  m = K * (m \div K) + (m % K) /\ m \div K \in Nat /\ m % K \in 0..(K - 1)
OBVIOUS

\* ... is unique.
LEMMA DivisionUnique ==
    ASSUME NEW K \in Nat \ {0}, NEW a \in Nat, NEW b \in 0..(K - 1)
    PROVE  (K * a + b) % K = b /\ (K * a + b) \div K = a
OBVIOUS

\* Counting on by one round the workers.
LEMMA NextTurn ==
    ASSUME NEW n \in Nat, NEW K \in Nat \ {0}
    PROVE  (n + 1) % K = IF n % K = K - 1 THEN 0 ELSE (n % K) + 1
<1>1. PICK q \in Nat : q = n \div K
  BY Division
<1>2. PICK m \in 0..(K - 1) : m = n % K
  BY Division
<1>3. n = K * q + m
  BY <1>1, <1>2, Division
<1>4. CASE m = K - 1
  <2>1. n + 1 = K * (q + 1) + 0
    BY <1>3, <1>4
  <2>2. PICK k \in Nat : k = q + 1
    OBVIOUS
  <2>3. (K * k + 0) % K = 0
    BY DivisionUnique
  <2> QED
    BY <1>2, <1>4, <2>1, <2>2, <2>3
<1>5. CASE m < K - 1
  <2>1. n + 1 = K * q + (m + 1)
    BY <1>3
  <2>2. PICK k \in 0..(K - 1) : k = m + 1
    BY <1>5
  <2>3. (K * q + k) % K = k
    BY <2>2, DivisionUnique
  <2> QED
    BY <1>2, <1>5, <2>1, <2>2, <2>3
<1> QED
  BY <1>4, <1>5

\* Dealing one more client to w.
LEMMA LoadAdded ==
    ASSUME NEW h \in [Client -> ToSet(Worker) \cup {NoTask}], NEW a \in Client, h[a] = NoTask,
           NEW w \in ToSet(Worker), NEW v \in ToSet(Worker), NEW n \in Nat, Load(h, v, n), w # NoTask,
           v # NoTask
    PROVE  Load([h EXCEPT ![a] = w], v, IF v = w THEN n + 1 ELSE n)
<1> DEFINE g == [h EXCEPT ![a] = w]
           H == {c \in Client : h[c] = v}
           G == {c \in Client : g[c] = v}
<1>0. IsFiniteSet(H) /\ Cardinality(H) = n
  BY DEF Load
<1>1. g[a] = w /\ \A c \in Client : c # a => g[c] = h[c]
  OBVIOUS
<1> HIDE DEF g
<1>2. CASE v = w
  <2>1. G = H \cup {a} /\ a \notin H
    BY <1>1, <1>2
  <2>2. IsFiniteSet(G) /\ Cardinality(G) = n + 1
    <3> HIDE DEF G, H
    <3>1. /\ IsFiniteSet(H \cup {a})
          /\ Cardinality(H \cup {a}) = IF a \in H THEN Cardinality(H) ELSE Cardinality(H) + 1
      BY <1>0, FS_AddElement
    <3> QED
      BY <1>0, <2>1, <3>1
  <2> QED
    BY <1>2, <2>2 DEF Load, g
<1>3. CASE v # w
  <2>1. G = H
    BY <1>1, <1>3
  <2> QED
    BY <1>0, <1>3, <2>1 DEF Load, g
<1> QED
  BY <1>2, <1>3

\* LoadInv is inductive.
LEMMA NextLoad == LoadInv /\ [HNext]_hvars => LoadInv'
<1> SUFFICES ASSUME LoadInv, [HNext]_hvars PROVE LoadInv'
  OBVIOUS
<1>1. DealInv /\ DealInv'
  BY NextDeal DEF LoadInv
<1>2. PICK K \in Nat \ {0} : K = Len(Worker)
  BY WorkersOfServer
<1>3. AcceptDeal \/ UNCHANGED <<nextWorker, home>>
  <2>1. CASE UNCHANGED hvars
    BY <2>1 DEF hvars, deal
  <2> QED
    BY <1>1, <2>1, DealFrame
<1>4. CASE UNCHANGED <<nextWorker, home>>
  BY <1>1, <1>4 DEF LoadInv
<1>5. CASE AcceptDeal
  <2>0. /\ nextWorker \in Nat /\ home \in [Client -> ToSet(Worker) \cup {NoTask}]
        /\ nextWorker' = nextWorker + 1 /\ home' = [home EXCEPT ![accepted] = PickWorker(nextWorker)]
    BY <1>1, <1>5 DEF DealInv, DealType, AcceptDeal
  <2>1. PICK m \in 0..(K - 1) : m = nextWorker % K
    BY <2>0, Division
  <2>2. accepted \in Client /\ home[accepted] = NoTask
    BY <1>1, <1>5, AcceptedIsClient
  <2>3. /\ PickWorker(nextWorker) = Worker[m + 1] /\ m + 1 \in 1..K
        /\ \A j \in 1..K : Worker[j] \in ToSet(Worker) /\ Worker[j] # NoTask
        /\ \A i, j \in 1..K : Worker[i] = Worker[j] => i = j
    <3>1. DOMAIN Worker = 1..K
      BY <1>2, WorkersOfServer
    <3>2. \A j \in 1..K : Worker[j] \in ToSet(Worker)
      BY <3>1 DEF ToSet
    <3> QED
      BY <1>2, <2>1, <3>1, <3>2, WorkersOfServer, SchedsOfServer DEF IsInjective, PickWorker
  <2>4. PICK q \in Nat : Loads(home, m, q)
    BY <1>2, <2>1 DEF LoadInv
  <2>5. \A j \in 1..K : Load(home', Worker[j], IF j <= m + 1 THEN q + 1 ELSE q)
    <3> SUFFICES ASSUME NEW j \in 1..K PROVE Load(home', Worker[j], IF j <= m + 1 THEN q + 1 ELSE q)
      OBVIOUS
    <3>1. PICK n \in Nat : n = IF j <= m THEN q + 1 ELSE q
      OBVIOUS
    <3>2. Load(home, Worker[j], n)
      BY <1>2, <2>4, <3>1 DEF Loads
    <3>3. Load(home', Worker[j], IF Worker[j] = Worker[m + 1] THEN n + 1 ELSE n)
      BY <2>0, <2>2, <2>3, <3>2, LoadAdded
    <3>4. (IF Worker[j] = Worker[m + 1] THEN n + 1 ELSE n) = (IF j <= m + 1 THEN q + 1 ELSE q)
      BY <2>3, <3>1
    <3> QED
      BY <3>3, <3>4
  <2>6. nextWorker' % K = IF m = K - 1 THEN 0 ELSE m + 1
    BY <2>0, <2>1, NextTurn
  <2>7. CASE m = K - 1
    <3>1. PICK p \in Nat : p = q + 1
      OBVIOUS
    <3>2. \A j \in 1..K : (IF j <= m + 1 THEN q + 1 ELSE q) = (IF j <= 0 THEN p + 1 ELSE p)
      BY <2>7, <3>1
    <3>3. \A j \in 1..K : Load(home', Worker[j], IF j <= 0 THEN p + 1 ELSE p)
      BY <2>5, <3>2
    <3>4. Loads(home', 0, p)
      BY <1>2, <3>3 DEF Loads
    <3> QED
      BY <1>1, <1>2, <2>6, <2>7, <3>4 DEF LoadInv
  <2>8. CASE m # K - 1
    <3>1. Loads(home', m + 1, q)
      BY <1>2, <2>5 DEF Loads
    <3> QED
      BY <1>1, <1>2, <2>6, <2>8, <3>1 DEF LoadInv
  <2> QED
    BY <2>7, <2>8
<1> QED
  BY <1>3, <1>4, <1>5

\* LoadInv holds initially.
LEMMA InitLoad == HInit => LoadInv
<1> SUFFICES ASSUME HInit PROVE LoadInv
  OBVIOUS
<1>1. DealInv /\ nextWorker = 0 /\ home = [c \in Client |-> NoTask]
  BY InitDeal DEF HInit
<1>2. PICK K \in Nat \ {0} : K = Len(Worker)
  BY WorkersOfServer
<1>3. \A j \in 1..K : Load(home, Worker[j], 0)
  <2> SUFFICES ASSUME NEW j \in 1..K PROVE Load(home, Worker[j], 0)
    OBVIOUS
  <2>1. Worker[j] \in Sched
    BY <1>2, WorkersOfServer
  <2>2. {c \in Client : home[c] = Worker[j]} = {}
    BY <1>1, <2>1, SchedsOfServer
  <2> QED
    BY <2>2, FS_EmptySet DEF Load
<1>4. \A j \in 1..K : (IF j <= 0 THEN 0 + 1 ELSE 0) = 0
  OBVIOUS
<1>5. Loads(home, 0, 0)
  BY <1>2, <1>3, <1>4 DEF Loads
<1>6. 0 % K = 0
  OBVIOUS
<1> QED
  BY <1>1, <1>2, <1>5, <1>6 DEF LoadInv

\* The invariant implies DealtInTurn.
LEMMA DealtInTurnHolds == LoadInv => DealtInTurn
<1> SUFFICES ASSUME LoadInv, NEW v \in ToSet(Worker), NEW w \in ToSet(Worker)
             PROVE  Cardinality({c \in Client : home[c] = v}) <= Cardinality({c \in Client : home[c] = w}) + 1
  BY DEF DealtInTurn
<1>1. PICK K \in Nat \ {0} : K = Len(Worker)
  BY WorkersOfServer
<1>2. PICK i \in 1..K, j \in 1..K : v = Worker[i] /\ w = Worker[j]
  BY <1>1, WorkersOfServer DEF ToSet
<1>3. PICK q \in Nat : Loads(home, nextWorker % K, q)
  BY <1>1 DEF LoadInv
<1>4. PICK m \in Nat : m = nextWorker % K
  <2>1. nextWorker \in Nat
    BY DEF LoadInv, DealInv, DealType
  <2> QED
    BY <2>1, Division
<1>5. /\ Cardinality({c \in Client : home[c] = v}) = IF i <= m THEN q + 1 ELSE q
      /\ Cardinality({c \in Client : home[c] = w}) = IF j <= m THEN q + 1 ELSE q
  BY <1>1, <1>2, <1>3, <1>4 DEF Loads, Load
<1> QED
  BY <1>5

\* For any number of workers and clients, pick_worker spreads the connections evenly: the numbers dealt to
\* any two workers never differ by more than one.
THEOREM ServerDealsInTurn == HSpec => []DealtInTurn
<1>1. HInit => LoadInv
  BY InitLoad
<1>2. LoadInv /\ [HNext]_hvars => LoadInv'
  BY NextLoad
<1>3. LoadInv => DealtInTurn
  BY DealtInTurnHolds
<1> QED
  BY <1>1, <1>2, <1>3, PTL DEF HSpec

-----------------------------------------------------------------------------
(* The session of a client: what is under way for it, and what it amounts to *)

\* The number of the present operation of each connection.
Now == [c \in Client |-> op[c].n]

\* The receives and sends of connections, and the completions of those that moved bytes ...
AnyIo    == {r \in Req : r.task \in Client /\ r.kind = "io"}
AnyMoved == {e \in Cqe : e.task \in Client /\ e.res > 0}
\* ... and those of the operations with the numbers N.
ClientIo(N) == {r \in AnyIo : r.n = N[r.task]}
Moved(N)    == {e \in AnyMoved : e.n = N[e.task]}

\* The present receive or send of c is queued or in flight.
Awaits(c) == \E v \in Sched : \E r \in Held(sq, flight, v) : r.task = c /\ r.kind = "io" /\ r.n = op[c].n

\* It has moved k pieces, and its completion is still to be reaped, or in the operation.
Gives(c, k) ==
    (\E v \in Sched : \E e \in ToSet(cq[v]) : e.task = c /\ e.n = op[c].n /\ e.res = k) \/ op[c].res = k

\* Neither of operation n of c, in the given queues.
Quiet(c, n, SQ, FL, CQ) ==
    /\ \A v \in Sched : \A r \in Held(SQ, FL, v) : r.task = c /\ r.n = n => r.kind # "io"
    /\ \A v \in Sched : \A e \in ToSet(CQ[v]) : e.task = c /\ e.n = n => ~ (e.res > 0)

\* The connection has been given bytes of another one, and its present operation is a receive.
Misled(c) == op[c].foreign /\ op[c].kind = "timed"

\* What is under way for a connection is of its present operation, or of a receive it has left behind when it
\* was given the bytes of another connection.
Current(x) == x.n <= op[x.task].n /\ (x.n = op[x.task].n \/ op[x.task].foreign)
Latest ==
    /\ \A v \in Sched : \A r \in Held(sq, flight, v) : r.task \in Client /\ r.kind = "io" => Current(r)
    /\ \A v \in Sched : \A e \in ToSet(cq[v]) : e.task \in Client /\ e.res > 0 => Current(e)

\* A connection that is not at an await, or has a result, has nothing of it under way.
Settled ==
    \A c \in Client : cpc[c] \in {"loop", "write"} \/ op[c].res > 0 =>
        Misled(c) \/ Quiet(c, op[c].n, sq, flight, cq)

\* What the rings hold of the connections.
RingInv == Unique(ClientIo(Now), Moved(Now), sq, flight, cq) /\ Latest /\ Settled

\* The receives of handle_connection are timed and the sends of write_all are not.
KindOk(c) == /\ cpc[c] = "io" => op[c].kind = "timed"
             /\ cpc[c] = "send" => op[c].kind = "plain"

\* What has been taken out of a socket, and what of it has been read by the connection.
In(c)    == total[c] - sent[c]
Taken(c) == served[c] * ReqLen + buf[c]

\* A connection that was given no bytes of another one has not read more than was taken out of its socket, also
\* with the result it is to get.
Received(c) ==
    ~ op[c].foreign =>
        /\ Taken(c) <= In(c)
        /\ cpc[c] = "io" => \A k \in Nat \ {0} : Gives(c, k) => Taken(c) + k <= In(c)

\* The pieces sent before the send at write_all's offset.
Base(c) == (served[c] - 1) * RespLen + off[c]

\* running_ has not been cleared.
Open == srv \/ mpc = "init"

\* What the client has got, seen from each place of handle_connection: whole responses between requests, and
\* those before the present one and its first off[c] pieces in write_all, with what a completed send adds.
Replied(c) ==
    /\ cpc[c] \in {"write", "send"} => served[c] > 0 /\ off[c] <= RespLen
    /\ cpc[c] = "write" => Len(got[c]) = Base(c)
    /\ cpc[c] = "send" /\ Awaits(c) => Len(got[c]) = Base(c)
    /\ cpc[c] = "send" => \A k \in Nat \ {0} :
          Gives(c, k) => Len(got[c]) = Base(c) + k /\ off[c] + k <= RespLen
    /\ cpc[c] \in {"loop", "io"} /\ Open => Len(got[c]) = served[c] * RespLen

\* g is the stream of responses from its beginning.
InOrder(g) == \A i \in 1..Len(g) : g[i] = <<((i - 1) \div RespLen) + 1, ((i - 1) % RespLen) + 1>>

\* The type of the sessions.
SessType ==
    /\ sent \in [Client -> Nat] /\ total \in [Client -> Nat] /\ buf \in [Client -> Nat]
    /\ off \in [Client -> Nat] /\ served \in [Client -> Nat] /\ got \in [Client -> Seq(Nat \X Nat)]

\* No coroutine runs before main has started the threads.
InitIdle == mpc = "init" => \A s \in Sched : cur[s].task = NoTask

\* What holds of one connection.
Session(c) == KindOk(c) /\ Received(c) /\ Replied(c) /\ InOrder(got[c])

\* The inductive invariant of the sessions.
SessInv == DealInv /\ SessType /\ RingInv /\ InitIdle /\ \A c \in Client : Session(c)

-----------------------------------------------------------------------------
(* The rings                                                               *)

\* Nothing, told by sets instead of positions.
LEMMA QuietIsNothing ==
    ASSUME NEW SQ, NEW FL, NEW CQ, Queues(SQ, FL, CQ), NEW N, NEW c \in Client
    PROVE  Quiet(c, N[c], SQ, FL, CQ) <=> Nothing(ClientIo(N), Moved(N), c, SQ, FL, CQ)
<1>0. SQ \in [Sched -> Seq(Req)] /\ FL \in [Sched -> SUBSET Req] /\ CQ \in [Sched -> Seq(Cqe)]
  BY DEF Queues
<1>1. /\ \A v \in Sched : \A r \in ToSet(SQ[v]) : \E i \in 1..Len(SQ[v]) : r = SQ[v][i]
      /\ \A v \in Sched : \A i \in 1..Len(SQ[v]) : SQ[v][i] \in ToSet(SQ[v])
  BY <1>0, QueueDomains, SetOfSeq
<1>2. /\ \A v \in Sched : \A e \in ToSet(CQ[v]) : \E i \in 1..Len(CQ[v]) : e = CQ[v][i]
      /\ \A v \in Sched : \A i \in 1..Len(CQ[v]) : CQ[v][i] \in ToSet(CQ[v])
  BY <1>0, QueueDomains, SetOfSeq
<1>3. /\ \A v \in Sched : \A i \in 1..Len(SQ[v]) : SQ[v][i] \in Req
      /\ \A v \in Sched : \A i \in 1..Len(CQ[v]) : CQ[v][i] \in Cqe
      /\ \A v \in Sched : \A r \in FL[v] : r \in Req
  BY <1>0, Element
<1>4. ASSUME Quiet(c, N[c], SQ, FL, CQ) PROVE Nothing(ClientIo(N), Moved(N), c, SQ, FL, CQ)
  <2>1. \A v \in Sched : \A i \in 1..Len(SQ[v]) : SQ[v][i] \in ClientIo(N) => SQ[v][i].task # c
    BY <1>1, <1>4 DEF Quiet, Held, ClientIo, AnyIo
  <2>2. \A v \in Sched : \A r \in FL[v] : r \in ClientIo(N) => r.task # c
    BY <1>4 DEF Quiet, Held, ClientIo, AnyIo
  <2>3. \A v \in Sched : \A i \in 1..Len(CQ[v]) : CQ[v][i] \in Moved(N) => CQ[v][i].task # c
    BY <1>2, <1>4 DEF Quiet, Moved, AnyMoved
  <2> QED
    BY <2>1, <2>2, <2>3 DEF Nothing
<1>5. ASSUME Nothing(ClientIo(N), Moved(N), c, SQ, FL, CQ) PROVE Quiet(c, N[c], SQ, FL, CQ)
  <2>1. \A v \in Sched : \A r \in ToSet(SQ[v]) : r.task = c /\ r.n = N[c] => r.kind # "io"
    BY <1>1, <1>3, <1>5, SMTT(30) DEF Nothing, ClientIo, AnyIo
  <2>2. \A v \in Sched : \A r \in FL[v] : r.task = c /\ r.n = N[c] => r.kind # "io"
    BY <1>3, <1>5 DEF Nothing, ClientIo, AnyIo
  <2>3. \A v \in Sched : \A e \in ToSet(CQ[v]) : e.task = c /\ e.n = N[c] => ~ (e.res > 0)
    BY <1>2, <1>3, <1>5 DEF Nothing, Moved, AnyMoved
  <2> QED
    BY <2>1, <2>2, <2>3 DEF Quiet, Held
<1> QED
  BY <1>4, <1>5

\* A step that brings nothing new to any connection, but for bytes of another one.
Calm ==
    \A c \in Client :
        /\ op'[c].kind = op[c].kind /\ op'[c].n = op[c].n /\ (op[c].foreign => op'[c].foreign)
        /\ Awaits(c)' => Awaits(c)
        /\ \A k \in Nat \ {0} : Gives(c, k)' => Gives(c, k) \/ Misled(c)'

\* The queues lose requests and completions of the connections, and gain none.
Fewer(SQ1, FL1, CQ1, SQ, FL, CQ) ==
    /\ \A v \in Sched : \A r \in Held(SQ1, FL1, v) :
          r.task \in Client /\ r.kind = "io" => r \in Held(SQ, FL, v)
    /\ \A v \in Sched : \A e \in ToSet(CQ1[v]) :
          e.task \in Client /\ e.res > 0 => e \in ToSet(CQ[v])

\* An operation of a connection stays what it is, but for being alive.
SameOps ==
    \A c \in Client :
        /\ op'[c].kind = op[c].kind /\ op'[c].n = op[c].n /\ op'[c].res = op[c].res
        /\ op'[c].foreign = op[c].foreign

\* A step that queues, completes and changes nothing of a connection leaves the rings as they should be ...
LEMMA CalmStep ==
    ASSUME RingInv, Fewer(sq', flight', cq', sq, flight, cq), SameOps,
           Unique(ClientIo(Now), Moved(Now), sq', flight', cq'), \A c \in Client : cpc'[c] = cpc[c]
    PROVE  RingInv' /\ Calm
<1>0. Now' = Now
  BY DEF Now, SameOps
<1>1. Latest'
  BY DEF RingInv, Latest, Current, Fewer, SameOps
<1>2. Settled'
  BY DEF RingInv, Settled, Misled, Quiet, Fewer, SameOps
<1>3. Calm
  <2>1. \A c \in Client : Awaits(c)' => Awaits(c)
    BY DEF Awaits, Fewer, SameOps
  <2>2. \A c \in Client : \A k \in Nat \ {0} : Gives(c, k)' => Gives(c, k)
    BY DEF Gives, Fewer, SameOps
  <2> QED
    BY <2>1, <2>2 DEF Calm, SameOps
<1> QED
  BY <1>0, <1>1, <1>2, <1>3 DEF RingInv

\* ... such as one that touches no ring ...
LEMMA FrameRing ==
    ASSUME RingInv, UNCHANGED <<sq, flight, cq>>, SameOps, \A c \in Client : cpc'[c] = cpc[c]
    PROVE  RingInv' /\ Calm
<1>1. Fewer(sq', flight', cq', sq, flight, cq)
  BY DEF Fewer
<1> QED
  BY <1>1, CalmStep DEF RingInv

\* ... or one that gives the result of a completion to the operation of t, if that is settled with it ...
LEMMA HandedRing ==
    ASSUME NEW e \in Cqe, NEW t \in Task, RingInv, Client \subseteq Task, Now' = Now,
           \A u \in Task : u # t => op'[u] = op[u], op'[t].res = e.res,
           \A c \in Client : op'[c].kind = op[c].kind /\ op'[c].n = op[c].n /\ (op[c].foreign => op'[c].foreign),
           \A v \in Sched : \A x \in ToSet(cq'[v]) : x \in ToSet(cq[v]), UNCHANGED <<sq, flight>>,
           Unique(ClientIo(Now), Moved(Now), sq, flight, cq'), \A c \in Client : cpc'[c] = cpc[c],
           t \in Client /\ e.res > 0 => Misled(t)' \/ Quiet(t, op[t].n, sq, flight, cq'),
           \A c \in Client : \A k \in Nat \ {0} : op'[c].res = k /\ c = t => Gives(c, k) \/ Misled(c)'
    PROVE  RingInv' /\ Calm
<1>1. Latest'
  BY DEF RingInv, Latest, Current
<1>2. Settled'
  <2> SUFFICES ASSUME NEW c \in Client, cpc[c] \in {"loop", "write"} \/ op'[c].res > 0
               PROVE  Misled(c)' \/ Quiet(c, op[c].n, sq, flight, cq')
    BY DEF Settled
  <2>1. CASE cpc[c] \in {"loop", "write"} \/ op[c].res > 0
    <3>1. Misled(c) \/ Quiet(c, op[c].n, sq, flight, cq)
      BY <2>1 DEF RingInv, Settled
    <3> QED
      BY <3>1 DEF Misled, Quiet
  <2>2. CASE c = t /\ e.res > 0
    BY <2>2
  <2> QED
    BY <2>1, <2>2
<1>3. Calm
  <2>1. \A c \in Client : Awaits(c)' => Awaits(c)
    BY DEF Awaits
  <2>2. \A c \in Client : \A k \in Nat \ {0} : Gives(c, k)' => Gives(c, k) \/ Misled(c)'
    <3> SUFFICES ASSUME NEW c \in Client, NEW k \in Nat \ {0}, Gives(c, k)' PROVE Gives(c, k) \/ Misled(c)'
      OBVIOUS
    <3>1. CASE \E v \in Sched : \E x \in ToSet(cq'[v]) : x.task = c /\ x.n = op'[c].n /\ x.res = k
      BY <3>1 DEF Gives
    <3>2. CASE op'[c].res = k /\ c # t
      BY <3>2 DEF Gives
    <3> QED
      BY <3>1, <3>2 DEF Gives
  <2> QED
    BY <2>1, <2>2 DEF Calm
<1> QED
  BY <1>1, <1>2, <1>3 DEF RingInv

\* ... in particular one that gives a completion to an operation: to the one it is of, or to a receive in its place, which
\* is then misled if there are bytes ...
LEMMA GivenRing ==
    ASSUME NEW s \in Sched, NEW e \in Cqe, NEW t \in Task, TypeOK, RingInv, Completes(s, e, t),
           e.task \in Task, e.res \in Int, e \in ToSet(cq[s]),
           \A v \in Sched : \A x \in ToSet(cq'[v]) : x \in ToSet(cq[v]), UNCHANGED <<sq, flight>>,
           Unique(ClientIo(Now), Moved(Now), sq, flight, cq'), Queues(sq, flight, cq'),
           e \in Moved(Now) => Nothing(ClientIo(Now), Moved(Now), e.task, sq, flight, cq'),
           \A c \in Client : cpc'[c] = cpc[c]
    PROVE  RingInv' /\ Calm
<1>0. op \in [Task -> Op] /\ op[t] \in Op /\ Client \subseteq Task /\ op' = [op EXCEPT ![t] = Ended(t, e)] /\ op[t].live
  BY TheTasks DEF TypeOK, Completes
<1>1. /\ \A u \in Task : u # t => op'[u] = op[u]
      /\ op'[t].res = e.res /\ op'[t].n = op[t].n /\ op'[t].kind = op[t].kind
      /\ op'[t].foreign = (op[t].foreign \/ (e.task # t /\ e.res > 0))
  <2>1. op'[t] = Ended(t, e)
    BY <1>0
  <2> QED
    BY <1>0, <2>1, EndedValue
<1>2. \A c \in Client : op'[c].kind = op[c].kind /\ op'[c].n = op[c].n /\ (op[c].foreign => op'[c].foreign)
  BY <1>0, <1>1
<1>3. Now' = Now
  BY <1>2 DEF Now
<1>4. CASE t = e.task /\ op[t].n = e.n
  <2>1. t \in Client /\ e.res > 0 => Quiet(t, op[t].n, sq, flight, cq')
    <3> SUFFICES ASSUME t \in Client, e.res > 0 PROVE Quiet(t, op[t].n, sq, flight, cq')
      OBVIOUS
    <3>1. Now[t] = op[t].n
      BY DEF Now
    <3>2. e \in Moved(Now)
      BY <1>4, <3>1 DEF Moved, AnyMoved
    <3> QED
      BY <1>4, <3>1, <3>2, QuietIsNothing
  <2>2. \A c \in Client : \A k \in Nat \ {0} : op'[c].res = k /\ c = t => Gives(c, k)
    BY <1>1, <1>4 DEF Gives
  <2> QED
    BY <1>0, <1>1, <1>2, <1>3, <2>1, <2>2, HandedRing
<1>5. CASE ~ Addressed(e) /\ op[t].kind = "timed"
  <2>1. t \in Client /\ e.res > 0 => Misled(t)'
    <3> SUFFICES ASSUME t \in Client, e.res > 0 PROVE Misled(t)'
      OBVIOUS
    <3>1. CASE e.task # t
      BY <1>1, <1>5, <3>1 DEF Misled
    <3>2. CASE e.task = t
      <4>1. e.n # op[t].n /\ Current(e)
        BY <1>0, <1>5, <3>2 DEF Addressed, RingInv, Latest
      <4>2. op[t].foreign
        BY <3>2, <4>1 DEF Current
      <4> QED
        BY <1>1, <1>5, <4>2 DEF Misled
    <3> QED
      BY <3>1, <3>2
  <2>2. \A c \in Client : \A k \in Nat \ {0} : op'[c].res = k /\ c = t => Misled(c)'
    BY <1>1, <2>1
  <2> QED
    BY <1>0, <1>1, <1>2, <1>3, <2>1, <2>2, HandedRing
<1> QED
  BY <1>4, <1>5 DEF Completes

\* ... one of a thread: it submits, reaps and resumes ...
LEMMA ThreadRing ==
    ASSUME NEW s \in Sched, SchedInv, RingInv, LoopStep(s), \A c \in Client : cpc'[c] = cpc[c]
    PROVE  RingInv' /\ Calm
<1>0. TypeOK /\ Client \subseteq Task
  BY TheTasks DEF SchedInv
<1>1. CASE Boot(s) \/ Drain(s) \/ SwapReady(s) \/ Exit(s) \/ ReapDone(s)
  <2>1. UNCHANGED <<sq, flight, cq, op>>
    BY <1>1 DEF Boot, Drain, SwapReady, Exit, ReapDone, ring, coro
  <2> QED
    BY <2>1, FrameRing DEF SameOps
<1>2. CASE Resume(s)
  <2>1. UNCHANGED <<sq, flight, cq>>
    BY <1>2 DEF Resume, ring
  <2>2. SameOps
    BY <1>0, <1>2 DEF Resume, TypeOK, Op, SameOps
  <2> QED
    BY <2>1, <2>2, FrameRing
<1>3. CASE Submit(s)
  <2>0. UNCHANGED <<cq, op>>
    BY <1>3 DEF Submit, coro
  <2>1. CASE UNCHANGED <<flight, sq>>
    BY <2>0, <2>1, FrameRing DEF SameOps
  <2>2. CASE flight' = [flight EXCEPT ![s] = @ \cup ToSet(sq[s])] /\ sq' = [sq EXCEPT ![s] = << >>]
    <3>1. Submits(sq', flight', sq, flight, s) /\ Queues(sq, flight, cq)
      BY <1>0, <2>2, QueuesNow DEF Submits
    <3>2. Unique(ClientIo(Now), Moved(Now), sq', flight', cq)
      BY <3>1, UniqueSubmitted DEF RingInv
    <3>3. Fewer(sq', flight', cq', sq, flight, cq)
      BY <2>0, <3>1, HeldSubmitted DEF Fewer
    <3> QED
      BY <2>0, <3>2, <3>3, CalmStep DEF SameOps
  <2> QED
    BY <1>3, <2>1, <2>2 DEF Submit
<1>4. CASE Reap(s)
  <2>e. PICK e \in Cqe : e = cq[s][1]
    BY <1>0, <1>4, ReapShape
  <2>0. /\ cq \in [Sched -> Seq(Cqe)] /\ cq[s] # << >> /\ cq' = [cq EXCEPT ![s] = Tail(@)]
        /\ op \in [Task -> Op] /\ UNCHANGED <<sq, flight>>
    BY <1>0, <1>4 DEF TypeOK, Reap
  <2>1. e.task \in Task /\ e.res \in Int
    BY DEF Cqe
  <2>2. e \in ToSet(cq[s])
    BY <2>0, <2>e, Popped, QueueDomains, SetOfSeq
  <2>3. Reaps(cq', cq, s) /\ Queues(sq, flight, cq) /\ Unique(ClientIo(Now), Moved(Now), sq, flight, cq)
    BY <1>0, <2>0, QueuesNow DEF Reaps, RingInv
  <2>4. /\ Unique(ClientIo(Now), Moved(Now), sq, flight, cq') /\ Queues(sq, flight, cq')
        /\ e \in Moved(Now) => Nothing(ClientIo(Now), Moved(Now), e.task, sq, flight, cq')
    BY <2>3, <2>e, UniqueReaped
  <2>5. \A v \in Sched : \A x \in ToSet(cq'[v]) : x \in ToSet(cq[v])
    BY <2>3, ReapedSet
  <2>6. Fewer(sq', flight', cq', sq, flight, cq)
    BY <2>0, <2>5 DEF Fewer
  <2>7. CASE UNCHANGED op
    BY <2>0, <2>4, <2>6, <2>7, CalmStep DEF SameOps
  <2>8. ASSUME NEW t \in Task, Completes(s, e, t) PROVE RingInv' /\ Calm
    BY <1>0, <2>0, <2>1, <2>2, <2>4, <2>5, <2>8, GivenRing
  <2> QED
    BY <1>0, <1>4, <2>e, <2>7, <2>8, ReapShape
<1> QED
  BY <1>1, <1>2, <1>3, <1>4 DEF LoopStep

\* ... the end of the process ...
LEMMA DieRing ==
    ASSUME TypeOK, RingInv, Die, \A c \in Client : cpc'[c] = cpc[c]
    PROVE  RingInv' /\ Calm
<1>0. /\ \A v \in Sched : flight'[v] = {}
      /\ flight' \in [Sched -> SUBSET Req] /\ UNCHANGED <<sq, cq, op>>
  BY DEF Die, coro
<1>1. Shrinks(ClientIo(Now), flight', flight) /\ Queues(sq, flight, cq)
  BY <1>0, QueuesNow DEF Shrinks
<1>2. Unique(ClientIo(Now), Moved(Now), sq, flight', cq)
  BY <1>0, <1>1, UniqueShrunk DEF RingInv
<1>3. Fewer(sq', flight', cq', sq, flight, cq)
  BY <1>0 DEF Fewer, Held
<1> QED
  BY <1>0, <1>2, <1>3, CalmStep DEF SameOps

\* The kernel ends requests, but moves nothing for a connection.
LEMMA KernelRing ==
    ASSUME NEW s \in Sched, NEW f, TypeOK, RingInv, Extends(cq', cq, s, f), Outside(f, AnyMoved),
           Shrinks(AnyIo, flight', flight), flight' \in [Sched -> SUBSET Req],
           UNCHANGED <<sq, op>>, \A c \in Client : cpc'[c] = cpc[c]
    PROVE  RingInv' /\ Calm
<1>0. Shrinks(ClientIo(Now), flight', flight) /\ Outside(f, Moved(Now))
  BY DEF Shrinks, Outside, ClientIo, Moved
<1>1. Unique(ClientIo(Now), Moved(Now), sq, flight', cq)
  BY <1>0, QueuesNow, UniqueShrunk DEF RingInv
<1>2. Unique(ClientIo(Now), Moved(Now), sq, flight', cq') /\ OnlyAdds(cq', cq, f)
  BY <1>0, <1>1, UniqueExtended
<1>3. \A v \in Sched : \A e \in ToSet(cq'[v]) : e \in Cqe
  <2>1. cq' \in [Sched -> Seq(Cqe)]
    BY Extended DEF Extends
  <2> QED
    BY <2>1, CqTypes
<1>4. \A v \in Sched : \A e \in ToSet(cq'[v]) : e.task \in Client /\ e.res > 0 => e \in ToSet(cq[v])
  <2>1. \A v \in Sched : \A e \in ToSet(cq'[v]) : e.task \in Client /\ e.res > 0 => e \in AnyMoved
    BY <1>3 DEF AnyMoved
  <2> QED
    BY <1>2, <2>1 DEF OnlyAdds, Outside
<1>5. \A v \in Sched : \A r \in Held(sq, flight', v) : r.task \in Client /\ r.kind = "io" => r \in Held(sq, flight, v)
  <2> SUFFICES ASSUME NEW v \in Sched, NEW r \in flight'[v], r.task \in Client, r.kind = "io"
               PROVE  r \in flight[v]
    BY DEF Held
  <2>1. r \in AnyIo
    BY DEF AnyIo
  <2> QED
    BY <2>1 DEF Shrinks
<1>6. Fewer(sq', flight', cq', sq, flight, cq)
  BY <1>4, <1>5 DEF Fewer
<1> QED
  BY <1>2, <1>6, CalmStep DEF SameOps

\* A timer moves nothing.
LEMMA TimerRing ==
    ASSUME NEW s \in Sched, NEW r, TypeOK, RingInv, TimerFires(s, r) \/ TimerRejected(s, r),
           \A c \in Client : cpc'[c] = cpc[c]
    PROVE  RingInv' /\ Calm
<1>1. /\ UNCHANGED <<sq, op>> /\ flight' \in [Sched -> SUBSET Req]
      /\ \A v \in Sched : flight'[v] \subseteq flight[v]
  BY TimerShape
<1>2. PICK f \in Seq(Cqe) : /\ cq' = [cq EXCEPT ![s] = @ \o f]
                            /\ \A i \in 1..Len(f) : f[i].task = r.task /\ f[i].res < 0
  BY TimerShape
<1>3. Extends(cq', cq, s, f)
  BY <1>2 DEF Extends, TypeOK
<1>4. Outside(f, AnyMoved)
  <2> SUFFICES ASSUME NEW i \in 1..Len(f), f[i] \in AnyMoved PROVE FALSE
    BY DEF Outside
  <2>1. f[i].res \in Int /\ f[i].res > 0
    BY DEF AnyMoved, Cqe
  <2> QED
    BY <1>2, <2>1
<1>5. Shrinks(AnyIo, flight', flight)
  BY <1>1 DEF Shrinks
<1> QED
  BY <1>1, <1>3, <1>4, <1>5, KernelRing

\* An operation that moves nothing, or is not a connection's, ends.
LEMMA IoDoneRing ==
    ASSUME NEW s \in Sched, NEW r, NEW res \in Int, TypeOK, RingInv, IoDone(s, r, res),
           r.task \notin Client \/ res <= 0, \A c \in Client : cpc'[c] = cpc[c]
    PROVE  RingInv' /\ Calm
<1>1. /\ r \in Req /\ UNCHANGED <<sq, op>> /\ flight' \in [Sched -> SUBSET Req]
      /\ \A v \in Sched : \A x \in flight'[v] : x \in flight[v] \/ (v = s /\ x.task = r.task /\ x.kind = "armed")
  BY IoDoneShape
<1>2. PICK f : EndsWith(s, r, res, f)
  BY IoDoneShape
<1>3. Extends(cq', cq, s, f)
  BY <1>2 DEF EndsWith, Extends, TypeOK
<1>4. Outside(f, AnyMoved)
  <2>1. \A i \in 1..Len(f) : f[i].task = r.task /\ (f[i].res = res \/ f[i].res = ECANCELED)
    BY <1>2 DEF EndsWith, Completion
  <2> QED
    BY <2>1 DEF Outside, AnyMoved, ECANCELED
<1>5. Shrinks(AnyIo, flight', flight)
  BY <1>1 DEF Shrinks, AnyIo
<1> QED
  BY <1>1, <1>3, <1>4, <1>5, KernelRing

\* Fewer of the requests and completions that are told apart.
LEMMA UniqueLess ==
    ASSUME NEW A, NEW C, NEW A1, NEW C1, NEW SQ, NEW FL, NEW CQ, Queues(SQ, FL, CQ), Unique(A, C, SQ, FL, CQ),
           \A v \in Sched : \A r \in Held(SQ, FL, v) : r \in A1 => r \in A,
           \A v \in Sched : \A e \in ToSet(CQ[v]) : e \in C1 => e \in C
    PROVE  Unique(A1, C1, SQ, FL, CQ)
<1>0. SQ \in [Sched -> Seq(Req)] /\ CQ \in [Sched -> Seq(Cqe)]
  BY DEF Queues
<1>1. \A v \in Sched : \A i \in 1..Len(SQ[v]) : SQ[v][i] \in A1 => SQ[v][i] \in A
  <2>1. \A v \in Sched : \A i \in 1..Len(SQ[v]) : SQ[v][i] \in ToSet(SQ[v])
    BY <1>0, QueueDomains, SetOfSeq
  <2> QED
    BY <2>1 DEF Held
<1>2. \A v \in Sched : \A r \in FL[v] : r \in A1 => r \in A
  BY DEF Held
<1>3. \A v \in Sched : \A i \in 1..Len(CQ[v]) : CQ[v][i] \in C1 => CQ[v][i] \in C
  <2>1. \A v \in Sched : \A i \in 1..Len(CQ[v]) : CQ[v][i] \in ToSet(CQ[v])
    BY <1>0, QueueDomains, SetOfSeq
  <2> QED
    BY <2>1
<1>4. OneEach(A1, SQ) /\ OneInFlight(A1, FL) /\ OneEach(C1, CQ)
  BY <1>1, <1>2, <1>3 DEF Unique, OneEach, OneInFlight
<1>5. FlightApart(A1, A1, FL, SQ) /\ QueuesApart(A1, C1, SQ, CQ) /\ FlightApart(A1, C1, FL, CQ)
  BY <1>1, <1>2, <1>3 DEF Unique, QueuesApart, FlightApart
<1> QED
  BY <1>4, <1>5 DEF Unique

\* What is queued or in flight is a request.
LEMMA HeldTypes ==
    ASSUME NEW SQ, NEW FL, NEW CQ, Queues(SQ, FL, CQ)
    PROVE  \A v \in Sched : \A r \in Held(SQ, FL, v) : r \in Req /\ r.n \in Nat
<1>0. SQ \in [Sched -> Seq(Req)] /\ FL \in [Sched -> SUBSET Req]
  BY DEF Queues
<1>1. \A v \in Sched : \A r \in ToSet(SQ[v]) : r \in Req
  <2>1. /\ \A v \in Sched : DOMAIN SQ[v] = 1..Len(SQ[v])
        /\ \A v \in Sched : \A i \in 1..Len(SQ[v]) : SQ[v][i] \in Req
    BY <1>0, QueueDomains, Element
  <2> QED
    BY <2>1, SetOfSeq
<1> QED
  BY <1>0, <1>1 DEF Held, Req

\* Awaiting queues nothing but requests of the task, for its new operation.
LEMMA AwaitHeld ==
    ASSUME NEW s \in Sched, NEW kind \in {"plain", "timed"}, NEW t, NEW N, TypeOK, t = cur[s].task,
           Unique(ClientIo(N), Moved(N), sq, flight, cq), t \in Client => Quiet(t, N[t], sq, flight, cq),
           Await(s, kind) \/ AwaitThrows(s, kind)
    PROVE  /\ t \in Task /\ op[t].n \in Nat
           /\ Unique(ClientIo(N), Moved(N), sq', flight', cq)
           /\ \A v \in Sched : \A x \in Held(sq', flight', v) :
                 x \in Held(sq, flight, v) \/ (x.task = t /\ (x.kind = "io" => x.n = op[t].n + 1))
<1> DEFINE n == op[t].n + 1
           r == Request(t, n, "io")
<1>0. t \in Task
  BY AwaitShape, AwaitThrowsShape
<1>1. op[t].n \in Nat /\ n \in Nat
  BY <1>0 DEF TypeOK, Op
<1>2. r \in Req /\ r.task = t /\ r.n = n /\ r.kind = "io"
  BY <1>0, <1>1, RequestType
<1>3. Queues(sq, flight, cq) /\ (r \in ClientIo(N) => Nothing(ClientIo(N), Moved(N), t, sq, flight, cq))
  BY <1>2, QueuesNow, QuietIsNothing DEF ClientIo, AnyIo
<1>4. \/ UNCHANGED <<sq, flight>>
      \/ Enqueues(sq', flight', sq, flight, s, r)
      \/ \E SQ1, FL1, x :
            /\ Enqueues(SQ1, FL1, sq, flight, s, r)
            /\ x.task = t /\ x.kind # "io" /\ Enqueues(sq', flight', SQ1, FL1, s, x)
  <2>1. CASE Await(s, kind)
    BY <2>1, AwaitQueues
  <2>2. CASE AwaitThrows(s, kind)
    BY <1>2, <2>2 DEF AwaitThrows, Enqueues
  <2> QED
    BY <2>1, <2>2
<1> HIDE DEF r
<1>5. CASE UNCHANGED <<sq, flight>>
  BY <1>0, <1>1, <1>5
<1>6. CASE Enqueues(sq', flight', sq, flight, s, r)
  <2>1. Unique(ClientIo(N), Moved(N), sq', flight', cq)
    BY <1>2, <1>3, <1>6, UniqueQueued
  <2>2. \A v \in Sched : \A x \in Held(sq', flight', v) : x \in Held(sq, flight, v) \/ (v = s /\ x = r)
    BY <1>3, <1>6, HeldQueued
  <2> QED
    BY <1>0, <1>1, <1>2, <2>1, <2>2
<1>7. ASSUME NEW SQ1, NEW FL1, NEW x, Enqueues(SQ1, FL1, sq, flight, s, r),
             x.task = t, x.kind # "io", Enqueues(sq', flight', SQ1, FL1, s, x)
      PROVE  /\ Unique(ClientIo(N), Moved(N), sq', flight', cq)
             /\ \A v \in Sched : \A y \in Held(sq', flight', v) :
                   y \in Held(sq, flight, v) \/ (y.task = t /\ (y.kind = "io" => y.n = op[t].n + 1))
  <2>1. Unique(ClientIo(N), Moved(N), SQ1, FL1, cq) /\ Queues(SQ1, FL1, cq)
    BY <1>2, <1>3, <1>7, UniqueQueued
  <2>2. \A v \in Sched : \A y \in Held(SQ1, FL1, v) : y \in Held(sq, flight, v) \/ (v = s /\ y = r)
    BY <1>3, <1>7, HeldQueued
  <2>3. x \notin ClientIo(N)
    BY <1>7 DEF ClientIo, AnyIo
  <2>4. Unique(ClientIo(N), Moved(N), sq', flight', cq)
    BY <1>7, <2>1, <2>3, UniqueQueued
  <2>5. \A v \in Sched : \A y \in Held(sq', flight', v) : y \in Held(SQ1, FL1, v) \/ (v = s /\ y = x)
    BY <1>7, <2>1, HeldQueued
  <2> QED
    BY <1>2, <1>7, <2>2, <2>4, <2>5
<1> QED
  BY <1>0, <1>1, <1>4, <1>5, <1>6, <1>7

\* What a step of connection c leaves of the others.
Others(c) ==
    \A d \in Client : d # c =>
        /\ op'[d] = op[d] /\ cpc'[d] = cpc[d]
        /\ Awaits(d)' => Awaits(d)
        /\ \A k \in Nat \ {0} : Gives(d, k)' => Gives(d, k)

\* The operation after the present one of c has nothing under way yet.
LEMMA NothingAhead ==
    ASSUME TypeOK, RingInv, NEW c \in Client
    PROVE  /\ op[c].n \in Nat
           /\ \A v \in Sched : \A r \in Held(sq, flight, v) : r.task = c /\ r.kind = "io" => r.n # op[c].n + 1
           /\ \A v \in Sched : \A e \in ToSet(cq[v]) : e.task = c /\ e.n = op[c].n + 1 => ~ (e.res > 0)
<1>1. op[c].n \in Nat
  BY TheTasks DEF TypeOK, Op
<1>2. ASSUME NEW v \in Sched, NEW r \in Held(sq, flight, v), r.task = c, r.kind = "io", r.n = op[c].n + 1
      PROVE  FALSE
  <2>1. r.n <= op[c].n
    BY <1>2 DEF RingInv, Latest, Current
  <2> QED
    BY <1>1, <1>2, <2>1
<1>3. ASSUME NEW v \in Sched, NEW e \in ToSet(cq[v]), e.task = c, e.n = op[c].n + 1, e.res > 0
      PROVE  FALSE
  <2>1. e.n <= op[c].n
    BY <1>3 DEF RingInv, Latest, Current
  <2> QED
    BY <1>1, <1>3, <2>1
<1> QED
  BY <1>1, <1>2, <1>3

\* What a connection has left behind when it awaits again are receives, if it was misled.
LEMMA LeftBehind ==
    ASSUME TypeOK, RingInv, NEW c \in Client, cpc[c] \in {"loop", "write"}
    PROVE  /\ \A v \in Sched : \A r \in Held(sq, flight, v) : r.task = c /\ r.kind = "io" =>
                 r.n \in Nat /\ r.n <= op[c].n /\ op[c].foreign
           /\ \A v \in Sched : \A e \in ToSet(cq[v]) : e.task = c /\ e.res > 0 =>
                 e.n \in Nat /\ e.n <= op[c].n /\ op[c].foreign
<1>0. Misled(c) \/ Quiet(c, op[c].n, sq, flight, cq)
  BY DEF RingInv, Settled
<1>1. ASSUME NEW v \in Sched, NEW r \in Held(sq, flight, v), r.task = c, r.kind = "io"
      PROVE  r.n \in Nat /\ r.n <= op[c].n /\ op[c].foreign
  <2>1. Current(r) /\ r.n \in Nat
    BY <1>1, HeldTypes, QueuesNow DEF RingInv, Latest
  <2> QED
    BY <1>0, <1>1, <2>1 DEF Current, Misled, Quiet
<1>2. ASSUME NEW v \in Sched, NEW e \in ToSet(cq[v]), e.task = c, e.res > 0
      PROVE  e.n \in Nat /\ e.n <= op[c].n /\ op[c].foreign
  <2>1. Current(e) /\ e.n \in Nat
    <3>1. cq \in [Sched -> Seq(Cqe)]
      BY DEF TypeOK
    <3>2. e \in Cqe
      BY <3>1, CqTypes
    <3> QED
      BY <1>2, <3>2 DEF RingInv, Latest, Cqe
  <2> QED
    BY <1>0, <1>2, <2>1 DEF Current, Misled, Quiet
<1> QED
  BY <1>1, <1>2

\* A connection awaits a receive or a send, or fails to.
LEMMA ConnAwaitRing ==
    ASSUME NEW s \in Sched, NEW c \in Client, NEW kind \in {"plain", "timed"}, NEW pc \in {"io", "send"},
           SchedInv, RingInv, DealType, cur[s].task = c, cpc[c] \in {"loop", "write"},
           Await(s, kind) \/ AwaitThrows(s, kind), cpc' = [cpc EXCEPT ![c] = pc]
    PROVE  /\ RingInv' /\ Others(c) /\ op'[c].kind = kind /\ op'[c].foreign = op[c].foreign /\ cpc'[c] = pc
           /\ \A k \in Nat \ {0} : ~ Gives(c, k)'
<1>0. TypeOK /\ c \in Task /\ Client \subseteq Task /\ UNCHANGED cq
  BY TheTasks DEF SchedInv, Await, AwaitThrows
<1>1. /\ op[c].n \in Nat
      /\ \A v \in Sched : \A r \in Held(sq, flight, v) : r.task = c /\ r.kind = "io" => r.n # op[c].n + 1
      /\ \A v \in Sched : \A e \in ToSet(cq[v]) : e.task = c /\ e.n = op[c].n + 1 => ~ (e.res > 0)
  BY <1>0, NothingAhead
<1>2. \A u \in Task : u # c => op'[u] = op[u]
  BY <1>0, AwaitShape, AwaitThrowsShape
<1>3. /\ op'[c].n = op[c].n + 1 /\ op'[c].kind = kind /\ op'[c].res \in Int /\ op'[c].res <= 0
      /\ op'[c].foreign = op[c].foreign
  <2>0. op[c] \in Op
    BY <1>0 DEF TypeOK
  <2>1. CASE Await(s, kind)
    <3>1. op'[c] = NewOp(c, kind, s)
      BY <1>0, <2>1, AwaitShape
    <3> QED
      BY <1>0, <2>0, <3>1, NewOpValue
  <2>2. CASE AwaitThrows(s, kind)
    <3>1. op'[c] = [NewOp(c, kind, s) EXCEPT !.live = FALSE, !.res = EIO]
      BY <1>0, <2>2, AwaitThrowsShape
    <3> QED
      BY <1>0, <2>0, <3>1, NewOpValue DEF Op, EIO
  <2> QED
    BY <2>1, <2>2
<1>4. PICK N : N = Now'
  OBVIOUS
<1>5. N[c] = op[c].n + 1 /\ \A d \in Client : d # c => N[d] = Now[d] /\ Now[d] = op[d].n
  BY <1>0, <1>2, <1>3, <1>4 DEF Now
<1>6. Unique(ClientIo(N), Moved(N), sq, flight, cq) /\ Quiet(c, N[c], sq, flight, cq)
  <2>1. \A v \in Sched : \A r \in Held(sq, flight, v) : r \in ClientIo(N) => r \in ClientIo(Now)
    BY <1>1, <1>5 DEF ClientIo, AnyIo
  <2>2. \A v \in Sched : \A e \in ToSet(cq[v]) : e \in Moved(N) => e \in Moved(Now)
    BY <1>1, <1>5 DEF Moved, AnyMoved
  <2>3. Unique(ClientIo(N), Moved(N), sq, flight, cq)
    BY <1>0, <2>1, <2>2, UniqueLess, QueuesNow DEF RingInv
  <2> QED
    BY <1>1, <1>5, <2>3 DEF Quiet
<1>7. /\ Unique(ClientIo(N), Moved(N), sq', flight', cq)
      /\ \A v \in Sched : \A x \in Held(sq', flight', v) :
            x \in Held(sq, flight, v) \/ (x.task = c /\ (x.kind = "io" => x.n = op[c].n + 1))
  BY <1>0, <1>6, AwaitHeld
<1>8. cpc'[c] = pc /\ \A d \in Client : d # c => cpc'[d] = cpc[d]
  BY <1>0 DEF DealType
<1>9. Latest'
  <2>0. /\ \A v \in Sched : \A r \in Held(sq, flight, v) : r.task = c /\ r.kind = "io" =>
              r.n \in Nat /\ r.n <= op[c].n /\ op[c].foreign
        /\ \A v \in Sched : \A e \in ToSet(cq[v]) : e.task = c /\ e.res > 0 =>
              e.n \in Nat /\ e.n <= op[c].n /\ op[c].foreign
    BY <1>0, LeftBehind
  <2>1. ASSUME NEW v \in Sched, NEW r \in Held(sq', flight', v), r.task \in Client, r.kind = "io"
        PROVE  Current(r)'
    <3>1. CASE r \in Held(sq, flight, v) /\ r.task # c
      BY <1>0, <1>2, <2>1, <3>1 DEF RingInv, Latest, Current
    <3>2. CASE r \in Held(sq, flight, v) /\ r.task = c
      BY <1>1, <1>3, <2>0, <2>1, <3>2 DEF Current
    <3>3. CASE r.task = c /\ r.n = op[c].n + 1
      BY <1>1, <1>3, <3>3 DEF Current
    <3> QED
      BY <1>7, <2>1, <3>1, <3>2, <3>3
  <2>2. ASSUME NEW v \in Sched, NEW e \in ToSet(cq[v]), e.task \in Client, e.res > 0
        PROVE  Current(e)'
    <3>1. CASE e.task # c
      BY <1>0, <1>2, <2>2, <3>1 DEF RingInv, Latest, Current
    <3>2. CASE e.task = c
      BY <1>1, <1>3, <2>0, <2>2, <3>2 DEF Current
    <3> QED
      BY <3>1, <3>2
  <2> QED
    BY <1>0, <2>1, <2>2 DEF Latest
<1>10. Settled'
  <2> SUFFICES ASSUME NEW d \in Client, cpc'[d] \in {"loop", "write"} \/ op'[d].res > 0
               PROVE  Misled(d)' \/ Quiet(d, op'[d].n, sq', flight', cq')
    BY DEF Settled
  <2>1. d # c
    BY <1>3, <1>8
  <2>2. op'[d] = op[d] /\ (Misled(d) \/ Quiet(d, op[d].n, sq, flight, cq))
    BY <1>0, <1>2, <1>8, <2>1 DEF RingInv, Settled
  <2> QED
    BY <1>0, <1>7, <2>1, <2>2 DEF Quiet, Misled
<1>11. Others(c)
  <2>1. \A d \in Client : d # c => (Awaits(d)' => Awaits(d))
    BY <1>0, <1>2, <1>7 DEF Awaits
  <2>2. \A d \in Client : d # c => \A k \in Nat \ {0} : Gives(d, k)' => Gives(d, k)
    BY <1>0, <1>2 DEF Gives
  <2> QED
    BY <1>0, <1>2, <1>8, <2>1, <2>2 DEF Others
<1>12. \A k \in Nat \ {0} : ~ Gives(c, k)'
  BY <1>0, <1>1, <1>3 DEF Gives
<1> QED
  BY <1>0, <1>3, <1>4, <1>7, <1>8, <1>9, <1>10, <1>11, <1>12 DEF RingInv

\* A connection goes on with a result, or with what it has.
LEMMA ConnGoesOn ==
    ASSUME NEW c \in Client, NEW pc \in {"loop", "write"}, TypeOK, RingInv, DealType,
           cpc[c] \in {"loop", "write"} \/ op[c].res > 0,
           UNCHANGED <<sq, flight, cq, op>>, cpc' = [cpc EXCEPT ![c] = pc]
    PROVE  RingInv' /\ Others(c) /\ cpc'[c] = pc
<1>0. c \in Task /\ cpc'[c] = pc /\ \A d \in Client : d # c => cpc'[d] = cpc[d]
  BY TheTasks DEF DealType
<1>1. Latest'
  BY DEF RingInv, Latest, Current
<1>2. Settled'
  BY <1>0 DEF RingInv, Settled, Misled
<1>3. Others(c)
  BY <1>0 DEF Others, Awaits, Gives
<1>4. Now' = Now
  BY DEF Now
<1> QED
  BY <1>0, <1>1, <1>2, <1>3, <1>4 DEF RingInv

\* What the kernel changes when the receive or send r of a connection moves k pieces.
LEMMA MovedShape ==
    ASSUME NEW s \in Sched, NEW r, NEW k \in Nat \ {0}, TypeOK, IoDone(s, r, k), r.task \in Client
    PROVE  /\ r \in flight[s] /\ r \in AnyIo /\ UNCHANGED <<sq, op>>
           /\ flight' \in [Sched -> SUBSET Req] /\ r \notin flight'[s] /\ Shrinks(AnyIo, flight', flight)
           /\ \A v \in Sched : \A x \in Held(sq, flight', v) : x \in Held(sq, flight, v) \/ x.kind = "armed"
           /\ \E e \in AnyMoved :
                 /\ e.task = r.task /\ e.n = r.n /\ e.res = k /\ Pushes(cq', cq, s, e, Cqe)
                 /\ \A v \in Sched : \A x \in ToSet(cq'[v]) : x \in ToSet(cq[v]) \/ x = e
<1>0. /\ r \in flight[s] /\ r \in Req /\ r.kind = "io" /\ UNCHANGED <<sq, op>>
      /\ flight' \in [Sched -> SUBSET Req] /\ r \notin flight'[s]
      /\ \A v \in Sched : \A x \in flight'[v] : x \in flight[v] \/ (v = s /\ x.task = r.task /\ x.kind = "armed")
  BY IoDoneShape
<1>1. PICK e \in AnyMoved : e = Completion(r, k) /\ e.task = r.task /\ e.n = r.n /\ e.res = k /\ e \in Cqe
  <2>1. /\ Completion(r, k) \in Cqe /\ Completion(r, k).task = r.task /\ Completion(r, k).n = r.n
        /\ Completion(r, k).res = k
    BY <1>0, CompletionType DEF Completion
  <2> QED
    BY <2>1 DEF AnyMoved
<1>2. Pushes(cq', cq, s, e, Cqe)
  <2>1. PICK f : EndsWith(s, r, k, f)
    BY IoDoneShape
  <2>2. cq' = [cq EXCEPT ![s] = @ \o <<e>>] /\ cq \in [Sched -> Seq(Cqe)]
    <3>1. k >= 0 /\ (k >= 0 => f = <<Completion(r, k)>>) /\ cq' = [cq EXCEPT ![s] = @ \o f]
      BY <2>1 DEF EndsWith
    <3> QED
      BY <1>1, <3>1 DEF TypeOK
  <2>3. Append(cq[s], e) = cq[s] \o <<e>>
    BY <1>1, <2>2, AppendsAsConcat
  <2> QED
    BY <1>1, <2>2, <2>3 DEF Pushes
<1>3. \A v \in Sched : \A x \in ToSet(cq'[v]) : x \in ToSet(cq[v]) \/ x = e
  <2>1. cq \in [Sched -> Seq(Cqe)] /\ cq' = [cq EXCEPT ![s] = Append(@, e)]
    BY <1>2 DEF Pushes
  <2>2. \A x \in ToSet(Append(cq[s], e)) : x \in ToSet(cq[s]) \/ x = e
    <3>1. cq[s] \in Seq(Cqe)
      BY <2>1
    <3> QED
      BY <1>1, <3>1 DEF ToSet
  <2> QED
    BY <2>1, <2>2
<1>4. r \in AnyIo /\ Shrinks(AnyIo, flight', flight)
  BY <1>0 DEF AnyIo, Shrinks
<1>5. \A v \in Sched : \A x \in Held(sq, flight', v) : x \in Held(sq, flight, v) \/ x.kind = "armed"
  BY <1>0 DEF Held
<1> QED
  BY <1>0, <1>1, <1>2, <1>3, <1>4, <1>5

\* The present receive or send of a connection moves k pieces.
LEMMA MovedRing ==
    ASSUME NEW s \in Sched, NEW r, NEW k \in Nat \ {0}, TypeOK, RingInv, IoDone(s, r, k), r.task \in Client,
           r.n = op[r.task].n, UNCHANGED cpc
    PROVE  /\ RingInv' /\ Others(r.task) /\ UNCHANGED op /\ Awaits(r.task) /\ ~ Awaits(r.task)'
           /\ \/ Misled(r.task)
              \/ cpc[r.task] \notin {"loop", "write"} /\ \A j \in Nat \ {0} : Gives(r.task, j)' => j = k
<1>0. /\ r \in flight[s] /\ r \in AnyIo /\ UNCHANGED <<sq, op>>
      /\ flight' \in [Sched -> SUBSET Req] /\ r \notin flight'[s] /\ Shrinks(AnyIo, flight', flight)
      /\ \A v \in Sched : \A x \in Held(sq, flight', v) : x \in Held(sq, flight, v) \/ x.kind = "armed"
  BY MovedShape
<1>1. PICK e \in AnyMoved :
              /\ e.task = r.task /\ e.n = r.n /\ e.res = k /\ Pushes(cq', cq, s, e, Cqe)
              /\ \A v \in Sched : \A x \in ToSet(cq'[v]) : x \in ToSet(cq[v]) \/ x = e
  BY MovedShape
<1>2. PICK c \in Client : c = r.task
  OBVIOUS
<1>a. op[c].res \in Int /\ r.kind = "io" /\ Now[c] = op[c].n /\ Now' = Now
  BY <1>0, TheTasks DEF TypeOK, Op, AnyIo, Now
<1>3. r \in ClientIo(Now) /\ Shrinks(ClientIo(Now), flight', flight) /\ Queues(sq, flight, cq)
  BY <1>0, <1>2, <1>a, QueuesNow DEF ClientIo, Shrinks
<1>4. Unique(ClientIo(Now), Moved(Now), sq, flight', cq) /\ Queues(sq, flight', cq)
  BY <1>0, <1>3, UniqueShrunk DEF RingInv
<1>5. Nothing(ClientIo(Now), Moved(Now), c, sq, flight', cq)
  BY <1>0, <1>2, <1>3, NothingLeft DEF RingInv
<1>6. Unique(ClientIo(Now), Moved(Now), sq, flight', cq')
  BY <1>1, <1>2, <1>4, <1>5, UniqueCompleted
<1>7. Quiet(c, op[c].n, sq, flight', cq)
  BY <1>4, <1>5, <1>a, QuietIsNothing
<1>8. Awaits(c) /\ ~ Awaits(c)'
  <2>1. r \in Held(sq, flight, s)
    BY <1>0 DEF Held
  <2> QED
    BY <1>0, <1>2, <1>7, <1>a, <2>1 DEF Awaits, Quiet
<1>9. Misled(c) \/ (cpc[c] \notin {"loop", "write"} /\ ~ (op[c].res > 0))
  <2>1. ~ Quiet(c, op[c].n, sq, flight, cq)
    BY <1>8 DEF Awaits, Quiet
  <2> QED
    BY <2>1 DEF RingInv, Settled
<1>10. Latest'
  <2>1. Current(e)
    <3>1. Current(r)
      BY <1>0, <1>a DEF RingInv, Latest, Held
    <3> QED
      BY <1>1, <3>1 DEF Current
  <2> QED
    BY <1>0, <1>1, <2>1 DEF RingInv, Latest, Current
<1>11. Settled'
  <2> SUFFICES ASSUME NEW d \in Client, cpc[d] \in {"loop", "write"} \/ op[d].res > 0
               PROVE  Misled(d) \/ Quiet(d, op[d].n, sq, flight', cq')
    BY <1>0 DEF Settled, Misled
  <2>1. CASE d = c
    BY <1>9, <2>1
  <2>2. CASE d # c
    <3>1. Misled(d) \/ Quiet(d, op[d].n, sq, flight, cq)
      BY DEF RingInv, Settled
    <3> QED
      BY <1>0, <1>1, <1>2, <2>2, <3>1 DEF Quiet
  <2> QED
    BY <2>1, <2>2
<1>12. Others(c)
  <2>1. \A d \in Client : d # c => (Awaits(d)' => Awaits(d))
    BY <1>0 DEF Awaits
  <2>2. \A d \in Client : d # c => \A j \in Nat \ {0} : Gives(d, j)' => Gives(d, j)
    BY <1>0, <1>1, <1>2 DEF Gives
  <2> QED
    BY <1>0, <2>1, <2>2 DEF Others
<1>13. ~ (op[c].res > 0) => \A j \in Nat \ {0} : Gives(c, j)' => j = k
  BY <1>0, <1>1, <1>7, <1>a DEF Gives, Quiet
<1> QED
  BY <1>0, <1>2, <1>6, <1>8, <1>9, <1>10, <1>11, <1>12, <1>13, <1>a DEF RingInv

\* A receive that a misled connection has left behind takes bytes from its socket for nobody.
LEMMA StaleRing ==
    ASSUME NEW s \in Sched, NEW r, NEW k \in Nat \ {0}, TypeOK, RingInv, IoDone(s, r, k), r.task \in Client,
           r.n # op[r.task].n, UNCHANGED cpc
    PROVE  RingInv' /\ Calm /\ UNCHANGED op /\ op[r.task].foreign
<1>0. /\ r \in flight[s] /\ r \in AnyIo /\ UNCHANGED <<sq, op>>
      /\ flight' \in [Sched -> SUBSET Req] /\ Shrinks(AnyIo, flight', flight)
      /\ \A v \in Sched : \A x \in Held(sq, flight', v) : x \in Held(sq, flight, v) \/ x.kind = "armed"
  BY MovedShape
<1>1. PICK e \in AnyMoved :
              /\ e.task = r.task /\ e.n = r.n /\ e.res = k /\ Pushes(cq', cq, s, e, Cqe)
              /\ \A v \in Sched : \A x \in ToSet(cq'[v]) : x \in ToSet(cq[v]) \/ x = e
  BY MovedShape
<1>2. Now[r.task] = op[r.task].n /\ Now' = Now /\ r.kind = "io"
  BY <1>0 DEF Now, AnyIo
<1>3. Shrinks(ClientIo(Now), flight', flight) /\ Queues(sq, flight, cq) /\ e \notin Moved(Now)
  BY <1>0, <1>1, <1>2, QueuesNow DEF ClientIo, Moved, Shrinks
<1>4. Unique(ClientIo(Now), Moved(Now), sq, flight', cq) /\ Queues(sq, flight', cq)
  BY <1>0, <1>3, UniqueShrunk DEF RingInv
<1>5. Unique(ClientIo(Now), Moved(Now), sq, flight', cq')
  BY <1>1, <1>3, <1>4, UniqueCompleted
<1>6. Current(r) /\ op[r.task].foreign
  BY <1>0, <1>2 DEF RingInv, Latest, Current, Held
<1>7. Latest'
  <2>1. Current(e)
    BY <1>1, <1>6 DEF Current
  <2> QED
    BY <1>0, <1>1, <2>1 DEF RingInv, Latest, Current
<1>8. Settled'
  <2> SUFFICES ASSUME NEW d \in Client, cpc[d] \in {"loop", "write"} \/ op[d].res > 0
               PROVE  Misled(d) \/ Quiet(d, op[d].n, sq, flight', cq')
    BY <1>0 DEF Settled, Misled
  <2>1. Misled(d) \/ Quiet(d, op[d].n, sq, flight, cq)
    BY DEF RingInv, Settled
  <2> QED
    BY <1>0, <1>1, <2>1 DEF Quiet
<1>9. Calm
  <2>1. \A d \in Client : Awaits(d)' => Awaits(d)
    BY <1>0 DEF Awaits
  <2>2. \A d \in Client : \A j \in Nat \ {0} : Gives(d, j)' => Gives(d, j)
    BY <1>0, <1>1 DEF Gives
  <2> QED
    BY <1>0, <2>1, <2>2 DEF Calm
<1> QED
  BY <1>0, <1>2, <1>5, <1>6, <1>7, <1>8, <1>9 DEF RingInv

-----------------------------------------------------------------------------
(* The sessions                                                            *)

\* What a step leaves of the session of c.
SameBook(c) ==
    /\ cpc'[c] = cpc[c] /\ buf'[c] = buf[c] /\ off'[c] = off[c] /\ served'[c] = served[c]
    /\ got'[c] = got[c] /\ total'[c] - sent'[c] = total[c] - sent[c]

\* What a client gets depends on the offsets and on what is under way ...
LEMMA RepliesKept ==
    ASSUME NEW c \in Client, Session(c), Open' => Open, cpc'[c] = cpc[c], off'[c] = off[c],
           served'[c] = served[c], got'[c] = got[c], op'[c].kind = op[c].kind, Awaits(c)' => Awaits(c),
           \A k \in Nat \ {0} : Gives(c, k)' => Gives(c, k) \/ Misled(c)'
    PROVE  KindOk(c)' /\ InOrder(got[c])' /\ Replied(c)'
<1>1. KindOk(c)' /\ InOrder(got[c])'
  BY DEF Session, KindOk, InOrder
<1>2. cpc[c] = "send" => \A k \in Nat \ {0} : Gives(c, k)' => Gives(c, k)
  BY DEF Session, KindOk, Misled
<1>3. Base(c)' = Base(c)
  BY DEF Base
<1>4. Replied(c)'
  BY <1>2, <1>3 DEF Session, Replied
<1> QED
  BY <1>1, <1>4

\* ... and a session on its other counters too.
LEMMA SessionKept ==
    ASSUME NEW c \in Client, Session(c), SameBook(c), Open' => Open,
           op'[c].kind = op[c].kind, op[c].foreign => op'[c].foreign, Awaits(c)' => Awaits(c),
           \A k \in Nat \ {0} : Gives(c, k)' => Gives(c, k) \/ Misled(c)'
    PROVE  Session(c)'
<1>1. KindOk(c)' /\ InOrder(got[c])' /\ Replied(c)'
  BY RepliesKept DEF SameBook
<1>2. Received(c)'
  <2>1. Taken(c)' = Taken(c) /\ In(c)' = In(c)
    BY DEF SameBook, Taken, In
  <2>2. ~ op'[c].foreign => ~ Misled(c)'
    BY DEF Misled
  <2> QED
    BY <2>1, <2>2 DEF Session, Received, SameBook
<1> QED
  BY <1>1, <1>2 DEF Session

\* A step that brings nothing to any connection ...
LEMMA CalmSession ==
    ASSUME SessInv, RingInv', Calm, SessType', \A c \in Client : SameBook(c), Open' => Open,
           DealInv', InitIdle'
    PROVE  SessInv'
<1>1. ASSUME NEW c \in Client PROVE Session(c)'
  BY SessionKept DEF SessInv, Calm
<1> QED
  BY <1>1 DEF SessInv

\* ... and one that concerns connection c.
LEMMA OneSession ==
    ASSUME SessInv, RingInv', SessType', NEW c \in Client, Others(c), Session(c)',
           \A d \in Client : d # c => SameBook(d), Open' => Open, DealInv', InitIdle'
    PROVE  SessInv'
<1>1. ASSUME NEW d \in Client, d # c PROVE Session(d)'
  BY <1>1, SessionKept DEF SessInv, Others
<1> QED
  BY <1>1 DEF SessInv

\* main clears running_ for good, and no coroutine runs before the threads do.
LEMMA NextOpen ==
    ASSUME HNext
    PROVE  (Open' => Open) /\ (mpc' = "init" => mpc = "init")
<1>1. CASE Main \/ StopServer
  BY <1>1 DEF Main, StartThreads, StartAcceptLoop, StopServer, StopScheduler, Joined, Open
<1>2. CASE AcceptStep \/ AcceptFails
  BY <1>2 DEF AcceptStep, AcceptAwait, AcceptDeal, AcceptError, AcceptExit, AcceptFails, Open, server
<1>3. ASSUME NEW s \in Sched, Thread(s) \/ SocketStep(s) \/ Timer(s) \/ BadTimespec(s) \/ DanglingCompletion(s)
      PROVE  (Open' => Open) /\ (mpc' = "init" => mpc = "init")
  BY <1>3 DEF Thread, SocketStep, RecvDone, SendDone, Timer, BadTimespec, DanglingCompletion, Open, server
<1>4. ASSUME NEW s \in Sched, WorkerTask(s)
      PROVE  (Open' => Open) /\ (mpc' = "init" => mpc = "init")
  <2>1. PICK c \in Client : ConnStep(s, c)
    BY <1>4 DEF WorkerTask
  <2>2. CASE ConnRequest(s, c) \/ ConnReceived(s, c) \/ ConnSent(s, c) \/ ConnKeepAlive(s, c)
             \/ ConnRecv(s, c) \/ ConnSend(s, c) \/ ConnSubmitFails(s, c)
    BY <2>2 DEF ConnRequest, ConnReceived, ConnSent, ConnKeepAlive, ConnRecv, ConnSend, ConnSubmitFails,
                Open, server
  <2>3. CASE ConnStopped(s, c) \/ ConnEnd(s, c) \/ ConnError(s, c) \/ ConnClose(s, c)
    BY <2>3 DEF ConnStopped, ConnEnd, ConnError, ConnClose, Rethrow, Return, Crash, Open, server
  <2> QED
    BY <2>1, <2>2, <2>3 DEF ConnStep
<1>5. ASSUME NEW c \in Client, Connect(c) \/ ClientSends(c) \/ ClientCloses(c) \/ AcceptDone(c)
      PROVE  (Open' => Open) /\ (mpc' = "init" => mpc = "init")
  BY <1>5 DEF Connect, ClientSends, ClientCloses, AcceptDone, Open, server
<1> QED
  BY <1>1, <1>2, <1>3, <1>4, <1>5 DEF HNext

\* Of a scheduler's steps only those of its thread put a coroutine on the processor.
LEMMA OtherIdle ==
    ASSUME NEW v \in Sched, TypeOK, cur[v].task = NoTask, OtherStep
    PROVE  cur'[v].task = NoTask
<1>0. cur \in [Sched -> Item \cup {Idle}] /\ Idle.task = NoTask
  BY DEF TypeOK, Idle
<1>1. CASE UNCHANGED svars
  BY <1>1 DEF svars
<1>2. ASSUME NEW x, Stop(x) PROVE cur'[v].task = NoTask
  BY <1>2 DEF Stop
<1>3. ASSUME NEW s \in Sched, NEW kind \in {"plain", "timed"}, Finish(s) \/ Await(s, kind) \/ AwaitThrows(s, kind)
      PROVE  cur'[v].task = NoTask
  <2>1. UNCHANGED cur \/ cur' = [cur EXCEPT ![s] = Idle]
    BY <1>3 DEF Finish, Await, AwaitThrows
  <2> QED
    BY <1>0, <2>1
<1>4. ASSUME NEW s \in Sched, NEW r, NEW res \in Int, IoDone(s, r, res) \/ TimerFires(s, r) \/ TimerRejected(s, r)
      PROVE  cur'[v].task = NoTask
  BY <1>4 DEF IoDone, TimerFires, TimerRejected
<1>5. CASE Die
  BY <1>0, <1>5 DEF Die
<1>6. "plain" \in {"plain", "timed"} /\ 0 \in Int
  OBVIOUS
<1> QED
  BY <1>1, <1>2, <1>3, <1>4, <1>5, <1>6 DEF OtherStep

\* InitIdle is inductive.
LEMMA NextIdle ==
    ASSUME SessInv, HNext
    PROVE  InitIdle'
<1> SUFFICES ASSUME mpc' = "init", NEW v \in Sched PROVE cur'[v].task = NoTask
  BY DEF InitIdle
<1>0. mpc = "init" /\ TypeOK
  BY NextOpen DEF SessInv, DealInv, SchedInv
<1>1. cur[v].task = NoTask /\ cur[Acceptor].task = NoTask
  BY <1>0, TheTasks DEF SessInv, InitIdle
<1>2. ~ StartAcceptLoop /\ ~ AcceptDeal /\ ~ \E s \in Sched : Thread(s)
  BY <1>0, <1>1, TheTasks, NoTaskIsNoTask DEF StartAcceptLoop, AcceptDeal, Accepting, Thread
<1>3. OtherStep
  BY <1>2, NextIsCore
<1> QED
  BY <1>0, <1>1, <1>3, OtherIdle

\* The steps that leave the sessions alone.
LEMMA CalmNext ==
    ASSUME SessInv, HNext, RingInv', Calm, UNCHANGED <<buf, off, served, sent, total, got>>,
           \A c \in Client : cpc'[c] = cpc[c]
    PROVE  SessInv'
<1>1. SessType' /\ \A c \in Client : SameBook(c)
  BY DEF SessInv, SessType, SameBook
<1>2. DealInv'
  BY NextDeal DEF SessInv
<1> QED
  BY <1>1, <1>2, NextIdle, NextOpen, CalmSession

\* The counters of c change, those of the others do not.
LEMMA OneNext ==
    ASSUME SessInv, HNext, RingInv', NEW c \in Client, Others(c), Session(c)', SessType',
           \A d \in Client : d # c =>
              /\ buf'[d] = buf[d] /\ off'[d] = off[d] /\ served'[d] = served[d] /\ got'[d] = got[d]
              /\ total'[d] = total[d] /\ sent'[d] = sent[d]
    PROVE  SessInv'
<1>1. \A d \in Client : d # c => SameBook(d)
  BY DEF SameBook, Others
<1>2. DealInv'
  BY NextDeal DEF SessInv
<1> QED
  BY <1>1, <1>2, NextIdle, NextOpen, OneSession

\* The steps of main keep SessInv ...
LEMMA MainSession ==
    ASSUME SessInv, HNext, Main \/ StopServer
    PROVE  SessInv'
<1>1. UNCHANGED <<sq, flight, cq, op, cpc, buf, off, served, sent, total, got>>
  BY DEF Main, StartThreads, StartAcceptLoop, StopServer, StopScheduler, Joined, Start, Stop,
         svars, ring, coro, session, peer
<1>2. RingInv' /\ Calm
  BY <1>1, FrameRing DEF SessInv, SameOps
<1> QED
  BY <1>1, <1>2, CalmNext

\* ... those of the accept loop ...
LEMMA AcceptSession ==
    ASSUME SessInv, HNext, AcceptStep
    PROVE  SessInv'
<1>0. /\ AcceptLoop \in Task /\ AcceptLoop \notin Client /\ Client \subseteq Task /\ TypeOK /\ RingInv
      /\ Acceptor \in Sched /\ cpc \in [Task -> {"loop", "io", "write", "send"}]
  BY TheTasks DEF SessInv, DealInv, SchedInv, DealType
<1>1. UNCHANGED <<buf, off, served, sent, total, got>>
  BY DEF AcceptStep, AcceptAwait, AcceptDeal, AcceptError, AcceptExit, session, peer
<1>2. \A c \in Client : cpc'[c] = cpc[c]
  BY <1>0 DEF AcceptStep, AcceptAwait, AcceptDeal, AcceptError, AcceptExit, session
<1>3. CASE AcceptDeal \/ AcceptError \/ AcceptExit
  <2>1. UNCHANGED <<sq, flight, cq, op>>
    BY <1>3 DEF AcceptDeal, AcceptError, AcceptExit, Post, Finish, svars, ring, coro
  <2>2. RingInv' /\ Calm
    BY <1>0, <1>2, <2>1, FrameRing DEF SameOps
  <2> QED
    BY <1>1, <1>2, <2>2, CalmNext
<1>4. CASE AcceptAwait
  <2>0. Await(Acceptor, "plain") /\ cur[Acceptor].task = AcceptLoop /\ UNCHANGED cq
    BY <1>4 DEF AcceptAwait, Accepting, Await
  <2>1. /\ Unique(ClientIo(Now), Moved(Now), sq', flight', cq)
        /\ \A v \in Sched : \A x \in Held(sq', flight', v) :
              x \in Held(sq, flight, v) \/ (x.task = AcceptLoop /\ (x.kind = "io" => x.n = op[AcceptLoop].n + 1))
    BY <1>0, <2>0, AwaitHeld DEF RingInv
  <2>2. SameOps
    BY <1>0, <2>0, AwaitShape DEF SameOps
  <2>3. Fewer(sq', flight', cq', sq, flight, cq)
    BY <1>0, <2>0, <2>1 DEF Fewer
  <2>4. RingInv' /\ Calm
    BY <1>0, <1>2, <2>0, <2>1, <2>2, <2>3, CalmStep
  <2> QED
    BY <1>1, <1>2, <2>4, CalmNext
<1> QED
  BY <1>3, <1>4 DEF AcceptStep

\* ... an accept that completes ...
LEMMA AcceptedSession ==
    ASSUME SessInv, HNext, AcceptFails \/ \E c \in Client : AcceptDone(c)
    PROVE  SessInv'
<1>0. TypeOK /\ RingInv /\ Acceptor \in Sched /\ EIO \in Int /\ 1 \in Int
  BY TheTasks DEF SessInv, DealInv, SchedInv, EIO
<1>1. UNCHANGED <<cpc, buf, off, served, sent, total, got>>
  BY DEF AcceptFails, AcceptDone, session, peer
<1>2. PICK r \in flight[Acceptor], res \in Int : IoDone(Acceptor, r, res)
  BY <1>0 DEF AcceptFails, AcceptDone
<1>3. r.task \notin Client
  <2> SUFFICES ASSUME r.task \in Client PROVE FALSE
    OBVIOUS
  <2>1. Here(Acceptor, r.task)
    BY DEF Here, InRing, Held
  <2>2. home[r.task] = Acceptor /\ home[r.task] \in ToSet(Worker) \cup {NoTask}
    BY <1>0, <2>1 DEF SessInv, DealInv, AtHome, DealType
  <2> QED
    BY <1>0, <2>2, SchedsOfServer
<1>4. RingInv' /\ Calm
  BY <1>0, <1>1, <1>2, <1>3, IoDoneRing
<1> QED
  BY <1>1, <1>4, CalmNext

\* ... those of the threads and timers ...
LEMMA ThreadSession ==
    ASSUME SessInv, HNext, NEW s \in Sched,
           Thread(s) \/ Timer(s) \/ BadTimespec(s) \/ DanglingCompletion(s)
    PROVE  SessInv'
<1>0. SchedInv /\ TypeOK /\ RingInv
  BY DEF SessInv, DealInv, SchedInv
<1>1. UNCHANGED <<cpc, buf, off, served, sent, total, got>>
  BY DEF Thread, Timer, BadTimespec, DanglingCompletion, session, peer
<1>2. RingInv' /\ Calm
  BY <1>0, <1>1, ThreadRing, TimerRing, DieRing DEF Thread, Timer, BadTimespec, DanglingCompletion, ReapDangling
<1> QED
  BY <1>1, <1>2, CalmNext

\* ... and those of the clients, which only add to what is in the socket.
LEMMA PeerSession ==
    ASSUME SessInv, HNext, NEW c \in Client, Connect(c) \/ ClientSends(c) \/ ClientCloses(c)
    PROVE  SessInv'
<1>1. UNCHANGED <<sq, flight, cq, op, cpc, buf, off, served, got>>
  BY DEF Connect, ClientSends, ClientCloses, svars, ring, coro, session, peer
<1>2. RingInv' /\ Calm
  BY <1>1, FrameRing DEF SessInv, SameOps
<1>3. CASE UNCHANGED <<sent, total>>
  BY <1>1, <1>2, <1>3, CalmNext
<1>4. CASE /\ total' = [total EXCEPT ![c] = @ + 1]
           /\ sent' = [sent EXCEPT ![c] = @ + 1]
  <2>0. SessType
    BY DEF SessInv
  <2>1. SessType'
    BY <1>1, <1>4, <2>0 DEF SessType
  <2>2. \A d \in Client : SameBook(d)
    <3> SUFFICES ASSUME NEW d \in Client PROVE total'[d] - sent'[d] = total[d] - sent[d]
      BY <1>1 DEF SameBook
    <3> QED
      BY <1>4, <2>0 DEF SessType
  <2>3. DealInv'
    BY NextDeal DEF SessInv
  <2> QED
    BY <1>2, <2>1, <2>2, <2>3, NextIdle, NextOpen, CalmSession
<1> QED
  BY <1>3, <1>4 DEF Connect, ClientSends, ClientCloses, peer

\* The counters of a session are numbers.
LEMMA Counters ==
    ASSUME SessInv, NEW c \in Client
    PROVE  /\ sent[c] \in Nat /\ total[c] \in Nat /\ buf[c] \in Nat /\ off[c] \in Nat /\ served[c] \in Nat
           /\ got[c] \in Seq(Nat \X Nat) /\ Len(got[c]) \in Nat /\ op[c].res \in Int
           /\ c \in Task /\ cpc \in [Task -> {"loop", "io", "write", "send"}] /\ SessType
           /\ SchedInv /\ TypeOK /\ RingInv /\ DealType /\ Session(c)
<1>1. SessType /\ SchedInv /\ TypeOK /\ RingInv /\ DealType /\ Session(c) /\ c \in Task
  BY TheTasks DEF SessInv, DealInv, SchedInv
<1>2. op[c].res \in Int /\ cpc \in [Task -> {"loop", "io", "write", "send"}]
  BY <1>1 DEF TypeOK, Op, DealType
<1>3. /\ sent[c] \in Nat /\ total[c] \in Nat /\ buf[c] \in Nat /\ off[c] \in Nat /\ served[c] \in Nat
      /\ got[c] \in Seq(Nat \X Nat)
  BY <1>1 DEF SessType
<1> QED
  BY <1>1, <1>2, <1>3

\* A connection that ends, or the process, leaves its session as it was.
LEMMA ConnEndsSession ==
    ASSUME SessInv, HNext, NEW s \in Sched, NEW c \in Client,
           ConnStopped(s, c) \/ ConnEnd(s, c) \/ ConnError(s, c) \/ ConnClose(s, c)
    PROVE  SessInv'
<1>0. TypeOK /\ RingInv
  BY Counters
<1>1. Return(s, c) \/ Crash
  BY DEF ConnStopped, ConnEnd, ConnError, ConnClose, Rethrow
<1>2. UNCHANGED <<cpc, buf, off, served, sent, total, got>>
  BY <1>1 DEF Return, Crash, session, peer
<1>3. CASE Return(s, c)
  <2>1. UNCHANGED <<sq, flight, cq, op>>
    BY <1>3 DEF Return, Finish, ring
  <2>2. RingInv' /\ Calm
    BY <1>0, <1>2, <2>1, FrameRing DEF SameOps
  <2> QED
    BY <1>2, <2>2, CalmNext
<1>4. CASE Crash
  <2>1. RingInv' /\ Calm
    BY <1>0, <1>2, <1>4, DieRing DEF Crash
  <2> QED
    BY <1>2, <2>1, CalmNext
<1> QED
  BY <1>1, <1>3, <1>4

\* Taking a request out of the buffer and preparing its response.
LEMMA ConnRequestSession ==
    ASSUME SessInv, HNext, NEW s \in Sched, NEW c \in Client, ConnRequest(s, c)
    PROVE  SessInv'
<1>0. /\ cpc[c] = "loop" /\ srv /\ buf[c] >= ReqLen /\ cpc' = [cpc EXCEPT ![c] = "write"]
      /\ buf' = [buf EXCEPT ![c] = @ - ReqLen] /\ served' = [served EXCEPT ![c] = @ + 1]
      /\ off' = [off EXCEPT ![c] = 0] /\ UNCHANGED <<sq, flight, cq, op, sent, total, got>>
  BY DEF ConnRequest, At, svars, ring, coro, peer
<1>1. RingInv' /\ Others(c) /\ cpc'[c] = "write"
  BY <1>0, Counters, ConnGoesOn
<1>2. /\ buf'[c] = buf[c] - ReqLen /\ served'[c] = served[c] + 1 /\ off'[c] = 0
      /\ \A d \in Client : d # c => buf'[d] = buf[d] /\ served'[d] = served[d] /\ off'[d] = off[d]
  BY <1>0, Counters DEF SessType
<1>3. SessType'
  BY <1>0, <1>2, Counters, LengthsArePositive DEF SessType
<1>4. Received(c)'
  <2>1. served'[c] * ReqLen + buf'[c] = served[c] * ReqLen + buf[c]
    BY <1>2, Counters, LengthsArePositive
  <2>2. Taken(c)' = Taken(c) /\ In(c)' = In(c)
    BY <1>0, <2>1 DEF Taken, In
  <2> QED
    BY <1>0, <1>1, <2>2, Counters DEF Received, Session
<1>5. Replied(c)'
  <2>1. Len(got[c]) = served[c] * RespLen
    BY <1>0, Counters DEF Session, Replied, Open
  <2>2. (served'[c] - 1) * RespLen + off'[c] = served[c] * RespLen
    BY <1>2, Counters, LengthsArePositive
  <2>3. served'[c] > 0 /\ off'[c] <= RespLen
    BY <1>2, Counters, LengthsArePositive
  <2> QED
    BY <1>0, <1>1, <2>1, <2>2, <2>3 DEF Replied, Base
<1>6. Session(c)'
  BY <1>0, <1>1, <1>4, <1>5, Counters DEF Session, KindOk
<1> QED
  BY <1>0, <1>1, <1>2, <1>3, <1>6, OneNext

\* Awaiting a receive or a send: the connection had nothing under way.
LEMMA ConnAwaitsSession ==
    ASSUME SessInv, HNext, NEW s \in Sched, NEW c \in Client,
           ConnRecv(s, c) \/ ConnSend(s, c) \/ ConnSubmitFails(s, c)
    PROVE  SessInv'
<1>0. UNCHANGED <<buf, off, served, sent, total, got>> /\ cur[s].task = c
  BY DEF ConnRecv, ConnSend, ConnSubmitFails, At, peer
<1>1. SessType'
  BY <1>0, Counters DEF SessType
<1>2. CASE /\ cpc[c] = "loop" /\ (Await(s, "timed") \/ AwaitThrows(s, "timed"))
           /\ cpc' = [cpc EXCEPT ![c] = "io"]
  <2>1. /\ RingInv' /\ Others(c) /\ op'[c].kind = "timed" /\ cpc'[c] = "io"
        /\ op'[c].foreign = op[c].foreign /\ \A k \in Nat \ {0} : ~ Gives(c, k)'
    BY <1>0, <1>2, Counters, ConnAwaitRing
  <2>2. KindOk(c)' /\ InOrder(got[c])'
    BY <1>0, <2>1, Counters DEF KindOk, Session, InOrder
  <2>3. Received(c)'
    BY <1>0, <2>1, Counters DEF Received, Session, Taken, In
  <2>4. Open' => Open
    BY NextOpen
  <2>5. Replied(c)'
    BY <1>0, <1>2, <2>1, <2>4, Counters DEF Replied, Session
  <2> QED
    BY <1>0, <1>1, <2>1, <2>2, <2>3, <2>5, OneNext DEF Session
<1>3. CASE /\ cpc[c] = "write" /\ (Await(s, "plain") \/ AwaitThrows(s, "plain"))
           /\ cpc' = [cpc EXCEPT ![c] = "send"]
  <2>1. /\ RingInv' /\ Others(c) /\ op'[c].kind = "plain" /\ cpc'[c] = "send"
        /\ op'[c].foreign = op[c].foreign /\ \A k \in Nat \ {0} : ~ Gives(c, k)'
    BY <1>0, <1>3, Counters, ConnAwaitRing
  <2>2. KindOk(c)' /\ InOrder(got[c])'
    BY <1>0, <2>1, Counters DEF KindOk, Session, InOrder
  <2>3. Received(c)'
    BY <1>0, <2>1, Counters DEF Received, Session, Taken, In
  <2>4. Replied(c)'
    BY <1>0, <1>3, <2>1, Counters DEF Replied, Session, Base
  <2> QED
    BY <1>0, <1>1, <2>1, <2>2, <2>3, <2>4, OneNext DEF Session
<1> QED
  BY <1>2, <1>3 DEF ConnRecv, ConnSend, ConnSubmitFails, At

\* Adding what was received to the buffer.
LEMMA ConnReceivedSession ==
    ASSUME SessInv, HNext, NEW s \in Sched, NEW c \in Client, ConnReceived(s, c)
    PROVE  SessInv'
<1>0. /\ cpc[c] = "io" /\ op[c].res > 0 /\ cpc' = [cpc EXCEPT ![c] = "loop"]
      /\ buf' = [buf EXCEPT ![c] = @ + op[c].res]
      /\ UNCHANGED <<sq, flight, cq, op, off, served, sent, total, got>>
  BY DEF ConnReceived, At, svars, ring, coro, peer
<1>1. RingInv' /\ Others(c) /\ cpc'[c] = "loop"
  BY <1>0, Counters, ConnGoesOn
<1>2. PICK k \in Nat \ {0} : k = op[c].res
  BY <1>0, Counters
<1>3. buf'[c] = buf[c] + k /\ \A d \in Client : d # c => buf'[d] = buf[d]
  BY <1>0, <1>2, Counters DEF SessType
<1>4. SessType'
  BY <1>0, <1>2, <1>3, Counters, SMTT(30) DEF SessType
<1>5. Received(c)'
  <2>0. SUFFICES ASSUME ~ op[c].foreign PROVE Received(c)'
    BY <1>0 DEF Received
  <2>1. served[c] * ReqLen + buf[c] + k <= total[c] - sent[c]
    BY <1>0, <1>2, <2>0, Counters DEF Session, Received, Gives, Taken, In
  <2>2. PICK m \in Nat : m = served[c] * ReqLen
    BY Counters, LengthsArePositive
  <2>3. m + (buf[c] + k) <= total[c] - sent[c]
    BY <2>1, <2>2, Counters
  <2> QED
    BY <1>0, <1>1, <1>3, <2>2, <2>3 DEF Received, Taken, In
<1>6. Replied(c)'
  <2>1. Open' => Open
    BY NextOpen
  <2> QED
    BY <1>0, <1>1, <2>1, Counters DEF Replied, Session
<1>7. Session(c)'
  BY <1>0, <1>1, <1>5, <1>6, Counters DEF Session, KindOk
<1> QED
  BY <1>0, <1>1, <1>3, <1>4, <1>7, OneNext

\* Advancing the offset of write_all by what was sent.
LEMMA ConnSentSession ==
    ASSUME SessInv, HNext, NEW s \in Sched, NEW c \in Client, ConnSent(s, c)
    PROVE  SessInv'
<1>0. /\ cpc[c] = "send" /\ op[c].res > 0 /\ cpc' = [cpc EXCEPT ![c] = "write"]
      /\ off' = [off EXCEPT ![c] = @ + op[c].res]
      /\ UNCHANGED <<sq, flight, cq, op, buf, served, sent, total, got>>
  BY DEF ConnSent, At, svars, ring, coro, peer
<1>1. RingInv' /\ Others(c) /\ cpc'[c] = "write"
  BY <1>0, Counters, ConnGoesOn
<1>2. PICK k \in Nat \ {0} : k = op[c].res
  BY <1>0, Counters
<1>3. off'[c] = off[c] + k /\ \A d \in Client : d # c => off'[d] = off[d]
  BY <1>0, <1>2, Counters DEF SessType
<1>4. SessType'
  BY <1>0, <1>2, <1>3, Counters, SMTT(30) DEF SessType
<1>5. Received(c)'
  BY <1>0, <1>1, Counters DEF Received, Session, Taken, In
<1>6. Replied(c)'
  <2>1. /\ Len(got[c]) = (served[c] - 1) * RespLen + off[c] + k /\ off[c] + k <= RespLen
        /\ served[c] > 0
    BY <1>0, <1>2, Counters DEF Session, Replied, Gives, Base
  <2>2. PICK m \in Nat : m = (served[c] - 1) * RespLen
    <3>1. PICK n \in Nat : n = served[c] - 1
      BY <2>1, Counters
    <3> QED
      BY <3>1, LengthsArePositive
  <2>3. Len(got[c]) = m + (off[c] + k)
    BY <2>1, <2>2, Counters
  <2> QED
    BY <1>0, <1>1, <1>3, <2>1, <2>2, <2>3 DEF Replied, Base
<1>7. Session(c)'
  BY <1>0, <1>1, <1>5, <1>6, Counters DEF Session, KindOk
<1> QED
  BY <1>0, <1>1, <1>3, <1>4, <1>7, OneNext

\* The end of write_all, while the server runs: the response is whole.
LEMMA ConnKeepAliveSession ==
    ASSUME SessInv, HNext, NEW s \in Sched, NEW c \in Client, ConnKeepAlive(s, c)
    PROVE  SessInv'
<1>0. /\ cpc[c] = "write" /\ (off[c] >= RespLen \/ ~ srv) /\ cpc' = [cpc EXCEPT ![c] = "loop"]
      /\ cur[s].task = c
      /\ UNCHANGED <<sq, flight, cq, op, buf, off, served, sent, total, got, mpc, srv>>
  BY DEF ConnKeepAlive, WriteAllOver, At, svars, ring, coro, peer, server
<1>1. RingInv' /\ Others(c) /\ cpc'[c] = "loop"
  BY <1>0, Counters, ConnGoesOn DEF ConnKeepAlive
<1>2. SessType'
  BY <1>0, Counters DEF SessType
<1>3. Received(c)'
  BY <1>0, <1>1, Counters DEF Received, Session, Taken, In
<1>4. mpc # "init"
  BY <1>0, TheTasks, NoTaskIsNoTask DEF SessInv, InitIdle
<1>5. Replied(c)'
  <2> SUFFICES ASSUME Open' PROVE Len(got[c]) = served[c] * RespLen
    BY <1>0, <1>1 DEF Replied
  <2>1. off[c] >= RespLen
    BY <1>0, <1>4 DEF Open
  <2>2. Len(got[c]) = (served[c] - 1) * RespLen + off[c] /\ off[c] <= RespLen /\ served[c] > 0
    BY <1>0, Counters DEF Session, Replied, Base
  <2>3. off[c] = RespLen
    BY <2>1, <2>2, Counters, LengthsArePositive
  <2> QED
    BY <2>2, <2>3, Counters, LengthsArePositive
<1>6. Session(c)'
  BY <1>0, <1>1, <1>3, <1>5, Counters DEF Session, KindOk
<1> QED
  BY <1>0, <1>1, <1>2, <1>6, OneNext

\* h is g followed by f, index by index.
JointOf(h, g, f) ==
    /\ Len(h) = Len(g) + Len(f) /\ Len(g) \in Nat /\ Len(f) \in Nat
    /\ \A i \in 1..Len(h) : \/ i \in 1..Len(g) /\ h[i] = g[i]
                            \/ i - Len(g) \in 1..Len(f) /\ h[i] = f[i - Len(g)]

\* That is what a concatenation is.
LEMMA JoinedPieces ==
    ASSUME NEW S, NEW g \in Seq(S), NEW f \in Seq(S)
    PROVE  g \o f \in Seq(S) /\ JointOf(g \o f, g, f)
<1>1. g \o f \in Seq(S) /\ Len(g \o f) = Len(g) + Len(f) /\ Len(g) \in Nat /\ Len(f) \in Nat
  BY ConcatProperties, LenProperties
<1>2. ASSUME NEW i \in 1..Len(g \o f)
      PROVE  \/ i \in 1..Len(g) /\ (g \o f)[i] = g[i]
             \/ i - Len(g) \in 1..Len(f) /\ (g \o f)[i] = f[i - Len(g)]
  <2>1. i \in DOMAIN (g \o f)
    BY <1>1, LenProperties
  <2>2. i \in DOMAIN g => i \in 1..Len(g)
    BY LenProperties
  <2> QED
    BY <2>1, <2>2, ConcatIndex
<1> QED
  BY <1>1, <1>2 DEF JointOf

\* Byte n * RespLen + b of the stream is byte b of the response that n others precede.
LEMMA StreamIndex ==
    ASSUME NEW n \in Nat, NEW b \in 0..(RespLen - 1), NEW i \in Int, i = n * RespLen + b
    PROVE  i % RespLen = b /\ i \div RespLen = n
<1>1. i = RespLen * n + b
  BY LengthsArePositive
<1>2. (RespLen * n + b) % RespLen = b /\ (RespLen * n + b) \div RespLen = n
  BY LengthsArePositive, DivisionUnique
<1> QED
  BY <1>1, <1>2

\* f is k bytes of response n, those after the first o.
Pieces(f, n, o, k) == f \in Seq(Nat \X Nat) /\ Len(f) = k /\ \A i \in 1..k : f[i] = <<n, o + i>>

\* Those are what SendDone delivers.
LEMMA SentPieces ==
    ASSUME NEW n \in Nat, NEW o \in Nat, NEW k \in Nat \ {0}, NEW f, f = [i \in 1..k |-> <<n, o + i>>]
    PROVE  Pieces(f, n, o, k)
<1>1. \A i \in 1..k : <<n, o + i>> \in Nat \X Nat
  OBVIOUS
<1>2. f \in [1..k -> Nat \X Nat]
  BY <1>1
<1>3. f \in Seq(Nat \X Nat) /\ Len(f) = k
  BY <1>2
<1> QED
  BY <1>3 DEF Pieces

\* k bytes of response n + 1, from offset o on, continue what the client has got.
LEMMA InOrderAppended ==
    ASSUME NEW g \in Seq(Nat \X Nat), InOrder(g), NEW n \in Nat, NEW o \in Nat, NEW k \in Nat \ {0},
           o + k <= RespLen, Len(g) = n * RespLen + o,
           NEW f, Pieces(f, n + 1, o, k)
    PROVE  g \o f \in Seq(Nat \X Nat) /\ Len(g \o f) = Len(g) + k /\ InOrder(g \o f)
<1>0. f \in Seq(Nat \X Nat) /\ Len(f) = k /\ \A i \in 1..k : f[i] = <<n + 1, o + i>>
  BY DEF Pieces
<1>1. PICK h : h = g \o f
  OBVIOUS
<1>2. h \in Seq(Nat \X Nat) /\ JointOf(h, g, f)
  <2>1. PICK S : S = Nat \X Nat
    OBVIOUS
  <2>2. g \in Seq(S) /\ f \in Seq(S)
    BY <1>0, <2>1
  <2>3. h \in Seq(S) /\ JointOf(h, g, f)
    BY <1>1, <2>2, JoinedPieces
  <2> QED
    BY <2>1, <2>3
<1>3. /\ Len(h) = Len(g) + k /\ Len(g) \in Nat
      /\ \A i \in 1..Len(h) : \/ i \in 1..Len(g) /\ h[i] = g[i]
                              \/ i - Len(g) \in 1..k /\ h[i] = f[i - Len(g)]
  BY <1>0, <1>2 DEF JointOf
<1>4. ASSUME NEW i \in 1..Len(h)
      PROVE  h[i] = <<((i - 1) \div RespLen) + 1, ((i - 1) % RespLen) + 1>>
  <2>1. CASE i \in 1..Len(g) /\ h[i] = g[i]
    BY <2>1 DEF InOrder
  <2>2. CASE i - Len(g) \in 1..k /\ h[i] = f[i - Len(g)]
    <3>1. PICK j \in 1..k : j = i - Len(g)
      BY <2>2
    <3>2. h[i] = <<n + 1, o + j>>
      BY <1>0, <2>2, <3>1
    <3>3. PICK m \in Nat : m = n * RespLen
      BY LengthsArePositive
    <3>4. i \in Int /\ i = m + o + j
      BY <1>3, <3>1, <3>3, SMTT(30)
    <3>5. o + j - 1 \in 0..(RespLen - 1)
      BY LengthsArePositive
    <3>6. PICK b \in 0..(RespLen - 1) : b = o + j - 1
      BY <3>5
    <3>7. i - 1 \in Int /\ i - 1 = n * RespLen + b
      BY <3>3, <3>4, <3>6, LengthsArePositive
    <3>8. (i - 1) % RespLen = b /\ (i - 1) \div RespLen = n
      BY <3>7, StreamIndex
    <3>9. o + j = b + 1
      BY <3>6
    <3> QED
      BY <3>2, <3>8, <3>9
  <2> QED
    BY <1>3, <2>1, <2>2
<1> QED
  BY <1>1, <1>2, <1>3, <1>4 DEF InOrder

\* The kernel fills a receive from the socket: the present one, or one that a misled connection has left behind.
LEMMA RecvSession ==
    ASSUME SessInv, HNext, NEW s \in Sched, NEW r, NEW c \in Client, r.task = c, NEW k \in 1..sent[c],
           op[c].kind = "timed" \/ r.n # op[c].n, IoDone(s, r, k), sent' = [sent EXCEPT ![c] = @ - k],
           UNCHANGED <<cpc, buf, off, served, total, got>>
    PROVE  SessInv'
<1>0. k \in Nat \ {0} /\ k <= sent[c] /\ (Open' => Open)
  BY Counters, NextOpen
<1>1. sent'[c] = sent[c] - k /\ \A d \in Client : d # c => sent'[d] = sent[d]
  BY <1>0, Counters DEF SessType
<1>2. SessType'
  BY <1>0, <1>1, Counters DEF SessType
<1>3. CASE r.n # op[c].n
  <2>1. RingInv' /\ Calm /\ UNCHANGED op /\ op[c].foreign
    BY <1>0, <1>3, Counters, StaleRing
  <2>2. \A d \in Client : d # c => SameBook(d)
    BY <1>1 DEF SameBook
  <2>3. ASSUME NEW d \in Client PROVE Session(d)'
    <3>1. CASE d # c
      BY <1>0, <2>1, <2>2, <3>1, SessionKept DEF SessInv, Calm
    <3>2. CASE d = c
      <4>1. KindOk(c)' /\ InOrder(got[c])' /\ Replied(c)'
        BY <1>0, <2>1, Counters, RepliesKept DEF Calm
      <4> QED
        BY <2>1, <3>2, <4>1 DEF Session, Received
    <3> QED
      BY <3>1, <3>2
  <2>4. DealInv'
    BY NextDeal DEF SessInv
  <2> QED
    BY <1>2, <2>1, <2>3, <2>4, NextIdle DEF SessInv
<1>4. CASE r.n = op[c].n
  <2>1. /\ RingInv' /\ Others(c) /\ UNCHANGED op
        /\ Misled(c) \/ (cpc[c] \notin {"loop", "write"} /\ \A j \in Nat \ {0} : Gives(c, j)' => j = k)
    BY <1>0, <1>4, Counters, MovedRing
  <2>2. cpc[c] # "send"
    BY <1>4, Counters DEF Session, KindOk
  <2>3. Received(c)'
    <3>0. SUFFICES ASSUME ~ op[c].foreign PROVE Received(c)'
      BY <2>1 DEF Received
    <3>1. PICK m \in Nat : m = served[c] * ReqLen + buf[c]
      <4>1. served[c] * ReqLen \in Nat
        BY Counters, LengthsArePositive
      <4> QED
        BY <4>1, Counters
    <3>2. m <= total[c] - sent[c]
      BY <3>0, <3>1, Counters DEF Session, Received, Taken, In
    <3>3. m + k <= total'[c] - sent'[c] /\ m <= total'[c] - sent'[c]
      BY <1>0, <1>1, <3>2, Counters
    <3>4. Taken(c)' = m /\ In(c)' = total'[c] - sent'[c]
      BY <3>1 DEF Taken, In
    <3>5. \A j \in Nat \ {0} : Gives(c, j)' => j = k
      BY <2>1, <3>0 DEF Misled
    <3> QED
      BY <3>3, <3>4, <3>5 DEF Received
  <2>4. Replied(c)'
    BY <1>0, <2>2, Counters DEF Replied, Session, Base
  <2>5. Session(c)'
    BY <2>1, <2>3, <2>4, Counters DEF Session, KindOk
  <2> QED
    BY <1>1, <1>2, <2>1, <2>5, OneNext
<1> QED
  BY <1>3, <1>4

\* The kernel sends from the offset on: the client gets what comes next.
LEMMA SendSession ==
    ASSUME SessInv, HNext, NEW s \in Sched, NEW r, NEW c \in Client, r.task = c, NEW k \in 1..(RespLen - off[c]),
           op[c].kind = "plain", r.n = op[c].n, IoDone(s, r, k),
           got' = [got EXCEPT ![c] = @ \o [i \in 1..k |-> <<served[c], off[c] + i>>]],
           UNCHANGED <<cpc, buf, off, served, sent, total>>
    PROVE  SessInv'
<1>0. k \in Nat \ {0} /\ off[c] + k <= RespLen
  BY Counters, LengthsArePositive, SMTT(30)
<1>1. /\ RingInv' /\ Others(c) /\ UNCHANGED op /\ Awaits(c) /\ ~ Awaits(c)'
      /\ cpc[c] \notin {"loop", "write"} /\ \A j \in Nat \ {0} : Gives(c, j)' => j = k
  BY <1>0, Counters, MovedRing DEF Misled
<1>2. cpc[c] = "send"
  <2>1. cpc[c] \in {"loop", "io", "write", "send"}
    BY Counters
  <2> QED
    BY <1>1, <2>1, Counters DEF Session, KindOk
<1>3. served[c] > 0 /\ Len(got[c]) = (served[c] - 1) * RespLen + off[c]
  BY <1>1, <1>2, Counters DEF Session, Replied, Base
<1>4. PICK n \in Nat : n = served[c] - 1 /\ served[c] = n + 1
  BY <1>3, Counters
<1>5. PICK f : f = [i \in 1..k |-> <<served[c], off[c] + i>>]
  OBVIOUS
<1>6. PICK h \in Seq(Nat \X Nat) : h = got[c] \o f /\ Len(h) = Len(got[c]) + k /\ InOrder(h)
  <2>1. PICK g \in Seq(Nat \X Nat) : g = got[c]
    BY Counters
  <2>2. PICK o \in Nat : o = off[c]
    BY Counters
  <2>3. InOrder(g) /\ o + k <= RespLen /\ Len(g) = n * RespLen + o
    BY <1>0, <1>3, <1>4, <2>1, <2>2, Counters DEF Session
  <2>4. Pieces(f, n + 1, o, k)
    <3>1. n + 1 \in Nat /\ f = [i \in 1..k |-> <<n + 1, o + i>>]
      BY <1>4, <1>5, <2>2
    <3> QED
      BY <1>0, <3>1, SentPieces
  <2>5. g \o f \in Seq(Nat \X Nat) /\ Len(g \o f) = Len(g) + k /\ InOrder(g \o f)
    BY <1>0, <2>3, <2>4, InOrderAppended
  <2> QED
    BY <2>1, <2>5
<1>7. got'[c] = h /\ \A d \in Client : d # c => got'[d] = got[d]
  BY <1>5, <1>6, Counters DEF SessType
<1>8. SessType'
  <2>1. got' \in [Client -> Seq(Nat \X Nat)]
    BY <1>6, <1>7, Counters DEF SessType
  <2> QED
    BY <2>1, Counters DEF SessType
<1>9. Replied(c)'
  BY <1>0, <1>1, <1>2, <1>3, <1>6, <1>7, Counters DEF Replied, Session, Base
<1>10. Session(c)'
  BY <1>1, <1>2, <1>6, <1>7, <1>9, Counters DEF Session, KindOk, Received, Taken, In
<1> QED
  BY <1>1, <1>7, <1>8, <1>10, OneNext

\* A receive or send ends, with bytes or without.
LEMMA SocketSession ==
    ASSUME SessInv, HNext, NEW s \in Sched, SocketStep(s)
    PROVE  SessInv'
<1>1. PICK r \in flight[s] : r.task \in Client /\ (RecvDone(s, r.task, r) \/ SendDone(s, r.task, r))
  BY DEF SocketStep
<1>2. PICK c \in Client : c = r.task
  BY <1>1
<1>3. CASE RecvDone(s, c, r)
  <2>0. /\ op[c].kind = "timed" \/ r.n # op[c].n
        /\ UNCHANGED <<cpc, buf, off, served, total, got>>
    BY <1>3 DEF RecvDone, session
  <2>1. ASSUME NEW k \in 1..sent[c], IoDone(s, r, k), sent' = [sent EXCEPT ![c] = @ - k] PROVE SessInv'
    BY <1>2, <2>0, <2>1, RecvSession
  <2>2. ASSUME NEW res \in Int, res <= 0, IoDone(s, r, res), UNCHANGED sent PROVE SessInv'
    <3>1. RingInv' /\ Calm
      BY <2>0, <2>2, Counters, IoDoneRing
    <3> QED
      BY <2>0, <2>2, <3>1, CalmNext
  <2>3. 0 \in Int /\ 0 <= 0 /\ EIO \in Int /\ EIO <= 0
    BY DEF EIO
  <2> QED
    BY <1>3, <2>1, <2>2, <2>3 DEF RecvDone
<1>4. CASE SendDone(s, c, r)
  <2>0. op[c].kind = "plain" /\ r.n = op[c].n /\ UNCHANGED <<cpc, buf, off, served, sent, total>>
    BY <1>4 DEF SendDone, session
  <2>1. ASSUME NEW k \in 1..(RespLen - off[c]), IoDone(s, r, k),
               got' = [got EXCEPT ![c] = @ \o [i \in 1..k |-> <<served[c], off[c] + i>>]]
        PROVE  SessInv'
    BY <1>2, <2>0, <2>1, SendSession
  <2>2. ASSUME IoDone(s, r, EIO), UNCHANGED got PROVE SessInv'
    <3>1. RingInv' /\ Calm
      BY <2>0, <2>2, Counters, IoDoneRing DEF EIO
    <3> QED
      BY <2>0, <2>2, <3>1, CalmNext
  <2> QED
    BY <1>4, <2>1, <2>2 DEF SendDone
<1> QED
  BY <1>1, <1>2, <1>3, <1>4

\* SessInv is inductive.
LEMMA NextSession == SessInv /\ [HNext]_hvars => SessInv'
<1> SUFFICES ASSUME SessInv, [HNext]_hvars PROVE SessInv'
  OBVIOUS
<1>1. CASE UNCHANGED hvars
  <2>1. /\ UNCHANGED <<sq, flight, cq, op, cur, cpc, buf, off, served, sent, total, got, mpc, srv>>
    BY <1>1 DEF hvars, svars, ring, coro, server, session, peer
  <2>2. RingInv' /\ Calm
    BY <2>1, FrameRing DEF SessInv, SameOps
  <2>3. SessType' /\ InitIdle' /\ (Open' => Open) /\ \A c \in Client : SameBook(c)
    BY <2>1 DEF SessInv, SessType, InitIdle, Open, SameBook
  <2>4. DealInv'
    BY <1>1, NextDeal DEF SessInv
  <2> QED
    BY <2>2, <2>3, <2>4, CalmSession
<1>2. CASE HNext
  <2>1. ASSUME NEW s \in Sched, WorkerTask(s) PROVE SessInv'
    <3>1. PICK c \in Client : ConnStep(s, c)
      BY <2>1 DEF WorkerTask
    <3> QED
      BY <1>2, <3>1, ConnEndsSession, ConnRequestSession, ConnAwaitsSession, ConnReceivedSession,
         ConnSentSession, ConnKeepAliveSession DEF ConnStep
  <2> QED
    BY <1>2, <2>1, MainSession, AcceptSession, AcceptedSession, ThreadSession, PeerSession, SocketSession DEF HNext
<1> QED
  BY <1>1, <1>2

\* SessInv holds initially.
LEMMA InitSession == HInit => SessInv
<1> SUFFICES ASSUME HInit PROVE SessInv
  OBVIOUS
<1>1. DealInv
  BY InitDeal
<1>2. SessType
  BY DEF HInit, SessType
<1>3. \A s \in Sched : /\ 1..Len(sq[s]) = {} /\ 1..Len(cq[s]) = {} /\ flight[s] = {} /\ cur[s].task = NoTask
                       /\ ToSet(sq[s]) = {} /\ ToSet(cq[s]) = {}
  BY DEF HInit, Init, ToSet, Idle
<1>4. RingInv
  BY <1>3 DEF RingInv, Unique, OneEach, OneInFlight, QueuesApart, FlightApart, Latest, Settled, Quiet, Held
<1>5. InitIdle
  BY <1>3 DEF InitIdle
<1>6. ASSUME NEW c \in Client PROVE Session(c)
  <2>1. /\ cpc[c] = "loop" /\ buf[c] = 0 /\ off[c] = 0 /\ served[c] = 0 /\ sent[c] = 0 /\ total[c] = 0
        /\ got[c] = << >>
    BY TheTasks DEF HInit
  <2>2. 0 * ReqLen + 0 <= 0 - 0 /\ Len(<< >>) = 0 * RespLen /\ 1..Len(<< >>) = {}
    BY LengthsArePositive
  <2>3. Received(c)
    BY <2>1, <2>2 DEF Received, Taken, In
  <2>4. Replied(c)
    BY <2>1, <2>2 DEF Replied
  <2>5. InOrder(got[c])
    BY <2>1, <2>2 DEF InOrder
  <2> QED
    BY <2>1, <2>3, <2>4, <2>5 DEF Session, KindOk
<1> QED
  BY <1>1, <1>2, <1>4, <1>5, <1>6 DEF SessInv

\* For any number of clients and requests, on a connection that was given no bytes of another one: what
\* handle_connection has answered, with what it still has in its buffer, was taken out of its socket before, so
\* that no request is answered twice or before it is complete, although the receives of a connection share an
\* address and a late timeout may end one that is not its own.
THEOREM ServerAnswersWhatItReceived == HSpec => []AnswersFollowRequests
<1>1. HInit => SessInv
  BY InitSession
<1>2. SessInv /\ [HNext]_hvars => SessInv'
  BY NextSession
<1>3. SessInv => AnswersFollowRequests
  BY DEF SessInv, Session, Received, Taken, In, AnswersFollowRequests
<1> QED
  BY <1>1, <1>2, <1>3, PTL DEF HSpec

\* For any number of clients and requests, and any split of receives and sends: the bytes a client has got are
\* the responses to its requests one after the other, each from its first byte on, none skipped or repeated by
\* a partial send of write_all, by keep-alive or by pipelined requests.
THEOREM ServerRespondsInOrder == HSpec => []ResponsesInOrder
<1>1. HInit => SessInv
  BY InitSession
<1>2. SessInv /\ [HNext]_hvars => SessInv'
  BY NextSession
<1>3. SessInv => ResponsesInOrder
  BY DEF SessInv, Session, InOrder, ResponsesInOrder
<1> QED
  BY <1>1, <1>2, <1>3, PTL DEF HSpec
=============================================================================
