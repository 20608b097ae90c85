------------------------ MODULE UringSchedulerProofs ------------------------
(***************************************************************************)
(* Proofs about the io_uring scheduler, for any schedulers, coroutines,    *)
(* ring size and number of awaits.  SchedInv says where a coroutine may be *)
(* scheduled and in which state; RInv says that the requests of an untimed *)
(* coroutine are those of the operation it is suspended on; KeptInv that a *)
(* coroutine which awaits, with or without a timeout, has its request in   *)
(* the ring of its scheduler or its handle in that scheduler's queue.      *)
(***************************************************************************)
EXTENDS UringScheduler, SequenceTheorems, TLAPS

\* The records the queues hold, and the operation of a coroutine.
Item == [task : Task, destroy : BOOLEAN]
Req  == [task : Task, n : Nat, kind : {"io", "held", "armed", "free"}]
Cqe  == [task : Task, n : Nat, res : Int]
Op   == [n : Nat, kind : {"plain", "timed"}, live : BOOLEAN, completed : BOOLEAN,
         res : Int, at : Sched \cup {NoTask}, foreign : BOOLEAN]

\* The type of every variable of the scheduler.
TypeOK ==
    /\ running \in [Sched -> BOOLEAN]
    /\ lpc \in [Sched -> {"boot", "test", "swap", "resume", "reap", "exited"}]
    /\ last \in [Sched -> BOOLEAN]
    /\ posts \in [Sched -> Seq(Task)]
    /\ ready \in [Sched -> Seq(Item)]
    /\ batch \in [Sched -> Seq(Item)]
    /\ cur \in [Sched -> Item \cup {Idle}]
    /\ sq \in [Sched -> Seq(Req)]
    /\ flight \in [Sched -> SUBSET Req]
    /\ cq \in [Sched -> Seq(Cqe)]
    /\ st \in [Task -> {"none", "posted", "created", "running", "waiting", "done", "destroyed"}]
    /\ op \in [Task -> Op]

\* No task is twice in the queues q of all schedulers.
Once(q) ==
    \A v, w \in Sched : \A i \in 1..Len(q[v]), j \in 1..Len(q[w]) :
        q[v][i].task = q[w][j].task => v = w /\ i = j
\* No task is both in the queues p and in the queues q.
Apart(p, q) ==
    \A v, w \in Sched : \A i \in 1..Len(p[v]), j \in 1..Len(q[w]) : p[v][i].task # q[w][j].task

\* What the task of a queued handle is: not begun, or suspended on an operation that has its result.
Pending(t) == st[t] = "created" \/ (st[t] = "waiting" /\ op[t].live /\ op[t].completed)

\* The posted coroutines have not reached a ready queue, and each is posted once.
PostsPosted == \A s \in Sched : \A i \in 1..Len(posts[s]) : st[posts[s][i]] = "posted"
PostsOnce ==
    \A s1, s2 \in Sched : \A i \in 1..Len(posts[s1]), j \in 1..Len(posts[s2]) :
        posts[s1][i] = posts[s2][j] => s1 = s2 /\ i = j
\* Every handle that waits to be resumed is that of a pending task, and waits once.
ReadyPending == \A s \in Sched : \A i \in 1..Len(ready[s]) : Pending(ready[s][i].task)
ReadyOnce == Once(ready)
BatchPending == \A s \in Sched : \A i \in 1..Len(batch[s]) : Pending(batch[s][i].task)
BatchOnce == Once(batch)
ReadyOrBatch == Apart(ready, batch)
\* What a scheduler resumes is running, and no two schedulers resume the same.
CurRuns == \A s \in Sched : cur[s].task # NoTask => st[cur[s].task] = "running"
CurOnce ==
    \A s1, s2 \in Sched : cur[s1].task # NoTask /\ cur[s1].task = cur[s2].task => s1 = s2
\* An operation exists as long as its coroutine is suspended in co_await, on one of the schedulers.
LiveWaits ==
    \A t \in Task : (op[t].live <=> st[t] = "waiting") /\ (op[t].live => op[t].at \in Sched)

\* The inductive invariant behind ResumedOnce.
SchedInv ==
    /\ TypeOK
    /\ PostsPosted /\ PostsOnce
    /\ ReadyPending /\ ReadyOnce /\ BatchPending /\ BatchOnce /\ ReadyOrBatch
    /\ CurRuns /\ CurOnce /\ LiveWaits

\* r, a request or a completion, is of the operation its task is suspended on, which has no result yet.
Awaited(r) == Addressed(r) /\ ~ op[r.task].completed

\* The requests and completions of the tasks of U.
RequestsOf(U)    == {r \in Req : r.task \in U}
CompletionsOf(U) == {c \in Cqe : c.task \in U}

\* Among the entries of A in the queues q, and among those in flight, one at most per task.
OneEach(A, q) ==
    \A v, w \in Sched : \A i \in 1..Len(q[v]), j \in 1..Len(q[w]) :
        q[v][i] \in A /\ q[w][j] \in A /\ q[v][i].task = q[w][j].task => v = w /\ i = j
OneInFlight(A, FL) ==
    \A v, w \in Sched : \A r \in FL[v], x \in FL[w] :
        r \in A /\ x \in A /\ r.task = x.task => v = w /\ r = x
\* A task with an entry of A in p, or in flight, has no entry of C in q.
QueuesApart(A, C, p, q) ==
    \A v, w \in Sched : \A i \in 1..Len(p[v]), j \in 1..Len(q[w]) :
        p[v][i] \in A /\ q[w][j] \in C => p[v][i].task # q[w][j].task
FlightApart(A, C, FL, q) ==
    \A v, w \in Sched : \A r \in FL[v], j \in 1..Len(q[w]) :
        r \in A /\ q[w][j] \in C => r.task # q[w][j].task

\* Each task has at most one entry of A queued or in flight, or of C completed.
Unique(A, C, SQ, FL, CQ) ==
    /\ OneEach(A, SQ) /\ OneInFlight(A, FL) /\ OneEach(C, CQ)
    /\ FlightApart(A, A, FL, SQ) /\ QueuesApart(A, C, SQ, CQ) /\ FlightApart(A, C, FL, CQ)

\* What ring v still has to complete.
Held(SQ, FL, v) == ToSet(SQ[v]) \cup FL[v]

\* Everything held or completed for a task of U is awaited, and its operations have no timeout.
HeldAwaited(U) == \A v \in Sched : \A r \in Held(sq, flight, v) : r.task \in U => Awaited(r) /\ r.kind = "io"
CqAwaited(U)   == \A v \in Sched : \A c \in ToSet(cq[v]) : c.task \in U => Awaited(c)
Plain(U)       == \A t \in Task : t \in U => op[t].kind = "plain"

\* The inductive invariant of the requests of a set of tasks none of which uses a timeout.
ReqInv(U) ==
    /\ Unique(RequestsOf(U), CompletionsOf(U), sq, flight, cq)
    /\ HeldAwaited(U) /\ CqAwaited(U) /\ Plain(U)

\* ReqInv for the tasks that never call async_recv_for.
UntimedTasks == {t \in Task : Untimed(t)}
RInv == ReqInv(UntimedTasks)

-----------------------------------------------------------------------------

\* What a queue holds after push_back ...
LEMMA Appended ==
    ASSUME NEW S, NEW q \in [Sched -> Seq(S)], NEW s \in Sched, NEW x \in S, NEW p,
           p = [q EXCEPT ![s] = Append(@, x)]
    PROVE  /\ p \in [Sched -> Seq(S)]
           /\ Len(p[s]) = Len(q[s]) + 1
           /\ p[s][Len(p[s])] = x
           /\ \A v \in Sched : v # s => p[v] = q[v]
           /\ \A v \in Sched : \A i \in 1..Len(p[v]) :
                 \/ i \in 1..Len(q[v]) /\ p[v][i] = q[v][i]
                 \/ v = s /\ i = Len(p[s])
OBVIOUS

\* ... after its first element is taken ...
LEMMA Popped ==
    ASSUME NEW S, NEW q \in [Sched -> Seq(S)], NEW s \in Sched, q[s] # << >>, NEW p,
           p = [q EXCEPT ![s] = Tail(@)]
    PROVE  /\ p \in [Sched -> Seq(S)]
           /\ Head(q[s]) = q[s][1] /\ 1 \in 1..Len(q[s]) /\ q[s][1] \in S
           /\ \A v \in Sched : v # s => p[v] = q[v]
           /\ \A i \in 1..Len(p[s]) : i + 1 \in 1..Len(q[s]) /\ p[s][i] = q[s][i + 1]
OBVIOUS

\* ... after clear ...
LEMMA Emptied ==
    ASSUME NEW S, NEW q \in [Sched -> Seq(S)], NEW s \in Sched, NEW p,
           p = [q EXCEPT ![s] = << >>]
    PROVE  /\ p \in [Sched -> Seq(S)]
           /\ 1..Len(p[s]) = {}
           /\ \A v \in Sched : v # s => p[v] = q[v]
OBVIOUS

\* ... and after several elements are added.
LEMMA Extended ==
    ASSUME NEW S, NEW q \in [Sched -> Seq(S)], NEW s \in Sched, NEW f \in Seq(S), NEW p,
           p = [q EXCEPT ![s] = @ \o f]
    PROVE  /\ p \in [Sched -> Seq(S)]
           /\ \A v \in Sched : v # s => p[v] = q[v]
           /\ \A i \in 1..Len(p[s]) :
                 \/ i \in 1..Len(q[s]) /\ p[s][i] = q[s][i]
                 \/ i \notin 1..Len(q[s]) /\ i - Len(q[s]) \in 1..Len(f) /\ p[s][i] = f[i - Len(q[s])]
<1> USE LenProperties, ConcatProperties
<1>1. q[s] \o f \in Seq(S) /\ Len(q[s] \o f) = Len(q[s]) + Len(f)
  OBVIOUS
<1> QED
  BY <1>1

\* The handles Drain makes of the posted coroutines.
LEMMA MappedPosts ==
    ASSUME NEW q \in Seq(Task), NEW f, f = [i \in 1..Len(q) |-> [task |-> q[i], destroy |-> TRUE]]
    PROVE  /\ f \in Seq(Item) /\ Len(f) = Len(q)
           /\ \A i \in 1..Len(q) : f[i].task = q[i]
<1>1. f \in [1..Len(q) -> Item]
  BY DEF Item
<1>2. f \in Seq(Item)
  BY <1>1, SeqDef, LenProperties
<1>3. Len(f) = Len(q)
  BY <1>1, <1>2, LenProperties
<1> QED
  BY <1>2, <1>3

\* The elements of the queues are of their type.
LEMMA Element ==
    ASSUME NEW S, NEW q \in [Sched -> Seq(S)]
    PROVE  \A v \in Sched : \A i \in 1..Len(q[v]) : q[v][i] \in S
OBVIOUS

\* The elements of a sequence are those at its indices.
LEMMA SetOfSeq ==
    ASSUME NEW q, DOMAIN q = 1..Len(q)
    PROVE  /\ \A x \in ToSet(q) : \E i \in 1..Len(q) : x = q[i]
           /\ \A i \in 1..Len(q) : q[i] \in ToSet(q)
BY DEF ToSet

\* The indices of a queue.
LEMMA QueueDomains ==
    ASSUME NEW S, NEW q \in [Sched -> Seq(S)]
    PROVE  \A v \in Sched : DOMAIN q[v] = 1..Len(q[v])
OBVIOUS

\* What is queued, posted and resumed is a task.
LEMMA ItemsAreTasks ==
    ASSUME TypeOK
    PROVE  /\ \A v \in Sched : \A i \in 1..Len(ready[v]) : ready[v][i].task \in Task
           /\ \A v \in Sched : \A i \in 1..Len(batch[v]) : batch[v][i].task \in Task
           /\ \A v \in Sched : \A i \in 1..Len(posts[v]) : posts[v][i] \in Task
           /\ \A v \in Sched : cur[v].task \in Task \cup {NoTask}
<1>0. /\ ready \in [Sched -> Seq(Item)] /\ batch \in [Sched -> Seq(Item)]
      /\ posts \in [Sched -> Seq(Task)] /\ cur \in [Sched -> Item \cup {Idle}]
  BY DEF TypeOK
<1>1. /\ \A v \in Sched : \A i \in 1..Len(ready[v]) : ready[v][i] \in Item
      /\ \A v \in Sched : \A i \in 1..Len(batch[v]) : batch[v][i] \in Item
      /\ \A v \in Sched : \A i \in 1..Len(posts[v]) : posts[v][i] \in Task
  BY <1>0, Element
<1>2. \A x \in Item : x.task \in Task
  BY DEF Item
<1>3. \A v \in Sched : cur[v].task \in Task \cup {NoTask}
  BY <1>0 DEF Item, Idle
<1> QED
  BY <1>1, <1>2, <1>3

\* The steps of the handle queues, and a task that is in none of them.
Fresh(q, t) == \A v \in Sched : \A i \in 1..Len(q[v]) : q[v][i].task # t
Appends(p, q, s, x) ==
    /\ q \in [Sched -> Seq(Item)] /\ s \in Sched /\ x \in Item
    /\ p = [q EXCEPT ![s] = Append(@, x)]
Moves(p, d, q, b, s) ==
    /\ q \in [Sched -> Seq(Item)] /\ b \in [Sched -> Seq(Item)] /\ s \in Sched
    /\ p = [q EXCEPT ![s] = << >>] /\ d = [b EXCEPT ![s] = q[s]]
Pops(d, b, s) ==
    /\ b \in [Sched -> Seq(Item)] /\ s \in Sched /\ b[s] # << >>
    /\ d = [b EXCEPT ![s] = Tail(@)]

\* A handle that is in no queue may be queued ...
LEMMA OnceAppended ==
    ASSUME NEW q, NEW s, NEW x, NEW p, Appends(p, q, s, x), Once(q), Fresh(q, x.task)
    PROVE  Once(p)
<1>1. /\ q \in [Sched -> Seq(Item)] /\ p \in [Sched -> Seq(Item)] /\ s \in Sched
      /\ p[s][Len(p[s])] = x
      /\ \A v \in Sched : \A i \in 1..Len(p[v]) :
            \/ i \in 1..Len(q[v]) /\ p[v][i] = q[v][i]
            \/ v = s /\ i = Len(p[s])
  BY Appended DEF Appends
<1> QED
  BY <1>1 DEF Once, Fresh

\* ... without coming to be in two queues.
LEMMA ApartAppended ==
    ASSUME NEW q, NEW s, NEW x, NEW p, NEW b,
           Appends(p, q, s, x), Apart(q, b), Fresh(b, x.task)
    PROVE  Apart(p, b)
<1>1. /\ q \in [Sched -> Seq(Item)] /\ p \in [Sched -> Seq(Item)] /\ s \in Sched
      /\ p[s][Len(p[s])] = x
      /\ \A v \in Sched : \A i \in 1..Len(p[v]) :
            \/ i \in 1..Len(q[v]) /\ p[v][i] = q[v][i]
            \/ v = s /\ i = Len(p[s])
  BY Appended DEF Appends
<1> QED
  BY <1>1 DEF Apart, Fresh

\* Swapping ready_ with the batch keeps the handles distinct.
LEMMA OnceMoved ==
    ASSUME NEW q, NEW b, NEW s, NEW p, NEW d, Moves(p, d, q, b, s),
           Once(q), Once(b), Apart(q, b)
    PROVE  Once(p) /\ Once(d) /\ Apart(p, d)
<1>1. 1..Len(p[s]) = {} /\ \A v \in Sched : v # s => p[v] = q[v]
  BY Emptied DEF Moves
<1>2. d[s] = q[s] /\ \A v \in Sched : v # s => d[v] = b[v]
  BY DEF Moves
<1>3. Once(p)
  BY <1>1 DEF Once
<1>4. Once(d)
  BY <1>2 DEF Once, Apart, Moves
<1>5. Apart(p, d)
  BY <1>1, <1>2 DEF Once, Apart, Moves
<1> QED
  BY <1>3, <1>4, <1>5

\* The handle taken from the batch is in no queue any more.
LEMMA OncePopped ==
    ASSUME NEW b, NEW s, NEW d, NEW q, Pops(d, b, s), Once(b), Apart(q, b)
    PROVE  /\ Once(d) /\ Apart(q, d)
           /\ Fresh(d, b[s][1].task) /\ Fresh(q, b[s][1].task)
<1>1. /\ 1 \in 1..Len(b[s])
      /\ \A v \in Sched : v # s => d[v] = b[v]
      /\ \A i \in 1..Len(d[s]) : i + 1 \in 1..Len(b[s]) /\ d[s][i] = b[s][i + 1]
      /\ d \in [Sched -> Seq(Item)] /\ b \in [Sched -> Seq(Item)] /\ s \in Sched
  BY Popped DEF Pops
<1>2. \A v \in Sched : \A i \in 1..Len(d[v]) :
         \E k \in 1..Len(b[v]) :
            d[v][i] = b[v][k] /\ (v = s => k = i + 1) /\ (v # s => k = i)
  BY <1>1
<1>3. Once(d)
  <2> SUFFICES ASSUME NEW v \in Sched, NEW w \in Sched,
                      NEW i \in 1..Len(d[v]), NEW j \in 1..Len(d[w]), d[v][i].task = d[w][j].task
               PROVE  v = w /\ i = j
    BY DEF Once
  <2>1. PICK k \in 1..Len(b[v]) : d[v][i] = b[v][k] /\ (v = s => k = i + 1) /\ (v # s => k = i)
    BY <1>1, <1>2
  <2>2. PICK l \in 1..Len(b[w]) : d[w][j] = b[w][l] /\ (w = s => l = j + 1) /\ (w # s => l = j)
    BY <1>1, <1>2
  <2>3. v = w /\ k = l
    BY <2>1, <2>2 DEF Once
  <2>4. i \in Int /\ j \in Int
    BY <1>1
  <2> QED
    BY <2>1, <2>2, <2>3, <2>4
<1>4. Apart(q, d)
  <2> SUFFICES ASSUME NEW v \in Sched, NEW w \in Sched, NEW i \in 1..Len(q[v]), NEW j \in 1..Len(d[w])
               PROVE  q[v][i].task # d[w][j].task
    BY DEF Apart
  <2>1. PICK k \in 1..Len(b[w]) : d[w][j] = b[w][k]
    BY <1>1, <1>2
  <2> QED
    BY <2>1 DEF Apart
<1>5. Fresh(d, b[s][1].task)
  <2> SUFFICES ASSUME NEW v \in Sched, NEW i \in 1..Len(d[v]), d[v][i].task = b[s][1].task
               PROVE  FALSE
    BY DEF Fresh
  <2>1. PICK k \in 1..Len(b[v]) : d[v][i] = b[v][k] /\ (v = s => k = i + 1)
    BY <1>1, <1>2
  <2>2. v = s /\ k = 1
    BY <1>1, <2>1 DEF Once
  <2> QED
    BY <1>1, <2>1, <2>2
<1>6. Fresh(q, b[s][1].task)
  BY <1>1 DEF Apart, Fresh
<1> QED
  BY <1>3, <1>4, <1>5, <1>6

\* post keeps SchedInv: the coroutine has not been scheduled before.
LEMMA PostSched ==
    ASSUME NEW s \in Sched, NEW t \in Task, SchedInv, Post(s, t)
    PROVE  SchedInv'
<1> USE DEF SchedInv
<1>0. /\ st[t] = "none"
      /\ posts' = [posts EXCEPT ![s] = Append(@, t)]
      /\ \A u \in Task : st'[u] = IF u = t THEN "posted" ELSE st[u]
      /\ UNCHANGED <<running, lpc, last, ready, batch, cur, sq, flight, cq, op>>
  BY DEF Post, TypeOK, loop, ring
<1>1. TypeOK'
  BY DEF Post, loop, ring, TypeOK
<1>a. /\ posts \in [Sched -> Seq(Task)] /\ posts' \in [Sched -> Seq(Task)]
      /\ posts'[s][Len(posts'[s])] = t
      /\ \A v \in Sched : \A i \in 1..Len(posts'[v]) :
            \/ i \in 1..Len(posts[v]) /\ posts'[v][i] = posts[v][i]
            \/ v = s /\ i = Len(posts'[s])
  BY <1>0, Appended DEF TypeOK
<1>2. PostsPosted' /\ PostsOnce'
  BY <1>0, <1>a, SMTT(30) DEF PostsPosted, PostsOnce
<1>3. ReadyPending' /\ BatchPending'
  BY <1>0, ItemsAreTasks, SMTT(30) DEF ReadyPending, BatchPending, Pending
<1>4. ReadyOnce' /\ BatchOnce' /\ ReadyOrBatch' /\ CurOnce'
  BY <1>0 DEF ReadyOnce, BatchOnce, ReadyOrBatch, CurOnce
<1>5. CurRuns'
  BY <1>0, ItemsAreTasks DEF CurRuns
<1>6. LiveWaits'
  BY <1>0 DEF LiveWaits
<1> QED
  BY <1>1, <1>2, <1>3, <1>4, <1>5, <1>6

\* Creating a task and handing it to a loop keeps SchedInv.
LEMMA StartSched ==
    ASSUME NEW s \in Sched, NEW t \in Task, SchedInv, Start(s, t)
    PROVE  SchedInv'
<1> USE DEF SchedInv
<1> DEFINE item == [task |-> t, destroy |-> TRUE]
<1>0. /\ st[t] = "none"
      /\ ready' = [ready EXCEPT ![s] = Append(@, item)]
      /\ \A u \in Task : st'[u] = IF u = t THEN "created" ELSE st[u]
      /\ UNCHANGED <<running, lpc, last, posts, batch, cur, sq, flight, cq, op>>
      /\ item \in Item /\ item.task = t
  BY DEF Start, TypeOK, loop, ring, Item
<1>1. TypeOK'
  BY DEF Start, loop, ring, TypeOK, Item
<1> HIDE DEF item
<1>a. /\ ready \in [Sched -> Seq(Item)] /\ ready' \in [Sched -> Seq(Item)]
      /\ ready'[s][Len(ready'[s])] = item
      /\ \A v \in Sched : \A i \in 1..Len(ready'[v]) :
            \/ i \in 1..Len(ready[v]) /\ ready'[v][i] = ready[v][i]
            \/ v = s /\ i = Len(ready'[s])
  BY <1>0, Appended DEF TypeOK
<1>9. Appends(ready', ready, s, item)
  BY <1>0, <1>a DEF Appends
<1>2. PostsPosted'
  BY <1>0, ItemsAreTasks DEF PostsPosted
<1>3. ReadyPending' /\ BatchPending'
  <2>1. ReadyPending'
    <3> SUFFICES ASSUME NEW v \in Sched, NEW i \in 1..Len(ready'[v])
                 PROVE  \/ st'[ready'[v][i].task] = "created"
                        \/ st'[ready'[v][i].task] = "waiting" /\ op'[ready'[v][i].task].live /\ op'[ready'[v][i].task].completed
      BY DEF ReadyPending, Pending
    <3>1. CASE i \in 1..Len(ready[v]) /\ ready'[v][i] = ready[v][i]
      BY <3>1, <1>0, ItemsAreTasks DEF ReadyPending, Pending
    <3>2. CASE v = s /\ i = Len(ready'[s])
      BY <3>2, <1>0, <1>a
    <3> QED
      BY <1>a, <3>1, <3>2
  <2>2. BatchPending'
    BY <1>0, ItemsAreTasks DEF BatchPending, Pending
  <2> QED
    BY <2>1, <2>2
<1>4. PostsOnce' /\ BatchOnce' /\ CurOnce'
  BY <1>0 DEF PostsOnce, BatchOnce, CurOnce
<1>5. ReadyOnce'
  <2>1. Fresh(ready, t)
    BY <1>0 DEF ReadyPending, Pending, Fresh
  <2> QED
    BY <1>0, <1>9, <2>1, OnceAppended DEF ReadyOnce
<1>6. ReadyOrBatch'
  <2>1. Fresh(batch, t)
    BY <1>0 DEF BatchPending, Pending, Fresh
  <2> QED
    BY <1>0, <1>9, <2>1, ApartAppended DEF ReadyOrBatch
<1>7. CurRuns'
  BY <1>0, ItemsAreTasks DEF CurRuns
<1>8. LiveWaits'
  BY <1>0 DEF LiveWaits
<1> QED
  BY <1>1, <1>2, <1>3, <1>4, <1>5, <1>6, <1>7, <1>8

\* Draining the posted coroutines into ready_ keeps SchedInv.
LEMMA DrainSched ==
    ASSUME NEW s \in Sched, SchedInv, Drain(s)
    PROVE  SchedInv'
<1> USE DEF SchedInv
<1> DEFINE f == [i \in 1..Len(posts[s]) |-> [task |-> posts[s][i], destroy |-> TRUE]]
<1>0. /\ f \in Seq(Item) /\ Len(f) = Len(posts[s])
      /\ \A i \in 1..Len(posts[s]) : f[i].task = posts[s][i]
  BY MappedPosts DEF TypeOK
<1>a. /\ ready' = [ready EXCEPT ![s] = @ \o f]
      /\ posts' = [posts EXCEPT ![s] = << >>]
      /\ UNCHANGED <<running, batch, cur, sq, flight, cq, op>>
  BY DEF Drain, ring
<1>b. \A t \in Task : st'[t] = IF \E i \in 1..Len(posts[s]) : posts[s][i] = t THEN "created" ELSE st[t]
  BY DEF Drain, ToSet, TypeOK
<1>c. \A t \in Task : (\E i \in 1..Len(posts[s]) : posts[s][i] = t) => st[t] = "posted" /\ ~ op[t].live
  BY DEF PostsPosted, LiveWaits
<1>1. TypeOK'
  BY <1>0, <1>a DEF Drain, TypeOK
<1> HIDE DEF f
<1>d. /\ \A v \in Sched : v # s => posts'[v] = posts[v]
      /\ 1..Len(posts'[s]) = {}
  BY <1>a, Emptied DEF TypeOK
<1>e. /\ ready \in [Sched -> Seq(Item)] /\ ready' \in [Sched -> Seq(Item)]
      /\ \A v \in Sched : v # s => ready'[v] = ready[v]
      /\ \A i \in 1..Len(ready'[s]) :
           \/ i \in 1..Len(ready[s]) /\ ready'[s][i] = ready[s][i]
           \/ /\ i \notin 1..Len(ready[s]) /\ i - Len(ready[s]) \in 1..Len(posts[s])
              /\ ready'[s][i].task = posts[s][i - Len(ready[s])]
  BY <1>0, <1>a, Extended DEF TypeOK
<1>f. \A v \in Sched : \A i \in 1..Len(ready[v]) : st[ready[v][i].task] # "posted"
  BY DEF ReadyPending, Pending
<1>g. \A v \in Sched : \A i \in 1..Len(batch[v]) : st[batch[v][i].task] # "posted"
  BY DEF BatchPending, Pending
<1>2. PostsPosted'
  <2>1. \A v \in Sched : v # s => \A i \in 1..Len(posts[v]) : \A j \in 1..Len(posts[s]) : posts[v][i] # posts[s][j]
    BY DEF PostsOnce
  <2> QED
    BY <1>b, <1>d, <2>1, ItemsAreTasks DEF PostsPosted
<1>3. PostsOnce'
  BY <1>d DEF PostsOnce
<1>4. ReadyPending'
  <2> SUFFICES ASSUME NEW v \in Sched, NEW i \in 1..Len(ready'[v])
               PROVE  \/ st'[ready'[v][i].task] = "created"
                      \/ st'[ready'[v][i].task] = "waiting" /\ op'[ready'[v][i].task].live /\ op'[ready'[v][i].task].completed
    BY DEF ReadyPending, Pending
  <2>1. CASE i \in 1..Len(ready[v]) /\ ready'[v][i] = ready[v][i]
    BY <2>1, <1>a, <1>b, <1>c, ItemsAreTasks DEF ReadyPending, Pending
  <2>2. CASE /\ v = s /\ i - Len(ready[s]) \in 1..Len(posts[s])
             /\ ready'[s][i].task = posts[s][i - Len(ready[s])]
    BY <2>2, <1>b, ItemsAreTasks
  <2> QED
    BY <1>e, <2>1, <2>2
<1>5. BatchPending'
  BY <1>a, <1>b, <1>c, ItemsAreTasks DEF BatchPending, Pending
<1>6. ReadyOnce'
  <2>1. \A i \in 1..Len(posts[s]) : st[posts[s][i]] = "posted"
    BY DEF PostsPosted
  <2>2. \A i, j \in 1..Len(posts[s]) : posts[s][i] = posts[s][j] => i = j
    BY DEF PostsOnce
  <2>3. Len(ready[s]) \in Nat
    BY <1>e
  <2> SUFFICES ASSUME NEW v \in Sched, NEW w \in Sched,
                      NEW i \in 1..Len(ready'[v]), NEW j \in 1..Len(ready'[w]),
                      ready'[v][i].task = ready'[w][j].task
               PROVE  v = w /\ i = j
    BY DEF ReadyOnce, Once
  <2> DEFINE Old(x, k) == k \in 1..Len(ready[x]) /\ ready'[x][k] = ready[x][k]
             New(x, k) == /\ x = s /\ k \notin 1..Len(ready[s]) /\ k - Len(ready[s]) \in 1..Len(posts[s])
                          /\ ready'[s][k].task = posts[s][k - Len(ready[s])]
  <2>4. (Old(v, i) \/ New(v, i)) /\ (Old(w, j) \/ New(w, j))
    BY <1>e
  <2>5. CASE Old(v, i) /\ Old(w, j)
    BY <2>5 DEF ReadyOnce, Once
  <2>6. CASE Old(v, i) /\ New(w, j)
    BY <2>6, <1>f, <2>1
  <2>7. CASE New(v, i) /\ Old(w, j)
    BY <2>7, <1>f, <2>1
  <2>8. CASE New(v, i) /\ New(w, j)
    <3>1. i - Len(ready[s]) = j - Len(ready[s])
      BY <2>8, <2>2
    <3> QED
      BY <2>8, <2>3, <3>1
  <2> QED
    BY <2>4, <2>5, <2>6, <2>7, <2>8
<1>7. BatchOnce' /\ CurOnce'
  BY <1>a DEF BatchOnce, CurOnce
<1>8. ReadyOrBatch'
  <2> SUFFICES ASSUME NEW v \in Sched, NEW w \in Sched,
                      NEW i \in 1..Len(ready'[v]), NEW j \in 1..Len(batch[w])
               PROVE  ready'[v][i].task # batch[w][j].task
    BY <1>a DEF ReadyOrBatch, Apart
  <2>1. CASE i \in 1..Len(ready[v]) /\ ready'[v][i] = ready[v][i]
    BY <2>1 DEF ReadyOrBatch, Apart
  <2>2. CASE /\ v = s /\ i - Len(ready[s]) \in 1..Len(posts[s])
             /\ ready'[s][i].task = posts[s][i - Len(ready[s])]
    BY <2>2, <1>g DEF PostsPosted
  <2> QED
    BY <1>e, <2>1, <2>2, SMTT(30)
<1>9. CurRuns'
  BY <1>a, <1>b, <1>c, ItemsAreTasks DEF CurRuns
<1>10. LiveWaits'
  BY <1>a, <1>b, <1>c DEF LiveWaits
<1> QED
  BY <1>1, <1>2, <1>3, <1>4, <1>5, <1>6, <1>7, <1>8, <1>9, <1>10

\* A step that leaves the coroutines and where they are scheduled alone.
LEMMA SchedFrame ==
    ASSUME SchedInv, TypeOK', UNCHANGED <<posts, ready, batch, cur, st, op>>
    PROVE  SchedInv'
<1> USE DEF SchedInv
<1>1. PostsPosted' /\ PostsOnce' /\ CurRuns' /\ CurOnce' /\ LiveWaits'
  BY DEF PostsPosted, PostsOnce, CurRuns, CurOnce, LiveWaits
<1>2. ReadyPending' /\ BatchPending'
  BY DEF ReadyPending, BatchPending, Pending
<1>3. ReadyOnce' /\ BatchOnce' /\ ReadyOrBatch'
  BY DEF ReadyOnce, BatchOnce, ReadyOrBatch
<1> QED
  BY <1>1, <1>2, <1>3

\* The steps that touch no queue of handles: stop ...
LEMMA StopSched ==
    ASSUME NEW s \in Sched, SchedInv, Stop(s)
    PROVE  SchedInv'
<1>1. TypeOK'
  BY DEF SchedInv, TypeOK, Stop, ring, coro
<1> QED
  BY <1>1, SchedFrame DEF Stop, coro

\* ... the start of run ...
LEMMA BootSched ==
    ASSUME NEW s \in Sched, SchedInv, Boot(s)
    PROVE  SchedInv'
<1>1. TypeOK'
  BY DEF SchedInv, TypeOK, Boot, ring, coro
<1> QED
  BY <1>1, SchedFrame DEF Boot, coro

\* ... its end ...
LEMMA ExitSched ==
    ASSUME NEW s \in Sched, SchedInv, Exit(s)
    PROVE  SchedInv'
<1>1. TypeOK'
  BY DEF SchedInv, TypeOK, Exit, ring, coro
<1> QED
  BY <1>1, SchedFrame DEF Exit, coro

\* ... the end of the completions ...
LEMMA ReapDoneSched ==
    ASSUME NEW s \in Sched, SchedInv, ReapDone(s)
    PROVE  SchedInv'
<1>1. TypeOK'
  BY DEF SchedInv, TypeOK, ReapDone, ring, coro
<1> QED
  BY <1>1, SchedFrame DEF ReapDone, coro

\* ... and io_uring_submit.
LEMMA SubmitSched ==
    ASSUME NEW s \in Sched, SchedInv, Submit(s)
    PROVE  SchedInv'
<1>0. sq \in [Sched -> Seq(Req)]
  BY DEF SchedInv, TypeOK
<1>1. ToSet(sq[s]) \subseteq Req
  BY <1>0, Element DEF ToSet
<1>a. /\ flight \in [Sched -> SUBSET Req]
      /\ \/ /\ flight' = [flight EXCEPT ![s] = @ \cup ToSet(sq[s])]
            /\ sq' = [sq EXCEPT ![s] = << >>]
         \/ UNCHANGED <<flight, sq>>
  BY DEF SchedInv, TypeOK, Submit
<1>2. flight' \in [Sched -> SUBSET Req] /\ sq' \in [Sched -> Seq(Req)]
  <2>1. CASE flight' = [flight EXCEPT ![s] = @ \cup ToSet(sq[s])] /\ sq' = [sq EXCEPT ![s] = << >>]
    <3>1. sq' \in [Sched -> Seq(Req)]
      BY <1>0, <2>1, Emptied
    <3> QED
      BY <1>1, <1>a, <2>1, <3>1
  <2> QED
    BY <1>0, <1>a, <2>1
<1>3. TypeOK'
  BY <1>2 DEF SchedInv, TypeOK, Submit, coro
<1> QED
  BY <1>3, SchedFrame DEF Submit, coro

\* The fields of a completion.
LEMMA CompletionType ==
    ASSUME NEW r \in Req, NEW res \in Int
    PROVE  Completion(r, res) \in Cqe /\ Completion(r, res).task = r.task
           /\ Completion(r, res).n = r.n /\ Completion(r, res).res = res
BY DEF Completion, Cqe, Req

\* The kernel completing an operation keeps SchedInv ...
LEMMA IoDoneSched ==
    ASSUME NEW s \in Sched, NEW r, NEW res \in Int, SchedInv, IoDone(s, r, res)
    PROVE  SchedInv'
<1>0. /\ flight \in [Sched -> SUBSET Req] /\ cq \in [Sched -> Seq(Cqe)]
      /\ r \in Req /\ Request(r.task, r.n, "armed") \in Req
  BY DEF SchedInv, TypeOK, IoDone, Req, Request
<1>1. flight' \in [Sched -> SUBSET Req]
  BY <1>0 DEF IoDone
<1>2. Completion(r, res) \in Cqe /\ Completion(r, ECANCELED) \in Cqe
  BY <1>0, CompletionType DEF ECANCELED
<1>3. cq' \in [Sched -> Seq(Cqe)]
  <2>1. <<Completion(r, res)>> \in Seq(Cqe) /\ <<Completion(r, ECANCELED)>> \in Seq(Cqe) /\ << >> \in Seq(Cqe)
    BY <1>2
  <2> DEFINE more == IF Request(r.task, r.n, "held") \in flight[s] /\ res < 0
                     THEN <<Completion(r, ECANCELED)>> ELSE << >>
  <2>2. more \in Seq(Cqe)
    BY <2>1
  <2>3. cq' = [cq EXCEPT ![s] = @ \o <<Completion(r, res)>> \o more]
    BY DEF IoDone
  <2> HIDE DEF more
  <2>4. cq[s] \o <<Completion(r, res)>> \o more \in Seq(Cqe)
    BY <1>0, <2>1, <2>2, ConcatProperties
  <2> QED
    BY <1>0, <2>3, <2>4
<1>4. TypeOK'
  BY <1>1, <1>3 DEF SchedInv, TypeOK, IoDone, loop, coro
<1> QED
  BY <1>4, SchedFrame DEF IoDone, coro

\* ... and a timer firing ...
LEMMA TimerFiresSched ==
    ASSUME NEW s \in Sched, NEW r, SchedInv, TimerFires(s, r)
    PROVE  SchedInv'
<1>0. /\ flight \in [Sched -> SUBSET Req] /\ cq \in [Sched -> Seq(Cqe)] /\ r \in Req
  BY DEF SchedInv, TypeOK, TimerFires
<1>1. flight' \in [Sched -> SUBSET Req]
  BY <1>0 DEF TimerFires
<1>2. Completion(r, ETIME) \in Cqe
  BY <1>0, CompletionType DEF ETIME
<1>3. cq' \in [Sched -> Seq(Cqe)]
  BY <1>0, <1>2 DEF TimerFires
<1>4. TypeOK'
  BY <1>1, <1>3 DEF SchedInv, TypeOK, TimerFires, loop, coro
<1> QED
  BY <1>4, SchedFrame DEF TimerFires, coro

\* ... and a timer the ring refuses.
LEMMA TimerRejectedSched ==
    ASSUME NEW s \in Sched, NEW r, SchedInv, TimerRejected(s, r)
    PROVE  SchedInv'
<1> DEFINE io == Request(r.task, r.n, "io")
<1>0. /\ flight \in [Sched -> SUBSET Req] /\ cq \in [Sched -> Seq(Cqe)] /\ r \in Req /\ io \in Req
  BY DEF SchedInv, TypeOK, TimerRejected, Req, Request
<1>1. flight' \in [Sched -> SUBSET Req]
  BY <1>0 DEF TimerRejected
<1>2. Completion(io, ECANCELED) \in Cqe /\ Completion(r, EINVAL) \in Cqe
  BY <1>0, CompletionType DEF EINVAL, ECANCELED
<1> HIDE DEF io
<1>3. cq' \in [Sched -> Seq(Cqe)]
  <2>1. CASE cq' = [cq EXCEPT ![s] = @ \o <<Completion(io, ECANCELED), Completion(r, EINVAL)>>]
    <3>1. <<Completion(io, ECANCELED), Completion(r, EINVAL)>> \in Seq(Cqe)
      BY <1>2
    <3> QED
      BY <1>0, <2>1, <3>1, Extended
  <2>2. CASE cq' = [cq EXCEPT ![s] = Append(@, Completion(r, EINVAL))]
    BY <1>0, <1>2, <2>2, Appended
  <2> QED
    BY <2>1, <2>2 DEF TimerRejected, io
<1>4. TypeOK'
  BY <1>1, <1>3 DEF SchedInv, TypeOK, TimerRejected, loop, coro
<1> QED
  BY <1>4, SchedFrame DEF TimerRejected, coro

\* Swapping ready_ with the batch keeps SchedInv.
LEMMA SwapReadySched ==
    ASSUME NEW s \in Sched, SchedInv, SwapReady(s)
    PROVE  SchedInv'
<1> USE DEF SchedInv
<1>0. /\ ready \in [Sched -> Seq(Item)] /\ batch \in [Sched -> Seq(Item)]
      /\ batch' = [batch EXCEPT ![s] = ready[s]] /\ ready' = [ready EXCEPT ![s] = << >>]
      /\ UNCHANGED <<running, last, posts, cur, sq, flight, cq, st, op>>
  BY DEF TypeOK, SwapReady, ring, coro
<1>a. /\ ready' \in [Sched -> Seq(Item)] /\ 1..Len(ready'[s]) = {}
      /\ \A v \in Sched : v # s => ready'[v] = ready[v]
  BY <1>0, Emptied
<1>b. /\ batch' \in [Sched -> Seq(Item)] /\ batch'[s] = ready[s]
      /\ \A v \in Sched : v # s => batch'[v] = batch[v]
  BY <1>0
<1>1. TypeOK'
  BY <1>0, <1>a, <1>b DEF TypeOK, SwapReady
<1>2. PostsPosted' /\ PostsOnce' /\ CurRuns' /\ CurOnce' /\ LiveWaits'
  BY <1>0 DEF PostsPosted, PostsOnce, CurRuns, CurOnce, LiveWaits
<1>3. ReadyPending'
  BY <1>0, <1>a DEF ReadyPending, Pending
<1>4. BatchPending'
  BY <1>0, <1>b, ZenonT(60) DEF ReadyPending, BatchPending, Pending
<1>5. ReadyOnce' /\ BatchOnce' /\ ReadyOrBatch'
  <2>1. Moves(ready', batch', ready, batch, s)
    BY <1>0 DEF Moves
  <2> QED
    BY <2>1, OnceMoved DEF ReadyOnce, BatchOnce, ReadyOrBatch
<1> QED
  BY <1>1, <1>2, <1>3, <1>4, <1>5

\* Resuming a handle keeps SchedInv: it leaves the batch as the task begins to run.
LEMMA ResumeSched ==
    ASSUME NEW s \in Sched, SchedInv, Resume(s)
    PROVE  SchedInv'
<1> USE DEF SchedInv
<1> DEFINE t == batch[s][1].task
<1>0. /\ batch \in [Sched -> Seq(Item)] /\ cur[s] = Idle /\ cur \in [Sched -> Item \cup {Idle}]
      /\ batch[s] # << >> /\ batch' = [batch EXCEPT ![s] = Tail(@)]
      /\ op \in [Task -> Op] /\ DOMAIN st = Task
  BY DEF TypeOK, Resume
<1>a. /\ batch' \in [Sched -> Seq(Item)]
      /\ Head(batch[s]) = batch[s][1] /\ 1 \in 1..Len(batch[s]) /\ batch[s][1] \in Item
      /\ \A v \in Sched : v # s => batch'[v] = batch[v]
      /\ \A i \in 1..Len(batch'[s]) : i + 1 \in 1..Len(batch[s]) /\ batch'[s][i] = batch[s][i + 1]
  BY <1>0, Popped
<1>b. t \in Task /\ t # NoTask
  BY <1>a, NoTaskIsNoTask DEF Item
<1>c. /\ cur' = [cur EXCEPT ![s] = batch[s][1]]
      /\ st' = [st EXCEPT ![t] = "running"]
      /\ op' = [op EXCEPT ![t].live = FALSE]
      /\ UNCHANGED <<running, lpc, last, posts, ready, sq, flight, cq>>
  BY <1>a DEF Resume, loop, ring
<1>1. TypeOK'
  <2>1. cur' \in [Sched -> Item \cup {Idle}]
    BY <1>0, <1>a, <1>c
  <2>2. op' \in [Task -> Op]
    BY <1>0, <1>b, <1>c, ZenonT(60) DEF Op
  <2>3. st' \in [Task -> {"none", "posted", "created", "running", "waiting", "done", "destroyed"}]
    BY <1>b, <1>c DEF TypeOK
  <2> QED
    BY <1>a, <1>c, <2>1, <2>2, <2>3 DEF TypeOK
<1>d. /\ cur'[s].task = t /\ \A v \in Sched : v # s => cur'[v] = cur[v]
      /\ st'[t] = "running" /\ \A u \in Task : u # t => st'[u] = st[u] /\ op'[u] = op[u]
      /\ ~ op'[t].live
  BY <1>0, <1>b, <1>c DEF Op
<1>e. st[t] = "created" \/ st[t] = "waiting"
  BY <1>a DEF BatchPending, Pending
<1>f. /\ Fresh(ready, t) /\ Fresh(batch', t)
      /\ Once(batch') /\ Apart(ready, batch')
  <2>1. Pops(batch', batch, s)
    BY <1>0 DEF Pops
  <2> QED
    BY <2>1, OncePopped DEF BatchOnce, ReadyOrBatch
<1>h. \A v \in Sched : cur[v].task # t
  BY <1>b, <1>e DEF CurRuns
<1> HIDE DEF t
<1>2. PostsPosted' /\ PostsOnce'
  BY <1>c, <1>d, <1>e, ItemsAreTasks DEF PostsPosted, PostsOnce
<1>3. ReadyPending'
  BY <1>c, <1>d, <1>f, ItemsAreTasks DEF ReadyPending, Pending, Fresh
<1>4. BatchPending'
  <2>1. \A v \in Sched : \A i \in 1..Len(batch'[v]) : batch'[v][i].task \in Task /\ Pending(batch'[v][i].task)
    BY <1>a, ItemsAreTasks, SMTT(30) DEF BatchPending
  <2> QED
    BY <2>1, <1>d, <1>f DEF BatchPending, Pending, Fresh
<1>5. ReadyOnce' /\ BatchOnce' /\ ReadyOrBatch'
  BY <1>c, <1>f DEF ReadyOnce, BatchOnce, ReadyOrBatch
<1>8. CurRuns' /\ CurOnce'
  BY <1>d, <1>h, ItemsAreTasks DEF CurRuns, CurOnce
<1>9. LiveWaits'
  BY <1>d DEF LiveWaits
<1> QED
  BY <1>1, <1>2, <1>3, <1>4, <1>5, <1>8, <1>9

\* An operation that is given the result of completion c.
LEMMA EndedValue ==
    ASSUME NEW t \in Task, NEW c \in Cqe, op[t] \in Op
    PROVE  /\ Ended(t, c) \in Op
           /\ Ended(t, c).n = op[t].n /\ Ended(t, c).kind = op[t].kind /\ Ended(t, c).live = op[t].live
           /\ Ended(t, c).completed /\ Ended(t, c).res = c.res /\ Ended(t, c).at = op[t].at
           /\ Ended(t, c).foreign = (op[t].foreign \/ (c.task # t /\ c.res > 0))
<1>1. c.res \in Int /\ (op[t].foreign \/ (c.task # t /\ c.res > 0)) \in BOOLEAN
  BY DEF Cqe, Op
<1> HIDE DEF Cqe
<1> QED
  BY <1>1 DEF Ended, Op

\* The operation that handle_cqe completes, if it completes one: the one the completion is of, or a timed
\* receive of the same scheduler when that one is gone.
Completes(s, c, t) ==
    /\ op[t].live /\ ~ op[t].completed
    /\ \/ t = c.task /\ op[t].n = c.n
       \/ ~ Addressed(c) /\ op[t].kind = "timed" /\ op[t].at = s
    /\ op' = [op EXCEPT ![t] = Ended(t, c)]
    /\ ready' = [ready EXCEPT ![op[t].at] = Append(@, [task |-> t, destroy |-> FALSE])]

\* What handle_cqe does.
LEMMA ReapShape ==
    ASSUME NEW s \in Sched, TypeOK, Reap(s)
    PROVE  /\ cq[s] # << >> /\ cq' = [cq EXCEPT ![s] = Tail(@)]
           /\ Head(cq[s]) = cq[s][1] /\ cq[s][1] \in Cqe /\ cq[s][1].task \in Task
           /\ UNCHANGED <<running, lpc, last, posts, batch, cur, sq, flight, st>>
           /\ \/ UNCHANGED <<ready, op>> /\ (Addressed(cq[s][1]) => op[cq[s][1].task].completed)
              \/ \E t \in Task : Completes(s, cq[s][1], t)
<1>1. /\ cq \in [Sched -> Seq(Cqe)] /\ cq[s] # << >> /\ cq' = [cq EXCEPT ![s] = Tail(@)]
      /\ UNCHANGED <<running, lpc, last, posts, batch, cur, sq, flight, st>>
  BY DEF TypeOK, Reap, loop
<1>2. Head(cq[s]) = cq[s][1] /\ cq[s][1] \in Cqe
  BY <1>1, Popped
<1>3. cq[s][1].task \in Task
  BY <1>2 DEF Cqe
<1>4. PICK c : c = cq[s][1]
  OBVIOUS
<1>5. \/ Addressed(c) /\ Complete(c.task, c)
      \/ ~ Addressed(c) /\ \E t \in Task : Aliased(s, t) /\ Complete(t, c)
      \/ ~ Addressed(c) /\ UNCHANGED <<ready, op>>
  BY <1>2, <1>4 DEF Reap
<1>6. \/ UNCHANGED <<ready, op>> /\ (Addressed(c) => op[c.task].completed)
      \/ \E t \in Task : Completes(s, c, t)
  BY <1>3, <1>4, <1>5 DEF Completes, Complete, Addressed, Aliased
<1> QED
  BY <1>1, <1>2, <1>3, <1>4, <1>6

\* Handing a completion to its operation keeps SchedInv: the task was suspended without a result,
\* so its handle was in no queue.
LEMMA ReapSched ==
    ASSUME NEW s \in Sched, SchedInv, Reap(s)
    PROVE  SchedInv'
<1> USE DEF SchedInv
<1> DEFINE c == cq[s][1]
<1>0. /\ cq \in [Sched -> Seq(Cqe)] /\ cq[s] # << >> /\ cq' = [cq EXCEPT ![s] = Tail(@)]
      /\ ready \in [Sched -> Seq(Item)] /\ op \in [Task -> Op]
      /\ UNCHANGED <<running, lpc, last, posts, batch, cur, sq, flight, st>>
  BY ReapShape DEF TypeOK
<1>a. cq' \in [Sched -> Seq(Cqe)] /\ c \in Cqe
  BY <1>0, Popped
<1>1. CASE UNCHANGED <<ready, op>>
  <2>1. TypeOK'
    BY <1>0, <1>a, <1>1 DEF TypeOK
  <2> QED
    BY <1>0, <1>1, <2>1, SchedFrame
<1>2. ASSUME NEW t \in Task, Completes(s, c, t) PROVE SchedInv'
  <2> DEFINE item == [task |-> t, destroy |-> FALSE]
             at == op[t].at
  <2>0. /\ op[t].live /\ ~ op[t].completed /\ op' = [op EXCEPT ![t] = Ended(t, c)]
        /\ ready' = [ready EXCEPT ![at] = Append(@, item)]
    BY <1>2 DEF Completes
  <2>9. st[t] = "waiting" /\ at \in Sched /\ item \in Item /\ item.task = t
    BY <2>0 DEF LiveWaits, Item
  <2>a. /\ ready' \in [Sched -> Seq(Item)]
        /\ ready'[at][Len(ready'[at])] = item
        /\ \A v \in Sched : \A i \in 1..Len(ready'[v]) :
              \/ i \in 1..Len(ready[v]) /\ ready'[v][i] = ready[v][i]
              \/ v = at /\ i = Len(ready'[at])
    BY <1>0, <2>0, <2>9, Appended
  <2>b. /\ op' \in [Task -> Op] /\ op'[t].live /\ op'[t].completed /\ op'[t].at = at
        /\ \A u \in Task : u # t => op'[u] = op[u]
    <3>1. op[t] \in Op
      BY <1>0
    <3>2. Ended(t, c) \in Op /\ Ended(t, c).live /\ Ended(t, c).completed /\ Ended(t, c).at = at
      BY <1>a, <2>0, <3>1, EndedValue
    <3> QED
      BY <1>0, <2>0, <3>2
  <2>1. TypeOK'
    BY <1>0, <1>a, <2>a, <2>b DEF TypeOK
  <2>c. Fresh(ready, t)
    BY <2>0, <2>9 DEF ReadyPending, Pending, Fresh
  <2>d. Fresh(batch, t)
    BY <2>0, <2>9 DEF BatchPending, Pending, Fresh
  <2>e. Appends(ready', ready, at, item)
    BY <1>0, <2>0, <2>9 DEF Appends
  <2> HIDE DEF c, item, at
  <2>2. PostsPosted' /\ PostsOnce' /\ CurRuns' /\ CurOnce'
    BY <1>0 DEF PostsPosted, PostsOnce, CurRuns, CurOnce
  <2>3. ReadyPending'
    <3> SUFFICES ASSUME NEW v \in Sched, NEW i \in 1..Len(ready'[v])
                 PROVE  \/ st[ready'[v][i].task] = "created"
                        \/ /\ st[ready'[v][i].task] = "waiting"
                           /\ op'[ready'[v][i].task].live /\ op'[ready'[v][i].task].completed
      BY <1>0 DEF ReadyPending, Pending
    <3>1. CASE i \in 1..Len(ready[v]) /\ ready'[v][i] = ready[v][i]
      BY <3>1, <2>b, <2>c, ItemsAreTasks DEF ReadyPending, Pending, Fresh
    <3>2. CASE v = at /\ i = Len(ready'[at])
      BY <3>2, <2>9, <2>a, <2>b
    <3> QED
      BY <2>a, <3>1, <3>2
  <2>4. BatchPending'
    BY <1>0, <2>b, <2>d, ItemsAreTasks DEF BatchPending, Pending, Fresh
  <2>5. ReadyOnce'
    BY <2>9, <2>c, <2>e, OnceAppended DEF ReadyOnce
  <2>6. BatchOnce'
    BY <1>0 DEF BatchOnce
  <2>7. ReadyOrBatch'
    BY <1>0, <2>9, <2>d, <2>e, ApartAppended DEF ReadyOrBatch
  <2>8. LiveWaits'
    BY <1>0, <2>9, <2>b DEF LiveWaits
  <2> QED
    BY <2>1, <2>2, <2>3, <2>4, <2>5, <2>6, <2>7, <2>8
<1> QED
  BY <1>1, <1>2, ReapShape

\* What getSqe leaves in the ring: the request is added, after a submit if the ring was full.
LEMMA QueuedShape ==
    ASSUME NEW q \in Seq(Req), NEW fl \in SUBSET Req, NEW r \in Req
    PROVE  /\ Queued(q, fl, r).sq \in Seq(Req) /\ Queued(q, fl, r).flight \in SUBSET Req
           /\ \/ /\ Queued(q, fl, r).sq = Append(q, r)
                 /\ Queued(q, fl, r).flight = fl
              \/ /\ Queued(q, fl, r).sq = <<r>>
                 /\ Queued(q, fl, r).flight = fl \cup ToSet(q)
<1>1. ToSet(q) \in SUBSET Req
  BY DEF ToSet
<1>2. CASE Room(q)
  BY <1>2 DEF Queued
<1>3. CASE ~ Room(q)
  BY <1>1, <1>3 DEF Queued
<1> QED
  BY <1>2, <1>3

\* The fields of a request.
LEMMA RequestType ==
    ASSUME NEW t \in Task, NEW n \in Nat, NEW k \in {"io", "held", "armed", "free"}
    PROVE  /\ Request(t, n, k) \in Req /\ Request(t, n, k).task = t
           /\ Request(t, n, k).n = n /\ Request(t, n, k).kind = k
BY DEF Request, Req

\* An operation that is begun again is an operation.
LEMMA OpUpdate ==
    ASSUME NEW o \in Op, NEW n \in Nat, NEW kind \in {"plain", "timed"}, NEW s \in Sched, NEW f \in BOOLEAN
    PROVE  [o EXCEPT !.n = n, !.kind = kind, !.live = TRUE, !.at = s, !.foreign = f] \in Op
BY DEF Op

\* The operation a co_await begins.
LEMMA NewOpValue ==
    ASSUME NEW t \in Task, NEW kind \in {"plain", "timed"}, NEW s \in Sched, op[t] \in Op
    PROVE  /\ NewOp(t, kind, s) \in Op
           /\ NewOp(t, kind, s).n = op[t].n + 1 /\ NewOp(t, kind, s).kind = kind
           /\ NewOp(t, kind, s).live /\ ~ NewOp(t, kind, s).completed /\ NewOp(t, kind, s).res = 0
           /\ NewOp(t, kind, s).at = s /\ NewOp(t, kind, s).foreign = op[t].foreign
<1>1. op[t].n + 1 \in Nat /\ op[t].foreign \in BOOLEAN /\ NoOp \in Op
  BY DEF Op, NoOp
<1>2. NewOp(t, kind, s) \in Op
  BY <1>1, OpUpdate DEF NewOp
<1> QED
  BY <1>2 DEF NewOp, NoOp

\* A step of the coroutine that scheduler s is running, which gives up the processor.
LEMMA YieldSched ==
    ASSUME NEW s \in Sched, NEW t \in Task, SchedInv, TypeOK', cur[s].task = t,
           cur' = [cur EXCEPT ![s] = Idle],
           \A u \in Task : u # t => st'[u] = st[u] /\ op'[u] = op[u],
           st'[t] \in {"waiting", "done", "destroyed"}, op'[t].live <=> st'[t] = "waiting", op'[t].live => op'[t].at \in Sched,
           UNCHANGED <<posts, ready, batch>>
    PROVE  SchedInv'
<1> USE DEF SchedInv
<1>0. st[t] = "running" /\ t # NoTask
  BY NoTaskIsNoTask DEF CurRuns
<1>1. cur'[s].task = NoTask /\ \A v \in Sched : v # s => cur'[v] = cur[v] /\ cur[v].task # t
  BY <1>0 DEF TypeOK, Idle, CurOnce
<1>2. PostsPosted' /\ PostsOnce'
  BY <1>0, ItemsAreTasks DEF PostsPosted, PostsOnce
<1>3. ReadyPending'
  BY <1>0, ItemsAreTasks DEF ReadyPending, Pending
<1>4. BatchPending'
  BY <1>0, ItemsAreTasks, SMTT(30) DEF BatchPending, Pending
<1>5. ReadyOnce' /\ BatchOnce' /\ ReadyOrBatch'
  BY DEF ReadyOnce, BatchOnce, ReadyOrBatch
<1>6. CurRuns' /\ CurOnce'
  BY <1>1, ItemsAreTasks DEF CurRuns, CurOnce
<1>7. LiveWaits'
  BY DEF LiveWaits
<1> QED
  BY <1>2, <1>3, <1>4, <1>5, <1>6, <1>7

\* A coroutine that returns or throws keeps SchedInv.
LEMMA FinishSched ==
    ASSUME NEW s \in Sched, SchedInv, Finish(s)
    PROVE  SchedInv'
<1> DEFINE t == cur[s].task
<1>0. t \in Task
  BY ItemsAreTasks DEF SchedInv, Finish
<1>1. cur' = [cur EXCEPT ![s] = Idle] /\ UNCHANGED <<posts, ready, batch>>
  BY DEF Finish
<1>2. /\ \A u \in Task : u # t => st'[u] = st[u] /\ op'[u] = op[u]
      /\ st'[t] \in {"done", "destroyed"}
  BY <1>0 DEF SchedInv, TypeOK, Finish
<1>3. ~ op'[t].live /\ st'[t] # "waiting"
  BY <1>0, <1>2, NoTaskIsNoTask DEF SchedInv, Finish, LiveWaits, CurRuns
<1>4. TypeOK'
  <2>1. cur' \in [Sched -> Item \cup {Idle}]
    BY <1>1 DEF SchedInv, TypeOK
  <2>2. st' \in [Task -> {"none", "posted", "created", "running", "waiting", "done", "destroyed"}]
    BY <1>0 DEF SchedInv, TypeOK, Finish
  <2> QED
    BY <2>1, <2>2 DEF SchedInv, TypeOK, Finish, loop, ring
<1> HIDE DEF t
<1> QED
  BY <1>0, <1>1, <1>2, <1>3, <1>4, YieldSched DEF t

\* What a new operation is, and where its requests go.
LEMMA AwaitShape ==
    ASSUME NEW s \in Sched, NEW kind \in {"plain", "timed"}, TypeOK, Await(s, kind)
    PROVE  /\ cur[s].task \in Task
           /\ op' \in [Task -> Op]
           /\ \A u \in Task : u # cur[s].task => op'[u] = op[u] /\ st'[u] = st[u]
           /\ op'[cur[s].task] = NewOp(cur[s].task, kind, s)
           /\ sq' \in [Sched -> Seq(Req)] /\ flight' \in [Sched -> SUBSET Req]
           /\ TypeOK'
<1> DEFINE t == cur[s].task
           n == op[t].n + 1
           io == Queued(sq[s], flight[s], Request(t, n, "io"))
           q == IF kind = "timed" THEN QueuedWithTimeout(sq[s], flight[s], t, n) ELSE io
<1>0. t \in Task
  BY ItemsAreTasks DEF Await
<1>1. n \in Nat /\ op[t] \in Op
  BY <1>0 DEF TypeOK, Op
<1>2. sq[s] \in Seq(Req) /\ flight[s] \in SUBSET Req
  BY DEF TypeOK
<1>3. op' = [op EXCEPT ![t] = NewOp(t, kind, s)] /\ NewOp(t, kind, s) \in Op
  <2>1. NewOp(t, kind, s) \in Op
    BY <1>0, <1>1, NewOpValue
  <2> QED
    BY <2>1 DEF Await
<1>4. io.sq \in Seq(Req) /\ io.flight \in SUBSET Req
  <2>1. Request(t, n, "io") \in Req
    BY <1>0, <1>1, RequestType
  <2> HIDE DEF t, n
  <2> QED
    BY <1>2, <2>1, QueuedShape
<1>5. q.sq \in Seq(Req) /\ q.flight \in SUBSET Req
  <2> DEFINE r == Request(t, n, IF Room(io.sq) THEN "held" ELSE "free")
  <2>1. r \in Req
    BY <1>0, <1>1, RequestType
  <2>2. QueuedWithTimeout(sq[s], flight[s], t, n) = Queued(io.sq, io.flight, r)
    BY DEF QueuedWithTimeout
  <2> HIDE DEF r, io, n, t
  <2>3. Queued(io.sq, io.flight, r).sq \in Seq(Req) /\ Queued(io.sq, io.flight, r).flight \in SUBSET Req
    BY <1>4, <2>1, QueuedShape
  <2> QED
    BY <1>4, <2>2, <2>3
<1>6. sq' = [sq EXCEPT ![s] = q.sq] /\ flight' = [flight EXCEPT ![s] = q.flight]
  BY DEF Await
<1>7. sq' \in [Sched -> Seq(Req)] /\ flight' \in [Sched -> SUBSET Req]
  <2> HIDE DEF q
  <2> QED
    BY <1>5, <1>6 DEF TypeOK
<1>8. /\ cur' = [cur EXCEPT ![s] = Idle] /\ st' = [st EXCEPT ![t] = "waiting"]
      /\ UNCHANGED <<running, lpc, last, posts, ready, batch, cq>>
  BY DEF Await, loop
<1> HIDE DEF t, n, io, q
<1>9. op' \in [Task -> Op] /\ op'[t] = NewOp(t, kind, s)
      /\ \A u \in Task : u # t => op'[u] = op[u]
  BY <1>0, <1>3 DEF TypeOK
<1>10. /\ cur' \in [Sched -> Item \cup {Idle}]
       /\ st' \in [Task -> {"none", "posted", "created", "running", "waiting", "done", "destroyed"}]
       /\ \A u \in Task : u # t => st'[u] = st[u]
  BY <1>0, <1>8 DEF TypeOK
<1>11. TypeOK'
  BY <1>7, <1>8, <1>9, <1>10 DEF TypeOK
<1> QED
  BY <1>0, <1>7, <1>9, <1>10, <1>11 DEF t

\* A coroutine that suspends keeps SchedInv.
LEMMA AwaitSched ==
    ASSUME NEW s \in Sched, NEW kind \in {"plain", "timed"}, SchedInv, Await(s, kind)
    PROVE  SchedInv'
<1> DEFINE t == cur[s].task
<1>1. TypeOK' /\ t \in Task /\ \A u \in Task : u # t => st'[u] = st[u] /\ op'[u] = op[u]
  BY AwaitShape DEF SchedInv
<1>2. st'[t] = "waiting" /\ cur' = [cur EXCEPT ![s] = Idle] /\ UNCHANGED <<posts, ready, batch>>
  BY <1>1 DEF Await, SchedInv, TypeOK
<1>3. op'[t].live /\ op'[t].at = s
  <2>1. op[t] \in Op /\ op'[t] = NewOp(t, kind, s)
    BY <1>1, AwaitShape DEF SchedInv, TypeOK
  <2> QED
    BY <1>1, <2>1, NewOpValue
<1> HIDE DEF t
<1> QED
  BY <1>1, <1>2, <1>3, YieldSched DEF t

\* What an await that throws before it suspends leaves behind.
LEMMA AwaitThrowsShape ==
    ASSUME NEW s \in Sched, NEW kind \in {"plain", "timed"}, TypeOK, AwaitThrows(s, kind)
    PROVE  /\ cur[s].task \in Task
           /\ \A u \in Task : u # cur[s].task => op'[u] = op[u]
           /\ op'[cur[s].task] = [NewOp(cur[s].task, kind, s) EXCEPT !.live = FALSE, !.res = EIO]
           /\ TypeOK'
<1> DEFINE t == cur[s].task
           n == op[t].n + 1
           io == Queued(sq[s], flight[s], Request(t, n, "io"))
           o == [NewOp(t, kind, s) EXCEPT !.live = FALSE, !.res = EIO]
<1>0. t \in Task
  BY ItemsAreTasks DEF AwaitThrows
<1>1. n \in Nat /\ op[t] \in Op
  BY <1>0 DEF TypeOK, Op
<1>2. sq[s] \in Seq(Req) /\ flight[s] \in SUBSET Req
  BY DEF TypeOK
<1>3. op' = [op EXCEPT ![t] = o]
  BY DEF AwaitThrows
<1>3b. o \in Op
  <2>1. NewOp(t, kind, s) \in Op
    BY <1>0, <1>1, NewOpValue
  <2> QED
    <3>0. EIO \in Int
      BY DEF EIO
    <3> HIDE DEF n
    <3>1. \A x \in Op : [x EXCEPT !.live = FALSE, !.res = EIO] \in Op
      BY <3>0 DEF Op
    <3> QED
      BY <2>1, <3>1
<1>4. io.sq \in Seq(Req) /\ io.flight \in SUBSET Req
  <2>1. Request(t, n, "io") \in Req
    BY <1>0, <1>1, RequestType
  <2> HIDE DEF t, n
  <2> QED
    BY <1>2, <2>1, QueuedShape
<1>5. \/ UNCHANGED <<sq, flight>>
      \/ sq' = [sq EXCEPT ![s] = io.sq] /\ flight' = [flight EXCEPT ![s] = io.flight]
  BY DEF AwaitThrows
<1> HIDE DEF t, n, io, o
<1>6. sq' \in [Sched -> Seq(Req)] /\ flight' \in [Sched -> SUBSET Req]
  BY <1>4, <1>5 DEF TypeOK
<1>7. op' \in [Task -> Op] /\ op'[t] = o /\ \A u \in Task : u # t => op'[u] = op[u]
  BY <1>0, <1>3, <1>3b DEF TypeOK
<1>8. TypeOK'
  BY <1>6, <1>7 DEF TypeOK, AwaitThrows, loop
<1> QED
  BY <1>0, <1>7, <1>8 DEF t, n, o

\* An await that throws keeps SchedInv.
LEMMA AwaitThrowsSched ==
    ASSUME NEW s \in Sched, NEW kind \in {"plain", "timed"}, SchedInv, AwaitThrows(s, kind)
    PROVE  SchedInv'
<1> USE DEF SchedInv
<1> DEFINE t == cur[s].task
<1>0. /\ TypeOK' /\ t \in Task /\ \A u \in Task : u # t => op'[u] = op[u]
      /\ UNCHANGED <<posts, ready, batch, cur, st>>
  BY AwaitThrowsShape DEF AwaitThrows
<1>1. ~ op'[t].live
  BY AwaitThrowsShape, ZenonT(60) DEF NewOp, NoOp
<1>2. st[t] = "running"
  BY <1>0, NoTaskIsNoTask DEF CurRuns
<1> HIDE DEF t
<1>3. PostsPosted' /\ PostsOnce' /\ CurRuns' /\ CurOnce'
  BY <1>0 DEF PostsPosted, PostsOnce, CurRuns, CurOnce
<1>4. ReadyPending' /\ BatchPending'
  BY <1>0, <1>2, ItemsAreTasks, ZenonT(60) DEF ReadyPending, BatchPending, Pending
<1>5. ReadyOnce' /\ BatchOnce' /\ ReadyOrBatch'
  BY <1>0 DEF ReadyOnce, BatchOnce, ReadyOrBatch
<1>6. LiveWaits'
  BY <1>0, <1>1, <1>2 DEF LiveWaits
<1> QED
  BY <1>0, <1>3, <1>4, <1>5, <1>6

\* The end of the process keeps SchedInv.
LEMMA DieSched ==
    ASSUME SchedInv, Die
    PROVE  SchedInv'
<1> USE DEF SchedInv
<1>0. /\ \A v \in Sched : cur'[v].task = NoTask
      /\ UNCHANGED <<running, last, posts, ready, batch, sq, cq, st, op>>
  BY DEF Die, Idle, coro
<1>1. TypeOK'
  BY <1>0 DEF TypeOK, Die
<1>2. PostsPosted' /\ PostsOnce' /\ CurRuns' /\ CurOnce' /\ LiveWaits'
  BY <1>0 DEF PostsPosted, PostsOnce, CurRuns, CurOnce, LiveWaits
<1>3. ReadyPending' /\ BatchPending'
  BY <1>0 DEF ReadyPending, BatchPending, Pending
<1>4. ReadyOnce' /\ BatchOnce' /\ ReadyOrBatch'
  BY <1>0 DEF ReadyOnce, BatchOnce, ReadyOrBatch
<1> QED
  BY <1>1, <1>2, <1>3, <1>4

\* Every step of run keeps SchedInv.
LEMMA LoopStepSched ==
    ASSUME NEW s \in Sched, SchedInv, LoopStep(s)
    PROVE  SchedInv'
BY BootSched, DrainSched, SwapReadySched, ResumeSched, SubmitSched, ExitSched, ReapSched,
   ReapDoneSched DEF LoopStep

\* SchedInv holds initially.
LEMMA InitSched == Init => SchedInv
<1> SUFFICES ASSUME Init PROVE SchedInv
  OBVIOUS
<1> USE DEF Init
<1>0. \A s \in Sched : 1..Len(posts[s]) = {} /\ 1..Len(ready[s]) = {} /\ 1..Len(batch[s]) = {}
  OBVIOUS
<1>1. TypeOK
  <2>1. /\ NoOp \in Op /\ Idle \in Item \cup {Idle}
        /\ << >> \in Seq(Task) /\ << >> \in Seq(Item) /\ << >> \in Seq(Req) /\ << >> \in Seq(Cqe)
    BY DEF NoOp, Op
  <2> QED
    BY <2>1 DEF TypeOK
<1>2. PostsPosted /\ PostsOnce /\ ReadyPending /\ BatchPending
  BY <1>0 DEF PostsPosted, PostsOnce, ReadyPending, BatchPending
<1>3. ReadyOnce /\ BatchOnce /\ ReadyOrBatch
  BY <1>0 DEF ReadyOnce, BatchOnce, ReadyOrBatch, Once, Apart
<1>4. CurRuns /\ CurOnce /\ LiveWaits
  BY DEF CurRuns, CurOnce, LiveWaits, Idle, NoOp
<1> QED
  BY <1>1, <1>2, <1>3, <1>4 DEF SchedInv

\* What a running coroutine does: it awaits, in one of its kinds, or finishes.
LEMMA TaskStepKinds ==
    ASSUME NEW s \in Sched, TypeOK, TaskStep(s)
    PROVE  /\ cur[s].task \in Task
           /\ \/ \E kind \in {"plain", "timed"} :
                    kind \in Kinds[cur[s].task] /\ (Await(s, kind) \/ AwaitThrows(s, kind))
              \/ Finish(s)
<1>1. cur[s].task \in Task
  BY ItemsAreTasks DEF TaskStep
<1>2. Kinds[cur[s].task] \subseteq {"plain", "timed"}
  BY <1>1, KindsAssumption
<1> QED
  BY <1>1, <1>2 DEF TaskStep

\* SchedInv is inductive.
LEMMA NextSched == SchedInv /\ [Next]_svars => SchedInv'
<1> SUFFICES ASSUME SchedInv, [Next]_svars PROVE SchedInv'
  OBVIOUS
<1>1. CASE UNCHANGED svars
  <2>1. UNCHANGED <<running, lpc, last, posts, ready, batch, cur, sq, flight, cq, st, op>>
    BY <1>1 DEF svars, loop, ring, coro
  <2>2. TypeOK'
    BY <2>1 DEF SchedInv, TypeOK
  <2> QED
    BY <2>1, <2>2, SchedFrame
<1>2. ASSUME NEW s \in Sched, NEW t \in Task, Post(s, t) \/ Start(s, t) PROVE SchedInv'
  BY <1>2, PostSched, StartSched
<1>3. ASSUME NEW s \in Sched, Stop(s) \/ LoopStep(s) \/ ReapDangling(s) PROVE SchedInv'
  BY <1>3, StopSched, LoopStepSched, DieSched DEF ReapDangling
<1>4. ASSUME NEW s \in Sched, TaskStep(s) PROVE SchedInv'
  BY <1>4, TaskStepKinds, AwaitSched, AwaitThrowsSched, FinishSched DEF SchedInv
<1>5. ASSUME NEW s \in Sched, NEW r \in flight[s], NEW res \in {1, 0, EIO}, IoDone(s, r, res)
      PROVE  SchedInv'
  BY <1>5, IoDoneSched DEF EIO
<1>6. ASSUME NEW s \in Sched, TimerStep(s) PROVE SchedInv'
  BY <1>6, TimerFiresSched, TimerRejectedSched DEF TimerStep
<1> QED
  BY <1>1, <1>2, <1>3, <1>4, <1>5, <1>6 DEF Next

\* Where an index of a concatenation falls.
LEMMA ConcatIndex ==
    ASSUME NEW S, NEW a \in Seq(S), NEW b \in Seq(S), NEW i \in DOMAIN (a \o b)
    PROVE  /\ i \in Int /\ a \o b \in Seq(S)
           /\ \/ i \in DOMAIN a /\ (a \o b)[i] = a[i]
              \/ i - Len(a) \in 1..Len(b) /\ (a \o b)[i] = b[i - Len(a)]
<1>0. a \o b \in Seq(S) /\ Len(a \o b) = Len(a) + Len(b)
  BY ConcatProperties
<1>1. i \in 1..(Len(a) + Len(b)) /\ Len(a) \in Nat /\ Len(b) \in Nat
  BY <1>0
<1>2. (a \o b)[i] = IF i <= Len(a) THEN a[i] ELSE b[i - Len(a)]
  BY <1>1, ConcatProperties
<1> QED
  BY <1>0, <1>1, <1>2

\* Where an index of a schedule falls: the task being resumed, the batch or ready_.
LEMMA ScheduleShape ==
    ASSUME SchedInv, NEW s \in Sched
    PROVE  \E k \in {0, 1} :
              /\ k = 0 => cur[s].task = NoTask
              /\ k = 1 => cur[s].task # NoTask
              /\ \A i \in DOMAIN Schedule(s) :
                    \/ i = 1 /\ k = 1 /\ Schedule(s)[i] = cur[s]
                    \/ i - k \in 1..Len(batch[s]) /\ Schedule(s)[i] = batch[s][i - k]
                    \/ /\ i - (k + Len(batch[s])) \in 1..Len(ready[s])
                       /\ Schedule(s)[i] = ready[s][i - (k + Len(batch[s]))]
<1>0. /\ batch[s] \in Seq(Item) /\ ready[s] \in Seq(Item) /\ cur[s] \in Item \cup {Idle}
  BY DEF SchedInv, TypeOK
<1>a. (IF cur[s] = Idle THEN << >> ELSE <<cur[s]>>) \in Seq(Item)
  BY <1>0
<1>1. PICK c \in Seq(Item) : c = IF cur[s] = Idle THEN << >> ELSE <<cur[s]>>
  BY <1>a, Zenon
<1>2. PICK k \in {0, 1} : k = Len(c)
  BY <1>1
<1>3. (k = 1 => cur[s].task # NoTask) /\ (k = 0 => cur[s].task = NoTask)
  <2>1. CASE cur[s] = Idle
    BY <1>1, <1>2, <2>1 DEF Idle
  <2>2. CASE cur[s] # Idle
    BY <1>0, <1>1, <1>2, <2>2, NoTaskIsNoTask DEF Item
  <2> QED
    BY <2>1, <2>2
<1>4. \A i \in DOMAIN c : i = 1 /\ k = 1 /\ c[i] = cur[s]
  BY <1>1, <1>2
<1>5. PICK b \in Seq(Item) : b = c \o batch[s]
  BY <1>0, ConcatProperties
<1>6. Schedule(s) = b \o ready[s] /\ Len(b) = k + Len(batch[s])
  BY <1>0, <1>1, <1>2, <1>5, ConcatProperties DEF Schedule
<1>7. ASSUME NEW i \in DOMAIN Schedule(s)
      PROVE  \/ i = 1 /\ k = 1 /\ Schedule(s)[i] = cur[s]
             \/ i - k \in 1..Len(batch[s]) /\ Schedule(s)[i] = batch[s][i - k]
             \/ /\ i - (k + Len(batch[s])) \in 1..Len(ready[s])
                /\ Schedule(s)[i] = ready[s][i - (k + Len(batch[s]))]
  <2>1. \/ i \in DOMAIN b /\ Schedule(s)[i] = b[i]
        \/ i - Len(b) \in 1..Len(ready[s]) /\ Schedule(s)[i] = ready[s][i - Len(b)]
    BY <1>0, <1>6, ConcatIndex, SMTT(30)
  <2>2. i \in DOMAIN b => \/ i \in DOMAIN c /\ b[i] = c[i]
                          \/ i - Len(c) \in 1..Len(batch[s]) /\ b[i] = batch[s][i - Len(c)]
    BY <1>0, <1>5, ConcatIndex
  <2> QED
    BY <1>2, <1>4, <1>6, <2>1, <2>2
<1> QED
  BY <1>3, <1>7

\* The indices of a schedule are integers.
LEMMA ScheduleIsSeq ==
    ASSUME SchedInv, NEW s \in Sched, NEW i \in DOMAIN Schedule(s)
    PROVE  i \in Int
<1>0. /\ batch[s] \in Seq(Item) /\ ready[s] \in Seq(Item) /\ cur[s] \in Item \cup {Idle}
  BY DEF SchedInv, TypeOK
<1>1. (IF cur[s] = Idle THEN << >> ELSE <<cur[s]>>) \in Seq(Item)
  BY <1>0
<1>2. Schedule(s) \in Seq(Item)
  <2>1. (IF cur[s] = Idle THEN << >> ELSE <<cur[s]>>) \o batch[s] \in Seq(Item)
    BY <1>0, <1>1, ConcatProperties
  <2> QED
    BY <1>0, <2>1, ConcatProperties DEF Schedule
<1> QED
  BY <1>2

\* The invariant implies ResumedOnce.
LEMMA ResumedOnceHolds == SchedInv => ResumedOnce
<1> SUFFICES ASSUME SchedInv, NEW s1 \in Sched, NEW s2 \in Sched,
                    NEW i \in DOMAIN Schedule(s1), NEW j \in DOMAIN Schedule(s2)
             PROVE  LET t == Schedule(s1)[i].task
                    IN  /\ t = Schedule(s2)[j].task => s1 = s2 /\ i = j
                        /\ st[t] \in {"created", "running"} \/ (st[t] = "waiting" /\ op[t].completed)
  BY DEF ResumedOnce
<1> USE DEF SchedInv
<1> DEFINE InBatch(s, k, n) == n - k \in 1..Len(batch[s]) /\ Schedule(s)[n] = batch[s][n - k]
           InReady(s, k, n) == /\ n - (k + Len(batch[s])) \in 1..Len(ready[s])
                               /\ Schedule(s)[n] = ready[s][n - (k + Len(batch[s]))]
           IsCur(s, k, n) == n = 1 /\ k = 1 /\ Schedule(s)[n] = cur[s]
           Shape(s, k) == /\ k = 0 => cur[s].task = NoTask
                          /\ k = 1 => cur[s].task # NoTask
                          /\ \A n \in DOMAIN Schedule(s) : IsCur(s, k, n) \/ InBatch(s, k, n) \/ InReady(s, k, n)
<1>1. PICK k \in {0, 1} : Shape(s1, k)
  BY ScheduleShape
<1>2. PICK l \in {0, 1} : Shape(s2, l)
  BY ScheduleShape
<1>3. IsCur(s1, k, i) => st[Schedule(s1)[i].task] = "running"
  BY <1>1 DEF CurRuns
<1>4. InBatch(s1, k, i) => Pending(Schedule(s1)[i].task)
  BY DEF BatchPending
<1>5. InReady(s1, k, i) => Pending(Schedule(s1)[i].task)
  BY DEF ReadyPending
<1>6. IsCur(s2, l, j) => st[Schedule(s2)[j].task] = "running"
  BY <1>2 DEF CurRuns
<1>7. InBatch(s2, l, j) => Pending(Schedule(s2)[j].task)
  BY DEF BatchPending
<1>8. InReady(s2, l, j) => Pending(Schedule(s2)[j].task)
  BY DEF ReadyPending
<1>9. (IsCur(s1, k, i) \/ InBatch(s1, k, i) \/ InReady(s1, k, i))
      /\ (IsCur(s2, l, j) \/ InBatch(s2, l, j) \/ InReady(s2, l, j))
  BY <1>1, <1>2
<1>10. st[Schedule(s1)[i].task] \in {"created", "running"}
         \/ (st[Schedule(s1)[i].task] = "waiting" /\ op[Schedule(s1)[i].task].completed)
  BY <1>3, <1>4, <1>5, <1>9 DEF Pending
<1>12. i \in Int /\ j \in Int
  BY ScheduleIsSeq
<1>11. ASSUME Schedule(s1)[i].task = Schedule(s2)[j].task PROVE s1 = s2 /\ i = j
  <2>1. CASE IsCur(s1, k, i) /\ IsCur(s2, l, j)
    BY <1>1, <1>2, <1>11, <2>1 DEF CurOnce
  <2>2. CASE InBatch(s1, k, i) /\ InBatch(s2, l, j)
    <3>1. s1 = s2 /\ i - k = j - l
      BY <1>11, <2>2 DEF BatchOnce, Once
    <3>2. k = l
      BY <1>1, <1>2, <3>1
    <3>3. i \in Int /\ j \in Int
      BY <1>12
    <3> QED
      BY <3>1, <3>2, <3>3
  <2>3. CASE InReady(s1, k, i) /\ InReady(s2, l, j)
    <3>1. s1 = s2 /\ i - (k + Len(batch[s1])) = j - (l + Len(batch[s2]))
      BY <1>11, <2>3 DEF ReadyOnce, Once
    <3>2. k = l
      BY <1>1, <1>2, <3>1
    <3>3. i \in Int /\ j \in Int /\ Len(batch[s1]) \in Nat
      BY <1>12 DEF TypeOK
    <3> QED
      BY <3>1, <3>2, <3>3
  <2>4. CASE InBatch(s1, k, i) /\ InReady(s2, l, j)
    BY <1>11, <2>4 DEF ReadyOrBatch, Apart
  <2>5. CASE InReady(s1, k, i) /\ InBatch(s2, l, j)
    BY <1>11, <2>5 DEF ReadyOrBatch, Apart
  <2> HIDE DEF IsCur, InBatch, InReady
  <2> QED
    BY <1>3, <1>4, <1>5, <1>6, <1>7, <1>8, <1>9, <1>11, <2>1, <2>2, <2>3, <2>4, <2>5 DEF Pending
<1> QED
  BY <1>10, <1>11

\* For any number of schedulers and coroutines, a coroutine is never scheduled twice, in one run loop or in
\* two, and a handle that waits to be resumed is that of a coroutine that has not begun, runs, or is suspended
\* with its result: UringScheduler::run never resumes a running or destroyed coroutine.
THEOREM SchedulerResumesOnce == Spec => []ResumedOnce
<1>1. Init => SchedInv
  BY InitSched
<1>2. SchedInv /\ [Next]_svars => SchedInv'
  BY NextSched
<1>3. SchedInv => ResumedOnce
  BY ResumedOnceHolds
<1> QED
  BY <1>1, <1>2, <1>3, PTL DEF Spec

-----------------------------------------------------------------------------
\* The types of the ring: submission queues, requests in flight, completion queues.
Queues(SQ, FL, CQ) ==
    SQ \in [Sched -> Seq(Req)] /\ FL \in [Sched -> SUBSET Req] /\ CQ \in [Sched -> Seq(Cqe)]

\* No entry of A or C is of task t.
Nothing(A, C, t, SQ, FL, CQ) ==
    /\ \A v \in Sched : \A i \in 1..Len(SQ[v]) : SQ[v][i] \in A => SQ[v][i].task # t
    /\ \A v \in Sched : \A r \in FL[v] : r \in A => r.task # t
    /\ \A v \in Sched : \A i \in 1..Len(CQ[v]) : CQ[v][i] \in C => CQ[v][i].task # t

\* The steps of the ring: an entry pushed, the queue submitted, requests completed, a completion reaped.
Pushes(p, q, s, x, S) ==
    /\ q \in [Sched -> Seq(S)] /\ s \in Sched /\ x \in S
    /\ p = [q EXCEPT ![s] = Append(@, x)]
Submits(SQ1, FL1, SQ, FL, s) ==
    /\ s \in Sched /\ SQ1 = [SQ EXCEPT ![s] = << >>] /\ FL1 = [FL EXCEPT ![s] = @ \cup ToSet(SQ[s])]
Shrinks(A, FL1, FL) == \A v \in Sched : \A r \in FL1[v] : r \in FL[v] \/ r \notin A
Reaps(CQ1, CQ, s) ==
    /\ CQ \in [Sched -> Seq(Cqe)] /\ s \in Sched /\ CQ[s] # << >>
    /\ CQ1 = [CQ EXCEPT ![s] = Tail(@)]

\* Uniqueness is kept by queueing a request of a task that has nothing under way ...
LEMMA UniquePushed ==
    ASSUME NEW A, NEW C, NEW SQ, NEW FL, NEW CQ, NEW SQ1, NEW s, NEW r,
           Unique(A, C, SQ, FL, CQ), Queues(SQ, FL, CQ), Pushes(SQ1, SQ, s, r, Req),
           r \in A => Nothing(A, C, r.task, SQ, FL, CQ)
    PROVE  Unique(A, C, SQ1, FL, CQ) /\ Queues(SQ1, FL, CQ)
<1>1. /\ SQ1 \in [Sched -> Seq(Req)] /\ SQ \in [Sched -> Seq(Req)] /\ s \in Sched
      /\ SQ1[s][Len(SQ1[s])] = r
      /\ \A v \in Sched : \A i \in 1..Len(SQ1[v]) :
            \/ i \in 1..Len(SQ[v]) /\ SQ1[v][i] = SQ[v][i]
            \/ v = s /\ i = Len(SQ1[s])
  BY Appended DEF Pushes
<1>2. OneEach(A, SQ1)
  <2> SUFFICES ASSUME NEW v \in Sched, NEW w \in Sched, NEW i \in 1..Len(SQ1[v]), NEW j \in 1..Len(SQ1[w]),
                      SQ1[v][i] \in A, SQ1[w][j] \in A, SQ1[v][i].task = SQ1[w][j].task
               PROVE  v = w /\ i = j
    BY DEF OneEach
  <2>1. CASE SQ1[v][i] = r /\ v = s /\ i = Len(SQ1[s]) /\ j \in 1..Len(SQ[w]) /\ SQ1[w][j] = SQ[w][j]
    BY <2>1 DEF Nothing
  <2>2. CASE SQ1[w][j] = r /\ w = s /\ j = Len(SQ1[s]) /\ i \in 1..Len(SQ[v]) /\ SQ1[v][i] = SQ[v][i]
    BY <2>2 DEF Nothing
  <2>3. CASE i \in 1..Len(SQ[v]) /\ SQ1[v][i] = SQ[v][i] /\ j \in 1..Len(SQ[w]) /\ SQ1[w][j] = SQ[w][j]
    BY <2>3 DEF Unique, OneEach
  <2> QED
    BY <1>1, <2>1, <2>2, <2>3
<1>3. FlightApart(A, A, FL, SQ1)
  <2> SUFFICES ASSUME NEW v \in Sched, NEW w \in Sched, NEW x \in FL[v], NEW j \in 1..Len(SQ1[w]),
                      x \in A, SQ1[w][j] \in A
               PROVE  x.task # SQ1[w][j].task
    BY DEF FlightApart
  <2>1. CASE j \in 1..Len(SQ[w]) /\ SQ1[w][j] = SQ[w][j]
    BY <2>1 DEF Unique, FlightApart
  <2>2. CASE w = s /\ j = Len(SQ1[s])
    BY <1>1, <2>2 DEF Nothing
  <2> QED
    BY <1>1, <2>1, <2>2
<1>4. QueuesApart(A, C, SQ1, CQ)
  BY <1>1 DEF Unique, QueuesApart, Nothing
<1> QED
  BY <1>1, <1>2, <1>3, <1>4 DEF Unique, Queues

\* ... by a completion of a task that has nothing else ...
LEMMA UniqueCompleted ==
    ASSUME NEW A, NEW C, NEW SQ, NEW FL, NEW CQ, NEW CQ1, NEW s, NEW c,
           Unique(A, C, SQ, FL, CQ), Queues(SQ, FL, CQ), Pushes(CQ1, CQ, s, c, Cqe),
           c \in C => Nothing(A, C, c.task, SQ, FL, CQ)
    PROVE  Unique(A, C, SQ, FL, CQ1) /\ Queues(SQ, FL, CQ1)
<1>1. /\ CQ1 \in [Sched -> Seq(Cqe)] /\ CQ \in [Sched -> Seq(Cqe)] /\ s \in Sched
      /\ CQ1[s][Len(CQ1[s])] = c
      /\ \A v \in Sched : \A i \in 1..Len(CQ1[v]) :
            \/ i \in 1..Len(CQ[v]) /\ CQ1[v][i] = CQ[v][i]
            \/ v = s /\ i = Len(CQ1[s])
  BY Appended DEF Pushes
<1>2. OneEach(C, CQ1)
  <2> SUFFICES ASSUME NEW v \in Sched, NEW w \in Sched, NEW i \in 1..Len(CQ1[v]), NEW j \in 1..Len(CQ1[w]),
                      CQ1[v][i] \in C, CQ1[w][j] \in C, CQ1[v][i].task = CQ1[w][j].task
               PROVE  v = w /\ i = j
    BY DEF OneEach
  <2>1. CASE CQ1[v][i] = c /\ v = s /\ i = Len(CQ1[s]) /\ j \in 1..Len(CQ[w]) /\ CQ1[w][j] = CQ[w][j]
    BY <2>1 DEF Nothing
  <2>2. CASE CQ1[w][j] = c /\ w = s /\ j = Len(CQ1[s]) /\ i \in 1..Len(CQ[v]) /\ CQ1[v][i] = CQ[v][i]
    BY <2>2 DEF Nothing
  <2>3. CASE i \in 1..Len(CQ[v]) /\ CQ1[v][i] = CQ[v][i] /\ j \in 1..Len(CQ[w]) /\ CQ1[w][j] = CQ[w][j]
    BY <2>3 DEF Unique, OneEach
  <2> QED
    BY <1>1, <2>1, <2>2, <2>3
<1>3. FlightApart(A, C, FL, CQ1)
  <2> SUFFICES ASSUME NEW v \in Sched, NEW w \in Sched, NEW x \in FL[v], NEW j \in 1..Len(CQ1[w]),
                      x \in A, CQ1[w][j] \in C
               PROVE  x.task # CQ1[w][j].task
    BY DEF FlightApart
  <2>1. CASE j \in 1..Len(CQ[w]) /\ CQ1[w][j] = CQ[w][j]
    BY <2>1 DEF Unique, FlightApart
  <2>2. CASE w = s /\ j = Len(CQ1[s])
    BY <1>1, <2>2 DEF Nothing
  <2> QED
    BY <1>1, <2>1, <2>2
<1>4. QueuesApart(A, C, SQ, CQ1)
  <2> SUFFICES ASSUME NEW v \in Sched, NEW w \in Sched, NEW i \in 1..Len(SQ[v]), NEW j \in 1..Len(CQ1[w]),
                      SQ[v][i] \in A, CQ1[w][j] \in C
               PROVE  SQ[v][i].task # CQ1[w][j].task
    BY DEF QueuesApart
  <2>1. CASE j \in 1..Len(CQ[w]) /\ CQ1[w][j] = CQ[w][j]
    BY <2>1 DEF Unique, QueuesApart
  <2>2. CASE w = s /\ j = Len(CQ1[s])
    BY <1>1, <2>2 DEF Nothing
  <2> QED
    BY <1>1, <2>1, <2>2
<1> QED
  BY <1>1, <1>2, <1>3, <1>4 DEF Unique, Queues

\* ... by submitting ...
LEMMA UniqueSubmitted ==
    ASSUME NEW A, NEW C, NEW SQ, NEW FL, NEW CQ, NEW SQ1, NEW FL1, NEW s,
           Unique(A, C, SQ, FL, CQ), Queues(SQ, FL, CQ), Submits(SQ1, FL1, SQ, FL, s)
    PROVE  Unique(A, C, SQ1, FL1, CQ) /\ Queues(SQ1, FL1, CQ)
<1>0. /\ SQ \in [Sched -> Seq(Req)] /\ FL \in [Sched -> SUBSET Req] /\ s \in Sched
      /\ CQ \in [Sched -> Seq(Cqe)]
  BY DEF Queues, Submits
<1>1. /\ SQ1 \in [Sched -> Seq(Req)] /\ 1..Len(SQ1[s]) = {}
      /\ \A v \in Sched : v # s => SQ1[v] = SQ[v]
  BY <1>0, Emptied DEF Submits
<1>2. ToSet(SQ[s]) \subseteq Req
  BY <1>0, Element DEF ToSet
<1>3. /\ FL1 \in [Sched -> SUBSET Req]
      /\ \A v \in Sched : \A r \in FL1[v] :
            r \in FL[v] \/ (v = s /\ \E i \in 1..Len(SQ[s]) : r = SQ[s][i])
  <2>1. \A r \in ToSet(SQ[s]) : \E i \in 1..Len(SQ[s]) : r = SQ[s][i]
    BY <1>0 DEF ToSet
  <2>2. FL1 \in [Sched -> SUBSET Req] /\ FL1[s] = FL[s] \cup ToSet(SQ[s])
        /\ \A v \in Sched : v # s => FL1[v] = FL[v]
    BY <1>0, <1>2 DEF Submits
  <2> QED
    BY <2>1, <2>2
<1>4. OneEach(A, SQ1)
  BY <1>1 DEF Unique, OneEach
<1>5. OneInFlight(A, FL1)
  <2> SUFFICES ASSUME NEW v \in Sched, NEW w \in Sched, NEW r \in FL1[v], NEW x \in FL1[w],
                      r \in A, x \in A, r.task = x.task
               PROVE  v = w /\ r = x
    BY DEF OneInFlight
  <2>1. CASE r \in FL[v] /\ x \in FL[w]
    BY <2>1 DEF Unique, OneInFlight
  <2>2. CASE r \in FL[v] /\ w = s /\ \E i \in 1..Len(SQ[s]) : x = SQ[s][i]
    BY <2>2 DEF Unique, FlightApart
  <2>3. CASE x \in FL[w] /\ v = s /\ \E i \in 1..Len(SQ[s]) : r = SQ[s][i]
    BY <2>3 DEF Unique, FlightApart
  <2>4. CASE /\ v = s /\ \E i \in 1..Len(SQ[s]) : r = SQ[s][i]
             /\ w = s /\ \E i \in 1..Len(SQ[s]) : x = SQ[s][i]
    BY <2>4 DEF Unique, OneEach
  <2> QED
    BY <1>3, <2>1, <2>2, <2>3, <2>4
<1>6. FlightApart(A, A, FL1, SQ1)
  <2> SUFFICES ASSUME NEW v \in Sched, NEW w \in Sched, NEW r \in FL1[v], NEW j \in 1..Len(SQ1[w]),
                      r \in A, SQ1[w][j] \in A, r.task = SQ1[w][j].task
               PROVE  FALSE
    BY DEF FlightApart
  <2>0. w # s /\ SQ1[w] = SQ[w] /\ j \in 1..Len(SQ[w])
    BY <1>1
  <2>1. CASE r \in FL[v]
    BY <2>0, <2>1 DEF Unique, FlightApart
  <2>2. CASE v = s /\ \E i \in 1..Len(SQ[s]) : r = SQ[s][i]
    BY <2>0, <2>2 DEF Unique, OneEach
  <2> QED
    BY <1>3, <2>1, <2>2
<1>7. QueuesApart(A, C, SQ1, CQ)
  BY <1>1 DEF Unique, QueuesApart
<1>8. FlightApart(A, C, FL1, CQ)
  BY <1>3 DEF Unique, FlightApart, QueuesApart
<1> QED
  BY <1>0, <1>1, <1>3, <1>4, <1>5, <1>6, <1>7, <1>8 DEF Unique, Queues

\* ... and by requests that end.
LEMMA UniqueShrunk ==
    ASSUME NEW A, NEW C, NEW SQ, NEW FL, NEW CQ, NEW FL1,
           Unique(A, C, SQ, FL, CQ), Queues(SQ, FL, CQ), FL1 \in [Sched -> SUBSET Req],
           Shrinks(A, FL1, FL)
    PROVE  Unique(A, C, SQ, FL1, CQ) /\ Queues(SQ, FL1, CQ)
<1>1. OneInFlight(A, FL1)
  BY DEF Unique, OneInFlight, Shrinks
<1>2. FlightApart(A, A, FL1, SQ) /\ FlightApart(A, C, FL1, CQ)
  BY DEF Unique, FlightApart, Shrinks
<1> QED
  BY <1>1, <1>2 DEF Unique, Queues

\* A request that ends was all its task had under way.
LEMMA NothingLeft ==
    ASSUME NEW A, NEW C, NEW SQ, NEW FL, NEW CQ, NEW FL1, NEW s \in Sched, NEW r \in FL[s],
           Unique(A, C, SQ, FL, CQ), Shrinks(A, FL1, FL), r \in A, r \notin FL1[s]
    PROVE  Nothing(A, C, r.task, SQ, FL1, CQ)
<1>1. \A v \in Sched : \A x \in FL1[v] : x \in A => x.task # r.task
  BY DEF Unique, OneInFlight, Shrinks
<1>2. \A v \in Sched : \A i \in 1..Len(SQ[v]) : SQ[v][i] \in A => SQ[v][i].task # r.task
  BY DEF Unique, FlightApart
<1>3. \A v \in Sched : \A i \in 1..Len(CQ[v]) : CQ[v][i] \in C => CQ[v][i].task # r.task
  BY DEF Unique, FlightApart
<1> QED
  BY <1>1, <1>2, <1>3 DEF Nothing

\* A completion that is reaped was all its task had under way.
LEMMA UniqueReaped ==
    ASSUME NEW A, NEW C, NEW SQ, NEW FL, NEW CQ, NEW CQ1, NEW s,
           Unique(A, C, SQ, FL, CQ), Queues(SQ, FL, CQ), Reaps(CQ1, CQ, s)
    PROVE  /\ Unique(A, C, SQ, FL, CQ1) /\ Queues(SQ, FL, CQ1)
           /\ CQ[s][1] \in C => Nothing(A, C, CQ[s][1].task, SQ, FL, CQ1)
<1>1. /\ 1 \in 1..Len(CQ[s])
      /\ \A v \in Sched : v # s => CQ1[v] = CQ[v]
      /\ \A i \in 1..Len(CQ1[s]) : i + 1 \in 1..Len(CQ[s]) /\ CQ1[s][i] = CQ[s][i + 1]
      /\ CQ1 \in [Sched -> Seq(Cqe)] /\ CQ \in [Sched -> Seq(Cqe)] /\ s \in Sched
  BY Popped DEF Reaps
<1>2. \A v \in Sched : \A i \in 1..Len(CQ1[v]) :
         \E k \in 1..Len(CQ[v]) :
            CQ1[v][i] = CQ[v][k] /\ (v = s => k = i + 1) /\ (v # s => k = i)
  BY <1>1
<1>3. OneEach(C, CQ1)
  <2> SUFFICES ASSUME NEW v \in Sched, NEW w \in Sched,
                      NEW i \in 1..Len(CQ1[v]), NEW j \in 1..Len(CQ1[w]),
                      CQ1[v][i] \in C, CQ1[w][j] \in C, CQ1[v][i].task = CQ1[w][j].task
               PROVE  v = w /\ i = j
    BY DEF OneEach
  <2>1. PICK k \in 1..Len(CQ[v]) : CQ1[v][i] = CQ[v][k] /\ (v = s => k = i + 1) /\ (v # s => k = i)
    BY <1>1, <1>2
  <2>2. PICK l \in 1..Len(CQ[w]) : CQ1[w][j] = CQ[w][l] /\ (w = s => l = j + 1) /\ (w # s => l = j)
    BY <1>1, <1>2
  <2>3. v = w /\ k = l
    BY <2>1, <2>2, SMTT(30) DEF Unique, OneEach
  <2>4. i \in Int /\ j \in Int
    BY <1>1
  <2> QED
    BY <2>1, <2>2, <2>3, <2>4
<1>4. QueuesApart(A, C, SQ, CQ1)
  <2> SUFFICES ASSUME NEW v \in Sched, NEW w \in Sched, NEW i \in 1..Len(SQ[v]), NEW j \in 1..Len(CQ1[w]),
                      SQ[v][i] \in A, CQ1[w][j] \in C
               PROVE  SQ[v][i].task # CQ1[w][j].task
    BY DEF QueuesApart
  <2>1. PICK k \in 1..Len(CQ[w]) : CQ1[w][j] = CQ[w][k]
    BY <1>1, <1>2
  <2> QED
    BY <2>1 DEF Unique, QueuesApart
<1>5. FlightApart(A, C, FL, CQ1)
  <2> SUFFICES ASSUME NEW v \in Sched, NEW w \in Sched, NEW r \in FL[v], NEW j \in 1..Len(CQ1[w]),
                      r \in A, CQ1[w][j] \in C
               PROVE  r.task # CQ1[w][j].task
    BY DEF FlightApart
  <2>1. PICK k \in 1..Len(CQ[w]) : CQ1[w][j] = CQ[w][k]
    BY <1>1, <1>2
  <2> QED
    BY <2>1 DEF Unique, FlightApart
<1>6. ASSUME CQ[s][1] \in C PROVE Nothing(A, C, CQ[s][1].task, SQ, FL, CQ1)
  <2>1. \A v \in Sched : \A x \in FL[v] : x \in A => x.task # CQ[s][1].task
    BY <1>1, <1>6 DEF Unique, FlightApart
  <2>2. \A v \in Sched : \A i \in 1..Len(SQ[v]) : SQ[v][i] \in A => SQ[v][i].task # CQ[s][1].task
    BY <1>1, <1>6 DEF Unique, QueuesApart
  <2>3. ASSUME NEW v \in Sched, NEW i \in 1..Len(CQ1[v]), CQ1[v][i] \in C, CQ1[v][i].task = CQ[s][1].task
        PROVE  FALSE
    <3>1. PICK k \in 1..Len(CQ[v]) : CQ1[v][i] = CQ[v][k] /\ (v = s => k = i + 1)
      BY <1>1, <1>2
    <3>2. v = s /\ k = 1
      BY <1>1, <1>6, <2>3, <3>1 DEF Unique, OneEach
    <3> QED
      BY <1>1, <3>1, <3>2
  <2> QED
    BY <2>1, <2>2, <2>3 DEF Nothing
<1> QED
  BY <1>1, <1>3, <1>4, <1>5, <1>6 DEF Unique, Queues

\* getSqe and the preparation of request r.
Enqueues(SQ1, FL1, SQ, FL, s, r) ==
    /\ s \in Sched /\ r \in Req
    /\ SQ1 = [SQ EXCEPT ![s] = Queued(SQ[s], FL[s], r).sq]
    /\ FL1 = [FL EXCEPT ![s] = Queued(SQ[s], FL[s], r).flight]

\* Queueing adds nothing but the request, at its scheduler ...
LEMMA HeldQueued ==
    ASSUME NEW SQ, NEW FL, NEW CQ, NEW SQ1, NEW FL1, NEW s, NEW r,
           Queues(SQ, FL, CQ), Enqueues(SQ1, FL1, SQ, FL, s, r)
    PROVE  \A v \in Sched : \A x \in Held(SQ1, FL1, v) : x \in Held(SQ, FL, v) \/ (v = s /\ x = r)
<1>0. /\ SQ \in [Sched -> Seq(Req)] /\ FL \in [Sched -> SUBSET Req] /\ s \in Sched /\ r \in Req
      /\ SQ1 = [SQ EXCEPT ![s] = Queued(SQ[s], FL[s], r).sq]
      /\ FL1 = [FL EXCEPT ![s] = Queued(SQ[s], FL[s], r).flight]
  BY DEF Queues, Enqueues
<1>a. SQ[s] \in Seq(Req) /\ FL[s] \in SUBSET Req
  BY <1>0
<1>b. \A v \in Sched : v # s => SQ1[v] = SQ[v] /\ FL1[v] = FL[v]
  BY <1>0
<1>1. CASE SQ1[s] = Append(SQ[s], r) /\ FL1[s] = FL[s]
  <2>1. \A x \in ToSet(Append(SQ[s], r)) : x = r \/ x \in ToSet(SQ[s])
    BY <1>a DEF ToSet
  <2> QED
    BY <1>1, <1>b, <2>1 DEF Held
<1>2. CASE SQ1[s] = <<r>> /\ FL1[s] = FL[s] \cup ToSet(SQ[s])
  <2>1. ToSet(<<r>>) = {r}
    BY DEF ToSet
  <2> QED
    BY <1>2, <1>b, <2>1 DEF Held
<1>3. SQ1[s] = Queued(SQ[s], FL[s], r).sq /\ FL1[s] = Queued(SQ[s], FL[s], r).flight
  BY <1>0
<1> QED
  BY <1>a, <1>0, <1>1, <1>2, <1>3, QueuedShape

\* Queueing keeps the types.
LEMMA QueuesQueued ==
    ASSUME NEW SQ, NEW FL, NEW CQ, NEW SQ1, NEW FL1, NEW s, NEW r,
           Queues(SQ, FL, CQ), Enqueues(SQ1, FL1, SQ, FL, s, r)
    PROVE  Queues(SQ1, FL1, CQ)
<1>0. /\ SQ \in [Sched -> Seq(Req)] /\ FL \in [Sched -> SUBSET Req] /\ s \in Sched /\ r \in Req
      /\ SQ1 = [SQ EXCEPT ![s] = Queued(SQ[s], FL[s], r).sq]
      /\ FL1 = [FL EXCEPT ![s] = Queued(SQ[s], FL[s], r).flight]
  BY DEF Queues, Enqueues
<1>1. SQ[s] \in Seq(Req) /\ FL[s] \in SUBSET Req
  BY <1>0
<1>2. Queued(SQ[s], FL[s], r).sq \in Seq(Req) /\ Queued(SQ[s], FL[s], r).flight \in SUBSET Req
  BY <1>0, <1>1, QueuedShape
<1> QED
  BY <1>0, <1>2 DEF Queues

\* ... and submitting adds nothing.
LEMMA HeldSubmitted ==
    ASSUME NEW SQ, NEW FL, NEW CQ, NEW SQ1, NEW FL1, NEW s,
           Queues(SQ, FL, CQ), Submits(SQ1, FL1, SQ, FL, s)
    PROVE  \A v \in Sched : \A x \in Held(SQ1, FL1, v) : x \in Held(SQ, FL, v)
<1>1. /\ SQ1[s] = << >> /\ FL1[s] = FL[s] \cup ToSet(SQ[s])
      /\ \A v \in Sched : v # s => SQ1[v] = SQ[v] /\ FL1[v] = FL[v]
  BY DEF Submits, Queues
<1>2. ToSet(<< >>) = {}
  BY DEF ToSet
<1> QED
  BY <1>1, <1>2 DEF Held

\* Queueing for a task that has nothing under way keeps uniqueness, also when getSqe submits first.
LEMMA UniqueQueued ==
    ASSUME NEW A, NEW C, NEW SQ, NEW FL, NEW CQ, NEW SQ1, NEW FL1, NEW s, NEW r,
           Unique(A, C, SQ, FL, CQ), Queues(SQ, FL, CQ), Enqueues(SQ1, FL1, SQ, FL, s, r),
           r \in A => Nothing(A, C, r.task, SQ, FL, CQ)
    PROVE  /\ Unique(A, C, SQ1, FL1, CQ) /\ Queues(SQ1, FL1, CQ)
<1>0. /\ SQ \in [Sched -> Seq(Req)] /\ FL \in [Sched -> SUBSET Req] /\ s \in Sched /\ r \in Req
      /\ SQ1 = [SQ EXCEPT ![s] = Queued(SQ[s], FL[s], r).sq]
      /\ FL1 = [FL EXCEPT ![s] = Queued(SQ[s], FL[s], r).flight]
  BY DEF Queues, Enqueues
<1>a. SQ[s] \in Seq(Req) /\ FL[s] \in SUBSET Req
  BY <1>0
<1>1. CASE /\ Queued(SQ[s], FL[s], r).sq = Append(SQ[s], r)
           /\ Queued(SQ[s], FL[s], r).flight = FL[s]
  <2>1. Pushes(SQ1, SQ, s, r, Req) /\ FL1 = FL
    BY <1>0, <1>1 DEF Pushes
  <2>2. Unique(A, C, SQ1, FL1, CQ) /\ Queues(SQ1, FL1, CQ)
    BY <2>1, UniquePushed
  <2> QED
    BY <2>2
<1>2. CASE /\ Queued(SQ[s], FL[s], r).sq = <<r>>
           /\ Queued(SQ[s], FL[s], r).flight = FL[s] \cup ToSet(SQ[s])
  <2>0. PICK SQ0 : SQ0 = [SQ EXCEPT ![s] = << >>]
    OBVIOUS
  <2>1. Submits(SQ0, FL1, SQ, FL, s)
    BY <1>0, <1>2, <2>0 DEF Submits
  <2>2. Unique(A, C, SQ0, FL1, CQ) /\ Queues(SQ0, FL1, CQ)
    BY <2>1, UniqueSubmitted
  <2>3. SQ1 = [SQ0 EXCEPT ![s] = Append(@, r)]
    <3>1. Append(<< >>, r) = <<r>>
      OBVIOUS
    <3>2. SQ0 \in [Sched -> Seq(Req)] /\ SQ0[s] = << >> /\ \A v \in Sched : v # s => SQ0[v] = SQ[v]
      BY <1>0, <2>0, Emptied
    <3>3. SQ1 = [SQ EXCEPT ![s] = <<r>>]
      BY <1>0, <1>2
    <3> QED
      BY <1>0, <2>0, <3>1, <3>2, <3>3
  <2>4. Pushes(SQ1, SQ0, s, r, Req)
    BY <1>0, <2>2, <2>3 DEF Pushes, Queues
  <2>5. r \in A => Nothing(A, C, r.task, SQ0, FL1, CQ)
    <3> SUFFICES ASSUME r \in A PROVE Nothing(A, C, r.task, SQ0, FL1, CQ)
      OBVIOUS
    <3>0. Nothing(A, C, r.task, SQ, FL, CQ)
      OBVIOUS
    <3>1. /\ 1..Len(SQ0[s]) = {} /\ \A v \in Sched : v # s => SQ0[v] = SQ[v]
      BY <1>0, <2>0, Emptied
    <3>2. /\ FL1[s] = FL[s] \cup ToSet(SQ[s]) /\ \A v \in Sched : v # s => FL1[v] = FL[v]
      BY <1>0, <1>2
    <3>3. \A x \in ToSet(SQ[s]) : \E i \in 1..Len(SQ[s]) : x = SQ[s][i]
      BY <1>a DEF ToSet
    <3>4. \A v \in Sched : \A x \in FL1[v] : x \in A => x.task # r.task
      BY <1>0, <3>0, <3>2, <3>3 DEF Nothing
    <3>5. \A v \in Sched : \A i \in 1..Len(SQ0[v]) : SQ0[v][i] \in A => SQ0[v][i].task # r.task
      BY <3>0, <3>1 DEF Nothing
    <3> QED
      BY <3>0, <3>4, <3>5 DEF Nothing
  <2>6. Unique(A, C, SQ1, FL1, CQ) /\ Queues(SQ1, FL1, CQ)
    BY <2>2, <2>4, <2>5, UniquePushed
  <2> QED
    BY <2>6
<1> QED
  BY <1>a, <1>0, <1>1, <1>2, QueuedShape

\* A task whose operation is gone or has its result has nothing under way.
LEMMA NothingAwaited ==
    ASSUME NEW U, NEW t, TypeOK, ReqInv(U), t \in U => ~ op[t].live \/ op[t].completed
    PROVE  Nothing(RequestsOf(U), CompletionsOf(U), t, sq, flight, cq)
<1>0. sq \in [Sched -> Seq(Req)] /\ flight \in [Sched -> SUBSET Req] /\ cq \in [Sched -> Seq(Cqe)]
  BY DEF TypeOK
<1>1. \A v \in Sched : \A r \in Held(sq, flight, v) : r \in RequestsOf(U) => r.task # t
  BY DEF ReqInv, HeldAwaited, Awaited, Addressed, RequestsOf
<1>2. \A v \in Sched : \A c \in ToSet(cq[v]) : c \in CompletionsOf(U) => c.task # t
  BY DEF ReqInv, CqAwaited, Awaited, Addressed, CompletionsOf
<1>3. \A v \in Sched : \A i \in 1..Len(sq[v]) : sq[v][i] \in Held(sq, flight, v)
  BY <1>0 DEF Held, ToSet
<1>4. \A v \in Sched : \A i \in 1..Len(cq[v]) : cq[v][i] \in ToSet(cq[v])
  BY <1>0 DEF ToSet
<1>5. \A v \in Sched : \A r \in flight[v] : r \in Held(sq, flight, v)
  BY DEF Held
<1> QED
  BY <1>1, <1>2, <1>3, <1>4, <1>5 DEF Nothing

\* Nothing, in terms of the sets of entries.
LEMMA NothingInSets ==
    ASSUME NEW U, NEW t, NEW SQ, NEW FL, NEW CQ, Queues(SQ, FL, CQ),
           Nothing(RequestsOf(U), CompletionsOf(U), t, SQ, FL, CQ)
    PROVE  /\ \A v \in Sched : \A r \in Held(SQ, FL, v) : r.task \in U => r.task # t
           /\ \A v \in Sched : \A c \in ToSet(CQ[v]) : c.task \in U => c.task # t
<1>0. SQ \in [Sched -> Seq(Req)] /\ FL \in [Sched -> SUBSET Req] /\ CQ \in [Sched -> Seq(Cqe)]
  BY DEF Queues
<1>1. \A v \in Sched : \A r \in ToSet(SQ[v]) : \E i \in 1..Len(SQ[v]) : r = SQ[v][i]
  BY <1>0, QueueDomains, SetOfSeq
<1>2. \A v \in Sched : \A c \in ToSet(CQ[v]) : \E i \in 1..Len(CQ[v]) : c = CQ[v][i]
  BY <1>0, QueueDomains, SetOfSeq
<1>3. \A v \in Sched : \A i \in 1..Len(SQ[v]) : SQ[v][i] \in Req
  BY <1>0, Element
<1>4. \A v \in Sched : \A i \in 1..Len(CQ[v]) : CQ[v][i] \in Cqe
  BY <1>0, Element
<1>5. \A v \in Sched : \A r \in ToSet(SQ[v]) : r.task \in U => r.task # t
  BY <1>1, <1>3 DEF Nothing, RequestsOf
<1>6. \A v \in Sched : \A r \in FL[v] : r.task \in U => r.task # t
  BY <1>0 DEF Nothing, RequestsOf
<1>7. \A v \in Sched : \A c \in ToSet(CQ[v]) : c.task \in U => c.task # t
  BY <1>2, <1>4 DEF Nothing, CompletionsOf
<1> QED
  BY <1>5, <1>6, <1>7 DEF Held

\* The ring has its types.
LEMMA QueuesNow == TypeOK => Queues(sq, flight, cq)
BY DEF TypeOK, Queues

\* What is held and completed is of tasks.
LEMMA HeldTasks ==
    ASSUME TypeOK
    PROVE  /\ \A v \in Sched : \A r \in Held(sq, flight, v) : r \in Req /\ r.task \in Task
           /\ \A v \in Sched : \A c \in ToSet(cq[v]) : c \in Cqe /\ c.task \in Task
<1>0. sq \in [Sched -> Seq(Req)] /\ flight \in [Sched -> SUBSET Req] /\ cq \in [Sched -> Seq(Cqe)]
  BY DEF TypeOK
<1>1. /\ \A v \in Sched : DOMAIN sq[v] = 1..Len(sq[v]) /\ DOMAIN cq[v] = 1..Len(cq[v])
      /\ \A v \in Sched : \A i \in 1..Len(sq[v]) : sq[v][i] \in Req
      /\ \A v \in Sched : \A i \in 1..Len(cq[v]) : cq[v][i] \in Cqe
  BY <1>0, QueueDomains, Element
<1>2. /\ \A v \in Sched : \A r \in ToSet(sq[v]) : r \in Req
      /\ \A v \in Sched : \A c \in ToSet(cq[v]) : c \in Cqe
  BY <1>1, SetOfSeq
<1>3. (\A r \in Req : r.task \in Task) /\ (\A c \in Cqe : c.task \in Task)
  BY DEF Req, Cqe
<1> QED
  BY <1>0, <1>2, <1>3 DEF Held

\* A step that leaves the ring and the operations alone keeps ReqInv.
LEMMA ReqFrame ==
    ASSUME NEW U, ReqInv(U), UNCHANGED <<sq, flight, cq, op>>
    PROVE  ReqInv(U)'
BY DEF ReqInv, HeldAwaited, CqAwaited, Plain, Awaited, Addressed

\* Nothing is held or completed for the one task whose operation changes.
LEMMA OpChanged ==
    ASSUME NEW U, NEW t \in Task, ReqInv(U), TypeOK, UNCHANGED <<sq, flight, cq>>,
           \A u \in Task : u # t => op'[u] = op[u],
           t \in U => ~ op[t].live \/ op[t].completed,
           t \in U => op'[t].kind = "plain"
    PROVE  ReqInv(U)'
<1>1. /\ \A v \in Sched : \A r \in Held(sq, flight, v) : r.task \in U => r.task # t
      /\ \A v \in Sched : \A c \in ToSet(cq[v]) : c.task \in U => c.task # t
  BY NothingAwaited, NothingInSets, QueuesNow
<1>2. /\ \A v \in Sched : \A r \in Held(sq, flight, v) : r.task \in Task
      /\ \A v \in Sched : \A c \in ToSet(cq[v]) : c.task \in Task
  BY HeldTasks
<1>3. HeldAwaited(U)'
  BY <1>1, <1>2 DEF ReqInv, HeldAwaited, Awaited, Addressed
<1>4. CqAwaited(U)'
  BY <1>1, <1>2 DEF ReqInv, CqAwaited, Awaited, Addressed
<1>5. Plain(U)'
  BY DEF ReqInv, Plain
<1> QED
  BY <1>3, <1>4, <1>5 DEF ReqInv

\* Resuming keeps ReqInv: the operation that is destroyed has its result.
LEMMA ResumeReq ==
    ASSUME NEW U, NEW s \in Sched, SchedInv, ReqInv(U), Resume(s)
    PROVE  ReqInv(U)'
<1> DEFINE t == batch[s][1].task
<1>0. /\ batch \in [Sched -> Seq(Item)] /\ batch[s] # << >> /\ batch' = [batch EXCEPT ![s] = Tail(@)]
      /\ op \in [Task -> Op] /\ TypeOK
  BY DEF SchedInv, TypeOK, Resume
<1>1. Head(batch[s]) = batch[s][1] /\ 1 \in 1..Len(batch[s]) /\ batch[s][1] \in Item
  BY <1>0, Popped
<1>2. t \in Task
  BY <1>1 DEF Item
<1>3. op' = [op EXCEPT ![t].live = FALSE] /\ UNCHANGED <<sq, flight, cq>>
  BY <1>1 DEF Resume, ring
<1>4. /\ \A u \in Task : u # t => op'[u] = op[u]
      /\ op'[t].kind = op[t].kind
  BY <1>0, <1>2, <1>3 DEF Op
<1>5. ~ op[t].live \/ op[t].completed
  BY <1>1, <1>2 DEF SchedInv, BatchPending, Pending, LiveWaits
<1>6. t \in U => op'[t].kind = "plain"
  BY <1>2, <1>4 DEF ReqInv, Plain
<1> HIDE DEF t
<1> QED
  BY <1>0, <1>2, <1>3, <1>4, <1>5, <1>6, OpChanged

\* io_uring_submit keeps ReqInv.
LEMMA SubmitReq ==
    ASSUME NEW U, NEW s \in Sched, TypeOK, ReqInv(U), Submit(s)
    PROVE  ReqInv(U)'
<1> DEFINE A == RequestsOf(U)
           C == CompletionsOf(U)
<1>0. UNCHANGED <<cq, op>>
  BY DEF Submit, coro
<1>1. CASE UNCHANGED <<flight, sq>>
  BY <1>0, <1>1, ReqFrame
<1>2. CASE flight' = [flight EXCEPT ![s] = @ \cup ToSet(sq[s])] /\ sq' = [sq EXCEPT ![s] = << >>]
  <2>1. Submits(sq', flight', sq, flight, s) /\ Queues(sq, flight, cq)
    BY <1>2, QueuesNow DEF Submits
  <2>2. Unique(A, C, sq, flight, cq)
    BY DEF ReqInv
  <2> HIDE DEF A, C
  <2>3. Unique(A, C, sq', flight', cq)
    BY <2>1, <2>2, UniqueSubmitted
  <2>4. \A v \in Sched : \A x \in Held(sq', flight', v) : x \in Held(sq, flight, v)
    BY <2>1, HeldSubmitted
  <2>5. HeldAwaited(U)'
    BY <1>0, <2>4 DEF ReqInv, HeldAwaited, Awaited, Addressed
  <2>6. CqAwaited(U)' /\ Plain(U)'
    BY <1>0 DEF ReqInv, CqAwaited, Plain, Awaited, Addressed
  <2> QED
    BY <1>0, <2>3, <2>5, <2>6 DEF ReqInv, A, C
<1> QED
  BY <1>1, <1>2 DEF Submit

\* Reaping adds no completion.
LEMMA ReapedSet ==
    ASSUME NEW CQ, NEW s, NEW CQ1, Reaps(CQ1, CQ, s)
    PROVE  \A v \in Sched : \A x \in ToSet(CQ1[v]) : x \in ToSet(CQ[v])
<1>0. CQ \in [Sched -> Seq(Cqe)] /\ s \in Sched /\ CQ[s] # << >> /\ CQ1 = [CQ EXCEPT ![s] = Tail(@)]
  BY DEF Reaps
<1>1. /\ CQ1 \in [Sched -> Seq(Cqe)] /\ \A v \in Sched : v # s => CQ1[v] = CQ[v]
      /\ \A i \in 1..Len(CQ1[s]) : i + 1 \in 1..Len(CQ[s]) /\ CQ1[s][i] = CQ[s][i + 1]
  BY <1>0, Popped
<1>2. \A v \in Sched : DOMAIN CQ1[v] = 1..Len(CQ1[v]) /\ DOMAIN CQ[v] = 1..Len(CQ[v])
  BY <1>0, <1>1, QueueDomains
<1>3. ASSUME NEW x \in ToSet(CQ1[s]) PROVE x \in ToSet(CQ[s])
  <2>1. PICK i \in 1..Len(CQ1[s]) : x = CQ1[s][i]
    BY <1>2, SetOfSeq
  <2> QED
    BY <1>1, <1>2, <2>1, SetOfSeq, SMTT(30)
<1> QED
  BY <1>1, <1>3

\* Handing out a completion keeps ReqInv: it was the only one, and of the operation that gets it.
LEMMA ReapReq ==
    ASSUME NEW U, NEW s \in Sched, SchedInv, ReqInv(U), Reap(s)
    PROVE  ReqInv(U)'
<1> DEFINE A == RequestsOf(U)
           C == CompletionsOf(U)
           c == cq[s][1]
           t == c.task
<1>0. /\ TypeOK /\ cq \in [Sched -> Seq(Cqe)] /\ cq[s] # << >> /\ cq' = [cq EXCEPT ![s] = Tail(@)]
      /\ op \in [Task -> Op] /\ UNCHANGED <<sq, flight>>
  BY DEF SchedInv, TypeOK, Reap
<1>1. /\ Head(cq[s]) = c /\ c \in Cqe /\ 1 \in 1..Len(cq[s]) /\ cq' \in [Sched -> Seq(Cqe)]
      /\ \A v \in Sched : v # s => cq'[v] = cq[v]
      /\ \A i \in 1..Len(cq'[s]) : i + 1 \in 1..Len(cq[s]) /\ cq'[s][i] = cq[s][i + 1]
  BY <1>0, Popped
<1>2. t \in Task
  BY <1>1 DEF Cqe
<1>3. c \in ToSet(cq[s])
  BY <1>0, <1>1, QueueDomains, SetOfSeq
<1>4. \A v \in Sched : \A x \in ToSet(cq'[v]) : x \in ToSet(cq[v])
  <2>1. Reaps(cq', cq, s)
    BY <1>0 DEF Reaps
  <2> QED
    BY <2>1, ReapedSet
<1>5. Reaps(cq', cq, s) /\ Queues(sq, flight, cq) /\ Unique(A, C, sq, flight, cq)
  BY <1>0, QueuesNow DEF Reaps, ReqInv
<1>6. /\ Unique(A, C, sq, flight, cq') /\ Queues(sq, flight, cq')
      /\ c \in C => Nothing(A, C, t, sq, flight, cq')
  <2> HIDE DEF A, C
  <2> QED
    BY <1>5, UniqueReaped
<1>7. t \in U => /\ \A v \in Sched : \A r \in Held(sq, flight, v) : r.task \in U => r.task # t
                 /\ \A v \in Sched : \A x \in ToSet(cq'[v]) : x.task \in U => x.task # t
  <2>1. t \in U => c \in C
    BY <1>1 DEF CompletionsOf
  <2> HIDE DEF c, t
  <2> QED
    BY <1>6, <2>1, NothingInSets
<1>8. /\ \A v \in Sched : \A r \in Held(sq, flight, v) : r.task \in Task
      /\ \A v \in Sched : \A x \in ToSet(cq[v]) : x.task \in Task
  BY <1>0, HeldTasks
<1>9. CASE UNCHANGED op
  <2>1. HeldAwaited(U)' /\ Plain(U)'
    BY <1>0, <1>9 DEF ReqInv, HeldAwaited, Plain, Awaited, Addressed
  <2>2. CqAwaited(U)'
    BY <1>4, <1>9 DEF ReqInv, CqAwaited, Awaited, Addressed
  <2> QED
    BY <1>0, <1>6, <2>1, <2>2 DEF ReqInv
<1>10. ASSUME NEW u \in Task, Completes(s, c, u) PROVE ReqInv(U)'
  <2>1. /\ \A x \in Task : x # u => op'[x] = op[x]
        /\ op'[u].kind = op[u].kind
    <3>1. op[u] \in Op /\ op' = [op EXCEPT ![u] = Ended(u, c)]
      BY <1>0, <1>10 DEF Completes
    <3>2. Ended(u, c).kind = op[u].kind
      BY <1>1, <3>1, EndedValue
    <3> QED
      BY <1>0, <3>1, <3>2
  <2>2. u = t \/ u \notin U
    BY <1>10 DEF Completes, ReqInv, Plain
  <2> HIDE DEF c, t
  <2>a. \A v \in Sched : \A r \in Held(sq, flight, v) : r.task \in U => op'[r.task] = op[r.task]
    BY <1>7, <1>8, <2>1, <2>2
  <2>b. \A v \in Sched : \A x \in ToSet(cq'[v]) : x.task \in U => op'[x.task] = op[x.task]
    BY <1>4, <1>7, <1>8, <2>1, <2>2
  <2>3. HeldAwaited(U)'
    BY <1>0, <2>a DEF ReqInv, HeldAwaited, Awaited, Addressed
  <2>4. CqAwaited(U)'
    BY <1>4, <2>b DEF ReqInv, CqAwaited, Awaited, Addressed
  <2>5. Plain(U)'
    BY <2>1 DEF ReqInv, Plain
  <2> QED
    BY <1>0, <1>6, <2>3, <2>4, <2>5 DEF ReqInv
<1> QED
  BY <1>0, <1>9, <1>10, ReapShape

\* The end of the process keeps ReqInv: the kernel drops the requests in flight.
LEMMA DieReq ==
    ASSUME NEW U, TypeOK, ReqInv(U), Die
    PROVE  ReqInv(U)'
<1> DEFINE A == RequestsOf(U)
           C == CompletionsOf(U)
<1>0. (\A v \in Sched : flight'[v] = {}) /\ flight' \in [Sched -> SUBSET Req] /\ UNCHANGED <<sq, cq, op>>
  BY DEF Die, coro
<1>1. Unique(A, C, sq, flight', cq)
  <2>1. Shrinks(A, flight', flight) /\ Unique(A, C, sq, flight, cq) /\ Queues(sq, flight, cq)
    BY <1>0, QueuesNow DEF Shrinks, ReqInv
  <2> HIDE DEF A, C
  <2> QED
    BY <1>0, <2>1, UniqueShrunk
<1>2. HeldAwaited(U)'
  BY <1>0 DEF ReqInv, HeldAwaited, Held, Awaited, Addressed
<1>3. CqAwaited(U)' /\ Plain(U)'
  BY <1>0 DEF ReqInv, CqAwaited, Plain, Awaited, Addressed
<1> QED
  BY <1>0, <1>1, <1>2, <1>3 DEF ReqInv

\* One step of the kernel: a request r ends and its completion c is queued.  Whatever else
\* is held afterwards belongs to tasks outside U.
LEMMA RequestEnds ==
    ASSUME NEW U, NEW s \in Sched, NEW r \in flight[s], NEW c, TypeOK, ReqInv(U),
           Shrinks(RequestsOf(U), flight', flight), r \notin flight'[s],
           flight' \in [Sched -> SUBSET Req],
           c \in Cqe, c.task = r.task, c.n = r.n, r.task \in U => r.kind = "io",
           cq' = [cq EXCEPT ![s] = Append(@, c)], UNCHANGED <<sq, op>>
    PROVE  ReqInv(U)'
<1> DEFINE A == RequestsOf(U)
           C == CompletionsOf(U)
<1>0. Shrinks(A, flight', flight) /\ Unique(A, C, sq, flight, cq) /\ Queues(sq, flight, cq)
  BY QueuesNow DEF ReqInv
<1>a. r \in Req /\ (r \in A <=> r.task \in U) /\ (c \in C <=> c.task \in U)
  BY DEF TypeOK, RequestsOf, CompletionsOf
<1>b. Pushes(cq', cq, s, c, Cqe)
  BY DEF Pushes, TypeOK
<1> HIDE DEF A, C
<1>1. Unique(A, C, sq, flight', cq) /\ Queues(sq, flight', cq)
  BY <1>0, UniqueShrunk
<1>2. c \in C => Nothing(A, C, c.task, sq, flight', cq)
  BY <1>0, <1>a, NothingLeft
<1>3. Unique(A, C, sq, flight', cq')
  BY <1>1, <1>2, <1>b, UniqueCompleted
<1>4. HeldAwaited(U)'
  <2>1. ASSUME NEW v \in Sched, NEW x \in Held(sq, flight', v), x.task \in U
        PROVE  x \in Held(sq, flight, v)
    <3>1. CASE x \in flight'[v]
      <4>1. x \in A
        BY <2>1, <3>1 DEF A, RequestsOf
      <4> QED
        BY <1>0, <3>1, <4>1 DEF Shrinks, Held
    <3> QED
      BY <3>1 DEF Held
  <2> QED
    BY <2>1 DEF ReqInv, HeldAwaited, Awaited, Addressed
<1>5. CqAwaited(U)'
  <2>1. r.task \in U => Awaited(c)
    BY DEF ReqInv, HeldAwaited, Held, Awaited, Addressed
  <2>2. /\ cq \in [Sched -> Seq(Cqe)] /\ cq' \in [Sched -> Seq(Cqe)] /\ cq'[s][Len(cq'[s])] = c
        /\ \A v \in Sched : \A i \in 1..Len(cq'[v]) :
              \/ i \in 1..Len(cq[v]) /\ cq'[v][i] = cq[v][i]
              \/ v = s /\ i = Len(cq'[s])
    BY <1>b, Appended DEF Pushes
  <2>0. \A v \in Sched : DOMAIN cq'[v] = 1..Len(cq'[v]) /\ DOMAIN cq[v] = 1..Len(cq[v])
    BY <2>2, QueueDomains
  <2>3. ASSUME NEW v \in Sched, NEW x \in ToSet(cq'[v]) PROVE x = c \/ x \in ToSet(cq[v])
    <3>1. PICK i \in 1..Len(cq'[v]) : x = cq'[v][i]
      BY <2>0, SetOfSeq
    <3> QED
      BY <2>0, <2>2, <3>1, SetOfSeq
  <2> QED
    BY <2>1, <2>3 DEF ReqInv, CqAwaited, Awaited, Addressed
<1>6. Plain(U)'
  BY DEF ReqInv, Plain
<1> QED
  BY <1>3, <1>4, <1>5, <1>6 DEF ReqInv, A, C

\* Completions are added in order.
LEMMA CompletionsAssociative ==
    \A a, b, c \in Seq(Cqe) : a \o b \o c = a \o (b \o c)
BY ConcatAssociative

\* Completions f are added to the queue of s, and what that adds.
Extends(CQ1, CQ, s, f) ==
    CQ \in [Sched -> Seq(Cqe)] /\ s \in Sched /\ f \in Seq(Cqe) /\ CQ1 = [CQ EXCEPT ![s] = @ \o f]

OnlyAdds(CQ1, CQ, f) ==
    \A v \in Sched : \A x \in ToSet(CQ1[v]) : x \in ToSet(CQ[v]) \/ \E i \in 1..Len(f) : x = f[i]
Outside(f, C) == \A i \in 1..Len(f) : f[i] \notin C

\* Nothing but f is added.
LEMMA OnlyAddsExtended ==
    ASSUME NEW CQ, NEW CQ1, NEW s, NEW f, Extends(CQ1, CQ, s, f)
    PROVE  OnlyAdds(CQ1, CQ, f)
<1>0. CQ \in [Sched -> Seq(Cqe)] /\ CQ1 \in [Sched -> Seq(Cqe)] /\ s \in Sched
  BY Extended DEF Extends
<1>1. /\ \A v \in Sched : v # s => CQ1[v] = CQ[v]
      /\ \A i \in 1..Len(CQ1[s]) :
            \/ i \in 1..Len(CQ[s]) /\ CQ1[s][i] = CQ[s][i]
            \/ i - Len(CQ[s]) \in 1..Len(f) /\ CQ1[s][i] = f[i - Len(CQ[s])]
  BY Extended DEF Extends
<1>2. \A v \in Sched : DOMAIN CQ1[v] = 1..Len(CQ1[v]) /\ DOMAIN CQ[v] = 1..Len(CQ[v])
  BY <1>0, QueueDomains
<1>3. ASSUME NEW v \in Sched, NEW x \in ToSet(CQ1[v])
      PROVE  x \in ToSet(CQ[v]) \/ \E i \in 1..Len(f) : x = f[i]
  <2>1. PICK i \in 1..Len(CQ1[v]) : x = CQ1[v][i]
    BY <1>2, SetOfSeq
  <2>2. CASE v = s /\ i - Len(CQ[s]) \in 1..Len(f) /\ CQ1[s][i] = f[i - Len(CQ[s])]
    BY <2>1, <2>2
  <2>3. CASE i \in 1..Len(CQ[v]) /\ CQ1[v][i] = CQ[v][i]
    BY <1>2, <2>1, <2>3, SetOfSeq
  <2> QED
    BY <1>1, <2>2, <2>3
<1> QED
  BY <1>3 DEF OnlyAdds

\* Completions outside C do not matter to its uniqueness.
LEMMA UniqueExtended ==
    ASSUME NEW A, NEW C, NEW SQ, NEW FL, NEW CQ, NEW CQ1, NEW s, NEW f,
           Unique(A, C, SQ, FL, CQ), Extends(CQ1, CQ, s, f), Outside(f, C)
    PROVE  Unique(A, C, SQ, FL, CQ1) /\ OnlyAdds(CQ1, CQ, f)
<1>0. CQ \in [Sched -> Seq(Cqe)] /\ CQ1 \in [Sched -> Seq(Cqe)] /\ s \in Sched
  BY Extended DEF Extends
<1>1. /\ \A v \in Sched : v # s => CQ1[v] = CQ[v]
      /\ \A i \in 1..Len(CQ1[s]) :
            \/ i \in 1..Len(CQ[s]) /\ CQ1[s][i] = CQ[s][i]
            \/ i - Len(CQ[s]) \in 1..Len(f) /\ CQ1[s][i] = f[i - Len(CQ[s])]
  BY Extended DEF Extends
<1>2. \A v \in Sched : \A i \in 1..Len(CQ1[v]) :
         CQ1[v][i] \in C => i \in 1..Len(CQ[v]) /\ CQ1[v][i] = CQ[v][i]
  BY <1>1 DEF Outside
<1>3. OneEach(C, CQ1)
  <2> SUFFICES ASSUME NEW v \in Sched, NEW w \in Sched,
                      NEW i \in 1..Len(CQ1[v]), NEW j \in 1..Len(CQ1[w]),
                      CQ1[v][i] \in C, CQ1[w][j] \in C, CQ1[v][i].task = CQ1[w][j].task
               PROVE  v = w /\ i = j
    BY DEF OneEach
  <2>1. i \in 1..Len(CQ[v]) /\ CQ1[v][i] = CQ[v][i] /\ j \in 1..Len(CQ[w]) /\ CQ1[w][j] = CQ[w][j]
    BY <1>2
  <2> QED
    BY <2>1 DEF Unique, OneEach
<1>4. QueuesApart(A, C, SQ, CQ1)
  BY <1>2 DEF Unique, QueuesApart
<1>5. FlightApart(A, C, FL, CQ1)
  BY <1>2 DEF Unique, FlightApart
<1> QED
  BY <1>3, <1>4, <1>5, OnlyAddsExtended DEF Unique

\* A step of the kernel that concerns tasks outside U only.
LEMMA OtherRequestEnds ==
    ASSUME NEW U, NEW s \in Sched, NEW f \in Seq(Cqe), TypeOK, ReqInv(U),
           Shrinks(RequestsOf(U), flight', flight), flight' \in [Sched -> SUBSET Req],
           \A i \in 1..Len(f) : f[i].task \notin U,
           cq' = [cq EXCEPT ![s] = @ \o f], UNCHANGED <<sq, op>>
    PROVE  ReqInv(U)'
<1> DEFINE A == RequestsOf(U)
           C == CompletionsOf(U)
<1>0. Shrinks(A, flight', flight) /\ Unique(A, C, sq, flight, cq) /\ Queues(sq, flight, cq)
  BY QueuesNow DEF ReqInv
<1>a. Extends(cq', cq, s, f)
  BY DEF Extends, TypeOK
<1>b. Outside(f, C)
  BY DEF Outside, CompletionsOf
<1> HIDE DEF A, C
<1>1. Unique(A, C, sq, flight', cq)
  BY <1>0, UniqueShrunk
<1>2. Unique(A, C, sq, flight', cq') /\ OnlyAdds(cq', cq, f)
  BY <1>1, <1>a, <1>b, UniqueExtended
<1>4. HeldAwaited(U)'
  <2>1. ASSUME NEW v \in Sched, NEW x \in Held(sq, flight', v), x.task \in U
        PROVE  x \in Held(sq, flight, v)
    <3>1. CASE x \in flight'[v]
      <4>1. x \in A
        BY <2>1, <3>1 DEF A, RequestsOf
      <4> QED
        BY <1>0, <3>1, <4>1 DEF Shrinks, Held
    <3> QED
      BY <3>1 DEF Held
  <2> QED
    BY <2>1 DEF ReqInv, HeldAwaited, Awaited, Addressed
<1>5. CqAwaited(U)'
  <2>1. \A v \in Sched : \A x \in ToSet(cq'[v]) : x.task \in U => x \in ToSet(cq[v])
    BY <1>2 DEF OnlyAdds
  <2> QED
    BY <2>1 DEF ReqInv, CqAwaited, Awaited, Addressed
<1>6. Plain(U)'
  BY DEF ReqInv, Plain
<1> QED
  BY <1>2, <1>4, <1>5, <1>6 DEF ReqInv, A, C

\* The kernel completing an operation keeps ReqInv: the request becomes its completion.
LEMMA IoDoneReq ==
    ASSUME NEW U, NEW s \in Sched, NEW r, NEW res \in Int, SchedInv, ReqInv(U), IoDone(s, r, res)
    PROVE  ReqInv(U)'
<1> DEFINE timer == Request(r.task, r.n, "held")
           armed == Request(r.task, r.n, "armed")
<1>0. /\ TypeOK /\ flight \in [Sched -> SUBSET Req] /\ cq \in [Sched -> Seq(Cqe)]
      /\ r \in Req /\ r \in flight[s] /\ r.kind = "io" /\ UNCHANGED <<sq, op>>
  BY DEF SchedInv, TypeOK, IoDone, coro
<1>a. /\ r.task \in Task /\ r.n \in Nat
      /\ timer \in Req /\ timer.task = r.task /\ timer.kind = "held"
      /\ armed \in Req /\ armed.task = r.task /\ armed.kind = "armed"
  BY <1>0, RequestType DEF Req
<1>b. flight' = [flight EXCEPT ![s] = (@ \ {r, timer}) \cup
                    (IF timer \in flight[s] /\ res >= 0 THEN {armed} ELSE {})]
  BY DEF IoDone
<1>c. cq' = [cq EXCEPT ![s] = @ \o <<Completion(r, res)>> \o
                    (IF timer \in flight[s] /\ res < 0 THEN <<Completion(r, ECANCELED)>> ELSE << >>)]
  BY DEF IoDone
<1>d. /\ Completion(r, res) \in Cqe /\ Completion(r, res).task = r.task /\ Completion(r, res).n = r.n
      /\ Completion(r, ECANCELED) \in Cqe /\ Completion(r, ECANCELED).task = r.task
  BY <1>0, CompletionType DEF ECANCELED
<1>e. r.task \in U => timer \notin flight[s]
  BY <1>a DEF ReqInv, HeldAwaited, Held
<1> HIDE DEF timer, armed
<1>f. flight' \in [Sched -> SUBSET Req]
  BY <1>0, <1>a, <1>b
<1>g. Shrinks(RequestsOf(U), flight', flight)
  <2>1. \A v \in Sched : \A x \in flight'[v] : x \in flight[v] \/ (x = armed /\ timer \in flight[s])
    BY <1>0, <1>b
  <2> QED
    BY <1>a, <1>e, <2>1 DEF Shrinks, RequestsOf
<1>h. r \notin flight'[s]
  BY <1>0, <1>a, <1>b
<1>1. CASE r.task \in U
  <2>1. cq' = [cq EXCEPT ![s] = Append(@, Completion(r, res))]
    <3>1. cq' = [cq EXCEPT ![s] = @ \o <<Completion(r, res)>> \o << >>]
      BY <1>1, <1>c, <1>e
    <3>2. cq[s] \in Seq(Cqe)
      BY <1>0
    <3>3. cq[s] \o <<Completion(r, res)>> \o << >> = Append(cq[s], Completion(r, res))
      BY <1>d, <3>2
    <3> QED
      BY <3>1, <3>3
  <2> QED
    BY <1>0, <1>1, <1>d, <1>f, <1>g, <1>h, <2>1, RequestEnds
<1>2. CASE r.task \notin U
  <2>1. PICK f \in Seq(Cqe) : f = <<Completion(r, res)>> \o
             (IF timer \in flight[s] /\ res < 0 THEN <<Completion(r, ECANCELED)>> ELSE << >>)
    <3>1. (<<Completion(r, res)>> \o
             (IF timer \in flight[s] /\ res < 0 THEN <<Completion(r, ECANCELED)>> ELSE << >>)) \in Seq(Cqe)
      BY <1>d
    <3> QED
      BY <3>1, Zenon
  <2>2. \A i \in 1..Len(f) : f[i] = Completion(r, res) \/ f[i] = Completion(r, ECANCELED)
    BY <1>d, <2>1
  <2>3. cq' = [cq EXCEPT ![s] = @ \o f]
    <3> DEFINE more == IF timer \in flight[s] /\ res < 0 THEN <<Completion(r, ECANCELED)>> ELSE << >>
    <3>1. more \in Seq(Cqe) /\ <<Completion(r, res)>> \in Seq(Cqe) /\ cq[s] \in Seq(Cqe)
      BY <1>0, <1>d
    <3>2. cq' = [cq EXCEPT ![s] = @ \o <<Completion(r, res)>> \o more] /\ f = <<Completion(r, res)>> \o more
      BY <1>c, <2>1
    <3> HIDE DEF more
    <3>3. cq[s] \o <<Completion(r, res)>> \o more = cq[s] \o (<<Completion(r, res)>> \o more)
      BY <3>1, CompletionsAssociative
    <3> QED
      BY <3>2, <3>3
  <2> QED
    BY <1>0, <1>2, <1>d, <1>f, <1>g, <2>2, <2>3, OtherRequestEnds
<1> QED
  BY <1>1, <1>2

\* A timer firing keeps ReqInv: tasks of U have no timer.
LEMMA TimerFiresReq ==
    ASSUME NEW U, NEW s \in Sched, NEW r, SchedInv, ReqInv(U), TimerFires(s, r)
    PROVE  ReqInv(U)'
<1>0. /\ TypeOK /\ flight \in [Sched -> SUBSET Req] /\ cq \in [Sched -> Seq(Cqe)]
      /\ r \in Req /\ r \in flight[s] /\ r.kind # "io" /\ UNCHANGED <<sq, op>>
      /\ flight' = [flight EXCEPT ![s] = @ \ {r}]
      /\ cq' = [cq EXCEPT ![s] = Append(@, Completion(r, ETIME))]
  BY DEF SchedInv, TypeOK, TimerFires, coro
<1>1. Completion(r, ETIME) \in Cqe /\ Completion(r, ETIME).task = r.task /\ Completion(r, ETIME).n = r.n
  BY <1>0, CompletionType DEF ETIME
<1>2. r.task \notin U
  BY <1>0 DEF ReqInv, HeldAwaited, Held
<1>3. /\ flight' \in [Sched -> SUBSET Req] /\ r \notin flight'[s]
      /\ Shrinks(RequestsOf(U), flight', flight)
  BY <1>0 DEF Shrinks
<1> QED
  BY <1>0, <1>1, <1>2, <1>3, RequestEnds

\* So does a timer that is refused.
LEMMA TimerRejectedReq ==
    ASSUME NEW U, NEW s \in Sched, NEW r, SchedInv, ReqInv(U), TimerRejected(s, r)
    PROVE  ReqInv(U)'
<1> DEFINE io == Request(r.task, r.n, "io")
<1>0. /\ TypeOK /\ flight \in [Sched -> SUBSET Req] /\ cq \in [Sched -> Seq(Cqe)]
      /\ r \in Req /\ r \in flight[s] /\ r.kind # "io" /\ UNCHANGED <<sq, op>>
      /\ \/ /\ flight' = [flight EXCEPT ![s] = @ \ {r, io}]
            /\ cq' = [cq EXCEPT ![s] = @ \o <<Completion(io, ECANCELED), Completion(r, EINVAL)>>]
         \/ /\ flight' = [flight EXCEPT ![s] = @ \ {r}]
            /\ cq' = [cq EXCEPT ![s] = Append(@, Completion(r, EINVAL))]
  BY DEF SchedInv, TypeOK, TimerRejected, coro
<1>a. io \in Req /\ io.task = r.task
  BY <1>0, RequestType DEF Req
<1>1. /\ Completion(r, EINVAL) \in Cqe /\ Completion(r, EINVAL).task = r.task
      /\ Completion(r, EINVAL).n = r.n
      /\ Completion(io, ECANCELED) \in Cqe /\ Completion(io, ECANCELED).task = r.task
  BY <1>0, <1>a, CompletionType DEF EINVAL, ECANCELED
<1>2. r.task \notin U
  BY <1>0 DEF ReqInv, HeldAwaited, Held
<1> HIDE DEF io
<1>3. /\ flight' \in [Sched -> SUBSET Req] /\ r \notin flight'[s]
      /\ Shrinks(RequestsOf(U), flight', flight)
  BY <1>0 DEF Shrinks
<1>4. CASE cq' = [cq EXCEPT ![s] = @ \o <<Completion(io, ECANCELED), Completion(r, EINVAL)>>]
  <2>1. PICK f \in Seq(Cqe) : f = <<Completion(io, ECANCELED), Completion(r, EINVAL)>>
    <3>1. <<Completion(io, ECANCELED), Completion(r, EINVAL)>> \in Seq(Cqe)
      BY <1>1
    <3> QED
      BY <3>1, Zenon
  <2>2. \A i \in 1..Len(f) : f[i].task = r.task
    BY <1>1, <2>1
  <2> QED
    BY <1>0, <1>2, <1>3, <1>4, <2>1, <2>2, OtherRequestEnds
<1>5. CASE cq' = [cq EXCEPT ![s] = Append(@, Completion(r, EINVAL))]
  BY <1>0, <1>1, <1>2, <1>3, <1>5, RequestEnds
<1> QED
  BY <1>0, <1>4, <1>5

\* The task t replaces its operation, for which nothing is left, and may queue requests.
LEMMA OpReplaced ==
    ASSUME NEW U, NEW t \in Task, TypeOK, ReqInv(U), UNCHANGED cq,
           \A u \in Task : u # t => op'[u] = op[u],
           t \in U => ~ op[t].live \/ op[t].completed,
           t \in U => op'[t].kind = "plain",
           Unique(RequestsOf(U), CompletionsOf(U), sq', flight', cq),
           \A v \in Sched : \A x \in Held(sq', flight', v) :
              \/ x \in Held(sq, flight, v)
              \/ x.task = t /\ (t \in U => /\ op'[t].live /\ ~ op'[t].completed
                                         /\ op'[t].n = x.n /\ x.kind = "io")
    PROVE  ReqInv(U)'
<1>1. /\ \A v \in Sched : \A r \in Held(sq, flight, v) : r.task \in U => r.task # t
      /\ \A v \in Sched : \A c \in ToSet(cq[v]) : c.task \in U => c.task # t
  BY NothingAwaited, NothingInSets, QueuesNow
<1>2. /\ \A v \in Sched : \A r \in Held(sq, flight, v) : r.task \in Task
      /\ \A v \in Sched : \A c \in ToSet(cq[v]) : c.task \in Task
  BY HeldTasks
<1>3. HeldAwaited(U)'
  <2> SUFFICES ASSUME NEW v \in Sched, NEW x \in Held(sq', flight', v), x.task \in U
               PROVE  Awaited(x)' /\ x.kind = "io"
    BY DEF HeldAwaited
  <2>1. CASE x \in Held(sq, flight, v)
    <3>1. op'[x.task] = op[x.task]
      BY <1>1, <1>2, <2>1
    <3> QED
      BY <2>1, <3>1 DEF ReqInv, HeldAwaited, Awaited, Addressed
  <2>2. CASE x.task = t /\ (t \in U => /\ op'[t].live /\ ~ op'[t].completed
                                      /\ op'[t].n = x.n /\ x.kind = "io")
    BY <2>2 DEF Awaited, Addressed
  <2> QED
    BY <2>1, <2>2
<1>4. CqAwaited(U)'
  BY <1>1, <1>2 DEF ReqInv, CqAwaited, Awaited, Addressed
<1>5. Plain(U)'
  BY DEF ReqInv, Plain
<1> QED
  BY <1>3, <1>4, <1>5 DEF ReqInv

\* An await queues the operation, and, if it is timed, a timer that is linked to it or not.
LEMMA AwaitQueues ==
    ASSUME NEW s \in Sched, NEW kind \in {"plain", "timed"}, TypeOK, Await(s, kind)
    PROVE  LET r == Request(cur[s].task, op[cur[s].task].n + 1, "io")
           IN  \/ kind = "plain" /\ Enqueues(sq', flight', sq, flight, s, r)
               \/ \E SQ1, FL1, x :
                     /\ kind = "timed" /\ Enqueues(SQ1, FL1, sq, flight, s, r)
                     /\ x.task = cur[s].task /\ x.kind # "io" /\ Enqueues(sq', flight', SQ1, FL1, s, x)
<1> DEFINE t == cur[s].task
           n == op[t].n + 1
           r == Request(t, n, "io")
           io == Queued(sq[s], flight[s], r)
<1>a. t \in Task
  BY AwaitShape
<1>0. t \in Task /\ n \in Nat
  BY <1>a DEF TypeOK, Op
<1>1. r \in Req
  BY <1>0, RequestType
<1>2. CASE kind = "plain"
  BY <1>1, <1>2 DEF Await, Enqueues
<1>3. CASE kind = "timed"
  <2> DEFINE x == Request(t, n, IF Room(io.sq) THEN "held" ELSE "free")
             SQ1 == [sq EXCEPT ![s] = io.sq]
             FL1 == [flight EXCEPT ![s] = io.flight]
  <2>1. x \in Req /\ x.task = t /\ x.kind # "io"
    BY <1>0, RequestType
  <2>2. /\ sq' = [sq EXCEPT ![s] = Queued(io.sq, io.flight, x).sq]
        /\ flight' = [flight EXCEPT ![s] = Queued(io.sq, io.flight, x).flight]
    BY <1>3 DEF Await, QueuedWithTimeout
  <2>3. Enqueues(SQ1, FL1, sq, flight, s, r)
    BY <1>1 DEF Enqueues
  <2> HIDE DEF io, x
  <2>4. SQ1[s] = io.sq /\ FL1[s] = io.flight
    BY DEF TypeOK
  <2>5. /\ sq' = [SQ1 EXCEPT ![s] = Queued(io.sq, io.flight, x).sq]
        /\ flight' = [FL1 EXCEPT ![s] = Queued(io.sq, io.flight, x).flight]
    BY <2>2 DEF TypeOK
  <2>6. Enqueues(sq', flight', SQ1, FL1, s, x)
    BY <2>1, <2>4, <2>5 DEF Enqueues
  <2> HIDE DEF SQ1, FL1
  <2> QED
    BY <1>3, <2>1, <2>3, <2>6
<1> QED
  BY <1>2, <1>3

\* An await keeps ReqInv: the task ran, so it had nothing under way.
LEMMA AwaitReq ==
    ASSUME NEW U, NEW s \in Sched, NEW kind \in {"plain", "timed"}, SchedInv, ReqInv(U),
           Await(s, kind), cur[s].task \in U => kind = "plain"
    PROVE  ReqInv(U)'
<1> DEFINE A == RequestsOf(U)
           C == CompletionsOf(U)
           t == cur[s].task
           n == op[t].n + 1
           r == Request(t, n, "io")
<1>0. /\ TypeOK /\ t \in Task /\ op'[t] = NewOp(t, kind, s) /\ \A u \in Task : u # t => op'[u] = op[u]
      /\ UNCHANGED cq
  BY AwaitShape DEF SchedInv, Await
<1>a. op[t] \in Op /\ n \in Nat
  BY <1>0 DEF TypeOK, Op
<1>b. /\ op'[t].n = n /\ op'[t].live /\ ~ op'[t].completed
      /\ t \in U => op'[t].kind = "plain"
  BY <1>0, <1>a, NewOpValue
<1>1. ~ op[t].live
  BY <1>0, NoTaskIsNoTask DEF SchedInv, CurRuns, LiveWaits
<1>2. r \in Req /\ r.task = t /\ r.n = n /\ r.kind = "io"
  BY <1>0, <1>a, RequestType
<1>3. Unique(A, C, sq, flight, cq) /\ Queues(sq, flight, cq) /\ Nothing(A, C, t, sq, flight, cq)
  BY <1>0, <1>1, NothingAwaited, QueuesNow DEF ReqInv
<1> HIDE DEF r, n
<1>4. CASE Enqueues(sq', flight', sq, flight, s, r)
  <2>1. /\ Unique(A, C, sq', flight', cq)
        /\ \A v \in Sched : \A x \in Held(sq', flight', v) : x \in Held(sq, flight, v) \/ (v = s /\ x = r)
    <3> HIDE DEF A, C, t
    <3> QED
      BY <1>2, <1>3, <1>4, UniqueQueued, HeldQueued
  <2> HIDE DEF t
  <2> QED
    BY <1>0, <1>1, <1>2, <1>b, <2>1, OpReplaced
<1>5. CASE \E SQ1, FL1, x :
              /\ kind = "timed" /\ Enqueues(SQ1, FL1, sq, flight, s, r)
              /\ x.task = t /\ Enqueues(sq', flight', SQ1, FL1, s, x)
  <2>1. PICK SQ1, FL1, x :
              /\ kind = "timed" /\ Enqueues(SQ1, FL1, sq, flight, s, r)
              /\ x.task = t /\ Enqueues(sq', flight', SQ1, FL1, s, x)
    BY <1>5
  <2>2. t \notin U
    BY <2>1
  <2>3. x \notin A
    BY <2>1, <2>2 DEF RequestsOf
  <2> HIDE DEF A, C, t
  <2>4. /\ Unique(A, C, SQ1, FL1, cq) /\ Queues(SQ1, FL1, cq)
        /\ \A v \in Sched : \A y \in Held(SQ1, FL1, v) : y \in Held(sq, flight, v) \/ (v = s /\ y = r)
    BY <1>2, <1>3, <2>1, UniqueQueued, HeldQueued
  <2>5. /\ Unique(A, C, sq', flight', cq)
        /\ \A v \in Sched : \A y \in Held(sq', flight', v) : y \in Held(SQ1, FL1, v) \/ (v = s /\ y = x)
    BY <2>1, <2>3, <2>4, UniqueQueued, HeldQueued
  <2> QED
    BY <1>0, <1>1, <1>2, <1>b, <2>1, <2>2, <2>4, <2>5, OpReplaced DEF A, C
<1> QED
  BY <1>0, <1>4, <1>5, AwaitQueues DEF r, n

\* An await that throws keeps ReqInv: only a timed one leaves a request behind.
LEMMA AwaitThrowsReq ==
    ASSUME NEW U, NEW s \in Sched, NEW kind \in {"plain", "timed"}, SchedInv, ReqInv(U),
           AwaitThrows(s, kind), cur[s].task \in U => kind = "plain"
    PROVE  ReqInv(U)'
<1> DEFINE A == RequestsOf(U)
           C == CompletionsOf(U)
           t == cur[s].task
           n == op[t].n + 1
           r == Request(t, n, "io")
<1>0. /\ TypeOK /\ t \in Task /\ \A u \in Task : u # t => op'[u] = op[u]
      /\ op'[t] = [NewOp(t, kind, s) EXCEPT !.live = FALSE, !.res = EIO]
      /\ UNCHANGED cq
  BY AwaitThrowsShape DEF SchedInv, AwaitThrows
<1>a. op[t] \in Op /\ n \in Nat
  BY <1>0 DEF TypeOK, Op
<1>b. t \in U => op'[t].kind = "plain"
  BY <1>0, <1>a, NewOpValue DEF Op
<1>1. ~ op[t].live
  BY <1>0, NoTaskIsNoTask DEF SchedInv, CurRuns, LiveWaits
<1>2. r \in Req /\ r.task = t
  BY <1>0, <1>a, RequestType
<1>3. CASE UNCHANGED <<sq, flight>>
  <2> HIDE DEF t, n
  <2> QED
    BY <1>0, <1>1, <1>b, <1>3, OpChanged
<1>4. CASE kind = "timed" /\ Enqueues(sq', flight', sq, flight, s, r)
  <2>1. Unique(A, C, sq, flight, cq) /\ Queues(sq, flight, cq) /\ Nothing(A, C, t, sq, flight, cq)
    BY <1>0, <1>1, NothingAwaited, QueuesNow DEF ReqInv
  <2> HIDE DEF A, C, t, n, r
  <2>2. /\ Unique(A, C, sq', flight', cq)
        /\ \A v \in Sched : \A x \in Held(sq', flight', v) : x \in Held(sq, flight, v) \/ (v = s /\ x = r)
    BY <1>2, <1>4, <2>1, UniqueQueued, HeldQueued
  <2>3. t \notin U
    BY <1>4 DEF t
  <2> QED
    BY <1>0, <1>1, <1>2, <1>b, <2>2, <2>3, OpReplaced DEF A, C
<1>5. \/ UNCHANGED <<sq, flight>>
      \/ kind = "timed" /\ Enqueues(sq', flight', sq, flight, s, r)
  BY <1>2 DEF AwaitThrows, Enqueues
<1> QED
  BY <1>3, <1>4, <1>5

\* Every step of run keeps ReqInv.
LEMMA LoopStepReq ==
    ASSUME NEW U, NEW s \in Sched, SchedInv, ReqInv(U), LoopStep(s)
    PROVE  ReqInv(U)'
<1>1. CASE Boot(s) \/ Drain(s) \/ SwapReady(s) \/ Exit(s) \/ ReapDone(s)
  <2>1. UNCHANGED <<sq, flight, cq, op>>
    BY <1>1 DEF Boot, Drain, SwapReady, Exit, ReapDone, ring, coro
  <2> QED
    BY <2>1, ReqFrame
<1>2. CASE Resume(s) \/ Submit(s) \/ Reap(s)
  BY <1>2, ResumeReq, SubmitReq, ReapReq DEF SchedInv
<1> QED
  BY <1>1, <1>2 DEF LoopStep

\* ReqInv holds initially.
LEMMA InitReq ==
    ASSUME NEW U, Init
    PROVE  ReqInv(U)
<1> USE DEF Init
<1>0. \A s \in Sched : 1..Len(sq[s]) = {} /\ 1..Len(cq[s]) = {} /\ flight[s] = {}
  OBVIOUS
<1>1. \A s \in Sched : ToSet(sq[s]) = {} /\ ToSet(cq[s]) = {}
  BY DEF ToSet
<1>2. Unique(RequestsOf(U), CompletionsOf(U), sq, flight, cq)
  BY <1>0 DEF Unique, OneEach, OneInFlight, QueuesApart, FlightApart
<1>3. HeldAwaited(U) /\ CqAwaited(U)
  BY <1>0, <1>1 DEF HeldAwaited, CqAwaited, Held
<1>4. Plain(U)
  BY DEF Plain, NoOp
<1> QED
  BY <1>2, <1>3, <1>4 DEF ReqInv

\* RInv is inductive relative to SchedInv.
LEMMA NextReq == SchedInv /\ RInv /\ [Next]_svars => RInv'
<1> SUFFICES ASSUME SchedInv, RInv, [Next]_svars PROVE RInv'
  OBVIOUS
<1> DEFINE U == UntimedTasks
<1>0. ReqInv(U) /\ (ReqInv(U)' => RInv')
  BY DEF RInv, UntimedTasks, Untimed
<1>u. \A t \in Task : t \in U => "timed" \notin Kinds[t]
  BY DEF UntimedTasks, Untimed
<1> HIDE DEF U
<1>1. CASE UNCHANGED svars
  BY <1>0, <1>1, ReqFrame DEF svars, ring, coro
<1>2. ASSUME NEW s \in Sched, NEW t \in Task, Post(s, t) \/ Start(s, t) PROVE RInv'
  BY <1>0, <1>2, ReqFrame DEF Post, Start, ring
<1>3. ASSUME NEW s \in Sched, Stop(s) \/ LoopStep(s) \/ ReapDangling(s) PROVE RInv'
  <2>1. CASE Stop(s)
    BY <1>0, <2>1, ReqFrame DEF Stop, ring, coro
  <2>2. CASE LoopStep(s)
    BY <1>0, <2>2, LoopStepReq
  <2>3. CASE ReapDangling(s)
    BY <1>0, <2>3, DieReq DEF ReapDangling, SchedInv
  <2> QED
    BY <1>3, <2>1, <2>2, <2>3
<1>4. ASSUME NEW s \in Sched, TaskStep(s) PROVE RInv'
  <2>0. /\ cur[s].task \in Task
        /\ \/ \E kind \in {"plain", "timed"} :
                 kind \in Kinds[cur[s].task] /\ (Await(s, kind) \/ AwaitThrows(s, kind))
           \/ Finish(s)
    BY <1>4, TaskStepKinds DEF SchedInv
  <2>1. ASSUME NEW kind \in {"plain", "timed"}, kind \in Kinds[cur[s].task],
               Await(s, kind) \/ AwaitThrows(s, kind)
        PROVE  RInv'
    <3>1. cur[s].task \in U => kind = "plain"
      BY <1>u, <2>0, <2>1
    <3> QED
      BY <1>0, <2>1, <3>1, AwaitReq, AwaitThrowsReq
  <2>2. CASE Finish(s)
    BY <1>0, <2>2, ReqFrame DEF Finish, ring
  <2> QED
    BY <2>0, <2>1, <2>2
<1>5. ASSUME NEW s \in Sched, NEW r \in flight[s], NEW res \in {1, 0, EIO}, IoDone(s, r, res)
      PROVE  RInv'
  BY <1>0, <1>5, IoDoneReq DEF EIO
<1>6. ASSUME NEW s \in Sched, TimerStep(s) PROVE RInv'
  BY <1>0, <1>6, TimerFiresReq, TimerRejectedReq DEF TimerStep
<1> QED
  BY <1>1, <1>2, <1>3, <1>4, <1>5, <1>6 DEF Next

\* The invariants imply the property of the ring.
LEMMA RequestsAreAwaited ==
    ASSUME SchedInv, RInv
    PROVE  NoDanglingRequest
<1> SUFFICES ASSUME NEW s \in Sched, NEW r \in ToSet(sq[s]) \cup flight[s] \cup ToSet(cq[s]),
                    Untimed(r.task)
             PROVE  Addressed(r) /\ st[r.task] = "waiting"
  BY DEF NoDanglingRequest
<1>1. r.task \in UntimedTasks
  BY HeldTasks DEF SchedInv, UntimedTasks, Held
<1>2. Awaited(r)
  BY <1>1 DEF RInv, ReqInv, HeldAwaited, CqAwaited, Held
<1> QED
  BY <1>1, <1>2 DEF Awaited, Addressed, SchedInv, LiveWaits, UntimedTasks

\* For any number of schedulers, coroutines and awaits, and any ring size: every request and completion of a
\* coroutine that uses no timeout is addressed to the operation object on the frame it is suspended in, so
\* neither the kernel nor the completion loop of run touches an operation that is gone.
THEOREM SchedulerTouchesLiveOperations == Spec => []NoDanglingRequest
<1>1. Init => SchedInv /\ RInv
  BY InitSched, InitReq DEF RInv
<1>2. SchedInv /\ RInv /\ [Next]_svars => SchedInv' /\ RInv'
  BY NextSched, NextReq
<1>3. SchedInv /\ RInv => NoDanglingRequest
  BY RequestsAreAwaited
<1> QED
  BY <1>1, <1>2, <1>3, PTL DEF Spec

-----------------------------------------------------------------------------
(* No coroutine is forgotten.                                              *)

\* NoneForgotten for one task.
Kept(t) ==
    st[t] = "waiting" /\ lpc[op[t].at] # "exited" => IF op[t].completed THEN Handed(t) ELSE Requested(t)

\* Only while it resumes its batch, and after the process has died in it, a scheduler has one.
BatchTaken == \A v \in Sched : lpc[v] \notin {"resume", "exited"} => batch[v] = << >>

\* The inductive invariant behind NoneForgotten, relative to SchedInv.
KeptInv == BatchTaken /\ \A t \in Task : Kept(t)

\* A step that loses no handle, request or completion of task t: a handle stays in one of the two queues of its
\* scheduler, a request may become its completion, and a completion that t awaits stays.
HandlesStay(t) ==
    \A v \in Sched : \A i \in ToSet(batch[v]) \cup ToSet(ready[v]) :
        i.task = t => i \in ToSet(batch'[v]) \cup ToSet(ready'[v])
RequestsStay(t) ==
    \A v \in Sched : \A r \in Held(sq, flight, v) : r.task = t /\ r.kind = "io" =>
        \/ r \in Held(sq', flight', v)
        \/ \E c \in ToSet(cq'[v]) : c.task = r.task /\ c.n = r.n
CompletionsStay(t) ==
    \A v \in Sched : \A c \in ToSet(cq[v]) : c.task = t /\ c.n = op[t].n => c \in ToSet(cq'[v])
NoneReturns == \A v \in Sched : lpc'[v] # "exited" => lpc[v] # "exited"

\* Such a step does not forget t.
LEMMA TaskKept ==
    ASSUME NEW t \in Task, SchedInv, Kept(t), op'[t] = op[t], st'[t] = "waiting" => st[t] = "waiting",
           NoneReturns, HandlesStay(t), RequestsStay(t), CompletionsStay(t)
    PROVE  Kept(t)'
<1> SUFFICES ASSUME st'[t] = "waiting", lpc'[op[t].at] # "exited"
             PROVE  (IF op[t].completed THEN Handed(t) ELSE Requested(t))'
  BY DEF Kept
<1> DEFINE a == op[t].at
           r == Request(t, op[t].n, "io")
<1>1. a \in Sched /\ st[t] = "waiting" /\ lpc[a] # "exited" /\ op[t].n \in Nat
  BY DEF SchedInv, LiveWaits, NoneReturns, TypeOK, Op
<1>2. CASE op[t].completed
  <2>1. Handed(t)
    BY <1>1, <1>2 DEF Kept
  <2>2. Handed(t)'
    BY <1>1, <2>1 DEF Handed, HandlesStay
  <2> QED
    BY <1>2, <2>2
<1>3. CASE ~ op[t].completed
  <2>0. r.task = t /\ r.n = op[t].n /\ r.kind = "io"
    BY DEF Request
  <2>1. \/ r \in Held(sq, flight, a)
        \/ \E c \in ToSet(cq[a]) : c.task = t /\ c.n = op[t].n
    BY <1>1, <1>3 DEF Kept, Requested, Held
  <2> HIDE DEF r
  <2>2. \/ r \in Held(sq', flight', a)
        \/ \E c \in ToSet(cq'[a]) : c.task = t /\ c.n = op[t].n
    BY <1>1, <2>0, <2>1 DEF RequestsStay, CompletionsStay
  <2>3. Requested(t)'
    BY <2>2 DEF Requested, Held, r
  <2> QED
    BY <1>3, <2>3
<1> QED
  BY <1>2, <1>3

\* The sets of a sequence that is extended, and of its tail.
LEMMA SetExtended ==
    ASSUME NEW S, NEW q \in Seq(S), NEW f \in Seq(S)
    PROVE  (\A x \in ToSet(q) : x \in ToSet(q \o f)) /\ (\A x \in ToSet(f) : x \in ToSet(q \o f))
<1>0. /\ q \o f \in Seq(S) /\ Len(q \o f) = Len(q) + Len(f) /\ Len(q) \in Nat /\ Len(f) \in Nat
      /\ \A i \in 1..Len(q) : (q \o f)[i] = q[i]
      /\ \A i \in 1..Len(f) : (q \o f)[Len(q) + i] = f[i]
  BY LenProperties, ConcatProperties
<1>1. DOMAIN q = 1..Len(q) /\ DOMAIN f = 1..Len(f) /\ DOMAIN (q \o f) = 1..(Len(q) + Len(f))
  BY <1>0
<1>2. ASSUME NEW i \in 1..Len(q) PROVE q[i] \in ToSet(q \o f)
  <2>1. i \in 1..(Len(q) + Len(f)) /\ (q \o f)[i] = q[i]
    BY <1>0
  <2> QED
    BY <1>1, <2>1 DEF ToSet
<1>3. ASSUME NEW i \in 1..Len(f) PROVE f[i] \in ToSet(q \o f)
  <2>1. Len(q) + i \in 1..(Len(q) + Len(f)) /\ (q \o f)[Len(q) + i] = f[i]
    BY <1>0
  <2> QED
    BY <1>1, <2>1 DEF ToSet
<1> QED
  BY <1>1, <1>2, <1>3 DEF ToSet

LEMMA SetAppended ==
    ASSUME NEW S, NEW q \in Seq(S), NEW x \in S
    PROVE  (\A y \in ToSet(q) : y \in ToSet(Append(q, x))) /\ x \in ToSet(Append(q, x))
BY DEF ToSet

LEMMA SetTail ==
    ASSUME NEW S, NEW q \in Seq(S), q # << >>
    PROVE  \A x \in ToSet(q) : x = q[1] \/ x \in ToSet(Tail(q))
<1> SUFFICES ASSUME NEW i \in 1..Len(q), i # 1 PROVE q[i] \in ToSet(Tail(q))
  BY DEF ToSet
<1>1. i - 1 \in DOMAIN Tail(q) /\ Tail(q)[i - 1] = q[i]
  OBVIOUS
<1> QED
  BY <1>1 DEF ToSet

\* Queueing loses nothing, and the request is there.
LEMMA QueuedStays ==
    ASSUME NEW SQ, NEW FL, NEW CQ, NEW SQ1, NEW FL1, NEW s, NEW r,
           Queues(SQ, FL, CQ), Enqueues(SQ1, FL1, SQ, FL, s, r)
    PROVE  /\ \A v \in Sched : \A x \in Held(SQ, FL, v) : x \in Held(SQ1, FL1, v)
           /\ r \in Held(SQ1, FL1, s)
<1>0. /\ SQ \in [Sched -> Seq(Req)] /\ FL \in [Sched -> SUBSET Req] /\ s \in Sched /\ r \in Req
      /\ SQ1 = [SQ EXCEPT ![s] = Queued(SQ[s], FL[s], r).sq]
      /\ FL1 = [FL EXCEPT ![s] = Queued(SQ[s], FL[s], r).flight]
  BY DEF Queues, Enqueues
<1>a. SQ[s] \in Seq(Req) /\ FL[s] \in SUBSET Req
  BY <1>0
<1>b. \A v \in Sched : v # s => SQ1[v] = SQ[v] /\ FL1[v] = FL[v]
  BY <1>0
<1>1. CASE SQ1[s] = Append(SQ[s], r) /\ FL1[s] = FL[s]
  <2>1. (\A x \in ToSet(SQ[s]) : x \in ToSet(Append(SQ[s], r))) /\ r \in ToSet(Append(SQ[s], r))
    BY <1>0, <1>a, SetAppended
  <2> QED
    BY <1>1, <1>b, <2>1 DEF Held
<1>2. CASE SQ1[s] = <<r>> /\ FL1[s] = FL[s] \cup ToSet(SQ[s])
  <2>1. r \in ToSet(<<r>>)
    BY DEF ToSet
  <2> QED
    BY <1>2, <1>b, <2>1 DEF Held
<1>3. SQ1[s] = Queued(SQ[s], FL[s], r).sq /\ FL1[s] = Queued(SQ[s], FL[s], r).flight
  BY <1>0
<1> QED
  BY <1>a, <1>0, <1>1, <1>2, <1>3, QueuedShape

\* A step that leaves the queues, the ring and the operations alone forgets nobody.
LEMMA KeptFrame ==
    ASSUME SchedInv, KeptInv, UNCHANGED <<ready, batch, sq, flight, cq, op>>, NoneReturns, BatchTaken',
           \A t \in Task : st'[t] = "waiting" => st[t] = "waiting"
    PROVE  KeptInv'
<1>1. ASSUME NEW t \in Task PROVE Kept(t)'
  <2>1. HandlesStay(t) /\ RequestsStay(t) /\ CompletionsStay(t)
    BY DEF HandlesStay, RequestsStay, CompletionsStay
  <2> QED
    BY <2>1, TaskKept DEF KeptInv
<1> QED
  BY <1>1 DEF KeptInv

\* The steps of other threads, and of the loop where it touches no ring.
LEMMA QuietKept ==
    ASSUME NEW s \in Sched, SchedInv, KeptInv,
           Stop(s) \/ Boot(s) \/ Exit(s) \/ ReapDone(s) \/ (\E t \in Task : Post(s, t))
    PROVE  KeptInv'
<1>1. /\ UNCHANGED <<ready, batch, sq, flight, cq, op>>
      /\ \A t \in Task : st'[t] = "waiting" => st[t] = "waiting"
  BY DEF Stop, Boot, Exit, ReapDone, Post, ring, coro, SchedInv, TypeOK
<1>2. NoneReturns /\ BatchTaken'
  <2>1. lpc \in [Sched -> {"boot", "test", "swap", "resume", "reap", "exited"}]
    BY DEF SchedInv, TypeOK
  <2>2. CASE Stop(s) \/ \E t \in Task : Post(s, t)
    BY <2>2, <1>1 DEF Stop, Post, loop, NoneReturns, KeptInv, BatchTaken
  <2>3. CASE Boot(s) \/ Exit(s) \/ ReapDone(s)
    BY <2>1, <2>3, <1>1 DEF Boot, Exit, ReapDone, BatchDone, NoneReturns, KeptInv, BatchTaken
  <2> QED
    BY <2>2, <2>3
<1> QED
  BY <1>1, <1>2, KeptFrame

\* Handles that are added to ready_ displace none.
LEMMA MoreReady ==
    ASSUME NEW s \in Sched, SchedInv, KeptInv, NEW f \in Seq(Item), ready' = [ready EXCEPT ![s] = @ \o f],
           UNCHANGED <<batch, sq, flight, cq, op>>, NoneReturns, BatchTaken',
           \A t \in Task : st'[t] = "waiting" => st[t] = "waiting"
    PROVE  KeptInv'
<1>0. ready \in [Sched -> Seq(Item)]
  BY DEF SchedInv, TypeOK
<1>1. \A v \in Sched : \A x \in ToSet(ready[v]) : x \in ToSet(ready'[v])
  <2>1. \A x \in ToSet(ready[s]) : x \in ToSet(ready[s] \o f)
    BY <1>0, SetExtended
  <2> QED
    BY <1>0, <2>1
<1>2. ASSUME NEW t \in Task PROVE Kept(t)'
  <2>1. HandlesStay(t) /\ RequestsStay(t) /\ CompletionsStay(t)
    BY <1>1 DEF HandlesStay, RequestsStay, CompletionsStay
  <2> QED
    BY <2>1, TaskKept DEF KeptInv
<1> QED
  BY <1>2 DEF KeptInv

\* Task::start and the posted functions only add handles.
LEMMA StartKept ==
    ASSUME NEW s \in Sched, NEW t \in Task, SchedInv, KeptInv, Start(s, t)
    PROVE  KeptInv'
<1> DEFINE x == [task |-> t, destroy |-> TRUE]
<1>1. x \in Item /\ ready[s] \in Seq(Item)
  BY DEF SchedInv, TypeOK, Item
<1>2. <<x>> \in Seq(Item) /\ Append(ready[s], x) = ready[s] \o <<x>>
  <2> HIDE DEF x
  <2> QED
    BY <1>1
<1>3. /\ ready' = [ready EXCEPT ![s] = @ \o <<x>>]
      /\ UNCHANGED <<batch, sq, flight, cq, op>>
      /\ \A u \in Task : st'[u] = "waiting" => st[u] = "waiting"
  BY <1>2 DEF Start, ring, SchedInv, TypeOK
<1>4. NoneReturns /\ BatchTaken'
  BY DEF Start, loop, NoneReturns, KeptInv, BatchTaken
<1> QED
  BY <1>2, <1>3, <1>4, MoreReady

LEMMA DrainKept ==
    ASSUME NEW s \in Sched, SchedInv, KeptInv, Drain(s)
    PROVE  KeptInv'
<1> DEFINE f == [i \in 1..Len(posts[s]) |-> [task |-> posts[s][i], destroy |-> TRUE]]
<1>1. f \in Seq(Item)
  BY MappedPosts DEF SchedInv, TypeOK
<1>2. /\ ready' = [ready EXCEPT ![s] = @ \o f]
      /\ UNCHANGED <<batch, sq, flight, cq, op>>
      /\ \A u \in Task : st'[u] = "waiting" => st[u] = "waiting"
  BY DEF Drain, ring, SchedInv, TypeOK
<1>3. lpc[s] = "test" /\ lpc' = [lpc EXCEPT ![s] = "swap"] /\ DOMAIN lpc = Sched
  BY DEF Drain, SchedInv, TypeOK
<1>4. NoneReturns /\ BatchTaken'
  BY <1>2, <1>3 DEF NoneReturns, KeptInv, BatchTaken
<1> HIDE DEF f
<1> QED
  BY <1>1, <1>2, <1>4, MoreReady

\* The swap displaces no handle: the batch before is over.
LEMMA SwapKept ==
    ASSUME NEW s \in Sched, SchedInv, KeptInv, SwapReady(s)
    PROVE  KeptInv'
<1>0. /\ batch' = [batch EXCEPT ![s] = ready[s]] /\ ready' = [ready EXCEPT ![s] = << >>]
      /\ UNCHANGED <<sq, flight, cq, st, op>> /\ lpc[s] = "swap" /\ lpc' = [lpc EXCEPT ![s] = "resume"]
      /\ DOMAIN batch = Sched /\ DOMAIN ready = Sched /\ DOMAIN lpc = Sched
  BY DEF SwapReady, ring, coro, SchedInv, TypeOK
<1>1. batch[s] = << >>
  BY <1>0 DEF KeptInv, BatchTaken
<1>2. ToSet(batch[s]) = {}
  BY <1>1 DEF ToSet
<1>3. \A v \in Sched : ToSet(batch[v]) \cup ToSet(ready[v]) \subseteq ToSet(batch'[v]) \cup ToSet(ready'[v])
  BY <1>0, <1>2
<1>4. NoneReturns /\ BatchTaken'
  BY <1>0 DEF NoneReturns, KeptInv, BatchTaken
<1>5. ASSUME NEW t \in Task PROVE Kept(t)'
  <2>1. HandlesStay(t)
    BY <1>3 DEF HandlesStay
  <2>2. RequestsStay(t) /\ CompletionsStay(t)
    BY <1>0 DEF RequestsStay, CompletionsStay
  <2> QED
    BY <1>0, <1>4, <2>1, <2>2, TaskKept DEF KeptInv
<1> QED
  BY <1>4, <1>5 DEF KeptInv

\* Resuming takes the handle of the task that runs from now on, and no other.
LEMMA ResumeKept ==
    ASSUME NEW s \in Sched, SchedInv, KeptInv, Resume(s)
    PROVE  KeptInv'
<1> DEFINE x == batch[s][1]
<1>0. /\ lpc[s] = "resume" /\ batch \in [Sched -> Seq(Item)] /\ batch[s] # << >>
      /\ batch' = [batch EXCEPT ![s] = Tail(@)] /\ UNCHANGED <<lpc, ready, sq, flight, cq>>
      /\ op \in [Task -> Op] /\ DOMAIN st = Task
  BY DEF Resume, loop, ring, SchedInv, TypeOK
<1>1. Head(batch[s]) = x /\ x \in Item /\ x.task \in Task
  <2>1. Head(batch[s]) = x /\ x \in Item
    BY <1>0, Popped
  <2> QED
    BY <2>1 DEF Item
<1>2. /\ st' = [st EXCEPT ![x.task] = "running"] /\ op' = [op EXCEPT ![x.task].live = FALSE]
  BY <1>1 DEF Resume
<1>3. NoneReturns /\ BatchTaken'
  BY <1>0 DEF NoneReturns, KeptInv, BatchTaken
<1>4. \A y \in ToSet(batch[s]) : y = x \/ y \in ToSet(Tail(batch[s]))
  BY <1>0, SetTail
<1> HIDE DEF x
<1>5. ASSUME NEW t \in Task PROVE Kept(t)'
  <2>1. CASE t = x.task
    <3>1. st'[t] = "running"
      BY <1>0, <1>2, <2>1
    <3> QED
      BY <3>1 DEF Kept
  <2>2. CASE t # x.task
    <3>1. st'[t] = st[t] /\ op'[t] = op[t]
      BY <1>0, <1>1, <1>2, <2>2
    <3>2. HandlesStay(t)
      <4> SUFFICES ASSUME NEW v \in Sched, NEW i \in ToSet(batch[v]) \cup ToSet(ready[v]), i.task = t
                   PROVE  i \in ToSet(batch'[v]) \cup ToSet(ready'[v])
        BY DEF HandlesStay
      <4>1. CASE v = s /\ i \in ToSet(batch[s])
        BY <1>0, <1>4, <2>2, <4>1
      <4>2. CASE v # s \/ i \in ToSet(ready[v])
        BY <1>0, <4>2
      <4> QED
        BY <4>1, <4>2
    <3>3. RequestsStay(t) /\ CompletionsStay(t)
      BY <1>0 DEF RequestsStay, CompletionsStay
    <3> QED
      BY <1>3, <3>1, <3>2, <3>3, TaskKept DEF KeptInv
  <2> QED
    BY <2>1, <2>2
<1> QED
  BY <1>3, <1>5 DEF KeptInv

\* A step of the ring that leaves the handles and the coroutines alone.
LEMMA RingKept ==
    ASSUME SchedInv, KeptInv, UNCHANGED <<ready, batch, st, op>>, NoneReturns, BatchTaken',
           \A t \in Task : RequestsStay(t) /\ CompletionsStay(t)
    PROVE  KeptInv'
<1>1. ASSUME NEW t \in Task PROVE Kept(t)'
  <2>1. HandlesStay(t)
    BY DEF HandlesStay
  <2> QED
    BY <2>1, TaskKept DEF KeptInv
<1> QED
  BY <1>1 DEF KeptInv

\* io_uring_submit moves requests from the queue to the kernel, or nothing.
LEMMA SubmitKept ==
    ASSUME NEW s \in Sched, SchedInv, KeptInv, Submit(s)
    PROVE  KeptInv'
<1>0. /\ UNCHANGED <<ready, batch, cq, st, op>> /\ lpc' = [lpc EXCEPT ![s] = "reap"] /\ batch[s] = << >>
      /\ lpc[s] = "resume" /\ DOMAIN lpc = Sched /\ DOMAIN sq = Sched /\ DOMAIN flight = Sched
  BY DEF Submit, BatchDone, coro, SchedInv, TypeOK
<1>1. \/ UNCHANGED <<sq, flight>>
      \/ flight' = [flight EXCEPT ![s] = @ \cup ToSet(sq[s])] /\ sq' = [sq EXCEPT ![s] = << >>]
  BY DEF Submit
<1>2. \A v \in Sched : Held(sq, flight, v) \subseteq Held(sq', flight', v)
  BY <1>0, <1>1 DEF Held
<1>3. NoneReturns /\ BatchTaken'
  BY <1>0 DEF NoneReturns, KeptInv, BatchTaken
<1>4. \A t \in Task : RequestsStay(t) /\ CompletionsStay(t)
  BY <1>0, <1>2 DEF RequestsStay, CompletionsStay
<1> QED
  BY <1>0, <1>3, <1>4, RingKept

\* The kernel ends requests of ring s, and each one that is an operation has a completion among f.
LEMMA EndedKept ==
    ASSUME NEW s \in Sched, SchedInv, KeptInv, NEW f \in Seq(Cqe), cq' = [cq EXCEPT ![s] = @ \o f],
           UNCHANGED <<lpc, ready, batch, sq, st, op>>,
           \A v \in Sched : v # s => flight'[v] = flight[v],
           \A r \in flight[s] : r.kind = "io" =>
              r \in flight'[s] \/ \E c \in ToSet(f) : c.task = r.task /\ c.n = r.n
    PROVE  KeptInv'
<1>0. cq \in [Sched -> Seq(Cqe)]
  BY DEF SchedInv, TypeOK
<1>1. /\ \A x \in ToSet(cq[s]) : x \in ToSet(cq'[s])
      /\ \A x \in ToSet(f) : x \in ToSet(cq'[s])
      /\ \A v \in Sched : v # s => cq'[v] = cq[v]
  <2>1. (\A x \in ToSet(cq[s]) : x \in ToSet(cq[s] \o f)) /\ (\A x \in ToSet(f) : x \in ToSet(cq[s] \o f))
    BY <1>0, SetExtended
  <2> QED
    BY <1>0, <2>1
<1>2. NoneReturns /\ BatchTaken'
  BY DEF NoneReturns, KeptInv, BatchTaken
<1>3. ASSUME NEW t \in Task PROVE RequestsStay(t) /\ CompletionsStay(t)
  <2>1. CompletionsStay(t)
    BY <1>1 DEF CompletionsStay
  <2>2. RequestsStay(t)
    <3> SUFFICES ASSUME NEW v \in Sched, NEW r \in Held(sq, flight, v), r.kind = "io"
                 PROVE  \/ r \in Held(sq', flight', v)
                        \/ \E c \in ToSet(cq'[v]) : c.task = r.task /\ c.n = r.n
      BY DEF RequestsStay
    <3>1. CASE v = s
      BY <1>1, <3>1 DEF Held
    <3>2. CASE v # s
      BY <3>2 DEF Held
    <3> QED
      BY <3>1, <3>2
  <2> QED
    BY <2>1, <2>2
<1> QED
  BY <1>2, <1>3, RingKept

\* The kernel ends an operation ...
LEMMA IoDoneKept ==
    ASSUME NEW s \in Sched, NEW r, NEW res \in Int, SchedInv, KeptInv, IoDone(s, r, res)
    PROVE  KeptInv'
<1> DEFINE timer == Request(r.task, r.n, "held")
           more == IF timer \in flight[s] /\ res < 0 THEN <<Completion(r, ECANCELED)>> ELSE << >>
           f == <<Completion(r, res)>> \o more
<1>0. /\ r \in Req /\ UNCHANGED <<lpc, ready, batch, sq, st, op>>
      /\ cq \in [Sched -> Seq(Cqe)] /\ flight \in [Sched -> SUBSET Req]
      /\ cq' = [cq EXCEPT ![s] = @ \o <<Completion(r, res)>> \o more]
  BY DEF IoDone, loop, coro, SchedInv, TypeOK
<1>1. /\ Completion(r, res) \in Cqe /\ Completion(r, res).task = r.task /\ Completion(r, res).n = r.n
      /\ Completion(r, ECANCELED) \in Cqe
  BY <1>0, CompletionType DEF ECANCELED
<1>2. <<Completion(r, res)>> \in Seq(Cqe) /\ more \in Seq(Cqe) /\ cq[s] \in Seq(Cqe)
  BY <1>0, <1>1
<1>3. flight'[s] = (flight[s] \ {r, timer}) \cup
                     (IF timer \in flight[s] /\ res >= 0 THEN {Request(r.task, r.n, "armed")} ELSE {})
      /\ \A v \in Sched : v # s => flight'[v] = flight[v]
  BY <1>0 DEF IoDone
<1>4. timer.kind = "held"
  BY DEF Request
<1> HIDE DEF more, timer
<1>5. f \in Seq(Cqe) /\ cq' = [cq EXCEPT ![s] = @ \o f] /\ Completion(r, res) \in ToSet(f)
  <2>1. f \in Seq(Cqe)
    BY <1>2
  <2>2. cq[s] \o <<Completion(r, res)>> \o more = cq[s] \o f
    BY <1>2, CompletionsAssociative
  <2>3. Completion(r, res) \in ToSet(<<Completion(r, res)>>)
    BY DEF ToSet
  <2>4. Completion(r, res) \in ToSet(f)
    BY <1>2, <2>3, SetExtended
  <2> QED
    BY <1>0, <2>1, <2>2, <2>4
<1>6. \A x \in flight[s] : x.kind = "io" =>
         x \in flight'[s] \/ \E c \in ToSet(f) : c.task = x.task /\ c.n = x.n
  BY <1>1, <1>3, <1>4, <1>5
<1> HIDE DEF f
<1> QED
  BY <1>0, <1>3, <1>5, <1>6, EndedKept

\* ... or a timeout, alone or with the receive it is linked to.
LEMMA TimerKept ==
    ASSUME NEW s \in Sched, SchedInv, KeptInv, TimerStep(s)
    PROVE  KeptInv'
<1>1. PICK r \in flight[s] : TimerFires(s, r) \/ TimerRejected(s, r)
  BY DEF TimerStep
<1> DEFINE io == Request(r.task, r.n, "io")
<1>0. /\ r \in Req /\ cq[s] \in Seq(Cqe) /\ cq \in [Sched -> Seq(Cqe)] /\ flight \in [Sched -> SUBSET Req]
      /\ UNCHANGED <<lpc, ready, batch, sq, st, op>>
  BY <1>1 DEF TimerFires, TimerRejected, loop, coro, SchedInv, TypeOK
<1>a. io \in Req /\ io.task = r.task /\ io.n = r.n /\ io.kind = "io"
  BY <1>0, RequestType DEF Req
<1> HIDE DEF io
<1>b. /\ Completion(io, ECANCELED) \in Cqe /\ Completion(io, ECANCELED).task = r.task
      /\ Completion(io, ECANCELED).n = r.n
  BY <1>a, CompletionType DEF ECANCELED
<1>2. ASSUME NEW res \in Int, r.kind # "io", flight' = [flight EXCEPT ![s] = @ \ {r}],
             cq' = [cq EXCEPT ![s] = Append(@, Completion(r, res))]
      PROVE  KeptInv'
  <2>1. Completion(r, res) \in Cqe
    BY <1>0, CompletionType
  <2>2. <<Completion(r, res)>> \in Seq(Cqe) /\ Append(cq[s], Completion(r, res)) = cq[s] \o <<Completion(r, res)>>
    BY <1>0, <2>1
  <2>3. cq' = [cq EXCEPT ![s] = @ \o <<Completion(r, res)>>]
    BY <1>2, <2>2
  <2>4. /\ \A v \in Sched : v # s => flight'[v] = flight[v]
        /\ \A x \in flight[s] : x.kind = "io" => x \in flight'[s]
    BY <1>0, <1>2
  <2> QED
    BY <1>0, <2>2, <2>3, <2>4, EndedKept
<1>3. CASE /\ r.kind = "held" /\ flight' = [flight EXCEPT ![s] = @ \ {r, io}]
           /\ cq' = [cq EXCEPT ![s] = @ \o <<Completion(io, ECANCELED), Completion(r, EINVAL)>>]
  <2> DEFINE f == <<Completion(io, ECANCELED), Completion(r, EINVAL)>>
  <2>1. Completion(r, EINVAL) \in Cqe
    BY <1>0, CompletionType DEF EINVAL
  <2>2. f \in Seq(Cqe) /\ Completion(io, ECANCELED) \in ToSet(f)
    BY <1>b, <2>1 DEF ToSet
  <2>3. /\ \A v \in Sched : v # s => flight'[v] = flight[v]
        /\ \A x \in flight[s] : x.kind = "io" => x \in flight'[s] \/ x = io
    BY <1>0, <1>3
  <2>4. \A x \in flight[s] : x.kind = "io" =>
           x \in flight'[s] \/ \E c \in ToSet(f) : c.task = x.task /\ c.n = x.n
    BY <1>a, <1>b, <2>2, <2>3
  <2>5. cq' = [cq EXCEPT ![s] = @ \o f]
    BY <1>3
  <2> HIDE DEF f
  <2> QED
    BY <1>0, <2>2, <2>3, <2>4, <2>5, EndedKept
<1> QED
  BY <1>1, <1>2, <1>3 DEF TimerFires, TimerRejected, io, ETIME, EINVAL

\* A coroutine that suspends has its request in the ring; an await displaces no request of others.
LEMMA AwaitKept ==
    ASSUME NEW s \in Sched, NEW kind \in {"plain", "timed"}, SchedInv, KeptInv, Await(s, kind)
    PROVE  KeptInv'
<1>t. PICK t \in Task : t = cur[s].task
  BY AwaitShape DEF SchedInv
<1>n. PICK n \in Nat : n = op[t].n + 1
  BY DEF SchedInv, TypeOK, Op
<1> DEFINE r == Request(t, n, "io")
<1>0. /\ TypeOK /\ op[t] \in Op /\ op'[t] = NewOp(t, kind, s)
      /\ \A u \in Task : u # t => op'[u] = op[u] /\ st'[u] = st[u]
  BY <1>t, AwaitShape DEF SchedInv, TypeOK
<1>1. UNCHANGED <<lpc, ready, batch, cq>>
  BY DEF Await, loop
<1>2. op'[t].n = n /\ ~ op'[t].completed /\ op'[t].at = s
  BY <1>n, <1>0, NewOpValue
<1>3. (\A v \in Sched : \A x \in Held(sq, flight, v) : x \in Held(sq', flight', v)) /\ r \in Held(sq', flight', s)
  <2>0. Queues(sq, flight, cq)
    BY <1>0, QueuesNow
  <2>1. \/ Enqueues(sq', flight', sq, flight, s, r)
        \/ \E SQ1, FL1, x : Enqueues(SQ1, FL1, sq, flight, s, r) /\ Enqueues(sq', flight', SQ1, FL1, s, x)
    BY <1>t, <1>n, <1>0, AwaitQueues
  <2> HIDE DEF r
  <2>2. CASE Enqueues(sq', flight', sq, flight, s, r)
    BY <2>0, <2>2, QueuedStays
  <2>3. ASSUME NEW SQ1, NEW FL1, NEW x, Enqueues(SQ1, FL1, sq, flight, s, r),
               Enqueues(sq', flight', SQ1, FL1, s, x)
        PROVE  (\A v \in Sched : \A y \in Held(sq, flight, v) : y \in Held(sq', flight', v)) /\ r \in Held(sq', flight', s)
    <3>1. Queues(SQ1, FL1, cq)
      BY <2>0, <2>3, QueuesQueued
    <3>2. /\ \A v \in Sched : \A y \in Held(sq, flight, v) : y \in Held(SQ1, FL1, v)
          /\ r \in Held(SQ1, FL1, s)
      BY <2>0, <2>3, QueuedStays
    <3>3. \A v \in Sched : \A y \in Held(SQ1, FL1, v) : y \in Held(sq', flight', v)
      BY <2>3, <3>1, QueuedStays
    <3> QED
      BY <3>2, <3>3
  <2> QED
    BY <2>1, <2>2, <2>3
<1>4. NoneReturns /\ BatchTaken'
  BY <1>1 DEF NoneReturns, KeptInv, BatchTaken
<1>5. Kept(t)'
  <2>1. Requested(t)'
    BY <1>2, <1>3 DEF Requested, Held
  <2> QED
    BY <1>2, <2>1 DEF Kept
<1> HIDE DEF r
<1>6. ASSUME NEW u \in Task, u # t PROVE Kept(u)'
  <2>1. HandlesStay(u) /\ RequestsStay(u) /\ CompletionsStay(u)
    BY <1>1, <1>3 DEF HandlesStay, RequestsStay, CompletionsStay
  <2> QED
    BY <1>0, <1>4, <1>6, <2>1, TaskKept DEF KeptInv
<1> QED
  BY <1>4, <1>5, <1>6 DEF KeptInv

\* An await that throws displaces no request either, and its coroutine does not wait.
LEMMA AwaitThrowsKept ==
    ASSUME NEW s \in Sched, NEW kind \in {"plain", "timed"}, SchedInv, KeptInv, AwaitThrows(s, kind)
    PROVE  KeptInv'
<1>t. PICK t \in Task : t = cur[s].task
  BY AwaitThrowsShape DEF SchedInv
<1>n. PICK n \in Nat : n = op[t].n + 1
  BY DEF SchedInv, TypeOK, Op
<1> DEFINE r == Request(t, n, "io")
<1>0. TypeOK /\ \A u \in Task : u # t => op'[u] = op[u]
  BY <1>t, AwaitThrowsShape DEF SchedInv, TypeOK
<1>1. UNCHANGED <<lpc, ready, batch, cq, st>>
  BY DEF AwaitThrows, loop
<1>2. r \in Req /\ Queues(sq, flight, cq) /\ st[t] = "running"
  BY <1>t, <1>0, RequestType, QueuesNow, NoTaskIsNoTask DEF SchedInv, CurRuns
<1>3. UNCHANGED <<sq, flight>> \/ Enqueues(sq', flight', sq, flight, s, r)
  BY <1>t, <1>n, <1>2 DEF AwaitThrows, Enqueues
<1> HIDE DEF r
<1>4. \A v \in Sched : \A x \in Held(sq, flight, v) : x \in Held(sq', flight', v)
  BY <1>2, <1>3, QueuedStays
<1>5. NoneReturns /\ BatchTaken'
  BY <1>1 DEF NoneReturns, KeptInv, BatchTaken
<1>6. ASSUME NEW u \in Task, u # t PROVE Kept(u)'
  <2>1. HandlesStay(u) /\ RequestsStay(u) /\ CompletionsStay(u)
    BY <1>1, <1>4 DEF HandlesStay, RequestsStay, CompletionsStay
  <2> QED
    BY <1>0, <1>1, <1>5, <1>6, <2>1, TaskKept DEF KeptInv
<1>7. Kept(t)'
  BY <1>1, <1>2 DEF Kept
<1> QED
  BY <1>5, <1>6, <1>7 DEF KeptInv

\* A coroutine that returns waits for nothing.
LEMMA FinishKept ==
    ASSUME NEW s \in Sched, SchedInv, KeptInv, Finish(s)
    PROVE  KeptInv'
<1>1. /\ UNCHANGED <<lpc, ready, batch, sq, flight, cq, op>>
      /\ \A t \in Task : st'[t] = "waiting" => st[t] = "waiting"
  BY DEF Finish, loop, ring, SchedInv, TypeOK
<1>2. NoneReturns /\ BatchTaken'
  BY <1>1 DEF NoneReturns, KeptInv, BatchTaken
<1> QED
  BY <1>1, <1>2, KeptFrame

\* handle_cqe takes the completion of a waiting coroutine only to queue its handle.
LEMMA ReapKept ==
    ASSUME NEW s \in Sched, SchedInv, KeptInv, Reap(s)
    PROVE  KeptInv'
<1> DEFINE c == cq[s][1]
<1>0. /\ cq \in [Sched -> Seq(Cqe)] /\ cq[s] # << >> /\ cq' = [cq EXCEPT ![s] = Tail(@)]
      /\ ready \in [Sched -> Seq(Item)] /\ op \in [Task -> Op] /\ c \in Cqe
      /\ UNCHANGED <<lpc, batch, sq, flight, st>>
  BY ReapShape DEF SchedInv, TypeOK
<1>1. /\ \A x \in ToSet(cq[s]) : x = c \/ x \in ToSet(cq'[s])
      /\ \A v \in Sched : v # s => cq'[v] = cq[v]
  <2>1. \A x \in ToSet(cq[s]) : x = c \/ x \in ToSet(Tail(cq[s]))
    BY <1>0, SetTail
  <2> QED
    BY <1>0, <2>1
<1>2. NoneReturns /\ BatchTaken' /\ \A t \in Task : RequestsStay(t)
  BY <1>0 DEF NoneReturns, KeptInv, BatchTaken, RequestsStay
<1>3. \A t \in Task : st[t] = "waiting" /\ c.task = t /\ c.n = op[t].n => Addressed(c)
  BY DEF Addressed, SchedInv, LiveWaits
<1>4. \A t \in Task : ~ (c.task = t /\ c.n = op[t].n) => CompletionsStay(t)
  BY <1>1 DEF CompletionsStay
<1>5. CASE UNCHANGED <<ready, op>> /\ (Addressed(c) => op[c.task].completed)
  <2>1. ASSUME NEW t \in Task PROVE Kept(t)'
    <3>1. HandlesStay(t)
      BY <1>0, <1>5 DEF HandlesStay
    <3>2. CASE ~ (c.task = t /\ c.n = op[t].n) \/ st[t] # "waiting"
      <4>1. CASE st[t] # "waiting"
        BY <1>0, <4>1 DEF Kept
      <4>2. CASE ~ (c.task = t /\ c.n = op[t].n)
        BY <1>0, <1>2, <1>4, <1>5, <3>1, <4>2, TaskKept DEF KeptInv
      <4> QED
        BY <3>2, <4>1, <4>2
    <3>3. CASE c.task = t /\ c.n = op[t].n /\ st[t] = "waiting"
      <4>1. op[t].completed
        BY <1>3, <1>5, <3>3
      <4>2. Kept(t)
        BY DEF KeptInv
      <4> QED
        BY <1>0, <1>5, <4>1, <4>2 DEF Kept, Handed
    <3> QED
      BY <3>2, <3>3
  <2> QED
    BY <1>2, <2>1 DEF KeptInv
<1>6. ASSUME NEW u \in Task, Completes(s, c, u) PROVE KeptInv'
  <2> DEFINE item == [task |-> u, destroy |-> FALSE]
             at == op[u].at
  <2>0. /\ op[u].live /\ ~ op[u].completed /\ op' = [op EXCEPT ![u] = Ended(u, c)]
        /\ ready' = [ready EXCEPT ![at] = Append(@, item)]
        /\ u = c.task \/ ~ Addressed(c)
    BY <1>6 DEF Completes
  <2>1. at \in Sched /\ item \in Item /\ item.task = u /\ op[u] \in Op
    BY <1>0, <2>0 DEF SchedInv, LiveWaits, Item
  <2>2. /\ op'[u].completed /\ op'[u].at = at /\ \A t \in Task : t # u => op'[t] = op[t]
    <3>1. Ended(u, c).completed /\ Ended(u, c).at = at
      BY <1>0, <2>1, EndedValue
    <3> QED
      BY <1>0, <2>0, <3>1
  <2> HIDE DEF item, at, c
  <2>3. (\A v \in Sched : \A x \in ToSet(ready[v]) : x \in ToSet(ready'[v])) /\ item \in ToSet(ready'[at])
    <3>1. (\A x \in ToSet(ready[at]) : x \in ToSet(Append(ready[at], item))) /\ item \in ToSet(Append(ready[at], item))
      BY <1>0, <2>1, SetAppended
    <3> QED
      BY <1>0, <2>0, <2>1, <3>1
  <2>4. Kept(u)'
    <3>1. Handed(u)'
      BY <2>1, <2>2, <2>3 DEF Handed
    <3> QED
      BY <2>2, <3>1 DEF Kept
  <2>5. ASSUME NEW t \in Task, t # u PROVE Kept(t)'
    <3>1. HandlesStay(t)
      BY <1>0, <2>3 DEF HandlesStay
    <3>2. CASE st[t] # "waiting"
      BY <1>0, <3>2 DEF Kept
    <3>3. CASE st[t] = "waiting"
      <4>1. CompletionsStay(t)
        BY <1>3, <1>4, <2>0, <2>5, <3>3
      <4> QED
        BY <1>0, <1>2, <2>2, <2>5, <3>1, <4>1, TaskKept DEF KeptInv
    <3> QED
      BY <3>2, <3>3
  <2> QED
    BY <1>2, <2>4, <2>5 DEF KeptInv
<1> QED
  BY <1>5, <1>6, ReapShape DEF SchedInv

\* When the process dies, nobody waits on a thread that runs.
LEMMA DieKept ==
    ASSUME SchedInv, KeptInv, Die
    PROVE  KeptInv'
<1>1. UNCHANGED <<batch, st, op>> /\ \A v \in Sched : lpc'[v] = "exited"
  BY DEF Die, coro
<1>2. \A t \in Task : st[t] = "waiting" => op[t].at \in Sched
  BY DEF SchedInv, LiveWaits
<1> QED
  BY <1>1, <1>2 DEF KeptInv, BatchTaken, Kept

\* KeptInv holds initially, and is inductive relative to SchedInv.
LEMMA InitKept == Init => KeptInv
BY DEF Init, KeptInv, BatchTaken, Kept

LEMMA NextKept == SchedInv /\ KeptInv /\ [Next]_svars => KeptInv'
<1> SUFFICES ASSUME SchedInv, KeptInv, [Next]_svars PROVE KeptInv'
  OBVIOUS
<1>1. CASE UNCHANGED svars
  <2>1. UNCHANGED <<lpc, ready, batch, sq, flight, cq, st, op>>
    BY <1>1 DEF svars, loop, ring, coro
  <2>2. NoneReturns /\ BatchTaken'
    BY <2>1 DEF NoneReturns, KeptInv, BatchTaken
  <2> QED
    BY <2>1, <2>2, KeptFrame
<1>2. ASSUME NEW s \in Sched, NEW t \in Task, Post(s, t) \/ Start(s, t) PROVE KeptInv'
  BY <1>2, QuietKept, StartKept
<1>3. ASSUME NEW s \in Sched, Stop(s) \/ LoopStep(s) \/ ReapDangling(s) PROVE KeptInv'
  BY <1>3, QuietKept, DrainKept, SwapKept, ResumeKept, SubmitKept, ReapKept, DieKept DEF LoopStep, ReapDangling
<1>4. ASSUME NEW s \in Sched, TaskStep(s) PROVE KeptInv'
  BY <1>4, TaskStepKinds, AwaitKept, AwaitThrowsKept, FinishKept DEF SchedInv
<1>5. ASSUME NEW s \in Sched, NEW r \in flight[s], NEW res \in {1, 0, EIO}, IoDone(s, r, res)
      PROVE  KeptInv'
  BY <1>5, IoDoneKept DEF EIO
<1>6. ASSUME NEW s \in Sched, TimerStep(s) PROVE KeptInv'
  BY <1>6, TimerKept
<1> QED
  BY <1>1, <1>2, <1>3, <1>4, <1>5, <1>6 DEF Next

\* For any number of schedulers, coroutines and awaits, with and without timeouts, and any ring size: the
\* request of a coroutine that awaits is in the ring of its scheduler until complete is called for it, and from
\* then on its handle is in that scheduler's queue, whatever is submitted late, fails or arrives out of turn.
THEOREM SchedulerForgetsNobody == Spec => []NoneForgotten
<1>1. Init => SchedInv /\ KeptInv
  BY InitSched, InitKept
<1>2. SchedInv /\ KeptInv /\ [Next]_svars => SchedInv' /\ KeptInv'
  BY NextSched, NextKept
<1>3. KeptInv => NoneForgotten
  BY DEF KeptInv, Kept, NoneForgotten
<1> QED
  BY <1>1, <1>2, <1>3, PTL DEF Spec
=============================================================================
