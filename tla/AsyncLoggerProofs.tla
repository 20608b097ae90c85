------------------------- MODULE AsyncLoggerProofs --------------------------
(***************************************************************************)
(* Proofs about AsyncLogger, for any number of threads, lines, attempts    *)
(* and restarts and any queue of at least two slots, on top of the         *)
(* inductive invariant of LogQueue.                                        *)
(***************************************************************************)
EXTENDS AsyncLogger, LogQueueProofs

-----------------------------------------------------------------------------
(* The inductive invariant                                                 *)

\* The type of the logger's own variables.
LogType ==
    /\ running \in BOOLEAN
    /\ mpc \in {"idle", "started", "joining", "stopped"}
    /\ wpc \in {"none", "test", "pop", "drain"}
    /\ wrote \in BOOLEAN
    /\ open \in BOOLEAN
    /\ file \in Seq(Line)
    /\ flushed \in Nat
    /\ direct \in SUBSET Line
    /\ dropped \in SUBSET Line
    /\ quiet \in BOOLEAN

\* The worker exists between start and the end of its final drain, and the sink is open around it.
Phases ==
    /\ open <=> mpc \in {"started", "joining"}
    /\ running <=> mpc = "started"
    /\ mpc \in {"idle", "stopped"} => wpc = "none"
    /\ mpc = "started" => wpc \in {"test", "pop"}

\* What the stream still holds is flushed at the end of the round.
Unflushed == flushed # Len(file) => wrote /\ wpc \in {"pop", "drain"}

\* The only consumer of the queue: it draws the tickets in turn.
HandInv ==
    /\ pc[worker] \in {"popCheck", "popClaim"} => pos[worker] = head
    /\ pc[worker] \in {"take", "free", "popped"} => pos[worker] + 1 = head
    /\ pc[worker] = "popped" => entry[worker] = claimed[head]
    /\ wpc \in {"none", "test"} => pc[worker] \in {"idle", "empty"}

\* How many of the claimed lines the worker has dealt with.
Written == IF pc[worker] \in {"take", "free", "popped"} THEN head - 1 ELSE head

\* p has a line that is neither in the queue nor in the sink.
Trying(p) == pc[p] \in {"pushCheck", "pushClaim", "full"}

Claimed == {claimed[i] : i \in 1..tail}

\* The lines of S were logged before those still tried.
Past(S) ==
    \A p \in Producer : \A n \in 1..MaxLines :
        <<p, n>> \in S => n <= calls[p] /\ (Trying(p) => n < calls[p])

\* Every logged line is in exactly one place: being tried, in the queue's history, written directly or dropped.
LineInv ==
    /\ \A p \in Producer : Trying(p) => entry[p] = <<p, calls[p]>>
    /\ Past(Claimed) /\ Past(direct) /\ Past(dropped)
    /\ \A i, j \in 1..tail : claimed[i] = claimed[j] => i = j
    /\ \A i \in 1..tail : claimed[i] \notin direct
    /\ \A p \in Producer : \A n \in 1..calls[p] :
          <<p, n>> \in Claimed \cup direct \cup dropped \/ (Trying(p) /\ n = calls[p])

\* Line j of the file went through the queue, after all the lines claimed before it.
InTurn(j) ==
    \E k \in 1..Written :
        /\ file[j] = claimed[k]
        /\ \A l \in 1..(k - 1) : \E i \in 1..(j - 1) : file[i] = claimed[l]

\* The file holds the direct lines and those the worker has dealt with, each once.
FileInv ==
    /\ \A line \in direct : InFile(line)
    /\ \A k \in 1..Written : InFile(claimed[k])
    /\ \A j \in 1..Len(file) : file[j] \in direct \/ InTurn(j)
    /\ NoLineTwice

\* A stop that no log call overlaps leaves the queue empty.
StopInv ==
    /\ quiet /\ mpc \in {"joining", "stopped"} => \A p \in Producer : ~ Busy(p)
    /\ quiet /\ wpc = "drain" /\ pc[worker] = "empty" => head = tail
    /\ quiet /\ mpc \in {"joining", "stopped"} /\ wpc = "none" => head = tail

LogInv == IInv /\ LogType /\ Phases /\ Unflushed /\ HandInv /\ LineInv /\ FileInv /\ StopInv

-----------------------------------------------------------------------------
(* The queue under the logger                                              *)

\* The worker is the one consumer.
LEMMA TheWorker ==
    worker \in Consumer /\ Consumer = {worker} /\ worker \notin Producer /\ worker \in Thread
BY OneWorker, ThreadsAreDistinct DEF worker, Thread

\* A producer is not the worker.
LEMMA TheProducers == \A p \in Producer : p # worker /\ p \in Thread /\ p \notin Consumer
BY TheWorker, ThreadsAreDistinct DEF Thread

\* What the calls of log and of worker_loop are to the queue: nothing, a step of it, or a call of push
\* with the line of the call before.
QueueStep ==
    \/ UNCHANGED vars
    \/ EnterPop(worker) \/ PopStep(worker)
    \/ \E p \in Producer : Push(p) \/ PushStep(p) \/ LogRetry(p) \/ DirectWrite(p)

\* Every step of the logger is one of these.
LEMMA LoggerSteps == [LNext]_lvars => QueueStep
BY DEF LNext, lvars, QueueStep, Start, StartFails, Stop, StopJoined, Worker, WorkerTest, WorkerPop,
       WorkerWrite, WorkerFlush, Log, Logging, LogStep

\* log tries again with the same line.
LEMMA RetryQueue ==
    ASSUME IInv, NEW p \in Producer, LogRetry(p)
    PROVE  IInv'
<1>1. entry[p] \in Line
  BY DEF IInv, TypeOK, LogRetry
<1>2. TypeOK'
  BY <1>1, TheProducers DEF IInv, TypeOK, LogRetry, EnterPush, PushPC, PopPC, PushReturned
<1> QED
  BY <1>2, InvPushStart DEF LogRetry

\* log gives up the queue and writes the line itself.
LEMMA DirectQueue ==
    ASSUME IInv, NEW p \in Producer, DirectWrite(p)
    PROVE  IInv'
<1>0. p \in Thread /\ p \notin Consumer /\ pc \in [Thread -> PushPC \cup PopPC]
  BY TheProducers DEF IInv, TypeOK
<1>1. /\ pc[p] = "full" /\ pc'[p] = "idle" /\ \A u \in Thread : u # p => pc'[u] = pc[u]
      /\ UNCHANGED <<tail, head, sequence, payload, pos, entry, calls, claimed>>
  BY <1>0 DEF DirectWrite
<1>2. TypeOK'
  BY <1>0, <1>1 DEF IInv, TypeOK, DirectWrite, PushPC, PopPC, PushReturned
<1>3. ProducerInv(p)'
  BY <1>1 DEF ProducerInv
<1>4. ~ Owner(p) /\ ~ Owner(p)'
  BY <1>1 DEF Owner
<1> QED
  BY <1>0, <1>1, <1>2, <1>3, <1>4, InvLocal

\* The queue keeps its invariant.
LEMMA NextQueue ==
    ASSUME IInv, Capacity > 1, [LNext]_lvars
    PROVE  IInv'
<1>1. QueueStep
  BY LoggerSteps
<1>2. CASE \E p \in Producer : LogRetry(p) \/ DirectWrite(p)
  BY <1>2, RetryQueue, DirectQueue
<1>3. CASE [Next]_vars
  BY <1>3, InvNext
<1> QED
  BY <1>1, <1>2, <1>3, TheWorker DEF QueueStep, Next

\* What IInv says of the numbers and of the lines.
LEMMA QueueFacts ==
    ASSUME IInv
    PROVE  /\ head \in Nat /\ tail \in Nat /\ head <= tail /\ Len(claimed) = tail
           /\ claimed \in Seq(Line) /\ \A i \in 1..tail : claimed[i] \in Line
           /\ pc \in [Thread -> PushPC \cup PopPC] /\ pos \in [Thread -> Nat]
           /\ entry \in [Thread -> Line \cup {NoEntry}] /\ calls \in [Producer -> 0..MaxLines]
           /\ NoEntry \notin Line /\ pc[worker] \in PopPC
           /\ \A p \in Producer : pc[p] \in PushPC /\ (pc[p] # "idle" => entry[p] \in Line)
BY TheWorker, NoEntryIsNoLine DEF IInv, OccupancyBounded, TypeOK, Line

-----------------------------------------------------------------------------
(* The worker                                                              *)

\* A step of log leaves the worker's call of pop alone.
LEMMA LogHand ==
    ASSUME IInv, NEW p \in Producer, Push(p) \/ PushStep(p) \/ LogRetry(p) \/ DirectWrite(p)
    PROVE  /\ pc'[worker] = pc[worker] /\ pos'[worker] = pos[worker] /\ entry'[worker] = entry[worker]
           /\ head' = head
           /\ \A k \in 1..tail : claimed'[k] = claimed[k]
<1>0. p # worker /\ worker \in Thread
  BY TheWorker, TheProducers
<1>1. /\ pc'[worker] = pc[worker] /\ pos'[worker] = pos[worker] /\ entry'[worker] = entry[worker]
      /\ head' = head
  BY <1>0, QueueFacts DEF Push, EnterPush, PushStep, PushCheck, PushClaim, PushLose, PushStore, PushPublish,
                          LogRetry, DirectWrite
<1>2. UNCHANGED claimed \/ PushClaim(p)
  BY DEF Push, EnterPush, PushStep, PushCheck, PushLose, PushStore, PushPublish, LogRetry, DirectWrite
<1>3. \A k \in 1..tail : claimed'[k] = claimed[k]
  <2>1. CASE PushClaim(p)
    <3>1. claimed' = Append(claimed, entry[p]) /\ entry[p] \in Line
      BY <2>1, QueueFacts DEF PushClaim
    <3> QED
      BY <3>1, QueueFacts
  <2> QED
    BY <1>2, <2>1
<1> QED
  BY <1>1, <1>3

\* A step of pop by the only consumer.
LEMMA PopHand ==
    ASSUME IInv, HandInv, PopStep(worker)
    PROVE  /\ UNCHANGED <<tail, calls, claimed>> /\ Written' = Written
           /\ \A p \in Producer : pc'[p] = pc[p] /\ entry'[p] = entry[p]
           /\ pc'[worker] \in {"popCheck", "popClaim"} => pos'[worker] = head'
           /\ pc'[worker] \in {"take", "free", "popped"} => pos'[worker] + 1 = head'
           /\ pc'[worker] = "popped" => entry'[worker] = claimed'[head']
           /\ pc'[worker] = "empty" => PopCheck(worker)
           /\ pc[worker] \notin {"idle", "empty"}
<1>0. /\ worker \in Thread /\ \A p \in Producer : p # worker /\ p \in Thread
  BY TheWorker, TheProducers
<1>1. ConsumerInv(worker)
  BY TheWorker DEF IInv
<1>2. CASE PopCheck(worker)
  <2>1. pc[worker] = "popCheck" /\ pc'[worker] \in {"popCheck", "popClaim", "empty"}
    BY <1>0, <1>2, QueueFacts DEF PopCheck, PopVerdict
  <2> QED
    BY <1>0, <1>2, <2>1, QueueFacts DEF PopCheck, HandInv, Written
<1>3. CASE PopClaim(worker)
  BY <1>0, <1>3, QueueFacts DEF PopClaim, HandInv, Written
<1>4. CASE PopLose(worker)
  BY <1>0, <1>4, QueueFacts DEF PopLose, HandInv, Written
<1>5. CASE PopTake(worker)
  BY <1>0, <1>5, QueueFacts DEF PopTake, HandInv, Written
<1>6. CASE PopFree(worker)
  <2>1. /\ pc[worker] = "free" /\ entry[worker] = claimed[pos[worker] + 1] /\ pos[worker] + 1 = head
        /\ head \in 1..tail
    BY <1>0, <1>1, <1>6, QueueFacts DEF PopFree, HandInv, ConsumerInv
  <2>2. pc'[worker] = "popped"
    BY <1>0, <1>6, <2>1, QueueFacts DEF PopFree
  <2> QED
    BY <1>0, <1>6, <2>1, <2>2, QueueFacts DEF PopFree, Written
<1> QED
  BY <1>2, <1>3, <1>4, <1>5, <1>6 DEF PopStep

\* The worker calls pop.
LEMMA EnterHand ==
    ASSUME IInv, EnterPop(worker)
    PROVE  /\ UNCHANGED <<tail, head, calls, claimed, entry>>
           /\ \A p \in Producer : pc'[p] = pc[p] /\ entry'[p] = entry[p]
           /\ pc'[worker] = "popCheck" /\ pos'[worker] = head
           /\ pc[worker] \in {"idle", "popped", "empty"}
<1>0. /\ worker \in Thread /\ \A p \in Producer : p # worker /\ p \in Thread
  BY TheWorker, TheProducers
<1> QED
  BY <1>0, QueueFacts DEF EnterPop, PopReturned

\* The line the worker is about to write.
LEMMA PoppedLine ==
    ASSUME IInv, HandInv, pc[worker] = "popped"
    PROVE  head \in 1..tail /\ entry[worker] = claimed[head] /\ entry[worker] \in Line /\ Written = head - 1
<1>1. pos[worker] \in Nat /\ pos[worker] + 1 = head /\ entry[worker] = claimed[head]
  BY TheWorker, QueueFacts DEF HandInv
<1> QED
  BY <1>1, QueueFacts DEF Written

-----------------------------------------------------------------------------
(* start, stop and the stream                                              *)

\* What the steps do to the logger's own variables.
LEMMA NextControl ==
    ASSUME IInv, HandInv, LogType, Phases, Unflushed, [LNext]_lvars
    PROVE  LogType' /\ Phases' /\ Unflushed'
<1>1. CASE UNCHANGED lvars
  BY <1>1 DEF lvars, control, sink, LogType, Phases, Unflushed
<1>2. CASE Start \/ StartFails \/ Stop \/ StopJoined
  <2>1. CASE Start
    BY <2>1 DEF Start, LogType, Phases, Unflushed
  <2>2. CASE StartFails
    BY <2>2 DEF StartFails, sink, LogType, Phases, Unflushed
  <2>3. CASE Stop
    <3>1. quiet' \in BOOLEAN
      BY <2>3 DEF Stop
    <3> QED
      BY <2>3, <3>1 DEF Stop, sink, LogType, Phases, Unflushed
  <2>4. CASE StopJoined
    BY <2>4 DEF StopJoined, LogType, Phases, Unflushed
  <2> QED
    BY <1>2, <2>1, <2>2, <2>3, <2>4
<1>3. CASE WorkerTest \/ WorkerPop
  <2>1. CASE WorkerTest
    BY <2>1 DEF WorkerTest, sink, LogType, Phases, Unflushed
  <2>2. CASE WorkerPop
    BY <2>2 DEF WorkerPop, control, sink, LogType, Phases, Unflushed
  <2> QED
    BY <1>3, <2>1, <2>2
<1>4. CASE WorkerWrite
  <2>1. entry[worker] \in Line
    BY <1>4, PoppedLine DEF WorkerWrite
  <2>2. open
    BY <1>4 DEF WorkerWrite, Phases, LogType
  <2>3. file' = Append(file, entry[worker]) /\ wrote' = TRUE
        /\ UNCHANGED <<running, mpc, wpc, open, flushed, direct, dropped, quiet>>
    BY <1>4, <2>2 DEF WorkerWrite, LogType
  <2> QED
    BY <1>4, <2>1, <2>3 DEF WorkerWrite, LogType, Phases, Unflushed
<1>5. CASE WorkerFlush
  BY <1>5 DEF WorkerFlush, LogType, Phases, Unflushed
<1>6. ASSUME NEW p \in Producer, Log(p) \/ LogStep(p) \/ LogRetry(p)
      PROVE  LogType' /\ Phases' /\ Unflushed'
  BY <1>6 DEF Log, LogStep, LogRetry, control, sink, LogType, Phases, Unflushed
<1>7. ASSUME NEW p \in Producer, DirectWrite(p)
      PROVE  LogType' /\ Phases' /\ Unflushed'
  <2>1. entry[p] \in Line
    BY <1>7, QueueFacts DEF DirectWrite
  <2> QED
    BY <1>7, <2>1 DEF DirectWrite, control, LogType, Phases, Unflushed
<1> QED
  BY <1>1, <1>2, <1>3, <1>4, <1>5, <1>6, <1>7 DEF LNext, Worker, Logging

\* The worker draws the tickets in turn.
LEMMA NextHand ==
    ASSUME IInv, HandInv, LogType, Phases, [LNext]_lvars
    PROVE  HandInv'
<1>1. CASE UNCHANGED vars /\ (wpc' = wpc \/ pc[worker] \in {"idle", "empty"})
  BY <1>1 DEF vars, HandInv
<1>2. CASE UNCHANGED lvars \/ Start \/ StartFails \/ Stop \/ StopJoined \/ WorkerFlush
  BY <1>1, <1>2 DEF lvars, control, Start, StartFails, Stop, StopJoined, WorkerFlush, Phases, HandInv
<1>3. CASE WorkerTest \/ WorkerWrite
  <2>1. EnterPop(worker) /\ wpc' \in {"pop", "drain"}
    BY <1>3 DEF WorkerTest, WorkerWrite
  <2> QED
    BY <2>1, EnterHand DEF HandInv
<1>4. CASE WorkerPop
  <2>1. PopStep(worker) /\ wpc' \in {"pop", "drain"}
    BY <1>4 DEF WorkerPop, control
  <2> QED
    BY <2>1, PopHand DEF HandInv
<1>5. ASSUME NEW p \in Producer, Log(p) \/ Logging(p) PROVE HandInv'
  <2>1. (Push(p) \/ PushStep(p) \/ LogRetry(p) \/ DirectWrite(p)) /\ wpc' = wpc
    BY <1>5 DEF Log, Logging, LogStep, LogRetry, DirectWrite, control
  <2>2. /\ pc'[worker] = pc[worker] /\ pos'[worker] = pos[worker] /\ entry'[worker] = entry[worker]
        /\ head' = head /\ \A k \in 1..tail : claimed'[k] = claimed[k]
    BY <2>1, LogHand
  <2>3. pc[worker] = "popped" => claimed'[head] = claimed[head]
    BY <2>2, PoppedLine
  <2> QED
    BY <2>1, <2>2, <2>3 DEF HandInv
<1> QED
  BY <1>2, <1>3, <1>4, <1>5 DEF LNext, Worker

-----------------------------------------------------------------------------
(* Where the lines are                                                     *)

\* A step that starts no call, claims no ticket and ends no attempt.
LEMMA LineFrame ==
    ASSUME LineInv, UNCHANGED <<tail, claimed, calls, direct, dropped>>,
           \A p \in Producer : (Trying(p)' <=> Trying(p)) /\ entry'[p] = entry[p]
    PROVE  LineInv'
<1>1. Claimed' = Claimed
  BY DEF Claimed
<1>2. \A p \in Producer : Trying(p)' => entry'[p] = <<p, calls'[p]>>
  BY DEF LineInv
<1>3. Past(Claimed)' /\ Past(direct)' /\ Past(dropped)'
  BY <1>1 DEF LineInv, Past
<1>4. \A p \in Producer : \A n \in 1..calls'[p] :
          <<p, n>> \in Claimed' \cup direct' \cup dropped' \/ (Trying(p)' /\ n = calls'[p])
  BY <1>1 DEF LineInv
<1> QED
  BY <1>2, <1>3, <1>4 DEF LineInv

\* log is called with a new line.
LEMMA LogLine ==
    ASSUME IInv, LineInv, NEW p \in Producer, ~ Busy(p), Push(p), UNCHANGED <<direct, dropped>>
    PROVE  LineInv'
<1>0. p \in Thread /\ \A q \in Producer : q \in Thread
  BY TheProducers
<1>1. /\ UNCHANGED <<tail, claimed>> /\ pc'[p] = "pushCheck" /\ entry'[p] = <<p, calls[p] + 1>>
      /\ calls'[p] = calls[p] + 1
      /\ \A q \in Producer : q # p => pc'[q] = pc[q] /\ entry'[q] = entry[q] /\ calls'[q] = calls[q]
  BY <1>0, QueueFacts DEF Push, EnterPush, NextLine
<1>2. ~ Trying(p) /\ Trying(p)' /\ \A q \in Producer : q # p => (Trying(q)' <=> Trying(q))
  BY <1>1 DEF Trying, Busy
<1>3. \A q \in Producer : calls[q] \in Nat
  BY QueueFacts
<1>4. Claimed' = Claimed
  BY <1>1 DEF Claimed
<1>5. \A q \in Producer : Trying(q)' => entry'[q] = <<q, calls'[q]>>
  BY <1>1, <1>2 DEF LineInv
<1>6. Past(Claimed)' /\ Past(direct)' /\ Past(dropped)'
  BY <1>1, <1>2, <1>3, <1>4 DEF LineInv, Past
<1>7. ASSUME NEW q \in Producer, NEW n \in 1..calls'[q]
      PROVE  <<q, n>> \in Claimed' \cup direct' \cup dropped' \/ (Trying(q)' /\ n = calls'[q])
  <2>1. n \in 1..calls[q] \/ (q = p /\ n = calls'[p])
    BY <1>1, <1>3
  <2> QED
    BY <1>1, <1>2, <1>4, <2>1 DEF LineInv
<1> QED
  BY <1>1, <1>5, <1>6, <1>7 DEF LineInv

\* A push wins its ticket: the line is claimed.
LEMMA ClaimLine ==
    ASSUME IInv, LineInv, NEW p \in Producer, PushClaim(p), UNCHANGED <<direct, dropped>>
    PROVE  LineInv'
<1>0. p \in Thread /\ \A q \in Producer : q \in Thread
  BY TheProducers
<1>1. /\ tail' = tail + 1 /\ claimed' = Append(claimed, entry[p]) /\ entry[p] \in Line
      /\ pc[p] = "pushClaim" /\ pc'[p] = "store" /\ UNCHANGED <<calls, entry>>
      /\ \A q \in Producer : q # p => pc'[q] = pc[q]
  BY <1>0, QueueFacts DEF PushClaim
<1>2. Trying(p) /\ ~ Trying(p)' /\ \A q \in Producer : q # p => (Trying(q)' <=> Trying(q))
  BY <1>1 DEF Trying
<1>3. entry[p] = <<p, calls[p]>> /\ calls[p] \in 1..MaxLines
  <2>1. entry[p] = <<p, calls[p]>>
    BY <1>2 DEF LineInv
  <2> QED
    BY <1>1, <2>1 DEF Line
<1>4. /\ \A i \in 1..tail : claimed'[i] = claimed[i]
      /\ claimed'[tail + 1] = entry[p] /\ tail \in Nat
  BY <1>1, QueueFacts
<1>5. /\ \A x \in Claimed' : x \in Claimed \/ x = entry[p]
      /\ Claimed \subseteq Claimed' /\ entry[p] \in Claimed'
  <2>1. Claimed' = {claimed'[i] : i \in 1..(tail + 1)}
    BY <1>1 DEF Claimed
  <2>2. \A i \in 1..(tail + 1) : i \in 1..tail \/ i = tail + 1
    BY <1>4
  <2>3. (\A i \in 1..tail : i \in 1..(tail + 1)) /\ tail + 1 \in 1..(tail + 1)
    BY <1>4
  <2> QED
    BY <1>4, <2>1, <2>2, <2>3 DEF Claimed
<1>6. entry[p] \notin Claimed /\ entry[p] \notin direct
  BY <1>2, <1>3 DEF LineInv, Past
<1>7. \A q \in Producer : Trying(q)' => entry'[q] = <<q, calls'[q]>>
  BY <1>1, <1>2 DEF LineInv
<1>8. Past(direct)' /\ Past(dropped)'
  BY <1>1, <1>2 DEF LineInv, Past
<1>9. Past(Claimed)'
  <2> SUFFICES ASSUME NEW q \in Producer, NEW n \in 1..MaxLines, <<q, n>> \in Claimed'
               PROVE  n <= calls[q] /\ (Trying(q)' => n < calls[q])
    BY <1>1 DEF Past
  <2>1. CASE <<q, n>> \in Claimed
    BY <1>2, <2>1 DEF LineInv, Past
  <2>2. CASE q = p /\ n = calls[p]
    BY <1>2, <1>3, <2>2
  <2> QED
    BY <1>3, <1>5, <2>1, <2>2
<1>10. \A i, j \in 1..tail' : claimed'[i] = claimed'[j] => i = j
  <2> SUFFICES ASSUME NEW i \in 1..(tail + 1), NEW j \in 1..(tail + 1), claimed'[i] = claimed'[j]
               PROVE  i = j
    BY <1>1
  <2>1. \A k \in 1..tail : claimed'[k] # entry[p]
    BY <1>4, <1>6 DEF Claimed
  <2>2. CASE i \in 1..tail /\ j \in 1..tail
    BY <1>4, <2>2 DEF LineInv
  <2> QED
    BY <1>4, <2>1, <2>2
<1>11. \A i \in 1..tail' : claimed'[i] \notin direct'
  <2>1. \A i \in 1..tail' : i \in 1..tail \/ i = tail + 1
    BY <1>1, <1>4
  <2> QED
    BY <1>4, <1>6, <2>1 DEF LineInv
<1>12. \A q \in Producer : \A n \in 1..calls'[q] :
          <<q, n>> \in Claimed' \cup direct' \cup dropped' \/ (Trying(q)' /\ n = calls'[q])
  BY <1>1, <1>2, <1>3, <1>5 DEF LineInv
<1> QED
  BY <1>7, <1>8, <1>9, <1>10, <1>11, <1>12 DEF LineInv

\* A line is written directly, or dropped.
LEMMA DirectLine ==
    ASSUME IInv, LineInv, LogType, NEW p \in Producer, DirectWrite(p)
    PROVE  LineInv'
<1>0. p \in Thread /\ \A q \in Producer : q \in Thread
  BY TheProducers
<1>1. /\ UNCHANGED <<tail, claimed, calls, entry>> /\ pc[p] = "full" /\ pc'[p] = "idle" /\ entry[p] \in Line
      /\ \A q \in Producer : q # p => pc'[q] = pc[q]
      /\ \/ direct' = direct \cup {entry[p]} /\ dropped' = dropped
         \/ direct' = direct /\ dropped' = dropped \cup {entry[p]}
  BY <1>0, QueueFacts DEF DirectWrite
<1>2. Trying(p) /\ ~ Trying(p)' /\ \A q \in Producer : q # p => (Trying(q)' <=> Trying(q))
  BY <1>1 DEF Trying
<1>3. entry[p] = <<p, calls[p]>> /\ calls[p] \in 1..MaxLines
  <2>1. entry[p] = <<p, calls[p]>>
    BY <1>2 DEF LineInv
  <2> QED
    BY <1>1, <2>1 DEF Line
<1>4. Claimed' = Claimed
  BY <1>1 DEF Claimed
<1>5. \A i \in 1..tail : claimed[i] # entry[p]
  <2>1. entry[p] \notin Claimed
    BY <1>2, <1>3 DEF LineInv, Past
  <2> QED
    BY <2>1 DEF Claimed
<1>6. \A q \in Producer : Trying(q)' => entry'[q] = <<q, calls'[q]>>
  BY <1>1, <1>2 DEF LineInv
<1>7. ASSUME NEW S, Past(S)
      PROVE  \A q \in Producer : \A n \in 1..MaxLines :
                <<q, n>> \in S \cup {entry[p]} => n <= calls[q] /\ (Trying(q)' => n < calls[q])
  BY <1>2, <1>3, <1>7 DEF Past
<1>8. Past(Claimed)' /\ Past(direct)' /\ Past(dropped)'
  <2>1. Past(Claimed) /\ Past(direct) /\ Past(dropped)
    BY DEF LineInv
  <2>2. Past(Claimed)'
    BY <1>1, <1>4, <1>7, <2>1 DEF Past
  <2>3. Past(direct)'
    BY <1>1, <1>7, <2>1 DEF Past
  <2>4. Past(dropped)'
    BY <1>1, <1>7, <2>1 DEF Past
  <2> QED
    BY <2>2, <2>3, <2>4
<1>9. \A i \in 1..tail' : claimed'[i] \notin direct'
  BY <1>1, <1>5 DEF LineInv
<1>10. \A q \in Producer : \A n \in 1..calls'[q] :
          <<q, n>> \in Claimed' \cup direct' \cup dropped' \/ (Trying(q)' /\ n = calls'[q])
  BY <1>1, <1>2, <1>3, <1>4 DEF LineInv
<1>11. \A i, j \in 1..tail' : claimed'[i] = claimed'[j] => i = j
  BY <1>1 DEF LineInv
<1> QED
  BY <1>6, <1>8, <1>9, <1>10, <1>11 DEF LineInv

\* Every line stays in one place.
LEMMA NextLineInv ==
    ASSUME IInv, HandInv, LineInv, LogType, [LNext]_lvars
    PROVE  LineInv'
<1>1. CASE UNCHANGED lvars \/ Start \/ StartFails \/ Stop \/ StopJoined \/ WorkerFlush
  <2>1. UNCHANGED vars /\ UNCHANGED <<direct, dropped>>
    BY <1>1 DEF lvars, sink, Start, StartFails, Stop, StopJoined, WorkerFlush
  <2> QED
    BY <2>1, LineFrame DEF vars, Trying
<1>2. CASE WorkerTest \/ WorkerWrite
  <2>1. EnterPop(worker) /\ UNCHANGED <<direct, dropped>>
    BY <1>2 DEF WorkerTest, WorkerWrite, sink
  <2> QED
    BY <2>1, EnterHand, LineFrame DEF Trying
<1>3. CASE WorkerPop
  <2>1. PopStep(worker) /\ UNCHANGED <<direct, dropped>>
    BY <1>3 DEF WorkerPop, sink
  <2> QED
    BY <2>1, PopHand, LineFrame DEF Trying
<1>4. ASSUME NEW p \in Producer, Log(p) PROVE LineInv'
  BY <1>4, LogLine DEF Log, sink
<1>5. ASSUME NEW p \in Producer, LogStep(p) \/ LogRetry(p) PROVE LineInv'
  <2>0. p \in Thread /\ \A q \in Producer : q \in Thread
    BY TheProducers
  <2>1. UNCHANGED <<direct, dropped>> /\ (PushStep(p) \/ LogRetry(p))
    BY <1>5 DEF LogStep, LogRetry, sink
  <2>2. CASE PushClaim(p)
    BY <2>1, <2>2, ClaimLine
  <2>3. CASE PushCheck(p) \/ PushLose(p) \/ PushStore(p) \/ PushPublish(p) \/ LogRetry(p)
    <3>1. /\ UNCHANGED <<tail, claimed, calls>> /\ \A q \in Producer : entry'[q] = entry[q]
          /\ \A q \in Producer : q # p => pc'[q] = pc[q]
      BY <2>0, <2>3, QueueFacts DEF PushCheck, PushLose, PushStore, PushPublish, LogRetry, EnterPush
    <3>2. \/ pc[p] \in {"pushCheck", "pushClaim", "full"} /\ pc'[p] \in {"pushCheck", "pushClaim", "full"}
          \/ pc[p] \in {"store", "publish"} /\ pc'[p] \in {"publish", "pushed"}
      BY <2>0, <2>3, QueueFacts DEF PushCheck, PushVerdict, PushLose, PushStore, PushPublish, LogRetry, EnterPush
    <3> QED
      BY <2>1, <3>1, <3>2, LineFrame DEF Trying
  <2> QED
    BY <2>1, <2>2, <2>3 DEF PushStep
<1>6. ASSUME NEW p \in Producer, DirectWrite(p) PROVE LineInv'
  BY <1>6, DirectLine
<1> QED
  BY <1>1, <1>2, <1>3, <1>4, <1>5, <1>6 DEF LNext, Worker, Logging

-----------------------------------------------------------------------------
(* What is in the file                                                     *)

\* A step that writes nothing and finishes no pop.
LEMMA FileFrame ==
    ASSUME IInv, FileInv, Written \in 0..tail, UNCHANGED <<file, direct>>, Written' = Written,
           \A k \in 1..tail : claimed'[k] = claimed[k]
    PROVE  FileInv'
<1>0. \A k \in 1..Written : k \in 1..tail
  BY QueueFacts
<1>1. \A line : InFile(line)' <=> InFile(line)
  BY DEF InFile
<1>2. \A line \in direct' : InFile(line)'
  BY <1>1 DEF FileInv
<1>3. \A k \in 1..Written' : InFile(claimed[k])'
  BY <1>0, <1>1 DEF FileInv
<1>4. ASSUME NEW j \in 1..Len(file), InTurn(j) PROVE InTurn(j)'
  <2>1. PICK k \in 1..Written : /\ file[j] = claimed[k]
                                /\ \A l \in 1..(k - 1) : \E i \in 1..(j - 1) : file[i] = claimed[l]
    BY <1>4 DEF InTurn
  <2>2. k \in 1..tail /\ \A l \in 1..(k - 1) : l \in 1..tail
    BY <1>0, <2>1, QueueFacts
  <2> QED
    BY <2>1, <2>2 DEF InTurn
<1>5. \A j \in 1..Len(file') : file'[j] \in direct' \/ InTurn(j)'
  BY <1>4 DEF FileInv
<1>6. NoLineTwice'
  BY DEF FileInv, NoLineTwice
<1> QED
  BY <1>2, <1>3, <1>5, <1>6 DEF FileInv

\* How many lines the worker has dealt with.
LEMMA WrittenBounds ==
    ASSUME IInv, HandInv
    PROVE  Written \in 0..tail
BY TheWorker, QueueFacts DEF HandInv, Written

\* A line that is not in the file is appended to it.
LEMMA FileAppended ==
    ASSUME FileInv, LogType, NEW x \in Line, ~ InFile(x), file' = Append(file, x)
    PROVE  /\ Len(file') = Len(file) + 1 /\ Len(file) \in Nat /\ file'[Len(file) + 1] = x
           /\ \A i \in 1..Len(file) : file'[i] = file[i]
           /\ \A line : InFile(line)' <=> InFile(line) \/ line = x
           /\ NoLineTwice'
<1>1. /\ Len(file') = Len(file) + 1 /\ Len(file) \in Nat /\ file'[Len(file) + 1] = x
      /\ \A i \in 1..Len(file) : file'[i] = file[i]
  BY DEF LogType
<1>2. \A i \in 1..Len(file') : i \in 1..Len(file) \/ i = Len(file) + 1
  BY <1>1
<1>3. \A i \in 1..Len(file) : i \in 1..Len(file')
  BY <1>1
<1>4. Len(file) + 1 \in 1..Len(file')
  BY <1>1
<1>5. \A line : InFile(line)' <=> InFile(line) \/ line = x
  BY <1>1, <1>2, <1>3, <1>4 DEF InFile
<1>6. \A i \in 1..Len(file) : file'[i] # x
  BY <1>1 DEF InFile
<1>7. NoLineTwice'
  BY <1>1, <1>2, <1>6 DEF FileInv, NoLineTwice
<1> QED
  BY <1>1, <1>5, <1>7

\* A line that is in the file by now was, or is the one appended.
LEMMA FileGrows ==
    ASSUME NEW x \in Line, file \in Seq(Line), file' = Append(file, x), NEW j \in 1..Len(file), InTurn(j),
           Written \in 0..tail, tail \in Nat, Written' \in {Written, Written + 1}, claimed' = claimed
    PROVE  InTurn(j)'
<1>0. j \in Nat /\ Len(file) \in Nat /\ \A i \in 1..Len(file) : file'[i] = file[i]
  OBVIOUS
<1>1. PICK k \in 1..Written : /\ file[j] = claimed[k]
                              /\ \A l \in 1..(k - 1) : \E i \in 1..(j - 1) : file[i] = claimed[l]
  BY DEF InTurn
<1>2. k \in 1..Written'
  BY <1>1
<1>3. ASSUME NEW l \in 1..(k - 1) PROVE \E i \in 1..(j - 1) : file'[i] = claimed'[l]
  <2>1. PICK i \in 1..(j - 1) : file[i] = claimed[l]
    BY <1>1
  <2>2. i \in 1..Len(file)
    BY <1>0
  <2> QED
    BY <1>0, <2>1, <2>2
<1> QED
  BY <1>0, <1>1, <1>2, <1>3 DEF InTurn

\* The worker writes what it popped: the first claimed line that is not in the file.
LEMMA WriteFile ==
    ASSUME IInv, HandInv, LineInv, FileInv, LogType, Phases, WorkerWrite
    PROVE  FileInv'
<1>0. pc[worker] = "popped" /\ EnterPop(worker) /\ open /\ direct' = direct
      /\ file' = Append(file, entry[worker])
  BY DEF WorkerWrite, Phases, LogType
<1>1. head \in 1..tail /\ entry[worker] = claimed[head] /\ entry[worker] \in Line /\ Written = head - 1
  BY <1>0, PoppedLine
<1>2. UNCHANGED <<tail, head, claimed>> /\ Written' = head
  BY <1>0, EnterHand DEF Written
<1>3. ~ InFile(claimed[head])
  <2> SUFFICES ASSUME NEW j \in 1..Len(file), file[j] = claimed[head] PROVE FALSE
    BY DEF InFile
  <2>1. CASE file[j] \in direct
    BY <1>1, <2>1 DEF LineInv
  <2>2. CASE InTurn(j)
    <3>1. PICK k \in 1..Written : file[j] = claimed[k]
      BY <2>2 DEF InTurn
    <3>2. k \in 1..tail /\ k # head
      BY <1>1, QueueFacts
    <3> QED
      BY <1>1, <3>1, <3>2 DEF LineInv
  <2> QED
    BY <2>1, <2>2 DEF FileInv
<1>4. PICK x \in Line : x = claimed[head]
  BY <1>1
<1>5. /\ Len(file') = Len(file) + 1 /\ Len(file) \in Nat /\ file'[Len(file) + 1] = x
      /\ \A i \in 1..Len(file) : file'[i] = file[i]
      /\ \A line : InFile(line)' <=> InFile(line) \/ line = x
      /\ NoLineTwice'
  BY <1>0, <1>1, <1>3, <1>4, FileAppended
<1>6. \A line \in direct' : InFile(line)'
  BY <1>0, <1>5 DEF FileInv
<1>7. \A k \in 1..Written' : InFile(claimed[k])'
  <2>1. \A k \in 1..Written' : k \in 1..Written \/ k = head
    BY <1>1, <1>2, QueueFacts
  <2> QED
    BY <1>2, <1>4, <1>5, <2>1 DEF FileInv
<1>8. PICK n \in Nat : n = Len(file) + 1
  BY <1>5
<1>9. InTurn(n)'
  <2>1. ASSUME NEW l \in 1..(head - 1) PROVE \E i \in 1..(n - 1) : file'[i] = claimed'[l]
    <3>1. InFile(claimed[l])
      BY <1>1 DEF FileInv
    <3>2. n - 1 = Len(file)
      BY <1>5, <1>8
    <3> QED
      BY <1>2, <1>5, <3>1, <3>2 DEF InFile
  <2>2. head \in 1..Written'
    BY <1>1, <1>2, QueueFacts
  <2>3. file'[n] = claimed'[head]
    BY <1>2, <1>4, <1>5, <1>8
  <2> QED
    BY <2>1, <2>2, <2>3 DEF InTurn
<1>10. ASSUME NEW j \in 1..Len(file'), j \notin 1..Len(file) PROVE j = n
  BY <1>5, <1>8, <1>10
<1>11. ASSUME NEW j \in 1..Len(file), InTurn(j) PROVE InTurn(j)'
  <2>1. Written \in 0..tail /\ tail \in Nat /\ Written' = Written + 1
    BY <1>1, <1>2, QueueFacts
  <2>2. file \in Seq(Line) /\ file' = Append(file, x)
    BY <1>0, <1>1, <1>4 DEF LogType
  <2> QED
    BY <1>2, <1>11, <2>1, <2>2, FileGrows
<1>12. \A j \in 1..Len(file') : file'[j] \in direct' \/ InTurn(j)'
  BY <1>0, <1>5, <1>9, <1>10, <1>11 DEF FileInv
<1> QED
  BY <1>5, <1>6, <1>7, <1>12 DEF FileInv

\* log writes a line that never entered the queue.
LEMMA DirectFile ==
    ASSUME IInv, HandInv, LineInv, FileInv, LogType, NEW p \in Producer, DirectWrite(p)
    PROVE  FileInv'
<1>0. UNCHANGED <<tail, head, claimed>> /\ Written' = Written /\ Written \in 0..tail /\ tail \in Nat
  <2>1. UNCHANGED <<tail, head, claimed>>
    BY DEF DirectWrite
  <2>2. pc'[worker] = pc[worker]
    BY LogHand
  <2> QED
    BY <2>1, <2>2, WrittenBounds, QueueFacts DEF Written
<1>1. CASE ~ open
  BY <1>0, <1>1, FileFrame DEF DirectWrite
<1>2. CASE open
  <2>1. PICK x \in Line : x = entry[p]
    BY QueueFacts DEF DirectWrite
  <2>2. file' = Append(file, x) /\ direct' = direct \cup {x}
    BY <1>2, <2>1 DEF DirectWrite
  <2>3. x \notin direct /\ \A k \in 1..tail : claimed[k] # x
    <3>1. Trying(p)
      BY DEF Trying, DirectWrite
    <3>2. x = <<p, calls[p]>> /\ calls[p] \in 1..MaxLines
      BY <2>1, <3>1 DEF LineInv, Line
    <3>3. x \notin direct /\ x \notin Claimed
      BY <3>1, <3>2 DEF LineInv, Past
    <3> QED
      BY <3>3 DEF Claimed
  <2>4. ~ InFile(x)
    <3> SUFFICES ASSUME NEW j \in 1..Len(file), file[j] = x PROVE FALSE
      BY DEF InFile
    <3>1. CASE InTurn(j)
      <4>1. PICK k \in 1..Written : file[j] = claimed[k]
        BY <3>1 DEF InTurn
      <4>2. k \in 1..tail
        BY <1>0
      <4> QED
        BY <2>3, <4>1, <4>2
    <3> QED
      BY <2>3, <3>1 DEF FileInv
  <2>5. /\ Len(file') = Len(file) + 1 /\ Len(file) \in Nat /\ file'[Len(file) + 1] = x
        /\ \A i \in 1..Len(file) : file'[i] = file[i]
        /\ \A line : InFile(line)' <=> InFile(line) \/ line = x
        /\ NoLineTwice'
    BY <2>2, <2>4, FileAppended
  <2>6. \A line \in direct' : InFile(line)'
    BY <2>2, <2>5 DEF FileInv
  <2>7. \A k \in 1..Written' : InFile(claimed[k])'
    BY <1>0, <2>5 DEF FileInv
  <2>8. ASSUME NEW j \in 1..Len(file'), j \notin 1..Len(file) PROVE j = Len(file) + 1
    BY <2>5, <2>8
  <2>9. ASSUME NEW j \in 1..Len(file), InTurn(j) PROVE InTurn(j)'
    <3>1. file \in Seq(Line)
      BY DEF LogType
    <3> QED
      BY <1>0, <2>2, <2>9, <3>1, FileGrows
  <2>10. \A j \in 1..Len(file') : file'[j] \in direct' \/ InTurn(j)'
    BY <2>2, <2>5, <2>8, <2>9 DEF FileInv
  <2> QED
    BY <2>5, <2>6, <2>7, <2>10 DEF FileInv
<1> QED
  BY <1>1, <1>2

\* The file keeps what it should hold.
LEMMA NextFile ==
    ASSUME IInv, HandInv, LineInv, FileInv, LogType, Phases, [LNext]_lvars
    PROVE  FileInv'
<1>0. Written \in 0..tail
  BY WrittenBounds
<1>1. CASE UNCHANGED lvars \/ Start \/ StartFails \/ Stop \/ StopJoined \/ WorkerFlush
  <2>1. UNCHANGED vars /\ UNCHANGED <<file, direct>>
    BY <1>1 DEF lvars, sink, Start, StartFails, Stop, StopJoined, WorkerFlush
  <2> QED
    BY <1>0, <2>1, FileFrame DEF vars, Written
<1>2. CASE WorkerTest
  <2>1. EnterPop(worker) /\ UNCHANGED <<file, direct>> /\ pc[worker] \in {"idle", "empty"}
    BY <1>2 DEF WorkerTest, sink, HandInv
  <2>2. UNCHANGED claimed /\ Written' = Written
    BY <2>1, EnterHand DEF Written
  <2> QED
    BY <1>0, <2>1, <2>2, FileFrame
<1>3. CASE WorkerPop
  <2>1. PopStep(worker) /\ UNCHANGED <<file, direct>>
    BY <1>3 DEF WorkerPop, sink
  <2> QED
    BY <1>0, <2>1, PopHand, FileFrame
<1>4. CASE WorkerWrite
  BY <1>4, WriteFile
<1>5. ASSUME NEW p \in Producer, Log(p) \/ LogStep(p) \/ LogRetry(p) PROVE FileInv'
  <2>1. (Push(p) \/ PushStep(p) \/ LogRetry(p)) /\ UNCHANGED <<file, direct>>
    BY <1>5 DEF Log, LogStep, LogRetry, sink
  <2>2. Written' = Written /\ \A k \in 1..tail : claimed'[k] = claimed[k]
    BY <2>1, LogHand DEF Written
  <2> QED
    BY <1>0, <2>1, <2>2, FileFrame
<1>6. ASSUME NEW p \in Producer, DirectWrite(p) PROVE FileInv'
  BY <1>6, DirectFile
<1> QED
  BY <1>1, <1>2, <1>3, <1>4, <1>5, <1>6 DEF LNext, Worker, Logging

-----------------------------------------------------------------------------
(* The final drain                                                         *)

\* With no call of push in progress, pop returns false only if the queue is empty.
LEMMA EmptyIsEmpty ==
    ASSUME IInv, HandInv, \A p \in Producer : ~ Busy(p), PopCheck(worker), pc'[worker] = "empty"
    PROVE  head = tail
<1>0. pos[worker] = head /\ worker \in Thread
  BY TheWorker DEF PopCheck, HandInv
<1>1. sequence[Slot(head)] # head + 1
  <2>1. PopVerdict(sequence[Slot(head)], head) = "empty"
    BY <1>0, QueueFacts DEF PopCheck
  <2> QED
    BY <2>1 DEF PopVerdict, PublishedSequence
<1>2. \A p \in Producer : ~ Pushing(p, head)
  BY DEF Busy, Pushing
<1>3. ~ Occupied(head)
  BY <1>1, <1>2 DEF Occupied
<1>4. head \notin head..(tail - 1)
  BY <1>3 DEF IInv
<1> QED
  BY <1>4, QueueFacts

\* A stop without log calls leaves an empty queue.
LEMMA NextStop ==
    ASSUME IInv, HandInv, LogType, Phases, StopInv, [LNext]_lvars
    PROVE  StopInv'
<1>1. CASE UNCHANGED lvars
  BY <1>1 DEF lvars, vars, control, StopInv, Busy
<1>2. CASE Start
  BY <1>2 DEF Start, StopInv
<1>3. CASE StartFails
  BY <1>3 DEF StartFails, vars, StopInv, Busy
<1>4. CASE Stop
  BY <1>4 DEF Stop, vars, Phases, StopInv, Busy
<1>5. CASE StopJoined
  BY <1>5 DEF StopJoined, vars, StopInv, Busy
<1>6. CASE WorkerTest \/ WorkerWrite
  <2>1. EnterPop(worker) /\ wpc' \in {"pop", "drain"} /\ UNCHANGED <<mpc, quiet>>
    BY <1>6 DEF WorkerTest, WorkerWrite
  <2>2. pc'[worker] = "popCheck" /\ \A p \in Producer : pc'[p] = pc[p]
    BY <2>1, EnterHand
  <2> QED
    BY <2>1, <2>2 DEF StopInv, Busy
<1>7. CASE WorkerPop
  <2>1. PopStep(worker) /\ wpc \in {"pop", "drain"} /\ UNCHANGED <<mpc, wpc, quiet>>
    BY <1>7 DEF WorkerPop, control
  <2>2. (\A p \in Producer : pc'[p] = pc[p]) /\ (pc'[worker] = "empty" => PopCheck(worker))
    BY <2>1, PopHand
  <2>3. ASSUME quiet, wpc = "drain", pc'[worker] = "empty" PROVE head' = tail'
    <3>1. \A p \in Producer : ~ Busy(p)
      BY <2>3 DEF StopInv, Phases, LogType
    <3>2. PopCheck(worker)
      BY <2>2, <2>3
    <3>3. UNCHANGED <<head, tail>>
      BY <3>2 DEF PopCheck
    <3> QED
      BY <2>3, <3>1, <3>2, <3>3, EmptyIsEmpty
  <2> QED
    BY <2>1, <2>2, <2>3 DEF StopInv, Busy
<1>8. CASE WorkerFlush
  <2>1. /\ UNCHANGED vars /\ UNCHANGED <<mpc, quiet>> /\ pc[worker] = "empty"
        /\ wpc' \in {"none", "test"} /\ (wpc' = "none" => wpc = "drain")
    BY <1>8 DEF WorkerFlush
  <2> QED
    BY <2>1 DEF vars, StopInv, Busy
<1>9. ASSUME NEW p \in Producer, Log(p) PROVE StopInv'
  <2>1. UNCHANGED <<mpc, wpc>> /\ ~ (quiet' /\ mpc \in {"joining", "stopped"})
    BY <1>9 DEF Log, control
  <2>2. wpc = "drain" => mpc \in {"joining", "stopped"}
    BY DEF Phases, LogType
  <2> QED
    BY <2>1, <2>2 DEF StopInv
<1>10. ASSUME NEW p \in Producer, Logging(p) PROVE StopInv'
  <2>1. Busy(p) /\ UNCHANGED <<mpc, wpc, quiet>>
    BY <1>10 DEF Logging, LogStep, PushStep, PushCheck, PushClaim, PushLose, PushStore, PushPublish,
                 LogRetry, DirectWrite, control, Busy
  <2>2. ~ (quiet /\ mpc \in {"joining", "stopped"})
    BY <2>1 DEF StopInv
  <2> QED
    BY <2>1, <2>2 DEF Phases, LogType, StopInv
<1> QED
  BY <1>1, <1>2, <1>3, <1>4, <1>5, <1>6, <1>7, <1>8, <1>9, <1>10 DEF LNext, Worker

-----------------------------------------------------------------------------
(* The theorems                                                            *)

\* LogInv holds before start is called.
LEMMA InitLog == LInit => LogInv
<1> SUFFICES ASSUME LInit PROVE LogInv
  OBVIOUS
<1>0. Init /\ file = << >> /\ Len(file) = 0 /\ tail = 0 /\ head = 0
  BY DEF LInit, Init
<1>1. IInv
  BY <1>0, InvInit
<1>2. LogType
  <2>1. << >> \in Seq(Line)
    OBVIOUS
  <2> QED
    BY <2>1 DEF LInit, LogType
<1>3. Phases /\ Unflushed
  BY <1>0 DEF LInit, Phases, Unflushed
<1>4. pc[worker] = "idle" /\ \A p \in Producer : pc[p] = "idle" /\ calls[p] = 0
  BY <1>0, TheWorker, TheProducers DEF Init
<1>5. HandInv /\ Written = 0
  BY <1>0, <1>4 DEF LInit, HandInv, Written
<1>6. LineInv
  <2>1. direct = {} /\ dropped = {} /\ Claimed = {}
    BY <1>0 DEF LInit, Claimed
  <2> QED
    BY <1>0, <1>4, <2>1 DEF LineInv, Past, Trying
<1>7. FileInv
  BY <1>0, <1>5 DEF LInit, FileInv, NoLineTwice
<1>8. StopInv
  BY <1>0, <1>4 DEF LInit, StopInv
<1> QED
  BY <1>1, <1>2, <1>3, <1>5, <1>6, <1>7, <1>8 DEF LogInv

\* LogInv is inductive.
LEMMA NextLog ==
    ASSUME Capacity > 1
    PROVE  LogInv /\ [LNext]_lvars => LogInv'
BY NextQueue, NextControl, NextHand, NextLineInv, NextFile, NextStop DEF LogInv

\* LogInv holds of every reachable state.
LEMMA LoggerInvariance ==
    ASSUME Capacity > 1
    PROVE  LSpec => []LogInv
<1>1. LInit => LogInv
  BY InitLog
<1>2. LogInv /\ [LNext]_lvars => LogInv'
  BY NextLog
<1> QED
  BY <1>1, <1>2, PTL DEF LSpec

\* For any number of threads and lines, any number of attempts and restarts, and any queue of at least two
\* slots: a line reaches the file at most once, whether log pushed it, pushed it after refusals or gave up and
\* called direct_write, and whichever round or final drain of worker_loop popped it.
THEOREM LoggerWritesOnce ==
    ASSUME Capacity > 1
    PROVE  LSpec => []NoLineTwice
<1>1. LogInv => NoLineTwice
  BY DEF LogInv, FileInv
<1> QED
  BY <1>1, LoggerInvariance, PTL

\* Likewise the lines that worker_loop writes are those of the queue in the order in which their pushes won
\* tail_, with none left out, although direct_write writes others between them.
THEOREM LoggerKeepsOrder ==
    ASSUME Capacity > 1
    PROVE  LSpec => []QueuedLinesInOrder
<1>1. LogInv => QueuedLinesInOrder
  <2> SUFFICES ASSUME LogInv, NEW j \in 1..Len(file), file[j] \notin direct
               PROVE  \E k \in 1..tail :
                         /\ file[j] = claimed[k]
                         /\ \A l \in 1..(k - 1) : \E i \in 1..(j - 1) : file[i] = claimed[l]
    BY DEF QueuedLinesInOrder
  <2>1. InTurn(j) /\ Written \in 0..tail /\ tail \in Nat
    BY WrittenBounds, QueueFacts DEF LogInv, FileInv
  <2>2. \A k \in 1..Written : k \in 1..tail
    BY <2>1
  <2> QED
    BY <2>1, <2>2 DEF InTurn
<1> QED
  BY <1>1, LoggerInvariance, PTL

\* Likewise, once stop has returned and no log call overlapped or followed it, every line that was ever logged
\* is in the file and has left the stream's buffer, but for those direct_write dropped without an open sink:
\* the final drain of worker_loop empties the queue.
THEOREM LoggerStopsClean ==
    ASSUME Capacity > 1
    PROVE  LSpec => []StopLosesNothing
<1>1. LogInv => StopLosesNothing
  <2> SUFFICES ASSUME LogInv, mpc = "stopped", quiet
               PROVE  flushed = Len(file) /\ \A line \in Logged : InFile(line) \/ line \in dropped
    BY DEF StopLosesNothing
  <2>1. wpc = "none" /\ flushed = Len(file)
    BY DEF LogInv, Phases, Unflushed
  <2>2. head = tail /\ \A p \in Producer : ~ Busy(p)
    BY <2>1 DEF LogInv, StopInv
  <2>3. Written = tail
    BY <2>1, <2>2 DEF LogInv, HandInv, Written
  <2>4. ASSUME NEW line \in Logged PROVE InFile(line) \/ line \in dropped
    <3>1. PICK p \in Producer, n \in 1..MaxLines : line = <<p, n>> /\ n <= calls[p]
      BY DEF Logged, Line
    <3>2. ~ Trying(p) /\ n \in 1..calls[p]
      <4>1. ~ Trying(p)
        BY <2>2 DEF Trying, Busy
      <4>2. calls[p] \in Nat
        BY QueueFacts DEF LogInv
      <4> QED
        BY <3>1, <4>1, <4>2
    <3>3. line \in Claimed \cup direct \cup dropped
      BY <3>1, <3>2 DEF LogInv, LineInv
    <3> QED
      BY <2>3, <3>3 DEF LogInv, FileInv, Claimed
  <2> QED
    BY <2>1, <2>4
<1> QED
  BY <1>1, LoggerInvariance, PTL

\* Likewise nothing is left in the stream's buffer when worker_loop sleeps or has ended.
THEOREM LoggerFlushesBeforeSleep ==
    ASSUME Capacity > 1
    PROVE  LSpec => []FlushedBeforeSleep
<1>1. LogInv => FlushedBeforeSleep
  BY DEF LogInv, Unflushed, FlushedBeforeSleep
<1> QED
  BY <1>1, LoggerInvariance, PTL
=============================================================================
