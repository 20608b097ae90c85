---------------------------- MODULE AsyncLogger ----------------------------
(***************************************************************************)
(* AsyncLogger of the coroutine server: threads call log, which pushes the *)
(* line into the LogQueue or, after MaxAttempts refusals, writes it to the *)
(* sink itself; one worker thread pops lines and writes them; one thread   *)
(* calls start and stop.  The sink is only touched under sink_mutex_, so a *)
(* critical section is one action.  A line is <<p, n>>, the n-th line of   *)
(* producer p; formatting is left out.                                     *)
(***************************************************************************)
EXTENDS LogQueue, FiniteSets

CONSTANTS
    MaxAttempts,  \* pushes tried before direct_write (16 in the code)
    MaxStarts,    \* bound: calls of start
    MaxCalls      \* bound: calls of log by all threads together

ASSUME OneWorker == \E w \in Consumer : Consumer = {w}
ASSUME BoundsArePositive == MaxAttempts \in Nat \ {0} /\ MaxStarts \in Nat \ {0} /\ MaxCalls \in Nat

VARIABLES
    running,   \* running_
    mpc,       \* the thread calling start and stop: "idle", "started", "joining", "stopped"
    wpc,       \* the worker: "none", "test", "pop", "drain"
    wrote,     \* its local variable wrote
    open,      \* sink_.is_open()
    file,      \* lines streamed to sink_, in order
    flushed,   \* how many of them have left the stream's buffer
    attempts,  \* log's loop counter
    starts,    \* number of calls of start
    \* history
    direct,    \* lines written by direct_write
    dropped,   \* lines direct_write found no open sink for
    quiet      \* no log call has overlapped or followed the last stop

control == <<running, mpc, wpc, wrote, starts>>
sink    == <<open, file, flushed, direct, dropped>>
lvars   == <<vars, control, sink, attempts, quiet>>

worker == CHOOSE w \in Consumer : TRUE

\* The lines log has been called with.
Logged == {line \in Line : line[2] <= calls[line[1]]}

Busy(p) == pc[p] \notin {"idle", "pushed"}

LInit ==
    /\ Init
    /\ running = FALSE
    /\ mpc = "idle"
    /\ wpc = "none"
    /\ wrote = FALSE
    /\ open = FALSE
    /\ file = << >>
    /\ flushed = 0
    /\ attempts = [p \in Producer |-> 0]
    /\ starts = 0
    /\ direct = {}
    /\ dropped = {}
    /\ quiet = TRUE

-----------------------------------------------------------------------------
(* start and stop                                                          *)

Start ==
    /\ mpc \in {"idle", "stopped"}
    /\ starts < MaxStarts
    /\ starts' = starts + 1
    /\ running' = TRUE
    /\ open' = TRUE
    /\ mpc' = "started"
    /\ wpc' = "test"
    /\ UNCHANGED <<vars, wrote, file, flushed, direct, dropped, attempts, quiet>>

\* The log file cannot be opened: running_ is reset and start throws.
StartFails ==
    /\ mpc \in {"idle", "stopped"}
    /\ starts < MaxStarts
    /\ starts' = starts + 1
    /\ UNCHANGED <<vars, running, mpc, wpc, wrote, sink, attempts, quiet>>

Stop ==
    /\ mpc = "started"
    /\ running
    /\ running' = FALSE
    /\ mpc' = "joining"
    /\ quiet' = \A p \in Producer : ~ Busy(p)
    /\ UNCHANGED <<vars, wpc, wrote, starts, sink, attempts>>

\* join returns, then the sink is flushed and closed.
StopJoined ==
    /\ mpc = "joining"
    /\ wpc = "none"
    /\ mpc' = "stopped"
    /\ open' = FALSE
    /\ flushed' = Len(file)
    /\ UNCHANGED <<vars, running, wpc, wrote, starts, file, direct, dropped, attempts, quiet>>

-----------------------------------------------------------------------------
(* log                                                                     *)

Log(p) ==
    /\ ~ Busy(p)
    /\ Cardinality(Logged) < MaxCalls
    /\ Push(p)
    /\ attempts' = [attempts EXCEPT ![p] = 1]
    /\ quiet' = (quiet /\ mpc \notin {"joining", "stopped"})
    /\ UNCHANGED <<control, sink>>

LogStep(p) ==
    /\ PushStep(p)
    /\ UNCHANGED <<control, sink, attempts, quiet>>

\* A slip: no limit to the attempts.
LogRetryForever(p) ==
    /\ pc[p] = "full"
    /\ EnterPush(p, entry[p])
    /\ UNCHANGED <<calls, control, sink, quiet, attempts>>

LogRetry(p) ==
    /\ pc[p] = "full"
    /\ attempts[p] < MaxAttempts
    /\ EnterPush(p, entry[p])
    /\ attempts' = [attempts EXCEPT ![p] = @ + 1]
    /\ UNCHANGED <<calls, control, sink, quiet>>

\* A slip: log falls through to direct_write although its last push succeeded.
DirectWriteAnyway(p) ==
    /\ pc[p] \in {"full", "pushed"}
    /\ attempts[p] = MaxAttempts
    /\ pc' = [pc EXCEPT ![p] = "idle"]
    /\ file' = IF open THEN Append(file, entry[p]) ELSE file
    /\ flushed' = IF open THEN Len(file) + 1 ELSE flushed
    /\ UNCHANGED <<tail, head, sequence, payload, pos, entry, calls, claimed>>
    /\ UNCHANGED <<control, open, direct, dropped, attempts, quiet>>

\* direct_write: flushed at once, and nothing at all without an open sink.
DirectWrite(p) ==
    /\ pc[p] = "full"
    /\ attempts[p] = MaxAttempts
    /\ pc' = [pc EXCEPT ![p] = "idle"]
    /\ file' = IF open THEN Append(file, entry[p]) ELSE file
    /\ flushed' = IF open THEN Len(file) + 1 ELSE flushed
    /\ direct' = IF open THEN direct \cup {entry[p]} ELSE direct
    /\ dropped' = IF open THEN dropped ELSE dropped \cup {entry[p]}
    /\ UNCHANGED <<tail, head, sequence, payload, pos, entry, calls, claimed>>
    /\ UNCHANGED <<control, open, attempts, quiet>>

-----------------------------------------------------------------------------
(* worker_loop                                                             *)

\* Slips in the loop's test: the thread ends without a final drain, or never ends.
WorkerTestNoDrain ==
    /\ wpc = "test"
    /\ wpc' = IF running THEN "pop" ELSE "none"
    /\ wrote' = FALSE
    /\ IF running THEN EnterPop(worker) ELSE UNCHANGED vars
    /\ UNCHANGED <<running, mpc, starts, sink, attempts, quiet>>

WorkerTestForever ==
    /\ wpc = "test"
    /\ wpc' = "pop"
    /\ wrote' = FALSE
    /\ EnterPop(worker)
    /\ UNCHANGED <<running, mpc, starts, sink, attempts, quiet>>

\* while (running_): another round of pops, or the final drain.
WorkerTest ==
    /\ wpc = "test"
    /\ wpc' = IF running THEN "pop" ELSE "drain"
    /\ wrote' = FALSE
    /\ EnterPop(worker)
    /\ UNCHANGED <<running, mpc, starts, sink, attempts, quiet>>

WorkerPop ==
    /\ wpc \in {"pop", "drain"}
    /\ PopStep(worker)
    /\ UNCHANGED <<control, sink, attempts, quiet>>

\* pop returned a line: stream it and pop again.
WorkerWrite ==
    /\ wpc \in {"pop", "drain"}
    /\ pc[worker] = "popped"
    /\ file' = IF open THEN Append(file, entry[worker]) ELSE file
    /\ wrote' = (wrote \/ open)
    /\ EnterPop(worker)
    /\ UNCHANGED <<running, mpc, wpc, starts, open, flushed, direct, dropped, attempts, quiet>>

\* A slip: the stream is flushed only by the final drain.
WorkerFlushAtEnd ==
    /\ wpc \in {"pop", "drain"}
    /\ pc[worker] = "empty"
    /\ flushed' = IF open /\ wpc = "drain" THEN Len(file) ELSE flushed
    /\ wpc' = IF wpc = "drain" THEN "none" ELSE "test"
    /\ UNCHANGED <<vars, running, mpc, wrote, starts, open, file, direct, dropped, attempts, quiet>>

\* pop returned false: flush what was written (always after the final drain),
\* then sleep and test again, or end the thread.
WorkerFlush ==
    /\ wpc \in {"pop", "drain"}
    /\ pc[worker] = "empty"
    /\ flushed' = IF open /\ (wrote \/ wpc = "drain") THEN Len(file) ELSE flushed
    /\ wpc' = IF wpc = "drain" THEN "none" ELSE "test"
    /\ UNCHANGED <<vars, running, mpc, wrote, starts, open, file, direct, dropped, attempts, quiet>>

-----------------------------------------------------------------------------

Worker == WorkerTest \/ WorkerPop \/ WorkerWrite \/ WorkerFlush

Logging(p) == LogStep(p) \/ LogRetry(p) \/ DirectWrite(p)

LNext ==
    \/ Start \/ StartFails \/ Stop \/ StopJoined
    \/ Worker
    \/ \E p \in Producer : Log(p) \/ Logging(p)

LSpec == LInit /\ [][LNext]_lvars

\* A started thread keeps running, join returns once the worker has ended, and
\* a weak compare-and-swap does not fail spuriously for ever.  Nobody is
\* obliged to call log, start or stop.
LFairness ==
    /\ WF_lvars(Worker)
    /\ SF_lvars(WorkerPop /\ PopClaim(worker))
    /\ WF_lvars(StopJoined)
    /\ \A p \in Producer : WF_lvars(Logging(p)) /\ SF_lvars(LogStep(p) /\ PushClaim(p))

LFairSpec == LSpec /\ LFairness

-----------------------------------------------------------------------------
(* Properties                                                              *)

InFile(line) == \E i \in 1..Len(file) : file[i] = line

\* A line reaches the file at most once, whether queued, retried or written directly.
NoLineTwice == \A i, j \in 1..Len(file) : file[i] = file[j] => i = j

\* Once stop has returned, and no log call overlapped or followed it, every line ever
\* logged is in the file and flushed, except those direct_write dropped because there was
\* no open sink: the final drain misses nothing that the rounds before it left behind.
StopLosesNothing ==
    mpc = "stopped" /\ quiet =>
        /\ flushed = Len(file)
        /\ \A line \in Logged : InFile(line) \/ line \in dropped

\* A line that went through the queue comes in the file after every line whose push won
\* tail_ before its own, so one thread's queued lines are never reordered and none is skipped.
QueuedLinesInOrder ==
    \A j \in 1..Len(file) : file[j] \notin direct =>
        \E k \in 1..tail :
            /\ file[j] = claimed[k]
            /\ \A l \in 1..(k - 1) : \E i \in 1..(j - 1) : file[i] = claimed[l]

\* Nothing stays in the stream's buffer while the worker sleeps or is gone.
FlushedBeforeSleep == wpc \in {"none", "test"} => flushed = Len(file)

\* Every line whose push has won tail_ is in the file and flushed.
AllWritten == \A i \in 1..tail : \E j \in 1..flushed : file[j] = claimed[i]

\* While the logger runs the worker catches up: what has been pushed is eventually written
\* and flushed, unless the logger is stopped.
QueuedLineIsWritten == (mpc = "started" /\ ~ AllWritten) ~> (mpc # "started" \/ AllWritten)

\* stop returns: the worker sees running_ and ends its final drain.
StopReturns == mpc = "joining" ~> mpc = "stopped"

\* Calls of log return, even when the queue stays full.
LogReturns == (\E p \in Producer : Busy(p)) ~> (\A p \in Producer : ~ Busy(p))
=============================================================================
