---------------------------- MODULE AsyncLogging ----------------------------
(***************************************************************************)
(* The logger of the epoll server: threads append lines to a current       *)
(* buffer under a mutex, full buffers queue up, and a thread swaps them    *)
(* out, writes them to a LogFile and gives two of them back as spares.     *)
(*                                                                         *)
(* A buffer is the sequence of its lines, or Null, the null pointer; the   *)
(* n-th line appended is the number n.                                     *)
(***************************************************************************)
EXTENDS Integers, Sequences

CONSTANTS
    Size,         \* a buffer's size; a line takes 1
    MaxToWrite,   \* more buffers at once are dropped (25)
    FlushEveryN,  \* LogFile's flushEveryN_
    Null,         \* no buffer
    MaxLines      \* bound: lines appended

ASSUME SizeAssumption == Size \in Nat /\ Size >= 2
ASSUME MaxToWriteAssumption == MaxToWrite \in Nat /\ MaxToWrite >= 2
ASSUME OtherConstants == FlushEveryN \in Nat \ {0} /\ MaxLines \in Nat /\ Null \notin Seq(Nat)

VARIABLES
    owner,      \* who calls start and stop: "new", "starting", "started", "stopping", "stopped"
    running,    \* running_
    latches,    \* the latches of Thread and of AsyncLogging that are still up
    tpc,        \* the thread: "none", "boot", "func", "test", "lock", "wait", "drop", "write", "recycle", "gone"
    notified,   \* the waiting thread has been notified
    current, next, buffers,              \* currentBuffer_, nextBuffer_, buffers_
    newBuffer1, newBuffer2, toWrite, i,  \* the thread's spares, buffersToWrite and the loop's index
    count,      \* LogFile's count_
    file,       \* lines written to the file
    flushed,    \* how many of them are out of stdio's buffer
    appended,   \* number of lines appended
    lost        \* lines dropped or not written (history)

life   == <<owner, running, latches>>
front  == <<current, next, buffers, appended>>
spares == <<newBuffer1, newBuffer2>>
output == <<count, file, flushed, lost>>
avars  == <<life, tpc, notified, front, spares, toWrite, i, output>>

AInit ==
    /\ owner = "new" /\ running = FALSE /\ latches = {"thread", "logging"}
    /\ tpc = "none" /\ notified = FALSE
    /\ current = << >> /\ next = << >> /\ buffers = << >> /\ appended = 0
    /\ newBuffer1 = << >> /\ newBuffer2 = << >> /\ toWrite = << >> /\ i = 1
    /\ count = 0 /\ file = << >> /\ flushed = 0 /\ lost = {}

Lines(bs) ==
    LET f[k \in 0..Len(bs)] == IF k = 0 THEN << >> ELSE f[k - 1] \o bs[k]
    IN  f[Len(bs)]

SetOf(s) == {s[k] : k \in 1..Len(s)}

-----------------------------------------------------------------------------
(* start and stop                                                          *)

\* start: if pthread_create fails, nobody will count the latch down that start waits for.
Start ==
    /\ owner = "new"
    /\ owner' = "starting" /\ running' = TRUE
    /\ tpc' \in {"boot", "none"}
    /\ UNCHANGED <<latches, notified, front, spares, toWrite, i, output>>

\* Thread's runInThread, and threadFunc's beginning, count the latches down.
Boot ==
    /\ tpc = "boot"
    /\ tpc' = "func" /\ latches' = latches \ {"thread"}
    /\ UNCHANGED <<owner, running, notified, front, spares, toWrite, i, output>>

ThreadFunc ==
    /\ tpc = "func"
    /\ tpc' = "test" /\ latches' = latches \ {"logging"}
    /\ UNCHANGED <<owner, running, notified, front, spares, toWrite, i, output>>

\* latch_.wait(), which comes after Thread's.
StartReturns ==
    /\ owner = "starting" /\ latches = {}
    /\ owner' = "started"
    /\ UNCHANGED <<running, latches, tpc, notified, front, spares, toWrite, i, output>>

\* stop notifies without the mutex: the thread may be about to wait.
Stop ==
    /\ owner = "started"
    /\ owner' = "stopping" /\ running' = FALSE
    /\ notified' = (notified \/ tpc = "wait")
    /\ UNCHANGED <<latches, tpc, front, spares, toWrite, i, output>>

Join ==
    /\ owner = "stopping" /\ tpc = "gone"
    /\ owner' = "stopped"
    /\ UNCHANGED <<running, latches, tpc, notified, front, spares, toWrite, i, output>>

-----------------------------------------------------------------------------
(* append                                                                  *)

Avail(b) == Size - Len(b)

\* FixedBuffer::append drops what does not fit.
Put(b, line) == IF Avail(b) > 1 THEN Append(b, line) ELSE b

\* There is room in the current buffer.
AppendLine ==
    /\ Avail(current) > 1
    /\ current' = Put(current, appended + 1)
    /\ UNCHANGED <<next, buffers, notified>>

\* There is none: take the spare buffer, or a new one, and notify.
AppendToSpare ==
    /\ Avail(current) <= 1
    /\ buffers' = Append(buffers, current)
    /\ current' = Put(IF next # Null THEN next ELSE << >>, appended + 1)
    /\ next' = Null
    /\ notified' = (notified \/ tpc = "wait")

DoAppend ==
    /\ owner \in {"started", "stopping", "stopped"}
    /\ appended < MaxLines /\ appended' = appended + 1
    /\ AppendLine \/ AppendToSpare
    /\ UNCHANGED <<life, tpc, spares, toWrite, i, output>>

-----------------------------------------------------------------------------
(* threadFunc                                                              *)

\* The thread looks at running_; at its end it flushes once more and the file is closed.
Test ==
    /\ tpc = "test"
    /\ tpc' = IF running THEN "lock" ELSE "gone"
    /\ flushed' = IF running THEN flushed ELSE Len(file)
    /\ UNCHANGED <<life, notified, front, spares, toWrite, i, count, file, lost>>

Wait ==
    /\ tpc = "lock" /\ buffers = << >>
    /\ tpc' = "wait" /\ notified' = FALSE
    /\ UNCHANGED <<life, front, spares, toWrite, i, output>>

\* Buffers and spares change hands.
Exchange ==
    /\ toWrite' = Append(buffers, current) /\ i' = 1
    /\ buffers' = << >>
    /\ current' = newBuffer1 /\ newBuffer1' = Null
    /\ IF next = Null THEN next' = newBuffer2 /\ newBuffer2' = Null ELSE UNCHANGED <<next, newBuffer2>>
    /\ tpc' = "drop"
    /\ UNCHANGED <<life, notified, appended, output>>

SwapAtOnce == tpc = "lock" /\ buffers # << >> /\ Exchange

\* A slip: waiting without a timeout.
SwapIfNotified == tpc = "wait" /\ notified /\ Exchange

\* waitForSeconds returns: notified or not, after flushInterval_ or for no reason.
SwapAfterWait == tpc = "wait" /\ Exchange

\* A slip: one buffer is kept, not two.
KeepOne(bs) == IF Len(bs) > MaxToWrite THEN SubSeq(bs, 1, 1) ELSE bs

\* Of too many buffers all but the first two are dropped.
Keep(bs) == IF Len(bs) > MaxToWrite THEN SubSeq(bs, 1, 2) ELSE bs

Drop ==
    /\ tpc = "drop"
    /\ toWrite' = Keep(toWrite)
    /\ lost' = lost \cup (SetOf(Lines(toWrite)) \ SetOf(Lines(Keep(toWrite))))
    /\ tpc' = "write"
    /\ UNCHANGED <<life, notified, front, spares, i, count, file, flushed>>

\* AppendFile::append gives up when fwrite writes nothing.
AppendFile(b) ==
    \E n \in 0..Len(b) :
        /\ file' = file \o SubSeq(b, 1, n)
        /\ lost' = lost \cup SetOf(SubSeq(b, n + 1, Len(b)))

\* LogFile::append, which flushes every so often.
LogFileAppend(b) ==
    /\ AppendFile(b)
    /\ IF count + 1 >= FlushEveryN
       THEN count' = 0 /\ flushed' = Len(file')
       ELSE count' = count + 1 /\ UNCHANGED flushed

\* The next buffer is written.
WriteBuffer ==
    /\ tpc = "write" /\ i <= Len(toWrite)
    /\ LogFileAppend(toWrite[i])
    /\ i' = i + 1
    /\ UNCHANGED <<life, tpc, notified, front, spares, toWrite>>

\* Two buffers stay, as spares: resize(2), with reset() of each one that is needed.
Written ==
    /\ tpc = "write" /\ i > Len(toWrite)
    /\ toWrite' = IF Len(toWrite) > 2 THEN SubSeq(toWrite, 1, 2) ELSE toWrite
    /\ tpc' = "recycle"
    /\ UNCHANGED <<life, notified, front, spares, i, output>>

Needed == (IF newBuffer1 = Null THEN 1 ELSE 0) + (IF newBuffer2 = Null THEN 1 ELSE 0)

\* A slip: the spare buffers are not reset.
KeepLines(b) == b

\* reset()
Emptied(b) == << >>

\* A spare is the last buffer; the assert before it is RecyclingNeverFails.
Recycle ==
    /\ tpc = "recycle" /\ Len(toWrite) >= Needed
    /\ newBuffer1' = IF newBuffer1 = Null THEN Emptied(toWrite[Len(toWrite)]) ELSE newBuffer1
    /\ newBuffer2' = IF newBuffer2 = Null THEN Emptied(toWrite[Len(toWrite) + 1 - Needed]) ELSE newBuffer2
    /\ toWrite' = << >> /\ i' = 1
    /\ flushed' = Len(file)
    /\ tpc' = "test"
    /\ UNCHANGED <<life, notified, front, count, file, lost>>

-----------------------------------------------------------------------------

ThreadStep ==
    \/ Boot \/ ThreadFunc \/ Test \/ Wait \/ SwapAtOnce \/ SwapAfterWait
    \/ Drop \/ WriteBuffer \/ Written \/ Recycle

ANext == Start \/ StartReturns \/ Stop \/ Join \/ DoAppend \/ ThreadStep

ASpec == AInit /\ [][ANext]_avars

\* Threads run, and a timed wait ends.  Nobody has to log or to stop the logger.
AFairSpec == ASpec /\ WF_avars(ThreadStep) /\ WF_avars(StartReturns) /\ WF_avars(Join)

-----------------------------------------------------------------------------
(* Properties                                                              *)

\* Where the lines are: written, about to be, waiting, in the current buffer.
Unwritten == IF tpc \in {"drop", "write"} THEN SubSeq(toWrite, i, Len(toWrite)) ELSE << >>
Pipeline  == file \o Lines(Unwritten) \o Lines(buffers) \o current

\* Lines go to the file in the order of append, each once; none is missing but those that were
\* dropped for overload or by a failing fwrite, whatever buffers are exchanged and recycled.
NoLineLost ==
    /\ \A j, k \in 1..Len(Pipeline) : j < k => Pipeline[j] < Pipeline[k]
    /\ SetOf(Pipeline) = (1..appended) \ lost

\* The asserts of threadFunc: a spare that was given away can be replaced from the buffers just
\* written, and the spares are empty when the next round begins.
RecyclingNeverFails ==
    /\ tpc = "recycle" => Len(toWrite) >= Needed
    /\ tpc \in {"test", "lock", "wait"} => newBuffer1 = << >> /\ newBuffer2 = << >> /\ toWrite = << >>

\* A line reaches the disk without further lines (every flushInterval_), unless it is dropped or
\* the logger stops.
LineReachesDisk ==
    \A n \in 1..MaxLines :
        (appended >= n /\ running) ~>
            (n \in lost \/ ~ running \/ \E k \in 1..Len(file) : k <= flushed /\ file[k] = n)

\* stop returns, though its notify may come before the wait.
StopReturns == owner = "stopping" ~> owner = "stopped"
=============================================================================
