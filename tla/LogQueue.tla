------------------------------ MODULE LogQueue ------------------------------
(***************************************************************************)
(* The bounded lock-free queue of the coroutine server's AsyncLogger       *)
(* (AsyncLogger::LogQueue).  A ring of Capacity slots, each with a         *)
(* sequence number and a payload; push and pop draw a ticket by a          *)
(* compare-and-swap of tail_ or head_ and then work on slot               *)
(* ticket & mask_.  One action is one atomic access, so every interleaving *)
(* of the accesses of any number of threads is a behaviour.                *)
(* Tickets are naturals: the 2^64 wrap of size_t is out of reach of a run  *)
(* of the program and is not modelled.                                     *)
(***************************************************************************)
EXTENDS Integers, Sequences

CONSTANTS
    Producer,   \* threads that call push
    Consumer,   \* threads that call pop
    Capacity,   \* number of slots
    MaxLines,   \* bound: entries each producer offers
    NoEntry     \* the null shared_ptr

\* The constructor throws unless the capacity is a power of two.
ASSUME CapacityIsPowerOfTwo == Capacity \in Nat \ {0} /\ \E k \in 0..30 : Capacity = 2^k

ASSUME ThreadsAreDistinct == Producer \cap Consumer = {}

ASSUME MaxLinesIsNat == MaxLines \in Nat

ASSUME NoEntryIsNoLine == NoEntry \notin Producer \X (1..MaxLines)

VARIABLES
    tail,      \* tail_: the next push ticket
    head,      \* head_: the next pop ticket
    sequence,  \* slots_[i].sequence
    payload,   \* slots_[i].payload
    pc,        \* where each thread stands in push or pop
    pos,       \* the local variable pos of that call
    entry,     \* the argument of push; the out parameter of pop
    calls,     \* number of entries a producer has offered
    claimed    \* history: claimed[t + 1] is the entry whose push drew ticket t

vars == <<tail, head, sequence, payload, pc, pos, entry, calls, claimed>>

Thread == Producer \cup Consumer
Line   == Producer \X (1..MaxLines)
Slots  == 0..(Capacity - 1)

\* slots_[pos & mask_] with mask_ = Capacity - 1, Capacity a power of two
Slot(t) == t % Capacity

\* Slips in FreedSequence: pos + mask_ without the + 1, and pos - (mask_ + 1).
FreedSequenceShort(t)    == t + Capacity - 1
FreedSequenceBackward(t) == t - Capacity

\* The sequence numbers a push and a pop leave behind in their slot.
PublishedSequence(t) == t + 1
FreedSequence(t)     == t + Capacity

PushReturned == {"idle", "pushed", "full"}
PopReturned  == {"idle", "popped", "empty"}
PushPC == PushReturned \cup {"pushCheck", "pushClaim", "store", "publish"}
PopPC  == PopReturned \cup {"popCheck", "popClaim", "take", "free"}

Init ==
    /\ tail = 0
    /\ head = 0
    /\ sequence = [i \in Slots |-> i]
    /\ payload = [i \in Slots |-> NoEntry]
    /\ pc = [t \in Thread |-> "idle"]
    /\ pos = [t \in Thread |-> 0]
    /\ entry = [t \in Thread |-> NoEntry]
    /\ calls = [p \in Producer |-> 0]
    /\ claimed = << >>

-----------------------------------------------------------------------------
(* push                                                                    *)

\* push(e) is called and loads tail_.
EnterPush(p, e) ==
    /\ pc[p] \in PushReturned
    /\ pc' = [pc EXCEPT ![p] = "pushCheck"]
    /\ pos' = [pos EXCEPT ![p] = tail]
    /\ entry' = [entry EXCEPT ![p] = e]
    /\ UNCHANGED <<tail, head, sequence, payload, claimed>>

\* A slip: the slot of the previous lap is taken for a free one.
PushVerdictIgnoresFull(seq, t) == IF seq <= t THEN "pushClaim" ELSE "pushCheck"

\* The slot's sequence number decides: claim, give up (full), or reload tail_.
PushVerdict(seq, t) == IF seq = t THEN "pushClaim" ELSE IF seq < t THEN "full" ELSE "pushCheck"

PushCheck(p) ==
    LET verdict == PushVerdict(sequence[Slot(pos[p])], pos[p])
    IN  /\ pc[p] = "pushCheck"
        /\ pc' = [pc EXCEPT ![p] = verdict]
        /\ pos' = IF verdict = "pushCheck" THEN [pos EXCEPT ![p] = tail] ELSE pos
        /\ UNCHANGED <<tail, head, sequence, payload, entry, calls, claimed>>

\* A slip: a plain store of tail_ instead of the compare-and-swap.
PushClaimBlindly(p) ==
    /\ pc[p] = "pushClaim"
    /\ tail' = pos[p] + 1
    /\ claimed' = Append(claimed, entry[p])
    /\ pc' = [pc EXCEPT ![p] = "store"]
    /\ UNCHANGED <<head, sequence, payload, pos, entry, calls>>

PushClaim(p) ==
    /\ pc[p] = "pushClaim"
    /\ pos[p] = tail
    /\ tail' = tail + 1
    /\ claimed' = Append(claimed, entry[p])
    /\ pc' = [pc EXCEPT ![p] = "store"]
    /\ UNCHANGED <<head, sequence, payload, pos, entry, calls>>

\* compare_exchange_weak fails, spuriously when pos is still tail_, and reloads.
PushLose(p) ==
    /\ pc[p] = "pushClaim"
    /\ pc' = [pc EXCEPT ![p] = "pushCheck"]
    /\ pos' = [pos EXCEPT ![p] = tail]
    /\ UNCHANGED <<tail, head, sequence, payload, entry, calls, claimed>>

PushStore(p) ==
    /\ pc[p] = "store"
    /\ payload' = [payload EXCEPT ![Slot(pos[p])] = entry[p]]
    /\ pc' = [pc EXCEPT ![p] = "publish"]
    /\ UNCHANGED <<tail, head, sequence, pos, entry, calls, claimed>>

PushPublish(p) ==
    /\ pc[p] = "publish"
    /\ sequence' = [sequence EXCEPT ![Slot(pos[p])] = PublishedSequence(pos[p])]
    /\ pc' = [pc EXCEPT ![p] = "pushed"]
    /\ UNCHANGED <<tail, head, payload, pos, entry, calls, claimed>>

PushStep(p) ==
    PushCheck(p) \/ PushClaim(p) \/ PushLose(p) \/ PushStore(p) \/ PushPublish(p)

-----------------------------------------------------------------------------
(* pop                                                                     *)

EnterPop(c) ==
    /\ pc[c] \in PopReturned
    /\ pc' = [pc EXCEPT ![c] = "popCheck"]
    /\ pos' = [pos EXCEPT ![c] = head]
    /\ UNCHANGED <<tail, head, sequence, payload, entry, calls, claimed>>

\* A slip: the sequence number is compared with pos, not pos + 1.
PopVerdictEarly(seq, t) ==
    IF seq >= t THEN "popClaim" ELSE "empty"

PopVerdict(seq, t) ==
    IF seq = PublishedSequence(t) THEN "popClaim"
    ELSE IF seq < PublishedSequence(t) THEN "empty" ELSE "popCheck"

PopCheck(c) ==
    LET verdict == PopVerdict(sequence[Slot(pos[c])], pos[c])
    IN  /\ pc[c] = "popCheck"
        /\ pc' = [pc EXCEPT ![c] = verdict]
        /\ pos' = IF verdict = "popCheck" THEN [pos EXCEPT ![c] = head] ELSE pos
        /\ UNCHANGED <<tail, head, sequence, payload, entry, calls, claimed>>

\* A slip: a plain store of head_ instead of the compare-and-swap.
PopClaimBlindly(c) ==
    /\ pc[c] = "popClaim"
    /\ head' = pos[c] + 1
    /\ pc' = [pc EXCEPT ![c] = "take"]
    /\ UNCHANGED <<tail, sequence, payload, pos, entry, calls, claimed>>

PopClaim(c) ==
    /\ pc[c] = "popClaim"
    /\ pos[c] = head
    /\ head' = head + 1
    /\ pc' = [pc EXCEPT ![c] = "take"]
    /\ UNCHANGED <<tail, sequence, payload, pos, entry, calls, claimed>>

PopLose(c) ==
    /\ pc[c] = "popClaim"
    /\ pc' = [pc EXCEPT ![c] = "popCheck"]
    /\ pos' = [pos EXCEPT ![c] = head]
    /\ UNCHANGED <<tail, head, sequence, payload, entry, calls, claimed>>

\* payload.exchange(nullptr)
PopTake(c) ==
    /\ pc[c] = "take"
    /\ entry' = [entry EXCEPT ![c] = payload[Slot(pos[c])]]
    /\ payload' = [payload EXCEPT ![Slot(pos[c])] = NoEntry]
    /\ pc' = [pc EXCEPT ![c] = "free"]
    /\ UNCHANGED <<tail, head, sequence, pos, calls, claimed>>

\* pop returns whether the entry it took is non-null.
PopFree(c) ==
    /\ pc[c] = "free"
    /\ sequence' = [sequence EXCEPT ![Slot(pos[c])] = FreedSequence(pos[c])]
    /\ pc' = [pc EXCEPT ![c] = IF entry[c] = NoEntry THEN "empty" ELSE "popped"]
    /\ UNCHANGED <<tail, head, payload, pos, entry, calls, claimed>>

PopStep(c) ==
    PopCheck(c) \/ PopClaim(c) \/ PopLose(c) \/ PopTake(c) \/ PopFree(c)

-----------------------------------------------------------------------------
(* The queue with arbitrary callers: producers offer MaxLines entries each *)

NextLine(p) == <<p, calls[p] + 1>>

Push(p) ==
    /\ calls[p] < MaxLines
    /\ EnterPush(p, NextLine(p))
    /\ calls' = [calls EXCEPT ![p] = @ + 1]

Next ==
    \/ \E p \in Producer : Push(p) \/ PushStep(p)
    \/ \E c \in Consumer : EnterPop(c) \/ PopStep(c)

Spec == Init /\ [][Next]_vars

-----------------------------------------------------------------------------
(* Properties                                                              *)

TypeOK ==
    /\ tail \in Nat
    /\ head \in Nat
    /\ sequence \in [Slots -> Nat]
    /\ payload \in [Slots -> Line \cup {NoEntry}]
    /\ pc \in [Thread -> PushPC \cup PopPC]
    /\ \A p \in Producer : pc[p] \in PushPC
    /\ \A c \in Consumer : pc[c] \in PopPC
    /\ pos \in [Thread -> Nat]
    /\ entry \in [Thread -> Line \cup {NoEntry}]
    /\ \A p \in Producer : pc[p] # "idle" => entry[p] \in Line
    /\ calls \in [Producer -> 0..MaxLines]
    /\ claimed \in Seq(Line)

\* No line is lost by overwriting: when push stores its entry, the payload
\* that the previous lap left in that slot has already been taken by a pop.
EntryNeverOverwritten ==
    \A p \in Producer : pc[p] = "store" => payload[Slot(pos[p])] = NoEntry

\* A pop that drew ticket t hands over exactly the entry whose push drew
\* ticket t: no stale, torn, duplicated or null line, in the order of the
\* pushes' compare-and-swaps.
PopGetsItsTicket ==
    \A c \in Consumer :
        /\ pc[c] = "take" => pos[c] < tail
        /\ pc[c] = "free" => entry[c] = claimed[pos[c] + 1]

\* Two threads between their compare-and-swap and their release of the slot
\* never share that slot, so the store/publish and take/free pairs need no lock.
Owner(t) == pc[t] \in {"store", "publish", "take", "free"}
SlotsHaveOneOwner ==
    \A t, u \in Thread : t # u /\ Owner(t) /\ Owner(u) => Slot(pos[t]) # Slot(pos[u])

\* The queue never holds more than Capacity claimed entries, and never fewer than none.
OccupancyBounded == head <= tail /\ tail <= head + Capacity

FifoQueue == SubSeq(claimed, head + 1, tail)
FifoHand  == [c \in Consumer |-> IF pc[c] \in {"take", "free"} THEN claimed[pos[c] + 1] ELSE NoEntry]
FifoOut   == [c \in Consumer |-> IF pc[c] = "popped" THEN entry[c] ELSE NoEntry]

Fifo == INSTANCE BoundedFifo
        WITH Item <- Line, NoItem <- NoEntry, queue <- FifoQueue, hand <- FifoHand, out <- FifoOut

\* Every push and pop is atomic at its compare-and-swap: the ring, with its
\* half-done calls, implements a bounded first-in first-out queue.
ImplementsFifo == Fifo!Spec

-----------------------------------------------------------------------------
(* The inductive invariant behind the properties above.                    *)

Pushing(p, t) == pc[p] \in {"store", "publish"} /\ pos[p] = t
Popping(c, t) == pc[c] \in {"take", "free"} /\ pos[c] = t

\* Ticket t of a push that has been claimed and not yet popped.
Occupied(t) ==
    \/ sequence[Slot(t)] = t + 1 /\ payload[Slot(t)] = claimed[t + 1]
    \/ sequence[Slot(t)] = t /\ \E p \in Producer : Pushing(p, t)

\* Ticket t that no push has claimed yet although its slot is of this lap.
Vacant(t) ==
    \/ sequence[Slot(t)] = t /\ payload[Slot(t)] = NoEntry
    \/ sequence[Slot(t)] = t + 1 - Capacity /\ \E c \in Consumer : Popping(c, t - Capacity)

ProducerInv(p) ==
    /\ pc[p] \in {"pushCheck", "pushClaim"} => pos[p] <= tail
    /\ pc[p] = "pushClaim" /\ pos[p] = tail => sequence[Slot(tail)] = tail
    /\ pc[p] \in {"store", "publish"} =>
          /\ head <= pos[p] /\ pos[p] < tail
          /\ sequence[Slot(pos[p])] = pos[p]
          /\ claimed[pos[p] + 1] = entry[p]
    /\ pc[p] = "store" => payload[Slot(pos[p])] = NoEntry
    /\ pc[p] = "publish" => payload[Slot(pos[p])] = entry[p]

ConsumerInv(c) ==
    /\ pc[c] \in {"popCheck", "popClaim"} => pos[c] <= head
    /\ pc[c] = "popClaim" /\ pos[c] = head => sequence[Slot(head)] = head + 1
    /\ pc[c] \in {"take", "free"} =>
          /\ pos[c] < head /\ tail <= pos[c] + Capacity
          /\ sequence[Slot(pos[c])] = pos[c] + 1
    /\ pc[c] = "take" => payload[Slot(pos[c])] = claimed[pos[c] + 1]
    /\ pc[c] = "free" => payload[Slot(pos[c])] = NoEntry /\ entry[c] = claimed[pos[c] + 1]

\* Owners hold different tickets.
TicketsAreUnique ==
    /\ \A p, q \in Producer : p # q /\ Pushing(p, pos[p]) => ~ Pushing(q, pos[p])
    /\ \A c, d \in Consumer : c # d /\ Popping(c, pos[c]) => ~ Popping(d, pos[c])

IInv ==
    /\ TypeOK
    /\ OccupancyBounded
    /\ Len(claimed) = tail
    /\ \A p \in Producer : ProducerInv(p)
    /\ \A c \in Consumer : ConsumerInv(c)
    /\ \A t \in head..(tail - 1) : Occupied(t)
    /\ \A t \in tail..(head + Capacity - 1) : Vacant(t)
    /\ TicketsAreUnique

=============================================================================
