--------------------------- MODULE LogQueueProofs ---------------------------
(***************************************************************************)
(* Proofs about LogQueue for every set of producers and consumers and      *)
(* every capacity of at least two.  First what slot arithmetic gives, then *)
(* type correctness, then the inductive invariant IInv, one lemma per      *)
(* action, and what follows from it.                                       *)
(***************************************************************************)
EXTENDS LogQueue, TLAPS

-----------------------------------------------------------------------------
(* Slots                                                                   *)

\* The constructor refuses an empty ring.
LEMMA CapacityPositive == Capacity \in Nat /\ Capacity > 0
  BY CapacityIsPowerOfTwo

\* Division with remainder by Capacity.
LEMMA DivMod == \A t \in Nat : t = Capacity * (t \div Capacity) + (t % Capacity) /\ t \div Capacity \in Nat
  BY CapacityPositive

\* A ticket's slot is an index of slots_.
LEMMA SlotType == \A t \in Nat : Slot(t) \in Slots
  BY CapacityPositive DEF Slot, Slots

\* No multiple of Capacity lies strictly between 0 and Capacity.
LEMMA NoMultipleBetween == ASSUME NEW d \in Int PROVE ~(0 < Capacity * d /\ Capacity * d < Capacity)
<1>1. CASE d <= 0
  <2>1. Capacity * d <= 0 BY <1>1, CapacityPositive
  <2> QED BY <2>1, <1>1, CapacityPositive
<1>2. CASE d >= 1
  <2>1. Capacity * d >= Capacity BY <1>2, CapacityPositive
  <2> QED BY <2>1, <1>2, CapacityPositive
<1> QED BY <1>1, <1>2

\* Two tickets less than a lap apart have different slots (pos & mask_).
LEMMA SlotInjective == \A t, u \in Nat : t < u /\ u < t + Capacity => Slot(t) # Slot(u)
<1> SUFFICES ASSUME NEW t \in Nat, NEW u \in Nat, t < u, u < t + Capacity,
                    t % Capacity = u % Capacity
             PROVE  FALSE
  BY DEF Slot
<1> DEFINE q == t \div Capacity
           r == u \div Capacity
<1>1. q \in Nat /\ r \in Nat BY DivMod
<1>2. t = Capacity * q + (t % Capacity) /\ u = Capacity * r + (u % Capacity) BY DivMod
<1>3. t % Capacity \in Nat BY SlotType, CapacityPositive DEF Slot, Slots
<1>4. Capacity * q \in Int /\ Capacity * r \in Int BY <1>1, CapacityPositive
<1> HIDE DEF q, r
<1>5. u - t = Capacity * r - Capacity * q BY <1>1, <1>2, <1>3, <1>4, CapacityPositive
<1>6. Capacity * r - Capacity * q = Capacity * (r - q) BY <1>1, CapacityPositive
<1>7. r - q \in Int BY <1>1
<1> QED BY <1>5, <1>6, <1>7, NoMultipleBetween, CapacityPositive

\* A ticket and the one a lap later use the same slot.
LEMMA SlotWrap == \A t \in Nat : Slot(t + Capacity) = Slot(t)
<1> SUFFICES ASSUME NEW t \in Nat PROVE (t + Capacity) % Capacity = t % Capacity
  BY DEF Slot
<1> DEFINE q == t \div Capacity
           r == (t + Capacity) \div Capacity
           a == t % Capacity
           b == (t + Capacity) % Capacity
<1>1. q \in Nat /\ r \in Nat BY DivMod, CapacityPositive
<1>2. t = Capacity * q + a /\ t + Capacity = Capacity * r + b BY DivMod, CapacityPositive
<1>3. a \in 0..(Capacity - 1) /\ b \in 0..(Capacity - 1)
  BY SlotType, CapacityPositive DEF Slot, Slots
<1>4. Capacity * q \in Int /\ Capacity * r \in Int BY <1>1, CapacityPositive
<1> HIDE DEF q, r, a, b
<1>5. a - b = Capacity * r - Capacity * q - Capacity
  BY <1>1, <1>2, <1>3, <1>4, CapacityPositive
<1>6. Capacity * r - Capacity * q - Capacity = Capacity * (r - q - 1) BY <1>1, CapacityPositive
<1>7. Capacity * q - Capacity * r + Capacity = Capacity * (q + 1 - r) BY <1>1, CapacityPositive
<1>8. r - q - 1 \in Int /\ q + 1 - r \in Int BY <1>1
<1>9. ~(a - b > 0) BY <1>5, <1>6, <1>8, <1>3, NoMultipleBetween, CapacityPositive
<1>10. ~(b - a > 0) BY <1>5, <1>4, <1>7, <1>8, <1>3, NoMultipleBetween, CapacityPositive
<1>11. a = b BY <1>9, <1>10, <1>3, CapacityPositive
<1> QED BY <1>11 DEF a, b

-----------------------------------------------------------------------------
(* Type correctness                                                        *)

\* The constructed queue, with no call in progress, is well typed.
LEMMA TypeInit == Init => TypeOK
  BY CapacityPositive, MaxLinesIsNat
  DEF Init, TypeOK, Slots, Thread, PushPC, PopPC, PushReturned, PopReturned

\* Every access of push keeps the types.
LEMMA TypePush ==
    ASSUME TypeOK, NEW p \in Producer, Push(p) \/ PushStep(p)
    PROVE  TypeOK'
<1> USE DEF Thread
<1>0. /\ p \notin Consumer /\ p \in Thread
      /\ pos[p] \in Nat /\ Slot(pos[p]) \in Slots
  BY ThreadsAreDistinct, SlotType DEF TypeOK
<1>1. CASE Push(p)
  BY <1>0, <1>1, MaxLinesIsNat
  DEF TypeOK, Push, EnterPush, NextLine, Line, PushPC, PopPC, PushReturned
<1>2. CASE PushCheck(p)
  BY <1>0, <1>2 DEF TypeOK, PushCheck, PushVerdict, PushPC, PopPC, PushReturned
<1>3. CASE PushClaim(p)
  BY <1>0, <1>3 DEF TypeOK, PushClaim, PushPC, PopPC, PushReturned
<1>4. CASE PushLose(p)
  BY <1>0, <1>4 DEF TypeOK, PushLose, PushPC, PopPC, PushReturned
<1>5. CASE PushStore(p)
  BY <1>0, <1>5 DEF TypeOK, PushStore, PushPC, PopPC, PushReturned
<1>6. CASE PushPublish(p)
  BY <1>0, <1>6 DEF TypeOK, PushPublish, PublishedSequence, PushPC, PopPC, PushReturned
<1> QED BY <1>1, <1>2, <1>3, <1>4, <1>5, <1>6 DEF PushStep

\* Every access of pop keeps the types.
LEMMA TypePop ==
    ASSUME TypeOK, NEW c \in Consumer, EnterPop(c) \/ PopStep(c)
    PROVE  TypeOK'
<1> USE DEF Thread
<1>0. /\ c \notin Producer /\ c \in Thread
      /\ pos[c] \in Nat /\ Slot(pos[c]) \in Slots
  BY ThreadsAreDistinct, SlotType DEF TypeOK
<1>1. CASE EnterPop(c)
  BY <1>0, <1>1 DEF TypeOK, EnterPop, PushPC, PopPC, PopReturned
<1>2. CASE PopCheck(c)
  BY <1>0, <1>2 DEF TypeOK, PopCheck, PopVerdict, PushPC, PopPC, PopReturned
<1>3. CASE PopClaim(c)
  BY <1>0, <1>3 DEF TypeOK, PopClaim, PushPC, PopPC, PopReturned
<1>4. CASE PopLose(c)
  BY <1>0, <1>4 DEF TypeOK, PopLose, PushPC, PopPC, PopReturned
<1>5. CASE PopTake(c)
  BY <1>0, <1>5 DEF TypeOK, PopTake, PushPC, PopPC, PopReturned
<1>6. CASE PopFree(c)
  BY <1>0, <1>6, CapacityPositive DEF TypeOK, PopFree, FreedSequence, PushPC, PopPC, PopReturned
<1> QED BY <1>1, <1>2, <1>3, <1>4, <1>5, <1>6 DEF PopStep

\* LogQueue keeps its types: sequences and tickets stay naturals, every slot
\* holds a line or null, and every thread is somewhere in push or pop.
THEOREM TypeCorrect == Spec => []TypeOK
<1>1. Init => TypeOK BY TypeInit
<1>2. TypeOK /\ [Next]_vars => TypeOK'
  <2> SUFFICES ASSUME TypeOK, [Next]_vars PROVE TypeOK' OBVIOUS
  <2>1. CASE UNCHANGED vars BY <2>1 DEF vars, TypeOK
  <2>2. CASE Next BY <2>2, TypePush, TypePop DEF Next
  <2> QED BY <2>1, <2>2
<1> QED BY <1>1, <1>2, PTL DEF Spec

-----------------------------------------------------------------------------
(* The inductive invariant                                                 *)

\* Inside the window of one lap, different tickets have different slots.
LEMMA WindowSlots ==
    \A t, u \in Nat : t # u /\ t < u + Capacity /\ u < t + Capacity => Slot(t) # Slot(u)
  BY SlotInjective, CapacityPositive

\* In the constructed queue every slot is vacant and of the first lap.
LEMMA InvInit == Init => IInv
<1> SUFFICES ASSUME Init PROVE IInv OBVIOUS
<1>1. TypeOK BY TypeInit
<1>2. OccupancyBounded BY CapacityPositive DEF Init, OccupancyBounded
<1>3. \A t \in tail..(head + Capacity - 1) : Vacant(t)
  <2> SUFFICES ASSUME NEW t \in 0..(Capacity - 1) PROVE Vacant(t)
    BY CapacityPositive DEF Init
  <2>1. Slot(t) = t BY CapacityPositive DEF Slot
  <2> QED BY <2>1 DEF Init, Vacant, Slots
<1> QED BY <1>1, <1>2, <1>3
        DEF Init, IInv, ProducerInv, ConsumerInv, TicketsAreUnique, Pushing, Popping, Thread

\* Steps that only move a thread which owns no slot before or after: the loads,
\* the checks and the failed compare-and-swaps.
LEMMA InvLocal ==
    ASSUME IInv, TypeOK', NEW th \in Thread,
           UNCHANGED <<tail, head, sequence, payload, claimed>>,
           \A u \in Thread \ {th} : pc'[u] = pc[u] /\ pos'[u] = pos[u] /\ entry'[u] = entry[u],
           ~ Owner(th), ~ Owner(th)',
           th \in Producer => ProducerInv(th)',
           th \in Consumer => ConsumerInv(th)'
    PROVE  IInv'
<1> USE DEF Thread
<1>1. \A p \in Producer : ProducerInv(p)'
  BY DEF IInv, ProducerInv
<1>2. \A c \in Consumer : ConsumerInv(c)'
  BY DEF IInv, ConsumerInv
<1>3. \A p \in Producer, t \in Nat : Pushing(p, t)' <=> Pushing(p, t)
  BY DEF Pushing, Owner
<1>4. \A c \in Consumer, t \in Int : Popping(c, t)' <=> Popping(c, t)
  BY DEF Popping, Owner
<1>5. \A t \in head..(tail - 1) : Occupied(t)'
  BY <1>3 DEF IInv, TypeOK, Occupied
<1>6. \A t \in tail..(head + Capacity - 1) : Vacant(t)'
  BY <1>4, CapacityPositive DEF IInv, TypeOK, Vacant
<1>7. TicketsAreUnique'
  BY DEF IInv, TicketsAreUnique, Pushing, Popping, Owner
<1> QED BY <1>1, <1>2, <1>5, <1>6, <1>7 DEF IInv, OccupancyBounded

\* push is called, or its compare-and-swap fails: it restarts from tail_.
LEMMA InvPushStart ==
    ASSUME IInv, TypeOK', NEW p \in Producer, NEW e, EnterPush(p, e) \/ PushLose(p)
    PROVE  IInv'
<1>1. p \in Thread /\ p \notin Consumer BY ThreadsAreDistinct DEF Thread
<1>2. pc'[p] = "pushCheck" /\ pos'[p] = tail /\ tail' = tail /\ ~ Owner(p)
  BY <1>1 DEF IInv, TypeOK, EnterPush, PushLose, PushReturned, Owner
<1>3. ProducerInv(p)' BY <1>2 DEF IInv, TypeOK, ProducerInv
<1>4. \A u \in Thread \ {p} : pc'[u] = pc[u] /\ pos'[u] = pos[u] /\ entry'[u] = entry[u]
  BY <1>1 DEF IInv, TypeOK, EnterPush, PushLose
<1>5. UNCHANGED <<tail, head, sequence, payload, claimed>> BY DEF EnterPush, PushLose
<1>6. ~ Owner(p)' BY <1>2 DEF Owner
<1> QED BY <1>1, <1>2, <1>3, <1>4, <1>5, <1>6, InvLocal

\* push's look at the sequence number: a match with tail_ means that the slot is free.
LEMMA InvPushCheck ==
    ASSUME IInv, TypeOK', NEW p \in Producer, PushCheck(p)
    PROVE  IInv'
<1>1. p \in Thread /\ p \notin Consumer BY ThreadsAreDistinct DEF Thread
<1>2. UNCHANGED <<tail, head, sequence, payload, claimed>> BY DEF PushCheck
<1>3. \A u \in Thread \ {p} : pc'[u] = pc[u] /\ pos'[u] = pos[u] /\ entry'[u] = entry[u]
  BY <1>1 DEF IInv, TypeOK, PushCheck
<1>4. ~ Owner(p) /\ ~ Owner(p)'
  BY <1>1 DEF IInv, TypeOK, PushCheck, PushVerdict, Owner
<1>5. ProducerInv(p)'
  BY <1>1, <1>2 DEF IInv, TypeOK, ProducerInv, PushCheck, PushVerdict
<1> QED BY <1>1, <1>2, <1>3, <1>4, <1>5, InvLocal

\* pop is called, or its compare-and-swap fails: it restarts from head_.
LEMMA InvPopStart ==
    ASSUME IInv, TypeOK', NEW c \in Consumer, EnterPop(c) \/ PopLose(c)
    PROVE  IInv'
<1>1. c \in Thread /\ c \notin Producer BY ThreadsAreDistinct DEF Thread
<1>2. pc'[c] = "popCheck" /\ pos'[c] = head /\ head' = head /\ ~ Owner(c)
  BY <1>1 DEF IInv, TypeOK, EnterPop, PopLose, PopReturned, Owner
<1>3. ConsumerInv(c)' BY <1>2 DEF IInv, TypeOK, ConsumerInv
<1>4. \A u \in Thread \ {c} : pc'[u] = pc[u] /\ pos'[u] = pos[u] /\ entry'[u] = entry[u]
  BY <1>1 DEF IInv, TypeOK, EnterPop, PopLose
<1>5. UNCHANGED <<tail, head, sequence, payload, claimed>> BY DEF EnterPop, PopLose
<1>6. ~ Owner(c)' BY <1>2 DEF Owner
<1> QED BY <1>1, <1>2, <1>3, <1>4, <1>5, <1>6, InvLocal

\* pop's look at the sequence number: a match with head_ + 1 means that the slot is published.
LEMMA InvPopCheck ==
    ASSUME IInv, TypeOK', NEW c \in Consumer, PopCheck(c)
    PROVE  IInv'
<1>1. c \in Thread /\ c \notin Producer BY ThreadsAreDistinct DEF Thread
<1>2. UNCHANGED <<tail, head, sequence, payload, claimed>> BY DEF PopCheck
<1>3. \A u \in Thread \ {c} : pc'[u] = pc[u] /\ pos'[u] = pos[u] /\ entry'[u] = entry[u]
  BY <1>1 DEF IInv, TypeOK, PopCheck
<1>4. ~ Owner(c) /\ ~ Owner(c)'
  BY <1>1 DEF IInv, TypeOK, PopCheck, PopVerdict, Owner
<1>5. ConsumerInv(c)'
  BY <1>1, <1>2 DEF IInv, TypeOK, ConsumerInv, PopCheck, PopVerdict, PublishedSequence
<1> QED BY <1>1, <1>2, <1>3, <1>4, <1>5, InvLocal

\* A push wins ticket tail.  Here a capacity of one fails: with Capacity = 1 the
\* sequence number of a published, unpopped entry equals the next ticket.
LEMMA InvPushClaim ==
    ASSUME IInv, TypeOK', Capacity > 1, NEW p \in Producer, PushClaim(p)
    PROVE  IInv'
<1> USE CapacityPositive DEF Thread
<1>1. /\ tail \in Nat /\ head \in Nat /\ head <= tail /\ tail <= head + Capacity
      /\ p \in Thread /\ p \notin Consumer
      /\ pos[p] = tail /\ tail' = tail + 1 /\ sequence[Slot(tail)] = tail
      /\ UNCHANGED <<head, sequence, payload, pos, entry>>
      /\ pc'[p] = "store" /\ pc[p] = "pushClaim"
      /\ \A u \in Thread \ {p} : pc'[u] = pc[u]
      /\ Len(claimed) = tail /\ entry[p] \in Line
  BY ThreadsAreDistinct DEF IInv, TypeOK, OccupancyBounded, ProducerInv, PushClaim
<1>2. /\ Len(claimed') = tail + 1 /\ claimed'[tail + 1] = entry[p]
      /\ \A t \in 1..tail : claimed'[t] = claimed[t]
  BY <1>1 DEF PushClaim, IInv, TypeOK
<1>3. tail < head + Capacity
  <2> SUFFICES ASSUME tail = head + Capacity PROVE FALSE BY <1>1
  <2>1. Occupied(head) BY <1>1 DEF IInv
  <2>2. Slot(tail) = Slot(head) BY <1>1, SlotWrap
  <2> QED BY <1>1, <2>1, <2>2 DEF Occupied
<1>4. payload[Slot(tail)] = NoEntry
  <2>1. Vacant(tail) BY <1>1, <1>3 DEF IInv
  <2> QED BY <1>1, <2>1 DEF Vacant
<1>5. \A q \in Producer : ProducerInv(q)'
  <2> SUFFICES ASSUME NEW q \in Producer PROVE ProducerInv(q)' OBVIOUS
  <2>1. CASE q = p BY <2>1, <1>1, <1>2, <1>4 DEF ProducerInv
  <2>2. CASE q # p
    <3>1. ProducerInv(q) /\ pos[q] \in Nat BY DEF IInv, TypeOK
    <3>2. pc'[q] = pc[q] BY <1>1, <2>2
    <3> QED BY <3>1, <3>2, <1>1, <1>2 DEF ProducerInv
  <2> QED BY <2>1, <2>2
<1>6. \A c \in Consumer : ConsumerInv(c)'
  <2> SUFFICES ASSUME NEW c \in Consumer PROVE ConsumerInv(c)' OBVIOUS
  <2>1. ConsumerInv(c) /\ pos[c] \in Nat /\ pc'[c] = pc[c] BY <1>1 DEF IInv, TypeOK
  <2>2. pc[c] \in {"take", "free"} => tail + 1 <= pos[c] + Capacity
    <3> SUFFICES ASSUME pc[c] \in {"take", "free"}, tail = pos[c] + Capacity PROVE FALSE
      BY <2>1, <1>1 DEF ConsumerInv
    <3>1. Slot(tail) = Slot(pos[c]) BY <2>1, SlotWrap
    <3> QED BY <3>1, <2>1, <1>1 DEF ConsumerInv
  <2> QED BY <2>1, <2>2, <1>1, <1>2 DEF ConsumerInv
<1>7. \A t \in head..(tail' - 1) : Occupied(t)'
  <2> SUFFICES ASSUME NEW t \in head..tail PROVE Occupied(t)' BY <1>1
  <2>1. CASE t = tail BY <2>1, <1>1 DEF Occupied, Pushing
  <2>2. CASE t # tail
    <3>1. Occupied(t) /\ t \in Nat /\ t + 1 \in 1..tail BY <2>2, <1>1 DEF IInv
    <3>2. \A q \in Producer : Pushing(q, t) => Pushing(q, t)' BY <1>1 DEF Pushing
    <3> QED BY <3>1, <3>2, <1>1, <1>2 DEF Occupied
  <2> QED BY <2>1, <2>2
<1>8. \A t \in tail'..(head' + Capacity - 1) : Vacant(t)'
  <2> SUFFICES ASSUME NEW t \in (tail + 1)..(head + Capacity - 1) PROVE Vacant(t)' BY <1>1
  <2>1. Vacant(t) BY <1>1 DEF IInv
  <2>2. \A c \in Consumer : Popping(c, t - Capacity) => Popping(c, t - Capacity)'
    BY <1>1 DEF Popping
  <2> QED BY <2>1, <2>2, <1>1 DEF Vacant
<1>9. TicketsAreUnique'
  <2>1. \A q \in Producer : pc[q] \in {"store", "publish"} => pos[q] < tail
    BY DEF IInv, ProducerInv
  <2>2. \A q \in Producer : pc[q] \in {"store", "publish"} => pos[q] # tail
    BY <2>1, <1>1 DEF IInv, TypeOK
  <2>3. ASSUME NEW q \in Producer, NEW r \in Producer, q # r, Pushing(q, pos[q])'
        PROVE  ~ Pushing(r, pos[q])'
    BY <2>2, <2>3, <1>1 DEF IInv, TicketsAreUnique, Pushing
  <2>4. ASSUME NEW c \in Consumer, NEW d \in Consumer, c # d, Popping(c, pos[c])'
        PROVE  ~ Popping(d, pos[c])'
    BY <2>4, <1>1 DEF IInv, TicketsAreUnique, Popping
  <2> QED BY <2>3, <2>4 DEF TicketsAreUnique
<1>10. OccupancyBounded' BY <1>1, <1>3 DEF OccupancyBounded
<1> QED BY <1>1, <1>2, <1>5, <1>6, <1>7, <1>8, <1>9, <1>10 DEF IInv

\* The slot an owner works on is no other owner's, and no other live ticket's.
LEMMA PushOwnsSlot ==
    ASSUME IInv, NEW p \in Producer, pc[p] \in {"store", "publish"}
    PROVE  /\ \A q \in Producer \ {p} :
                 pc[q] \in {"store", "publish"} => Slot(pos[q]) # Slot(pos[p])
           /\ \A c \in Consumer : pc[c] \in {"take", "free"} => Slot(pos[c]) # Slot(pos[p])
           /\ \A t \in head..(head + Capacity - 1) : t # pos[p] => Slot(t) # Slot(pos[p])
<1> USE CapacityPositive DEF Thread
<1>1. /\ tail \in Nat /\ head \in Nat /\ tail <= head + Capacity
      /\ pos[p] \in Nat /\ head <= pos[p] /\ pos[p] < tail
  BY DEF IInv, TypeOK, OccupancyBounded, ProducerInv
<1>2. \A t \in head..(head + Capacity - 1) : t # pos[p] => Slot(t) # Slot(pos[p])
  BY <1>1, WindowSlots
<1>3. ASSUME NEW q \in Producer \ {p}, pc[q] \in {"store", "publish"}
      PROVE  Slot(pos[q]) # Slot(pos[p])
  <2>1. pos[q] \in Nat /\ head <= pos[q] /\ pos[q] < tail
    BY <1>3 DEF IInv, TypeOK, ProducerInv
  <2>2. pos[q] # pos[p] BY <1>3 DEF IInv, TicketsAreUnique, Pushing
  <2> QED BY <1>1, <2>1, <2>2, WindowSlots
<1>4. ASSUME NEW c \in Consumer, pc[c] \in {"take", "free"}
      PROVE  Slot(pos[c]) # Slot(pos[p])
  <2>1. pos[c] \in Nat /\ pos[c] < head /\ tail <= pos[c] + Capacity
    BY <1>4 DEF IInv, TypeOK, ConsumerInv
  <2> QED BY <1>1, <2>1, WindowSlots
<1> QED BY <1>2, <1>3, <1>4

\* The same for a thread between the compare-and-swap of head_ and its release of the slot.
LEMMA PopOwnsSlot ==
    ASSUME IInv, NEW c \in Consumer, pc[c] \in {"take", "free"}
    PROVE  /\ \A d \in Consumer \ {c} :
                 pc[d] \in {"take", "free"} => Slot(pos[d]) # Slot(pos[c])
           /\ \A p \in Producer : pc[p] \in {"store", "publish"} => Slot(pos[p]) # Slot(pos[c])
           /\ \A t \in head..(head + Capacity - 1) :
                 t # pos[c] + Capacity => Slot(t) # Slot(pos[c])
<1> USE CapacityPositive DEF Thread
<1>1. /\ tail \in Nat /\ head \in Nat /\ head <= tail
      /\ pos[c] \in Nat /\ pos[c] < head /\ tail <= pos[c] + Capacity
  BY DEF IInv, TypeOK, OccupancyBounded, ConsumerInv
<1>2. Slot(pos[c] + Capacity) = Slot(pos[c]) BY <1>1, SlotWrap
<1>3. \A t \in head..(head + Capacity - 1) :
         t # pos[c] + Capacity => Slot(t) # Slot(pos[c])
  BY <1>1, <1>2, WindowSlots
<1>4. ASSUME NEW d \in Consumer \ {c}, pc[d] \in {"take", "free"}
      PROVE  Slot(pos[d]) # Slot(pos[c])
  <2>1. pos[d] \in Nat /\ pos[d] < head /\ tail <= pos[d] + Capacity
    BY <1>4 DEF IInv, TypeOK, ConsumerInv
  <2>2. pos[d] # pos[c] BY <1>4 DEF IInv, TicketsAreUnique, Popping
  <2> QED BY <1>1, <2>1, <2>2, WindowSlots
<1>5. ASSUME NEW p \in Producer, pc[p] \in {"store", "publish"}
      PROVE  Slot(pos[p]) # Slot(pos[c])
  BY <1>5, PushOwnsSlot
<1> QED BY <1>3, <1>4, <1>5

\* Storing the payload fills a slot that only this push may touch.
LEMMA InvPushStore ==
    ASSUME IInv, TypeOK', NEW p \in Producer, PushStore(p)
    PROVE  IInv'
<1> USE CapacityPositive DEF Thread
<1>1. /\ tail \in Nat /\ head \in Nat /\ tail <= head + Capacity
      /\ p \in Thread /\ p \notin Consumer
      /\ pos[p] \in Nat /\ head <= pos[p] /\ pos[p] < tail
      /\ sequence[Slot(pos[p])] = pos[p] /\ claimed[pos[p] + 1] = entry[p]
      /\ UNCHANGED <<tail, head, sequence, pos, entry, claimed>>
      /\ pc[p] = "store" /\ pc'[p] = "publish"
      /\ \A u \in Thread \ {p} : pc'[u] = pc[u]
      /\ payload'[Slot(pos[p])] = entry[p]
      /\ \A i \in Slots \ {Slot(pos[p])} : payload'[i] = payload[i]
  BY ThreadsAreDistinct, SlotType DEF IInv, TypeOK, OccupancyBounded, ProducerInv, PushStore
<1>2. \A q \in Producer : ProducerInv(q)'
  <2> SUFFICES ASSUME NEW q \in Producer PROVE ProducerInv(q)' OBVIOUS
  <2>1. CASE q = p BY <2>1, <1>1 DEF ProducerInv
  <2>2. CASE q # p
    <3>1. ProducerInv(q) /\ pos[q] \in Nat /\ Slot(pos[q]) \in Slots BY SlotType DEF IInv, TypeOK
    <3>2. pc'[q] = pc[q] BY <1>1, <2>2
    <3> QED BY <3>1, <3>2, <2>2, <1>1, PushOwnsSlot DEF ProducerInv
  <2> QED BY <2>1, <2>2
<1>3. \A c \in Consumer : ConsumerInv(c)'
  <2> SUFFICES ASSUME NEW c \in Consumer PROVE ConsumerInv(c)' OBVIOUS
  <2>1. ConsumerInv(c) /\ Slot(pos[c]) \in Slots /\ pc'[c] = pc[c]
    BY <1>1, SlotType DEF IInv, TypeOK
  <2> QED BY <2>1, <1>1, PushOwnsSlot DEF ConsumerInv
<1>4. \A t \in head..(tail - 1) : Occupied(t)'
  <2> SUFFICES ASSUME NEW t \in head..(tail - 1) PROVE Occupied(t)' OBVIOUS
  <2>1. CASE t = pos[p] BY <2>1, <1>1 DEF Occupied, Pushing
  <2>2. CASE t # pos[p]
    <3>1. Occupied(t) /\ Slot(t) \in Slots BY <1>1, SlotType DEF IInv
    <3>2. Slot(t) # Slot(pos[p]) BY <2>2, <1>1, PushOwnsSlot
    <3>3. \A q \in Producer : Pushing(q, t) => Pushing(q, t)' BY <1>1 DEF Pushing
    <3> QED BY <3>1, <3>2, <3>3, <1>1 DEF Occupied
  <2> QED BY <2>1, <2>2
<1>5. \A t \in tail..(head + Capacity - 1) : Vacant(t)'
  <2> SUFFICES ASSUME NEW t \in tail..(head + Capacity - 1) PROVE Vacant(t)' OBVIOUS
  <2>1. Vacant(t) /\ Slot(t) \in Slots BY <1>1, SlotType DEF IInv
  <2>2. Slot(t) # Slot(pos[p]) BY <1>1, PushOwnsSlot
  <2>3. \A c \in Consumer : Popping(c, t - Capacity) => Popping(c, t - Capacity)'
    BY <1>1 DEF Popping
  <2> QED BY <2>1, <2>2, <2>3, <1>1 DEF Vacant
<1>6. TicketsAreUnique'
  BY <1>1 DEF IInv, TicketsAreUnique, Pushing, Popping
<1> QED BY <1>1, <1>2, <1>3, <1>4, <1>5, <1>6 DEF IInv, OccupancyBounded

\* Publishing turns the ticket of a push in progress into an occupied one.
LEMMA InvPushPublish ==
    ASSUME IInv, TypeOK', NEW p \in Producer, PushPublish(p)
    PROVE  IInv'
<1> USE CapacityPositive DEF Thread
<1>1. /\ tail \in Nat /\ head \in Nat /\ tail <= head + Capacity
      /\ p \in Thread /\ p \notin Consumer
      /\ pos[p] \in Nat /\ head <= pos[p] /\ pos[p] < tail
      /\ sequence[Slot(pos[p])] = pos[p] /\ claimed[pos[p] + 1] = entry[p]
      /\ payload[Slot(pos[p])] = entry[p]
      /\ UNCHANGED <<tail, head, payload, pos, entry, claimed>>
      /\ pc[p] = "publish" /\ pc'[p] = "pushed"
      /\ \A u \in Thread \ {p} : pc'[u] = pc[u]
      /\ sequence'[Slot(pos[p])] = pos[p] + 1
      /\ \A i \in Slots \ {Slot(pos[p])} : sequence'[i] = sequence[i]
  BY ThreadsAreDistinct, SlotType
  DEF IInv, TypeOK, OccupancyBounded, ProducerInv, PushPublish, PublishedSequence
<1>2. \A q \in Producer : ProducerInv(q)'
  <2> SUFFICES ASSUME NEW q \in Producer PROVE ProducerInv(q)' OBVIOUS
  <2>1. CASE q = p BY <2>1, <1>1 DEF ProducerInv
  <2>2. CASE q # p
    <3>1. /\ ProducerInv(q) /\ pos[q] \in Nat
          /\ Slot(pos[q]) \in Slots /\ Slot(tail) \in Slots
      BY <1>1, SlotType DEF IInv, TypeOK
    <3>2. pc'[q] = pc[q] BY <1>1, <2>2
    <3>3. sequence[Slot(tail)] = tail => Slot(tail) # Slot(pos[p]) BY <1>1
    <3> QED BY <3>1, <3>2, <3>3, <2>2, <1>1, PushOwnsSlot DEF ProducerInv
  <2> QED BY <2>1, <2>2
<1>3. \A c \in Consumer : ConsumerInv(c)'
  <2> SUFFICES ASSUME NEW c \in Consumer PROVE ConsumerInv(c)' OBVIOUS
  <2>1. /\ ConsumerInv(c) /\ pc'[c] = pc[c]
        /\ Slot(pos[c]) \in Slots /\ Slot(head) \in Slots
    BY <1>1, SlotType DEF IInv, TypeOK
  <2>2. sequence[Slot(head)] = head + 1 => Slot(head) # Slot(pos[p])
    <3> SUFFICES ASSUME sequence[Slot(head)] = head + 1, Slot(head) = Slot(pos[p]) PROVE FALSE
      OBVIOUS
    <3>1. head = pos[p] BY <1>1, PushOwnsSlot
    <3> QED BY <3>1, <1>1
  <2> QED BY <2>1, <2>2, <1>1, PushOwnsSlot DEF ConsumerInv
<1>4. \A t \in head..(tail - 1) : Occupied(t)'
  <2> SUFFICES ASSUME NEW t \in head..(tail - 1) PROVE Occupied(t)' OBVIOUS
  <2>1. CASE t = pos[p] BY <2>1, <1>1 DEF Occupied
  <2>2. CASE t # pos[p]
    <3>1. Occupied(t) /\ Slot(t) \in Slots BY <1>1, SlotType DEF IInv
    <3>2. Slot(t) # Slot(pos[p]) BY <2>2, <1>1, PushOwnsSlot
    <3>3. \A q \in Producer : Pushing(q, t) => Pushing(q, t)' BY <2>2, <1>1 DEF Pushing
    <3> QED BY <3>1, <3>2, <3>3, <1>1 DEF Occupied
  <2> QED BY <2>1, <2>2
<1>5. \A t \in tail..(head + Capacity - 1) : Vacant(t)'
  <2> SUFFICES ASSUME NEW t \in tail..(head + Capacity - 1) PROVE Vacant(t)' OBVIOUS
  <2>1. Vacant(t) /\ Slot(t) \in Slots BY <1>1, SlotType DEF IInv
  <2>2. Slot(t) # Slot(pos[p]) BY <1>1, PushOwnsSlot
  <2>3. \A c \in Consumer : Popping(c, t - Capacity) => Popping(c, t - Capacity)'
    BY <1>1 DEF Popping
  <2> QED BY <2>1, <2>2, <2>3, <1>1 DEF Vacant
<1>6. TicketsAreUnique'
  BY <1>1 DEF IInv, TicketsAreUnique, Pushing, Popping
<1> QED BY <1>1, <1>2, <1>3, <1>4, <1>5, <1>6 DEF IInv, OccupancyBounded

\* Winning head_ moves the window by one ticket and makes this pop the owner of the slot.
LEMMA InvPopClaim ==
    ASSUME IInv, TypeOK', Capacity > 1, NEW c \in Consumer, PopClaim(c)
    PROVE  IInv'
<1> USE CapacityPositive DEF Thread
<1>1. /\ tail \in Nat /\ head \in Nat /\ head <= tail /\ tail <= head + Capacity
      /\ c \in Thread /\ c \notin Producer
      /\ pos[c] = head /\ head' = head + 1 /\ sequence[Slot(head)] = head + 1
      /\ UNCHANGED <<tail, sequence, payload, pos, entry, claimed>>
      /\ pc'[c] = "take" /\ pc[c] = "popClaim"
      /\ \A u \in Thread \ {c} : pc'[u] = pc[u]
  BY ThreadsAreDistinct DEF IInv, TypeOK, OccupancyBounded, ConsumerInv, PopClaim
<1>2. head < tail
  <2> SUFFICES ASSUME head = tail PROVE FALSE BY <1>1
  <2>1. Vacant(head) BY <1>1 DEF IInv
  <2> QED BY <1>1, <2>1 DEF Vacant
<1>3. payload[Slot(head)] = claimed[head + 1]
  <2>1. Occupied(head) BY <1>1, <1>2 DEF IInv
  <2> QED BY <1>1, <2>1 DEF Occupied
<1>4. \A q \in Producer : ProducerInv(q)'
  <2> SUFFICES ASSUME NEW q \in Producer PROVE ProducerInv(q)' OBVIOUS
  <2>1. ProducerInv(q) /\ pos[q] \in Nat /\ pc'[q] = pc[q] BY <1>1 DEF IInv, TypeOK
  <2>2. pc[q] \in {"store", "publish"} => head + 1 <= pos[q]
    BY <2>1, <1>1 DEF ProducerInv
  <2> QED BY <2>1, <2>2, <1>1 DEF ProducerInv
<1>5. \A d \in Consumer : ConsumerInv(d)'
  <2> SUFFICES ASSUME NEW d \in Consumer PROVE ConsumerInv(d)' OBVIOUS
  <2>1. CASE d = c BY <2>1, <1>1, <1>3 DEF ConsumerInv
  <2>2. CASE d # c
    <3>1. ConsumerInv(d) /\ pos[d] \in Nat BY DEF IInv, TypeOK
    <3>2. pc'[d] = pc[d] BY <1>1, <2>2
    <3> QED BY <3>1, <3>2, <1>1 DEF ConsumerInv
  <2> QED BY <2>1, <2>2
<1>6. \A t \in head'..(tail' - 1) : Occupied(t)'
  <2> SUFFICES ASSUME NEW t \in (head + 1)..(tail - 1) PROVE Occupied(t)' BY <1>1
  <2>1. Occupied(t) BY <1>1 DEF IInv
  <2>2. \A q \in Producer : Pushing(q, t) => Pushing(q, t)' BY <1>1 DEF Pushing
  <2> QED BY <2>1, <2>2, <1>1 DEF Occupied
<1>7. \A t \in tail'..(head' + Capacity - 1) : Vacant(t)'
  <2> SUFFICES ASSUME NEW t \in tail..(head + Capacity) PROVE Vacant(t)' BY <1>1
  <2>1. CASE t = head + Capacity
    <3>1. Slot(t) = Slot(head) BY <2>1, <1>1, SlotWrap
    <3>2. t - Capacity = head BY <2>1, <1>1
    <3>3. Popping(c, t - Capacity)' BY <3>2, <1>1 DEF Popping
    <3> QED BY <2>1, <3>1, <3>2, <3>3, <1>1 DEF Vacant
  <2>2. CASE t # head + Capacity
    <3>1. Vacant(t) BY <2>2, <1>1 DEF IInv
    <3>2. \A d \in Consumer : Popping(d, t - Capacity) => Popping(d, t - Capacity)'
      BY <1>1 DEF Popping
    <3> QED BY <3>1, <3>2, <1>1 DEF Vacant
  <2> QED BY <2>1, <2>2
<1>8. TicketsAreUnique'
  <2>1. \A d \in Consumer : pc[d] \in {"take", "free"} => pos[d] # head
    BY <1>1 DEF IInv, TypeOK, ConsumerInv
  <2>2. ASSUME NEW d \in Consumer, NEW e \in Consumer, d # e, Popping(d, pos[d])'
        PROVE  ~ Popping(e, pos[d])'
    BY <2>1, <2>2, <1>1 DEF IInv, TicketsAreUnique, Popping
  <2>3. ASSUME NEW p \in Producer, NEW q \in Producer, p # q, Pushing(p, pos[p])'
        PROVE  ~ Pushing(q, pos[p])'
    BY <2>3, <1>1 DEF IInv, TicketsAreUnique, Pushing
  <2> QED BY <2>2, <2>3 DEF TicketsAreUnique
<1>9. OccupancyBounded' BY <1>1, <1>2 DEF OccupancyBounded
<1> QED BY <1>1, <1>4, <1>5, <1>6, <1>7, <1>8, <1>9 DEF IInv

\* payload.exchange empties a slot that only this pop may touch.
LEMMA InvPopTake ==
    ASSUME IInv, TypeOK', NEW c \in Consumer, PopTake(c)
    PROVE  IInv'
<1> USE CapacityPositive DEF Thread
<1>1. /\ tail \in Nat /\ head \in Nat /\ head <= tail /\ tail <= head + Capacity
      /\ c \in Thread /\ c \notin Producer
      /\ pos[c] \in Nat /\ pos[c] < head /\ tail <= pos[c] + Capacity
      /\ sequence[Slot(pos[c])] = pos[c] + 1 /\ payload[Slot(pos[c])] = claimed[pos[c] + 1]
      /\ UNCHANGED <<tail, head, sequence, pos, claimed>>
      /\ pc[c] = "take" /\ pc'[c] = "free"
      /\ \A u \in Thread \ {c} : pc'[u] = pc[u] /\ entry'[u] = entry[u]
      /\ entry'[c] = payload[Slot(pos[c])] /\ payload'[Slot(pos[c])] = NoEntry
      /\ \A i \in Slots \ {Slot(pos[c])} : payload'[i] = payload[i]
  BY ThreadsAreDistinct, SlotType DEF IInv, TypeOK, OccupancyBounded, ConsumerInv, PopTake
<1>2. \A q \in Producer : ProducerInv(q)'
  <2> SUFFICES ASSUME NEW q \in Producer PROVE ProducerInv(q)' OBVIOUS
  <2>1. /\ ProducerInv(q) /\ Slot(pos[q]) \in Slots
        /\ pc'[q] = pc[q] /\ entry'[q] = entry[q]
    BY <1>1, SlotType DEF IInv, TypeOK
  <2> QED BY <2>1, <1>1, PopOwnsSlot DEF ProducerInv
<1>3. \A d \in Consumer : ConsumerInv(d)'
  <2> SUFFICES ASSUME NEW d \in Consumer PROVE ConsumerInv(d)' OBVIOUS
  <2>1. CASE d = c BY <2>1, <1>1 DEF ConsumerInv
  <2>2. CASE d # c
    <3>1. ConsumerInv(d) /\ Slot(pos[d]) \in Slots BY SlotType DEF IInv, TypeOK
    <3>2. pc'[d] = pc[d] /\ entry'[d] = entry[d] BY <1>1, <2>2
    <3> QED BY <3>1, <3>2, <2>2, <1>1, PopOwnsSlot DEF ConsumerInv
  <2> QED BY <2>1, <2>2
<1>4. \A t \in head..(tail - 1) : Occupied(t)'
  <2> SUFFICES ASSUME NEW t \in head..(tail - 1) PROVE Occupied(t)' OBVIOUS
  <2>1. Occupied(t) /\ Slot(t) \in Slots BY <1>1, SlotType DEF IInv
  <2>2. Slot(t) # Slot(pos[c]) BY <1>1, PopOwnsSlot
  <2>3. \A q \in Producer : Pushing(q, t) => Pushing(q, t)' BY <1>1 DEF Pushing
  <2> QED BY <2>1, <2>2, <2>3, <1>1 DEF Occupied
<1>5. \A t \in tail..(head + Capacity - 1) : Vacant(t)'
  <2> SUFFICES ASSUME NEW t \in tail..(head + Capacity - 1) PROVE Vacant(t)' OBVIOUS
  <2>1. CASE t = pos[c] + Capacity
    <3>1. Slot(t) = Slot(pos[c]) /\ t - Capacity = pos[c] BY <2>1, <1>1, SlotWrap
    <3>2. Popping(c, pos[c])' BY <1>1 DEF Popping
    <3> QED BY <2>1, <3>1, <3>2, <1>1 DEF Vacant
  <2>2. CASE t # pos[c] + Capacity
    <3>1. Vacant(t) /\ Slot(t) \in Slots BY <1>1, SlotType DEF IInv
    <3>2. Slot(t) # Slot(pos[c]) BY <2>2, <1>1, PopOwnsSlot
    <3>3. \A d \in Consumer : Popping(d, t - Capacity) => Popping(d, t - Capacity)'
      BY <1>1 DEF Popping
    <3> QED BY <3>1, <3>2, <3>3, <1>1 DEF Vacant
  <2> QED BY <2>1, <2>2
<1>6. TicketsAreUnique'
  BY <1>1 DEF IInv, TicketsAreUnique, Pushing, Popping
<1> QED BY <1>1, <1>2, <1>3, <1>4, <1>5, <1>6 DEF IInv, OccupancyBounded

\* Freeing the slot makes its ticket of the next lap vacant.
LEMMA InvPopFree ==
    ASSUME IInv, TypeOK', Capacity > 1, NEW c \in Consumer, PopFree(c)
    PROVE  IInv'
<1> USE CapacityPositive DEF Thread
<1>1. /\ tail \in Nat /\ head \in Nat /\ head <= tail /\ tail <= head + Capacity
      /\ c \in Thread /\ c \notin Producer
      /\ pos[c] \in Nat /\ pos[c] < head /\ tail <= pos[c] + Capacity
      /\ sequence[Slot(pos[c])] = pos[c] + 1 /\ payload[Slot(pos[c])] = NoEntry
      /\ UNCHANGED <<tail, head, payload, pos, entry, claimed>>
      /\ pc[c] = "free" /\ pc'[c] \in {"empty", "popped"}
      /\ \A u \in Thread \ {c} : pc'[u] = pc[u]
      /\ sequence'[Slot(pos[c])] = pos[c] + Capacity
      /\ \A i \in Slots \ {Slot(pos[c])} : sequence'[i] = sequence[i]
  BY ThreadsAreDistinct, SlotType
  DEF IInv, TypeOK, OccupancyBounded, ConsumerInv, PopFree, FreedSequence
<1>2. \A q \in Producer : ProducerInv(q)'
  <2> SUFFICES ASSUME NEW q \in Producer PROVE ProducerInv(q)' OBVIOUS
  <2>1. /\ ProducerInv(q) /\ pc'[q] = pc[q]
        /\ Slot(pos[q]) \in Slots /\ Slot(tail) \in Slots
    BY <1>1, SlotType DEF IInv, TypeOK
  <2>2. sequence[Slot(tail)] = tail => sequence'[Slot(tail)] = tail
    <3>1. CASE tail < head + Capacity BY <3>1, <2>1, <1>1, PopOwnsSlot
    <3>2. CASE tail = head + Capacity BY <3>2, <1>1
    <3> QED BY <3>1, <3>2, <1>1
  <2> QED BY <2>1, <2>2, <1>1, PopOwnsSlot DEF ProducerInv
<1>3. \A d \in Consumer : ConsumerInv(d)'
  <2> SUFFICES ASSUME NEW d \in Consumer PROVE ConsumerInv(d)' OBVIOUS
  <2>1. CASE d = c BY <2>1, <1>1 DEF ConsumerInv
  <2>2. CASE d # c
    <3>1. ConsumerInv(d) /\ Slot(pos[d]) \in Slots /\ Slot(head) \in Slots
      BY <1>1, SlotType DEF IInv, TypeOK
    <3>2. pc'[d] = pc[d] BY <1>1, <2>2
    <3>3. sequence[Slot(head)] = head + 1 => Slot(head) # Slot(pos[c]) BY <1>1
    <3> QED BY <3>1, <3>2, <3>3, <2>2, <1>1, PopOwnsSlot DEF ConsumerInv
  <2> QED BY <2>1, <2>2
<1>4. \A t \in head..(tail - 1) : Occupied(t)'
  <2> SUFFICES ASSUME NEW t \in head..(tail - 1) PROVE Occupied(t)' OBVIOUS
  <2>1. Occupied(t) /\ Slot(t) \in Slots BY <1>1, SlotType DEF IInv
  <2>2. Slot(t) # Slot(pos[c]) BY <1>1, PopOwnsSlot
  <2>3. \A q \in Producer : Pushing(q, t) => Pushing(q, t)' BY <1>1 DEF Pushing
  <2> QED BY <2>1, <2>2, <2>3, <1>1 DEF Occupied
<1>5. \A t \in tail..(head + Capacity - 1) : Vacant(t)'
  <2> SUFFICES ASSUME NEW t \in tail..(head + Capacity - 1) PROVE Vacant(t)' OBVIOUS
  <2>1. CASE t = pos[c] + Capacity
    <3>1. Slot(t) = Slot(pos[c]) BY <2>1, <1>1, SlotWrap
    <3> QED BY <2>1, <3>1, <1>1 DEF Vacant
  <2>2. CASE t # pos[c] + Capacity
    <3>1. Vacant(t) /\ Slot(t) \in Slots BY <1>1, SlotType DEF IInv
    <3>2. Slot(t) # Slot(pos[c]) BY <2>2, <1>1, PopOwnsSlot
    <3>3. \A d \in Consumer : Popping(d, t - Capacity) => Popping(d, t - Capacity)'
      BY <2>2, <1>1 DEF Popping
    <3> QED BY <3>1, <3>2, <3>3, <1>1 DEF Vacant
  <2> QED BY <2>1, <2>2
<1>6. TicketsAreUnique'
  BY <1>1 DEF IInv, TicketsAreUnique, Pushing, Popping
<1> QED BY <1>1, <1>2, <1>3, <1>4, <1>5, <1>6 DEF IInv, OccupancyBounded

\* Every step of the queue keeps the inductive invariant.
LEMMA InvNext ==
    ASSUME IInv, Capacity > 1, [Next]_vars
    PROVE  IInv'
<1>1. CASE UNCHANGED vars
  BY <1>1 DEF vars, IInv, TypeOK, OccupancyBounded, ProducerInv, ConsumerInv,
              Occupied, Vacant, Pushing, Popping, TicketsAreUnique
<1>2. ASSUME NEW p \in Producer, Push(p) \/ PushStep(p) PROVE IInv'
  <2>1. TypeOK' BY <1>2, TypePush DEF IInv
  <2> QED BY <1>2, <2>1, InvPushStart, InvPushCheck, InvPushClaim, InvPushStore, InvPushPublish
          DEF Push, PushStep
<1>3. ASSUME NEW c \in Consumer, EnterPop(c) \/ PopStep(c) PROVE IInv'
  <2>1. TypeOK' BY <1>3, TypePop DEF IInv
  <2> QED BY <1>3, <2>1, InvPopStart, InvPopCheck, InvPopClaim, InvPopTake, InvPopFree
          DEF PopStep
<1> QED BY <1>1, <1>2, <1>3 DEF Next

\* IInv holds in every reachable state of push and pop, for any threads and
\* any capacity that is a power of two greater than one.
THEOREM Invariance ==
    ASSUME Capacity > 1
    PROVE  Spec => []IInv
<1>1. Init => IInv BY InvInit
<1>2. IInv /\ [Next]_vars => IInv' BY InvNext
<1> QED BY <1>1, <1>2, PTL DEF Spec

\* push never stores over an entry that no pop has taken.
THEOREM NoOverwrite ==
    ASSUME Capacity > 1
    PROVE  Spec => []EntryNeverOverwritten
<1>1. IInv => EntryNeverOverwritten BY DEF IInv, ProducerInv, EntryNeverOverwritten
<1> QED BY <1>1, Invariance, PTL

\* The pop that drew ticket t returns the entry of the push that drew ticket t.
THEOREM PopIsFifo ==
    ASSUME Capacity > 1
    PROVE  Spec => []PopGetsItsTicket
<1>1. IInv => PopGetsItsTicket
  BY DEF IInv, TypeOK, OccupancyBounded, ConsumerInv, PopGetsItsTicket, Thread
<1> QED BY <1>1, Invariance, PTL

\* No two threads own the same slot at once.
THEOREM SlotOwnership ==
    ASSUME Capacity > 1
    PROVE  Spec => []SlotsHaveOneOwner
<1>1. IInv => SlotsHaveOneOwner
  <2> SUFFICES ASSUME IInv, NEW t \in Thread, NEW u \in Thread, t # u, Owner(t), Owner(u)
               PROVE  Slot(pos[t]) # Slot(pos[u])
    BY DEF SlotsHaveOneOwner
  <2>1. \A p \in Producer : Owner(p) => pc[p] \in {"store", "publish"}
    BY DEF IInv, TypeOK, Owner, PushPC, PushReturned
  <2>2. \A c \in Consumer : Owner(c) => pc[c] \in {"take", "free"}
    BY DEF IInv, TypeOK, Owner, PopPC, PopReturned
  <2>3. CASE t \in Producer BY <2>1, <2>2, <2>3, PushOwnsSlot DEF Thread
  <2>4. CASE t \in Consumer BY <2>1, <2>2, <2>4, PopOwnsSlot DEF Thread
  <2> QED BY <2>3, <2>4 DEF Thread
<1> QED BY <1>1, Invariance, PTL

-----------------------------------------------------------------------------
(* Refinement of BoundedFifo                                               *)

\* A suffix of a sequence that grows at its end.
LEMMA SubSeqOfAppend ==
    ASSUME NEW S, NEW s \in Seq(S), NEW e \in S, NEW m \in Nat, 1 <= m, m <= Len(s) + 1
    PROVE  SubSeq(Append(s, e), m, Len(s) + 1) = Append(SubSeq(s, m, Len(s)), e)
  OBVIOUS

\* Head and tail of a part of a sequence.
LEMMA SubSeqHeadTail ==
    ASSUME NEW S, NEW s \in Seq(S), NEW m \in Nat, NEW n \in Nat, 1 <= m, m <= n, n <= Len(s)
    PROVE  /\ Head(SubSeq(s, m, n)) = s[m]
           /\ Tail(SubSeq(s, m, n)) = SubSeq(s, m + 1, n)
           /\ SubSeq(s, m, n) # << >>
  OBVIOUS

\* Winning the compare-and-swap of tail_ puts the entry into the abstract queue.
LEMMA PutRefined ==
    ASSUME IInv, IInv', NEW p \in Producer, PushClaim(p)
    PROVE  Fifo!Put
<1> USE CapacityPositive DEF Thread
<1>1. /\ tail \in Nat /\ head \in Nat /\ head <= tail /\ tail + 1 <= head + Capacity
      /\ claimed \in Seq(Line) /\ Len(claimed) = tail /\ entry[p] \in Line
      /\ tail' = tail + 1 /\ head' = head /\ claimed' = Append(claimed, entry[p])
      /\ p \notin Consumer /\ UNCHANGED <<pos, entry>>
      /\ \A u \in Consumer : pc'[u] = pc[u]
  BY ThreadsAreDistinct DEF IInv, TypeOK, OccupancyBounded, PushClaim
<1>2. FifoQueue' = Append(FifoQueue, entry[p])
  <2>1. head + 1 \in Nat /\ 1 <= head + 1 /\ head + 1 <= Len(claimed) + 1 BY <1>1
  <2>2. SubSeq(Append(claimed, entry[p]), head + 1, Len(claimed) + 1)
          = Append(SubSeq(claimed, head + 1, Len(claimed)), entry[p])
    BY <1>1, <2>1, SubSeqOfAppend
  <2>3. FifoQueue' = SubSeq(Append(claimed, entry[p]), head + 1, Len(claimed) + 1)
    BY <1>1 DEF FifoQueue
  <2> QED BY <1>1, <2>2, <2>3 DEF FifoQueue
<1>3. Len(FifoQueue) < Capacity
  BY <1>1 DEF FifoQueue
<1>4. \A c \in Consumer : pc[c] \in {"take", "free"} => claimed'[pos[c] + 1] = claimed[pos[c] + 1]
  BY <1>1 DEF IInv, TypeOK, ConsumerInv
<1>5. FifoHand' = FifoHand /\ FifoOut' = FifoOut
  BY <1>1, <1>4 DEF FifoHand, FifoOut
<1> QED BY <1>1, <1>2, <1>3, <1>5 DEF Fifo!Put

\* Winning the compare-and-swap of head_ takes the oldest entry.
LEMMA TakeRefined ==
    ASSUME IInv, IInv', NEW c \in Consumer, PopClaim(c)
    PROVE  Fifo!Take(c)
<1> USE CapacityPositive DEF Thread
<1>1. /\ tail \in Nat /\ head \in Nat /\ head + 1 <= tail
      /\ claimed \in Seq(Line) /\ Len(claimed) = tail
      /\ head' = head + 1 /\ pos[c] = head /\ pc[c] = "popClaim"
      /\ UNCHANGED <<tail, pos, entry, claimed>>
      /\ pc' = [pc EXCEPT ![c] = "take"] /\ pc \in [Thread -> PushPC \cup PopPC]
  BY DEF IInv, TypeOK, OccupancyBounded, PopClaim
<1>2. FifoQueue # << >> /\ Head(FifoQueue) = claimed[head + 1] /\ FifoQueue' = Tail(FifoQueue)
  <2>1. head + 1 \in Nat /\ 1 <= head + 1 /\ tail <= Len(claimed) BY <1>1
  <2>2. /\ Head(SubSeq(claimed, head + 1, tail)) = claimed[head + 1]
        /\ Tail(SubSeq(claimed, head + 1, tail)) = SubSeq(claimed, head + 1 + 1, tail)
        /\ SubSeq(claimed, head + 1, tail) # << >>
    BY <1>1, <2>1, SubSeqHeadTail
  <2>3. FifoQueue' = SubSeq(claimed, head + 1 + 1, tail) BY <1>1 DEF FifoQueue
  <2> QED BY <2>2, <2>3 DEF FifoQueue
<1>3. FifoHand[c] = NoEntry BY <1>1 DEF FifoHand
<1>4. FifoHand' = [FifoHand EXCEPT ![c] = claimed[head + 1]] BY <1>1 DEF FifoHand
<1>5. FifoOut' = FifoOut BY <1>1 DEF FifoOut
<1> QED BY <1>2, <1>3, <1>4, <1>5 DEF Fifo!Take

\* Freeing the slot is where pop returns the entry.
LEMMA DeliverRefined ==
    ASSUME IInv, NEW c \in Consumer, PopFree(c)
    PROVE  Fifo!Deliver(c)
<1> USE DEF Thread
<1>1. /\ claimed \in Seq(Line) /\ Len(claimed) = tail /\ tail \in Nat /\ head \in Nat
      /\ pos[c] \in Nat /\ pos[c] < head /\ head <= tail
      /\ pc[c] = "free" /\ entry[c] = claimed[pos[c] + 1]
      /\ UNCHANGED <<tail, head, pos, entry, claimed>>
      /\ pc' = [pc EXCEPT ![c] = IF entry[c] = NoEntry THEN "empty" ELSE "popped"]
      /\ pc \in [Thread -> PushPC \cup PopPC]
  BY DEF IInv, TypeOK, OccupancyBounded, ConsumerInv, PopFree
<1>2. claimed[pos[c] + 1] \in Line BY <1>1
<1>3. entry[c] # NoEntry BY <1>1, <1>2, NoEntryIsNoLine DEF Line
<1>4. FifoHand[c] = entry[c] BY <1>1 DEF FifoHand
<1>5. FifoHand' = [FifoHand EXCEPT ![c] = NoEntry] BY <1>1, <1>3 DEF FifoHand
<1>6. FifoOut' = [FifoOut EXCEPT ![c] = FifoHand[c]] BY <1>1, <1>3, <1>4 DEF FifoOut
<1>7. FifoQueue' = FifoQueue BY <1>1 DEF FifoQueue
<1> QED BY <1>3, <1>4, <1>5, <1>6, <1>7 DEF Fifo!Deliver

\* Calling pop again forgets the entry the last call returned, if it did.
LEMMA ForgetRefined ==
    ASSUME IInv, NEW c \in Consumer, EnterPop(c)
    PROVE  Fifo!Forget(c) \/ UNCHANGED <<FifoQueue, FifoHand, FifoOut>>
<1> USE DEF Thread
<1>1. /\ UNCHANGED <<tail, head, entry, claimed>>
      /\ pc[c] \in {"idle", "popped", "empty"}
      /\ pc' = [pc EXCEPT ![c] = "popCheck"] /\ pc \in [Thread -> PushPC \cup PopPC]
      /\ \A u \in Thread \ {c} : pos'[u] = pos[u]
  BY DEF IInv, TypeOK, EnterPop, PopReturned
<1>2. FifoQueue' = FifoQueue BY <1>1 DEF FifoQueue
<1>3. FifoHand' = FifoHand BY <1>1 DEF FifoHand
<1>4. FifoOut' = [FifoOut EXCEPT ![c] = NoEntry] BY <1>1 DEF FifoOut
<1>5. CASE FifoOut[c] = NoEntry
  <2>1. FifoOut' = FifoOut BY <1>4, <1>5 DEF FifoOut
  <2> QED BY <2>1, <1>2, <1>3
<1>6. CASE FifoOut[c] # NoEntry BY <1>2, <1>3, <1>4, <1>6 DEF Fifo!Forget
<1> QED BY <1>5, <1>6

\* Every other step is invisible to the abstract queue.
LEMMA OthersStutter ==
    ASSUME IInv,
           \/ \E p \in Producer : Push(p) \/ PushCheck(p) \/ PushLose(p) \/ PushStore(p) \/ PushPublish(p)
           \/ \E c \in Consumer : PopCheck(c) \/ PopLose(c) \/ PopTake(c)
    PROVE  UNCHANGED <<FifoQueue, FifoHand, FifoOut>>
<1> USE DEF Thread
<1>1. UNCHANGED <<tail, head, claimed>>
  BY DEF Push, EnterPush, PushCheck, PushLose, PushStore, PushPublish, PopCheck, PopLose, PopTake
<1>2. \A c \in Consumer : /\ (pc'[c] \in {"take", "free"}) = (pc[c] \in {"take", "free"})
                          /\ pc[c] \in {"take", "free"} => pos'[c] = pos[c]
                          /\ (pc'[c] = "popped") = (pc[c] = "popped")
                          /\ pc[c] = "popped" => entry'[c] = entry[c]
  BY ThreadsAreDistinct
  DEF IInv, TypeOK, Push, EnterPush, PushCheck, PushLose, PushStore, PushPublish,
      PopCheck, PopVerdict, PopLose, PopTake
<1>3. FifoQueue' = FifoQueue BY <1>1 DEF FifoQueue
<1>4. FifoHand' = FifoHand BY <1>1, <1>2 DEF FifoHand
<1>5. FifoOut' = FifoOut BY <1>2 DEF FifoOut
<1> QED BY <1>3, <1>4, <1>5

\* LogQueue implements BoundedFifo: whatever the interleaving of the accesses,
\* callers see a first-in first-out queue of at most Capacity lines.
THEOREM Refinement ==
    ASSUME Capacity > 1
    PROVE  Spec => ImplementsFifo
<1>1. Init => Fifo!Init
  BY DEF Init, Fifo!Init, FifoQueue, FifoHand, FifoOut, Thread
<1>2. IInv /\ IInv' /\ [Next]_vars => [Fifo!Next]_<<FifoQueue, FifoHand, FifoOut>>
  <2> SUFFICES ASSUME IInv, IInv', [Next]_vars
               PROVE  [Fifo!Next]_<<FifoQueue, FifoHand, FifoOut>>
    OBVIOUS
  <2>1. CASE UNCHANGED vars BY <2>1 DEF vars, FifoQueue, FifoHand, FifoOut
  <2>2. ASSUME NEW p \in Producer, Push(p) \/ PushStep(p)
        PROVE  [Fifo!Next]_<<FifoQueue, FifoHand, FifoOut>>
    BY <2>2, PutRefined, OthersStutter DEF PushStep, Fifo!Next
  <2>3. ASSUME NEW c \in Consumer, EnterPop(c) \/ PopStep(c)
        PROVE  [Fifo!Next]_<<FifoQueue, FifoHand, FifoOut>>
    BY <2>3, TakeRefined, DeliverRefined, ForgetRefined, OthersStutter DEF PopStep, Fifo!Next
  <2> QED BY <2>1, <2>2, <2>3 DEF Next
<1> QED BY <1>1, <1>2, Invariance, PTL DEF Spec, ImplementsFifo, Fifo!Spec

=============================================================================
