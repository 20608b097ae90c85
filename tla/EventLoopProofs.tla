-------------------------- MODULE EventLoopProofs --------------------------
(***************************************************************************)
(* Proofs about EventLoop for any number of callers and of functors: no    *)
(* functor is lost, called twice or called out of order, and the loop does *)
(* not sleep on work.                                                      *)
(***************************************************************************)
EXTENDS EventLoop, SequenceTheorems, TLAPS

\* What Emplace does to the functors of all threads: one more at the end.
LEMMA EmplaceAtEnd ==
  ASSUME NEW S, NEW a \in Seq(S), NEW b \in Seq(S), NEW c \in Seq(S), NEW e \in S
  PROVE  a \o b \o Append(c, e) = Append(a \o b \o c, e)
<1>1. Append(c, e) = c \o <<e>> BY AppendIsConcat
<1>2. a \o b \in Seq(S) BY ConcatProperties
<1>3. (a \o b) \o c \in Seq(S) BY <1>2, ConcatProperties
<1>4. Append((a \o b) \o c, e) = ((a \o b) \o c) \o <<e>> BY <1>3, AppendIsConcat
<1>5. <<e>> \in Seq(S) OBVIOUS
<1>6. ((a \o b) \o c) \o <<e>> = (a \o b) \o (c \o <<e>>) BY <1>2, <1>5, ConcatAssociative
<1> QED BY <1>1, <1>4, <1>6

\* What CallFunctor does to them: the first functor moves from one end to the other.
LEMMA HeadMoves ==
  ASSUME NEW S, NEW a \in Seq(S), NEW b \in Seq(S), b # << >>
  PROVE  Append(a, Head(b)) \o Tail(b) = a \o b
<1>1. Head(b) \in S /\ Tail(b) \in Seq(S) BY HeadTailProperties
<1>2. Append(a, Head(b)) = a \o <<Head(b)>> BY <1>1, AppendIsConcat
<1>3. <<Head(b)>> \in Seq(S) BY <1>1
<1>4. (a \o <<Head(b)>>) \o Tail(b) = a \o (<<Head(b)>> \o Tail(b))
  BY <1>1, <1>3, ConcatAssociative
<1>5. <<Head(b)>> \o Tail(b) = b
  <2>1. Len(<<Head(b)>>) = 1 /\ <<Head(b)>>[1] = Head(b) OBVIOUS
  <2>2. Len(b) \in Nat \ {0} /\ Len(Tail(b)) = Len(b) - 1 BY EmptySeq, HeadTailProperties
  <2>3. <<Head(b)>> \o Tail(b) \in Seq(S) /\ Len(<<Head(b)>> \o Tail(b)) = Len(b)
    BY <1>1, <1>3, <2>1, <2>2, ConcatProperties
  <2>4. ASSUME NEW i \in 1..Len(b) PROVE (<<Head(b)>> \o Tail(b))[i] = b[i]
    <3>1. Head(b) = b[1] BY <2>2
    <3>2. (<<Head(b)>> \o Tail(b))[i] = IF i <= 1 THEN <<Head(b)>>[i] ELSE Tail(b)[i - 1]
      BY <1>1, <1>3, <2>1, <2>2, ConcatProperties
    <3>3. CASE i = 1 BY <3>1, <3>2, <3>3, <2>1
    <3>4. CASE i # 1
      <4>1. i - 1 \in 1..Len(Tail(b)) BY <3>4, <2>2
      <4>2. Tail(b)[i - 1] = b[(i - 1) + 1] BY <4>1, HeadTailProperties
      <4> QED BY <4>2, <3>2, <3>4, <2>2
    <3> QED BY <3>3, <3>4
  <2> QED BY <2>2, <2>3, <2>4, SeqEqual
<1> QED BY <1>2, <1>4, <1>5

-----------------------------------------------------------------------------
(* Type correctness                                                        *)

\* Emplace keeps the queue well typed and puts the new functor last.
LEMMA EmplaceType ==
  ASSUME ETypeOK, NEW x \in Caller \cup {LoopThread}, Emplace(x)
  PROVE  /\ calls' \in [Caller \cup {LoopThread} -> Nat]
         /\ pending' \in Seq(Functor) /\ queued' \in Seq(Functor)
         /\ pending' # << >>
         /\ \E e \in Functor : pending' = Append(pending, e) /\ queued' = Append(queued, e)
<1>1. calls[x] \in Nat BY DEF ETypeOK
<1>2. <<x, calls[x] + 1>> \in Functor BY <1>1 DEF Functor
<1>3. pending \in Seq(Functor) /\ queued \in Seq(Functor) BY DEF ETypeOK
<1>4. pending' = Append(pending, <<x, calls[x] + 1>>) /\ queued' = Append(queued, <<x, calls[x] + 1>>)
  BY DEF Emplace
<1> HIDE DEF Functor
<1>5. pending' \in Seq(Functor) /\ queued' \in Seq(Functor) /\ pending' # << >>
  BY <1>2, <1>3, <1>4, AppendProperties
<1>6. calls' \in [Caller \cup {LoopThread} -> Nat] BY <1>1 DEF ETypeOK, Emplace
<1> QED BY <1>2, <1>4, <1>5, <1>6

-----------------------------------------------------------------------------
(* The inductive invariant                                                 *)

\* The steps that queue and call no functor: the sequences, or their concatenation, stay.
LEMMA QuietSteps ==
  ASSUME EInv,
         \/ StartThread \/ StartReturns \/ Quit \/ QuitWakeup \/ Join
         \/ Publish \/ EnterLoop \/ Test \/ HandleRead \/ FunctorsDone \/ ThreadEnds
         \/ \E events \in SUBSET {"wakeup", "io"} : Poll(events)
         \/ \E c \in Caller : Wakeup(c)
         \/ UNCHANGED evars
  PROVE  EInv'
<1> USE DEF EInv, FunctorsAreAnnounced, ThreadState, NoLostWakeup, CalledInOrder,
            thread, queue
<1>1. UNCHANGED <<pending, functors, queued, ran, calls>>
  BY DEF StartThread, StartReturns, Quit, QuitWakeup, Join, Publish, EnterLoop, Test,
         HandleRead, FunctorsDone, ThreadEnds, Poll, Wakeup, evars
<1>2. CalledInOrder' BY <1>1
<1>3. CASE StartThread BY <1>1, <1>3 DEF StartThread, ETypeOK, ThreadPC, OwnerPC
<1>4. CASE StartReturns BY <1>1, <1>4 DEF StartReturns, ETypeOK, ThreadPC, OwnerPC
<1>5. CASE Quit BY <1>1, <1>5 DEF Quit, ETypeOK, ThreadPC, OwnerPC
<1>6. CASE QuitWakeup BY <1>1, <1>6 DEF QuitWakeup, Write, ETypeOK, ThreadPC, OwnerPC
<1>7. CASE Join BY <1>1, <1>7 DEF Join, ETypeOK, ThreadPC, OwnerPC
<1>8. CASE Publish BY <1>1, <1>8 DEF Publish, ETypeOK, ThreadPC, OwnerPC
<1>9. CASE EnterLoop BY <1>1, <1>9 DEF EnterLoop, ETypeOK, ThreadPC, OwnerPC
<1>10. CASE Test BY <1>1, <1>10 DEF Test, ETypeOK, ThreadPC, OwnerPC
<1>11. CASE HandleRead BY <1>1, <1>11 DEF HandleRead, ETypeOK, ThreadPC, OwnerPC
<1>12. CASE FunctorsDone BY <1>1, <1>12 DEF FunctorsDone, ETypeOK, ThreadPC, OwnerPC
<1>13. CASE ThreadEnds BY <1>1, <1>13 DEF ThreadEnds, ETypeOK, ThreadPC, OwnerPC
<1>14. ASSUME NEW events \in SUBSET {"wakeup", "io"}, Poll(events) PROVE EInv'
  BY <1>1, <1>14 DEF Poll, ETypeOK, ThreadPC, OwnerPC
<1>15. ASSUME NEW c \in Caller, Wakeup(c) PROVE EInv'
  <2>1. tpc # "gone" => signal' = TRUE BY <1>15 DEF Wakeup, Write
  <2>2. tpc' = tpc \/ (tpc = "gone" /\ tpc' = "crashed") BY <1>15 DEF Wakeup, Write
  <2>3. ETypeOK' BY <1>1, <1>15 DEF Wakeup, Write, ETypeOK, ThreadPC, OwnerPC
  <2>4. UNCHANGED <<calling, quit, owner>> BY <1>15 DEF Wakeup
  <2>5. tpc = "gone" => tpc' \in {"gone", "crashed"} BY <2>2
  <2> QED BY <1>1, <2>1, <2>2, <2>3, <2>4, <2>5
<1>16. CASE UNCHANGED evars BY <1>1, <1>16 DEF evars, ETypeOK
<1> QED
  BY <1>3, <1>4, <1>5, <1>6, <1>7, <1>8, <1>9, <1>10, <1>11, <1>12, <1>13, <1>14, <1>15, <1>16

\* A caller's emplace_back comes before its wakeup.
LEMMA QueueInLoopStep ==
  ASSUME EInv, NEW c \in Caller, QueueInLoop(c)
  PROVE  EInv'
<1>1. Emplace(c) /\ waking' = waking \cup {c} /\ UNCHANGED <<thread, owner, signal, ran>>
  BY DEF QueueInLoop
<1>2. PICK e \in Functor : pending' = Append(pending, e) /\ queued' = Append(queued, e)
  BY <1>1, EmplaceType DEF EInv
<1>3. ETypeOK'
  <2>1. /\ calls' \in [Caller \cup {LoopThread} -> Nat]
        /\ pending' \in Seq(Functor) /\ queued' \in Seq(Functor)
    BY <1>1, EmplaceType DEF EInv
  <2> QED BY <1>1, <2>1 DEF EInv, ETypeOK, thread
<1>4. CalledInOrder'
  <2>1. ran \in Seq(Functor) /\ functors \in Seq(Functor) /\ pending \in Seq(Functor)
    BY DEF EInv, ETypeOK
  <2>2. ran \o functors \o Append(pending, e) = Append(ran \o functors \o pending, e)
    BY <2>1, EmplaceAtEnd
  <2> QED BY <1>1, <1>2, <2>2 DEF EInv, CalledInOrder, thread
<1>5. waking' # {} BY <1>1
<1> QED BY <1>1, <1>3, <1>4, <1>5
        DEF EInv, FunctorsAreAnnounced, ThreadState, NoLostWakeup, thread

\* A handler that may queue a functor: the swap is still to come.
LEMMA HandleEventsStep ==
  ASSUME EInv, HandleEvents
  PROVE  EInv'
<1>1. /\ tpc = "handle" /\ todo' = todo \ {"io"}
      /\ UNCHANGED <<tpc, published, quit, calling, functors, owner, waking, ran>>
  BY DEF HandleEvents
<1>2. CASE UNCHANGED <<queue, signal>>
  BY <1>1, <1>2 DEF EInv, ETypeOK, FunctorsAreAnnounced, ThreadState, NoLostWakeup, CalledInOrder, queue
<1>3. CASE QueueInOwnLoop
  <2>1. Emplace(LoopThread) /\ signal' = (signal \/ calling) BY <1>3 DEF QueueInOwnLoop
  <2>2. PICK e \in Functor : pending' = Append(pending, e) /\ queued' = Append(queued, e)
    BY <2>1, EmplaceType DEF EInv
  <2>3. /\ calls' \in [Caller \cup {LoopThread} -> Nat]
        /\ pending' \in Seq(Functor) /\ queued' \in Seq(Functor)
    BY <2>1, EmplaceType DEF EInv
  <2>4. ETypeOK' BY <1>1, <2>1, <2>3 DEF EInv, ETypeOK
  <2>5. ran \o functors \o Append(pending, e) = Append(ran \o functors \o pending, e)
    <3>1. ran \in Seq(Functor) /\ functors \in Seq(Functor) /\ pending \in Seq(Functor)
      BY DEF EInv, ETypeOK
    <3> QED BY <3>1, EmplaceAtEnd
  <2>6. CalledInOrder' BY <1>1, <2>2, <2>5 DEF EInv, CalledInOrder
  <2> QED BY <1>1, <2>4, <2>6 DEF EInv, FunctorsAreAnnounced, ThreadState, NoLostWakeup
<1> QED BY <1>2, <1>3 DEF HandleEvents

\* The swap leaves nothing behind and changes no order.
LEMMA SwapFunctorsStep ==
  ASSUME EInv, SwapFunctors
  PROVE  EInv'
<1>1. /\ tpc = "handle" /\ tpc' = "call" /\ calling' = TRUE /\ functors' = pending /\ pending' = << >>
      /\ UNCHANGED <<published, quit, todo, calls, queued, owner, signal, waking, ran>>
  BY DEF SwapFunctors
<1>2. << >> \in Seq(Functor) /\ functors = << >> BY EmptySeq DEF EInv, ThreadState, SwapFunctors
<1>3. ETypeOK' BY <1>1, <1>2 DEF EInv, ETypeOK, ThreadPC
<1>4. CalledInOrder'
  <2>1. ran \o << >> = ran /\ (ran \o pending) \o << >> = ran \o pending
    BY ConcatEmptySeq, ConcatProperties DEF EInv, ETypeOK
  <2> QED BY <1>1, <1>2, <2>1 DEF EInv, CalledInOrder
<1> QED BY <1>1, <1>2, <1>3, <1>4 DEF EInv, FunctorsAreAnnounced, ThreadState, NoLostWakeup

\* A functor that may queue another one: callingPendingFunctors_ makes it write to wakeupFd_.
LEMMA CallFunctorStep ==
  ASSUME EInv, CallFunctor
  PROVE  EInv'
<1>1. /\ tpc = "call" /\ functors # << >>
      /\ functors' = Tail(functors) /\ ran' = Append(ran, Head(functors))
      /\ UNCHANGED <<tpc, published, quit, calling, todo, owner, waking>>
  BY DEF CallFunctor
<1>2. functors' \in Seq(Functor) /\ Head(functors) \in Functor
  BY <1>1, HeadTailProperties DEF EInv, ETypeOK
<1>3. ran' \in Seq(Functor) BY <1>1, <1>2, AppendProperties DEF EInv, ETypeOK
<1>4. ran' \o functors' = ran \o functors BY <1>1, HeadMoves DEF EInv, ETypeOK
<1>5. calling = TRUE BY <1>1 DEF EInv, ThreadState, ETypeOK
<1>6. CASE UNCHANGED <<queue, signal>>
  BY <1>1, <1>2, <1>3, <1>4, <1>6
     DEF EInv, ETypeOK, FunctorsAreAnnounced, ThreadState, NoLostWakeup, CalledInOrder, queue
<1>7. CASE QueueInOwnLoop
  <2>1. Emplace(LoopThread) /\ signal' = TRUE BY <1>5, <1>7 DEF QueueInOwnLoop
  <2>2. PICK e \in Functor : pending' = Append(pending, e) /\ queued' = Append(queued, e)
    BY <2>1, EmplaceType DEF EInv
  <2>3. /\ calls' \in [Caller \cup {LoopThread} -> Nat]
        /\ pending' \in Seq(Functor) /\ queued' \in Seq(Functor)
    BY <2>1, EmplaceType DEF EInv
  <2>4. ETypeOK' BY <1>1, <1>2, <1>3, <2>1, <2>3 DEF EInv, ETypeOK
  <2>5. ran \o functors \o Append(pending, e) = Append(ran \o functors \o pending, e)
    <3>1. ran \in Seq(Functor) /\ functors \in Seq(Functor) /\ pending \in Seq(Functor)
      BY DEF EInv, ETypeOK
    <3> QED BY <3>1, EmplaceAtEnd
  <2>6. CalledInOrder' BY <1>4, <2>2, <2>5 DEF EInv, CalledInOrder
  <2> QED BY <1>1, <2>1, <2>4, <2>6 DEF EInv, FunctorsAreAnnounced, ThreadState, NoLostWakeup
<1> QED BY <1>6, <1>7 DEF CallFunctor

\* The invariant is inductive.
LEMMA EInvPreserved == EInv /\ [ENext]_evars => EInv'
<1> SUFFICES ASSUME EInv, [ENext]_evars PROVE EInv' OBVIOUS
<1>1. CASE \/ StartThread \/ StartReturns \/ Quit \/ QuitWakeup \/ Join
          \/ Publish \/ EnterLoop \/ Test \/ HandleRead \/ FunctorsDone \/ ThreadEnds
          \/ UNCHANGED evars
  BY <1>1, QuietSteps
<1>2. ASSUME NEW io \in SUBSET {"io"}, Poll(io \cup {"wakeup"}) PROVE EInv'
  <2>1. io \cup {"wakeup"} \in SUBSET {"wakeup", "io"} OBVIOUS
  <2> QED BY <1>2, <2>1, QuietSteps
<1>3. CASE Poll({"io"})
  <2>1. {"io"} \in SUBSET {"wakeup", "io"} OBVIOUS
  <2> QED BY <1>3, <2>1, QuietSteps
<1>4. ASSUME NEW c \in Caller, Wakeup(c) PROVE EInv' BY <1>4, QuietSteps
<1>5. ASSUME NEW c \in Caller, QueueInLoop(c) PROVE EInv' BY <1>5, QueueInLoopStep
<1>6. CASE HandleEvents BY <1>6, HandleEventsStep
<1>7. CASE SwapFunctors BY <1>7, SwapFunctorsStep
<1>8. CASE CallFunctor BY <1>8, CallFunctorStep
<1> QED BY <1>1, <1>2, <1>3, <1>4, <1>5, <1>6, <1>7, <1>8 DEF ENext, ThreadStep

\* It holds when nothing has been started.
LEMMA EInvInit == EInit => EInv
<1> SUFFICES ASSUME EInit PROVE EInv OBVIOUS
<1>1. << >> \in Seq(Functor) BY EmptySeq
<1>2. ETypeOK BY <1>1 DEF EInit, ETypeOK, ThreadPC, OwnerPC
<1>3. << >> \o << >> \o << >> = << >> BY <1>1, ConcatEmptySeq
<1> QED BY <1>2, <1>3
        DEF EInit, EInv, FunctorsAreAnnounced, ThreadState, NoLostWakeup, CalledInOrder

-----------------------------------------------------------------------------
(* Theorems                                                                *)

\* Every reachable state is well typed and satisfies the inductive invariant.
THEOREM EInvariance == ESpec => []EInv
<1>1. EInit => EInv BY EInvInit
<1>2. EInv /\ [ENext]_evars => EInv' BY EInvPreserved
<1> QED BY <1>1, <1>2, PTL DEF ESpec

\* The loop never sleeps in epoll_wait on a functor or on quit_ without an event of
\* wakeupFd_, or a thread about to write to it: queueInLoop and quit lose no wakeup.
THEOREM WakeupIsNotLost == ESpec => []NoLostWakeup
<1>1. EInv => NoLostWakeup BY DEF EInv
<1> QED BY <1>1, EInvariance, PTL

\* doPendingFunctors calls the functors in the order of queueInLoop, each one once.
THEOREM FunctorsInOrder == ESpec => []CalledInOrder
<1>1. EInv => CalledInOrder BY DEF EInv
<1> QED BY <1>1, EInvariance, PTL
=============================================================================
