------------------------- MODULE AsyncLoggingProofs -------------------------
(***************************************************************************)
(* For buffers of any size, any number of lines and any limit of at least  *)
(* two buffers: the asserts of threadFunc hold (RecyclingInv), and no line *)
(* is lost, doubled or out of order on its way to the file (LineInv).      *)
(***************************************************************************)
EXTENDS AsyncLogging, TLAPS, WellFoundedInduction, SequenceTheorems

Buffer == Seq(Nat)

BufferTypes ==
    /\ current \in Buffer
    /\ next \in Buffer \cup {Null}
    /\ buffers \in Seq(Buffer)
    /\ toWrite \in Seq(Buffer)

\* The spare that append has taken left the full buffer behind, in buffers_.
SpareWasUsed == next = Null => buffers # << >>

\* Between the swap and the recycling, there is a buffer for each spare that was given away.
Replaceable ==
    tpc \in {"drop", "write", "recycle"} =>
        /\ newBuffer1 = Null
        /\ newBuffer2 \in {Null, << >>}
        /\ Len(toWrite) >= IF newBuffer2 = Null THEN 2 ELSE 1

\* Before the swap, both spares are there and empty.
Ready == tpc \notin {"drop", "write", "recycle"} => newBuffer1 = << >> /\ newBuffer2 = << >> /\ toWrite = << >>

\* There is no thread before start.
Unstarted == owner = "new" => tpc = "none"

RecyclingInv == Unstarted /\ BufferTypes /\ SpareWasUsed /\ Replaceable /\ Ready

-----------------------------------------------------------------------------

\* The null pointer is not the empty buffer.
LEMMA EmptyIsNotNull == << >> # Null
<1>1. << >> \in Seq(Nat) OBVIOUS
<1> QED BY <1>1, OtherConstants

\* append keeps the invariant: it does not touch the thread's buffers.
LEMMA AppendInv == ASSUME RecyclingInv, appended \in Nat, DoAppend PROVE RecyclingInv'
<1> USE DEF RecyclingInv, Unstarted, BufferTypes, SpareWasUsed, Replaceable, Ready, DoAppend, spares, life
<1>1. CASE AppendLine
  <2>1. current' \in Buffer BY <1>1 DEF AppendLine, Put, Buffer
  <2> QED BY <1>1, <2>1 DEF AppendLine
<1>2. CASE AppendToSpare
  <2>1. current' \in Buffer
    <3>1. (IF next # Null THEN next ELSE << >>) \in Buffer BY DEF Buffer
    <3> QED BY <1>2, <3>1 DEF AppendToSpare, Put, Buffer
  <2>2. buffers' \in Seq(Buffer) /\ buffers' # << >> BY <1>2 DEF AppendToSpare
  <2> QED BY <1>2, <2>1, <2>2 DEF AppendToSpare
<1> QED BY <1>1, <1>2

\* The swap: if append has used the spare, buffers_ holds a buffer besides the current one.
LEMMA ExchangeInv == ASSUME RecyclingInv, tpc \in {"lock", "wait"}, Exchange PROVE RecyclingInv'
<1> USE DEF RecyclingInv, Unstarted, BufferTypes, SpareWasUsed, Replaceable, Ready, Exchange, life
<1>1. newBuffer1 = << >> /\ newBuffer2 = << >> OBVIOUS
<1>2. toWrite' \in Seq(Buffer) /\ Len(toWrite') = Len(buffers) + 1 OBVIOUS
<1>3. next = Null => Len(buffers) >= 1 OBVIOUS
<1>4. current' \in Buffer /\ next' \in Buffer /\ buffers' \in Seq(Buffer) BY <1>1 DEF Buffer
<1>5. next' # Null BY <1>1, EmptyIsNotNull
<1>6. newBuffer1' = Null /\ newBuffer2' \in {Null, << >>} BY <1>1
<1>7. newBuffer2' = Null => next = Null BY <1>1, EmptyIsNotNull
<1>8. Len(toWrite') >= IF newBuffer2' = Null THEN 2 ELSE 1 BY <1>2, <1>3, <1>7
<1>9. tpc' = "drop" OBVIOUS
<1> QED BY <1>2, <1>4, <1>5, <1>6, <1>8, <1>9

\* Dropping and resizing leave two buffers, or all there were.
LEMMA Shortened ==
    ASSUME NEW bs \in Seq(Buffer), NEW cs, cs = SubSeq(bs, 1, 2), Len(bs) >= 2
    PROVE  cs \in Seq(Buffer) /\ Len(cs) = 2
OBVIOUS

\* Every step of the specification keeps the invariant.
LEMMA StepInv == ASSUME RecyclingInv, appended \in Nat, [ANext]_avars PROVE RecyclingInv'
<1> USE DEF RecyclingInv, Unstarted, BufferTypes, SpareWasUsed, Replaceable, Ready, life, front, spares, output
<1>1. CASE Start BY <1>1 DEF Start
<1>2. CASE StartReturns BY <1>2 DEF StartReturns
<1>3. CASE Stop BY <1>3 DEF Stop
<1>4. CASE Join BY <1>4 DEF Join
<1>5. CASE DoAppend BY <1>5, AppendInv
<1>6. CASE Boot \/ ThreadFunc BY <1>6 DEF Boot, ThreadFunc
<1>7. CASE Test BY <1>7 DEF Test
<1>8. CASE Wait BY <1>8 DEF Wait
<1>9. CASE SwapAtOnce BY <1>9, ExchangeInv DEF SwapAtOnce
<1>10. CASE SwapAfterWait BY <1>10, ExchangeInv DEF SwapAfterWait
<1>11. CASE Drop
  <2>1. CASE Len(toWrite) > MaxToWrite
    <3>1. Len(toWrite) >= 2 BY <2>1, MaxToWriteAssumption
    <3>2. toWrite' = SubSeq(toWrite, 1, 2) BY <1>11, <2>1 DEF Drop, Keep
    <3>3. toWrite' \in Seq(Buffer) /\ Len(toWrite') = 2 BY <3>1, <3>2, Shortened
    <3> QED BY <1>11, <3>3 DEF Drop
  <2>2. CASE ~ (Len(toWrite) > MaxToWrite) BY <1>11, <2>2 DEF Drop, Keep
  <2> QED BY <2>1, <2>2
<1>12. CASE WriteBuffer BY <1>12 DEF WriteBuffer
<1>13. CASE Written
  <2>1. CASE Len(toWrite) > 2
    <3>1. toWrite' = SubSeq(toWrite, 1, 2) BY <1>13, <2>1 DEF Written
    <3>2. toWrite' \in Seq(Buffer) /\ Len(toWrite') = 2 BY <2>1, <3>1, Shortened
    <3> QED BY <1>13, <3>2 DEF Written
  <2>2. CASE ~ (Len(toWrite) > 2) BY <1>13, <2>2 DEF Written
  <2> QED BY <2>1, <2>2
<1>14. CASE Recycle
  <2>1. newBuffer1' = << >> /\ newBuffer2' = << >> BY <1>14 DEF Recycle, Emptied
  <2>2. toWrite' = << >> /\ tpc' = "test" /\ owner # "new" /\ UNCHANGED <<current, next, buffers, owner>>
    BY <1>14 DEF Recycle
  <2> QED BY <2>1, <2>2
<1>15. CASE UNCHANGED avars BY <1>15 DEF avars
<1> QED BY <1>1, <1>2, <1>3, <1>4, <1>5, <1>6, <1>7, <1>8, <1>9, <1>10, <1>11, <1>12, <1>13, <1>14, <1>15
        DEF ANext, ThreadStep

\* The number of lines stays a number.
LEMMA AppendedType == ASSUME appended \in Nat, [ANext]_avars PROVE appended' \in Nat
BY DEF ANext, ThreadStep, avars, front, Start, StartReturns, Stop, Join, DoAppend, Boot, ThreadFunc, Test, Wait,
       SwapAtOnce, SwapAfterWait, Exchange, Drop, WriteBuffer, Written, Recycle

\* What the asserts say follows from the invariant.
LEMMA InvImpliesAsserts == RecyclingInv => RecyclingNeverFails
<1> SUFFICES ASSUME RecyclingInv PROVE RecyclingNeverFails OBVIOUS
<1> USE DEF RecyclingInv, Unstarted, BufferTypes, Replaceable, Ready
<1>1. tpc = "recycle" => Len(toWrite) >= Needed BY EmptyIsNotNull DEF Needed
<1>2. tpc \in {"test", "lock", "wait"} => newBuffer1 = << >> /\ newBuffer2 = << >> /\ toWrite = << >> OBVIOUS
<1> QED BY <1>1, <1>2 DEF RecyclingNeverFails

\* threadFunc never fails an assert and never takes a spare from an empty vector: a spare that
\* append used up was replaced by a full buffer, which the thread gets with the same swap.
THEOREM AssertsHold == ASpec => []RecyclingNeverFails
<1>1. AInit => RecyclingInv /\ appended \in Nat
  BY EmptyIsNotNull DEF AInit, RecyclingInv, Unstarted, BufferTypes, SpareWasUsed, Replaceable, Ready, Buffer
<1>2. RecyclingInv /\ appended \in Nat /\ [ANext]_avars => (RecyclingInv /\ appended \in Nat)'
  BY StepInv, AppendedType
<1> QED BY <1>1, <1>2, InvImpliesAsserts, PTL DEF ASpec

-----------------------------------------------------------------------------
(* Lines                                                                   *)

\* A set that contains 0 and with every number the next one contains all of them: induction, in a
\* form that needs no operator as a parameter.
LEMMA NatSetInduction ==
    ASSUME NEW S, 0 \in S, \A n \in Nat : n \in S => n + 1 \in S
    PROVE  Nat \subseteq S
<1> DEFINE T == Nat \ S
           R == OpToRel(<, Nat)
<1> SUFFICES ASSUME T # {} PROVE FALSE OBVIOUS
<1>1. \A m, n \in Nat : m < n => <<m, n>> \in R BY DEF OpToRel
<1>2. IsWellFoundedOn(R, Nat) BY NatLessThanWellFounded
<1> HIDE DEF R
<1>3. PICK x \in T : \A y \in T : ~ (<<y, x>> \in R)
  <2> HIDE DEF T
  <2>1. T \subseteq Nat BY DEF T
  <2> QED BY <1>2, <2>1, WFMin
<1>4. x # 0 /\ x - 1 \in Nat OBVIOUS
<1>5. <<x - 1, x>> \in R
  <2>1. x \in Nat /\ x - 1 < x OBVIOUS
  <2> QED BY <1>1, <1>4, <2>1
<1>6. x - 1 \notin T
  <2> HIDE DEF T
  <2> QED BY <1>3, <1>5
<1> QED BY <1>4, <1>6

\* The rounds of Lines
LinesLoop(f, bs, n) == f = [k \in 0..n |-> IF k = 0 THEN << >> ELSE f[k - 1] \o bs[k]]

\* can be told one after the other.
LEMMA LinesRounds == ASSUME NEW bs, NEW n \in Nat PROVE \E f : LinesLoop(f, bs, n)
<1> DEFINE S == {m \in Nat : \E f : LinesLoop(f, bs, m)}
<1>1. 0 \in S
  <2> DEFINE f == [k \in 0..0 |-> << >>]
  <2>1. f = [k \in 0..0 |-> IF k = 0 THEN << >> ELSE f[k - 1] \o bs[k]] OBVIOUS
  <2>2. LinesLoop(f, bs, 0) BY <2>1 DEF LinesLoop
  <2> QED BY <2>2
<1>2. ASSUME NEW m \in Nat, m \in S PROVE m + 1 \in S
  <2>1. PICK g : LinesLoop(g, bs, m) BY <1>2
  <2> DEFINE h == [k \in 0..(m + 1) |-> IF k = m + 1 THEN g[m] \o bs[m + 1] ELSE g[k]]
  <2>2. ASSUME NEW k \in 0..(m + 1) PROVE h[k] = IF k = 0 THEN << >> ELSE h[k - 1] \o bs[k]
    <3>0. g = [j \in 0..m |-> IF j = 0 THEN << >> ELSE g[j - 1] \o bs[j]] BY <2>1 DEF LinesLoop
    <3>1. CASE k = 0
      <4>1. 0 \in 0..m /\ 0 # m + 1 OBVIOUS
      <4> QED BY <3>0, <3>1, <4>1
    <3>2. CASE k = m + 1
      <4>1. k - 1 = m /\ m \in 0..(m + 1) /\ m # m + 1 /\ k # 0 BY <3>2
      <4>2. h[m] = g[m] BY <4>1
      <4> QED BY <3>2, <4>1, <4>2
    <3>3. CASE k # 0 /\ k # m + 1
      <4>1. k \in 0..m /\ k - 1 \in 0..m /\ k - 1 # m + 1 /\ k - 1 \in 0..(m + 1) BY <3>3
      <4>2. h[k] = g[k] /\ h[k - 1] = g[k - 1] BY <3>3, <4>1
      <4>3. g[k] = g[k - 1] \o bs[k] BY <3>0, <3>3, <4>1
      <4> QED BY <3>3, <4>2, <4>3
    <3> QED BY <3>1, <3>2, <3>3
  <2>3. LinesLoop(h, bs, m + 1) BY <2>2 DEF LinesLoop
  <2> QED BY <2>3
<1> HIDE DEF S
<1>3. n \in S BY <1>1, <1>2, NatSetInduction
<1> QED BY <1>3 DEF S

LEMMA LinesByRounds ==
    ASSUME NEW bs \in Seq(Buffer)
    PROVE  \E f : LinesLoop(f, bs, Len(bs)) /\ Lines(bs) = f[Len(bs)]
<1> DEFINE n == Len(bs)
           f == CHOOSE g : LinesLoop(g, bs, n)
<1>1. n \in Nat OBVIOUS
<1>2. Lines(bs) = f[n] BY DEF Lines, LinesLoop
<1> HIDE DEF n
<1>3. LinesLoop(f, bs, n) BY <1>1, LinesRounds
<1> QED BY <1>2, <1>3 DEF n

\* A round
Rounds(f, bs, n) == f[0] = << >> /\ \A k \in 1..n : f[k] = f[k - 1] \o bs[k]

LEMMA RoundFacts == ASSUME NEW f, NEW bs, NEW n \in Nat, LinesLoop(f, bs, n) PROVE Rounds(f, bs, n)
<1>1. 0 \in 0..n /\ \A k \in 1..n : k \in 0..n /\ k # 0 OBVIOUS
<1>2. f = [k \in 0..n |-> IF k = 0 THEN << >> ELSE f[k - 1] \o bs[k]] BY DEF LinesLoop
<1>3. f[0] = << >> BY <1>1, <1>2
<1>4. \A k \in 1..n : f[k] = f[k - 1] \o bs[k] BY <1>1, <1>2
<1> QED BY <1>3, <1>4 DEF Rounds

\* has the lines of so many buffers.
LEMMA RoundsAgree ==
    ASSUME NEW f, NEW bs, NEW n \in Nat, LinesLoop(f, bs, n),
           NEW g, NEW cs, NEW m \in 0..n, LinesLoop(g, cs, m), \A k \in 1..m : cs[k] = bs[k]
    PROVE  g[m] = f[m]
<1> DEFINE S == {k \in Nat : k <= m => g[k] = f[k]}
<1>1. /\ f[0] = << >> /\ \A k \in 1..n : f[k] = f[k - 1] \o bs[k]
      /\ g[0] = << >> /\ \A k \in 1..m : g[k] = g[k - 1] \o cs[k]
  <2>1. m \in Nat OBVIOUS
  <2>2. Rounds(f, bs, n) /\ Rounds(g, cs, m) BY <2>1, RoundFacts
  <2> QED BY <2>2 DEF Rounds
<1>2. 0 \in S BY <1>1
<1>3. ASSUME NEW k \in Nat, k \in S PROVE k + 1 \in S
  <2> SUFFICES ASSUME k + 1 <= m PROVE g[k + 1] = f[k + 1] OBVIOUS
  <2>1. k + 1 \in 1..m /\ k + 1 \in 1..n /\ (k + 1) - 1 = k /\ k <= m OBVIOUS
  <2>2. g[k] = f[k] BY <1>3, <2>1
  <2>3. f[k + 1] = f[k] \o bs[k + 1] /\ g[k + 1] = g[k] \o cs[k + 1] BY <1>1, <2>1
  <2> QED BY <2>1, <2>2, <2>3
<1> HIDE DEF S
<1>4. m \in S BY <1>2, <1>3, NatSetInduction
<1> QED BY <1>4 DEF S

LEMMA RoundsType ==
    ASSUME NEW f, NEW bs \in Seq(Buffer), LinesLoop(f, bs, Len(bs)), NEW m \in 0..Len(bs)
    PROVE  f[m] \in Buffer
<1> DEFINE n == Len(bs)
           S == {k \in Nat : k <= n => f[k] \in Buffer}
<1>0. n \in Nat /\ \A k \in 1..n : bs[k] \in Buffer OBVIOUS
<1> HIDE DEF n
<1>1. f[0] = << >> /\ \A k \in 1..n : f[k] = f[k - 1] \o bs[k] 
  <2>1. Rounds(f, bs, n) BY <1>0, RoundFacts DEF n
  <2> QED BY <2>1 DEF Rounds
<1>2. 0 \in S
  <2>1. << >> \in Buffer BY DEF Buffer
  <2> QED BY <1>1, <2>1
<1>3. ASSUME NEW k \in Nat, k \in S PROVE k + 1 \in S
  <2> SUFFICES ASSUME k + 1 <= n PROVE f[k + 1] \in Buffer OBVIOUS
  <2>1. k + 1 \in 1..n /\ (k + 1) - 1 = k /\ k <= n BY <1>0
  <2>2. f[k] \in Buffer /\ bs[k + 1] \in Buffer BY <1>0, <1>3, <2>1
  <2>3. f[k + 1] = f[k] \o bs[k + 1] BY <1>1, <2>1
  <2>4. \A s, t \in Buffer : s \o t \in Buffer BY DEF Buffer
  <2> QED BY <2>2, <2>3, <2>4
<1> HIDE DEF S
<1>4. m \in S BY <1>2, <1>3, NatSetInduction DEF n
<1> QED BY <1>4 DEF S, n

LEMMA LinesType == ASSUME NEW bs \in Seq(Buffer) PROVE Lines(bs) \in Buffer
<1>1. PICK f : LinesLoop(f, bs, Len(bs)) /\ Lines(bs) = f[Len(bs)] BY LinesByRounds
<1>2. PICK n \in 0..Len(bs) : n = Len(bs) OBVIOUS
<1>3. f[n] \in Buffer BY <1>1, RoundsType
<1> QED BY <1>1, <1>2, <1>3

LEMMA BufferConcat == ASSUME NEW s \in Buffer, NEW t \in Buffer, NEW u \in Buffer PROVE (s \o t) \o u = s \o (t \o u)
<1>1. s \in Seq(Nat) /\ t \in Seq(Nat) /\ u \in Seq(Nat) BY DEF Buffer
<1> QED BY <1>1, ConcatAssociative, SMTT(30)

\* The lines of some buffers, and then those of the rest.
LEMMA LinesSplit ==
    ASSUME NEW bs \in Seq(Buffer), NEW k \in 0..Len(bs)
    PROVE  Lines(bs) = Lines(SubSeq(bs, 1, k)) \o Lines(SubSeq(bs, k + 1, Len(bs)))
<1> DEFINE n == Len(bs)
           cs == SubSeq(bs, 1, k)
           ds == SubSeq(bs, k + 1, n)
<1>0. n \in Nat /\ k \in Nat /\ k <= n /\ n - k \in Nat OBVIOUS
<1>1. cs \in Seq(Buffer) /\ Len(cs) = k /\ \A j \in 1..k : cs[j] = bs[j] OBVIOUS
<1>2. ds \in Seq(Buffer) /\ Len(ds) = n - k /\ \A j \in 1..(n - k) : ds[j] = bs[k + j] OBVIOUS
<1> HIDE DEF cs, ds
<1>3. PICK f : LinesLoop(f, bs, n) /\ Lines(bs) = f[n] BY LinesByRounds
<1>4. PICK g : LinesLoop(g, cs, Len(cs)) /\ Lines(cs) = g[Len(cs)] BY <1>1, LinesByRounds
<1>5. PICK h : LinesLoop(h, ds, Len(ds)) /\ Lines(ds) = h[Len(ds)] BY <1>2, LinesByRounds
<1>6. LinesLoop(g, cs, k) /\ Lines(cs) = g[k] /\ LinesLoop(h, ds, n - k) /\ Lines(ds) = h[n - k]
  BY <1>1, <1>2, <1>4, <1>5
<1>7. g[k] = f[k] BY <1>0, <1>1, <1>3, <1>6, RoundsAgree
<1>8. /\ \A j \in 1..n : f[j] = f[j - 1] \o bs[j]
      /\ h[0] = << >> /\ \A j \in 1..(n - k) : h[j] = h[j - 1] \o ds[j]
  <2>1. Rounds(f, bs, n) BY <1>0, <1>3, RoundFacts
  <2>2. PICK m \in Nat : m = n - k BY <1>0
  <2>3. LinesLoop(h, ds, m) BY <1>6, <2>2
  <2>4. Rounds(h, ds, m) BY <2>3, RoundFacts
  <2> QED BY <2>1, <2>2, <2>4 DEF Rounds
<1>9. \A j \in 0..n : f[j] \in Buffer BY <1>3, RoundsType
<1>10. \A j \in 0..(n - k) : h[j] \in Buffer BY <1>2, <1>5, RoundsType
<1>11. \A j \in 1..n : bs[j] \in Buffer OBVIOUS
<1> HIDE DEF n
<1> DEFINE S == {j \in Nat : j <= n - k => f[k + j] = f[k] \o h[j]}
<1>12. 0 \in S
  <2>1. f[k] \in Buffer BY <1>0, <1>9
  <2>2. f[k] \o << >> = f[k] BY <2>1 DEF Buffer
  <2>3. k + 0 = k BY <1>0
  <2> QED BY <1>8, <2>2, <2>3
<1>13. ASSUME NEW j \in Nat, j \in S PROVE j + 1 \in S
  <2>0. PICK m \in Nat : m = j + 1 OBVIOUS
  <2> SUFFICES ASSUME m <= n - k PROVE f[k + m] = f[k] \o h[m]
    <3>1. m \in S <=> (m <= n - k => f[k + m] = f[k] \o h[m]) OBVIOUS
    <3> HIDE DEF S
    <3> QED BY <2>0, <3>1
  <2>1. /\ m \in 1..(n - k) /\ m - 1 = j /\ j <= n - k /\ k + m \in 1..n
        /\ (k + m) - 1 = k + j /\ j \in 0..(n - k) /\ k \in 0..n
    BY <1>0, <2>0
  <2>2. f[k + j] = f[k] \o h[j] BY <1>13, <2>1
  <2>3. f[k + m] = f[k + j] \o bs[k + m] BY <1>8, <2>1
  <2>4. h[m] = h[j] \o bs[k + m] BY <1>2, <1>8, <2>1
  <2>5. f[k] \in Buffer /\ h[j] \in Buffer /\ bs[k + m] \in Buffer BY <1>9, <1>10, <1>11, <2>1
  <2>6. (f[k] \o h[j]) \o bs[k + m] = f[k] \o (h[j] \o bs[k + m]) BY <2>5, BufferConcat
  <2> QED BY <2>2, <2>3, <2>4, <2>6
<1> HIDE DEF S
<1>14. n - k \in S BY <1>0, <1>12, <1>13, NatSetInduction
<1>15. f[k + (n - k)] = f[k] \o h[n - k]
  <2>1. PICK j : j = n - k OBVIOUS
  <2>2. j \in S /\ j <= n - k BY <1>0, <1>14, <2>1
  <2>3. f[k + j] = f[k] \o h[j] BY <2>2 DEF S
  <2> QED BY <2>1, <2>3
<1>16. k + (n - k) = n BY <1>0
<1>17. Lines(bs) = Lines(cs) \o Lines(ds) BY <1>3, <1>6, <1>7, <1>15, <1>16
<1> QED BY <1>17 DEF cs, ds, n

LEMMA LinesEmpty == Lines(<< >>) = << >>
<1>1. << >> \in Seq(Buffer) /\ Len(<< >>) = 0 OBVIOUS
<1>2. PICK f : LinesLoop(f, << >>, 0) /\ Lines(<< >>) = f[0] BY <1>1, LinesByRounds
<1>3. Rounds(f, << >>, 0) BY <1>2, RoundFacts
<1> QED BY <1>2, <1>3 DEF Rounds

LEMMA LinesOne == ASSUME NEW b \in Buffer PROVE Lines(<<b>>) = b
<1>1. <<b>> \in Seq(Buffer) /\ Len(<<b>>) = 1 /\ <<b>>[1] = b OBVIOUS
<1>2. PICK f : LinesLoop(f, <<b>>, 1) /\ Lines(<<b>>) = f[1] BY <1>1, LinesByRounds
<1>3. f[0] = << >> /\ \A k \in 1..1 : f[k] = f[k - 1] \o <<b>>[k]
  <2> DEFINE bs == <<b>>
             n == 1
  <2>1. LinesLoop(f, bs, n) /\ n \in Nat BY <1>2
  <2> HIDE DEF bs, n
  <2>2. Rounds(f, bs, n) BY <2>1, RoundFacts
  <2> QED BY <2>2 DEF Rounds, bs, n
<1>4. f[1] = f[0] \o <<b>>[1]
  <2>1. 1 \in 1..1 /\ 1 - 1 = 0 OBVIOUS
  <2> QED BY <1>3, <2>1
<1>5. << >> \o b = b BY DEF Buffer
<1> QED BY <1>1, <1>2, <1>3, <1>4, <1>5

LEMMA Single == ASSUME NEW s \in Seq(Buffer), Len(s) = 1 PROVE s = <<s[1]>>
OBVIOUS

LEMMA LinesAppend ==
    ASSUME NEW bs \in Seq(Buffer), NEW b \in Buffer PROVE Lines(Append(bs, b)) = Lines(bs) \o b
<1> DEFINE cs == Append(bs, b)
           n == Len(bs)
<1>1. n \in Nat /\ cs \in Seq(Buffer) /\ Len(cs) = n + 1 /\ n \in 0..Len(cs) OBVIOUS
<1>2. SubSeq(cs, 1, n) = bs OBVIOUS
<1>3. SubSeq(cs, n + 1, n + 1) = <<b>>
  <2> DEFINE s == SubSeq(cs, n + 1, n + 1)
  <2>1. s \in Seq(Buffer) /\ Len(s) = 1 /\ s[1] = b OBVIOUS
  <2> HIDE DEF s
  <2>2. s = <<b>> BY <2>1, Single
  <2> QED BY <2>2 DEF s
<1> HIDE DEF cs, n
<1>4. Lines(cs) = Lines(bs) \o Lines(<<b>>) BY <1>1, <1>2, <1>3, LinesSplit
<1> QED BY <1>4, LinesOne DEF cs

LEMMA LinesNext ==
    ASSUME NEW bs \in Seq(Buffer), NEW i0 \in 1..Len(bs)
    PROVE  Lines(SubSeq(bs, i0, Len(bs))) = bs[i0] \o Lines(SubSeq(bs, i0 + 1, Len(bs)))
<1> DEFINE n == Len(bs)
           cs == SubSeq(bs, i0, n)
<1>1. n \in Nat /\ cs \in Seq(Buffer) /\ Len(cs) = n - i0 + 1 /\ 1 \in 0..Len(cs) OBVIOUS
<1>2. SubSeq(cs, 1, 1) = <<bs[i0]>>
  <2> DEFINE s == SubSeq(cs, 1, 1)
  <2>1. s \in Seq(Buffer) /\ Len(s) = 1 /\ s[1] = bs[i0] OBVIOUS
  <2> HIDE DEF s
  <2>2. s = <<bs[i0]>> BY <2>1, Single
  <2> QED BY <2>2 DEF s
<1>3. SubSeq(cs, 1 + 1, Len(cs)) = SubSeq(bs, i0 + 1, n) OBVIOUS
<1>4. bs[i0] \in Buffer OBVIOUS
<1> HIDE DEF cs, n
<1>5. Lines(cs) = Lines(<<bs[i0]>>) \o Lines(SubSeq(bs, i0 + 1, n)) BY <1>1, <1>2, <1>3, LinesSplit
<1> QED BY <1>4, <1>5, LinesOne DEF cs, n

-----------------------------------------------------------------------------
(* Sequences that rise                                                     *)

Rising(s) == \A j, k \in 1..Len(s) : j < k => s[j] < s[k]
Below(S, T) == \A x \in S : \A y \in T : x < y

LEMMA ConcatElements ==
    ASSUME NEW s \in Buffer, NEW t \in Buffer
    PROVE  /\ s \o t \in Buffer /\ Len(s \o t) = Len(s) + Len(t) /\ Len(s) \in Nat /\ Len(t) \in Nat
           /\ \A j \in 1..Len(s) : (s \o t)[j] = s[j]
           /\ \A j \in 1..Len(t) : (s \o t)[Len(s) + j] = t[j]
BY DEF Buffer

\* An element of one sequence or of the other.
LEMMA ConcatIndex ==
    ASSUME NEW m \in Nat, NEW n \in Nat, NEW j \in 1..(m + n)
    PROVE  j \in 1..m \/ \E k \in 1..n : j = m + k
<1>1. CASE j <= m BY <1>1
<1>2. CASE j > m
  <2>1. j - m \in 1..n /\ j = m + (j - m) BY <1>2
  <2> QED BY <2>1
<1> QED BY <1>1, <1>2

LEMMA SetConcat == ASSUME NEW s \in Buffer, NEW t \in Buffer PROVE SetOf(s \o t) = SetOf(s) \cup SetOf(t)
<1> DEFINE x == s \o t
           m == Len(s)
           n == Len(t)
<1>1. /\ Len(x) = m + n /\ m \in Nat /\ n \in Nat
      /\ \A j \in 1..m : x[j] = s[j] /\ j \in 1..(m + n)
      /\ \A j \in 1..n : x[m + j] = t[j] /\ m + j \in 1..(m + n)
  BY ConcatElements
<1> HIDE DEF x, m, n
<1>2. ASSUME NEW e \in SetOf(x) PROVE e \in SetOf(s) \cup SetOf(t)
  <2>1. PICK j \in 1..(m + n) : e = x[j] BY <1>1 DEF SetOf
  <2>2. j \in 1..m \/ \E k \in 1..n : j = m + k BY <1>1, ConcatIndex
  <2> QED BY <1>1, <2>1, <2>2 DEF SetOf, m, n
<1>3. ASSUME NEW e \in SetOf(s) \cup SetOf(t) PROVE e \in SetOf(x)
  <2>1. CASE e \in SetOf(s)
    <3>1. PICK j \in 1..m : e = s[j] BY <2>1 DEF SetOf, m
    <3>2. e = x[j] /\ j \in 1..Len(x) BY <1>1, <3>1
    <3> QED BY <3>2 DEF SetOf
  <2>2. CASE e \in SetOf(t)
    <3>1. PICK j \in 1..n : e = t[j] BY <2>2 DEF SetOf, n
    <3>2. e = x[m + j] /\ m + j \in 1..Len(x) BY <1>1, <3>1
    <3> QED BY <3>2 DEF SetOf
  <2> QED BY <2>1, <2>2
<1> QED BY <1>2, <1>3 DEF x

LEMMA RisingConcat ==
    ASSUME NEW s \in Buffer, NEW t \in Buffer
    PROVE  Rising(s \o t) <=> Rising(s) /\ Rising(t) /\ Below(SetOf(s), SetOf(t))
<1> DEFINE x == s \o t
           m == Len(s)
           n == Len(t)
<1>1. /\ Len(x) = m + n /\ m \in Nat /\ n \in Nat
      /\ \A j \in 1..m : x[j] = s[j] /\ j \in 1..(m + n)
      /\ \A j \in 1..n : x[m + j] = t[j] /\ m + j \in 1..(m + n)
  BY ConcatElements
<1> HIDE DEF x, m, n
<1>2. ASSUME Rising(x) PROVE Rising(s) /\ Rising(t) /\ Below(SetOf(s), SetOf(t))
  <2>1. \A j, k \in 1..(m + n) : j < k => x[j] < x[k] BY <1>1, <1>2 DEF Rising
  <2>2. \A j, k \in 1..m : j < k => s[j] < s[k] BY <1>1, <2>1
  <2>3. ASSUME NEW j \in 1..n, NEW k \in 1..n, j < k PROVE t[j] < t[k]
    <3>1. m + j < m + k BY <1>1, <2>3
    <3> QED BY <1>1, <2>1, <3>1
  <2>4. ASSUME NEW j \in 1..m, NEW k \in 1..n PROVE s[j] < t[k]
    <3>1. j < m + k BY <1>1
    <3> QED BY <1>1, <2>1, <3>1
  <2> QED BY <2>2, <2>3, <2>4 DEF Rising, Below, SetOf, m, n
<1>3. ASSUME Rising(s), Rising(t), Below(SetOf(s), SetOf(t)) PROVE Rising(x)
  <2> SUFFICES ASSUME NEW j \in 1..(m + n), NEW k \in 1..(m + n), j < k PROVE x[j] < x[k]
    BY <1>1 DEF Rising
  <2>1. /\ \A p, q \in 1..m : p < q => s[p] < s[q]
        /\ \A p, q \in 1..n : p < q => t[p] < t[q]
        /\ \A p \in 1..m : \A q \in 1..n : s[p] < t[q]
    BY <1>3 DEF Rising, Below, SetOf, m, n
  <2>2. j \in 1..m \/ \E p \in 1..n : j = m + p BY <1>1, ConcatIndex
  <2>3. k \in 1..m \/ \E p \in 1..n : k = m + p BY <1>1, ConcatIndex
  <2>4. CASE j \in 1..m /\ k \in 1..m BY <1>1, <2>1, <2>4
  <2>5. ASSUME j \in 1..m, NEW q \in 1..n, k = m + q PROVE x[j] < x[k] BY <1>1, <2>1, <2>5
  <2>6. ASSUME NEW p \in 1..n, j = m + p, NEW q \in 1..n, k = m + q PROVE x[j] < x[k]
    <3>1. p < q BY <1>1, <2>6
    <3> QED BY <1>1, <2>1, <2>6, <3>1
  <2>7. ASSUME NEW p \in 1..n, j = m + p, k \in 1..m PROVE FALSE BY <1>1, <2>7
  <2> QED BY <2>2, <2>3, <2>4, <2>5, <2>6, <2>7
<1> QED BY <1>2, <1>3 DEF x

LEMMA RisingOne == ASSUME NEW e \in Nat PROVE <<e>> \in Buffer /\ Rising(<<e>>) /\ SetOf(<<e>>) = {e}
<1>1. <<e>> \in Buffer /\ Len(<<e>>) = 1 /\ <<e>>[1] = e BY DEF Buffer
<1> DEFINE x == <<e>>
<1> HIDE DEF x
<1>2. Rising(x) /\ SetOf(x) = {e}
  <2>1. 1..Len(x) = {1} /\ x[1] = e BY <1>1 DEF x
  <2> QED BY <2>1 DEF Rising, SetOf
<1> QED BY <1>1, <1>2 DEF x

LEMMA RisingNone == << >> \in Buffer /\ Rising(<< >>) /\ SetOf(<< >>) = {}
BY DEF Buffer, Rising, SetOf

-----------------------------------------------------------------------------
(* Where the lines are: written (a), to be written (b), waiting (c) and in *)
(* the current buffer (d), n having been appended and L lost.              *)

InPlace(a, b, c, d, n, L) ==
    /\ a \in Buffer /\ b \in Buffer /\ c \in Buffer /\ d \in Buffer /\ n \in Nat /\ L \subseteq 1..n
    /\ Rising(a) /\ Rising(b) /\ Rising(c) /\ Rising(d)
    /\ Below(SetOf(a), SetOf(b)) /\ Below(SetOf(a), SetOf(c)) /\ Below(SetOf(a), SetOf(d))
    /\ Below(SetOf(b), SetOf(c)) /\ Below(SetOf(b), SetOf(d)) /\ Below(SetOf(c), SetOf(d))
    /\ SetOf(a) \cup SetOf(b) \cup SetOf(c) \cup SetOf(d) = (1..n) \ L

LEMMA PlacesRise ==
    ASSUME NEW a, NEW b, NEW c, NEW d, NEW n, NEW L, InPlace(a, b, c, d, n, L)
    PROVE  Rising(((a \o b) \o c) \o d) /\ SetOf(((a \o b) \o c) \o d) = (1..n) \ L
<1> DEFINE u == a \o b
           v == u \o c
<1>1. a \in Buffer /\ b \in Buffer /\ c \in Buffer /\ d \in Buffer BY DEF InPlace
<1>2. u \in Buffer /\ Rising(u) /\ SetOf(u) = SetOf(a) \cup SetOf(b)
  BY <1>1, ConcatElements, RisingConcat, SetConcat DEF InPlace
<1> HIDE DEF u
<1>3. Below(SetOf(u), SetOf(c)) BY <1>2 DEF InPlace, Below
<1>4. v \in Buffer /\ Rising(v) /\ SetOf(v) = SetOf(u) \cup SetOf(c)
  BY <1>1, <1>2, <1>3, ConcatElements, RisingConcat, SetConcat DEF InPlace
<1> HIDE DEF v
<1>5. Below(SetOf(v), SetOf(d)) BY <1>2, <1>4 DEF InPlace, Below
<1>6. Rising(v \o d) /\ SetOf(v \o d) = SetOf(v) \cup SetOf(d)
  BY <1>1, <1>4, <1>5, RisingConcat, SetConcat DEF InPlace
<1>7. SetOf(v \o d) = (1..n) \ L BY <1>2, <1>4, <1>6 DEF InPlace
<1> QED BY <1>6, <1>7 DEF u, v

\* append: the line is the last one,
LEMMA PlaceLine ==
    ASSUME NEW a, NEW b, NEW c, NEW d, NEW n, NEW L, InPlace(a, b, c, d, n, L)
    PROVE  InPlace(a, b, c, d \o <<n + 1>>, n + 1, L)
<1> DEFINE x == <<n + 1>>
           y == d \o x
<1>1. n \in Nat /\ n + 1 \in Nat /\ d \in Buffer BY DEF InPlace
<1>2. x \in Buffer /\ Rising(x) /\ SetOf(x) = {n + 1} BY <1>1, RisingOne
<1> HIDE DEF x
<1>3. Below(1..n, {n + 1}) /\ 1..(n + 1) = (1..n) \cup {n + 1} /\ n + 1 \notin 1..n BY <1>1 DEF Below
<1>4. SetOf(a) \cup SetOf(b) \cup SetOf(c) \cup SetOf(d) \subseteq 1..n BY DEF InPlace
<1>5. y \in Buffer /\ SetOf(y) = SetOf(d) \cup {n + 1} BY <1>1, <1>2, ConcatElements, SetConcat
<1>6. Below(SetOf(d), SetOf(x)) BY <1>2, <1>3, <1>4 DEF Below
<1>7. Rising(y) BY <1>1, <1>2, <1>6, RisingConcat DEF InPlace
<1> HIDE DEF y
<1>8. Below(SetOf(a), SetOf(y)) /\ Below(SetOf(b), SetOf(y)) /\ Below(SetOf(c), SetOf(y))
  BY <1>3, <1>4, <1>5 DEF Below, InPlace
<1>9. L \subseteq 1..(n + 1) /\ SetOf(a) \cup SetOf(b) \cup SetOf(c) \cup SetOf(y) = (1..(n + 1)) \ L
  BY <1>3, <1>5 DEF InPlace
<1>10. InPlace(a, b, c, y, n + 1, L) BY <1>1, <1>5, <1>7, <1>8, <1>9 DEF InPlace
<1> QED BY <1>10 DEF x, y

\* and a full buffer goes to those that wait.
LEMMA PlaceFull ==
    ASSUME NEW a, NEW b, NEW c, NEW d, NEW n, NEW L, InPlace(a, b, c, d, n, L)
    PROVE  InPlace(a, b, c \o d, << >>, n, L)
<1> DEFINE x == c \o d
<1>1. a \in Buffer /\ b \in Buffer /\ c \in Buffer /\ d \in Buffer BY DEF InPlace
<1>2. x \in Buffer /\ Rising(x) /\ SetOf(x) = SetOf(c) \cup SetOf(d)
  BY <1>1, ConcatElements, RisingConcat, SetConcat DEF InPlace
<1> HIDE DEF x
<1>3. Below(SetOf(a), SetOf(x)) /\ Below(SetOf(b), SetOf(x)) BY <1>2 DEF InPlace, Below
<1>4. SetOf(a) \cup SetOf(b) \cup SetOf(x) \cup {} = (1..n) \ L BY <1>2 DEF InPlace
<1>5. InPlace(a, b, x, << >>, n, L) BY <1>1, <1>2, <1>3, <1>4, RisingNone DEF InPlace, Below
<1> QED BY <1>5 DEF x

\* The swap: what waits is to be written.
LEMMA PlaceSwap ==
    ASSUME NEW a, NEW c, NEW d, NEW n, NEW L, InPlace(a, << >>, c, d, n, L)
    PROVE  InPlace(a, c \o d, << >>, << >>, n, L)
<1>1. InPlace(a, << >>, c \o d, << >>, n, L) BY PlaceFull
<1> DEFINE x == c \o d
<1> HIDE DEF x
<1>2. InPlace(a, x, << >>, << >>, n, L) BY <1>1, RisingNone DEF InPlace, Below, x
<1> QED BY <1>2 DEF x

\* Lines that are written or to be written get lost between others.
LEMMA PlaceLost ==
    ASSUME NEW a, NEW x \in Buffer, NEW r \in Buffer, NEW y \in Buffer, NEW c, NEW d, NEW n, NEW L,
           InPlace(a, x \o (r \o y), c, d, n, L)
    PROVE  InPlace(a \o x, y, c, d, n, L \cup SetOf(r))
<1> DEFINE q == r \o y
           p == x \o q
           w == a \o x
<1>1. a \in Buffer /\ c \in Buffer /\ d \in Buffer BY DEF InPlace
<1>2. q \in Buffer /\ SetOf(q) = SetOf(r) \cup SetOf(y) BY ConcatElements, SetConcat
<1>3. Rising(q) => Rising(r) /\ Rising(y) /\ Below(SetOf(r), SetOf(y)) BY RisingConcat
<1> HIDE DEF q
<1>4. SetOf(p) = SetOf(x) \cup SetOf(q) BY <1>2, SetConcat
<1>5. Rising(p) BY DEF InPlace, p, q
<1>6. Rising(x) /\ Rising(q) /\ Below(SetOf(x), SetOf(q)) BY <1>2, <1>5, RisingConcat
<1>7. InPlace(a, p, c, d, n, L) BY DEF p, q
<1> HIDE DEF p
<1>8. Below(SetOf(a), SetOf(x)) /\ Below(SetOf(a), SetOf(y)) /\ Below(SetOf(x), SetOf(y))
  BY <1>2, <1>4, <1>6, <1>7 DEF InPlace, Below
<1>9. w \in Buffer /\ Rising(w) /\ SetOf(w) = SetOf(a) \cup SetOf(x)
  BY <1>1, <1>6, <1>7, <1>8, ConcatElements, RisingConcat, SetConcat DEF InPlace
<1> HIDE DEF w
<1>10. /\ Below(SetOf(w), SetOf(y)) /\ Below(SetOf(w), SetOf(c)) /\ Below(SetOf(w), SetOf(d))
       /\ Below(SetOf(y), SetOf(c)) /\ Below(SetOf(y), SetOf(d))
  BY <1>2, <1>4, <1>7, <1>8, <1>9 DEF InPlace, Below
<1>11. L \cup SetOf(r) \subseteq 1..n BY <1>2, <1>4, <1>7 DEF InPlace
<1>12. SetOf(w) \cup SetOf(y) \cup SetOf(c) \cup SetOf(d) = (1..n) \ (L \cup SetOf(r))
  <2>1. \A e \in SetOf(r) : e \in Nat /\ e \notin SetOf(a) /\ e \notin SetOf(x) /\ e \notin SetOf(y)
                            /\ e \notin SetOf(c) /\ e \notin SetOf(d)
    <3>1. SetOf(r) \subseteq 1..n BY <1>11
    <3>2. n \in Nat BY <1>7 DEF InPlace
    <3>3. \A e \in SetOf(r) : e \in Nat /\ ~ (e < e) BY <3>1, <3>2
    <3>4. Below(SetOf(a), SetOf(r)) /\ Below(SetOf(x), SetOf(r)) /\ Below(SetOf(r), SetOf(y))
      BY <1>2, <1>3, <1>4, <1>6, <1>7 DEF InPlace, Below
    <3>5. Below(SetOf(r), SetOf(c)) /\ Below(SetOf(r), SetOf(d)) BY <1>2, <1>4, <1>7 DEF InPlace, Below
    <3> QED BY <3>3, <3>4, <3>5, Zenon DEF Below
  <2>2. SetOf(a) \cup (SetOf(x) \cup (SetOf(r) \cup SetOf(y))) \cup SetOf(c) \cup SetOf(d) = (1..n) \ L
    BY <1>2, <1>4, <1>7 DEF InPlace
  <2> QED BY <1>9, <2>1, <2>2
<1>13. InPlace(w, y, c, d, n, L \cup SetOf(r))
  BY <1>1, <1>3, <1>6, <1>7, <1>9, <1>10, <1>11, <1>12 DEF InPlace
<1> QED BY <1>13 DEF w

\* Of the lines to be written the last ones are dropped.
LEMMA PlaceDropped ==
    ASSUME NEW a, NEW x \in Buffer, NEW r \in Buffer, NEW c, NEW d, NEW n, NEW L,
           InPlace(a, x \o r, c, d, n, L)
    PROVE  InPlace(a, x, c, d, n, L \cup (SetOf(x \o r) \ SetOf(x)))
<1> DEFINE p == x \o r
<1>1. SetOf(p) = SetOf(x) \cup SetOf(r) BY SetConcat
<1>2. Rising(p) BY DEF InPlace
<1>3. Rising(x) /\ Below(SetOf(x), SetOf(r)) BY <1>2, RisingConcat
<1>4. InPlace(a, p, c, d, n, L) OBVIOUS
<1> HIDE DEF p
<1>5. Below(SetOf(a), SetOf(x)) /\ Below(SetOf(x), SetOf(c)) /\ Below(SetOf(x), SetOf(d))
  BY <1>1, <1>4 DEF InPlace, Below
<1> DEFINE M == SetOf(p) \ SetOf(x)
<1>6. L \cup M \subseteq 1..n BY <1>4 DEF InPlace
<1>7. \A e \in M : e \in SetOf(r) /\ e \notin SetOf(a) /\ e \notin SetOf(c) /\ e \notin SetOf(d)
  <2>1. n \in Nat /\ M \subseteq 1..n BY <1>4, <1>6 DEF InPlace
  <2>2. \A e \in M : e \in Nat /\ ~ (e < e) BY <2>1
  <2>3. M \subseteq SetOf(r) /\ M \subseteq SetOf(p) BY <1>1
  <2>4. Below(SetOf(a), M) /\ Below(M, SetOf(c)) /\ Below(M, SetOf(d)) BY <1>4, <2>3 DEF InPlace, Below
  <2> QED BY <2>2, <2>3, <2>4, Zenon DEF Below
<1>8. SetOf(a) \cup SetOf(x) \cup SetOf(c) \cup SetOf(d) = (1..n) \ (L \cup M)
  <2>1. SetOf(a) \cup SetOf(p) \cup SetOf(c) \cup SetOf(d) = (1..n) \ L BY <1>4 DEF InPlace
  <2>2. SetOf(p) = SetOf(x) \cup M /\ \A e \in M : e \notin SetOf(x) BY <1>1
  <2> HIDE DEF M
  <2> QED BY <1>7, <2>1, <2>2
<1> HIDE DEF M
<1>9. InPlace(a, x, c, d, n, L \cup M) BY <1>3, <1>4, <1>5, <1>6, <1>8 DEF InPlace
<1> QED BY <1>9 DEF M, p

-----------------------------------------------------------------------------
(* No line is lost                                                         *)

\* Every line is in its place; the spare that append takes is empty, and the thread has written
\* the buffers before the i-th.
LineInv ==
    /\ RecyclingInv
    /\ InPlace(file, Lines(Unwritten), Lines(buffers), current, appended, lost)
    /\ next \in {<< >>, Null}
    /\ tpc = "drop" => i = 1
    /\ tpc = "write" => i \in 1..(Len(toWrite) + 1)

LEMMA InitLines == AInit => LineInv
<1> SUFFICES ASSUME AInit PROVE LineInv OBVIOUS
<1>1. RecyclingInv
  BY EmptyIsNotNull DEF AInit, RecyclingInv, Unstarted, BufferTypes, SpareWasUsed, Replaceable, Ready, Buffer
<1>2. Unwritten = << >> /\ file = << >> /\ buffers = << >> /\ current = << >> /\ appended = 0 /\ lost = {}
  BY DEF AInit, Unwritten
<1>3. InPlace(<< >>, << >>, << >>, << >>, 0, {}) BY RisingNone DEF InPlace, Below
<1> QED BY <1>1, <1>2, <1>3, LinesEmpty DEF LineInv, AInit

LEMMA AppendLines ==
    ASSUME LineInv, DoAppend
    PROVE  InPlace(file', Lines(Unwritten)', Lines(buffers)', current', appended', lost') /\ next' \in {<< >>, Null}
<1> DEFINE W == Lines(Unwritten)
           B == Lines(buffers)
<1>1. UNCHANGED <<tpc, toWrite, i, file, lost>> /\ appended' = appended + 1 BY DEF DoAppend, output
<1>2. Lines(Unwritten)' = W BY <1>1 DEF Unwritten
<1>3. InPlace(file, W, B, current, appended, lost) BY DEF LineInv
<1>4. current \in Buffer /\ buffers \in Seq(Buffer) BY DEF LineInv, RecyclingInv, BufferTypes
<1>5. appended + 1 \in Nat BY <1>3 DEF InPlace
<1>6. CASE AppendLine
  <2>1. current' = Append(current, appended + 1) /\ UNCHANGED <<next, buffers>> BY <1>6 DEF AppendLine, Put
  <2>2. Append(current, appended + 1) = current \o <<appended + 1>> BY <1>4, <1>5 DEF Buffer
  <2>3. InPlace(file, W, B, current \o <<appended + 1>>, appended + 1, lost) BY <1>3, PlaceLine
  <2>4. Lines(buffers)' = B BY <2>1
  <2> QED BY <1>1, <1>2, <2>1, <2>2, <2>3, <2>4 DEF LineInv
<1>7. CASE AppendToSpare
  <2>1. buffers' = Append(buffers, current) /\ next' = Null BY <1>7 DEF AppendToSpare
  <2>2. current' = <<appended + 1>>
    <3>1. (IF next # Null THEN next ELSE << >>) = << >> BY DEF LineInv
    <3>2. Avail(<< >>) > 1 BY SizeAssumption DEF Avail
    <3>3. current' = Put(<< >>, appended + 1) BY <1>7, <3>1 DEF AppendToSpare
    <3>4. current' = Append(<< >>, appended + 1) BY <3>2, <3>3 DEF Put
    <3> QED BY <1>5, <3>4
  <2>3. Lines(buffers') = B \o current BY <1>4, <2>1, LinesAppend
  <2> HIDE DEF W, B
  <2>4. InPlace(file, W, B \o current, << >>, appended, lost) BY <1>3, PlaceFull
  <2>5. InPlace(file, W, B \o current, << >> \o <<appended + 1>>, appended + 1, lost) BY <2>4, PlaceLine
  <2>6. << >> \o <<appended + 1>> = <<appended + 1>> BY <1>5
  <2> QED BY <1>1, <1>2, <2>1, <2>2, <2>3, <2>5, <2>6
<1> QED BY <1>6, <1>7 DEF DoAppend

LEMMA ExchangeLines ==
    ASSUME LineInv, tpc \in {"lock", "wait"}, Exchange
    PROVE  /\ InPlace(file', Lines(Unwritten)', Lines(buffers)', current', appended', lost')
           /\ next' \in {<< >>, Null} /\ i' = 1 /\ tpc' = "drop"
<1> DEFINE B == Lines(buffers)
<1>1. /\ toWrite' = Append(buffers, current) /\ i' = 1 /\ buffers' = << >> /\ current' = newBuffer1 /\ tpc' = "drop"
      /\ UNCHANGED <<appended, file, lost>>
  BY DEF Exchange, output
<1>2. newBuffer1 = << >> /\ newBuffer2 = << >> BY DEF LineInv, RecyclingInv, Ready
<1>3. current \in Buffer /\ buffers \in Seq(Buffer) BY DEF LineInv, RecyclingInv, BufferTypes
<1>4. Unwritten = << >> BY DEF Unwritten
<1>5. Unwritten' = Append(buffers, current)
  <2> DEFINE w == Append(buffers, current)
  <2>1. w \in Seq(Buffer) BY <1>3
  <2> HIDE DEF w
  <2>2. SubSeq(w, 1, Len(w)) = w BY <2>1
  <2> QED BY <1>1, <2>2 DEF Unwritten, w
<1>6. Lines(Unwritten)' = B \o current BY <1>3, <1>5, LinesAppend
<1>7. InPlace(file, << >>, B, current, appended, lost) BY <1>4, LinesEmpty DEF LineInv
<1> HIDE DEF B
<1>8. InPlace(file, B \o current, << >>, << >>, appended, lost) BY <1>7, PlaceSwap
<1>9. Lines(buffers)' = << >> BY <1>1, LinesEmpty
<1>10. next' \in {<< >>, Null} BY <1>2 DEF Exchange, LineInv
<1> QED BY <1>1, <1>2, <1>6, <1>8, <1>9, <1>10

LEMMA DropLines ==
    ASSUME LineInv, Drop
    PROVE  /\ InPlace(file', Lines(Unwritten)', Lines(buffers)', current', appended', lost')
           /\ next' \in {<< >>, Null} /\ tpc' = "write" /\ i' \in 1..(Len(toWrite') + 1)
<1> DEFINE K == Keep(toWrite)
           B == Lines(buffers)
<1>1. /\ tpc = "drop" /\ tpc' = "write" /\ toWrite' = K /\ UNCHANGED <<i, file, current, next, buffers, appended>>
      /\ lost' = lost \cup (SetOf(Lines(toWrite)) \ SetOf(Lines(K)))
  BY DEF Drop, front
<1>2. i = 1 /\ toWrite \in Seq(Buffer) BY <1>1 DEF LineInv, RecyclingInv, BufferTypes
<1>3. \A w \in Seq(Buffer) : SubSeq(w, 1, Len(w)) = w OBVIOUS
<1>4. PICK R \in Buffer : K \in Seq(Buffer) /\ Lines(toWrite) = Lines(K) \o R
  <2>1. CASE Len(toWrite) > MaxToWrite
    <3> DEFINE rest == SubSeq(toWrite, 2 + 1, Len(toWrite))
    <3>1. 2 \in 0..Len(toWrite) /\ K = SubSeq(toWrite, 1, 2) BY <1>2, <2>1, MaxToWriteAssumption DEF Keep
    <3>2. K \in Seq(Buffer) /\ rest \in Seq(Buffer) BY <1>2, <3>1
    <3>3. Lines(toWrite) = Lines(K) \o Lines(rest) BY <1>2, <3>1, LinesSplit
    <3> HIDE DEF K, rest
    <3>4. Lines(rest) \in Buffer BY <3>2, LinesType
    <3> QED BY <3>2, <3>3, <3>4
  <2>2. CASE ~ (Len(toWrite) > MaxToWrite)
    <3>1. K = toWrite BY <2>2 DEF Keep
    <3>2. Lines(toWrite) \in Buffer BY <1>2, LinesType
    <3>3. Lines(toWrite) = Lines(toWrite) \o << >> BY <3>2 DEF Buffer
    <3> QED BY <1>2, <3>1, <3>3, RisingNone
  <2> QED BY <2>1, <2>2
<1> HIDE DEF K
<1>5. Unwritten = toWrite /\ Unwritten' = K BY <1>1, <1>2, <1>3, <1>4 DEF Unwritten
<1>6. Lines(K) \in Buffer BY <1>4, LinesType
<1>7. InPlace(file, Lines(K) \o R, B, current, appended, lost) BY <1>4, <1>5 DEF LineInv
<1>8. InPlace(file, Lines(K), B, current, appended, lost \cup (SetOf(Lines(K) \o R) \ SetOf(Lines(K))))
  BY <1>6, <1>7, PlaceDropped
<1>9. Lines(Unwritten)' = Lines(K) /\ Lines(buffers)' = B BY <1>1, <1>5
<1>10. 1 \in 1..(Len(K) + 1) BY <1>4
<1> QED BY <1>1, <1>2, <1>4, <1>8, <1>9, <1>10 DEF LineInv

LEMMA SplitBuffer ==
    ASSUME NEW b \in Buffer, NEW n \in 0..Len(b)
    PROVE  /\ SubSeq(b, 1, n) \in Buffer /\ SubSeq(b, n + 1, Len(b)) \in Buffer
           /\ b = SubSeq(b, 1, n) \o SubSeq(b, n + 1, Len(b))
<1> USE DEF Buffer
<1> DEFINE x == SubSeq(b, 1, n)
           y == SubSeq(b, n + 1, Len(b))
           z == x \o y
<1>1. Len(b) \in Nat /\ n \in Nat OBVIOUS
<1>2. x \in Seq(Nat) /\ Len(x) = n /\ \A j \in 1..n : x[j] = b[j] OBVIOUS
<1>3. y \in Seq(Nat) /\ Len(y) = Len(b) - n /\ \A j \in 1..(Len(b) - n) : y[j] = b[n + j] OBVIOUS
<1> HIDE DEF x, y
<1>4. z \in Seq(Nat) /\ Len(z) = Len(b)
  <2>1. x \in Seq(Nat) /\ y \in Seq(Nat) BY <1>2, <1>3
  <2>2. z \in Seq(Nat) /\ Len(z) = Len(x) + Len(y) BY <2>1
  <2>3. n + (Len(b) - n) = Len(b) BY <1>1
  <2> QED BY <1>2, <1>3, <2>2, <2>3
<1>5. ASSUME NEW j \in 1..Len(b) PROVE z[j] = b[j]
  <2>1. CASE j <= n BY <1>1, <1>2, <1>3, <2>1
  <2>2. CASE j > n
    <3>1. j - n \in 1..(Len(b) - n) /\ n + (j - n) = j BY <1>1, <2>2
    <3>2. \A q \in 1..Len(y) : z[Len(x) + q] = y[q]
      <4>1. x \in Seq(Nat) /\ y \in Seq(Nat) BY <1>2, <1>3
      <4> QED BY <4>1, ConcatElements
    <3>3. z[n + (j - n)] = y[j - n] BY <1>2, <1>3, <3>1, <3>2
    <3> QED BY <1>3, <3>1, <3>3
  <2>3. j \in Nat /\ (j <= n \/ j > n)
    <3> HIDE DEF z
    <3>1. j \in Nat BY <1>1
    <3> QED BY <1>1, <3>1
  <2> QED BY <2>1, <2>2, <2>3
<1> HIDE DEF z
<1>6. z = b BY <1>4, <1>5
<1> QED BY <1>2, <1>3, <1>6 DEF x, y, z

LEMMA WriteLines ==
    ASSUME LineInv, WriteBuffer
    PROVE  /\ InPlace(file', Lines(Unwritten)', Lines(buffers)', current', appended', lost')
           /\ next' \in {<< >>, Null} /\ tpc' = "write" /\ i' \in 1..(Len(toWrite') + 1)
<1> DEFINE b == toWrite[i]
           Y == Lines(SubSeq(toWrite, i + 1, Len(toWrite)))
           B == Lines(buffers)
<1>1. /\ tpc = "write" /\ i <= Len(toWrite) /\ i' = i + 1 /\ AppendFile(b)
      /\ UNCHANGED <<tpc, toWrite, current, next, buffers, appended>>
  BY DEF WriteBuffer, LogFileAppend, front
<1>2. toWrite \in Seq(Buffer) /\ i \in 1..Len(toWrite)
  <2>1. toWrite \in Seq(Buffer) /\ i \in 1..(Len(toWrite) + 1) BY <1>1 DEF LineInv, RecyclingInv, BufferTypes
  <2> QED BY <1>1, <2>1
<1>3. b \in Buffer /\ SubSeq(toWrite, i + 1, Len(toWrite)) \in Seq(Buffer) BY <1>2
<1>4. Y \in Buffer BY <1>3, LinesType
<1>5. Lines(Unwritten) = b \o Y
  <2>1. Unwritten = SubSeq(toWrite, i, Len(toWrite)) BY <1>1 DEF Unwritten
  <2> QED BY <1>2, <2>1, LinesNext
<1>6. Lines(Unwritten)' = Y BY <1>1 DEF Unwritten
<1> HIDE DEF b, Y
<1>7. PICK n \in 0..Len(b) : /\ file' = file \o SubSeq(b, 1, n)
                             /\ lost' = lost \cup SetOf(SubSeq(b, n + 1, Len(b)))
  BY <1>1 DEF AppendFile
<1> DEFINE x == SubSeq(b, 1, n)
           r == SubSeq(b, n + 1, Len(b))
<1>8. x \in Buffer /\ r \in Buffer /\ b = x \o r BY <1>3, SplitBuffer
<1> HIDE DEF x, r
<1>9. b \o Y = x \o (r \o Y) BY <1>4, <1>8, BufferConcat
<1>10. InPlace(file, x \o (r \o Y), B, current, appended, lost) BY <1>5, <1>9 DEF LineInv
<1>11. InPlace(file \o x, Y, B, current, appended, lost \cup SetOf(r)) BY <1>4, <1>8, <1>10, PlaceLost
<1>12. Lines(buffers)' = B /\ i + 1 \in 1..(Len(toWrite) + 1)
  <2>1. Len(toWrite) \in Nat BY <1>2
  <2> QED BY <1>1, <1>2, <2>1
<1> QED BY <1>1, <1>6, <1>7, <1>11, <1>12 DEF LineInv, x, r

\* A step that moves no line.
LEMMA LinesStay ==
    ASSUME LineInv, UNCHANGED <<file, lost, front>>, Unwritten' = Unwritten
    PROVE  InPlace(file', Lines(Unwritten)', Lines(buffers)', current', appended', lost') /\ next' \in {<< >>, Null}
<1>1. Lines(Unwritten)' = Lines(Unwritten) /\ Lines(buffers)' = Lines(buffers) BY DEF front
<1> QED BY <1>1 DEF LineInv, front

LEMMA StepLines == LineInv /\ [ANext]_avars => LineInv'
<1> SUFFICES ASSUME LineInv, [ANext]_avars PROVE LineInv' OBVIOUS
<1>0. RecyclingInv'
  <2>1. appended \in Nat BY DEF LineInv, InPlace
  <2> QED BY <2>1, StepInv DEF LineInv
<1>1. ASSUME UNCHANGED <<file, lost, front>>, tpc \notin {"drop", "write"}, tpc' \notin {"drop", "write"}
      PROVE  LineInv'
  <2>1. Unwritten' = Unwritten BY <1>1 DEF Unwritten
  <2> QED BY <1>0, <1>1, <2>1, LinesStay DEF LineInv
<1>2. ASSUME UNCHANGED <<file, lost, front, tpc, toWrite, i>> PROVE LineInv'
  <2>1. Unwritten' = Unwritten BY <1>2 DEF Unwritten
  <2> QED BY <1>0, <1>2, <2>1, LinesStay DEF LineInv
<1>3. CASE Start
  <2>1. tpc = "none" BY <1>3 DEF LineInv, RecyclingInv, Unstarted, Start
  <2> QED BY <1>1, <1>3, <2>1 DEF Start, output
<1>4. CASE StartReturns \/ Stop \/ Join BY <1>2, <1>4 DEF StartReturns, Stop, Join, output
<1>5. CASE DoAppend BY <1>0, <1>5, AppendLines DEF LineInv, DoAppend
<1>6. CASE Boot \/ ThreadFunc \/ Test \/ Wait \/ Recycle
  BY <1>1, <1>6 DEF Boot, ThreadFunc, Test, Wait, Recycle, output
<1>7. CASE SwapAtOnce \/ SwapAfterWait
  <2>1. tpc \in {"lock", "wait"} /\ Exchange BY <1>7 DEF SwapAtOnce, SwapAfterWait
  <2> QED BY <1>0, <2>1, ExchangeLines DEF LineInv
<1>8. CASE Drop BY <1>0, <1>8, DropLines DEF LineInv
<1>9. CASE WriteBuffer BY <1>0, <1>9, WriteLines DEF LineInv
<1>10. CASE Written
  <2>1. tpc = "write" /\ tpc' = "recycle" /\ i > Len(toWrite) /\ UNCHANGED <<file, lost, front>>
    BY <1>10 DEF Written, output
  <2>2. toWrite \in Seq(Buffer) /\ i \in Nat BY <2>1 DEF LineInv, RecyclingInv, BufferTypes
  <2>3. SubSeq(toWrite, i, Len(toWrite)) = << >> BY <2>1, <2>2
  <2>4. Unwritten' = Unwritten BY <2>1, <2>3 DEF Unwritten
  <2> QED BY <1>0, <2>1, <2>4, LinesStay DEF LineInv
<1>11. CASE UNCHANGED avars BY <1>2, <1>11 DEF avars, output
<1> QED BY <1>3, <1>4, <1>5, <1>6, <1>7, <1>8, <1>9, <1>10, <1>11 DEF ANext, ThreadStep

\* Lines reach the file in the order of append, each once, and none is missing from what is
\* written, about to be, waiting or in the current buffer, but those that were dropped for overload
\* or by a failing fwrite: the spares that append and the swap take are empty, and the buffers
\* threadFunc gives back have been written.
THEOREM LinesAreKept == ASpec => []NoLineLost
<1>1. LineInv => NoLineLost
  <2> SUFFICES ASSUME LineInv PROVE NoLineLost OBVIOUS
  <2>1. InPlace(file, Lines(Unwritten), Lines(buffers), current, appended, lost) BY DEF LineInv
  <2>2. Rising(Pipeline) /\ SetOf(Pipeline) = (1..appended) \ lost BY <2>1, PlacesRise DEF Pipeline
  <2> QED BY <2>2 DEF NoLineLost, Rising
<1> QED BY <1>1, InitLines, StepLines, PTL DEF ASpec
=============================================================================
