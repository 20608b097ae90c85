--------------------------- MODULE RequestsProofs ---------------------------
(***************************************************************************)
(* That either server answers the requests of a client, for every plan of  *)
(* requests that mean what they should when they come alone: parsing is    *)
(* stable under what follows, so a buffer is a slice of the stream (the    *)
(* coroutine server), and a connection that has served requests reads as a *)
(* new one does (the epoll server).                                        *)
(***************************************************************************)
EXTENDS Requests, TLAPS, WellFoundedInduction, FiniteSetTheorems, SequenceTheorems

\* The tokens of a stream.  (That "cr" and "lf" are strings is nothing the provers know.)
Word == STRING \cup {"cr", "lf"}

-----------------------------------------------------------------------------
(* Searches                                                                *)

\* A set of naturals that is not empty has a least element.
LEMMA LeastElement ==
    ASSUME NEW I \in SUBSET Nat, I # {}
    PROVE  Least(I) \in I /\ \A j \in I : Least(I) <= j
<1> DEFINE R == OpToRel(<, Nat)
<1>1. \A m, n \in Nat : m < n => <<m, n>> \in R BY DEF OpToRel
<1>2. IsWellFoundedOn(R, Nat) BY NatLessThanWellFounded
<1> HIDE DEF R
<1>3. PICK x \in I : \A y \in I : ~ (<<y, x>> \in R) BY <1>2, WFMin
<1>4. ASSUME NEW y \in I PROVE x <= y
  <2>1. x \in Nat /\ y \in Nat OBVIOUS
  <2>2. ~ (y < x) BY <1>1, <1>3, <2>1
  <2> QED BY <2>1, <2>2
<1> QED BY <1>4 DEF Least

\* What lies inside s lies there whatever follows.
LEMMA SubSeqExtends ==
    ASSUME NEW T, NEW s \in Seq(T), NEW t \in Seq(T), NEW a \in Nat \ {0}, NEW b \in Int, b <= Len(s)
    PROVE  SubSeq(s \o t, a, b) = SubSeq(s, a, b)
<1>1. Len(s \o t) = Len(s) + Len(t) OBVIOUS
<1>2. \A i \in 1..Len(s) : (s \o t)[i] = s[i] OBVIOUS
<1> QED BY <1>1, <1>2

\* Where p is in s.
Places(s, p) == {i \in 1..(Len(s) - Len(p) + 1) : SubSeq(s, i, i + Len(p) - 1) = p}

LEMMA FindSeqFacts ==
    ASSUME NEW s, NEW p
    PROVE  /\ FindSeq(s, p, 1) # 0 <=> Places(s, p) # {}
           /\ FindSeq(s, p, 1) # 0 =>
                FindSeq(s, p, 1) \in Places(s, p) /\ \A j \in Places(s, p) : FindSeq(s, p, 1) <= j
<1> DEFINE I == Places(s, p)
<1>1. FindSeq(s, p, 1) = IF I = {} THEN 0 ELSE Least(I) BY DEF FindSeq, Places
<1>2. I \in SUBSET (Nat \ {0}) /\ I \in SUBSET Nat BY DEF Places
<1> HIDE DEF I
<1>3. I # {} => Least(I) \in I /\ \A j \in I : Least(I) <= j BY <1>2, LeastElement
<1> QED BY <1>1, <1>2, <1>3 DEF I

\* A search that has found something finds it whatever follows.
LEMMA FindSeqExtends ==
    ASSUME NEW T, NEW s \in Seq(T), NEW t \in Seq(T), NEW p \in Seq(T), Len(p) > 0, FindSeq(s, p, 1) # 0
    PROVE  FindSeq(s \o t, p, 1) = FindSeq(s, p, 1)
<1> DEFINE f == FindSeq(s, p, 1)
           g == FindSeq(s \o t, p, 1)
<1>0. Len(s \o t) = Len(s) + Len(t) /\ Len(s) \in Nat /\ Len(t) \in Nat /\ Len(p) \in Nat OBVIOUS
<1>1. f \in Places(s, p) /\ \A j \in Places(s, p) : f <= j BY FindSeqFacts
<1>2. ASSUME NEW i \in 1..(Len(s) - Len(p) + 1) PROVE i \in Places(s \o t, p) <=> i \in Places(s, p)
  <2>1. i \in Nat \ {0} /\ i + Len(p) - 1 \in Int /\ i + Len(p) - 1 <= Len(s) BY <1>0
  <2>2. SubSeq(s \o t, i, i + Len(p) - 1) = SubSeq(s, i, i + Len(p) - 1) BY <2>1, SubSeqExtends
  <2>3. i \in 1..(Len(s \o t) - Len(p) + 1) BY <1>0
  <2> QED BY <2>2, <2>3 DEF Places
<1>3. f \in 1..(Len(s) - Len(p) + 1) BY <1>1 DEF Places
<1>4. f \in Places(s \o t, p) BY <1>1, <1>2, <1>3
<1>5. g \in Places(s \o t, p) /\ g <= f BY <1>4, FindSeqFacts
<1>6. g \in 1..(Len(s \o t) - Len(p) + 1) BY <1>5 DEF Places
<1> HIDE DEF f, g
<1>7. g \in 1..(Len(s) - Len(p) + 1) BY <1>0, <1>3, <1>5, <1>6
<1>8. f <= g BY <1>1, <1>2, <1>5, <1>7
<1> QED BY <1>3, <1>5, <1>7, <1>8 DEF f, g

-----------------------------------------------------------------------------
(* try_parse_request                                                       *)

\* A blank line ends a line.
LEMMA LineBeforeBlank ==
    ASSUME NEW s \in Seq(Word), HeaderEnd(s) # 0
    PROVE  /\ HeaderEnd(s) \in 1..(Len(s) - 3)
           /\ FindSeq(s, <<"cr", "lf">>, 1) \in 1..HeaderEnd(s)
<1> DEFINE b == <<"cr", "lf", "cr", "lf">>
           e == <<"cr", "lf">>
           h == HeaderEnd(s)
<1>1. h \in Places(s, b) BY FindSeqFacts DEF HeaderEnd
<1>2. Len(b) = 4 /\ Len(e) = 2 /\ Len(s) \in Nat OBVIOUS
<1>3. h \in 1..(Len(s) - 3) /\ SubSeq(s, h, h + 3) = b BY <1>1, <1>2 DEF Places
<1> HIDE DEF h
<1>4. s[h] = "cr" /\ s[h + 1] = "lf"
  <2>1. h \in Nat /\ h + 3 <= Len(s) /\ 1 <= h BY <1>2, <1>3
  <2>2. SubSeq(s, h, h + 3)[1] = s[h] /\ SubSeq(s, h, h + 3)[2] = s[h + 1] BY <2>1
  <2>3. b[1] = "cr" /\ b[2] = "lf" OBVIOUS
  <2> HIDE DEF b
  <2> QED BY <1>3, <2>2, <2>3
<1>5. SubSeq(s, h, h + 1) = e
  <2> DEFINE u == SubSeq(s, h, h + 1)
  <2>1. h \in Nat /\ h + 1 <= Len(s) /\ 1 <= h BY <1>2, <1>3
  <2>2. u \in Seq(Word) /\ Len(u) = 2 /\ u[1] = s[h] /\ u[2] = s[h + 1] BY <2>1
  <2>3. e \in Seq(Word) /\ e[1] = "cr" /\ e[2] = "lf" BY DEF Word
  <2> HIDE DEF u, e
  <2>4. \A i \in 1..2 : u[i] = e[i] BY <1>4, <2>2, <2>3
  <2>5. u = e BY <1>2, <2>2, <2>3, <2>4, SeqEqual
  <2> QED BY <2>5 DEF u
<1>6. h \in Places(s, e) BY <1>2, <1>3, <1>5 DEF Places
<1>7. FindSeq(s, e, 1) \in Places(s, e) /\ FindSeq(s, e, 1) <= h BY <1>6, FindSeqFacts
<1>8. FindSeq(s, e, 1) \in 1..(Len(s) - Len(e) + 1) BY <1>7 DEF Places
<1> QED BY <1>2, <1>3, <1>7, <1>8 DEF h

\* What the head says does not depend on what follows it.
LEMMA HeadExtends ==
    ASSUME NEW s \in Seq(Word), NEW t \in Seq(Word), HeaderEnd(s) # 0
    PROVE  HeaderEnd(s \o t) = HeaderEnd(s) /\ ParsedHead(s \o t) = ParsedHead(s)
<1> DEFINE b == <<"cr", "lf", "cr", "lf">>
           e == <<"cr", "lf">>
           h == HeaderEnd(s)
           l == FindSeq(s, e, 1)
<1>1. b \in Seq(Word) /\ e \in Seq(Word) /\ Len(b) = 4 /\ Len(e) = 2 /\ Len(s) \in Nat BY DEF Word
<1>2. h \in 1..(Len(s) - 3) /\ l \in 1..h BY LineBeforeBlank
<1>3. HeaderEnd(s \o t) = h
  <2>1. FindSeq(s, b, 1) = h /\ FindSeq(s \o t, b, 1) = HeaderEnd(s \o t) BY DEF HeaderEnd
  <2> HIDE DEF b, h
  <2>2. FindSeq(s, b, 1) # 0 /\ Len(b) > 0 BY <1>1, <1>2, <2>1
  <2>3. FindSeq(s \o t, b, 1) = FindSeq(s, b, 1) BY <1>1, <2>2, FindSeqExtends
  <2> QED BY <2>1, <2>3
<1>4. FindSeq(s \o t, e, 1) = l
  <2> HIDE DEF e
  <2>1. FindSeq(s, e, 1) # 0 /\ Len(e) > 0 BY <1>1, <1>2
  <2> QED BY <1>1, <2>1, FindSeqExtends
<1>5. SubSeq(s \o t, 1, l - 1) = SubSeq(s, 1, l - 1)
  <2>1. l - 1 \in Int /\ l - 1 <= Len(s) BY <1>1, <1>2
  <2> HIDE DEF l
  <2> QED BY <2>1, SubSeqExtends
<1>6. SubSeq(s \o t, 1, h + 1) = SubSeq(s, 1, h + 1)
  <2>1. h + 1 \in Int /\ h + 1 <= Len(s) BY <1>1, <1>2
  <2> HIDE DEF h
  <2> QED BY <2>1, SubSeqExtends
<1>7. ParsedHead(s \o t) = ParsedHead(s) BY <1>3, <1>4, <1>5, <1>6 DEF ParsedHead
<1> QED BY <1>3, <1>7

LEMMA HeadSize == ASSUME NEW s PROVE ParsedHead(s).size \in Int
BY SizeMaxAssumption DEF ParsedHead, Stoul

\* What has been parsed, spelled out for a request whose length does not wrap around.
LEMMA ParsedFacts ==
    ASSUME NEW s \in Seq(Word), HeaderEnd(s) + 3 + ParsedHead(s).size < SizeMax
    PROVE  LET h == ParsedHead(s)
               n == HeaderEnd(s) + 3 + h.size
           IN  /\ TryParse(s).ok <=> HeaderEnd(s) # 0 /\ ~ Malformed(h) /\ n <= Len(s)
               /\ TryParse(s).ok => n \in Nat /\ HeaderEnd(s) \in Nat /\
                    TryParse(s) = [ok |-> TRUE, method |-> h.method, target |-> h.target,
                                   version |-> h.version, connection |-> h.connection,
                                   body |-> SubSeq(s, HeaderEnd(s) + 4, n), consumed |-> n]
<1> DEFINE h == ParsedHead(s)
           e == HeaderEnd(s)
           n == e + 3 + h.size
<1>1. CASE e = 0 \/ Malformed(h)
  <2>1. TryParse(s) = NoRequest BY <1>1 DEF TryParse
  <2> QED BY <1>1, <2>1 DEF NoRequest
<1>2. CASE e # 0 /\ ~ Malformed(h)
  <2>1. e \in 1..(Len(s) - 3) /\ Len(s) \in Nat BY <1>2, LineBeforeBlank
  <2>2. h.size \in Nat BY <1>2, HeadSize DEF Malformed
  <2> HIDE DEF h, e
  <2>3. n \in Nat /\ n < SizeMax /\ n = (e + 3) + h.size BY <2>1, <2>2 DEF h, e
  <2>4. RequestSize(e + 3, h.size) = n BY <2>3, SizeMaxAssumption DEF RequestSize
  <2>5. CASE Len(s) < n
    <3>1. TryParse(s) = NoRequest BY <2>4, <2>5 DEF TryParse, h, e
    <3> QED BY <2>1, <2>3, <2>5, <3>1 DEF NoRequest, h, e
  <2>6. CASE n <= Len(s)
    <3>1. Least({n, Len(s)}) = n
      <4>1. {n, Len(s)} \in SUBSET Nat /\ n \in {n, Len(s)} BY <2>1, <2>3
      <4>2. Least({n, Len(s)}) \in {n, Len(s)} /\ Least({n, Len(s)}) <= n BY <4>1, LeastElement
      <4> QED BY <2>1, <2>3, <2>6, <4>2
    <3>2. ~ (Len(s) < n) /\ e + 3 + 1 = e + 4 BY <2>1, <2>3, <2>6
    <3>3. TryParse(s) = [ok |-> TRUE, method |-> h.method, target |-> h.target,
                         version |-> h.version, connection |-> h.connection,
                         body |-> SubSeq(s, e + 4, n), consumed |-> n]
      BY <1>2, <2>3, <2>4, <3>1, <3>2 DEF TryParse, h, e
    <3> QED BY <1>2, <2>1, <2>3, <2>6, <3>3 DEF h, e
  <2> QED BY <2>1, <2>3, <2>5, <2>6
<1> QED BY <1>1, <1>2

\* try_parse_request, given a buffer that begins with a complete request, finds that request whatever
\* else has come behind it, unless the sum of its lengths wraps around.
THEOREM ParsingIsStable ==
    ASSUME NEW s \in Seq(Word), NEW t \in Seq(Word),
           HeaderEnd(s) + 3 + ParsedHead(s).size < SizeMax, TryParse(s).ok
    PROVE  TryParse(s \o t) = TryParse(s)
<1> DEFINE h == ParsedHead(s)
           e == HeaderEnd(s)
           n == e + 3 + h.size
<1>1. e # 0 /\ ~ Malformed(h) /\ n <= Len(s) /\ n \in Nat /\ e \in Nat BY ParsedFacts
<1>2. HeaderEnd(s \o t) = e /\ ParsedHead(s \o t) = h BY <1>1, HeadExtends
<1>3. s \o t \in Seq(Word) /\ Len(s \o t) = Len(s) + Len(t) /\ Len(s) \in Nat /\ Len(t) \in Nat OBVIOUS
<1>4. n <= Len(s \o t) BY <1>1, <1>3
<1>5. SubSeq(s \o t, e + 4, n) = SubSeq(s, e + 4, n)
  <2>1. e + 4 \in Nat \ {0} /\ n \in Int BY <1>1
  <2> HIDE DEF n, e
  <2> QED BY <1>1, <2>1, SubSeqExtends
<1>6. TryParse(s \o t).ok BY <1>1, <1>2, <1>3, <1>4, ParsedFacts
<1> QED BY <1>2, <1>3, <1>5, <1>6, ParsedFacts

-----------------------------------------------------------------------------
(* The stream of a plan                                                    *)

\* A set that contains 0 and with every number the next one contains all of them: induction, in a
\* form that needs no operator as a parameter.
LEMMA NatSetInduction ==
    ASSUME NEW S, 0 \in S, \A n \in Nat : n \in S => n + 1 \in S
    PROVE  Nat \subseteq S
<1> DEFINE T == Nat \ S
<1> SUFFICES ASSUME T # {} PROVE FALSE OBVIOUS
<1>1. T \in SUBSET Nat OBVIOUS
<1>2. Least(T) \in T /\ \A j \in T : Least(T) <= j
  <2> HIDE DEF T
  <2> QED BY <1>1, LeastElement
<1>3. PICK x \in T : \A j \in T : x <= j BY <1>2
<1>4. x # 0 /\ x - 1 \in Nat OBVIOUS
<1>5. x - 1 \in T BY <1>4
<1> HIDE DEF T
<1>6. x <= x - 1 BY <1>3, <1>5
<1> QED BY <1>1, <1>6

\* The rounds of Wire
WireLoop(f, p, n) == f = [k \in 0..n |-> IF k = 0 THEN << >> ELSE f[k - 1] \o p[k].wire]

\* can be told one after the other.
LEMMA WireRounds == ASSUME NEW p, NEW n \in Nat PROVE \E f : WireLoop(f, p, n)
<1> DEFINE S == {m \in Nat : \E f : WireLoop(f, p, m)}
<1>1. 0 \in S
  <2> DEFINE f == [k \in 0..0 |-> << >>]
  <2>1. f = [k \in 0..0 |-> IF k = 0 THEN << >> ELSE f[k - 1] \o p[k].wire] OBVIOUS
  <2>2. WireLoop(f, p, 0) BY <2>1 DEF WireLoop
  <2> QED BY <2>2
<1>2. ASSUME NEW m \in Nat, m \in S PROVE m + 1 \in S
  <2>1. PICK g : WireLoop(g, p, m) BY <1>2
  <2> DEFINE h == [k \in 0..(m + 1) |-> IF k = m + 1 THEN g[m] \o p[m + 1].wire ELSE g[k]]
  <2>2. ASSUME NEW k \in 0..(m + 1) PROVE h[k] = IF k = 0 THEN << >> ELSE h[k - 1] \o p[k].wire
    <3>0. g = [j \in 0..m |-> IF j = 0 THEN << >> ELSE g[j - 1] \o p[j].wire] BY <2>1 DEF WireLoop
    <3>1. CASE k = 0
      <4>1. 0 \in 0..m /\ 0 # m + 1 OBVIOUS
      <4> QED BY <3>0, <3>1, <4>1
    <3>2. CASE k = m + 1
      <4>1. k - 1 = m /\ m \in 0..(m + 1) /\ m # m + 1 /\ k # 0 BY <3>2
      <4>2. h[m] = g[m] BY <4>1
      <4> QED BY <3>2, <4>1, <4>2
    <3>3. CASE k # 0 /\ k # m + 1
      <4>1. k \in 0..m /\ k - 1 \in 0..m /\ k - 1 # m + 1 /\ k - 1 \in 0..(m + 1) BY <3>3
      <4>2. h[k] = g[k] /\ h[k - 1] = g[k - 1] BY <3>3, <4>1
      <4>3. g[k] = g[k - 1] \o p[k].wire BY <3>0, <3>3, <4>1
      <4> QED BY <3>3, <4>2, <4>3
    <3> QED BY <3>1, <3>2, <3>3
  <2>3. WireLoop(h, p, m + 1) BY <2>2 DEF WireLoop
  <2> QED BY <2>3
<1> HIDE DEF S
<1>3. n \in S BY <1>1, <1>2, NatSetInduction
<1> QED BY <1>3 DEF S

\* A round adds a request.
LEMMA RoundFacts ==
    ASSUME NEW f, NEW p, NEW n \in Nat, WireLoop(f, p, n)
    PROVE  f[0] = << >> /\ \A k \in 1..n : f[k] = f[k - 1] \o p[k].wire
<1>1. 0 \in 0..n /\ \A k \in 1..n : k \in 0..n /\ k # 0 OBVIOUS
<1>2. f = [k \in 0..n |-> IF k = 0 THEN << >> ELSE f[k - 1] \o p[k].wire] BY DEF WireLoop
<1> QED BY <1>1, <1>2

LEMMA RoundsAgree ==
    ASSUME NEW f, NEW g, NEW p, NEW n \in Nat, WireLoop(f, p, n), NEW m \in 0..n, WireLoop(g, p, m)
    PROVE  g[m] = f[m]
<1> DEFINE S == {k \in Nat : k <= m => g[k] = f[k]}
<1>0. m \in Nat OBVIOUS
<1>1. f[0] = << >> /\ \A k \in 1..n : f[k] = f[k - 1] \o p[k].wire BY RoundFacts, ZenonT(30)
<1>2. g[0] = << >> /\ \A k \in 1..m : g[k] = g[k - 1] \o p[k].wire BY <1>0, RoundFacts, ZenonT(30)
<1>3. 0 \in S BY <1>1, <1>2
<1>4. ASSUME NEW k \in Nat, k \in S PROVE k + 1 \in S
  <2> SUFFICES ASSUME k + 1 <= m PROVE g[k + 1] = f[k + 1] OBVIOUS
  <2>1. k + 1 \in 1..m /\ k + 1 \in 1..n /\ (k + 1) - 1 = k /\ k <= m OBVIOUS
  <2>2. g[k] = f[k] BY <1>4, <2>1
  <2>3. f[k + 1] = f[k] \o p[k + 1].wire /\ g[k + 1] = g[k] \o p[k + 1].wire BY <1>1, <1>2, <2>1
  <2> QED BY <2>2, <2>3
<1> HIDE DEF S
<1>5. m \in S BY <1>0, <1>3, <1>4, NatSetInduction
<1> QED BY <1>5 DEF S

LEMMA WireByRounds == ASSUME NEW n \in Nat PROVE \E f : WireLoop(f, plan, n) /\ Wire(n) = f[n]
<1> DEFINE f == CHOOSE g : WireLoop(g, plan, n)
<1>1. Wire(n) = f[n] BY DEF Wire, WireLoop
<1>2. WireLoop(f, plan, n) BY WireRounds
<1> QED BY <1>1, <1>2

\* The stream of no request, and of one more.
LEMMA WireDef ==
    /\ Wire(0) = << >>
    /\ \A n \in Nat : Wire(n + 1) = Wire(n) \o plan[n + 1].wire
<1>1. Wire(0) = << >>
  <2>1. PICK f : WireLoop(f, plan, 0) /\ Wire(0) = f[0] BY WireByRounds
  <2> QED BY <2>1, RoundFacts
<1>2. ASSUME NEW n \in Nat PROVE Wire(n + 1) = Wire(n) \o plan[n + 1].wire
  <2>1. PICK g : WireLoop(g, plan, n) /\ Wire(n) = g[n] BY WireByRounds
  <2>2. PICK m \in Nat : m = n + 1 OBVIOUS
  <2>3. PICK f : WireLoop(f, plan, m) /\ Wire(m) = f[m] BY WireByRounds
  <2>4. m \in 1..m /\ m - 1 = n /\ n \in 0..m BY <2>2
  <2>5. f[m] = f[n] \o plan[m].wire BY <2>3, <2>4, RoundFacts, ZenonT(30)
  <2>6. g[n] = f[n] BY <2>1, <2>3, <2>4, RoundsAgree
  <2> QED BY <2>1, <2>2, <2>3, <2>5, <2>6
<1> QED BY <1>1, <1>2

LEMMA RequestType ==
    ASSUME plan \in Seq(Request), NEW n \in 1..Len(plan)
    PROVE  /\ plan[n] \in Request /\ plan[n].wire \in Seq(Word) /\ Len(plan[n].wire) \in Nat
           /\ plan[n].line \in Nat /\ plan[n].due \in Nat /\ plan[n].status \in Nat
           /\ plan[n].keep \in BOOLEAN /\ plan[n].goes \in BOOLEAN
<1>1. plan[n] \in Request OBVIOUS
<1>2. plan[n].wire \in Seq(STRING) BY <1>1 DEF Request
<1>3. plan[n].wire \in Seq(Word) BY <1>2 DEF Word
<1> QED BY <1>1, <1>3, SMTT(30) DEF Request

LEMMA WireType == ASSUME plan \in Seq(Request) PROVE \A n \in 0..Len(plan) : Wire(n) \in Seq(Word)
<1> DEFINE S == {n \in Nat : n <= Len(plan) => Wire(n) \in Seq(Word)}
<1>1. 0 \in S
  <2>1. << >> \in Seq(Word) OBVIOUS
  <2> QED BY <2>1, WireDef
<1>2. ASSUME NEW n \in Nat, n \in S PROVE n + 1 \in S
  <2> SUFFICES ASSUME n + 1 <= Len(plan) PROVE Wire(n + 1) \in Seq(Word) OBVIOUS
  <2>1. n + 1 \in 1..Len(plan) /\ n <= Len(plan) OBVIOUS
  <2>2. Wire(n) \in Seq(Word) /\ plan[n + 1].wire \in Seq(Word) BY <1>2, <2>1, RequestType
  <2>3. Wire(n + 1) = Wire(n) \o plan[n + 1].wire BY WireDef
  <2>4. \A u, v \in Seq(Word) : u \o v \in Seq(Word) OBVIOUS
  <2> QED BY <2>2, <2>3, <2>4
<1> HIDE DEF S
<1>3. Nat \subseteq S BY <1>1, <1>2, NatSetInduction
<1> QED BY <1>3 DEF S

\* The stream of some requests begins that of more.
LEMMA WireExtends ==
    ASSUME plan \in Seq(Request), NEW m \in 0..Len(plan), NEW n \in m..Len(plan)
    PROVE  \E t \in Seq(Word) : Wire(n) = Wire(m) \o t
<1> DEFINE S == {j \in Nat : m + j <= Len(plan) => \E t \in Seq(Word) : Wire(m + j) = Wire(m) \o t}
<1>0. Len(plan) \in Nat OBVIOUS
<1>1. 0 \in S
  <2>1. Wire(m) \in Seq(Word) /\ << >> \in Seq(Word) /\ m + 0 = m BY WireType
  <2>2. Wire(m + 0) = Wire(m) \o << >> BY <2>1
  <2> QED BY <2>1, <2>2
<1>2. ASSUME NEW j \in Nat, j \in S PROVE j + 1 \in S
  <2> SUFFICES ASSUME m + (j + 1) <= Len(plan) PROVE \E t \in Seq(Word) : Wire(m + (j + 1)) = Wire(m) \o t OBVIOUS
  <2>1. PICK k \in Nat : k = m + j OBVIOUS
  <2>2. k + 1 \in 1..Len(plan) /\ m + (j + 1) = k + 1 /\ k <= Len(plan) BY <1>0, <2>1
  <2>3. PICK t \in Seq(Word) : Wire(k) = Wire(m) \o t BY <1>2, <2>1, <2>2
  <2>4. plan[k + 1].wire \in Seq(Word) /\ Wire(m) \in Seq(Word) BY <2>2, RequestType, WireType
  <2>5. Wire(k + 1) = (Wire(m) \o t) \o plan[k + 1].wire BY <2>3, WireDef
  <2>6. (Wire(m) \o t) \o plan[k + 1].wire = Wire(m) \o (t \o plan[k + 1].wire)
    <3>1. PICK u \in Seq(Word) : u = Wire(m) BY <2>4
    <3>2. PICK v \in Seq(Word) : v = plan[k + 1].wire BY <2>4
    <3>3. (u \o t) \o v = u \o (t \o v) BY ConcatAssociative, SMTT(30)
    <3> QED BY <3>1, <3>2, <3>3
  <2>7. t \o plan[k + 1].wire \in Seq(Word) BY <2>4
  <2> QED BY <2>2, <2>5, <2>6, <2>7
<1> HIDE DEF S
<1>3. n - m \in S BY <1>0, <1>1, <1>2, NatSetInduction
<1>4. m + (n - m) = n BY <1>0
<1>5. PICK d \in Nat : d = n - m BY <1>0
<1> QED BY <1>3, <1>4, <1>5 DEF S

LEMMA WireLength ==
    ASSUME plan \in Seq(Request)
    PROVE  /\ \A n \in 0..Len(plan) : Len(Wire(n)) \in Nat
           /\ \A n \in 0..Len(plan) : \A m \in 0..n : Len(Wire(m)) <= Len(Wire(n))
           /\ \A n \in 1..Len(plan) : Len(Wire(n)) = Len(Wire(n - 1)) + Len(plan[n].wire)
           /\ Len(Wire(0)) = 0
<1>1. \A n \in 0..Len(plan) : Len(Wire(n)) \in Nat BY WireType
<1>2. ASSUME NEW n \in 0..Len(plan), NEW m \in 0..n PROVE Len(Wire(m)) <= Len(Wire(n))
  <2>1. m \in 0..Len(plan) /\ n \in m..Len(plan) OBVIOUS
  <2>2. PICK t \in Seq(Word) : Wire(n) = Wire(m) \o t BY <2>1, WireExtends
  <2>3. Wire(m) \in Seq(Word) BY <2>1, WireType
  <2>4. Len(Wire(m) \o t) = Len(Wire(m)) + Len(t) /\ Len(t) \in Nat /\ Len(Wire(m)) \in Nat BY <2>3
  <2> QED BY <2>2, <2>4
<1>3. ASSUME NEW n \in 1..Len(plan) PROVE Len(Wire(n)) = Len(Wire(n - 1)) + Len(plan[n].wire)
  <2>1. PICK k \in Nat : k = n - 1 OBVIOUS
  <2>2. n = k + 1 /\ k \in 0..Len(plan) BY <2>1
  <2>3. Wire(n) = Wire(k) \o plan[n].wire BY <2>2, WireDef
  <2>4. Wire(k) \in Seq(Word) /\ plan[n].wire \in Seq(Word) BY <2>2, RequestType, WireType
  <2> QED BY <2>1, <2>3, <2>4
<1>4. Len(Wire(0)) = 0 BY WireDef
<1> QED BY <1>1, <1>2, <1>3, <1>4

\* Behind n requests there is the next one, and what follows it.
LEMMA StreamAt ==
    ASSUME plan \in Seq(Request), NEW n \in 0..(Len(plan) - 1)
    PROVE  \E t \in Seq(Word) : Stream = (Wire(n) \o plan[n + 1].wire) \o t
<1>1. n + 1 \in 0..Len(plan) /\ Len(plan) \in (n + 1)..Len(plan) /\ n \in Nat OBVIOUS
<1>2. PICK k \in 0..Len(plan) : k = n + 1 BY <1>1
<1>3. PICK t \in Seq(Word) : Wire(Len(plan)) = Wire(k) \o t BY <1>1, <1>2, WireExtends
<1> QED BY <1>1, <1>2, <1>3, WireDef DEF Stream

-----------------------------------------------------------------------------
(* Slices of a sequence                                                    *)

LEMMA SliceConcat ==
    ASSUME NEW T, NEW s \in Seq(T), NEW a \in Nat \ {0}, NEW b \in Nat, NEW c \in Nat,
           a <= b + 1, b <= c, c <= Len(s)
    PROVE  SubSeq(s, a, b) \o SubSeq(s, b + 1, c) = SubSeq(s, a, c)
<1> DEFINE u == SubSeq(s, a, b)
           v == SubSeq(s, b + 1, c)
           w == SubSeq(s, a, c)
<1>1. u \in Seq(T) /\ Len(u) = b - a + 1 /\ \A i \in 1..(b - a + 1) : u[i] = s[a + i - 1] OBVIOUS
<1>2. v \in Seq(T) /\ Len(v) = c - b /\ \A i \in 1..(c - b) : v[i] = s[b + i] OBVIOUS
<1>3. w \in Seq(T) /\ Len(w) = c - a + 1 /\ \A i \in 1..(c - a + 1) : w[i] = s[a + i - 1] OBVIOUS
<1> HIDE DEF u, v, w
<1>4. u \o v \in Seq(T) /\ Len(u \o v) = Len(w)
  <2>0. u \in Seq(T) /\ v \in Seq(T) BY <1>1, <1>2
  <2>1. u \o v \in Seq(T) /\ Len(u \o v) = Len(u) + Len(v) BY <2>0
  <2>2. Len(u) + Len(v) = Len(w) BY <1>1, <1>2, <1>3
  <2> QED BY <2>1, <2>2
<1>5. ASSUME NEW i \in 1..Len(u \o v) PROVE (u \o v)[i] = w[i]
  <2>1. CASE i <= Len(u)
    <3>1. i \in 1..Len(u) /\ i \in 1..(b - a + 1) /\ i \in 1..(c - a + 1) BY <1>1, <2>1
    <3>2. (u \o v)[i] = u[i] BY <1>1, <1>2, <3>1
    <3> QED BY <1>1, <1>3, <3>1, <3>2
  <2>2. CASE i > Len(u)
    <3>1. (u \o v)[i] = v[i - Len(u)] BY <1>1, <1>2, <2>2
    <3>2. i - Len(u) \in 1..(c - b) /\ b + (i - Len(u)) = a + i - 1 BY <1>1, <1>2, <1>4, <2>2
    <3>3. v[i - Len(u)] = s[b + (i - Len(u))] BY <1>2, <3>2
    <3>4. i \in 1..(c - a + 1) BY <1>3, <1>4
    <3> QED BY <1>3, <3>1, <3>2, <3>3, <3>4
  <2> QED BY <1>1, <2>1, <2>2
<1>6. u \o v = w BY <1>3, <1>4, <1>5, SeqEqual
<1> QED BY <1>6 DEF u, v, w

LEMMA SliceOfSlice ==
    ASSUME NEW T, NEW s \in Seq(T), NEW a \in Nat \ {0}, NEW b \in Nat, b <= Len(s), NEW k \in Nat, a + k <= b + 1
    PROVE  SubSeq(SubSeq(s, a, b), k + 1, Len(SubSeq(s, a, b))) = SubSeq(s, a + k, b)
<1> DEFINE u == SubSeq(s, a, b)
           n == b - a + 1
<1>1. u \in Seq(T) /\ Len(u) = n /\ \A i \in 1..n : u[i] = s[a + i - 1] OBVIOUS
<1>2. n \in Nat /\ n >= k OBVIOUS
<1> HIDE DEF u
<1> DEFINE v == SubSeq(u, k + 1, n)
           w == SubSeq(s, a + k, b)
<1>3. v \in Seq(T) /\ Len(v) = n - k /\ \A i \in 1..(n - k) : v[i] = u[k + i] BY <1>1, <1>2
<1>4. w \in Seq(T) /\ Len(w) = n - k /\ \A i \in 1..(n - k) : w[i] = s[a + k + i - 1] BY <1>2, SMTT(30)
<1> HIDE DEF v, w
<1>5. ASSUME NEW i \in 1..Len(v) PROVE v[i] = w[i]
  <2>1. i \in 1..(n - k) /\ k + i \in 1..n /\ a + (k + i) - 1 = a + k + i - 1 BY <1>2, <1>3
  <2> QED BY <1>1, <1>3, <1>4, <2>1
<1>6. v = w BY <1>3, <1>4, <1>5, SeqEqual
<1> QED BY <1>1, <1>6 DEF u, v, w

\* What has come by place b of w, when w follows x in s.
ComesBehind(x, w, s, b) ==
    LET c == SubSeq(s, Len(x) + 1, b)
    IN  /\ c \in Seq(Word) /\ Len(c) = b - Len(x)
        /\ Len(w) <= b - Len(x) => \E u \in Seq(Word) : c = w \o u
        /\ b - Len(x) < Len(w) => \E v \in Seq(Word) : w = c \o v

LEMMA SliceBehind ==
    ASSUME NEW x \in Seq(Word), NEW w \in Seq(Word), NEW t \in Seq(Word), NEW s, s = (x \o w) \o t,
           NEW b \in Len(x)..Len(s)
    PROVE  ComesBehind(x, w, s, b) /\ SubSeq(s, Len(x) + 1, Len(x) + Len(w)) = w
<1> DEFINE p == Len(x)
           q == Len(x) + Len(w)
           d == SubSeq(s, p + 1, b)
<1>0. /\ p \in Nat /\ Len(w) \in Nat /\ Len(t) \in Nat /\ q \in Nat
      /\ s \in Seq(Word) /\ Len(s) = q + Len(t) /\ b \in Nat /\ p <= b /\ b <= Len(s)
  <2>1. x \o w \in Seq(Word) /\ Len(x \o w) = Len(x) + Len(w) OBVIOUS
  <2>2. (x \o w) \o t \in Seq(Word) /\ Len((x \o w) \o t) = Len(x \o w) + Len(t) BY <2>1
  <2>3. Len(x) \in Nat /\ Len(w) \in Nat /\ Len(t) \in Nat OBVIOUS
  <2>4. Len(s) = (Len(x) + Len(w)) + Len(t) BY <2>1, <2>2
  <2> QED BY <2>2, <2>3, <2>4
<1>1. SubSeq(s, p + 1, q) = w
  <2> DEFINE u == SubSeq(s, p + 1, q)
  <2>1. u \in Seq(Word) /\ Len(u) = Len(w) /\ \A i \in 1..Len(w) : u[i] = s[p + i] BY <1>0, SMTT(30)
  <2>2. ASSUME NEW i \in 1..Len(w) PROVE s[p + i] = w[i]
    <3>1. x \o w \in Seq(Word) /\ Len(x \o w) = q OBVIOUS
    <3>2. p + i \in 1..q BY <1>0
    <3>3. s[p + i] = (x \o w)[p + i] BY <3>1, <3>2
    <3>4. (x \o w)[p + i] = w[i] BY <1>0
    <3> QED BY <3>3, <3>4
  <2> HIDE DEF u
  <2>3. u = w BY <2>1, <2>2, SeqEqual
  <2> QED BY <2>3 DEF u
<1> HIDE DEF p, q
<1>2. d \in Seq(Word) /\ Len(d) = b - p BY <1>0
<1>3. q = p + Len(w) BY DEF p, q
<1>4. ASSUME Len(w) <= b - p PROVE \E u \in Seq(Word) : d = w \o u
  <2>1. p + 1 \in Nat \ {0} /\ p + 1 <= q + 1 /\ q <= b BY <1>0, <1>3, <1>4
  <2>a. PICK a \in Nat \ {0} : a = p + 1 BY <2>1
  <2>2. SubSeq(s, a, q) \o SubSeq(s, q + 1, b) = SubSeq(s, a, b) BY <1>0, <2>1, <2>a, SliceConcat, SMTT(30)
  <2>3. SubSeq(s, q + 1, b) \in Seq(Word) BY <1>0, <2>1
  <2> QED BY <1>1, <2>a, <2>2, <2>3
<1>5. ASSUME b - p < Len(w) PROVE \E v \in Seq(Word) : w = d \o v
  <2>1. p + 1 \in Nat \ {0} /\ p + 1 <= b + 1 /\ b <= q /\ q <= Len(s) BY <1>0, <1>3, <1>5
  <2>2. d \o SubSeq(s, b + 1, q) = SubSeq(s, p + 1, q) BY <1>0, <2>1, SliceConcat, SMTT(30)
  <2>3. SubSeq(s, b + 1, q) \in Seq(Word) BY <1>0, <2>1
  <2> QED BY <1>1, <2>2, <2>3
<1> QED BY <1>0, <1>1, <1>2, <1>4, <1>5 DEF p, q, ComesBehind

-----------------------------------------------------------------------------
(* The coroutine server: what is in the buffer when it looks               *)

LEMMA NothingToParse == ~ TryParse(<< >>).ok
<1>1. HeaderEnd(<< >>) = 0
  <2> DEFINE b == <<"cr", "lf", "cr", "lf">>
  <2>1. Len(b) = 4 /\ Len(<< >>) = 0 OBVIOUS
  <2>2. Places(<< >>, b) = {} BY <2>1 DEF Places
  <2> QED BY <2>2, FindSeqFacts DEF HeaderEnd
<1> QED BY <1>1 DEF TryParse, NoRequest

\* A buffer that begins with a request, or holds the beginning of one, parses exactly if the request
\* is one that can be answered and is all there, and then as that request.
LEMMA BufferParse ==
    ASSUME NEW r, MeansToCoroutine(r), r.wire \in Seq(Word), NEW b \in Seq(Word),
           \/ \E t \in Seq(Word) : b = r.wire \o t
           \/ \E v \in Seq(Word) : r.wire = b \o v
    PROVE  /\ TryParse(b).ok => r.status # 0 /\ Len(r.wire) <= Len(b) /\ TryParse(b) = TryParse(r.wire)
           /\ r.status # 0 /\ Len(r.wire) <= Len(b) => TryParse(b).ok
<1> DEFINE w == r.wire
<1>1. /\ HeaderEnd(w) + 3 + ParsedHead(w).size < SizeMax
      /\ r.status = 0 => HeaderEnd(w) # 0 /\ Malformed(ParsedHead(w))
      /\ r.status # 0 => TryParse(w).ok /\ TryParse(w).consumed = Len(w)
  BY DEF MeansToCoroutine
<1>2. w \in Seq(Word) OBVIOUS
<1> HIDE DEF w
<1>3. ASSUME NEW t \in Seq(Word), b = w \o t
      PROVE  /\ TryParse(b).ok => r.status # 0 /\ Len(w) <= Len(b) /\ TryParse(b) = TryParse(w)
             /\ r.status # 0 => TryParse(b).ok
  <2>1. Len(w) <= Len(b) BY <1>2, <1>3
  <2>2. CASE r.status = 0
    <3>1. HeaderEnd(b) # 0 /\ Malformed(ParsedHead(b)) BY <1>1, <1>2, <1>3, <2>2, HeadExtends
    <3>2. TryParse(b) = NoRequest BY <3>1 DEF TryParse
    <3> QED BY <2>2, <3>2 DEF NoRequest
  <2>3. CASE r.status # 0
    <3>1. TryParse(w \o t) = TryParse(w) BY <1>1, <1>2, <2>3, ParsingIsStable
    <3> QED BY <1>1, <1>3, <2>1, <2>3, <3>1
  <2> QED BY <2>2, <2>3
<1>4. ASSUME NEW v \in Seq(Word), w = b \o v
      PROVE  /\ TryParse(b).ok => r.status # 0 /\ Len(w) <= Len(b) /\ TryParse(b) = TryParse(w)
             /\ r.status # 0 /\ Len(w) <= Len(b) => TryParse(b).ok
  <2>1. ASSUME TryParse(b).ok PROVE r.status # 0 /\ Len(w) <= Len(b) /\ TryParse(b) = TryParse(w)
    <3>1. HeaderEnd(b) # 0 BY <2>1 DEF TryParse, NoRequest
    <3>2. HeaderEnd(w) = HeaderEnd(b) /\ ParsedHead(w) = ParsedHead(b) BY <1>4, <3>1, HeadExtends
    <3>3. HeaderEnd(b) + 3 + ParsedHead(b).size < SizeMax BY <1>1, <3>2
    <3>4. ~ Malformed(ParsedHead(b)) BY <2>1, <3>3, ParsedFacts
    <3>5. r.status # 0 BY <1>1, <3>2, <3>4
    <3>6. TryParse(b \o v) = TryParse(b) BY <2>1, <3>3, ParsingIsStable
    <3>7. TryParse(b).consumed = Len(w) BY <1>1, <1>4, <3>5, <3>6
    <3>8. TryParse(b).consumed <= Len(b)
      <4>1. TryParse(b).consumed = HeaderEnd(b) + 3 + ParsedHead(b).size BY <2>1, <3>3, ParsedFacts
      <4> QED BY <2>1, <3>3, <4>1, ParsedFacts
    <3> QED BY <1>4, <3>5, <3>6, <3>7, <3>8
  <2>2. ASSUME r.status # 0, Len(w) <= Len(b) PROVE TryParse(b).ok
    <3>1. Len(b \o v) = Len(b) + Len(v) /\ Len(b) \in Nat /\ Len(v) \in Nat OBVIOUS
    <3>2. Len(v) = 0 BY <1>4, <2>2, <3>1
    <3>3. v = << >> BY <3>2
    <3>4. w = b BY <1>4, <3>3
    <3> QED BY <1>1, <2>2, <3>4
  <2> QED BY <2>1, <2>2
<1> QED BY <1>3, <1>4 DEF w

-----------------------------------------------------------------------------
(* The coroutine server answers the requests                               *)

\* The plan is one of the server's, and the server has received some of it.
PlanInv == server \in DOMAIN Plans /\ plan \in Plans[server] /\ received \in 0..Len(Stream)

LEMMA PlanType == ASSUME PlanInv PROVE plan \in Seq(Request) /\ Len(plan) \in Nat /\ received \in Nat
<1>1. plan \in Seq(Request) BY PlansAssumption DEF PlanInv
<1> QED BY <1>1 DEF PlanInv

LEMMA StreamType ==
    ASSUME PlanInv
    PROVE  /\ Stream \in Seq(Word) /\ Len(Stream) \in Nat
           /\ \A n \in 0..Len(plan) : Len(Wire(n)) \in Nat /\ Len(Wire(n)) <= Len(Stream)
<1>1. plan \in Seq(Request) /\ Len(plan) \in Nat BY PlanType
<1>2. Len(plan) \in 0..Len(plan) BY <1>1
<1>3. Stream \in Seq(Word) BY <1>1, <1>2, WireType DEF Stream
<1>4. ASSUME NEW n \in 0..Len(plan) PROVE Len(Wire(n)) \in Nat /\ Len(Wire(n)) <= Len(Stream)
  BY <1>1, <1>2, WireLength DEF Stream
<1> QED BY <1>3, <1>4

LEMMA SamePlan == ASSUME plan' = plan PROVE Stream' = Stream /\ \A n : Wire(n)' = Wire(n)
BY DEF Stream, Wire

LEMMA PlanInvariant == RSpec => []PlanInv
<1>1. RInit => PlanInv
  <2> SUFFICES ASSUME RInit PROVE PlanInv OBVIOUS
  <2>1. server \in DOMAIN Plans /\ plan \in Plans[server] /\ received = 0 BY DEF RInit
  <2>2. plan \in Seq(Request) BY <2>1, PlansAssumption
  <2>3. Len(plan) \in 0..Len(plan) BY <2>2
  <2>4. Len(Stream) \in Nat BY <2>2, <2>3, WireLength DEF Stream
  <2> QED BY <2>1, <2>4 DEF PlanInv
<1>2. PlanInv /\ [RNext]_rvars => PlanInv'
  <2> SUFFICES ASSUME PlanInv, [RNext]_rvars PROVE PlanInv' OBVIOUS
  <2>0. Len(Stream) \in Nat /\ received \in Nat BY StreamType, PlanType
  <2>1. CASE UNCHANGED rvars BY <2>1, SamePlan DEF PlanInv, rvars
  <2>2. CASE RNext
    <3>1. PICK k \in 0..(Len(Stream) - received) : Receive(k) \/ Serve \/ Read(k)
      BY <2>2 DEF RNext, ReadEvent, ReadAgain
    <3>2. server' = server /\ plan' = plan BY <3>1 DEF Receive, Serve, Read
    <3>3. received' \in {received, received + k} BY <3>1 DEF Receive, Serve, Read
    <3>4. received' \in 0..Len(Stream) BY <2>0, <3>3 DEF PlanInv
    <3> QED BY <3>2, <3>4, SamePlan DEF PlanInv
  <2> QED BY <2>1, <2>2
<1> QED BY <1>1, <1>2, PTL DEF RSpec

\* n requests have been taken out of the stream and answered; the buffer holds what has come behind
\* them, and the connection is open unless the last one of them closed it.
Taken(n) ==
    /\ answers = [i \in 1..n |-> BuildResponse(TryParse(plan[i].wire))]
    /\ Len(Wire(n)) <= received
    /\ buffer = SubSeq(Stream, Len(Wire(n)) + 1, received)
    /\ \A i \in 1..n : plan[i].status # 0
    /\ \A i \in 1..(n - 1) : plan[i].goes
    /\ open <=> (n > 0 => plan[n].goes)

Plain == server = "coroutine" /\ \A n \in 1..Len(plan) : ~ plan[n].wraps

CoroutineInv == Plain => \E n \in 0..Len(plan) : Taken(n)

LEMMA PlainMeans == ASSUME PlanInv, Plain PROVE \A n \in 1..Len(plan) : MeansToCoroutine(plan[n])
BY RequestsAlone DEF PlanInv, Plain

\* What TryParse makes of the buffer behind n requests.
LEMMA TakenParse ==
    ASSUME PlanInv, Plain, NEW n \in 0..Len(plan), Taken(n)
    PROVE  /\ n = Len(plan) => ~ TryParse(buffer).ok
           /\ n < Len(plan) =>
                LET r == plan[n + 1]
                IN  /\ TryParse(buffer).ok =>
                         r.status # 0 /\ Len(Wire(n + 1)) <= received /\ TryParse(buffer) = TryParse(r.wire)
                    /\ r.status # 0 /\ Len(Wire(n + 1)) <= received => TryParse(buffer).ok
<1>0. plan \in Seq(Request) /\ Len(plan) \in Nat /\ received \in Nat BY PlanType
<1>1. /\ Stream \in Seq(Word) /\ Len(Stream) \in Nat /\ received <= Len(Stream)
      /\ Len(Wire(n)) \in Nat /\ Len(Wire(n)) <= received
  BY StreamType DEF PlanInv, Taken
<1>2. buffer = SubSeq(Stream, Len(Wire(n)) + 1, received) BY DEF Taken
<1>3. CASE n = Len(plan)
  <2>0. Len(Stream) = Len(Wire(n)) BY <1>3 DEF Stream
  <2>1. Len(Wire(n)) = received BY <1>0, <1>1, <2>0
  <2>2. buffer = << >> BY <1>1, <1>2, <2>1
  <2> QED BY <1>3, <2>2, NothingToParse
<1>4. CASE n < Len(plan)
  <2> DEFINE r == plan[n + 1]
  <2>1. n \in 0..(Len(plan) - 1) /\ n + 1 \in 1..Len(plan) /\ n \in Nat BY <1>0, <1>4
  <2>2. PICK t \in Seq(Word) : Stream = (Wire(n) \o r.wire) \o t BY <1>0, <2>1, StreamAt
  <2>3. Wire(n) \in Seq(Word) /\ r.wire \in Seq(Word) BY <1>0, <2>1, WireType, RequestType
  <2>4. MeansToCoroutine(r) BY <2>1, PlainMeans
  <2>5. Len(Wire(n + 1)) = Len(Wire(n)) + Len(r.wire)
    <3>1. (n + 1) - 1 = n BY <2>1
    <3> QED BY <1>0, <2>1, <3>1, WireLength
  <2> HIDE DEF r
  <2>6. /\ buffer \in Seq(Word) /\ Len(buffer) = received - Len(Wire(n))
        /\ Len(r.wire) <= received - Len(Wire(n)) => \E u \in Seq(Word) : buffer = r.wire \o u
        /\ received - Len(Wire(n)) < Len(r.wire) => \E v \in Seq(Word) : r.wire = buffer \o v
    <3>1. PICK x \in Seq(Word) : x = Wire(n) BY <2>3
    <3>2. PICK w \in Seq(Word) : w = r.wire BY <2>3
    <3>s. PICK s : s = Stream OBVIOUS
    <3>3. PICK b \in Len(x)..Len(s) : b = received BY <1>0, <1>1, <3>1, <3>s
    <3>4. s = (x \o w) \o t BY <2>2, <3>1, <3>2, <3>s
    <3>5. ComesBehind(x, w, s, b)
      BY <3>4, SliceBehind
    <3> QED BY <1>2, <3>1, <3>2, <3>s, <3>3, <3>5 DEF ComesBehind
  <2>7. Len(r.wire) \in Nat BY <2>3
  <2>8. \/ \E u \in Seq(Word) : buffer = r.wire \o u
        \/ \E v \in Seq(Word) : r.wire = buffer \o v
    <3>1. \/ Len(r.wire) <= received - Len(Wire(n)) \/ received - Len(Wire(n)) < Len(r.wire) BY <1>0, <1>1, <2>7
    <3> QED BY <2>6, <3>1
  <2>9. /\ TryParse(buffer).ok => r.status # 0 /\ Len(r.wire) <= Len(buffer) /\ TryParse(buffer) = TryParse(r.wire)
        /\ r.status # 0 /\ Len(r.wire) <= Len(buffer) => TryParse(buffer).ok
    BY <2>3, <2>4, <2>6, <2>8, BufferParse
  <2>10. Len(r.wire) <= Len(buffer) <=> Len(Wire(n + 1)) <= received BY <1>0, <1>1, <2>5, <2>6, <2>7
  <2> QED BY <1>4, <2>9, <2>10 DEF r
<1> QED BY <1>0, <1>3, <1>4

\* A read lengthens what the buffer holds.
LEMMA ReceiveTakes ==
    ASSUME PlanInv, Plain, NEW n \in 0..Len(plan), Taken(n),
           NEW k \in 0..(Len(Stream) - received), Receive(k)
    PROVE  Taken(n)'
<1>0. Len(plan) \in Nat /\ received \in Nat BY PlanType
<1>1. /\ Stream \in Seq(Word) /\ Len(Stream) \in Nat /\ received <= Len(Stream)
      /\ Len(Wire(n)) \in Nat /\ Len(Wire(n)) <= received
  BY StreamType DEF PlanInv, Taken
<1>2. plan' = plan /\ answers' = answers /\ open' = open /\ received' = received + k
  BY DEF Receive
<1>3. Stream' = Stream /\ Wire(n)' = Wire(n) BY <1>2, SamePlan
<1>4. buffer' = SubSeq(Stream, Len(Wire(n)) + 1, received) \o SubSeq(Stream, received + 1, received + k)
  BY DEF Receive, Piece, Taken
<1>5. SubSeq(Stream, Len(Wire(n)) + 1, received) \o SubSeq(Stream, received + 1, received + k)
        = SubSeq(Stream, Len(Wire(n)) + 1, received + k)
  <2>1. PICK a \in Nat \ {0} : a = Len(Wire(n)) + 1 BY <1>1
  <2>2. PICK c \in Nat : c = received + k BY <1>0
  <2>3. a <= received + 1 /\ received <= c /\ c <= Len(Stream) BY <1>0, <1>1, <2>1, <2>2
  <2>4. SubSeq(Stream, a, received) \o SubSeq(Stream, received + 1, c) = SubSeq(Stream, a, c)
    BY <1>0, <1>1, <2>3, SliceConcat
  <2> QED BY <2>1, <2>2, <2>4
<1>6. Len(Wire(n)) <= received + k BY <1>0, <1>1
<1> QED BY <1>2, <1>3, <1>4, <1>5, <1>6 DEF Taken

\* A request that is taken out is the next one of the plan.
LEMMA ServeTakes ==
    ASSUME PlanInv, Plain, NEW n \in 0..Len(plan), Taken(n), Serve
    PROVE  n + 1 \in 0..Len(plan) /\ Taken(n + 1)'
<1>0. plan \in Seq(Request) /\ Len(plan) \in Nat /\ received \in Nat BY PlanType
<1>1. /\ Stream \in Seq(Word) /\ Len(Stream) \in Nat /\ received <= Len(Stream)
      /\ Len(Wire(n)) \in Nat /\ Len(Wire(n)) <= received
  BY StreamType DEF PlanInv, Taken
<1>2. /\ TryParse(buffer).ok /\ open
      /\ buffer' = From(buffer, TryParse(buffer).consumed + 1)
      /\ answers' = Append(answers, BuildResponse(TryParse(buffer)))
      /\ open' = KeepAlive(TryParse(buffer))
      /\ plan' = plan /\ received' = received
  BY DEF Serve
<1>3. n < Len(plan) BY <1>0, <1>2, TakenParse
<1>4. n + 1 \in 1..Len(plan) /\ n \in Nat /\ (n + 1) - 1 = n BY <1>0, <1>3
<1> DEFINE r == plan[n + 1]
<1>5. r.status # 0 /\ Len(Wire(n + 1)) <= received /\ TryParse(buffer) = TryParse(r.wire) BY <1>2, <1>3, TakenParse
<1>6. Len(Wire(n + 1)) = Len(Wire(n)) + Len(r.wire) /\ Len(r.wire) \in Nat
  BY <1>0, <1>4, WireLength, RequestType
<1>7. TryParse(r.wire).consumed = Len(r.wire) /\ BuildResponse(TryParse(r.wire)).keep = r.goes
  <2>1. MeansToCoroutine(r) BY <1>4, PlainMeans
  <2> QED BY <1>5, <2>1 DEF MeansToCoroutine
<1>8. open' = r.goes
  <2>1. BuildResponse(TryParse(r.wire)).keep = KeepAlive(TryParse(r.wire)) BY DEF BuildResponse
  <2> QED BY <1>2, <1>5, <1>7, <2>1
<1>9. buffer' = SubSeq(Stream, Len(Wire(n + 1)) + 1, received)
  <2>1. PICK a \in Nat \ {0} : a = Len(Wire(n)) + 1 BY <1>1
  <2>2. PICK k \in Nat : k = Len(r.wire) BY <1>6
  <2>b. Len(Wire(n + 1)) = Len(Wire(n)) + k /\ Len(Wire(n)) + k <= received BY <1>5, <1>6, <2>2
  <2>3. a + k <= received + 1 /\ a + k = Len(Wire(n + 1)) + 1 BY <1>0, <1>1, <2>1, <2>b
  <2>4. SubSeq(SubSeq(Stream, a, received), k + 1, Len(SubSeq(Stream, a, received)))
          = SubSeq(Stream, a + k, received)
    BY <1>0, <1>1, <2>3, SliceOfSlice
  <2>5. buffer = SubSeq(Stream, a, received) BY <2>1 DEF Taken
  <2>6. buffer' = SubSeq(buffer, k + 1, Len(buffer)) BY <1>2, <1>5, <1>7, <2>2 DEF From
  <2> HIDE DEF r
  <2> QED BY <2>3, <2>4, <2>5, <2>6
<1>10. answers' = [i \in 1..(n + 1) |-> BuildResponse(TryParse(plan[i].wire))]
  <2> DEFINE F(i) == BuildResponse(TryParse(plan[i].wire))
             S == {F(i) : i \in 1..(n + 1)}
             u == [i \in 1..(n + 1) |-> F(i)]
  <2>1. answers = [i \in 1..n |-> F(i)] BY DEF Taken
  <2>2. answers' = Append(answers, F(n + 1)) BY <1>2, <1>5
  <2>3. \A i \in 1..(n + 1) : F(i) \in S OBVIOUS
  <2> HIDE DEF F, S
  <2>4. answers \in Seq(S) /\ Len(answers) = n /\ \A i \in 1..n : answers[i] = F(i) BY <1>4, <2>1, <2>3
  <2>5. u \in Seq(S) /\ Len(u) = n + 1 /\ \A i \in 1..(n + 1) : u[i] = F(i) BY <1>4, <2>3
  <2>6. F(n + 1) \in S BY <1>4, <2>3
  <2> HIDE DEF u
  <2>7. PICK y \in S : y = F(n + 1) BY <2>6
  <2>8. Append(answers, y) \in Seq(S) /\ Len(Append(answers, y)) = n + 1 BY <2>4
  <2>9. ASSUME NEW i \in 1..(n + 1) PROVE Append(answers, y)[i] = u[i]
    <3>1. CASE i = n + 1 BY <1>4, <2>4, <2>5, <2>7, <3>1
    <3>2. CASE i # n + 1
      <4>1. i \in 1..n BY <1>4, <3>2
      <4> QED BY <2>4, <2>5, <4>1
    <3> QED BY <3>1, <3>2
  <2>10. Append(answers, y) = u BY <2>5, <2>8, <2>9, SeqEqual
  <2> QED BY <2>2, <2>7, <2>10 DEF u, F
<1>11. \A i \in 1..(n + 1) : plan[i].status # 0
  <2>1. \A i \in 1..n : plan[i].status # 0 BY DEF Taken
  <2>2. \A i \in 1..(n + 1) : i \in 1..n \/ i = n + 1 BY <1>4
  <2> QED BY <1>5, <2>1, <2>2
<1>12. \A i \in 1..n : plan[i].goes
  <2>1. (\A i \in 1..(n - 1) : plan[i].goes) /\ (n > 0 => plan[n].goes) BY <1>2 DEF Taken
  <2>2. \A i \in 1..n : i \in 1..(n - 1) \/ (n > 0 /\ i = n) BY <1>4
  <2> QED BY <2>1, <2>2
<1>13. Wire(n + 1)' = Wire(n + 1) /\ Stream' = Stream BY <1>2, SamePlan
<1>14. n + 1 > 0 BY <1>4
<1> QED BY <1>2, <1>4, <1>5, <1>8, <1>9, <1>10, <1>11, <1>12, <1>13, <1>14 DEF Taken

LEMMA CoroutineInvariant == RSpec => []CoroutineInv
<1>1. RInit /\ PlanInv => CoroutineInv
  <2> SUFFICES ASSUME RInit, PlanInv PROVE \E n \in 0..Len(plan) : Taken(n) BY DEF CoroutineInv
  <2>1. 0 \in 0..Len(plan) BY PlanType
  <2>2. Stream \in Seq(Word) /\ Len(Wire(0)) = 0 BY StreamType, WireDef
  <2>3. SubSeq(Stream, 1, 0) = << >> BY <2>2
  <2>4. [i \in 1..0 |-> BuildResponse(TryParse(plan[i].wire))] = << >> OBVIOUS
  <2>5. Taken(0) BY <2>2, <2>3, <2>4 DEF RInit, Taken
  <2> QED BY <2>1, <2>5
<1>2. PlanInv /\ CoroutineInv /\ [RNext]_rvars => CoroutineInv'
  <2> SUFFICES ASSUME PlanInv, CoroutineInv, [RNext]_rvars, Plain' PROVE \E n \in 0..Len(plan') : Taken(n)'
    BY DEF CoroutineInv
  <2>1. server' = server /\ plan' = plan BY DEF RNext, Receive, Serve, ReadEvent, ReadAgain, Read, rvars
  <2>2. Plain BY <2>1 DEF Plain
  <2>3. PICK n \in 0..Len(plan) : Taken(n) BY <2>2 DEF CoroutineInv
  <2>4. CASE UNCHANGED rvars
    <3>1. \A m : Wire(m)' = Wire(m) BY <2>1, SamePlan
    <3>2. Taken(n)' BY <2>1, <2>3, <2>4, <3>1, SamePlan DEF Taken, rvars
    <3> QED BY <2>1, <3>2
  <2>5. CASE RNext
    <3>1. PICK k \in 0..(Len(Stream) - received) : Receive(k) \/ Serve \/ Read(k)
      BY <2>5 DEF RNext, ReadEvent, ReadAgain
    <3>2. CASE Receive(k) BY <2>1, <2>2, <2>3, <3>2, ReceiveTakes
    <3>3. CASE Serve
      <4>1. PICK m \in 0..Len(plan) : m = n + 1 /\ Taken(m)'
        <5>1. n + 1 \in 0..Len(plan) /\ Taken(n + 1)' BY <2>2, <2>3, <3>3, ServeTakes
        <5> QED BY <5>1
      <4> QED BY <2>1, <4>1
    <3>4. CASE Read(k) BY <2>2, <3>4 DEF Plain, Read
    <3> QED BY <3>1, <3>2, <3>3, <3>4
  <2> QED BY <2>4, <2>5
<1> QED BY <1>1, <1>2, PlanInvariant, PTL DEF RSpec

\* The coroutine server answers exactly the requests that have arrived whole, each with its own answer.
THEOREM CoroutineAnswersRequests == RSpec => []AnswersAreForRequests
<1>1. PlanInv /\ CoroutineInv => AnswersAreForRequests
  <2> SUFFICES ASSUME PlanInv, CoroutineInv, Plain, open => ~ TryParse(buffer).ok
               PROVE  /\ Len(answers) = Cardinality({m \in Due : plan[m].status # 0})
                      /\ \A i \in 1..Len(answers) :
                            /\ answers[i].status = plan[i].status /\ answers[i].keep = plan[i].keep
                            /\ answers[i].body = plan[i].size
    BY DEF AnswersAreForRequests, Plain
  <2>0. plan \in Seq(Request) /\ Len(plan) \in Nat /\ received \in Nat BY PlanType
  <2>1. PICK n \in 0..Len(plan) : Taken(n) BY DEF CoroutineInv
  <2>2. n \in Nat /\ Len(answers) = n /\ \A i \in 1..n : answers[i] = BuildResponse(TryParse(plan[i].wire))
    BY <2>0, <2>1 DEF Taken
  <2>3. Len(Wire(n)) <= received /\ \A i \in 1..n : plan[i].status # 0 BY <2>1 DEF Taken
  <2>4. /\ \A m \in 0..Len(plan) : Len(Wire(m)) \in Nat /\ \A j \in 0..m : Len(Wire(j)) <= Len(Wire(m))
        /\ \A m \in 1..Len(plan) : Len(Wire(m)) = Len(Wire(m - 1)) + plan[m].due
    <3>1. \A m \in 1..Len(plan) : plan[m].due = Len(plan[m].wire) BY PlainMeans DEF MeansToCoroutine
    <3> QED BY <2>0, <3>1, WireLength
  <2>5. ASSUME NEW m \in 1..n PROVE m \in Due /\ plan[m].status # 0
    <3>1. m \in 1..Len(plan) /\ m \in 0..n /\ n \in 0..Len(plan) BY <2>0, <2>2
    <3>2. Len(Wire(m)) <= Len(Wire(n)) /\ Len(Wire(m)) \in Nat /\ Len(Wire(n)) \in Nat BY <2>0, <2>4, <3>1
    <3>3. Len(Wire(m - 1)) + plan[m].due <= received BY <2>0, <2>3, <2>4, <3>1, <3>2
    <3>4. \A j \in 1..(m - 1) : j \in 1..(n - 1) BY <2>2
    <3>5. \A j \in 1..(m - 1) : plan[j].goes BY <2>1, <3>4 DEF Taken
    <3> QED BY <2>3, <3>1, <3>3, <3>5 DEF Due
  <2>6. ASSUME NEW m \in Due, plan[m].status # 0 PROVE m \in 1..n
    <3>1. m \in 1..Len(plan) /\ Len(Wire(m - 1)) + plan[m].due <= received /\ \A j \in 1..(m - 1) : plan[j].goes
      BY DEF Due
    <3> SUFFICES ASSUME m > n PROVE FALSE BY <2>2, <3>1
    <3>2. n + 1 \in 1..Len(plan) /\ n < Len(plan) BY <2>0, <2>2, <3>1
    <3>3. n > 0 => n \in 1..(m - 1) BY <2>2, <3>1
    <3>4. open BY <2>1, <3>1, <3>3 DEF Taken
    <3>5. plan[n + 1].status # 0 /\ Len(Wire(n + 1)) <= received
      <4>1. CASE m = n + 1
        <5>1. Len(Wire(m)) = Len(Wire(m - 1)) + plan[m].due BY <2>4, <3>1
        <5> QED BY <2>6, <3>1, <4>1, <5>1
      <4>2. CASE m # n + 1
        <5>1. n + 1 \in 1..(m - 1) /\ m - 1 \in 0..Len(plan) /\ n + 1 \in 0..(m - 1) BY <2>0, <2>2, <3>1, <4>2
        <5>2. plan[n + 1].goes BY <3>1, <5>1
        <5>3. plan[n + 1].status # 0 BY <3>2, <5>2, PlainMeans DEF MeansToCoroutine
        <5>4. Len(Wire(n + 1)) <= Len(Wire(m - 1)) BY <2>4, <5>1
        <5>5. Len(Wire(n + 1)) \in Nat /\ Len(Wire(m - 1)) \in Nat /\ plan[m].due \in Nat
          <6>1. n + 1 \in 0..Len(plan) BY <2>0, <3>2
          <6> QED BY <2>0, <2>4, <3>1, <5>1, <6>1, RequestType
        <5> QED BY <2>0, <3>1, <5>3, <5>4, <5>5
      <4> QED BY <4>1, <4>2
    <3>6. TryParse(buffer).ok BY <2>1, <3>2, <3>5, TakenParse
    <3> QED BY <3>4, <3>6
  <2>7. {m \in Due : plan[m].status # 0} = 1..n BY <2>5, <2>6
  <2>8. Cardinality(1..n) = n
    <3>1. Cardinality(1..n) = IF 1 > n THEN 0 ELSE n - 1 + 1 BY <2>2, FS_Interval
    <3> QED BY <2>2, <3>1
  <2>9. ASSUME NEW i \in 1..n
        PROVE  /\ answers[i].status = plan[i].status /\ answers[i].keep = plan[i].keep
               /\ answers[i].body = plan[i].size
    <3>1. i \in 1..Len(plan) BY <2>0, <2>2
    <3> QED BY <2>2, <2>3, <3>1, PlainMeans DEF MeansToCoroutine
  <2> QED BY <2>2, <2>7, <2>8, <2>9
<1> QED BY <1>1, PlanInvariant, CoroutineInvariant, PTL

-----------------------------------------------------------------------------
(* The epoll server: a connection that has served reads as a new one       *)

Fields == {"buf", "out", "state", "hs", "headers", "method", "file", "keep", "err", "cstate",
           "ev", "last", "page", "n", "again", "dead"}

\* d and e are in the same place of a request; d has answered k more, and has kept K.
Alike(d, e, k, K) ==
    /\ DOMAIN d = Fields /\ DOMAIN e = Fields
    /\ d.buf = e.buf /\ d.state = e.state /\ d.hs = e.hs /\ d.headers = e.headers /\ d.file = e.file
    /\ d.err = e.err /\ d.dead = e.dead /\ d.page = e.page
    /\ d.state # "uri" => d.method = e.method
    /\ e.n \in Int /\ d.n = e.n + k
    /\ d.keep \in BOOLEAN /\ e.keep \in BOOLEAN /\ (d.keep <=> e.keep \/ K)
    /\ e.err \in BOOLEAN /\ e.dead \in BOOLEAN

\* f has gone on from d, with the same socket and output.
Onward(f, d) == f.out = d.out /\ f.cstate = d.cstate /\ f.again = d.again

LEMMA OnwardTrans == ASSUME NEW d, NEW f, NEW g, Onward(f, d), Onward(g, f) PROVE Onward(g, d)
BY DEF Onward

LEMMA ErrorAlike ==
    ASSUME NEW d, NEW e, NEW k \in Int, NEW K \in BOOLEAN, Alike(d, e, k, K), NEW code
    PROVE  /\ Alike(HandleError(d, code), HandleError(e, code), k, K)
           /\ Onward(HandleError(d, code), d) /\ Onward(HandleError(e, code), e)
BY DEF Alike, Onward, HandleError, Fields

\* parseURI takes all it knows from the buffer.
LEMMA URIAlike ==
    ASSUME NEW d, NEW e, NEW k \in Int, NEW K \in BOOLEAN, Alike(d, e, k, K)
    PROVE  /\ Alike(URIStage(d), URIStage(e), k, K)
           /\ Onward(URIStage(d), d) /\ Onward(URIStage(e), e)
<1> DEFINE cr      == Find(e.buf, {"cr"}, 1)
           line    == IF cr = 0 THEN e.buf ELSE SubSeq(e.buf, 1, cr - 1)
           target  == Find(line, Slashed, Find(line, {MethodIn(line)}, 1))
           version == Find(line, Slashed, Find(line, {"sp"}, target))
           rest    == IF cr = 0 THEN e.buf ELSE From(e.buf, cr + 1)
           good    == version # 0 /\ line[version] \in Versions
           Line(c) == [c EXCEPT !.buf = rest, !.method = MethodIn(line), !.file = line[target], !.state = "headers"]
           None(c) == [c EXCEPT !.buf = << >>]
<1>1. d.buf = e.buf /\ DOMAIN d = Fields /\ DOMAIN e = Fields BY DEF Alike
<1>2. ParseURI(e) = IF good THEN Line(e) ELSE HandleError(None(e), 400) BY DEF ParseURI
<1>3. ParseURI(d) = IF good THEN Line(d) ELSE HandleError(None(d), 400) BY <1>1 DEF ParseURI
<1> HIDE DEF cr, line, target, version, rest, good
<1>4. Alike(Line(d), Line(e), k, K) /\ Onward(Line(d), d) /\ Onward(Line(e), e) BY DEF Alike, Onward, Fields
<1>5. Alike(None(d), None(e), k, K) /\ Onward(None(d), d) /\ Onward(None(e), e) BY DEF Alike, Onward, Fields
<1> HIDE DEF Line, None
<1>6. /\ Alike(HandleError(None(d), 400), HandleError(None(e), 400), k, K)
      /\ Onward(HandleError(None(d), 400), d) /\ Onward(HandleError(None(e), 400), e)
  BY <1>5, ErrorAlike, OnwardTrans
<1>7. Alike(ParseURI(d), ParseURI(e), k, K) /\ Onward(ParseURI(d), d) /\ Onward(ParseURI(e), e)
  BY <1>2, <1>3, <1>4, <1>6
<1>8. At(d, "uri") <=> At(e, "uri") BY DEF Alike, At
<1>9. Onward(d, d) /\ Onward(e, e) BY DEF Onward
<1> QED BY <1>7, <1>8, <1>9 DEF URIStage

\* The loop of parseHeaders looks at the buffer, hState_ and headers_.
ScanOf(s, h) ==
    LET f[i \in 0..Len(s)] == IF i = 0 THEN h ELSE Advance(f[i - 1], s, i)
    IN  f[Len(s)]

LEMMA ScanAlike ==
    ASSUME NEW d, NEW e, d.buf = e.buf, d.hs = e.hs, d.headers = e.headers
    PROVE  Scan(d) = Scan(e)
<1>1. Scan(d) = ScanOf(d.buf, ScanStart(d)) BY DEF Scan, ScanOf
<1>2. Scan(e) = ScanOf(e.buf, ScanStart(e)) BY DEF Scan, ScanOf
<1>3. ScanStart(d) = ScanStart(e) BY DEF ScanStart
<1> QED BY <1>1, <1>2, <1>3

LEMMA HeaderAlike ==
    ASSUME NEW d, NEW e, NEW k \in Int, NEW K \in BOOLEAN, Alike(d, e, k, K)
    PROVE  /\ Alike(HeaderStage(d), HeaderStage(e), k, K)
           /\ Onward(HeaderStage(d), d) /\ Onward(HeaderStage(e), e)
<1> DEFINE h == Scan(e)
           E(c) == [c EXCEPT !.hs = h.hs, !.headers = h.headers]
           Moved(c, s) == [c EXCEPT !.buf = From(@, h.i + 1), !.state = s]
           Cut(c) == [c EXCEPT !.buf = From(@, h.begin)]
<1>1. At(d, "headers") <=> At(e, "headers") BY DEF Alike, At
<1>2. Onward(d, d) /\ Onward(e, e) BY DEF Onward
<1> SUFFICES ASSUME At(e, "headers")
             PROVE  Alike(ParseHeaders(d), ParseHeaders(e), k, K) /\ Onward(ParseHeaders(d), d) /\ Onward(ParseHeaders(e), e)
  BY <1>1, <1>2 DEF HeaderStage
<1>3. Scan(d) = h BY ScanAlike DEF Alike
<1>4. e.state = "headers" /\ d.method = e.method BY DEF At, Alike
<1> HIDE DEF h
<1>5. Alike(E(d), E(e), k, K) /\ Onward(E(d), d) /\ Onward(E(e), e) BY DEF Alike, Onward, Fields
<1>6. ParseHeaders(d) = IF h.bad THEN HandleError(E(d), 400)
                        ELSE IF h.hs = "endlf" THEN Moved(E(d), IF d.method = "POST" THEN "body" ELSE "analysis")
                        ELSE Cut(E(d))
  BY <1>3 DEF ParseHeaders, Scanned
<1>7. ParseHeaders(e) = IF h.bad THEN HandleError(E(e), 400)
                        ELSE IF h.hs = "endlf" THEN Moved(E(e), IF e.method = "POST" THEN "body" ELSE "analysis")
                        ELSE Cut(E(e))
  BY DEF ParseHeaders, Scanned, h
<1>a. E(d).method = E(e).method BY <1>4 DEF Alike, Fields
<1> HIDE DEF E
<1>8. ASSUME NEW s
      PROVE  /\ Alike(Moved(E(d), s), Moved(E(e), s), k, K)
             /\ Onward(Moved(E(d), s), E(d)) /\ Onward(Moved(E(e), s), E(e))
  BY <1>5, <1>a DEF Alike, Onward, Fields
<1>9. Alike(Cut(E(d)), Cut(E(e)), k, K) /\ Onward(Cut(E(d)), E(d)) /\ Onward(Cut(E(e)), E(e))
  BY <1>5 DEF Alike, Onward, Fields
<1> HIDE DEF Moved, Cut
<1>10. CASE h.bad BY <1>5, <1>6, <1>7, <1>10, ErrorAlike, OnwardTrans
<1>11. CASE ~ h.bad /\ h.hs = "endlf" BY <1>4, <1>5, <1>6, <1>7, <1>8, <1>11, OnwardTrans
<1>12. CASE ~ h.bad /\ h.hs # "endlf" BY <1>5, <1>6, <1>7, <1>9, <1>12, OnwardTrans
<1> QED BY <1>10, <1>11, <1>12

LEMMA BodyAlike ==
    ASSUME NEW d, NEW e, NEW k \in Int, NEW K \in BOOLEAN, Alike(d, e, k, K)
    PROVE  /\ Alike(BodyStage(d), BodyStage(e), k, K)
           /\ Onward(BodyStage(d), d) /\ Onward(BodyStage(e), e)
<1> DEFINE Dead(c) == [c EXCEPT !.dead = TRUE]
           Done(c) == [c EXCEPT !.state = "analysis"]
           v == e.headers["Content-length"]
           F(c) == IF v = "none" THEN HandleError(c, 400)
                   ELSE IF v \notin DOMAIN Numbers THEN Dead(c)
                   ELSE IF Len(e.buf) < Numbers[v] THEN c
                   ELSE Done(c)
<1>1. At(d, "body") <=> At(e, "body") BY DEF Alike, At
<1>2. Onward(d, d) /\ Onward(e, e) BY DEF Onward
<1> SUFFICES ASSUME At(e, "body")
             PROVE  Alike(ReceiveBody(d), ReceiveBody(e), k, K) /\ Onward(ReceiveBody(d), d) /\ Onward(ReceiveBody(e), e)
  BY <1>1, <1>2 DEF BodyStage
<1>3. d.headers = e.headers /\ d.buf = e.buf /\ e.state = "body" /\ d.method = e.method BY DEF At, Alike
<1>4. ReceiveBody(e) = F(e) BY DEF ReceiveBody
<1>5. ReceiveBody(d) = F(d) BY <1>3 DEF ReceiveBody
<1>6. Alike(Dead(d), Dead(e), k, K) /\ Onward(Dead(d), d) /\ Onward(Dead(e), e) BY DEF Alike, Onward, Fields
<1>7. Alike(Done(d), Done(e), k, K) /\ Onward(Done(d), d) /\ Onward(Done(e), e) BY <1>3 DEF Alike, Onward, Fields
<1> HIDE DEF Dead, Done, v
<1> QED BY <1>2, <1>4, <1>5, <1>6, <1>7, ErrorAlike

LEMMA ResponseSeq ==
    ASSUME NEW n \in Int
    PROVE  Response(n) \in Seq(Int \X Int) /\ Len(Response(n)) = RespLen /\ RespLen \in Nat \ {0} /\ Response(n) # << >>
<1>1. RespLen \in Nat \ {0} BY HttpDataConstants
<1>2. Response(n) \in Seq(Int \X Int) /\ Len(Response(n)) = RespLen BY <1>1 DEF Response
<1> QED BY <1>1, <1>2

\* There is nothing to write, or one response.
OneOut(c) == c.out = << >> \/ \E n \in Int : c.out = Response(n)

\* d and e have become f and g, which are alike and have at most one response to write.
SameAnalysis(f, g, d, e, k, K) ==
    /\ Alike(f, g, k, K) /\ OneOut(f) /\ OneOut(g)
    /\ f.cstate = d.cstate /\ f.again = d.again /\ g.cstate = e.cstate /\ g.again = e.again

\* analysisRequest decides by the method, the file and the headers.
LEMMA AnalysisAlike ==
    ASSUME NEW d, NEW e, NEW k \in Int, NEW K \in BOOLEAN, Alike(d, e, k, K), d.out = << >>, e.out = << >>
    PROVE  SameAnalysis(AnalysisStage(d), AnalysisStage(e), d, e, k, K)
<1> DEFINE C(c)   == [c EXCEPT !.keep = @ \/ e.headers["Connection"] = "keep-alive", !.n = @ + 1]
           P(c)   == [c EXCEPT !.err = TRUE, !.n = @ + 1]
           G(c)   == HandleError(C(c), 404)
           L(c)   == HandleError([C(c) EXCEPT !.out = << >>], 404)
           H(c)   == [C(c) EXCEPT !.out = Response(C(c).n), !.state = "finish"]
           O(c)   == [C(c) EXCEPT !.out = @ \o Response(C(c).n), !.state = "finish"]
           Ok(f)  == /\ Alike(f[1], f[2], k, K) /\ OneOut(f[1]) /\ OneOut(f[2])
                     /\ f[1].cstate = d.cstate /\ f[1].again = d.again
                     /\ f[2].cstate = e.cstate /\ f[2].again = e.again
<1>1. At(d, "analysis") <=> At(e, "analysis") BY DEF Alike, At
<1>2. OneOut(d) /\ OneOut(e) BY DEF OneOut
<1> SUFFICES ASSUME At(e, "analysis") PROVE Ok(<<AnalysisRequest(d), AnalysisRequest(e)>>)
  BY <1>1, <1>2 DEF AnalysisStage, SameAnalysis
<1>3. d.headers = e.headers /\ d.file = e.file /\ e.state = "analysis" /\ d.method = e.method BY DEF At, Alike
<1>4. Alike(C(d), C(e), k, K) /\ Onward(C(d), d) /\ Onward(C(e), e) /\ C(d).n \in Int /\ C(e).n \in Int
      /\ C(d).method = C(e).method /\ C(d).out = << >> /\ C(e).out = << >>
  BY <1>3 DEF Alike, Onward, Fields
<1>5. Ok(<<P(d), P(e)>>)
  <2>1. Alike(P(d), P(e), k, K) /\ Onward(P(d), d) /\ Onward(P(e), e) BY <1>3 DEF Alike, Onward, Fields
  <2> QED BY <2>1 DEF Onward, OneOut
<1> HIDE DEF C
<1>6. Ok(<<G(d), G(e)>>)
  <2>1. Alike(G(d), G(e), k, K) /\ Onward(G(d), C(d)) /\ Onward(G(e), C(e)) BY <1>4, ErrorAlike
  <2> QED BY <1>4, <2>1 DEF Onward, OneOut
<1>7. Ok(<<L(d), L(e)>>)
  <2> DEFINE M(c) == [C(c) EXCEPT !.out = << >>]
  <2>1. Alike(M(d), M(e), k, K) /\ Onward(M(d), C(d)) /\ Onward(M(e), C(e)) BY <1>4 DEF Alike, Onward, Fields
  <2> HIDE DEF M
  <2>2. /\ Alike(HandleError(M(d), 404), HandleError(M(e), 404), k, K)
        /\ Onward(HandleError(M(d), 404), M(d)) /\ Onward(HandleError(M(e), 404), M(e))
    BY <2>1, ErrorAlike
  <2> QED BY <1>4, <2>1, <2>2 DEF Onward, OneOut, M
<1> DEFINE W(c, o) == [C(c) EXCEPT !.out = o, !.state = "finish"]
<1>8. ASSUME NEW x \in Int, NEW y \in Int PROVE Ok(<<W(d, Response(x)), W(e, Response(y))>>)
  <2> DEFINE o == Response(x)
             q == Response(y)
  <2>1. /\ Alike(W(d, o), W(e, q), k, K) /\ W(d, o).out = o /\ W(e, q).out = q
        /\ W(d, o).cstate = C(d).cstate /\ W(d, o).again = C(d).again
        /\ W(e, q).cstate = C(e).cstate /\ W(e, q).again = C(e).again
    <3> HIDE DEF o, q
    <3> QED BY <1>4 DEF Alike, Fields
  <2> HIDE DEF W
  <2> QED BY <1>4, <2>1 DEF Onward, OneOut
<1>9. H(d) = W(d, Response(C(d).n)) /\ H(e) = W(e, Response(C(e).n)) OBVIOUS
<1>10. O(d) = W(d, Response(C(d).n)) /\ O(e) = W(e, Response(C(e).n))
  <2>1. \A n \in Int : << >> \o Response(n) = Response(n) BY ResponseSeq
  <2>2. C(d).out \o Response(C(d).n) = Response(C(d).n) /\ C(e).out \o Response(C(e).n) = Response(C(e).n)
    BY <1>4, <2>1
  <2> QED BY <2>2
<1>11. Ok(<<H(d), H(e)>>) /\ Ok(<<O(d), O(e)>>)
  <2> HIDE DEF W, H, O, Ok
  <2> QED BY <1>4, <1>8, <1>9, <1>10
<1>12. AnalysisRequest(e) =
         CASE e.method = "POST" -> P(e)
           [] e.method # "POST" /\ e.file = "/gone" -> G(e)
           [] e.method = "GET" /\ e.file = "/locked" -> L(e)
           [] e.method # "POST" /\ e.file = "/hello" -> H(e)
           [] OTHER -> O(e)
  BY DEF AnalysisRequest, C
<1>13. AnalysisRequest(d) =
         CASE e.method = "POST" -> P(d)
           [] e.method # "POST" /\ e.file = "/gone" -> G(d)
           [] e.method = "GET" /\ e.file = "/locked" -> L(d)
           [] e.method # "POST" /\ e.file = "/hello" -> H(d)
           [] OTHER -> O(d)
  BY <1>3 DEF AnalysisRequest, C
<1>14. \/ AnalysisRequest(d) = P(d) /\ AnalysisRequest(e) = P(e)
       \/ AnalysisRequest(d) = G(d) /\ AnalysisRequest(e) = G(e)
       \/ AnalysisRequest(d) = L(d) /\ AnalysisRequest(e) = L(e)
       \/ AnalysisRequest(d) = H(d) /\ AnalysisRequest(e) = H(e)
       \/ AnalysisRequest(d) = O(d) /\ AnalysisRequest(e) = O(e)
  <2> HIDE DEF P, G, L, H, O
  <2> QED BY <1>12, <1>13
<1> HIDE DEF P, G, L, H, O, Ok
<1> QED BY <1>5, <1>6, <1>7, <1>11, <1>14

-----------------------------------------------------------------------------

\* A read that goes on has left the state "uri" and has no page to show.
Going(c) == DOMAIN c = Fields /\ (c.err \/ (c.page = 0 /\ c.state # "uri"))

LEMMA ErrorGoes == ASSUME NEW c, DOMAIN c = Fields, NEW code PROVE Going(HandleError(c, code))
BY DEF Going, HandleError, Fields

LEMMA StagesGo ==
    ASSUME NEW c, DOMAIN c = Fields
    PROVE  /\ c.page = 0 /\ ~ c.err /\ ~ c.dead => Going(URIStage(c))
           /\ Going(c) => Going(HeaderStage(c)) /\ Going(BodyStage(c)) /\ Going(AnalysisStage(c))
<1>1. ASSUME c.page = 0, ~ c.err, ~ c.dead PROVE Going(URIStage(c))
  <2>1. CASE c.state = "uri"
    <3> DEFINE Line(b, m, f) == [c EXCEPT !.buf = b, !.method = m, !.file = f, !.state = "headers"]
               None == HandleError([c EXCEPT !.buf = << >>], 400)
    <3>1. URIStage(c) = ParseURI(c) BY <1>1, <2>1 DEF URIStage, At
    <3>2. (\E b, m, f : ParseURI(c) = Line(b, m, f)) \/ ParseURI(c) = None BY ZenonT(30) DEF ParseURI
    <3>3. ASSUME NEW b, NEW m, NEW f PROVE Going(Line(b, m, f)) BY <1>1 DEF Going, Fields
    <3>4. Going(None)
      <4>1. DOMAIN [c EXCEPT !.buf = << >>] = Fields OBVIOUS
      <4> QED BY <4>1, ErrorGoes
    <3> HIDE DEF Line, None
    <3> QED BY <3>1, <3>2, <3>3, <3>4
  <2>2. CASE c.state # "uri"
    <3>1. URIStage(c) = c BY <2>2 DEF URIStage, At
    <3> QED BY <1>1, <2>2, <3>1 DEF Going
  <2> QED BY <2>1, <2>2
<1>2. ASSUME Going(c) PROVE Going(HeaderStage(c))
  <2> DEFINE h == Scan(c)
             e == [c EXCEPT !.hs = h.hs, !.headers = h.headers]
             Moved(b, t) == [e EXCEPT !.buf = b, !.state = t]
             Cut(b) == [e EXCEPT !.buf = b]
             Failed == HandleError(e, 400)
  <2>1. Going(e) BY <1>2 DEF Going, Fields
  <2>2. \/ HeaderStage(c) \in {c, Failed}
        \/ \E b, t : t # "uri" /\ HeaderStage(c) = Moved(b, t)
        \/ \E b : HeaderStage(c) = Cut(b)
    <3> HIDE DEF h
    <3> QED BY DEF HeaderStage, ParseHeaders, Scanned, h
  <2> HIDE DEF e, h
  <2>3. DOMAIN e = Fields BY <2>1 DEF Going
  <2>4. ASSUME NEW b, NEW t, t # "uri" PROVE Going(Moved(b, t)) BY <2>1, <2>4 DEF Going, Fields
  <2>5. ASSUME NEW b PROVE Going(Cut(b)) BY <2>1 DEF Going, Fields
  <2>6. Going(Failed) BY <2>3, ErrorGoes
  <2> HIDE DEF Moved, Cut, Failed
  <2> QED BY <1>2, <2>2, <2>4, <2>5, <2>6
<1>3. ASSUME Going(c) PROVE Going(BodyStage(c))
  <2>1. BodyStage(c) \in {c, HandleError(c, 400), [c EXCEPT !.dead = TRUE], [c EXCEPT !.state = "analysis"]}
    BY DEF BodyStage, ReceiveBody
  <2>2. Going(HandleError(c, 400)) BY ErrorGoes
  <2>3. Going([c EXCEPT !.dead = TRUE]) BY <1>3 DEF Going, Fields
  <2>4. Going([c EXCEPT !.state = "analysis"]) BY <1>3 DEF Going, Fields
  <2> QED BY <1>3, <2>1, <2>2, <2>3, <2>4
<1>4. ASSUME Going(c) PROVE Going(AnalysisStage(c))
  <2> DEFINE e == [c EXCEPT !.keep = @ \/ c.headers["Connection"] = "keep-alive", !.n = @ + 1]
             Post == [c EXCEPT !.err = TRUE, !.n = @ + 1]
             Failed(d) == HandleError(d, 404)
             Out(o) == [e EXCEPT !.out = o, !.state = "finish"]
  <2>1. Going(e) BY <1>4 DEF Going, Fields
  <2> HIDE DEF e
  <2>2. \/ AnalysisStage(c) \in {c, Post, Failed(e), Failed([e EXCEPT !.out = << >>])}
        \/ \E o : AnalysisStage(c) = Out(o)
    BY DEF AnalysisStage, AnalysisRequest, e
  <2>3. DOMAIN e = Fields /\ DOMAIN [e EXCEPT !.out = << >>] = Fields BY <2>1 DEF Going
  <2>4. Going(Failed(e)) /\ Going(Failed([e EXCEPT !.out = << >>])) BY <2>3, ErrorGoes
  <2>5. Going(Post) BY DEF Going, Fields
  <2>6. ASSUME NEW o PROVE Going(Out(o)) BY <2>1 DEF Going, Fields
  <2> HIDE DEF Post, Failed, Out
  <2> QED BY <1>4, <2>2, <2>4, <2>5, <2>6
<1> QED BY <1>1, <1>2, <1>3, <1>4

\* The socket has room for one response.
LEMMA AllWritten ==
    ASSUME NEW c, OneOut(c), c.out # << >>, ~ c.err, c.cstate # "disconnected"
    PROVE  \E v : HandleWrite(c, RespLen, FALSE) = [c EXCEPT !.out = << >>, !.ev = v]
<1> DEFINE rest == From(c.out, Written(c, RespLen, FALSE) + 1)
<1>1. PICK n \in Int : c.out = Response(n) BY DEF OneOut
<1>2. c.out \in Seq(Int \X Int) /\ Len(c.out) = RespLen /\ RespLen \in Nat BY <1>1, ResponseSeq
<1>3. Least({RespLen, Len(c.out)}) = RespLen
  <2>1. {RespLen, Len(c.out)} = {RespLen} BY <1>2
  <2>2. Least({RespLen}) = RespLen BY <1>2 DEF Least
  <2> QED BY <2>1, <2>2
<1>4. Written(c, RespLen, FALSE) = RespLen BY <1>3 DEF Written
<1>5. rest = << >>
  <2>1. rest = SubSeq(c.out, RespLen + 1, RespLen) BY <1>2, <1>4 DEF From
  <2> HIDE DEF rest
  <2> QED BY <1>2, <2>1
<1>6. HandleWrite(c, RespLen, FALSE) = [c EXCEPT !.out = rest, !.ev = IF rest # << >> THEN @ \cup {"out"} ELSE @]
  BY DEF HandleWrite
<1> HIDE DEF rest
<1> QED BY <1>5, <1>6

\* What handleRead leaves of c, without an error.
Left(f, c) ==
    /\ f.cstate = c.cstate /\ f.out = << >> /\ f.page = c.page
    /\ c.state = "finish" =>
         f.state = "uri" /\ f.hs = "start" /\ f.headers = NoHeaders /\ f.file = "/a" /\ (f.again => f.buf # << >>)
    /\ c.state # "finish" =>
         /\ f.state = c.state /\ f.hs = c.hs /\ f.headers = c.headers /\ f.file = c.file
         /\ f.method = c.method /\ f.again = c.again
    /\ DOMAIN f = Fields /\ f.buf = c.buf /\ f.err = c.err /\ f.dead = c.dead /\ f.n = c.n /\ f.keep = c.keep

LEMMA AfterLeaves ==
    ASSUME NEW c, DOMAIN c = Fields, OneOut(c), ~ c.err, c.cstate # "disconnected"
    PROVE  Left(AfterRead(c, RespLen, FALSE), c)
<1> DEFINE w == IF c.out # << >> THEN HandleWrite(c, RespLen, FALSE) ELSE c
           I(v) == [w EXCEPT !.ev = v]
<1>1. /\ DOMAIN w = Fields /\ w.out = << >>
      /\ w.buf = c.buf /\ w.state = c.state /\ w.hs = c.hs /\ w.headers = c.headers /\ w.method = c.method
      /\ w.file = c.file /\ w.keep = c.keep /\ w.err = c.err /\ w.cstate = c.cstate /\ w.page = c.page
      /\ w.n = c.n /\ w.again = c.again /\ w.dead = c.dead
  <2>1. CASE c.out # << >>
    <3>1. PICK v : w = [c EXCEPT !.out = << >>, !.ev = v] BY <2>1, AllWritten
    <3> HIDE DEF w
    <3> QED BY <3>1 DEF Fields
  <2>2. CASE c.out = << >> BY <2>2
  <2> QED BY <2>1, <2>2
<1>2. AfterRead(c, RespLen, FALSE) =
        IF w.state = "finish" THEN Reset(w) ELSE I(IF w.cstate # "disconnected" THEN w.ev \cup {"in"} ELSE w.ev)
  <2>1. ~ w.err BY <1>1
  <2> HIDE DEF w
  <2> QED BY <1>1, <2>1 DEF AfterRead, w
<1> HIDE DEF w
<1>3. c.state = "finish" => Left(Reset(w), c) BY <1>1 DEF Left, Reset, Fields
<1>4. ASSUME NEW v, c.state # "finish" PROVE Left(I(v), c) BY <1>1, <1>4 DEF Left, Fields
<1> HIDE DEF I
<1> QED BY <1>1, <1>2, <1>3, <1>4

LEMMA NewType == /\ DOMAIN New = Fields /\ New.out = << >> /\ New.cstate = "connected" /\ New.n = 0
                 /\ New.err = FALSE /\ New.dead = FALSE /\ New.keep = FALSE /\ New.page = 0 /\ New.buf = << >>
                 /\ New.state = "uri" /\ New.hs = "start" /\ New.headers = NoHeaders /\ New.file = "/a"
BY DEF New, Fields

\* A read has led to f where it leads to g on another connection.
SameRead(f, g, k, K, zero) ==
    /\ Alike(f, g, k, K)
    /\ ~ g.err => /\ f.out = << >> /\ g.out = << >> /\ g.cstate = "connected" /\ g.page = 0
                  /\ f.cstate = IF zero THEN "disconnecting" ELSE "connected"
                  /\ g.state = "uri" => g.hs = "start" /\ g.headers = NoHeaders /\ g.file = "/a"
                  /\ f.again => f.state = "uri" /\ f.buf # << >>

LEMMA NewAlike == ASSUME NEW K \in BOOLEAN, K = FALSE PROVE Alike(New, New, 0, K)
<1>1. New.n = New.n + 0 /\ New.n \in Int BY NewType
<1>2. New.keep \in BOOLEAN /\ New.err \in BOOLEAN /\ New.dead \in BOOLEAN /\ ~ New.keep BY NewType
<1>3. New.keep <=> New.keep \/ K BY <1>2
<1> QED BY <1>1, <1>2, <1>3, NewType DEF Alike

\* d reads the same as e.
LEMMA ReadAlike ==
    ASSUME NEW d, NEW e, NEW k \in Int, NEW K \in BOOLEAN, Alike(d, e, k, K), ~ e.err, ~ e.dead,
           d.out = << >>, e.out = << >>, d.cstate = "connected", e.cstate = "connected",
           NEW s, s # << >>, NEW zero \in BOOLEAN
    PROVE  SameRead(Reads(d, s, zero), Reads(e, s, FALSE), k, K, zero)
<1> DEFINE x == [d EXCEPT !.buf = @ \o s, !.page = 0, !.again = FALSE]
           y == [e EXCEPT !.buf = @ \o s, !.page = 0, !.again = FALSE]
           z == IF zero THEN [x EXCEPT !.cstate = "disconnecting"] ELSE x
           cz == IF zero THEN "disconnecting" ELSE "connected"
<1>1. /\ Alike(x, y, k, K) /\ x.out = << >> /\ y.out = << >> /\ x.cstate = "connected" /\ y.cstate = "connected"
      /\ x.again = FALSE /\ y.again = FALSE /\ y.page = 0 /\ ~ y.err /\ ~ y.dead
  BY DEF Alike, Fields
<1>2. Parse(e, s, FALSE, FALSE) = AnalysisStage(BodyStage(HeaderStage(URIStage(y)))) BY DEF Parse
<1>3. Parse(d, s, zero, FALSE) = AnalysisStage(BodyStage(HeaderStage(URIStage(z)))) BY DEF Parse
<1> HIDE DEF x, y
<1>4. Alike(z, y, k, K) /\ z.out = << >> /\ z.cstate = cz /\ z.again = FALSE
  BY <1>1 DEF Alike, Fields
<1> HIDE DEF z
<1> DEFINE z1 == URIStage(z)
           y1 == URIStage(y)
           z2 == HeaderStage(z1)
           y2 == HeaderStage(y1)
           z3 == BodyStage(z2)
           y3 == BodyStage(y2)
           z4 == AnalysisStage(z3)
           y4 == AnalysisStage(y3)
<1>5. Alike(z1, y1, k, K) /\ Onward(z1, z) /\ Onward(y1, y) /\ Going(y1)
  <2>1. Alike(z1, y1, k, K) /\ Onward(z1, z) /\ Onward(y1, y) BY <1>4, URIAlike
  <2>2. Going(y1) BY <1>1, StagesGo DEF Alike
  <2> QED BY <2>1, <2>2
<1> HIDE DEF z1, y1
<1>6. Alike(z2, y2, k, K) /\ Onward(z2, z1) /\ Onward(y2, y1) /\ Going(y2)
  <2>1. Alike(z2, y2, k, K) /\ Onward(z2, z1) /\ Onward(y2, y1) BY <1>5, HeaderAlike
  <2>2. Going(y2) BY <1>5, StagesGo DEF Alike
  <2> QED BY <2>1, <2>2
<1> HIDE DEF z2, y2
<1>7. Alike(z3, y3, k, K) /\ Onward(z3, z2) /\ Onward(y3, y2) /\ Going(y3)
  <2>1. Alike(z3, y3, k, K) /\ Onward(z3, z2) /\ Onward(y3, y2) BY <1>6, BodyAlike
  <2>2. Going(y3) BY <1>6, StagesGo DEF Alike
  <2> QED BY <2>1, <2>2
<1> HIDE DEF z3, y3
<1>8. /\ z3.out = << >> /\ z3.cstate = cz /\ z3.again = FALSE
      /\ y3.out = << >> /\ y3.cstate = "connected" /\ y3.again = FALSE
  BY <1>1, <1>4, <1>5, <1>6, <1>7 DEF Onward
<1>9. /\ Alike(z4, y4, k, K) /\ OneOut(z4) /\ OneOut(y4) /\ Going(y4)
      /\ z4.cstate = cz /\ z4.again = FALSE /\ y4.cstate = "connected" /\ y4.again = FALSE
  <2>1. /\ Alike(z4, y4, k, K) /\ OneOut(z4) /\ OneOut(y4)
        /\ z4.cstate = z3.cstate /\ z4.again = z3.again /\ y4.cstate = y3.cstate /\ y4.again = y3.again
    <3>1. SameAnalysis(AnalysisStage(z3), AnalysisStage(y3), z3, y3, k, K) BY <1>7, <1>8, AnalysisAlike
    <3> QED BY <3>1 DEF SameAnalysis
  <2>2. Going(y4) BY <1>7, StagesGo DEF Alike
  <2> QED BY <1>8, <2>1, <2>2
<1>10. /\ Reads(d, s, zero) = AfterRead(z4, RespLen, FALSE)
       /\ Reads(e, s, FALSE) = AfterRead(y4, RespLen, FALSE)
  BY <1>2, <1>3 DEF Reads, HandleRead, z1, z2, z3, y1, y2, y3
<1> HIDE DEF z4, y4
<1> DEFINE f == AfterRead(z4, RespLen, FALSE)
           g == AfterRead(y4, RespLen, FALSE)
<1>11. CASE y4.err
  <2>1. z4.err = TRUE /\ y4.err = TRUE BY <1>9, <1>11 DEF Alike
  <2>2. f = z4 /\ g = y4 BY <2>1 DEF AfterRead
  <2>3. Alike(f, g, k, K) /\ g.err BY <1>9, <1>11, <2>2
  <2> QED BY <1>10, <2>3 DEF SameRead
<1>12. CASE ~ y4.err
  <2>1. ~ z4.err /\ z4.cstate # "disconnected" /\ y4.cstate # "disconnected" /\ DOMAIN z4 = Fields /\ DOMAIN y4 = Fields
    BY <1>9, <1>12 DEF Alike
  <2>2. Left(f, z4) /\ Left(g, y4) BY <1>9, <1>12, <2>1, AfterLeaves
  <2> HIDE DEF f, g
  <2>3. z4.state = y4.state /\ y4.page = 0 /\ y4.state # "uri" BY <1>9, <1>12 DEF Alike, Going
  <2>4. Alike(f, g, k, K)
    <3>1. CASE y4.state = "finish" BY <1>9, <2>2, <2>3, <3>1 DEF Alike, Left
    <3>2. CASE y4.state # "finish" BY <1>9, <2>2, <2>3, <3>2 DEF Alike, Left
    <3> QED BY <3>1, <3>2
  <2>5. f.out = << >> /\ g.out = << >> /\ g.cstate = "connected" /\ g.page = 0 /\ f.cstate = cz
    BY <1>9, <2>2, <2>3 DEF Left
  <2>6. g.state = "uri" => g.hs = "start" /\ g.headers = NoHeaders /\ g.file = "/a" BY <2>2, <2>3 DEF Left
  <2>7. f.again => f.state = "uri" /\ f.buf # << >> BY <1>9, <2>2, <2>3 DEF Left
  <2> QED BY <1>10, <2>4, <2>5, <2>6, <2>7 DEF f, g, SameRead
<1> QED BY <1>11, <1>12

\* A POST that waits for more of its body waits on or fails, and is never answered.
Hanging(d) ==
    /\ DOMAIN d = Fields /\ Stuck(d) /\ d.err = FALSE /\ d.dead = FALSE /\ d.out = << >>
    /\ d.cstate = "connected" /\ ~ d.again /\ d.n \in Int

LEMMA HangingReads ==
    ASSUME NEW d, Hanging(d), NEW s, s # << >>, NEW zero \in BOOLEAN
    PROVE  LET e == Reads(d, s, zero)
           IN  /\ Answer(d, e) = << >>
               /\ e.err \/ (zero /\ e.cstate # "connected" /\ ~ e.again) \/ Hanging(e)
<1> DEFINE x == [d EXCEPT !.buf = @ \o s, !.page = 0, !.again = FALSE]
           z == IF zero THEN [x EXCEPT !.cstate = "disconnecting"] ELSE x
           a == [z EXCEPT !.state = "analysis"]
           p == [a EXCEPT !.err = TRUE, !.n = @ + 1]
           e == Reads(d, s, zero)
           v == d.headers["Content-length"]
<1>1. /\ DOMAIN d = Fields /\ d.state = "body" /\ d.method = "POST" /\ v \in DOMAIN Numbers
      /\ ~ d.err /\ ~ d.dead /\ d.out = << >> /\ d.cstate = "connected" /\ d.n \in Int /\ d.err = FALSE /\ d.dead = FALSE
  BY DEF Hanging, Stuck
<1>2. Parse(d, s, zero, FALSE) = AnalysisStage(BodyStage(HeaderStage(URIStage(z)))) BY <1>1 DEF Parse
<1>3. /\ DOMAIN z = Fields /\ z.state = "body" /\ z.method = "POST" /\ z.headers["Content-length"] = v /\ z.err = FALSE
      /\ z.dead = FALSE /\ z.out = << >> /\ z.n = d.n /\ z.page = 0 /\ z.again = FALSE
      /\ z.cstate = IF zero THEN "disconnecting" ELSE "connected"
  BY <1>1 DEF Fields
<1> HIDE DEF z
<1>4. URIStage(z) = z /\ HeaderStage(z) = z BY <1>3 DEF URIStage, HeaderStage, At
<1>5. BodyStage(z) \in {z, a}
  <2>1. v # "none" BY <1>1 DEF Numbers
  <2>2. BodyStage(z) = ReceiveBody(z) BY <1>3 DEF BodyStage, At
  <2>3. ReceiveBody(z) = IF Len(z.buf) < Numbers[v] THEN z ELSE a BY <1>1, <1>3, <2>1 DEF ReceiveBody
  <2> QED BY <2>2, <2>3
<1>6. CASE BodyStage(z) = z
  <2>1. AnalysisStage(z) = z BY <1>3 DEF AnalysisStage, At
  <2>2. e = AfterRead(z, RespLen, FALSE) BY <1>2, <1>4, <1>6, <2>1 DEF Reads, HandleRead
  <2>3. Left(e, z)
    <3>1. OneOut(z) /\ ~ z.err /\ z.cstate # "disconnected" BY <1>3 DEF OneOut
    <3> QED BY <1>3, <2>2, <3>1, AfterLeaves
  <2> HIDE DEF e
  <2>4. /\ e.state = "body" /\ e.method = "POST" /\ e.headers["Content-length"] = v /\ e.err = FALSE /\ e.dead = FALSE
        /\ e.out = << >> /\ e.n = d.n /\ e.page = 0 /\ e.again = FALSE /\ DOMAIN e = Fields
        /\ e.cstate = IF zero THEN "disconnecting" ELSE "connected"
    BY <1>3, <2>3 DEF Left
  <2>5. Answer(d, e) = << >> BY <1>1, <2>4 DEF Answer
  <2>6. Hanging(e) \/ (zero /\ e.cstate # "connected" /\ ~ e.again) BY <1>1, <2>4 DEF Hanging, Stuck
  <2> QED BY <2>5, <2>6 DEF e
<1>7. CASE BodyStage(z) = a
  <2>1. DOMAIN a = Fields /\ a.state = "analysis" /\ a.method = "POST" /\ a.err = FALSE /\ a.dead = FALSE /\ a.page = 0
    BY <1>3 DEF Fields
  <2> HIDE DEF a
  <2>2. AnalysisStage(a) = p BY <2>1 DEF AnalysisStage, AnalysisRequest, At
  <2>3. p.err = TRUE /\ p.page = 0 BY <2>1 DEF Fields
  <2> HIDE DEF p
  <2>4. e = p BY <1>2, <1>4, <1>7, <2>2, <2>3 DEF Reads, HandleRead, AfterRead
  <2> HIDE DEF e
  <2>5. Answer(d, e) = << >> BY <2>3, <2>4 DEF Answer
  <2> QED BY <2>3, <2>4, <2>5 DEF e
<1> QED BY <1>5, <1>6, <1>7

\* It answers the same, but for keepAlive_, which outlives a request.
LEMMA AnswerAlike ==
    ASSUME NEW d, NEW e, NEW f, NEW g, NEW k \in Int, NEW K \in BOOLEAN, Alike(d, e, k, K), Alike(f, g, k, K),
           e.n = 0, NEW st, NEW kp
    PROVE  /\ Answer(New, g) = << >> => Answer(d, f) = << >>
           /\ Answer(New, g) = <<[status |-> st, keep |-> kp]>> =>
                g.keep = kp /\ Answer(d, f) = <<[status |-> st, keep |-> f.keep]>>
<1>1. f.page = g.page /\ f.err = g.err /\ (f.n > d.n <=> g.n > New.n) BY NewType DEF Alike
<1>2. Answer(New, g) = IF g.page # 0 THEN <<[status |-> g.page, keep |-> g.keep]>>
                       ELSE IF g.n > New.n /\ ~ g.err THEN <<[status |-> 200, keep |-> g.keep]>>
                       ELSE << >>
  BY DEF Answer
<1>3. Answer(d, f) = IF g.page # 0 THEN <<[status |-> g.page, keep |-> f.keep]>>
                     ELSE IF g.n > New.n /\ ~ g.err THEN <<[status |-> 200, keep |-> f.keep]>>
                     ELSE << >>
  BY <1>1 DEF Answer
<1> DEFINE One(a, b) == <<[status |-> a, keep |-> b]>>
<1>4. ASSUME NEW a, NEW b, One(a, b) = One(st, kp) PROVE a = st /\ b = kp
  <2>1. [status |-> a, keep |-> b] = [status |-> st, keep |-> kp] BY <1>4
  <2>2. /\ [status |-> a, keep |-> b].status = [status |-> st, keep |-> kp].status
        /\ [status |-> a, keep |-> b].keep = [status |-> st, keep |-> kp].keep
    BY <2>1
  <2> QED BY <2>2
<1>5. ASSUME NEW a, NEW b PROVE One(a, b) # << >> OBVIOUS
<1>6. /\ Answer(New, g) = IF g.page # 0 THEN One(g.page, g.keep)
                          ELSE IF g.n > New.n /\ ~ g.err THEN One(200, g.keep) ELSE << >>
      /\ Answer(d, f) = IF g.page # 0 THEN One(g.page, f.keep)
                        ELSE IF g.n > New.n /\ ~ g.err THEN One(200, f.keep) ELSE << >>
  BY <1>2, <1>3
<1> HIDE DEF One
<1>7. /\ Answer(New, g) = << >> => Answer(d, f) = << >>
      /\ Answer(New, g) = One(st, kp) => g.keep = kp /\ Answer(d, f) = One(st, f.keep)
  BY <1>4, <1>5, <1>6
<1> QED BY <1>7 DEF One

-----------------------------------------------------------------------------
(* What is due, where a read may end, and what has been answered           *)

LEMMA EpollMeans ==
    ASSUME PlanInv, server = "epoll"
    PROVE  \A n \in 1..Len(plan) :
              /\ MeansToEpoll(plan[n]) /\ plan[n].wire \in Seq(Word) /\ Len(plan[n].wire) \in Nat
              /\ plan[n].line \in Nat /\ 1 <= plan[n].line /\ plan[n].line < Len(plan[n].wire)
              /\ plan[n].due \in {plan[n].line, Len(plan[n].wire)}
              /\ plan[n].goes => plan[n].status # 0 /\ plan[n].due # plan[n].line
<1> SUFFICES ASSUME NEW n \in 1..Len(plan)
             PROVE  /\ MeansToEpoll(plan[n]) /\ plan[n].wire \in Seq(Word) /\ Len(plan[n].wire) \in Nat
                    /\ plan[n].line \in Nat /\ 1 <= plan[n].line /\ plan[n].line < Len(plan[n].wire)
                    /\ plan[n].due \in {plan[n].line, Len(plan[n].wire)}
                    /\ plan[n].goes => plan[n].status # 0 /\ plan[n].due # plan[n].line
  OBVIOUS
<1>1. MeansToEpoll(plan[n]) BY RequestsAlone DEF PlanInv
<1>2. plan[n].wire \in Seq(Word) /\ Len(plan[n].wire) \in Nat BY PlanType, RequestType
<1>3. /\ plan[n].line \in 1..(Len(plan[n].wire) - 1) /\ plan[n].due \in {plan[n].line, Len(plan[n].wire)}
      /\ plan[n].goes => plan[n].status # 0 /\ plan[n].due # plan[n].line
  BY <1>1 DEF MeansToEpoll
<1> QED BY <1>1, <1>2, <1>3

\* Every request lengthens the stream.
LEMMA EpollLengths ==
    ASSUME PlanInv, server = "epoll"
    PROVE  /\ Len(plan) \in Nat /\ received \in Nat /\ received <= Len(Stream) /\ Len(Stream) \in Nat
           /\ Len(Stream) = Len(Wire(Len(plan)))
           /\ \A n \in 0..Len(plan) : Len(Wire(n)) \in Nat
           /\ \A n \in 0..Len(plan) : \A m \in 0..n : Len(Wire(m)) <= Len(Wire(n))
           /\ \A n \in 1..Len(plan) : Len(Wire(n)) = Len(Wire(n - 1)) + Len(plan[n].wire)
<1>1. plan \in Seq(Request) /\ Len(plan) \in Nat /\ received \in Nat BY PlanType
<1>2. Len(Stream) \in Nat /\ received <= Len(Stream) BY StreamType DEF PlanInv
<1> QED BY <1>1, <1>2, WireLength DEF Stream

\* The requests that are due, and have an answer, when x tokens have arrived.
DueAt(x) == {n \in 1..Len(plan) : /\ Len(Wire(n - 1)) + plan[n].due <= x
                                  /\ \A m \in 1..(n - 1) : plan[m].goes}
Answerable(x) == {n \in DueAt(x) : plan[n].status # 0}

AllGo(n) == \A i \in 1..n : plan[i].goes

\* Behind n requests that were answered, only the next one can be due.
LEMMA DueSet ==
    ASSUME PlanInv, server = "epoll", NEW n \in 0..Len(plan), AllGo(n), NEW x \in Nat, Len(Wire(n)) <= x,
           n < Len(plan) => x <= Len(Wire(n + 1)) \/ ~ plan[n + 1].goes
    PROVE  LET next == n < Len(plan) /\ Len(Wire(n)) + plan[n + 1].due <= x
           IN  /\ next => n + 1 \in DueAt(x)
               /\ next /\ plan[n + 1].status # 0 => Answerable(x) = 1..(n + 1)
               /\ ~ (next /\ plan[n + 1].status # 0) => Answerable(x) = 1..n
<1> DEFINE next == n < Len(plan) /\ Len(Wire(n)) + plan[n + 1].due <= x
<1>0. /\ Len(plan) \in Nat
      /\ \A m \in 0..Len(plan) : Len(Wire(m)) \in Nat
      /\ \A j \in 0..Len(plan) : \A m \in 0..j : Len(Wire(m)) <= Len(Wire(j))
      /\ \A m \in 1..Len(plan) : Len(Wire(m)) = Len(Wire(m - 1)) + Len(plan[m].wire)
  BY EpollLengths
<1>1. \A m \in 1..Len(plan) : /\ plan[m].due \in Nat /\ 1 <= plan[m].due /\ plan[m].due <= Len(plan[m].wire)
                              /\ plan[m].goes => plan[m].status # 0
  BY EpollMeans
<1>2. ASSUME NEW m \in 1..n PROVE m \in Answerable(x)
  <2>1. m \in 1..Len(plan) /\ m - 1 \in 0..Len(plan) /\ m \in 0..n /\ m \in 0..Len(plan) BY <1>0
  <2>2. Len(Wire(m)) <= x
    <3>1. Len(Wire(m)) <= Len(Wire(n)) /\ Len(Wire(m)) \in Nat /\ Len(Wire(n)) \in Nat BY <1>0, <2>1
    <3> QED BY <3>1
  <2>3. Len(Wire(m - 1)) + plan[m].due <= x
    <3>1. Len(Wire(m)) = Len(Wire(m - 1)) + Len(plan[m].wire) /\ Len(Wire(m - 1)) \in Nat /\ Len(Wire(m)) \in Nat
      BY <1>0, <2>1
    <3>2. plan[m].due \in Nat /\ plan[m].due <= Len(plan[m].wire) /\ Len(plan[m].wire) \in Nat
      BY <1>1, <2>1, EpollMeans
    <3>3. \A a, b, u, w \in Nat : b = a + w /\ u <= w /\ b <= x => a + u <= x OBVIOUS
    <3> QED BY <2>2, <3>1, <3>2, <3>3
  <2>4. \A j \in 1..(m - 1) : plan[j].goes
    <3>1. \A j \in 1..(m - 1) : j \in 1..n BY <1>0
    <3> QED BY <3>1 DEF AllGo
  <2>5. plan[m].status # 0 BY <1>1, <2>1 DEF AllGo
  <2> QED BY <2>1, <2>3, <2>4, <2>5 DEF Answerable, DueAt
<1>3. ASSUME next PROVE n + 1 \in DueAt(x)
  <2>1. n + 1 \in 1..Len(plan) /\ (n + 1) - 1 = n BY <1>0, <1>3
  <2> QED BY <1>3, <2>1 DEF DueAt, AllGo
<1>4. ASSUME NEW m \in DueAt(x), m > n PROVE next /\ m = n + 1
  <2>1. m \in 1..Len(plan) /\ Len(Wire(m - 1)) + plan[m].due <= x /\ \A j \in 1..(m - 1) : plan[j].goes BY DEF DueAt
  <2>2. n < Len(plan) BY <1>0, <1>4, <2>1
  <2>3. m = n + 1
    <3> SUFFICES ASSUME m # n + 1 PROVE FALSE OBVIOUS
    <3>1. /\ n + 1 \in 1..(m - 1) /\ n + 1 \in 0..(m - 1) /\ m - 1 \in 0..Len(plan)
          /\ n + 1 \in 0..Len(plan) BY <1>0, <1>4, <2>1
    <3>2. plan[n + 1].goes BY <2>1, <3>1
    <3>3. x <= Len(Wire(n + 1)) BY <2>2, <3>2
    <3>4. Len(Wire(n + 1)) <= Len(Wire(m - 1)) BY <1>0, <3>1
    <3>5. Len(Wire(n + 1)) \in Nat /\ Len(Wire(m - 1)) \in Nat /\ plan[m].due \in Nat /\ 1 <= plan[m].due
      BY <1>0, <1>1, <2>1, <3>1
    <3> QED BY <2>1, <3>3, <3>4, <3>5
  <2>4. m - 1 = n BY <1>0, <2>3
  <2> QED BY <2>1, <2>2, <2>3, <2>4
<1>5. \A m \in DueAt(x) : m \in 1..n \/ m > n BY <1>0 DEF DueAt
<1>6. ASSUME next, plan[n + 1].status # 0 PROVE Answerable(x) = 1..(n + 1)
  <2>1. n + 1 \in Answerable(x) BY <1>3, <1>6 DEF Answerable
  <2>2. \A m \in 1..(n + 1) : m \in 1..n \/ m = n + 1 BY <1>0
  <2>3. \A m \in 1..(n + 1) : m \in Answerable(x) BY <1>2, <2>1, <2>2
  <2>4. n + 1 \in 1..(n + 1) /\ \A m \in 1..n : m \in 1..(n + 1) BY <1>0
  <2>5. \A m \in Answerable(x) : m \in 1..(n + 1) BY <1>4, <1>5, <2>4 DEF Answerable
  <2> QED BY <2>3, <2>5
<1>7. ASSUME ~ (next /\ plan[n + 1].status # 0) PROVE Answerable(x) = 1..n
  <2>1. \A m \in Answerable(x) : m \in 1..n
    <3> SUFFICES ASSUME NEW m \in Answerable(x), m \notin 1..n PROVE FALSE OBVIOUS
    <3>1. m \in DueAt(x) /\ plan[m].status # 0 BY DEF Answerable
    <3>2. m > n BY <1>5, <3>1
    <3>3. next /\ m = n + 1 BY <1>4, <3>1, <3>2
    <3> QED BY <1>7, <3>1, <3>3
  <2> QED BY <1>2, <2>1
<1> QED BY <1>3, <1>6, <1>7

Starts == {Len(Wire(n)) : n \in 0..(Len(plan) - 1)}
Lines  == {Len(Wire(n - 1)) + plan[n].line : n \in 1..Len(plan)}

LEMMA UncutDef ==
    ASSUME received \in Nat, NEW k \in Nat, Uncut(k)
    PROVE  /\ received + k \in Starts \cup Lines \cup {Len(Stream)}
           /\ \A b \in Starts : b \notin (received + 1)..(received + k - 1)
BY DEF Uncut, Starts, Lines

\* From where request n + 1 begins, or behind its line, an uncut read ends behind its line or behind it.
LEMMA NextCut ==
    ASSUME PlanInv, server = "epoll", NEW n \in 0..(Len(plan) - 1), NEW k \in 1..(Len(Stream) - received), Uncut(k),
           received \in {Len(Wire(n)), Len(Wire(n)) + plan[n + 1].line}
    PROVE  \/ received + k = Len(Wire(n + 1))
           \/ received = Len(Wire(n)) /\ received + k = Len(Wire(n)) + plan[n + 1].line
<1> DEFINE A == Len(Wire(n))
           B == Len(Wire(n + 1))
           l == plan[n + 1].line
           x == received + k
<1>0. /\ Len(plan) \in Nat /\ received \in Nat /\ Len(Stream) \in Nat /\ Len(Stream) = Len(Wire(Len(plan)))
      /\ \A m \in 0..Len(plan) : Len(Wire(m)) \in Nat
      /\ \A j \in 0..Len(plan) : \A m \in 0..j : Len(Wire(m)) <= Len(Wire(j))
      /\ \A m \in 1..Len(plan) : Len(Wire(m)) = Len(Wire(m - 1)) + Len(plan[m].wire)
  BY EpollLengths
<1>1. \A m \in 1..Len(plan) :
        /\ plan[m].line \in Nat /\ 1 <= plan[m].line
        /\ plan[m].line < Len(plan[m].wire) /\ Len(plan[m].wire) \in Nat
  BY EpollMeans
<1>2. n \in 0..Len(plan) /\ n + 1 \in 1..Len(plan) /\ n + 1 \in 0..Len(plan) /\ (n + 1) - 1 = n BY <1>0
<1>3. A \in Nat /\ B \in Nat /\ l \in Nat /\ 1 <= l /\ A + l < B
  <2>1. B = A + Len(plan[n + 1].wire)
    <3>1. Len(Wire(n + 1)) = Len(Wire((n + 1) - 1)) + Len(plan[n + 1].wire) BY <1>0, <1>2
    <3> QED BY <1>2, <3>1
  <2>2. l \in Nat /\ 1 <= l /\ l < Len(plan[n + 1].wire) /\ Len(plan[n + 1].wire) \in Nat BY <1>1, <1>2
  <2>3. A \in Nat /\ B \in Nat BY <1>0, <1>2
  <2> HIDE DEF A, B, l
  <2> QED BY <2>1, <2>2, <2>3
<1>4. x \in Starts \cup Lines \cup {Len(Stream)} /\ \A b \in Starts : b \notin (received + 1)..(x - 1)
  <2>1. PICK j \in Nat : j = k BY <1>0
  <2>2. received \in Nat /\ Uncut(j) BY <1>0, <2>1
  <2>3. /\ received + j \in Starts \cup Lines \cup {Len(Stream)}
        /\ \A b \in Starts : b \notin (received + 1)..(received + j - 1)
    BY <2>2, UncutDef
  <2> QED BY <2>1, <2>2, <2>3
<1>5. received \in {A, A + l} /\ x > received /\ x \in Nat /\ x <= Len(Stream) BY <1>0
<1> HIDE DEF l
<1>6. x <= B
  <2>1. CASE n + 1 = Len(plan) BY <1>0, <1>5, <2>1
  <2>2. CASE n + 1 # Len(plan)
    <3>1. n + 1 \in 0..(Len(plan) - 1) BY <1>0, <1>2, <2>2
    <3>2. B \in Starts BY <3>1 DEF Starts
    <3>3. B \notin (received + 1)..(x - 1) BY <1>4, <3>2
    <3> HIDE DEF A, B, x
    <3> QED BY <1>0, <1>3, <1>5, <3>3
  <2> QED BY <2>1, <2>2
<1>7. ASSUME NEW m \in 0..Len(plan), x = Len(Wire(m)) PROVE x = B
  <2>1. CASE m <= n
    <3>1. Len(Wire(m)) <= A BY <1>0, <1>2, <2>1
    <3> HIDE DEF A, B, x
    <3> QED BY <1>0, <1>3, <1>5, <1>7, <3>1
  <2>2. CASE m > n
    <3>1. B <= Len(Wire(m))
      <4>1. n + 1 \in 0..m BY <1>0, <1>2, <2>2
      <4> QED BY <1>0, <4>1
    <3> HIDE DEF A, B, x
    <3> QED BY <1>3, <1>5, <1>6, <1>7, <3>1
  <2> QED BY <1>0, <2>1, <2>2
<1>8. ASSUME NEW m \in 1..Len(plan), x = Len(Wire(m - 1)) + plan[m].line PROVE x = A + l
  <2>0. /\ m \in 0..Len(plan) /\ m - 1 \in 0..Len(plan) /\ Len(Wire(m - 1)) \in Nat /\ Len(Wire(m)) \in Nat
        /\ plan[m].line \in Nat /\ 1 <= plan[m].line /\ plan[m].line < Len(plan[m].wire) /\ Len(plan[m].wire) \in Nat
    <3>1. m \in 0..Len(plan) /\ m - 1 \in 0..Len(plan) BY <1>0
    <3> QED BY <1>0, <1>1, <3>1
  <2>1. CASE m <= n
    <3>1. Len(Wire(m)) <= A BY <1>0, <1>2, <2>0, <2>1
    <3>2. Len(Wire(m)) = Len(Wire(m - 1)) + Len(plan[m].wire) BY <1>0
    <3> HIDE DEF A, B, x
    <3>3. \A a, b, u, w \in Nat : b = a + w /\ u < w /\ b <= A => a + u < A BY <1>3
    <3>4. x < A BY <1>8, <2>0, <3>1, <3>2, <3>3
    <3> QED BY <1>3, <1>5, <3>4
  <2>2. CASE m > n + 1
    <3>1. B <= Len(Wire(m - 1))
      <4>1. n + 1 \in 0..(m - 1) BY <1>0, <1>2, <2>2
      <4> QED BY <1>0, <2>0, <4>1
    <3> HIDE DEF A, B, x
    <3> QED BY <1>3, <1>5, <1>6, <1>8, <2>0, <3>1, SMTT(30)
  <2>3. CASE m = n + 1 BY <1>2, <1>8, <2>3 DEF l
  <2> QED BY <1>0, <2>1, <2>2, <2>3
<1>9. x = B \/ x = A + l
  <2>1. \A m \in 0..(Len(plan) - 1) : m \in 0..Len(plan) BY <1>0
  <2>2. Len(plan) \in 0..Len(plan) BY <1>0
  <2> QED BY <1>0, <1>4, <1>7, <1>8, <2>1, <2>2 DEF Starts, Lines
<1> HIDE DEF A, B, x
<1>10. x = B \/ (received = A /\ x = A + l) BY <1>3, <1>5, <1>9
<1> QED BY <1>10 DEF A, B, x, l

\* keepAlive_ once set stays set.
Kept(n) == \E m \in 1..n : plan[m].keep

\* The answers to the first n requests.
Replies(n) == [i \in 1..n |-> [status |-> plan[i].status, keep |-> Kept(i)]]

LEMMA KeptMore ==
    ASSUME PlanInv, NEW n \in 0..(Len(plan) - 1)
    PROVE  Kept(n) \in BOOLEAN /\ Kept(n + 1) \in BOOLEAN /\ (Kept(n + 1) <=> Kept(n) \/ plan[n + 1].keep)
<1>1. Len(plan) \in Nat BY PlanType
<1>2. \A m \in 1..n : m \in 1..(n + 1) BY <1>1
<1>3. \A m \in 1..(n + 1) : m \in 1..n \/ m = n + 1 BY <1>1
<1>4. n + 1 \in 1..(n + 1) BY <1>1
<1>5. Kept(n) \in BOOLEAN /\ Kept(n + 1) \in BOOLEAN BY DEF Kept
<1>6. Kept(n + 1) <=> Kept(n) \/ plan[n + 1].keep BY <1>2, <1>3, <1>4 DEF Kept
<1> QED BY <1>5, <1>6

LEMMA RepliesMore ==
    ASSUME NEW n \in Nat, NEW b, b = Kept(n + 1)
    PROVE  /\ Replies(n) \o << >> = Replies(n)
           /\ Replies(n) \o <<[status |-> plan[n + 1].status, keep |-> b]>> = Replies(n + 1)
           /\ Len(Replies(n)) = n
<1> DEFINE F(i) == [status |-> plan[i].status, keep |-> Kept(i)]
           S == {F(i) : i \in 1..(n + 1)}
           u == Replies(n)
           v == Replies(n + 1)
<1>1. u = [i \in 1..n |-> F(i)] /\ v = [i \in 1..(n + 1) |-> F(i)] BY DEF Replies
<1>2. [status |-> plan[n + 1].status, keep |-> b] = F(n + 1) OBVIOUS
<1>3. \A i \in 1..(n + 1) : F(i) \in S OBVIOUS
<1> HIDE DEF F, S, u, v
<1>4. u \in Seq(S) /\ Len(u) = n /\ \A i \in 1..n : u[i] = F(i) BY <1>1, <1>3
<1>5. v \in Seq(S) /\ Len(v) = n + 1 /\ \A i \in 1..(n + 1) : v[i] = F(i) BY <1>1, <1>3
<1>6. PICK y \in S : y = F(n + 1) BY <1>3
<1>7. <<y>> \in Seq(S) /\ Len(<<y>>) = 1 /\ <<y>>[1] = y OBVIOUS
<1>8. u \o <<y>> \in Seq(S) /\ Len(u \o <<y>>) = n + 1 BY <1>4, <1>7
<1>9. ASSUME NEW i \in 1..(n + 1) PROVE (u \o <<y>>)[i] = v[i]
  <2>1. CASE i = n + 1 BY <1>4, <1>5, <1>6, <1>7, <2>1
  <2>2. CASE i # n + 1
    <3>1. i \in 1..n BY <2>2
    <3> QED BY <1>4, <1>5, <1>7, <3>1
  <2> QED BY <2>1, <2>2
<1>10. u \o <<y>> = v BY <1>5, <1>8, <1>9, SeqEqual
<1>11. u \o << >> = u BY <1>4
<1> QED BY <1>2, <1>4, <1>6, <1>10, <1>11 DEF u, v

\* A slice of the stream inside a request is one of the request.
LEMMA SliceWithin ==
    ASSUME NEW x \in Seq(Word), NEW w \in Seq(Word), NEW t \in Seq(Word), NEW a \in Nat, NEW b \in Nat, a <= b, b <= Len(w)
    PROVE  SubSeq((x \o w) \o t, (Len(x) + a) + 1, Len(x) + b) = SubSeq(w, a + 1, b)
<1> DEFINE s == (x \o w) \o t
           p == Len(x)
           u == SubSeq(s, (p + a) + 1, p + b)
           v == SubSeq(w, a + 1, b)
<1>1. p \in Nat /\ Len(w) \in Nat /\ Len(t) \in Nat OBVIOUS
<1>2. x \o w \in Seq(Word) /\ Len(x \o w) = p + Len(w) /\ \A i \in 1..Len(w) : (x \o w)[p + i] = w[i] OBVIOUS
<1>3. s \in Seq(Word) /\ Len(s) = (p + Len(w)) + Len(t) /\ \A i \in 1..(p + Len(w)) : s[i] = (x \o w)[i] BY <1>1, <1>2
<1> HIDE DEF s, p
<1>4. u \in Seq(Word) /\ Len(u) = b - a /\ \A i \in 1..(b - a) : u[i] = s[p + a + i] BY <1>1, <1>3
<1>5. v \in Seq(Word) /\ Len(v) = b - a /\ \A i \in 1..(b - a) : v[i] = w[a + i] BY <1>1
<1> HIDE DEF u, v
<1>6. ASSUME NEW i \in 1..Len(u) PROVE u[i] = v[i]
  <2>1. i \in 1..(b - a) /\ a + i \in 1..Len(w) /\ p + a + i = p + (a + i) /\ p + (a + i) \in 1..(p + Len(w)) BY <1>1, <1>4
  <2>2. u[i] = s[p + (a + i)] BY <1>4, <2>1
  <2>3. s[p + (a + i)] = w[a + i] BY <1>2, <1>3, <2>1
  <2> QED BY <1>5, <2>1, <2>2, <2>3
<1>7. u = v BY <1>4, <1>5, <1>6, SeqEqual
<1> QED BY <1>7 DEF u, v, s, p

LEMMA PieceIs ==
    ASSUME PlanInv, server = "epoll", NEW n \in 0..(Len(plan) - 1), NEW k \in 1..(Len(Stream) - received)
    PROVE  LET r == plan[n + 1]
               A == Len(Wire(n))
           IN  /\ received = A /\ received + k = A + r.line => Piece(k) = SubSeq(r.wire, 1, r.line) /\ Piece(k) # << >>
               /\ received = A /\ received + k = Len(Wire(n + 1)) => Piece(k) = r.wire /\ Piece(k) # << >>
               /\ received = A + r.line /\ received + k = Len(Wire(n + 1)) =>
                    Piece(k) = From(r.wire, r.line + 1) /\ Piece(k) # << >>
<1> DEFINE r == plan[n + 1]
           A == Len(Wire(n))
<1>0. plan \in Seq(Request) /\ Len(plan) \in Nat /\ received \in Nat /\ Len(Stream) \in Nat BY PlanType, StreamType
<1>1. n + 1 \in 1..Len(plan) /\ n \in 0..Len(plan) /\ (n + 1) - 1 = n BY <1>0
<1>2. PICK t \in Seq(Word) : Stream = (Wire(n) \o r.wire) \o t BY <1>0, StreamAt
<1>3. PICK x \in Seq(Word) : x = Wire(n) BY <1>0, <1>1, WireType
<1>4. PICK w \in Seq(Word) : w = r.wire BY <1>1, EpollMeans
<1>5. PICK l \in Nat : l = r.line /\ 1 <= l /\ l < Len(w) BY <1>1, <1>4, EpollMeans
<1>6. Len(Wire(n + 1)) = Len(x) + Len(w)
  <2>1. Len(Wire(n + 1)) = Len(Wire((n + 1) - 1)) + Len(r.wire) BY <1>1, EpollLengths
  <2> QED BY <1>1, <1>3, <1>4, <2>1
<1>7. Len(x) \in Nat /\ Len(w) \in Nat OBVIOUS
<1>8. ASSUME NEW a \in Nat, NEW b \in Nat, a < b, b <= Len(w), received = Len(x) + a, received + k = Len(x) + b
      PROVE  Piece(k) = SubSeq(w, a + 1, b) /\ Piece(k) # << >>
  <2>1. SubSeq((x \o w) \o t, (Len(x) + a) + 1, Len(x) + b) = SubSeq(w, a + 1, b) BY <1>8, SliceWithin, SMTT(30)
  <2>2. Piece(k) = SubSeq((x \o w) \o t, (Len(x) + a) + 1, Len(x) + b) BY <1>2, <1>3, <1>4, <1>8 DEF Piece
  <2>3. Len(SubSeq(w, a + 1, b)) = b - a BY <1>7, <1>8
  <2>4. SubSeq(w, a + 1, b) # << >>
    <3>1. PICK q : q = SubSeq(w, a + 1, b) OBVIOUS
    <3>2. Len(q) # 0 BY <1>8, <2>3, <3>1
    <3>3. q # << >> BY <3>2
    <3> QED BY <3>1, <3>3
  <2> QED BY <2>1, <2>2, <2>4
<1>9. SubSeq(w, 1, Len(w)) = w OBVIOUS
<1>10. received = Len(x) /\ received + k = Len(x) + l => Piece(k) = SubSeq(w, 1, l) /\ Piece(k) # << >>
  <2> SUFFICES ASSUME received = Len(x), received + k = Len(x) + l
               PROVE  Piece(k) = SubSeq(w, 1, l) /\ Piece(k) # << >> OBVIOUS
  <2>1. received = Len(x) + 0 /\ 0 < l /\ l <= Len(w) BY <1>5, <1>7
  <2>2. PICK a \in Nat : a = 0 OBVIOUS
  <2>3. Piece(k) = SubSeq(w, a + 1, l) /\ Piece(k) # << >> BY <1>8, <2>1, <2>2
  <2>4. a + 1 = 1 BY <2>2
  <2> QED BY <2>3, <2>4
<1>11. received = Len(x) /\ received + k = Len(x) + Len(w) => Piece(k) = w /\ Piece(k) # << >>
  <2> SUFFICES ASSUME received = Len(x), received + k = Len(x) + Len(w) PROVE Piece(k) = w /\ Piece(k) # << >> OBVIOUS
  <2>1. received = Len(x) + 0 /\ 0 < Len(w) /\ Len(w) <= Len(w) BY <1>5, <1>7
  <2>2. Piece(k) = SubSeq(w, 0 + 1, Len(w)) /\ Piece(k) # << >> BY <1>7, <1>8, <2>1
  <2> QED BY <1>9, <2>2
<1>12. received = Len(x) + l /\ received + k = Len(x) + Len(w) => Piece(k) = SubSeq(w, l + 1, Len(w)) /\ Piece(k) # << >>
  <2> SUFFICES ASSUME received = Len(x) + l, received + k = Len(x) + Len(w)
               PROVE Piece(k) = SubSeq(w, l + 1, Len(w)) /\ Piece(k) # << >> OBVIOUS
  <2>1. Len(w) <= Len(w) BY <1>7
  <2> QED BY <1>5, <1>7, <1>8, <2>1
<1> QED BY <1>3, <1>4, <1>5, <1>6, <1>10, <1>11, <1>12 DEF From

-----------------------------------------------------------------------------
(* The epoll server answers the requests                                   *)

\* It has a whole number of requests behind it, and nothing of the next;
Idle(d)  == d.out = << >> /\ d.cstate = "connected" /\ ~ d.again /\ d.n \in Int
Between(n) == open /\ received = Len(Wire(n)) /\ Alike(data, New, data.n, Kept(n)) /\ Idle(data)

\* or the line of the next one;
LineRead(r) == Reads(New, SubSeq(r.wire, 1, r.line), FALSE)
Begun(n) ==
    /\ open /\ n < Len(plan) /\ received = Len(Wire(n)) + plan[n + 1].line /\ plan[n + 1].due # plan[n + 1].line
    /\ Alike(data, LineRead(plan[n + 1]), data.n, Kept(n)) /\ Idle(data)

\* or the next one, which it will never answer.
Hung(n) ==
    /\ open /\ n < Len(plan) /\ Len(Wire(n)) + plan[n + 1].due <= received
    /\ plan[n + 1].status = 0 /\ ~ plan[n + 1].goes /\ Hanging(data)

Serving(n) == AllGo(n) /\ answers = Replies(n) /\ (Between(n) \/ Begun(n) \/ Hung(n))

\* Or it has closed the connection.
Over == ~ open /\ \E a \in 0..Len(plan) : answers = Replies(a) /\ Answerable(received) = 1..a

Calm == server = "epoll" /\ whole /\ \A n \in Due : Headed(plan[n])

EpollInv == Calm => Over \/ \E n \in 0..Len(plan) : Serving(n)

LEMMA StillDue ==
    ASSUME plan' = plan
    PROVE  /\ Answerable(received)' = Answerable(received') /\ Due' = DueAt(received')
           /\ \A n : Replies(n)' = Replies(n) /\ Kept(n)' = Kept(n) /\ AllGo(n)' = AllGo(n)
<1>1. \A n : Wire(n)' = Wire(n) BY SamePlan
<1>2. Due' = DueAt(received') BY <1>1 DEF Due, DueAt
<1>3. Answerable(received)' = Answerable(received') BY <1>1 DEF Answerable, DueAt
<1>4. \A n : Kept(n)' = Kept(n) BY DEF Kept
<1>5. \A n : Replies(n)' = Replies(n) BY DEF Replies, Kept
<1>6. \A n : AllGo(n)' = AllGo(n) BY DEF AllGo
<1> QED BY <1>2, <1>3, <1>4, <1>5, <1>6

\* What a read that ends behind what is due of the next request leads to, given what it leads to
\* on a new connection (g).
LEMMA ReadOutcome ==
    ASSUME PlanInv, server = "epoll", NEW n \in 0..(Len(plan) - 1), AllGo(n), answers = Replies(n),
           NEW e, e.n = 0, data.n \in Int, Alike(data, e, data.n, Kept(n)),
           NEW g, Alike(data', g, data.n, Kept(n)), Answered(plan[n + 1], g), NEW zero \in BOOLEAN,
           ~ g.err => /\ data'.out = << >> /\ g.page = 0
                      /\ data'.cstate = IF zero THEN "disconnecting" ELSE "connected"
                      /\ g.state = "uri" => g.hs = "start" /\ g.headers = NoHeaders /\ g.file = "/a"
                      /\ data'.again => data'.state = "uri" /\ data'.buf # << >>,
           answers' = answers \o Answer(data, data'), plan' = plan, received' \in Nat,
           open' = (~ data'.err /\ ~ data'.dead /\ (data'.again \/ data'.cstate = "connected")),
           Len(Wire(n)) + plan[n + 1].due <= received', received' <= Len(Wire(n + 1)),
           plan[n + 1].goes => received' = Len(Wire(n + 1))
    PROVE  Over' \/ Serving(n + 1)' \/ Serving(n)'
<1> DEFINE r == plan[n + 1]
           f == data'
           x == received'
           K == Kept(n)
<1>0. /\ Len(plan) \in Nat /\ n \in Nat /\ n \in 0..Len(plan)
      /\ n + 1 \in 1..Len(plan) /\ n < Len(plan) /\ n + 1 \in 0..Len(plan)
  BY PlanType
<1>1. r.due \in Nat /\ r.keep \in BOOLEAN /\ r.goes \in BOOLEAN /\ Len(Wire(n)) \in Nat /\ (r.goes => r.status # 0)
  BY <1>0, PlanType, RequestType, EpollMeans, EpollLengths
<1>2. Len(Wire(n)) <= x BY <1>1
<1>3. /\ r.status # 0 => Answerable(x) = 1..(n + 1)
      /\ r.status = 0 => Answerable(x) = 1..n
  BY <1>0, <1>2, DueSet
<1>4. K \in BOOLEAN /\ Kept(n + 1) \in BOOLEAN /\ (Kept(n + 1) <=> K \/ r.keep) BY KeptMore
<1>5. /\ Answerable(received)' = Answerable(x)
      /\ \A m : Replies(m)' = Replies(m) /\ Kept(m)' = Kept(m) /\ AllGo(m)' = AllGo(m) /\ Wire(m)' = Wire(m)
  BY StillDue, SamePlan
<1> HIDE DEF K
<1>6. /\ f.err = g.err /\ f.dead = g.dead /\ f.buf = g.buf /\ f.state = g.state /\ f.headers = g.headers
      /\ f.state # "uri" => f.method = g.method
      /\ g.err \in BOOLEAN /\ g.dead \in BOOLEAN /\ f.keep \in BOOLEAN /\ g.keep \in BOOLEAN /\ (f.keep <=> g.keep \/ K)
      /\ f.n \in Int /\ DOMAIN f = Fields
  BY DEF Alike, K
<1>7. CASE r.status # 0
  <2>1. g.keep = r.keep /\ Answer(data, f) = <<[status |-> r.status, keep |-> f.keep]>>
    <3>1. Answer(New, g) = <<[status |-> r.status, keep |-> r.keep]>> BY <1>7 DEF Answered
    <3> QED BY <1>4, <3>1, AnswerAlike DEF K
  <2>2. f.keep = Kept(n + 1) BY <1>4, <1>6, <2>1
  <2>3. answers' = Replies(n + 1)
    <3>1. PICK b : b = f.keep OBVIOUS
    <3>2. Replies(n) \o <<[status |-> r.status, keep |-> b]>> = Replies(n + 1) BY <1>0, <2>2, <3>1, RepliesMore
    <3> QED BY <2>1, <3>1, <3>2
  <2>4. ~ open' => Over'
    BY <1>0, <1>3, <1>5, <1>7, <2>3 DEF Over
  <2>5. CASE ~ r.goes
    <3>1. g.err \/ g.dead BY <1>7, <2>5 DEF Answered
    <3>2. ~ open' BY <1>6, <3>1
    <3> QED BY <2>4, <3>2
  <2>6. CASE r.goes
    <3>1. ~ g.err /\ ~ g.dead /\ g.state = "uri" /\ g.buf = << >> BY <2>6 DEF Answered
    <3>2. f.out = << >> /\ g.page = 0 /\ g.hs = "start" /\ g.headers = NoHeaders /\ g.file = "/a" /\ ~ f.again
          /\ f.cstate = IF zero THEN "disconnecting" ELSE "connected"
      BY <1>6, <3>1
    <3>3. CASE zero
      <4>1. ~ open' BY <3>2, <3>3
      <4> QED BY <2>4, <4>1
    <3>4. CASE ~ zero
      <4>1. open' /\ Idle(f) BY <1>6, <3>1, <3>2, <3>4 DEF Idle
      <4>2. Alike(f, New, f.n, Kept(n + 1))
        <5>1. f.n = New.n + f.n /\ New.n \in Int BY <1>6, NewType
        <5>2. f.keep <=> New.keep \/ Kept(n + 1) BY <2>2, NewType
        <5>3. /\ f.buf = New.buf /\ f.state = New.state /\ f.hs = New.hs /\ f.headers = New.headers /\ f.file = New.file
              /\ f.err = New.err /\ f.dead = New.dead /\ f.page = New.page
          BY <1>6, <3>1, <3>2, NewType DEF Alike
        <5>4. f.state = "uri" BY <1>6, <3>1
        <5>5. New.keep \in BOOLEAN /\ New.err \in BOOLEAN /\ New.dead \in BOOLEAN /\ DOMAIN New = Fields BY NewType
        <5> QED BY <1>6, <5>1, <5>2, <5>3, <5>4, <5>5 DEF Alike
      <4>3. Between(n + 1)' BY <1>5, <2>6, <4>1, <4>2 DEF Between
      <4>4. AllGo(n + 1)
        <5>1. \A i \in 1..(n + 1) : i \in 1..n \/ i = n + 1 BY <1>0
        <5> QED BY <2>6, <5>1 DEF AllGo
      <4> QED BY <1>5, <2>3, <4>3, <4>4 DEF Serving
    <3> QED BY <3>3, <3>4
  <2> QED BY <2>5, <2>6
<1>8. CASE r.status = 0
  <2>1. Answer(data, f) = << >>
    <3>1. Answer(New, g) = << >> BY <1>8 DEF Answered
    <3> QED BY <1>4, <3>1, AnswerAlike DEF K
  <2>2. answers' = Replies(n)
    <3>1. Replies(n) \o << >> = Replies(n) BY <1>0, RepliesMore
    <3> QED BY <2>1, <3>1
  <2>3. ~ r.goes BY <1>1, <1>8
  <2>4. ~ open' => Over' BY <1>0, <1>3, <1>5, <1>8, <2>2 DEF Over
  <2>5. CASE g.err \/ g.dead
    <3>1. ~ open' BY <1>6, <2>5
    <3> QED BY <2>4, <3>1
  <2>6. CASE ~ g.err /\ ~ g.dead
    <3>1. Stuck(g) BY <2>3, <2>6 DEF Answered
    <3>2. Stuck(f) BY <1>6, <3>1 DEF Stuck
    <3>3. ~ f.again /\ f.out = << >> /\ f.cstate = IF zero THEN "disconnecting" ELSE "connected"
      BY <1>6, <2>6, <3>1 DEF Stuck
    <3>4. CASE zero
      <4>1. ~ open' BY <3>3, <3>4
      <4> QED BY <2>4, <4>1
    <3>5. CASE ~ zero
      <4>1. open' /\ Hanging(f) BY <1>6, <2>6, <3>2, <3>3, <3>5 DEF Hanging
      <4>2. Hung(n)' BY <1>0, <1>5, <1>8, <2>3, <4>1 DEF Hung
      <4> QED BY <1>5, <2>2, <4>2 DEF Serving
    <3> QED BY <3>4, <3>5
  <2> QED BY <2>5, <2>6
<1> QED BY <1>7, <1>8

\* What the assumption says of a request of the plan.
LEMMA EpollAlone ==
    ASSUME PlanInv, server = "epoll", NEW m \in 1..Len(plan)
    PROVE  LET r == plan[m]
               l == LineRead(r)
           IN  /\ r.due = r.line => Answered(r, l)
               /\ r.due # r.line =>
                    /\ l.page = 0 /\ l.n = 0 /\ ~ l.err /\ ~ l.dead /\ l.state # "uri"
                    /\ l.out = << >> /\ l.cstate = "connected"
               /\ Headed(r) => Answered(r, Reads(New, r.wire, FALSE))
               /\ Headed(r) /\ r.due # r.line => Answered(r, Reads(l, From(r.wire, r.line + 1), FALSE))
<1> DEFINE r == plan[m]
           l == LineRead(r)
           s == SubSeq(r.wire, 1, r.line)
<1>1. MeansToEpoll(r) BY EpollMeans
<1>2. /\ r.due = r.line => Answered(r, l)
      /\ r.due # r.line => Waits(l)
      /\ Headed(r) => Answered(r, Reads(New, r.wire, FALSE))
      /\ Headed(r) /\ r.due # r.line => Answered(r, Reads(l, From(r.wire, r.line + 1), FALSE))
  BY <1>1 DEF MeansToEpoll, LineRead
<1>3. s # << >>
  <2>1. r.wire \in Seq(Word) /\ r.line \in Nat /\ 1 <= r.line /\ r.line < Len(r.wire) BY EpollMeans
  <2>2. Len(s) = r.line BY <2>1
  <2> HIDE DEF s
  <2>3. Len(s) # 0 BY <2>1, <2>2
  <2> QED BY <2>3
<1>4. ~ l.err => l.out = << >> /\ l.cstate = "connected"
  <2>1. PICK K \in BOOLEAN : K = FALSE OBVIOUS
  <2>2. Alike(New, New, 0, K) BY <2>1, NewAlike
  <2>3. l = Reads(New, s, K) /\ l = Reads(New, s, FALSE) BY <2>1 DEF LineRead
  <2> HIDE DEF s, l
  <2>4. 0 \in Int /\ ~ New.err /\ ~ New.dead BY NewType
  <2>5. SameRead(Reads(New, s, K), Reads(New, s, FALSE), 0, K, K) BY <1>3, <2>2, <2>4, ReadAlike, NewType
  <2> QED BY <2>3, <2>5 DEF SameRead
<1> QED BY <1>2, <1>4 DEF Waits

\* Every read of a calm connection keeps it serving or ends it.
LEMMA ServingReads ==
    ASSUME PlanInv, server = "epoll", NEW n \in 0..Len(plan), Serving(n), NEW k \in 0..(Len(Stream) - received),
           ReadEvent(k) \/ ReadAgain(k), whole', \A m \in Due' : Headed(plan[m])
    PROVE  Over' \/ \E m \in 0..Len(plan) : Serving(m)'
<1> DEFINE r == plan[n + 1]
           A == Len(Wire(n))
           x == received + k
<1>0. /\ Len(plan) \in Nat /\ received \in Nat /\ Len(Stream) \in Nat /\ Len(Stream) = Len(Wire(Len(plan)))
      /\ A \in Nat /\ x \in Nat /\ n \in Nat
  BY EpollLengths
<1>1. AllGo(n) /\ answers = Replies(n) /\ ~ data.again BY DEF Serving, Between, Begun, Hung, Idle, Hanging
<1>2. k \in 1..(Len(Stream) - received) /\ Read(k) BY <1>0, <1>1 DEF ReadEvent, ReadAgain
<1>3. /\ plan' = plan /\ received' = x /\ Uncut(k)
  <2>1. plan' = plan /\ received' = x BY <1>2 DEF Read
  <2>2. whole' = (whole /\ (k = 0 \/ Uncut(k))) BY <1>2 DEF Read
  <2>3. k # 0 BY <1>2
  <2>4. Uncut(k) BY <2>2, <2>3, Zenon
  <2> QED BY <2>1, <2>4
<1>4. PICK zero \in BOOLEAN :
         /\ data' = Reads(data, Piece(k), zero) /\ answers' = answers \o Answer(data, data')
         /\ open' = (~ data'.err /\ ~ data'.dead /\ (data'.again \/ data'.cstate = "connected"))
  BY <1>2 DEF Read
<1>5. /\ Answerable(received)' = Answerable(x) /\ Due' = DueAt(x)
      /\ \A m : Replies(m)' = Replies(m) /\ Kept(m)' = Kept(m) /\ AllGo(m)' = AllGo(m) /\ Wire(m)' = Wire(m)
  BY <1>3, StillDue, SamePlan
<1>6. Kept(n) \in BOOLEAN BY DEF Kept
<1>7. n < Len(plan)
  <2>1. CASE Between(n)
    <3>1. received = A BY <2>1 DEF Between
    <3>2. n = Len(plan) => A = Len(Stream) BY <1>0
    <3> QED BY <1>0, <1>2, <3>1, <3>2
  <2> QED BY <2>1 DEF Serving, Begun, Hung
<1>8. n \in 0..(Len(plan) - 1) /\ n + 1 \in 1..Len(plan) /\ n + 1 \in 0..Len(plan) /\ (n + 1) - 1 = n BY <1>0, <1>7
<1>9. /\ r.line \in Nat /\ 1 <= r.line /\ r.line < Len(r.wire) /\ Len(r.wire) \in Nat /\ r.due \in {r.line, Len(r.wire)}
      /\ r.goes => r.status # 0 /\ r.due # r.line
  BY <1>8, EpollMeans
<1>10. Len(Wire(n + 1)) = A + Len(r.wire) BY <1>8, EpollLengths
<1>11. x = Len(Wire(n + 1)) => Headed(r)
  <2> SUFFICES ASSUME x = Len(Wire(n + 1)) PROVE Headed(r) OBVIOUS
  <2>1. A + r.due <= x /\ A <= x /\ x <= Len(Wire(n + 1))
    <3>1. r.due \in Nat /\ r.due <= Len(r.wire) /\ x = A + Len(r.wire) BY <1>9, <1>10
    <3>2. \A a, u, w \in Nat : u <= w => a + u <= a + w /\ a <= a + w OBVIOUS
    <3>3. A + r.due <= A + Len(r.wire) /\ A <= A + Len(r.wire) BY <1>0, <1>9, <3>1, <3>2
    <3> QED BY <1>0, <3>1, <3>3
  <2>2. n + 1 \in DueAt(x) BY <1>0, <1>1, <1>7, <2>1, DueSet
  <2> QED BY <1>5, <2>2
<1> HIDE DEF x
<1>12. ASSUME NEW e, e.n = 0, data.n \in Int, Alike(data, e, data.n, Kept(n)), ~ e.err, ~ e.dead,
              data.out = << >>, e.out = << >>, data.cstate = "connected", e.cstate = "connected", Piece(k) # << >>,
              Answered(r, Reads(e, Piece(k), FALSE)),
              A + r.due <= x, x <= Len(Wire(n + 1)), r.goes => x = Len(Wire(n + 1))
       PROVE  Over' \/ Serving(n + 1)' \/ Serving(n)'
  <2> DEFINE g == Reads(e, Piece(k), FALSE)
  <2>1. /\ Alike(data', g, data.n, Kept(n))
        /\ ~ g.err => /\ data'.out = << >> /\ g.page = 0
                      /\ data'.cstate = IF zero THEN "disconnecting" ELSE "connected"
                      /\ g.state = "uri" => g.hs = "start" /\ g.headers = NoHeaders /\ g.file = "/a"
                      /\ data'.again => data'.state = "uri" /\ data'.buf # << >>
    <3>1. SameRead(Reads(data, Piece(k), zero), g, data.n, Kept(n), zero) BY <1>6, <1>12, ReadAlike
    <3> HIDE DEF g
    <3> QED BY <1>4, <3>1 DEF SameRead
  <2> HIDE DEF g
  <2>2. Answered(r, g) BY <1>12 DEF g
  <2>3. /\ received' \in Nat /\ A + r.due <= received' /\ received' <= Len(Wire(n + 1))
        /\ r.goes => received' = Len(Wire(n + 1))
    BY <1>0, <1>3, <1>12
  <2> QED BY <1>1, <1>3, <1>4, <1>8, <1>12, <2>1, <2>2, <2>3, ReadOutcome
<1>13. CASE Between(n)
  <2>0. received = A /\ Alike(data, New, data.n, Kept(n)) /\ Idle(data) BY <1>13 DEF Between
  <2>1. x = Len(Wire(n + 1)) \/ x = A + r.line BY <1>2, <1>3, <1>8, <2>0, NextCut DEF x
  <2>2. CASE x = Len(Wire(n + 1))
    <3>1. Piece(k) = r.wire /\ Piece(k) # << >> BY <1>2, <1>8, <2>0, <2>2, PieceIs DEF x
    <3>2. Answered(r, Reads(New, Piece(k), FALSE)) BY <1>8, <1>11, <2>2, <3>1, EpollAlone
    <3>3. A + r.due <= x /\ x <= Len(Wire(n + 1)) BY <1>0, <1>9, <1>10, <2>2, SMTT(30)
    <3> QED BY <1>8, <1>12, <2>0, <2>2, <3>1, <3>2, <3>3, NewType DEF Idle
  <2>3. CASE x = A + r.line
    <3>1. Piece(k) = SubSeq(r.wire, 1, r.line) /\ Piece(k) # << >> BY <1>2, <1>8, <2>0, <2>3, PieceIs DEF x
    <3>2. Reads(New, Piece(k), FALSE) = LineRead(r) BY <3>1 DEF LineRead
    <3>3. x <= Len(Wire(n + 1)) /\ x < A + Len(r.wire) BY <1>0, <1>9, <1>10, <2>3, SMTT(30)
    <3>4. CASE r.due = r.line
      <4>1. Answered(r, Reads(New, Piece(k), FALSE)) BY <1>8, <3>2, <3>4, EpollAlone
      <4>2. A + r.due <= x BY <1>0, <1>9, <2>3, <3>4
      <4>3. ~ r.goes BY <1>9, <3>4
      <4> QED BY <1>8, <1>12, <2>0, <3>1, <3>3, <4>1, <4>2, <4>3, NewType DEF Idle
    <3>5. CASE r.due # r.line
      <4> DEFINE g == LineRead(r)
                 f == data'
      <4>1. g.page = 0 /\ g.n = 0 /\ ~ g.err /\ ~ g.dead /\ g.state # "uri" BY <1>8, <3>5, EpollAlone
      <4>2. /\ Alike(f, g, data.n, Kept(n)) /\ f.out = << >>
            /\ f.cstate = IF zero THEN "disconnecting" ELSE "connected"
            /\ f.again => f.state = "uri"
        <5>1. data.n \in Int /\ data.out = << >> /\ data.cstate = "connected" BY <2>0 DEF Idle
        <5> HIDE DEF g
        <5>2. g = Reads(New, Piece(k), FALSE) /\ f = Reads(data, Piece(k), zero) BY <1>4, <3>2 DEF g
        <5>3. ~ New.err /\ ~ New.dead BY NewType
        <5>4. SameRead(Reads(data, Piece(k), zero), Reads(New, Piece(k), FALSE), data.n, Kept(n), zero)
          BY <1>6, <2>0, <3>1, <5>1, <5>3, NewType, ReadAlike
        <5> QED BY <4>1, <5>2, <5>4 DEF SameRead
      <4>3. f.state = g.state /\ f.err = g.err /\ f.dead = g.dead /\ f.n = data.n /\ f.n \in Int
        BY <2>0, <4>1, <4>2 DEF Alike, Idle
      <4>4. Answer(data, f) = << >>
        <5>1. Answer(New, g) = << >> BY <4>1, NewType DEF Answer
        <5> HIDE DEF g
        <5> QED BY <1>6, <2>0, <4>2, <5>1, NewType, AnswerAlike DEF Idle
      <4>5. answers' = Replies(n)
        <5>1. Replies(n) \o << >> = Replies(n) BY <1>0, RepliesMore
        <5> QED BY <1>1, <1>4, <4>4, <5>1
      <4>6. ~ f.again BY <4>1, <4>2, <4>3
      <4>7. CASE zero
        <5>1. ~ open' BY <1>4, <4>2, <4>6, <4>7
        <5>2. ~ (A + r.due <= x) BY <1>0, <1>9, <3>3, <3>5
        <5>3. A <= x BY <1>0, <1>9, <2>3
        <5>4. Answerable(x) = 1..n BY <1>0, <1>1, <3>3, <5>2, <5>3, DueSet
        <5> QED BY <1>3, <1>5, <4>5, <5>1, <5>4 DEF Over
      <4>8. CASE ~ zero
        <5>1. open' /\ Idle(f) BY <1>4, <4>1, <4>2, <4>3, <4>6, <4>8 DEF Idle
        <5>2. Begun(n)'
          <6>1. Alike(f, g, f.n, Kept(n)) BY <4>2, <4>3
          <6>2. LineRead(plan[n + 1])' = g BY <1>3 DEF LineRead
          <6> HIDE DEF g
          <6> QED BY <1>3, <1>5, <1>7, <2>3, <3>5, <5>1, <6>1, <6>2 DEF Begun
        <5> QED BY <1>1, <1>5, <4>5, <5>2 DEF Serving
      <4> QED BY <4>7, <4>8
    <3> QED BY <3>4, <3>5
  <2> QED BY <2>1, <2>2, <2>3
<1>14. CASE Begun(n)
  <2> DEFINE e == LineRead(r)
  <2>0. received = A + r.line /\ r.due # r.line /\ Alike(data, e, data.n, Kept(n)) /\ Idle(data) BY <1>14 DEF Begun
  <2>1. x = Len(Wire(n + 1))
    <3>1. received # A BY <1>0, <1>9, <2>0, SMTT(30)
    <3> QED BY <1>2, <1>3, <1>8, <2>0, <3>1, NextCut DEF x
  <2>2. Piece(k) = From(r.wire, r.line + 1) /\ Piece(k) # << >> BY <1>2, <1>8, <2>0, <2>1, PieceIs DEF x
  <2>3. e.n = 0 /\ ~ e.err /\ ~ e.dead /\ e.out = << >> /\ e.cstate = "connected" BY <1>8, <2>0, EpollAlone
  <2>4. Answered(r, Reads(e, Piece(k), FALSE)) BY <1>8, <1>11, <2>0, <2>1, <2>2, EpollAlone
  <2>5. A + r.due <= x /\ x <= Len(Wire(n + 1)) BY <1>0, <1>9, <1>10, <2>1, SMTT(30)
  <2> HIDE DEF e
  <2> QED BY <1>8, <1>12, <2>0, <2>1, <2>2, <2>3, <2>4, <2>5 DEF Idle
<1>15. CASE Hung(n)
  <2>0. A + r.due <= received /\ r.status = 0 /\ ~ r.goes /\ Hanging(data) BY <1>15 DEF Hung
  <2>1. Piece(k) # << >>
    <3>1. Stream \in Seq(Word) BY StreamType
    <3>2. Len(Piece(k)) = k BY <1>0, <1>2, <3>1 DEF Piece
    <3>3. Len(Piece(k)) # 0 BY <1>2, <3>2
    <3> QED BY <3>3
  <2>2. /\ Answer(data, data') = << >>
        /\ data'.err \/ (zero /\ data'.cstate # "connected" /\ ~ data'.again) \/ Hanging(data')
    BY <1>4, <2>0, <2>1, HangingReads
  <2>3. answers' = Replies(n)
    <3>1. Replies(n) \o << >> = Replies(n) BY <1>0, RepliesMore
    <3> QED BY <1>1, <1>4, <2>2, <3>1
  <2>4. A + r.due <= x /\ A <= x BY <1>0, <1>9, <2>0, SMTT(30) DEF x
  <2>5. CASE ~ open'
    <3>1. Answerable(x) = 1..n BY <1>0, <1>1, <2>0, <2>4, DueSet
    <3> QED BY <1>3, <1>5, <2>3, <2>5, <3>1 DEF Over
  <2>6. CASE open'
    <3>1. Hanging(data') BY <1>4, <2>2, <2>6
    <3>2. Hung(n)' BY <1>3, <1>5, <1>7, <2>0, <2>4, <2>6, <3>1 DEF Hung
    <3> QED BY <1>1, <1>5, <2>3, <3>2 DEF Serving
  <2>7. open' \in BOOLEAN BY <1>4
  <2> QED BY <2>5, <2>6
<1> QED BY <1>13, <1>14, <1>15 DEF Serving

\* What was due is due.
LEMMA CalmBefore ==
    ASSUME PlanInv, plan' = plan, server' = server, whole' => whole, received' \in Nat, received <= received', Calm'
    PROVE  Calm /\ whole' /\ \A m \in Due' : Headed(plan[m])
<1>1. server = "epoll" /\ whole' /\ whole BY DEF Calm
<1>2. \A m \in Due' : Headed(plan[m])
  <2>1. (\A m \in Due : Headed(plan[m]))' BY DEF Calm
  <2> QED BY <2>1 DEF Headed
<1>3. Due \subseteq Due'
  <2> SUFFICES ASSUME NEW m \in Due PROVE m \in Due' OBVIOUS
  <2>0. Due' = DueAt(received') BY StillDue
  <2>1. m \in 1..Len(plan) /\ Len(Wire(m - 1)) + plan[m].due <= received /\ \A j \in 1..(m - 1) : plan[j].goes BY DEF Due
  <2>2. m - 1 \in 0..Len(plan) /\ received \in Nat BY <2>1, PlanType
  <2>3. Len(Wire(m - 1)) \in Nat /\ plan[m].due \in Nat BY <1>1, <2>1, <2>2, EpollLengths, PlanType, RequestType
  <2>4. Len(Wire(m - 1)) + plan[m].due <= received' BY <2>1, <2>2, <2>3
  <2> QED BY <2>0, <2>1, <2>4 DEF DueAt
<1> QED BY <1>1, <1>2, <1>3 DEF Calm

LEMMA EpollInvariant == RSpec => []EpollInv
<1>1. RInit /\ PlanInv => EpollInv
  <2> SUFFICES ASSUME RInit, PlanInv PROVE \E n \in 0..Len(plan) : Serving(n) BY DEF EpollInv
  <2>1. 0 \in 0..Len(plan) BY PlanType
  <2>2. received = Len(Wire(0)) BY WireDef DEF RInit
  <2>3. Kept(0) = FALSE /\ Kept(0) \in BOOLEAN BY DEF Kept
  <2>4. Alike(New, New, 0, Kept(0)) BY <2>3, NewAlike
  <2>5. New.again = FALSE BY DEF New
  <2>6. Idle(New) BY <2>5, NewType DEF Idle
  <2>7. Between(0) BY <2>2, <2>4, <2>6, NewType DEF Between, RInit
  <2>8. answers = Replies(0) BY DEF RInit, Replies
  <2>9. AllGo(0) BY DEF AllGo
  <2> QED BY <2>1, <2>7, <2>8, <2>9 DEF Serving
<1>2. PlanInv /\ EpollInv /\ [RNext]_rvars => EpollInv'
  <2> SUFFICES ASSUME PlanInv, EpollInv, [RNext]_rvars, Calm'
               PROVE  Over' \/ \E n \in 0..Len(plan') : Serving(n)'
    BY DEF EpollInv
  <2>0. received \in Nat /\ Len(Stream) \in Nat BY PlanType, StreamType
  <2>1. CASE UNCHANGED rvars
    <3>1. /\ plan' = plan /\ server' = server /\ whole' = whole /\ received' = received /\ open' = open
          /\ data' = data /\ answers' = answers
      BY <2>1 DEF rvars
    <3>2. Calm BY <2>0, <3>1, CalmBefore
    <3>3. \A m : Replies(m)' = Replies(m) /\ Kept(m)' = Kept(m) /\ AllGo(m)' = AllGo(m) /\ Wire(m)' = Wire(m)
      BY <3>1, StillDue, SamePlan
    <3>4. Answerable(received)' = Answerable(received) BY <3>1, StillDue
    <3>5. CASE Over BY <3>1, <3>3, <3>4, <3>5 DEF Over
    <3>6. CASE \E n \in 0..Len(plan) : Serving(n)
      <4>1. PICK n \in 0..Len(plan) : Serving(n) BY <3>6
      <4>2. Between(n) => Between(n)' BY <3>1, <3>3 DEF Between
      <4>3. LineRead(plan[n + 1])' = LineRead(plan[n + 1]) BY <3>1 DEF LineRead
      <4>4. Begun(n) => Begun(n)' BY <3>1, <3>3, <4>3 DEF Begun
      <4>5. Hung(n) => Hung(n)' BY <3>1, <3>3 DEF Hung
      <4>6. Serving(n)' BY <3>1, <3>3, <4>1, <4>2, <4>4, <4>5 DEF Serving
      <4> QED BY <3>1, <4>6
    <3> QED BY <3>2, <3>5, <3>6 DEF EpollInv
  <2>2. CASE RNext
    <3>0. PICK k \in 0..(Len(Stream) - received) : Receive(k) \/ Serve \/ ReadEvent(k) \/ ReadAgain(k)
      BY <2>2 DEF RNext
    <3>1. server' = server /\ plan' = plan BY <3>0 DEF Receive, Serve, ReadEvent, ReadAgain, Read
    <3>2. server = "epoll" BY <3>1 DEF Calm
    <3>3. ReadEvent(k) \/ ReadAgain(k) BY <3>0, <3>2 DEF Receive, Serve
    <3>4. Read(k) BY <3>3 DEF ReadEvent, ReadAgain
    <3>5. received' = received + k /\ open BY <3>4 DEF Read
    <3>6. whole' => whole
      <4>1. whole' = (whole /\ (k = 0 \/ Uncut(k))) BY <3>4 DEF Read
      <4> QED BY <4>1, Zenon
    <3>7. received' \in Nat /\ received <= received' BY <2>0, <3>5
    <3>8. Calm /\ whole' /\ \A m \in Due' : Headed(plan[m]) BY <3>1, <3>6, <3>7, CalmBefore
    <3>9. PICK n \in 0..Len(plan) : Serving(n) BY <3>5, <3>8 DEF EpollInv, Over
    <3> QED BY <3>1, <3>2, <3>3, <3>8, <3>9, ServingReads
  <2> QED BY <2>1, <2>2
<1> QED BY <1>1, <1>2, PlanInvariant, PTL DEF RSpec

\* The epoll server answers exactly the requests that have arrived, if each has a header and no read
\* cuts a request line or a header block or holds more than one request.
THEOREM EpollAnswersRequests == RSpec => []WholeRequestsAreAnswered
<1>1. PlanInv /\ EpollInv => WholeRequestsAreAnswered
  <2> SUFFICES ASSUME PlanInv, EpollInv, Calm
               PROVE  /\ Len(answers) = Cardinality({m \in Due : plan[m].status # 0})
                      /\ \A i \in 1..Len(answers) :
                            /\ answers[i].status = plan[i].status
                            /\ answers[i].keep = \E m \in 1..i : plan[m].keep
    BY DEF WholeRequestsAreAnswered, Calm
  <2>0. server = "epoll" /\ Len(plan) \in Nat /\ received \in Nat BY PlanType DEF Calm
  <2>1. PICK a \in 0..Len(plan) : answers = Replies(a) /\ Answerable(received) = 1..a
    <3>1. CASE Over BY <3>1 DEF Over
    <3>2. CASE \E n \in 0..Len(plan) : Serving(n)
      <4>1. PICK n \in 0..Len(plan) : Serving(n) BY <3>2
      <4> DEFINE A == Len(Wire(n))
                 r == plan[n + 1]
      <4>2. AllGo(n) /\ answers = Replies(n) BY <4>1 DEF Serving
      <4>3. A \in Nat BY <2>0, EpollLengths
      <4>4. n < Len(plan) => /\ n + 1 \in 1..Len(plan) /\ (n + 1) - 1 = n
                             /\ r.line \in Nat /\ 1 <= r.line /\ r.line < Len(r.wire) /\ Len(r.wire) \in Nat
                             /\ r.due \in {r.line, Len(r.wire)} /\ Len(Wire(n + 1)) = A + Len(r.wire)
        <5> SUFFICES ASSUME n < Len(plan) PROVE /\ n + 1 \in 1..Len(plan) /\ (n + 1) - 1 = n
                             /\ r.line \in Nat /\ 1 <= r.line /\ r.line < Len(r.wire) /\ Len(r.wire) \in Nat
                             /\ r.due \in {r.line, Len(r.wire)} /\ Len(Wire(n + 1)) = A + Len(r.wire)
          OBVIOUS
        <5>1. n + 1 \in 1..Len(plan) /\ (n + 1) - 1 = n BY <2>0
        <5> QED BY <2>0, <5>1, EpollMeans, EpollLengths
      <4>5. Answerable(received) = 1..n
        <5>1. CASE Between(n)
          <6>1. received = A BY <5>1 DEF Between
          <6>2. n < Len(plan) => received <= Len(Wire(n + 1)) /\ ~ (A + r.due <= received) BY <4>3, <4>4, <6>1
          <6>3. A <= received BY <4>3, <6>1
          <6> QED BY <2>0, <4>2, <6>2, <6>3, DueSet
        <5>2. CASE Begun(n)
          <6>1. n < Len(plan) /\ received = A + r.line /\ r.due # r.line BY <5>2 DEF Begun
          <6>2. received <= Len(Wire(n + 1)) /\ ~ (A + r.due <= received) /\ A <= received BY <4>3, <4>4, <6>1
          <6> QED BY <2>0, <4>2, <6>1, <6>2, DueSet
        <5>3. CASE Hung(n)
          <6>1. n < Len(plan) /\ A + r.due <= received /\ r.status = 0 /\ ~ r.goes BY <5>3 DEF Hung
          <6>2. A <= received BY <2>0, <4>3, <4>4, <6>1
          <6> QED BY <2>0, <4>2, <6>1, <6>2, DueSet
        <5> QED BY <4>1, <5>1, <5>2, <5>3 DEF Serving
      <4> QED BY <4>2, <4>5
    <3> QED BY <3>1, <3>2 DEF EpollInv
  <2>2. {m \in Due : plan[m].status # 0} = Answerable(received) BY DEF Answerable, DueAt, Due
  <2>3. Cardinality(1..a) = a
    <3>1. a \in Nat BY <2>0
    <3>2. Cardinality(1..a) = IF 1 > a THEN 0 ELSE a - 1 + 1 BY <3>1, FS_Interval
    <3> QED BY <3>1, <3>2
  <2>4. Len(answers) = a
    <3>1. a \in Nat BY <2>0
    <3>2. PICK b : b = Kept(a + 1) OBVIOUS
    <3> QED BY <2>1, <3>1, <3>2, RepliesMore
  <2>5. ASSUME NEW i \in 1..a
        PROVE  answers[i].status = plan[i].status /\ answers[i].keep = \E m \in 1..i : plan[m].keep
    <3>1. answers[i] = [status |-> plan[i].status, keep |-> Kept(i)] BY <2>1 DEF Replies
    <3>2. Kept(i) = \E m \in 1..i : plan[m].keep BY DEF Kept
    <3> QED BY <3>1, <3>2
  <2> QED BY <2>1, <2>2, <2>3, <2>4, <2>5
<1> QED BY <1>1, PlanInvariant, EpollInvariant, PTL
=============================================================================
