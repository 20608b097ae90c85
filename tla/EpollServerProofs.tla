------------------------- MODULE EpollServerProofs -------------------------
(***************************************************************************)
(* For any number of connections, loops and descriptors, any requests and  *)
(* any faults: no handler of a destroyed connection is reached; every      *)
(* connection has the one timer it can take back, which closes it only     *)
(* when it is due; no event is lost; and a client gets its responses in    *)
(* order.  Each part strengthens the invariant of the one before it:       *)
(*                                                                         *)
(*   OwnershipInv  who refers to a connection, and by which descriptor     *)
(*   DataInv       what the parser, handleRead and handleWrite leave       *)
(*   ClockInv      timers                                                  *)
(*   EventInv      registrations, as long as epoll_ctl does not fail       *)
(*   FlowInv       what has been and what is still to be written           *)
(***************************************************************************)
EXTENDS EpollServer, TLAPS, WellFoundedInduction, FiniteSetTheorems, SequenceTheorems

\* What the variables are functions of.
Domains ==
    /\ DOMAIN life = Conn /\ DOMAIN fd = Conn /\ DOMAIN loop = Conn
    /\ DOMAIN mask = Conn /\ DOMAIN ready = Conn
    /\ DOMAIN lpc = Loop /\ DOMAIN cur = Loop /\ DOMAIN batch = Loop /\ DOMAIN timers = Loop
    /\ DOMAIN chan = Loop /\ DOMAIN http = Loop /\ DOMAIN pending = Loop
    /\ \A l \in Loop : DOMAIN chan[l] = Fd /\ DOMAIN http[l] = Fd

\* The backlog holds connections that nobody has accepted, each once.
BacklogInv ==
    /\ backlog \in Seq(Conn)
    /\ \A i, j \in 1..Len(backlog) : backlog[i] = backlog[j] => i = j
    /\ \A i \in 1..Len(backlog) : life[backlog[i]] = "backlog"

\* A connection's descriptor is its own.
FdInv ==
    /\ \A c \in Conn : life[c] = "alive" => fd[c] \in Fd /\ loop[c] \in Loop
    /\ \A c, d \in Conn : life[c] = "alive" /\ life[d] = "alive" /\ fd[c] = fd[d] => c = d

\* A loop's map leads from a descriptor to the connection that has it.
MapInv(map) ==
    \A l \in Loop : \A f \in Fd :
        map[l][f] # NoConn => map[l][f] \in Conn /\ Alive(l, map[l][f]) /\ fd[map[l][f]] = f

\* The kernel reports events of living connections only.
RegistrationInv == \A c \in Conn : mask[c] # {} \/ ready[c] => life[c] = "alive"

\* A loop's events are of its own living connections, one for each.
BatchInv ==
    \A l \in Loop :
        /\ \A b \in batch[l] : b = <<b[1], b[2]>> /\ b[1] \in Conn /\ Alive(l, b[1])
        /\ \A b, d \in batch[l] : b[1] = d[1] => b = d
        /\ lpc[l] \in {"poll", "expire"} => batch[l] = {}

TimerInv == \A l \in Loop : \A n \in timers[l] : n.conn \in Conn /\ Alive(l, n.conn)

\* The connection whose handlers are running lives, and has no other event in the batch.
HandlerInv ==
    \A l \in Loop : lpc[l] = "conn" =>
        cur[l] \in Conn /\ Alive(l, cur[l]) /\ \A b \in batch[l] : b[1] # cur[l]

\* A connection that waits for newEvent lives, and nothing of its loop knows it yet.
PendingInv ==
    \A l \in Loop :
        /\ pending[l] \in Seq(Conn)
        /\ \A i \in 1..Len(pending[l]) :
              /\ Alive(l, pending[l][i])
              /\ \A n \in timers[l] : n.conn # pending[l][i]
              /\ \A b \in batch[l] : b[1] # pending[l][i]
              /\ \A f \in Fd : chan[l][f] # pending[l][i]
              /\ lpc[l] = "conn" => cur[l] # pending[l][i]

OwnershipInv ==
    /\ Domains /\ next \in Loop /\ BacklogInv /\ FdInv /\ MapInv(chan) /\ MapInv(http) /\ RegistrationInv
    /\ BatchInv /\ TimerInv /\ HandlerInv /\ PendingInv

-----------------------------------------------------------------------------

LEMMA InitInv == PInit => OwnershipInv
<1> SUFFICES ASSUME PInit PROVE OwnershipInv OBVIOUS
<1> USE DEF PInit
<1>1. Domains /\ next \in Loop BY EpollServerConstants DEF Domains, Loop
<1>2. BacklogInv BY DEF BacklogInv
<1>3. FdInv BY DEF FdInv
<1>4. MapInv(chan) /\ MapInv(http) BY DEF MapInv
<1>5. RegistrationInv BY DEF RegistrationInv
<1>6. BatchInv BY DEF BatchInv
<1>7. TimerInv BY DEF TimerInv
<1>8. HandlerInv BY DEF HandlerInv
<1>9. PendingInv BY DEF PendingInv
<1> QED BY <1>1, <1>2, <1>3, <1>4, <1>5, <1>6, <1>7, <1>8, <1>9 DEF OwnershipInv

\* What the invariant speaks of, in groups that actions leave alone.
structure == <<next, life, fd, loop, backlog, chan, http, batch, timers, lpc, cur, pending>>

\* A step of a client or of the clock at most puts a registered socket on the ready list.
LEMMA EdgeInv ==
    ASSUME OwnershipInv, UNCHANGED structure, UNCHANGED mask,
           \/ UNCHANGED ready
           \/ \E c \in Conn, e \in {"in", "out", "err"} : Edge(c, e)
    PROVE  OwnershipInv'
<1> USE DEF OwnershipInv, structure
<1>1. Domains' BY DEF Domains, Edge
<1>2. RegistrationInv' BY DEF Domains, RegistrationInv, Edge
<1>3. BacklogInv' BY DEF BacklogInv
<1>4. FdInv' BY DEF FdInv
<1>5. (MapInv(chan) /\ MapInv(http))' BY DEF MapInv, Alive
<1>6. BatchInv' /\ TimerInv' /\ HandlerInv' BY DEF BatchInv, TimerInv, HandlerInv, Alive
<1>7. PendingInv' BY DEF PendingInv, Alive
<1> QED BY <1>1, <1>2, <1>3, <1>4, <1>5, <1>6, <1>7

\* A client that connects is put into the backlog.
LEMMA ConnectInv == ASSUME OwnershipInv, NEW c \in Conn, Connect(c) PROVE OwnershipInv'
<1> USE DEF OwnershipInv, Connect, functor, thread, poller, clock
<1>1. Domains' BY DEF Domains
<1>2. BacklogInv' BY DEF BacklogInv, Domains
<1>3. \A l \in Loop, d \in Conn : Alive(l, d) => Alive(l, d)' BY DEF Alive, Domains
<1>4. \A d \in Conn : (life[d] = "alive") = (life'[d] = "alive") BY DEF Domains
<1>5. FdInv' BY <1>4 DEF FdInv
<1>6. (MapInv(chan) /\ MapInv(http))' BY <1>3 DEF MapInv
<1>7. RegistrationInv' BY <1>4 DEF RegistrationInv
<1>8. BatchInv' /\ TimerInv' /\ HandlerInv' BY <1>3 DEF BatchInv, TimerInv, HandlerInv
<1>9. PendingInv' BY <1>3 DEF PendingInv
<1> QED BY <1>1, <1>2, <1>5, <1>6, <1>7, <1>8, <1>9

\* What accept takes from the backlog is not alive, and not in the backlog any more.
LEMMA AcceptedFacts ==
    ASSUME OwnershipInv, NEW c \in Conn, Accepted(c), NEW w, w # "backlog", life' = [life EXCEPT ![c] = w]
    PROVE  life[c] = "backlog" /\ BacklogInv' /\ next' \in Loop
<1> USE DEF OwnershipInv, BacklogInv, Accepted, Domains
<1>1. Len(backlog) > 0 /\ c = backlog[1] OBVIOUS
<1>2. life[c] = "backlog" BY <1>1
<1>3. \A i \in 1..Len(backlog') : i + 1 \in 1..Len(backlog) /\ backlog'[i] = backlog[i + 1] OBVIOUS
<1>4. \A i \in 1..Len(backlog') : backlog'[i] # c BY <1>1, <1>3
<1>5. backlog' \in Seq(Conn) OBVIOUS
<1>6. \A i, j \in 1..Len(backlog') : backlog'[i] = backlog'[j] => i = j BY <1>3
<1>7. \A i \in 1..Len(backlog') : life'[backlog'[i]] = "backlog" BY <1>3, <1>4
<1>8. next' \in Loop BY EpollServerConstants DEF GetNextLoop, Loop
<1> QED BY <1>2, <1>5, <1>6, <1>7, <1>8

\* A new connection gets a descriptor that no connection has, and waits for its loop.
LEMMA DealInv == ASSUME OwnershipInv, NEW c \in Conn, Deal(c) PROVE OwnershipInv'
<1> USE DEF OwnershipInv, Deal
<1>1. life[c] = "backlog" /\ BacklogInv' /\ next' \in Loop BY AcceptedFacts
<1>2. PICK f \in Free : fd' = [fd EXCEPT ![c] = f] OBVIOUS
<1>3. UNCHANGED <<chan, http, mask, ready, timers, lpc, cur, batch>> BY DEF Accepted, poller, clock, thread
<1>4. Domains' BY <1>2, <1>3 DEF Domains
<1>5. \A l \in Loop, d \in Conn : Alive(l, d) => Alive(l, d)' /\ d # c /\ fd'[d] = fd[d]
  BY <1>1, <1>2 DEF Alive, Domains
<1>6. life'[c] = "alive" /\ loop'[c] = next BY DEF Domains
<1>7. f \in Fd /\ \A d \in Conn : fd[d] # f BY DEF Free
<1>8. FdInv' BY <1>1, <1>2, <1>7 DEF FdInv, Domains
<1>9. (MapInv(chan) /\ MapInv(http))' BY <1>3, <1>5 DEF MapInv
<1>10. RegistrationInv' BY <1>3 DEF RegistrationInv, Domains
<1>11. BatchInv' /\ TimerInv' /\ HandlerInv' BY <1>3, <1>5 DEF BatchInv, TimerInv, HandlerInv
<1>12. \A l \in Loop : /\ \A n \in timers[l] : n.conn # c
                       /\ \A b \in batch[l] : b[1] # c
                       /\ \A g \in Fd : chan[l][g] # c
                       /\ lpc[l] = "conn" => cur[l] # c
  BY <1>5, EpollServerConstants DEF MapInv, BatchInv, TimerInv, HandlerInv
<1>13. PendingInv'
  <2> SUFFICES ASSUME NEW l \in Loop
               PROVE  /\ pending'[l] \in Seq(Conn)
                      /\ \A i \in 1..Len(pending'[l]) :
                            /\ life'[pending'[l][i]] = "alive" /\ loop'[pending'[l][i]] = l
                            /\ \A n \in timers[l] : n.conn # pending'[l][i]
                            /\ \A b \in batch[l] : b[1] # pending'[l][i]
                            /\ \A g \in Fd : chan[l][g] # pending'[l][i]
                            /\ lpc[l] = "conn" => cur[l] # pending'[l][i]
    BY <1>3 DEF PendingInv, Alive
  <2>1. CASE l = next
    <3>1. pending'[l] = Append(pending[l], c) /\ pending[l] \in Seq(Conn) BY <2>1 DEF Domains, PendingInv
    <3>2. \A i \in 1..Len(pending'[l]) :
             \/ pending'[l][i] = c
             \/ i \in 1..Len(pending[l]) /\ pending'[l][i] = pending[l][i] /\ pending[l][i] \in Conn
      BY <3>1
    <3> QED BY <2>1, <3>1, <3>2, <1>5, <1>6, <1>12 DEF PendingInv, Alive
  <2>2. CASE l # next
    <3>1. pending'[l] = pending[l] BY <2>2 DEF Domains
    <3>2. \A i \in 1..Len(pending[l]) : pending[l][i] \in Conn /\ Alive(l, pending[l][i]) BY DEF PendingInv
    <3>3. \A i \in 1..Len(pending[l]) : life'[pending[l][i]] = "alive" /\ loop'[pending[l][i]] = l
      BY <3>2, <1>5 DEF Alive
    <3>4. /\ pending[l] \in Seq(Conn)
          /\ \A i \in 1..Len(pending[l]) :
                /\ \A n \in timers[l] : n.conn # pending[l][i]
                /\ \A b \in batch[l] : b[1] # pending[l][i]
                /\ \A g \in Fd : chan[l][g] # pending[l][i]
                /\ lpc[l] = "conn" => cur[l] # pending[l][i]
      BY DEF PendingInv
    <3> HIDE DEF Deal, OwnershipInv
    <3> QED BY <3>1, <3>3, <3>4
  <2> QED BY <2>1, <2>2
<1> QED BY <1>1, <1>4, <1>8, <1>9, <1>10, <1>11, <1>13

\* A connection that is refused, or that nobody owns, is in no map.
LEMMA RefuseInv == ASSUME OwnershipInv, NEW c \in Conn, Refuse(c) \/ NonBlockFails(c) PROVE OwnershipInv'
<1> USE DEF OwnershipInv, Refuse, NonBlockFails
<1>1. Accepted(c) /\ \E w \in {"closed", "leaked"} : life' = [life EXCEPT ![c] = w] OBVIOUS
<1>2. life[c] = "backlog" /\ BacklogInv' /\ next' \in Loop BY <1>1, AcceptedFacts
<1>3. UNCHANGED <<chan, http, mask, ready, timers, lpc, cur, batch, loop, pending>>
  BY <1>1 DEF Accepted, poller, clock, thread, functor
<1>4. DOMAIN fd' = DOMAIN fd /\ \A d \in Conn \ {c} : fd'[d] = fd[d] BY DEF Domains
<1>5. \A d \in Conn : (life[d] = "alive") = (life'[d] = "alive") BY <1>1, <1>2 DEF Domains
<1>6. \A l \in Loop, d \in Conn : Alive(l, d) => Alive(l, d)' /\ d # c /\ fd'[d] = fd[d]
  BY <1>1, <1>2, <1>3, <1>4 DEF Alive, Domains
<1>7. Domains' BY <1>1, <1>3, <1>4 DEF Domains
<1>8. FdInv' BY <1>2, <1>3, <1>4, <1>5 DEF FdInv
<1>9. (MapInv(chan) /\ MapInv(http))' BY <1>3, <1>6 DEF MapInv
<1>10. RegistrationInv' BY <1>3, <1>5 DEF RegistrationInv
<1>11. BatchInv' /\ TimerInv' /\ HandlerInv' BY <1>3, <1>6 DEF BatchInv, TimerInv, HandlerInv
<1>12. PendingInv'
  <2>1. \A l \in Loop : \A i \in 1..Len(pending[l]) : pending[l][i] \in Conn BY DEF PendingInv
  <2> QED BY <1>3, <1>6, <2>1 DEF PendingInv
<1> QED BY <1>2, <1>7, <1>8, <1>9, <1>10, <1>11, <1>12

-----------------------------------------------------------------------------
(* A loop                                                                  *)

\* What poll returns is of the connections that own the ready descriptors.
LEMMA PollInv == ASSUME OwnershipInv, NEW l \in Loop, Poll(l) PROVE OwnershipInv'
<1> DEFINE R == {c \in Conn : ready[c] /\ loop[c] = l}
           E == {c \in R : Level(sock[c], mask[c]) # {}}
           B == {<<chan[l][fd[c]], Level(sock[c], mask[c])>> : c \in {e \in E : chan[l][fd[e]] # NoConn}}
<1> USE DEF OwnershipInv
<1>1. /\ lpc[l] = "poll" /\ batch' = [batch EXCEPT ![l] = B]
      /\ lpc' = [lpc EXCEPT ![l] = IF B # {} \/ wake[l] THEN "handle" ELSE "poll"]
      /\ ready' = [c \in Conn |-> ready[c] /\ c \notin R]
      /\ mask' = [c \in Conn |-> IF c \in E /\ "oneshot" \in mask[c] THEN {} ELSE mask[c]]
      /\ UNCHANGED <<next, backlog, life, fd, loop, pending, cur, chan, http, timers>>
  BY DEF Poll, accept, object, clock
<1>2. \A c \in E : chan[l][fd[c]] # NoConn => chan[l][fd[c]] = c /\ Alive(l, c)
  BY DEF RegistrationInv, FdInv, MapInv, Alive
<1>3. \A b \in B : \E c \in E :
         b = <<c, Level(sock[c], mask[c])>> /\ chan[l][fd[c]] = c /\ Alive(l, c) /\ fd[c] \in Fd
  BY <1>2 DEF FdInv, Alive
<1> HIDE DEF B
<1>4. Domains' BY <1>1 DEF Domains
<1>5. BacklogInv' BY <1>1 DEF BacklogInv
<1>6. FdInv' BY <1>1 DEF FdInv
<1>7. (MapInv(chan) /\ MapInv(http))' BY <1>1 DEF MapInv, Alive
<1>8. RegistrationInv' BY <1>1 DEF RegistrationInv
<1>9. TimerInv' BY <1>1 DEF TimerInv, Alive
<1>10. batch'[l] = B /\ (lpc'[l] = "handle" \/ (lpc'[l] = "poll" /\ B = {})) BY <1>1 DEF Domains
<1>11. \A k \in Loop \ {l} : batch'[k] = batch[k] /\ lpc'[k] = lpc[k] BY <1>1 DEF Domains
<1>12. BatchInv'
  <2>1. \A b \in B : b = <<b[1], b[2]>> /\ b[1] \in Conn /\ Alive(l, b[1])' BY <1>1, <1>3 DEF Alive
  <2>2. \A b, d \in B : b[1] = d[1] => b = d BY <1>3
  <2>3. \A k \in Loop \ {l} : /\ \A b \in batch[k] : b = <<b[1], b[2]>> /\ b[1] \in Conn /\ Alive(k, b[1])'
                              /\ \A b, d \in batch[k] : b[1] = d[1] => b = d
                              /\ lpc[k] \in {"poll", "expire"} => batch[k] = {}
    BY <1>1 DEF BatchInv, Alive
  <2> QED BY <1>10, <1>11, <2>1, <2>2, <2>3 DEF BatchInv
<1>13. HandlerInv' BY <1>1, <1>10, <1>11 DEF HandlerInv, Alive
<1>14. PendingInv'
  <2>1. \A i \in 1..Len(pending[l]) : \A b \in B : b[1] # pending[l][i] BY <1>3 DEF PendingInv
  <2> QED BY <1>1, <1>10, <1>11, <2>1 DEF PendingInv, Alive
<1> QED BY <1>1, <1>4, <1>5, <1>6, <1>7, <1>8, <1>9, <1>12, <1>13, <1>14

\* An event is handled once: it leaves the batch when its handlers begin.
LEMMA HandleEventsInv ==
    ASSUME OwnershipInv, NEW l \in Loop, NEW b \in batch[l], HandleEvents(l, b[1], b[2])
    PROVE  OwnershipInv'
<1> USE DEF OwnershipInv
<1>1. b = <<b[1], b[2]>> /\ b[1] \in Conn /\ Alive(l, b[1]) BY DEF BatchInv
<1>2. /\ lpc[l] = "handle" /\ batch' = [batch EXCEPT ![l] = @ \ {b}]
      /\ \/ UNCHANGED <<lpc, cur>>
         \/ lpc' = [lpc EXCEPT ![l] = "conn"] /\ cur' = [cur EXCEPT ![l] = b[1]]
      /\ UNCHANGED <<next, backlog, life, fd, loop, pending, chan, http, mask, ready, timers>>
  BY <1>1 DEF HandleEvents, accept, functor, poller, clock
<1>3. /\ batch'[l] = batch[l] \ {b}
      /\ \A k \in Loop \ {l} : batch'[k] = batch[k] /\ lpc'[k] = lpc[k] /\ cur'[k] = cur[k]
  BY <1>2 DEF Domains
<1>4. lpc'[l] = "handle" \/ (lpc'[l] = "conn" /\ cur'[l] = b[1]) BY <1>2 DEF Domains
<1>5. Domains' BY <1>2 DEF Domains
<1>6. BacklogInv' BY <1>2 DEF BacklogInv
<1>7. FdInv' /\ RegistrationInv' BY <1>2 DEF FdInv, RegistrationInv
<1>8. (MapInv(chan) /\ MapInv(http))' BY <1>2 DEF MapInv, Alive
<1>9. TimerInv' BY <1>2 DEF TimerInv, Alive
<1>10. BatchInv' BY <1>2, <1>3, <1>4 DEF BatchInv, Alive
<1>11. HandlerInv'
  <2>1. \A d \in batch[l] \ {b} : d[1] # b[1] BY DEF BatchInv
  <2> QED BY <1>1, <1>2, <1>3, <1>4, <2>1 DEF HandlerInv, Alive
<1>12. PendingInv'
  <2>1. \A i \in 1..Len(pending[l]) : b[1] # pending[l][i] BY DEF PendingInv
  <2> QED BY <1>2, <1>3, <1>4, <2>1 DEF PendingInv, Alive
<1> QED BY <1>2, <1>5, <1>6, <1>7, <1>8, <1>9, <1>10, <1>11, <1>12

\* A step of loop l with handleClose in it.  The connections K, all of l, have no event and no
\* functor left; the nodes N are some of the loop's.
Closing(l, K, N) ==
    /\ K \subseteq Conn /\ N \subseteq timers[l]
    /\ \A c \in K : Alive(l, c) /\ \A b \in batch[l] : b[1] # c
    /\ \A c \in K : \A i \in 1..Len(pending[l]) : pending[l][i] # c
    /\ Close(l, K, N)
    /\ \/ lpc' = [lpc EXCEPT ![l] = "handle"]
       \/ lpc' = [lpc EXCEPT ![l] = "poll"] /\ batch[l] = {}
    /\ DOMAIN cur' = Loop /\ \A k \in Loop \ {l} : cur'[k] = cur[k]
    /\ UNCHANGED <<next, backlog, batch, pending>>

\* A destroyed connection is forgotten by whatever could lead to it.
LEMMA CloseInv ==
    ASSUME OwnershipInv, NEW l \in Loop, NEW K, NEW N, Closing(l, K, N)
    PROVE  OwnershipInv'
<1> DEFINE F == {fd[c] : c \in K}
           Dead == {c \in K : \A n \in N : n.conn # c}
<1> USE DEF OwnershipInv, Closing
<1>1. /\ chan' = Forget(chan, l, F) /\ http' = Forget(http, l, F)
      /\ mask' = [c \in Conn |-> IF c \in K THEN {} ELSE mask[c]]
      /\ ready' = [c \in Conn |-> ready[c] /\ c \notin K]
      /\ timers' = [timers EXCEPT ![l] = N]
      /\ life' = [c \in Conn |-> IF c \in Dead THEN "closed" ELSE life[c]]
      /\ fd' = [c \in Conn |-> IF c \in Dead THEN 0 ELSE fd[c]]
      /\ loop' = [c \in Conn |-> IF c \in Dead THEN 0 ELSE loop[c]]
  BY DEF Close
<1>2. Domains' BY <1>1 DEF Domains, Forget
<1>3. \A c \in Conn \ Dead : life'[c] = life[c] /\ fd'[c] = fd[c] /\ loop'[c] = loop[c] BY <1>1
<1>4. \A c \in Dead : life'[c] = "closed" /\ life[c] = "alive" /\ loop[c] = l BY <1>1 DEF Alive
<1>5. \A k \in Loop, c \in Conn \ Dead : Alive(k, c) => Alive(k, c)' BY <1>3 DEF Alive
<1>6. BacklogInv'
  <2>1. \A i \in 1..Len(backlog) : backlog[i] \in Conn \ Dead BY <1>4 DEF BacklogInv
  <2> QED BY <1>3, <2>1 DEF BacklogInv
<1>7. FdInv' BY <1>3, <1>4 DEF FdInv
<1>8. \A k \in Loop, c \in Conn : Alive(k, c) /\ k # l => c \notin Dead BY <1>4 DEF Alive
<1>9. \A k \in Loop : \A f \in Fd :
         /\ chan'[k][f] = IF k = l /\ f \in F THEN NoConn ELSE chan[k][f]
         /\ http'[k][f] = IF k = l /\ f \in F THEN NoConn ELSE http[k][f]
  BY <1>1 DEF Domains, Forget
<1>10. \A k \in Loop : \A f \in Fd :
          chan'[k][f] # NoConn => chan'[k][f] = chan[k][f] /\ chan'[k][f] \in Conn \ Dead
                                  /\ Alive(k, chan'[k][f]) /\ fd[chan'[k][f]] = f
  BY <1>8, <1>9 DEF MapInv
<1>11. \A k \in Loop : \A f \in Fd :
          http'[k][f] # NoConn => http'[k][f] = http[k][f] /\ http'[k][f] \in Conn \ Dead
                                  /\ Alive(k, http'[k][f]) /\ fd[http'[k][f]] = f
  BY <1>8, <1>9 DEF MapInv
<1>12. MapInv(chan)' BY <1>3, <1>10 DEF MapInv, Alive
<1>13. MapInv(http)' BY <1>3, <1>11 DEF MapInv, Alive
<1>14. RegistrationInv' BY <1>1, <1>3 DEF RegistrationInv
<1>15. /\ (lpc'[l] = "handle" \/ (lpc'[l] = "poll" /\ batch[l] = {})) /\ timers'[l] = N
       /\ \A k \in Loop \ {l} : lpc'[k] = lpc[k] /\ cur'[k] = cur[k] /\ timers'[k] = timers[k]
  BY <1>1 DEF Domains
<1> HIDE DEF F
<1>16. BatchInv'
  <2>1. \A k \in Loop : \A b \in batch[k] : b[1] \in Conn \ Dead /\ Alive(k, b[1]) BY <1>8 DEF BatchInv
  <2> QED BY <1>5, <1>15, <2>1 DEF BatchInv
<1>17. TimerInv'
  <2>1. \A k \in Loop : \A n \in timers'[k] : n.conn \in Conn \ Dead /\ Alive(k, n.conn)
    BY <1>8, <1>15 DEF TimerInv
  <2> QED BY <1>5, <2>1 DEF TimerInv
<1>18. HandlerInv'
  <2>1. \A k \in Loop : lpc'[k] = "conn" => k # l /\ cur'[k] = cur[k] /\ lpc[k] = "conn" BY <1>15
  <2> QED BY <1>5, <1>8, <2>1 DEF HandlerInv
<1>19. PendingInv'
  <2>1. \A k \in Loop : \A i \in 1..Len(pending[k]) :
           pending[k][i] \in Conn \ Dead /\ Alive(k, pending[k][i])
    BY <1>8 DEF PendingInv
  <2>2. \A k \in Loop : timers'[k] \subseteq timers[k] BY <1>15
  <2>3. \A k \in Loop : \A f \in Fd : chan'[k][f] = NoConn \/ chan'[k][f] = chan[k][f] BY <1>10
  <2>4. \A k \in Loop : \A i \in 1..Len(pending[k]) : \A f \in Fd : chan'[k][f] # pending[k][i]
    BY <2>1, <2>3, EpollServerConstants DEF PendingInv
  <2>5. \A k \in Loop : lpc'[k] = "conn" => cur'[k] = cur[k] /\ lpc[k] = "conn" BY <1>15
  <2> QED BY <1>5, <2>1, <2>2, <2>4, <2>5 DEF PendingInv
<1> QED BY <1>2, <1>6, <1>7, <1>12, <1>13, <1>14, <1>16, <1>17, <1>18, <1>19

\* handleConn: its connection goes on, or is closed.
LEMMA HandleConnInv == ASSUME OwnershipInv, NEW l \in Loop, HandleConn(l) PROVE OwnershipInv'
<1> DEFINE c == cur[l]
<1> USE DEF OwnershipInv
<1>1. /\ lpc[l] = "conn" /\ lpc' = [lpc EXCEPT ![l] = "handle"] /\ cur' = [cur EXCEPT ![l] = NoConn]
      /\ UNCHANGED <<next, backlog, pending, batch>>
  BY DEF HandleConn, accept, functor
<1>2. /\ c \in Conn /\ Alive(l, c)
      /\ \A b \in batch[l] : b[1] # c
      /\ \A i \in 1..Len(pending[l]) : pending[l][i] # c
  BY <1>1 DEF HandlerInv, PendingInv
<1>3. Others(l, c) \subseteq timers[l] BY DEF Others
<1>4. CASE Finish(l, c)
  <2>1. Close(l, {c}, Others(l, c)) BY <1>4 DEF Finish
  <2>2. DOMAIN cur' = Loop /\ \A k \in Loop \ {l} : cur'[k] = cur[k] BY <1>1 DEF Domains
  <2> HIDE DEF c, OwnershipInv
  <2>3. Closing(l, {c}, Others(l, c)) BY <1>1, <1>2, <1>3, <2>1, <2>2 DEF Closing
  <2> QED BY <2>3, CloseInv
<1>5. CASE Resume(l, c) \/ Linger(l, c)
  <2>1. UNCHANGED <<life, fd, loop>> BY <1>5 DEF Resume, Linger
  <2>2. PICK T : /\ T \subseteq timers[l] \cup {Node(c, Wanted(data[c]).timeout)}
                 /\ timers' = [timers EXCEPT ![l] = T]
    <3>1. CASE Resume(l, c) BY <1>3, <3>1 DEF Resume, AddTimer
    <3>2. CASE Linger(l, c) BY <1>3, <3>2 DEF Linger
    <3> QED BY <1>5, <3>1, <3>2
  <2>3. /\ http' = http
        /\ chan' = chan \/ chan' = [chan EXCEPT ![l][fd[c]] = NoConn]
        /\ (mask' = mask /\ ready' = ready)
           \/ \E ev : mask' = [mask EXCEPT ![c] = ev] /\ ready' = [ready EXCEPT ![c] = Level(sock[c], ev) # {}]
    <3>1. CASE Resume(l, c) BY <3>1 DEF Resume, EpollMod, Ctl, poller
    <3>2. CASE Linger(l, c) BY <3>2 DEF Linger, poller
    <3> QED BY <1>5, <3>1, <3>2
  <2>4. \A n \in T : n \in timers[l] \/ n.conn = c BY <2>2 DEF Node
  <2>5. /\ lpc'[l] = "handle" /\ timers'[l] = T
        /\ \A k \in Loop \ {l} : lpc'[k] = lpc[k] /\ cur'[k] = cur[k] /\ timers'[k] = timers[k]
    BY <1>1, <2>2 DEF Domains
  <2>6. \A k \in Loop : \A f \in Fd : chan'[k][f] = chan[k][f] \/ chan'[k][f] = NoConn BY <2>3 DEF Domains
  <2>7. Domains' BY <1>1, <2>1, <2>2, <2>3 DEF Domains
  <2>8. BacklogInv' BY <1>1, <2>1 DEF BacklogInv
  <2>9. FdInv' BY <2>1 DEF FdInv
  <2>10. (MapInv(chan) /\ MapInv(http))' BY <2>1, <2>3, <2>6 DEF MapInv, Alive
  <2>11. RegistrationInv' BY <1>2, <2>1, <2>3 DEF RegistrationInv, Alive, Domains
  <2>12. BatchInv' BY <1>1, <2>1, <2>5 DEF BatchInv, Alive
  <2>13. TimerInv' BY <1>2, <2>1, <2>4, <2>5 DEF TimerInv, Alive
  <2>14. HandlerInv' BY <1>1, <2>1, <2>5 DEF HandlerInv, Alive
  <2>15. PendingInv'
    <3>1. \A k \in Loop : \A i \in 1..Len(pending[k]) : \A n \in timers'[k] : n.conn # pending[k][i]
      BY <1>2, <2>4, <2>5 DEF PendingInv
    <3>2. \A k \in Loop : \A i \in 1..Len(pending[k]) : \A f \in Fd : chan'[k][f] # pending[k][i]
      BY <2>6, EpollServerConstants DEF PendingInv
    <3>3. \A k \in Loop : lpc'[k] = "conn" => lpc[k] = "conn" /\ cur'[k] = cur[k] BY <2>5
    <3> QED BY <1>1, <2>1, <3>1, <3>2, <3>3 DEF PendingInv, Alive
  <2> QED BY <1>1, <2>7, <2>8, <2>9, <2>10, <2>11, <2>12, <2>13, <2>14, <2>15
<1> QED BY <1>4, <1>5 DEF HandleConn

\* newEvent: the loop's maps and timers take up living connections.
LEMMA DoPendingInv == ASSUME OwnershipInv, NEW l \in Loop, DoPendingFunctors(l) PROVE OwnershipInv'
<1> DEFINE P == {pending[l][i] : i \in 1..Len(pending[l])}
           Put(m, K) == [m EXCEPT ![l] = [f \in Fd |-> IF \E c \in P : fd[c] = f
                                                        THEN LET c == CHOOSE c \in P : fd[c] = f
                                                             IN  IF c \in K THEN c ELSE NoConn
                                                        ELSE m[l][f]]]
<1> USE DEF OwnershipInv
<1>1. PICK bad :
      /\ lpc[l] = "handle" /\ batch[l] = {}
      /\ chan' = Put(chan, P \ bad) /\ http' = Put(http, P)
      /\ mask' = [c \in Conn |-> IF c \in P \ bad THEN DefaultEvent ELSE mask[c]]
      /\ ready' = [c \in Conn |-> IF c \in P \ bad THEN Level(sock[c], {"in"}) # {} ELSE ready[c]]
      /\ timers' = [timers EXCEPT ![l] = @ \cup {Node(c, Expired) : c \in P}]
      /\ pending' = [pending EXCEPT ![l] = << >>]
      /\ lpc' = [lpc EXCEPT ![l] = "expire"]
      /\ UNCHANGED <<next, backlog, life, fd, loop, cur, batch>>
  BY DEF DoPendingFunctors, accept
<1>2. \A c \in P : c \in Conn /\ Alive(l, c) BY DEF PendingInv
<1>3. ASSUME NEW f \in Fd, \E c \in P : fd[c] = f
      PROVE  (CHOOSE c \in P : fd[c] = f) \in P /\ fd[CHOOSE c \in P : fd[c] = f] = f
  BY <1>3
<1> HIDE DEF P
<1>4. \A k \in Loop : \A f \in Fd :
         \/ chan'[k][f] = NoConn \/ chan'[k][f] = chan[k][f]
         \/ k = l /\ chan'[k][f] \in P /\ fd[chan'[k][f]] = f
  BY <1>1, <1>3 DEF Domains
<1>5. \A k \in Loop : \A f \in Fd :
         \/ http'[k][f] = NoConn \/ http'[k][f] = http[k][f]
         \/ k = l /\ http'[k][f] \in P /\ fd[http'[k][f]] = f
  BY <1>1, <1>3 DEF Domains
<1>6. /\ lpc'[l] = "expire" /\ pending'[l] = << >> /\ timers'[l] = timers[l] \cup {Node(c, Expired) : c \in P}
      /\ \A k \in Loop \ {l} : /\ lpc'[k] = lpc[k] /\ pending'[k] = pending[k] /\ timers'[k] = timers[k]
                               /\ chan'[k] = chan[k]
  BY <1>1 DEF Domains
<1>7. \A n \in timers'[l] : n \in timers[l] \/ n.conn \in P BY <1>6 DEF Node
<1>8. Domains' BY <1>1 DEF Domains
<1> HIDE DEF Put
<1>9. BacklogInv' BY <1>1 DEF BacklogInv
<1>10. FdInv' BY <1>1 DEF FdInv
<1>11. MapInv(chan)'
  <2>1. UNCHANGED <<life, fd, loop>> BY <1>1
  <2>2. \A k \in Loop : \A f \in Fd : chan'[k][f] # NoConn =>
           chan'[k][f] \in Conn /\ Alive(k, chan'[k][f]) /\ fd[chan'[k][f]] = f
    BY <1>2, <1>4 DEF MapInv
  <2> QED BY <2>1, <2>2 DEF MapInv, Alive
<1>12. MapInv(http)' BY <1>1, <1>2, <1>5 DEF MapInv, Alive
<1>13. RegistrationInv' BY <1>1, <1>2 DEF RegistrationInv, Alive
<1>14. BatchInv' BY <1>1, <1>6 DEF BatchInv, Alive
<1>15. TimerInv' BY <1>1, <1>2, <1>6, <1>7 DEF TimerInv, Alive
<1>16. HandlerInv' BY <1>1, <1>6 DEF HandlerInv, Alive
<1>17. PendingInv'
  <2>1. ASSUME NEW k \in Loop
        PROVE  /\ pending'[k] \in Seq(Conn)
               /\ \A i \in 1..Len(pending'[k]) :
                     /\ (life[pending'[k][i]] = "alive" /\ loop[pending'[k][i]] = k)
                     /\ \A n \in timers'[k] : n.conn # pending'[k][i]
                     /\ \A b \in batch[k] : b[1] # pending'[k][i]
                     /\ \A f \in Fd : chan'[k][f] # pending'[k][i]
                     /\ lpc'[k] = "conn" => cur[k] # pending'[k][i]
    <3>1. CASE k = l
      <4>1. pending'[k] = << >> /\ Len(<< >>) = 0 BY <1>6, <3>1
      <4>2. 1..Len(pending'[k]) = {} BY <4>1
      <4> QED BY <4>1, <4>2
    <3>2. CASE k # l BY <1>6, <3>2 DEF PendingInv, Alive
    <3> QED BY <3>1, <3>2
  <2>2. UNCHANGED <<life, loop, batch, cur>> BY <1>1
  <2> HIDE DEF OwnershipInv
  <2> QED BY <2>1, <2>2 DEF PendingInv, Alive
<1> QED BY <1>1, <1>8, <1>9, <1>10, <1>11, <1>12, <1>13, <1>14, <1>15, <1>16, <1>17

\* handleExpired: the loop has no events left, and no node is of a connection that waits.
LEMMA HandleExpiredInv == ASSUME OwnershipInv, NEW l \in Loop, HandleExpired(l) PROVE OwnershipInv'
<1> DEFINE X == {n \in timers[l] : ~ Valid(n)}
           K == {n.conn : n \in X}
<1>1. /\ lpc[l] = "expire" /\ lpc' = [lpc EXCEPT ![l] = "poll"]
      /\ Close(l, K, timers[l] \ X)
      /\ UNCHANGED <<next, backlog, pending, cur, batch>>
  BY DEF HandleExpired, accept, functor
<1>2. K \subseteq Conn /\ \A c \in K : Alive(l, c) BY DEF OwnershipInv, TimerInv
<1>3. batch[l] = {} BY <1>1 DEF OwnershipInv, BatchInv
<1>4. \A c \in K : \A i \in 1..Len(pending[l]) : pending[l][i] # c BY DEF OwnershipInv, PendingInv
<1>5. DOMAIN cur' = Loop BY <1>1 DEF OwnershipInv, Domains
<1> HIDE DEF K
<1>6. Closing(l, K, timers[l] \ X) BY <1>1, <1>2, <1>3, <1>4, <1>5 DEF Closing
<1> QED BY <1>6, CloseInv

-----------------------------------------------------------------------------

\* Every step preserves the invariant.
LEMMA StepInv == OwnershipInv /\ [PNext]_vars => OwnershipInv'
<1> SUFFICES ASSUME OwnershipInv, [PNext]_vars PROVE OwnershipInv' OBVIOUS
<1> USE DEF structure, sys, accept, object, functor, thread, poller, clock
<1>1. CASE UNCHANGED vars BY <1>1, EdgeInv DEF vars
<1>2. CASE Tick BY <1>2, EdgeInv DEF Tick
<1>3. CASE ServerStep
  <2>1. CASE AcceptEvent BY <2>1, EdgeInv DEF AcceptEvent
  <2>2. CASE AcceptEnds BY <2>2, EdgeInv DEF AcceptEnds
  <2>3. ASSUME NEW c \in Conn, Deal(c) \/ Refuse(c) \/ NonBlockFails(c) PROVE OwnershipInv'
    BY <2>3, DealInv, RefuseInv
  <2> QED BY <1>3, <2>1, <2>2, <2>3 DEF ServerStep
<1>4. ASSUME NEW l \in Loop, LoopStep(l) PROVE OwnershipInv'
  <2>1. CASE \E b \in batch[l] : HandleEvents(l, b[1], b[2]) BY <2>1, HandleEventsInv
  <2> QED BY <1>4, <2>1, PollInv, HandleConnInv, DoPendingInv, HandleExpiredInv DEF LoopStep
<1>5. ASSUME NEW c \in Conn, ClientStep(c) PROVE OwnershipInv'
  <2>1. CASE Connect(c) BY <2>1, ConnectInv
  <2>2. CASE Shutdown(c) BY <2>2, EdgeInv DEF Shutdown
  <2>3. CASE Abort(c) BY <2>3, EdgeInv DEF Abort
  <2>4. CASE Drain(c) BY <2>4, EdgeInv DEF Drain
  <2>5. CASE \E p \in Pieces : Send(c, p) BY <2>5, EdgeInv DEF Send
  <2> QED BY <1>5, <2>1, <2>2, <2>3, <2>4, <2>5 DEF ClientStep
<1> QED BY <1>1, <1>2, <1>3, <1>4, <1>5 DEF PNext

\* The invariant says what the property does.
LEMMA OwnershipSuffices == OwnershipInv => NoDanglingHandler
BY EpollServerConstants DEF OwnershipInv, MapInv, BatchInv, TimerInv, HandlerInv, NoDanglingHandler

\* Whatever the clients do and whichever calls fail, no map, event, timer or handler of the epoll
\* server refers to a destroyed HttpData, nor leads from a descriptor to a connection that does
\* not own it (Channel's callbacks, Epoll's fd2chan_ and fd2http_).
THEOREM HandlersAreOwned == PSpec => []NoDanglingHandler
<1>1. PInit => OwnershipInv BY InitInv
<1>2. OwnershipInv /\ [PNext]_vars => OwnershipInv' BY StepInv
<1>3. OwnershipInv => NoDanglingHandler BY OwnershipSuffices
<1> QED BY <1>1, <1>2, <1>3, PTL DEF PSpec

-----------------------------------------------------------------------------
(* Induction, and the parser                                               *)

\* A set that contains 0 and with every number the next one contains all of them: induction, in a
\* form that needs no operator as a parameter.
LEMMA NatSetInduction ==
    ASSUME NEW S, 0 \in S, \A n \in Nat : n \in S => n + 1 \in S
    PROVE  Nat \subseteq S
<1> DEFINE T == Nat \ S
           R == OpToRel(<, Nat)
<1> SUFFICES ASSUME T # {} PROVE FALSE OBVIOUS
<1>1. \A m, n \in Nat : m < n => <<m, n>> \in R BY DEF OpToRel
<1>2. IsWellFoundedOn(R, Nat) BY NatLessThanWellFounded
<1> HIDE DEF R
<1>3. PICK x \in T : \A y \in T : ~ (<<y, x>> \in R)
  <2> HIDE DEF T
  <2>1. T \subseteq Nat BY DEF T
  <2> QED BY <1>2, <2>1, WFMin
<1>4. x # 0 /\ x - 1 \in Nat OBVIOUS
<1>5. <<x - 1, x>> \in R
  <2>1. x \in Nat /\ x - 1 < x OBVIOUS
  <2> QED BY <1>1, <1>4, <2>1
<1>6. x - 1 \notin T
  <2> HIDE DEF T
  <2> QED BY <1>3, <1>5
<1> QED BY <1>4, <1>6

\* A set of naturals that is not empty has a least element.
LEMMA LeastElement == ASSUME NEW I \in SUBSET Nat, I # {} PROVE Least(I) \in I
<1> DEFINE R == OpToRel(<, Nat)
<1>1. \A m, n \in Nat : m < n => <<m, n>> \in R BY DEF OpToRel
<1>2. IsWellFoundedOn(R, Nat) BY NatLessThanWellFounded
<1> HIDE DEF R
<1>3. PICK x \in I : \A y \in I : ~ (<<y, x>> \in R) BY <1>2, WFMin
<1>4. ASSUME NEW y \in I PROVE x <= y
  <2>1. x \in Nat /\ y \in Nat OBVIOUS
  <2>2. ~ (y < x) BY <1>1, <1>3, <2>1
  <2> QED BY <2>1, <2>2
<1> QED BY <1>4 DEF Least

\* find returns npos or a position.
LEMMA FindFacts ==
    ASSUME NEW T, NEW s \in Seq(T), NEW S, NEW from \in Nat, Find(s, S, from) # 0
    PROVE  from # 0 /\ Find(s, S, from) \in 1..Len(s)
<1> DEFINE I == {i \in from..Len(s) : s[i] \in S}
<1>1. from # 0 /\ I # {} /\ Find(s, S, from) = Least(I) BY DEF Find
<1>2. I \in SUBSET Nat /\ I \subseteq from..Len(s) OBVIOUS
<1> HIDE DEF I
<1>3. Least(I) \in I BY <1>1, <1>2, LeastElement
<1>4. Find(s, S, from) \in from..Len(s) BY <1>1, <1>2, <1>3
<1>5. Len(s) \in Nat OBVIOUS
<1> QED BY <1>1, <1>4, <1>5

LEMMA FromSeq == ASSUME NEW T, NEW s \in Seq(T), NEW k \in Nat \ {0} PROVE From(s, k) \in Seq(T)
BY DEF From

-----------------------------------------------------------------------------
(* HttpData: the parser                                                    *)

\* The tokens that clients send.
Token == UNION {{p[i] : i \in 1..Len(p)} : p \in Pieces}

HStates == {"start", "key", "colon", "spaces", "value", "cr", "lf", "endcr", "endlf"}

\* The members of an HttpData.
Fields == DOMAIN New

Formed(d) ==
    /\ DOMAIN d = Fields
    /\ d.buf \in Seq(Token) /\ d.file \in Token \cup {"/a"} /\ d.hs \in HStates
    /\ d.out \in Seq(Nat \X Nat) /\ d.n \in Nat /\ d.page \in Nat /\ d.err \in BOOLEAN

\* What the parser leaves alone on its way to analysisRequest: an error stays, and a page means one.
Keeps(e, d) ==
    /\ Formed(e)
    /\ e.out = d.out /\ e.n = d.n /\ e.ev = d.ev /\ e.last = d.last /\ e.cstate = d.cstate
    /\ e.again = d.again
    /\ (d.err => e.err) /\ (e.page = d.page \/ e.err)

LEMMA PieceTokens == ASSUME NEW p \in Pieces PROVE p \in Seq(Token)
<1>1. p \in Seq(STRING) BY EpollServerConstants
<1>2. \A i \in 1..Len(p) : p[i] \in Token BY DEF Token
<1> QED BY <1>1, <1>2

LEMMA FieldNames ==
    {"buf", "out", "state", "hs", "headers", "method", "file", "keep", "err", "cstate",
     "ev", "last", "page", "n", "again", "dead"} = Fields
BY DEF Fields, New

LEMMA NewFormed == Formed(New)
BY DEF Formed, Fields, New, HStates

LEMMA KeepsRefl == ASSUME NEW d, Formed(d) PROVE Keeps(d, d)
BY DEF Keeps

LEMMA KeepsTrans == ASSUME NEW d, NEW e, NEW g, Keeps(e, d), Keeps(g, e) PROVE Keeps(g, d)
BY DEF Formed, Keeps

LEMMA ErrorKeeps == ASSUME NEW d, Formed(d), NEW code \in Nat PROVE Keeps(HandleError(d, code), d)
BY FieldNames DEF Formed, Keeps, HandleError

\* parseURI takes the request line out of the buffer and a target from it.
LEMMA URIKeeps == ASSUME NEW d, Formed(d) PROVE Keeps(URIStage(d), d)
<1> DEFINE cr      == Find(d.buf, {"cr"}, 1)
           line    == IF cr = 0 THEN d.buf ELSE SubSeq(d.buf, 1, cr - 1)
           method  == Find(line, {MethodIn(line)}, 1)
           target  == Find(line, Slashed, method)
           space   == Find(line, {"sp"}, target)
           version == Find(line, Slashed, space)
           rest    == IF cr = 0 THEN d.buf ELSE From(d.buf, cr + 1)
           Taken   == [d EXCEPT !.buf = rest, !.method = MethodIn(line), !.file = line[target], !.state = "headers"]
           Refused == HandleError([d EXCEPT !.buf = << >>], 400)
<1>1. (version # 0 /\ ParseURI(d) = Taken) \/ ParseURI(d) = Refused BY DEF ParseURI
<1>2. d.buf \in Seq(Token) /\ DOMAIN d = Fields BY DEF Formed
<1>3. cr # 0 => cr \in 1..Len(d.buf) BY <1>2, FindFacts
<1>4. line \in Seq(Token)
  <2> HIDE DEF cr
  <2> QED BY <1>2, <1>3
<1>5. rest \in Seq(Token)
  <2> HIDE DEF cr
  <2>1. cr # 0 => cr + 1 \in Nat \ {0} BY <1>2, <1>3
  <2> QED BY <1>2, <2>1, FromSeq
<1> HIDE DEF cr, line
<1>6. ASSUME NEW k \in Nat, NEW S PROVE Find(line, S, k) \in Nat
  BY <1>4, <1>6, FindFacts
<1>7. method \in Nat BY <1>6
<1>8. target \in Nat
  <2> HIDE DEF method
  <2> QED BY <1>6, <1>7
<1>9. space \in Nat
  <2> HIDE DEF target
  <2> QED BY <1>6, <1>8
<1>10. version # 0 => target \in 1..Len(line)
  <2>1. version # 0 => space # 0
    <3> HIDE DEF space
    <3> QED BY <1>4, <1>9, FindFacts
  <2>2. space # 0 => target # 0
    <3> HIDE DEF target
    <3> QED BY <1>4, <1>8, FindFacts
  <2>3. target # 0 => target \in 1..Len(line)
    <3> HIDE DEF method
    <3> QED BY <1>4, <1>7, FindFacts
  <2> QED BY <2>1, <2>2, <2>3
<1> HIDE DEF target, version, rest
<1>11. version # 0 => Keeps(Taken, d)
  <2> SUFFICES ASSUME version # 0 PROVE Keeps(Taken, d) OBVIOUS
  <2>1. line[target] \in Token BY <1>4, <1>10
  <2> QED BY <1>2, <1>5, <2>1, FieldNames DEF Formed, Keeps
<1>12. Keeps(Refused, d)
  <2>1. Keeps([d EXCEPT !.buf = << >>], d) BY FieldNames DEF Formed, Keeps
  <2>2. Formed([d EXCEPT !.buf = << >>]) BY <2>1 DEF Keeps
  <2> QED BY <2>1, <2>2, ErrorKeeps, KeepsTrans
<1> HIDE DEF Taken, Refused
<1>13. Keeps(ParseURI(d), d) BY <1>1, <1>11, <1>12
<1> QED BY <1>13, KeepsRefl DEF URIStage

-----------------------------------------------------------------------------

\* parseHeaders: where the loop is, and where the header line begins that it is in.
Scanning(h, s) ==
    /\ DOMAIN h = {"hs", "headers", "ks", "ke", "vs", "ve", "begin", "i", "fin", "bad"}
    /\ h.hs \in HStates /\ h.i \in Nat /\ h.begin \in Nat \ {0}

LEMMA AdvanceFacts ==
    ASSUME NEW h, NEW s, NEW i \in Nat \ {0}, Scanning(h, s)
    PROVE  Scanning(Advance(h, s, i), s)
<1>1. Scanning(Step(h, s, i), s)
  <2>1. CASE h.hs = "start"  BY <2>1 DEF Step, Scanning, HStates
  <2>2. CASE h.hs = "key"    BY <2>2 DEF Step, Scanning, HStates
  <2>3. CASE h.hs = "colon"  BY <2>3 DEF Step, Scanning, HStates
  <2>4. CASE h.hs = "spaces" BY <2>4 DEF Step, Scanning, HStates
  <2>5. CASE h.hs = "value"  BY <2>5 DEF Step, Scanning, HStates
  <2>6. CASE h.hs = "cr"     BY <2>6 DEF Step, Scanning, HStates
  <2>7. CASE h.hs = "lf"     BY <2>7 DEF Step, Scanning, HStates
  <2>8. CASE h.hs = "endcr"  BY <2>8 DEF Step, Scanning, HStates
  <2>9. CASE h.hs = "endlf"  BY <2>9 DEF Step, Scanning, HStates
  <2> QED BY <2>1, <2>2, <2>3, <2>4, <2>5, <2>6, <2>7, <2>8, <2>9 DEF Scanning, HStates
<1>2. Scanning([Step(h, s, i) EXCEPT !.i = i], s) BY <1>1 DEF Scanning
<1> QED BY <1>2 DEF Advance

\* The loop of parseHeaders round by round,
ScanLoop(g, a, s, n) == g = [i \in 0..n |-> IF i = 0 THEN a ELSE Advance(g[i - 1], s, i)]

\* which is well defined,
LEMMA ScanRounds == ASSUME NEW a, NEW s, NEW n \in Nat PROVE \E g : ScanLoop(g, a, s, n)
<1> DEFINE S == {m \in Nat : \E g : ScanLoop(g, a, s, m)}
<1>1. 0 \in S
  <2> DEFINE h == [i \in 0..0 |-> a]
  <2>1. ScanLoop(h, a, s, 0) BY DEF ScanLoop
  <2> QED BY <2>1
<1>2. ASSUME NEW m \in Nat, m \in S PROVE m + 1 \in S
  <2>1. PICK g : g = [i \in 0..m |-> IF i = 0 THEN a ELSE Advance(g[i - 1], s, i)] BY <1>2 DEF ScanLoop
  <2> DEFINE h == [i \in 0..(m + 1) |-> IF i = m + 1 THEN Advance(g[m], s, m + 1) ELSE g[i]]
  <2>2. \A i \in 0..(m + 1) : h[i] = IF i = 0 THEN a ELSE Advance(h[i - 1], s, i)
    <3> SUFFICES ASSUME NEW i \in 0..(m + 1) PROVE h[i] = IF i = 0 THEN a ELSE Advance(h[i - 1], s, i)
      OBVIOUS
    <3>1. CASE i = 0 BY <2>1, <3>1
    <3>2. CASE i = m + 1 BY <2>1, <3>2
    <3>3. CASE i # 0 /\ i # m + 1
      <4>1. i \in 0..m /\ i - 1 \in 0..m /\ i - 1 # m + 1 /\ i - 1 \in 0..(m + 1) BY <3>3
      <4>2. h[i] = g[i] /\ h[i - 1] = g[i - 1] BY <3>3, <4>1
      <4>3. g[i] = Advance(g[i - 1], s, i) BY <2>1, <3>3, <4>1
      <4> QED BY <3>3, <4>2, <4>3
    <3> QED BY <3>1, <3>2, <3>3
  <2>3. ScanLoop(h, a, s, m + 1) BY <2>2 DEF ScanLoop
  <2> QED BY <2>3
<1> HIDE DEF S
<1>3. n \in S BY <1>1, <1>2, NatSetInduction
<1> QED BY <1>3 DEF S

\* and keeps its positions in all of them.
LEMMA ScanFacts == ASSUME NEW d, Formed(d) PROVE Scanning(Scan(d), d.buf)
<1> DEFINE n == Len(d.buf)
           f == CHOOSE g : ScanLoop(g, ScanStart(d), d.buf, n)
           S == {i \in Nat : i <= n => Scanning(f[i], d.buf)}
<1>1. n \in Nat BY DEF Formed
<1>2. \E g : ScanLoop(g, ScanStart(d), d.buf, n) BY <1>1, ScanRounds
<1>3. ScanLoop(f, ScanStart(d), d.buf, n) BY <1>2
<1>4. Scan(d) = f[n] BY DEF Scan, ScanLoop
<1> HIDE DEF f, n
<1>5. Scanning(ScanStart(d), d.buf) BY DEF Scanning, ScanStart, Formed
<1>6. f[0] = ScanStart(d) BY <1>1, <1>3 DEF ScanLoop
<1>7. 0 \in S BY <1>5, <1>6
<1>8. ASSUME NEW i \in Nat, i \in S PROVE i + 1 \in S
  <2> SUFFICES ASSUME i + 1 <= n PROVE Scanning(f[i + 1], d.buf) OBVIOUS
  <2>1. f[i + 1] = Advance(f[i], d.buf, i + 1) BY <1>1, <1>3 DEF ScanLoop
  <2>2. Scanning(f[i], d.buf) BY <1>1, <1>8
  <2> QED BY <2>1, <2>2, AdvanceFacts
<1> HIDE DEF S
<1>9. n \in S BY <1>1, <1>7, <1>8, NatSetInduction
<1> QED BY <1>1, <1>4, <1>9 DEF S

LEMMA HeadersKeep == ASSUME NEW d, Formed(d) PROVE Keeps(HeaderStage(d), d)
<1> DEFINE h == Scan(d)
           e == [d EXCEPT !.hs = h.hs, !.headers = h.headers]
           Moved(s) == [e EXCEPT !.buf = From(@, h.i + 1), !.state = s]
           Cut == [e EXCEPT !.buf = From(@, h.begin)]
<1>1. h.hs \in HStates /\ h.i \in Nat /\ h.begin \in Nat \ {0} BY ScanFacts DEF Scanning
<1> HIDE DEF h
<1>2. Keeps(e, d) BY <1>1, FieldNames DEF Formed, Keeps
<1>3. \/ Scanned(d, h) = HandleError(e, 400)
      \/ \E s : Scanned(d, h) = Moved(s)
      \/ Scanned(d, h) = Cut
  BY DEF Scanned
<1> HIDE DEF e
<1>4. Formed(e) /\ e.buf \in Seq(Token) BY <1>2 DEF Keeps, Formed
<1>5. ASSUME NEW s PROVE Keeps(Moved(s), e)
  <2>1. From(e.buf, h.i + 1) \in Seq(Token) BY <1>1, <1>4, FromSeq
  <2> QED BY <1>4, <2>1, FieldNames DEF Formed, Keeps
<1>6. Keeps(Cut, e)
  <2>1. From(e.buf, h.begin) \in Seq(Token) BY <1>1, <1>4, FromSeq
  <2> QED BY <1>4, <2>1, FieldNames DEF Formed, Keeps
<1>7. Keeps(HandleError(e, 400), e) BY <1>4, ErrorKeeps
<1> HIDE DEF Moved, Cut
<1>8. Keeps(Scanned(d, h), e) BY <1>3, <1>5, <1>6, <1>7
<1>9. Keeps(ParseHeaders(d), d) BY <1>2, <1>8, KeepsTrans DEF ParseHeaders, h
<1> QED BY <1>9, KeepsRefl DEF HeaderStage

LEMMA BodyKeeps == ASSUME NEW d, Formed(d) PROVE Keeps(BodyStage(d), d)
<1>1. Keeps([d EXCEPT !.dead = TRUE], d) BY FieldNames DEF Formed, Keeps
<1>2. Keeps([d EXCEPT !.state = "analysis"], d) BY FieldNames DEF Formed, Keeps
<1>3. Keeps(HandleError(d, 400), d) BY ErrorKeeps
<1>4. ReceiveBody(d) \in {HandleError(d, 400), [d EXCEPT !.dead = TRUE], d, [d EXCEPT !.state = "analysis"]}
  BY DEF ReceiveBody
<1>5. Keeps(d, d) BY KeepsRefl
<1>6. Keeps(ReceiveBody(d), d) BY <1>1, <1>2, <1>3, <1>4, <1>5
<1> QED BY <1>5, <1>6 DEF BodyStage

LEMMA KeepsFormed == ASSUME NEW d, NEW e, Keeps(e, d) PROVE Formed(e)
BY DEF Keeps

\* analysisRequest adds a response, or puts one in the place of what is left, or fails.
Analysed(e, d) ==
    /\ Formed(e)
    /\ e.ev = d.ev /\ e.last = d.last /\ e.cstate = d.cstate /\ e.again = d.again
    /\ (d.err => e.err) /\ (e.page = d.page \/ e.err)
    /\ e.err \/ e.out = d.out \/ e.out # << >>

LEMMA ResponseSeq ==
    ASSUME NEW n \in Nat
    PROVE  Response(n) \in Seq(Nat \X Nat) /\ Len(Response(n)) = RespLen /\ RespLen > 0
BY HttpDataConstants DEF Response

LEMMA AnalysisFacts == ASSUME NEW d, Formed(d) PROVE Analysed(AnalysisStage(d), d)
<1> DEFINE R == Response(d.n + 1)
           e == [d EXCEPT !.keep = @ \/ d.headers["Connection"] = "keep-alive", !.n = @ + 1]
<1>0. Formed(e) /\ e.ev = d.ev /\ e.last = d.last /\ e.cstate = d.cstate /\ e.again = d.again
      /\ e.err = d.err /\ e.page = d.page /\ e.out = d.out /\ e.n = d.n + 1 /\ DOMAIN e = Fields
  BY FieldNames DEF Formed
<1>1. R \in Seq(Nat \X Nat) /\ Len(R) > 0 /\ R # << >> 
  <2>1. d.n + 1 \in Nat BY DEF Formed
  <2> HIDE DEF R
  <2>2. R \in Seq(Nat \X Nat) /\ Len(R) > 0 BY <2>1, ResponseSeq DEF R
  <2> QED BY <2>2
<1>2. AnalysisStage(d) \in
        {d, [d EXCEPT !.err = TRUE, !.n = @ + 1], HandleError(e, 404), HandleError([e EXCEPT !.out = << >>], 404),
         [e EXCEPT !.out = R, !.state = "finish"], [e EXCEPT !.out = @ \o R, !.state = "finish"]}
  <2> HIDE DEF e
  <2> QED BY <1>0 DEF AnalysisStage, AnalysisRequest, e
<1>3. Analysed(d, d) BY DEF Analysed
<1>4. Analysed([d EXCEPT !.err = TRUE, !.n = @ + 1], d) BY FieldNames DEF Analysed, Formed
<1> HIDE DEF e, R
<1>5. Analysed(HandleError(e, 404), d) BY <1>0, FieldNames DEF Analysed, Formed, HandleError
<1>6. Analysed(HandleError([e EXCEPT !.out = << >>], 404), d)
  BY <1>0, FieldNames DEF Analysed, Formed, HandleError
<1>7. Analysed([e EXCEPT !.out = R, !.state = "finish"], d)
  BY <1>0, <1>1, FieldNames DEF Analysed, Formed
<1>8. Analysed([e EXCEPT !.out = @ \o R, !.state = "finish"], d)
  <2>1. d.out \o R \in Seq(Nat \X Nat) /\ d.out \o R # << >> BY <1>1 DEF Formed
  <2> QED BY <1>0, <2>1, FieldNames DEF Analysed, Formed
<1> QED BY <1>2, <1>3, <1>4, <1>5, <1>6, <1>7, <1>8

\* What Parse does: the events and lastEvents_ stay, no error is taken back, a request leaves
\* output behind, and the end of the input is noticed.
Parsed(p, d, zero) ==
    /\ Formed(p)
    /\ p.ev = d.ev /\ p.last = d.last /\ ~ p.again
    /\ (d.err => p.err) /\ (p.page # 0 => p.err)
    /\ p.err \/ p.out # << >> \/ d.out = << >>
    /\ d.cstate # "connected" => p.cstate # "connected"
    /\ zero => p.err \/ p.cstate # "connected"

LEMMA ParseFacts ==
    ASSUME NEW d, Formed(d), NEW read \in Seq(Token), NEW zero \in BOOLEAN, NEW fails
    PROVE  Parsed(Parse(d, read, zero, fails), d, zero)
<1> DEFINE r == [d EXCEPT !.buf = @ \o read, !.page = 0, !.again = FALSE]
           z == IF zero THEN [r EXCEPT !.cstate = "disconnecting"] ELSE r
           x == [r EXCEPT !.buf = << >>]
           y == HandleError(r, 400)
           u == HeaderStage(URIStage(z))
           a == AnalysisStage(BodyStage(u))
<1>1. /\ Formed(r) /\ r.ev = d.ev /\ r.last = d.last /\ ~ r.again /\ r.err = d.err /\ r.page = 0
      /\ r.out = d.out /\ r.cstate = d.cstate /\ DOMAIN r = Fields
  BY FieldNames DEF Formed
<1>2. \/ d.cstate = "disconnecting" /\ Parse(d, read, zero, fails) = x
      \/ Parse(d, read, zero, fails) = y
      \/ Parse(d, read, zero, fails) \in {z, a}
  BY DEF Parse
<1> HIDE DEF r
<1>3. /\ Formed(x) /\ x.ev = r.ev /\ x.last = r.last /\ x.again = r.again /\ x.err = r.err /\ x.page = 0
      /\ x.out = r.out /\ x.cstate = r.cstate
  BY <1>1, FieldNames DEF Formed
<1>4. /\ Formed(y) /\ y.ev = r.ev /\ y.last = r.last /\ y.again = r.again /\ y.err /\ y.cstate = r.cstate
  BY <1>1, FieldNames DEF Formed, HandleError
<1>5. /\ Formed(z) /\ z.ev = r.ev /\ z.last = r.last /\ z.again = r.again /\ z.err = r.err /\ z.page = 0
      /\ z.out = r.out /\ z.cstate = IF zero THEN "disconnecting" ELSE r.cstate
  BY <1>1, FieldNames DEF Formed
<1> HIDE DEF z, x, y
<1>6. Keeps(u, z)
  <2>1. Keeps(URIStage(z), z) BY <1>5, URIKeeps
  <2>2. Formed(URIStage(z)) BY <1>5, <2>1, KeepsFormed
  <2>3. Keeps(u, URIStage(z)) BY <2>2, HeadersKeep
  <2> QED BY <1>5, <2>1, <2>3, KeepsTrans
<1>7. Keeps(BodyStage(u), z)
  <2> HIDE DEF u
  <2>1. Formed(u) BY <1>5, <1>6, KeepsFormed
  <2>2. Keeps(BodyStage(u), u) BY <2>1, BodyKeeps
  <2> QED BY <1>5, <1>6, <2>2, KeepsTrans
<1>8. Analysed(a, BodyStage(u))
  <2> HIDE DEF u
  <2>1. Formed(BodyStage(u)) BY <1>5, <1>7, KeepsFormed
  <2> QED BY <2>1, AnalysisFacts
<1> HIDE DEF u
<1> DEFINE v == BodyStage(u)
<1>9. Keeps(v, z) /\ Analysed(a, v) BY <1>7, <1>8
<1> HIDE DEF a, v
<1>10. Parsed(x, d, zero) \/ d.cstate # "disconnecting" BY <1>1, <1>3 DEF Parsed
<1>11. Parsed(y, d, zero) BY <1>1, <1>4 DEF Parsed
<1>12. Parsed(z, d, zero) BY <1>1, <1>5 DEF Parsed
<1>13. Parsed(a, d, zero) BY <1>1, <1>5, <1>9 DEF Parsed, Keeps, Analysed
<1> QED BY <1>2, <1>10, <1>11, <1>12, <1>13

LEMMA LeastOfTwo ==
    ASSUME NEW i \in Nat, NEW j \in Nat
    PROVE  Least({i, j}) = IF i <= j THEN i ELSE j
BY DEF Least

\* With room for so many pieces, handleWrite writes that many or all there are.
LEMMA WrittenFacts ==
    ASSUME NEW d, Formed(d), NEW room \in Nat, NEW fails \in BOOLEAN
    PROVE  /\ Written(d, room, fails) \in Nat
           /\ Written(d, room, fails) <= room /\ Written(d, room, fails) <= Len(d.out)
           /\ d.err \/ d.cstate = "disconnected" \/ fails => Written(d, room, fails) = 0
           /\ ~ d.err /\ d.cstate # "disconnected" /\ ~ fails =>
                 Written(d, room, fails) = room \/ Written(d, room, fails) = Len(d.out)
<1>1. d.out \in Seq(Nat \X Nat) /\ Len(d.out) \in Nat BY DEF Formed
<1>2. Least({room, Len(d.out)}) = IF room <= Len(d.out) THEN room ELSE Len(d.out) BY <1>1, LeastOfTwo
<1>3. CASE d.err \/ d.cstate = "disconnected" \/ fails
  <2>1. Written(d, room, fails) = 0 BY <1>3 DEF Written
  <2> QED BY <1>1, <1>3, <2>1
<1>4. CASE ~ (d.err \/ d.cstate = "disconnected" \/ fails)
  <2>1. Written(d, room, fails) = Least({room, Len(d.out)}) BY <1>4 DEF Written
  <2> QED BY <1>1, <1>2, <1>4, <2>1
<1> QED BY <1>3, <1>4

\* A connection in the hands of handleRead and handleWrite, with room in its socket.  If EPOLLOUT
\* is asked for, output is left and the socket is full; once the input has ended it is not as if
\* it had not (closed).
Sound(io, closed) ==
    /\ io.room \in 0..Cap /\ io.wrote \in Seq(Nat \X Nat)
    /\ Formed(io.d)
    /\ io.d.ev \subseteq {"in", "out"}
    /\ ~ io.d.err /\ "out" \in io.d.ev => io.d.out # << >> /\ io.room = 0
    /\ closed => io.d.err \/ io.d.cstate # "connected"

\* Pieces that go into the socket come from the front of outBuffer_.
LEMMA WriteSound ==
    ASSUME NEW d, NEW room \in 0..Cap, Formed(d), d.ev \subseteq {"in", "out"},
           ~ d.err /\ "out" \in d.ev => d.out # << >> /\ room = 0,
           NEW fails \in BOOLEAN
    PROVE  LET w == HandleWrite(d, room, fails)
           IN  /\ Formed(w) /\ w.ev \subseteq {"in", "out"}
               /\ ~ w.err /\ "out" \in w.ev => w.out # << >> /\ room - Written(d, room, fails) = 0
               /\ w.last = d.last /\ w.cstate = d.cstate /\ w.again = d.again /\ w.page = d.page
               /\ d.err => w.err
<1> DEFINE n == Written(d, room, fails)
           rest == From(d.out, n + 1)
           w == HandleWrite(d, room, fails)
<1>0. room \in Nat BY EpollServerConstants
<1>1. /\ n \in Nat /\ n <= room /\ n <= Len(d.out)
      /\ d.err \/ d.cstate = "disconnected" \/ fails => n = 0
      /\ ~ d.err /\ d.cstate # "disconnected" /\ ~ fails => n = room \/ n = Len(d.out)
  BY <1>0, WrittenFacts
<1>2. d.out \in Seq(Nat \X Nat) /\ Len(d.out) \in Nat BY DEF Formed
<1>3. CASE d.err \/ d.cstate = "disconnected"
  <2>1. w = d BY <1>3 DEF HandleWrite
  <2> QED BY <1>0, <1>1, <1>3, <2>1
<1>4. CASE ~ (d.err \/ d.cstate = "disconnected") /\ fails /\ d.out # << >>
  <2>1. w = [d EXCEPT !.ev = {"out"}, !.err = TRUE] BY <1>4 DEF HandleWrite
  <2> HIDE DEF w, n
  <2>2. /\ Formed(w) /\ w.ev = {"out"} /\ w.err = TRUE
        /\ w.last = d.last /\ w.cstate = d.cstate /\ w.again = d.again /\ w.page = d.page
    BY <2>1, FieldNames DEF Formed
  <2> QED BY <2>2 DEF n, w
<1>5. CASE ~ (d.err \/ d.cstate = "disconnected") /\ ~ (fails /\ d.out # << >>)
  <2>1. w = [d EXCEPT !.out = rest, !.ev = IF rest # << >> THEN @ \cup {"out"} ELSE @]
    BY <1>5 DEF HandleWrite
  <2> HIDE DEF n
  <2>2. rest \in Seq(Nat \X Nat) /\ (rest = << >> <=> n = Len(d.out))
    <3>1. rest = SubSeq(d.out, n + 1, Len(d.out)) BY DEF From
    <3> HIDE DEF rest
    <3>2. rest \in Seq(Nat \X Nat) BY <1>1, <1>2, <3>1
    <3>3. Len(rest) = Len(d.out) - n BY <1>1, <1>2, <3>1
    <3>4. rest = << >> <=> Len(rest) = 0 BY <3>2
    <3> QED BY <1>1, <1>2, <3>2, <3>3, <3>4
  <2> HIDE DEF rest, w
  <2>3. Len(d.out) = 0 <=> d.out = << >> BY <1>2
  <2>4. Formed(w) /\ w.out = rest /\ w.ev = IF rest # << >> THEN d.ev \cup {"out"} ELSE d.ev
    BY <2>1, <2>2, FieldNames DEF Formed
  <2>5. w.last = d.last /\ w.cstate = d.cstate /\ w.again = d.again /\ w.page = d.page /\ w.err = d.err
    BY <2>1, FieldNames DEF Formed
  <2>6. rest # << >> => n = room BY <1>1, <1>5, <2>2, <2>3
  <2>7. rest = << >> => "out" \notin d.ev
    <3> SUFFICES ASSUME rest = << >>, "out" \in d.ev PROVE FALSE OBVIOUS
    <3>1. d.out # << >> /\ room = 0 BY <1>5
    <3>2. n = Len(d.out) /\ Len(d.out) # 0 BY <2>2, <2>3, <3>1
    <3> QED BY <1>1, <1>2, <3>1, <3>2
  <2>8. "out" \in w.ev => w.out # << >> /\ room - n = 0 BY <1>0, <2>4, <2>6, <2>7
  <2> QED BY <1>5, <2>4, <2>5, <2>8 DEF n, w
<1> QED BY <1>3, <1>4, <1>5

\* A whole call of handleRead.
LEMMA RespondSound ==
    ASSUME NEW io, NEW p, NEW closed \in BOOLEAN, NEW fails \in BOOLEAN, Formed(p),
           io.room \in 0..Cap, io.wrote \in Seq(Nat \X Nat),
           p.ev \subseteq {"in", "out"}, p.page # 0 => p.err,
           ~ p.err /\ "out" \in p.ev => p.out # << >> /\ io.room = 0,
           closed => p.err \/ p.cstate # "connected"
    PROVE  Sound(Respond(io, p, fails), closed) /\ Respond(io, p, fails).d.last = p.last
<1> DEFINE n == Written(p, io.room, fails)
           page == IF p.page # 0 /\ io.room > 0 /\ ~ fails THEN << <<0, p.page>> >> ELSE << >>
           r == Respond(io, p, fails)
           w == IF p.out # << >> THEN HandleWrite(p, io.room, fails) ELSE p
           e == AfterRead(p, io.room, fails)
<1>0. io.room \in Nat /\ Cap \in Nat BY EpollServerConstants
<1>1. r.d = e /\ r.room = io.room - n - Len(page) BY DEF Respond
<1>2. /\ n \in Nat /\ n <= io.room /\ n <= Len(p.out) /\ (p.err => n = 0) BY <1>0, WrittenFacts
<1>9. r.wrote = io.wrote \o page \o SubSeq(p.out, 1, n) BY DEF Respond
<1>10. page \in Seq(Nat \X Nat)
  <2> DEFINE q == <<0, p.page>>
  <2>1. q \in Nat \X Nat BY DEF Formed
  <2> HIDE DEF q
  <2>2. << q >> \in Seq(Nat \X Nat) /\ << >> \in Seq(Nat \X Nat) BY <2>1
  <2> QED BY <2>2 DEF q
<1>3. Len(page) \in {0, 1} /\ (Len(page) = 1 => io.room > 0 /\ p.err) OBVIOUS
<1> HIDE DEF r, n, page
<1>11. r.wrote \in Seq(Nat \X Nat)
  <2>1. p.out \in Seq(Nat \X Nat) BY DEF Formed
  <2>2. SubSeq(p.out, 1, n) \in Seq(Nat \X Nat) BY <1>2, <2>1
  <2> QED BY <1>9, <1>10, <2>2
<1>4. r.room \in 0..Cap
  <2>1. CASE Len(page) = 0 BY <1>0, <1>1, <1>2, <2>1
  <2>2. CASE Len(page) = 1
    <3>1. n = 0 /\ io.room > 0 BY <1>2, <1>3, <2>2
    <3> QED BY <1>0, <1>1, <2>2, <3>1
  <2> QED BY <1>3, <2>1, <2>2
<1>5. CASE p.err
  <2>1. e = p BY <1>5 DEF AfterRead
  <2> QED BY <1>1, <1>4, <1>5, <1>11, <2>1 DEF Sound, r
<1>6. CASE ~ p.err
  <2>1. r.room = io.room - n BY <1>0, <1>1, <1>2, <1>3, <1>6
  <2>2. /\ Formed(w) /\ w.ev \subseteq {"in", "out"}
        /\ ~ w.err /\ "out" \in w.ev => w.out # << >> /\ io.room - n = 0
        /\ w.last = p.last /\ w.cstate = p.cstate
    <3>1. CASE p.out = << >> BY <1>6, <3>1
    <3>2. CASE p.out # << >> BY <1>6, <3>2, WriteSound DEF n
    <3> QED BY <3>1, <3>2
  <2>3. \/ w.err /\ e = w
        \/ e = Reset(w)
        \/ e = [w EXCEPT !.ev = IF w.cstate # "disconnected" THEN @ \cup {"in"} ELSE @]
    BY <1>6 DEF AfterRead
  <2> HIDE DEF e, w
  <2>4. /\ Formed(e) /\ e.ev \subseteq {"in", "out"} /\ e.out = w.out /\ e.err = w.err
        /\ "out" \in e.ev => "out" \in w.ev
        /\ e.last = w.last /\ e.cstate = w.cstate
    <3>1. CASE e = w BY <2>2, <3>1
    <3>2. CASE e = Reset(w) BY <2>2, <3>2, FieldNames DEF Formed, Reset, HStates
    <3>3. CASE e = [w EXCEPT !.ev = IF w.cstate # "disconnected" THEN @ \cup {"in"} ELSE @]
      BY <2>2, <3>3, FieldNames DEF Formed
    <3> QED BY <2>3, <3>1, <3>2, <3>3
  <2> QED BY <1>1, <1>4, <1>6, <1>11, <2>1, <2>2, <2>4 DEF Sound, r
<1> QED BY <1>5, <1>6

\* handleRead with what was read, and without.
LEMMA CallSound ==
    ASSUME NEW io, NEW closed \in BOOLEAN, Sound(io, closed), NEW read \in Seq(Token),
           NEW zero \in BOOLEAN, NEW fails \in BOOLEAN
    PROVE  Sound(Call(io, read, zero, fails), closed \/ zero) /\ Call(io, read, zero, fails).d.last = io.d.last
<1> DEFINE p == Parse(io.d, read, zero, fails)
<1>1. Parsed(p, io.d, zero) BY ParseFacts DEF Sound
<1> HIDE DEF p
<1>2. /\ io.room \in 0..Cap /\ io.wrote \in Seq(Nat \X Nat) /\ Formed(p) /\ p.ev \subseteq {"in", "out"} /\ (p.page # 0 => p.err)
      /\ ~ p.err /\ "out" \in p.ev => p.out # << >> /\ io.room = 0
      /\ closed \/ zero => p.err \/ p.cstate # "connected"
      /\ p.last = io.d.last
  BY <1>1 DEF Sound, Parsed
<1>3. (closed \/ zero) \in BOOLEAN OBVIOUS
<1>4. Sound(Respond(io, p, fails), closed \/ zero) /\ Respond(io, p, fails).d.last = p.last
  BY <1>2, <1>3, RespondSound
<1> QED BY <1>2, <1>4 DEF Call, p

LEMMA CallAgainSound ==
    ASSUME NEW io, NEW closed \in BOOLEAN, Sound(io, closed)
    PROVE  Sound(CallAgain(io), closed) /\ CallAgain(io).d.last = io.d.last
<1>1. << >> \in Seq(Token) /\ FALSE \in BOOLEAN /\ (closed \/ FALSE) = closed OBVIOUS
<1>2. Sound(Call(io, << >>, FALSE, FALSE), closed) /\ Call(io, << >>, FALSE, FALSE).d.last = io.d.last
  BY <1>1, CallSound
<1> QED BY <1>2 DEF CallAgain

\* handleRead, calling itself,
CallLoop(g, a, n) == g = [k \in 0..n |-> IF k = 0 THEN a ELSE CallAgain(g[k - 1])]

\* is well defined,
LEMMA CallRounds == ASSUME NEW a, NEW n \in Nat PROVE \E g : CallLoop(g, a, n)
<1> DEFINE S == {m \in Nat : \E g : CallLoop(g, a, m)}
<1>1. 0 \in S
  <2> DEFINE h == [k \in 0..0 |-> a]
  <2>1. CallLoop(h, a, 0) BY DEF CallLoop
  <2> QED BY <2>1
<1>2. ASSUME NEW m \in Nat, m \in S PROVE m + 1 \in S
  <2>1. PICK g : g = [k \in 0..m |-> IF k = 0 THEN a ELSE CallAgain(g[k - 1])] BY <1>2 DEF CallLoop
  <2> DEFINE h == [k \in 0..(m + 1) |-> IF k = m + 1 THEN CallAgain(g[m]) ELSE g[k]]
  <2>2. \A k \in 0..(m + 1) : h[k] = IF k = 0 THEN a ELSE CallAgain(h[k - 1])
    <3> SUFFICES ASSUME NEW k \in 0..(m + 1) PROVE h[k] = IF k = 0 THEN a ELSE CallAgain(h[k - 1])
      OBVIOUS
    <3>1. CASE k = 0 BY <2>1, <3>1
    <3>2. CASE k = m + 1 BY <2>1, <3>2
    <3>3. CASE k # 0 /\ k # m + 1
      <4>1. k \in 0..m /\ k - 1 \in 0..m /\ k - 1 # m + 1 /\ k - 1 \in 0..(m + 1) BY <3>3
      <4>2. h[k] = g[k] /\ h[k - 1] = g[k - 1] BY <3>3, <4>1
      <4>3. g[k] = CallAgain(g[k - 1]) BY <2>1, <3>3, <4>1
      <4> QED BY <3>3, <4>2, <4>3
    <3> QED BY <3>1, <3>2, <3>3
  <2>3. CallLoop(h, a, m + 1) BY <2>2 DEF CallLoop
  <2> QED BY <2>3
<1> HIDE DEF S
<1>3. n \in S BY <1>1, <1>2, NatSetInduction
<1> QED BY <1>3 DEF S

\* and ends after some number of calls.
LEMMA ReadAllCalls ==
    ASSUME NEW io, NEW s, Formed(io.d), s.in \in Seq(Token)
    PROVE  \E n \in Nat : \E g : CallLoop(g, Call(io, s.in, s.fin, s.rst), n) /\ ReadAll(io, s) = g[n]
<1> DEFINE b == io.d.buf \o s.in
           V == {i \in 1..Len(b) : b[i] \in Versions}
           n == Cardinality(V)
           a == Call(io, s.in, s.fin, s.rst)
           f == CHOOSE g : CallLoop(g, a, n)
<1>1. n \in Nat
  <2>1. b \in Seq(Token) BY DEF Formed
  <2> HIDE DEF b
  <2>2. Len(b) \in Nat BY <2>1
  <2>3. IsFiniteSet(1..Len(b)) BY <2>2, FS_Interval
  <2>4. V \in SUBSET (1..Len(b)) OBVIOUS
  <2> HIDE DEF V
  <2>5. IsFiniteSet(V) BY <2>3, <2>4, FS_Subset
  <2> QED BY <2>5, FS_CardinalityType
<1>2. ReadAll(io, s) = f[n] BY DEF ReadAll, CallLoop
<1> HIDE DEF n, a
<1>3. CallLoop(f, a, n) BY <1>1, CallRounds
<1> QED BY <1>1, <1>2, <1>3 DEF a

LEMMA ReadAllSound ==
    ASSUME NEW io, NEW closed \in BOOLEAN, Sound(io, closed), NEW s, s.in \in Seq(Token),
           s.fin \in BOOLEAN, s.rst \in BOOLEAN
    PROVE  Sound(ReadAll(io, s), closed \/ s.fin) /\ ReadAll(io, s).d.last = io.d.last
<1> DEFINE a == Call(io, s.in, s.fin, s.rst)
<1>1. Formed(io.d) BY DEF Sound
<1>2. PICK n \in Nat : \E g : CallLoop(g, a, n) /\ ReadAll(io, s) = g[n] BY <1>1, ReadAllCalls
<1>3. PICK f : CallLoop(f, a, n) /\ ReadAll(io, s) = f[n] BY <1>2
<1> DEFINE c == closed \/ s.fin
           Fine(x) == Sound(x, c) /\ x.d.last = io.d.last
           S == {k \in Nat : k <= n => Fine(f[k])}
<1>4. Fine(a) BY CallSound
<1> HIDE DEF a
<1>5. 0 \in S
  <2>1. f[0] = a BY <1>3 DEF CallLoop
  <2> QED BY <1>4, <2>1
<1>6. ASSUME NEW k \in Nat, k \in S PROVE k + 1 \in S
  <2> SUFFICES ASSUME k + 1 <= n PROVE Fine(f[k + 1]) OBVIOUS
  <2>1. f[k + 1] = CallAgain(f[k]) BY <1>3 DEF CallLoop
  <2>2. Fine(f[k]) BY <1>6
  <2> QED BY <2>1, <2>2, CallAgainSound
<1> HIDE DEF S, Fine
<1>7. n \in S BY <1>5, <1>6, NatSetInduction
<1> QED BY <1>3, <1>7 DEF S, Fine

LEMMA WriteAllSound ==
    ASSUME NEW io, NEW closed \in BOOLEAN, Sound(io, closed), NEW s, s.rst \in BOOLEAN
    PROVE  Sound(WriteAll(io, s), closed) /\ WriteAll(io, s).d.last = io.d.last
<1> DEFINE w == HandleWrite(io.d, io.room, s.rst)
           n == Written(io.d, io.room, s.rst)
<1>1. /\ WriteAll(io, s).d = w /\ WriteAll(io, s).room = io.room - n
      /\ WriteAll(io, s).wrote = io.wrote \o SubSeq(io.d.out, 1, n)
  BY DEF WriteAll
<1>2. /\ io.room \in 0..Cap /\ io.wrote \in Seq(Nat \X Nat) /\ Formed(io.d) /\ io.d.ev \subseteq {"in", "out"}
      /\ ~ io.d.err /\ "out" \in io.d.ev => io.d.out # << >> /\ io.room = 0
      /\ closed => io.d.err \/ io.d.cstate # "connected"
  BY DEF Sound
<1>3. /\ Formed(w) /\ w.ev \subseteq {"in", "out"}
      /\ ~ w.err /\ "out" \in w.ev => w.out # << >> /\ io.room - n = 0
      /\ w.last = io.d.last /\ w.cstate = io.d.cstate /\ (io.d.err => w.err)
  BY <1>2, WriteSound
<1>4. n \in Nat /\ n <= io.room /\ n <= Len(io.d.out)
  <2>1. io.room \in Nat BY <1>2, EpollServerConstants
  <2> QED BY <1>2, <2>1, WrittenFacts
<1> HIDE DEF w, n
<1>5. io.room - n \in 0..Cap BY <1>2, <1>4, EpollServerConstants
<1>6. io.wrote \o SubSeq(io.d.out, 1, n) \in Seq(Nat \X Nat)
  <2>1. io.d.out \in Seq(Nat \X Nat) BY <1>2 DEF Formed
  <2>2. SubSeq(io.d.out, 1, n) \in Seq(Nat \X Nat) BY <1>4, <2>1
  <2> QED BY <1>2, <2>2
<1> QED BY <1>1, <1>2, <1>3, <1>5, <1>6 DEF Sound

-----------------------------------------------------------------------------
(* The objects and their sockets                                           *)

SocketType == [in : Seq(Token), fin : BOOLEAN, rst : BOOLEAN, unread : 0..Cap, sent : Seq(Nat \X Nat)]

\* An HttpData is as it was made until newEvent.
ObjectInv ==
    /\ sock \in [Conn -> SocketType]
    /\ DOMAIN data = Conn /\ DOMAIN link = Conn /\ DOMAIN quiet = Conn
    /\ \A c \in Conn : Formed(data[c])
    /\ \A c \in Conn : life[c] \in {"idle", "backlog"} => data[c] = New
    /\ \A l \in Loop : \A i \in 1..Len(pending[l]) : data[pending[l][i]] = New

\* Between handleRead or handleWrite and handleConn EPOLLOUT means that output is left.
HandledInv ==
    \A l \in Loop :
        IF lpc[l] = "conn"
        THEN LET d == data[cur[l]]
             IN  d.ev \subseteq {"in", "out"} /\ (~ d.err /\ "out" \in d.ev => d.out # << >>)
        ELSE cur[l] = NoConn

DataInv == OwnershipInv /\ ObjectInv /\ HandledInv

LEMMA FreshSocket == Fresh \in SocketType
BY EpollServerConstants DEF Fresh, SocketType

LEMMA SocketAborted ==
    ASSUME NEW s \in SocketType, NEW i \in Seq(Token), NEW r \in BOOLEAN
    PROVE  [s EXCEPT !.rst = r, !.in = i] \in SocketType
BY DEF SocketType

LEMMA SocketDrained ==
    ASSUME NEW s \in SocketType, NEW u \in 0..Cap PROVE [s EXCEPT !.unread = u] \in SocketType
BY DEF SocketType

LEMMA SocketHandled ==
    ASSUME NEW s \in SocketType, NEW i \in Seq(Token), NEW u \in 0..Cap, NEW t \in Seq(Nat \X Nat)
    PROVE  [s EXCEPT !.in = i, !.unread = u, !.sent = t] \in SocketType
BY DEF SocketType

LEMMA SocketClosed ==
    ASSUME NEW s \in SocketType PROVE [Fresh EXCEPT !.sent = s.sent] \in SocketType
BY FreshSocket DEF SocketType

LEMMA InitData == PInit => ObjectInv /\ HandledInv
<1> SUFFICES ASSUME PInit PROVE ObjectInv /\ HandledInv OBVIOUS
<1> USE DEF PInit
<1>1. sock \in [Conn -> SocketType] BY FreshSocket
<1>2. \A c \in Conn : data[c] = New OBVIOUS
<1>3. \A l \in Loop : pending[l] = << >> /\ 1..Len(pending[l]) = {} OBVIOUS
<1>4. ObjectInv
  <2> HIDE DEF PInit
  <2>1. DOMAIN data = Conn /\ DOMAIN link = Conn /\ DOMAIN quiet = Conn BY DEF PInit
  <2> QED BY <1>1, <1>2, <1>3, <2>1, NewFormed DEF ObjectInv
<1>5. HandledInv BY DEF HandledInv
<1> QED BY <1>4, <1>5

\* The handlers of an event of connection c have run as far as handleConn.
Handled(l, c, rev, io) ==
    /\ Sound(io, "in" \in rev /\ sock[c].fin) /\ io.d.last = data[c].last
    /\ data' = [data EXCEPT ![c] = io.d]
    /\ sock' = [sock EXCEPT ![c].in = IF "in" \in rev THEN << >> ELSE @,
                            ![c].unread = Cap - io.room, ![c].sent = @ \o io.wrote]
    /\ lpc' = [lpc EXCEPT ![l] = "conn"] /\ cur' = [cur EXCEPT ![l] = c]

\* An event is an error, or its handlers run.
LEMMA HandleEventsFacts ==
    ASSUME DataInv, NEW l \in Loop, NEW b \in batch[l], HandleEvents(l, b[1], b[2])
    PROVE  \/ /\ "err" \in b[2]
              /\ data' = [data EXCEPT ![b[1]] = [data[b[1]] EXCEPT !.ev = {}]]
              /\ UNCHANGED <<sock, lpc, cur>>
           \/ "err" \notin b[2] /\ \E io : Handled(l, b[1], b[2], io)
<1> DEFINE c == b[1]
           rev == b[2]
           start == [d |-> [data[c] EXCEPT !.ev = {}], room |-> Cap - sock[c].unread, wrote |-> << >>]
           r == IF "in" \in rev THEN ReadAll(start, sock[c]) ELSE start
           w == IF "out" \in rev THEN WriteAll(r, sock[c]) ELSE r
           closed == "in" \in rev /\ sock[c].fin
<1>1. c \in Conn BY DEF DataInv, OwnershipInv, BatchInv
<1>2. CASE "err" \in rev BY <1>2 DEF HandleEvents
<1>3. CASE "err" \notin rev
  <2>1. /\ data' = [data EXCEPT ![c] = w.d]
        /\ sock' = [sock EXCEPT ![c].in = IF "in" \in rev THEN << >> ELSE @,
                                ![c].unread = Cap - w.room, ![c].sent = @ \o w.wrote]
        /\ lpc' = [lpc EXCEPT ![l] = "conn"] /\ cur' = [cur EXCEPT ![l] = c]
    BY <1>3 DEF HandleEvents
  <2>2. sock[c] \in SocketType /\ Formed(data[c]) BY <1>1 DEF DataInv, ObjectInv
  <2>3. /\ sock[c].in \in Seq(Token) /\ sock[c].fin \in BOOLEAN /\ sock[c].rst \in BOOLEAN
        /\ sock[c].unread \in 0..Cap
    BY <2>2 DEF SocketType
  <2>4. Sound(start, FALSE) /\ start.d.last = data[c].last
    <3>1. Cap - sock[c].unread \in 0..Cap BY <2>3, EpollServerConstants
    <3>2. Formed(start.d) /\ start.d.ev = {} /\ start.d.last = data[c].last
      BY <2>2, FieldNames DEF Formed
    <3> QED BY <3>1, <3>2 DEF Sound
  <2> HIDE DEF start
  <2>5. Sound(r, closed) /\ r.d.last = data[c].last
    <3>1. CASE "in" \in rev
      <4>1. Sound(ReadAll(start, sock[c]), FALSE \/ sock[c].fin) /\ ReadAll(start, sock[c]).d.last = start.d.last
        BY <2>3, <2>4, ReadAllSound
      <4>2. (FALSE \/ sock[c].fin) = closed BY <2>3, <3>1
      <4> QED BY <2>4, <3>1, <4>1, <4>2
    <3>2. CASE "in" \notin rev
      <4>1. closed = FALSE /\ r = start BY <3>2
      <4> QED BY <2>4, <4>1
    <3> QED BY <3>1, <3>2
  <2>6. closed \in BOOLEAN BY <2>3
  <2> HIDE DEF r, closed
  <2>7. Sound(w, closed) /\ w.d.last = data[c].last BY <2>3, <2>5, <2>6, WriteAllSound
  <2> HIDE DEF w
  <2>8. Handled(l, c, rev, w) BY <2>1, <2>7 DEF Handled, closed
  <2> QED BY <1>3, <2>8
<1> QED BY <1>2, <1>3

\* A client's step.
LEMMA ClientData ==
    ASSUME DataInv, NEW c \in Conn, Shutdown(c) \/ Abort(c) \/ Drain(c) \/ \E p \in Pieces : Send(c, p)
    PROVE  ObjectInv' /\ HandledInv'
<1>1. UNCHANGED <<data, link, quiet, life, pending, lpc, cur>>
  BY DEF Shutdown, Abort, Drain, Send, object, functor, thread, clock
<1>2. sock' \in [Conn -> SocketType]
  <2>1. sock \in [Conn -> SocketType] BY DEF DataInv, ObjectInv
  <2>2. CASE Shutdown(c) BY <2>1, <2>2 DEF Shutdown, SocketType
  <2>3. CASE Abort(c)
    <3> DEFINE x == [sock[c] EXCEPT !.rst = TRUE, !.in = << >>]
    <3>1. sock' = [sock EXCEPT ![c] = x] BY <2>3 DEF Abort
    <3>2. << >> \in Seq(Token) /\ TRUE \in BOOLEAN /\ sock[c] \in SocketType BY <2>1
    <3>3. x \in SocketType BY <3>2, SocketAborted
    <3> QED BY <2>1, <3>1, <3>3
  <2>4. CASE Drain(c)
    <3> DEFINE x == [sock[c] EXCEPT !.unread = 0]
    <3>1. sock' = [sock EXCEPT ![c] = x] BY <2>4 DEF Drain
    <3>2. 0 \in 0..Cap /\ sock[c] \in SocketType BY <2>1, EpollServerConstants
    <3>3. x \in SocketType BY <3>2, SocketDrained
    <3> QED BY <2>1, <3>1, <3>3
  <2>5. ASSUME NEW p \in Pieces, Send(c, p) PROVE sock' \in [Conn -> SocketType]
    <3>1. p \in Seq(Token) BY PieceTokens
    <3>2. sock' = [sock EXCEPT ![c].in = @ \o p] BY <2>5 DEF Send
    <3>3. sock[c].in \o p \in Seq(Token) BY <2>1, <3>1 DEF SocketType
    <3> QED BY <2>1, <3>2, <3>3 DEF SocketType
  <2> QED BY <2>2, <2>3, <2>4, <2>5
<1> QED BY <1>1, <1>2 DEF DataInv, ObjectInv, HandledInv

LEMMA ConnectData == ASSUME DataInv, NEW c \in Conn, Connect(c) PROVE ObjectInv' /\ HandledInv'
<1>1. UNCHANGED <<sock, data, link, quiet, pending, lpc, cur>> BY DEF Connect, object, functor, thread, clock
<1>2. life[c] = "idle" /\ \A d \in Conn \ {c} : life'[d] = life[d]
  BY DEF Connect, DataInv, OwnershipInv, Domains
<1> QED BY <1>1, <1>2 DEF DataInv, ObjectInv, HandledInv

LEMMA DealData == ASSUME DataInv, NEW c \in Conn, Deal(c) PROVE ObjectInv' /\ HandledInv'
<1>1. UNCHANGED <<sock, data, link, quiet, lpc, cur>> BY DEF Deal, Accepted, thread, clock
<1>2. life[c] = "backlog" /\ life' = [life EXCEPT ![c] = "alive"] BY AcceptedFacts DEF Deal, DataInv
<1>3. \A d \in Conn : life'[d] \in {"idle", "backlog"} => life[d] \in {"idle", "backlog"}
  BY <1>2 DEF DataInv, OwnershipInv, Domains
<1>4. data[c] = New BY <1>2 DEF DataInv, ObjectInv
<1>5. ASSUME NEW l \in Loop, NEW i \in 1..Len(pending'[l]) PROVE data[pending'[l][i]] = New
  <2>1. pending[l] \in Seq(Conn) BY DEF DataInv, OwnershipInv, PendingInv
  <2>2. pending'[l] = pending[l] \/ pending'[l] = Append(pending[l], c)
    BY DEF Deal, DataInv, OwnershipInv, Domains
  <2>3. pending'[l][i] = c \/ (i \in 1..Len(pending[l]) /\ pending'[l][i] = pending[l][i])
    BY <1>5, <2>1, <2>2
  <2> QED BY <1>4, <2>3 DEF DataInv, ObjectInv
<1> QED BY <1>1, <1>3, <1>5 DEF DataInv, ObjectInv, HandledInv

LEMMA RefuseData == ASSUME DataInv, NEW c \in Conn, Refuse(c) \/ NonBlockFails(c) PROVE ObjectInv' /\ HandledInv'
<1>1. UNCHANGED <<sock, data, link, quiet, pending, lpc, cur>>
  BY DEF Refuse, NonBlockFails, Accepted, thread, clock, functor
<1>2. \E w \in {"closed", "leaked"} : life' = [life EXCEPT ![c] = w] BY DEF Refuse, NonBlockFails
<1>3. \A d \in Conn : life'[d] \in {"idle", "backlog"} => life[d] \in {"idle", "backlog"}
  BY <1>2 DEF DataInv, OwnershipInv, Domains
<1> QED BY <1>1, <1>3 DEF DataInv, ObjectInv, HandledInv

LEMMA PollData == ASSUME DataInv, NEW l \in Loop, Poll(l) PROVE ObjectInv' /\ HandledInv'
<1>1. UNCHANGED <<sock, data, link, quiet, life, pending, cur>> BY DEF Poll, object, clock
<1>2. lpc[l] = "poll" /\ lpc'[l] \in {"handle", "poll"} /\ \A k \in Loop \ {l} : lpc'[k] = lpc[k]
  BY DEF Poll, DataInv, OwnershipInv, Domains
<1>3. ObjectInv' BY <1>1 DEF DataInv, ObjectInv
<1>4. HandledInv' BY <1>1, <1>2 DEF DataInv, HandledInv
<1> QED BY <1>3, <1>4

LEMMA HandleEventsData ==
    ASSUME DataInv, NEW l \in Loop, NEW b \in batch[l], HandleEvents(l, b[1], b[2])
    PROVE  ObjectInv' /\ HandledInv'
<1> DEFINE c == b[1]
<1>1. /\ UNCHANGED <<life, pending, link, quiet>> /\ lpc[l] = "handle"
  BY DEF HandleEvents, functor, clock
<1>2. c \in Conn /\ Alive(l, c) BY DEF DataInv, OwnershipInv, BatchInv
<1>3. \A k \in Loop : \A i \in 1..Len(pending[k]) : pending[k][i] # c /\ pending[k][i] \in Conn
  BY <1>2 DEF DataInv, OwnershipInv, PendingInv, Alive
<1>4. \A k \in Loop \ {l} : lpc[k] = "conn" => cur[k] # c /\ cur[k] \in Conn
  BY <1>2 DEF DataInv, OwnershipInv, HandlerInv, Alive
<1>5. ASSUME NEW e, Formed(e), data' = [data EXCEPT ![c] = e], sock' \in [Conn -> SocketType]
      PROVE  ObjectInv'
  BY <1>1, <1>2, <1>3, <1>5 DEF DataInv, ObjectInv, Alive
<1>6. CASE data' = [data EXCEPT ![c] = [data[c] EXCEPT !.ev = {}]] /\ UNCHANGED <<sock, lpc, cur>>
  <2>1. Formed([data[c] EXCEPT !.ev = {}]) BY <1>2, FieldNames DEF DataInv, ObjectInv, Formed
  <2>2. ObjectInv' BY <1>5, <1>6, <2>1 DEF DataInv, ObjectInv
  <2>3. \A k \in Loop \ {l} : lpc[k] = "conn" => data'[cur[k]] = data[cur[k]]
    BY <1>4, <1>6 DEF DataInv, ObjectInv
  <2>4. HandledInv' BY <1>1, <1>6, <2>3 DEF DataInv, HandledInv
  <2> QED BY <2>2, <2>4
<1>7. ASSUME NEW io, Handled(l, c, b[2], io) PROVE ObjectInv' /\ HandledInv'
  <2>1. /\ Formed(io.d) /\ io.room \in 0..Cap /\ io.wrote \in Seq(Nat \X Nat)
        /\ io.d.ev \subseteq {"in", "out"} /\ (~ io.d.err /\ "out" \in io.d.ev => io.d.out # << >>)
    BY <1>7 DEF Handled, Sound
  <2>2. sock' \in [Conn -> SocketType]
    <3>1. sock \in [Conn -> SocketType] BY DEF DataInv, ObjectInv
    <3>2. Cap - io.room \in 0..Cap BY <2>1, EpollServerConstants
    <3>3. sock[c].sent \o io.wrote \in Seq(Nat \X Nat) BY <1>2, <2>1, <3>1 DEF SocketType
    <3> DEFINE x == [sock[c] EXCEPT !.in = IF "in" \in b[2] THEN << >> ELSE @,
                                    !.unread = Cap - io.room, !.sent = @ \o io.wrote]
    <3>4. sock' = [sock EXCEPT ![c] = x] BY <1>7 DEF Handled
    <3>5. x \in SocketType
      <4> DEFINE i == IF "in" \in b[2] THEN << >> ELSE sock[c].in
                 u == Cap - io.room
                 t == sock[c].sent \o io.wrote
      <4>1. i \in Seq(Token) /\ u \in 0..Cap /\ t \in Seq(Nat \X Nat) /\ sock[c] \in SocketType
        BY <1>2, <3>1, <3>2, <3>3 DEF SocketType
      <4>2. x = [sock[c] EXCEPT !.in = i, !.unread = u, !.sent = t] OBVIOUS
      <4> HIDE DEF i, u, t, x
      <4> QED BY <4>1, <4>2, SocketHandled
    <3> QED BY <3>1, <3>4, <3>5
  <2>3. data' = [data EXCEPT ![c] = io.d] BY <1>7 DEF Handled
  <2>4. ObjectInv' BY <1>5, <2>1, <2>2, <2>3
  <2>5. /\ lpc'[l] = "conn" /\ cur'[l] = c
        /\ \A k \in Loop \ {l} : lpc'[k] = lpc[k] /\ cur'[k] = cur[k]
    BY <1>7 DEF Handled, DataInv, OwnershipInv, Domains
  <2>6. data'[c] = io.d /\ \A d \in Conn \ {c} : data'[d] = data[d] BY <1>2, <2>3 DEF DataInv, ObjectInv
  <2>7. \A k \in Loop \ {l} : lpc[k] = "conn" => data'[cur[k]] = data[cur[k]] BY <1>4, <2>6
  <2>8. HandledInv'
    <3> HIDE DEF c
    <3> SUFFICES ASSUME NEW k \in Loop
                 PROVE  IF lpc'[k] = "conn"
                        THEN LET d == data'[cur'[k]]
                             IN  d.ev \subseteq {"in", "out"} /\ (~ d.err /\ "out" \in d.ev => d.out # << >>)
                        ELSE cur'[k] = NoConn
      BY DEF HandledInv
    <3>1. CASE k = l BY <2>1, <2>5, <2>6, <3>1
    <3>2. CASE k # l BY <2>5, <2>7, <3>2 DEF DataInv, HandledInv
    <3> QED BY <3>1, <3>2
  <2> QED BY <2>4, <2>8
<1> QED BY <1>6, <1>7, HandleEventsFacts

\* What handleClose leaves behind: those that are destroyed (Dead) are as new.
Closed(l, K, N, Dead) ==
    /\ Dead = {c \in K : \A n \in N : n.conn # c}
    /\ data' = [c \in Conn |-> IF c \in Dead THEN New
                               ELSE IF c \in K THEN [data[c] EXCEPT !.cstate = "disconnected"] ELSE data[c]]
    /\ sock' = [c \in Conn |-> IF c \in Dead THEN [Fresh EXCEPT !.sent = sock[c].sent] ELSE sock[c]]
    /\ life' = [c \in Conn |-> IF c \in Dead THEN "closed" ELSE life[c]]
    /\ loop' = [c \in Conn |-> IF c \in Dead THEN 0 ELSE loop[c]]
    /\ fd' = [c \in Conn |-> IF c \in Dead THEN 0 ELSE fd[c]]
    /\ quiet' = [c \in Conn |-> IF c \in Dead THEN 0 ELSE quiet[c]]
    /\ link' = [c \in Conn |-> IF c \in K THEN None ELSE link[c]]
    /\ timers' = [timers EXCEPT ![l] = N]
    /\ mask' = [c \in Conn |-> IF c \in K THEN {} ELSE mask[c]]
    /\ ready' = [c \in Conn |-> ready[c] /\ c \notin K]
    /\ chan' = Forget(chan, l, {fd[c] : c \in K})

LEMMA CloseFacts ==
    ASSUME NEW l, NEW K, NEW N, Close(l, K, N)
    PROVE  \E Dead \in SUBSET K : Closed(l, K, N, Dead)
<1> DEFINE Dead == {c \in K : \A n \in N : n.conn # c}
<1>1. Closed(l, K, N, Dead) BY DEF Close, Closed
<1>2. Dead \in SUBSET K OBVIOUS
<1> QED BY <1>1, <1>2

LEMMA CloseData == ASSUME DataInv, NEW l \in Loop, NEW K, NEW N, Closing(l, K, N) PROVE ObjectInv'
<1>0. /\ K \subseteq Conn /\ (\A c \in K : Alive(l, c)) /\ UNCHANGED pending /\ Close(l, K, N)
      /\ \A c \in K : \A i \in 1..Len(pending[l]) : pending[l][i] # c
  BY DEF Closing
<1>1. PICK Dead \in SUBSET K : Closed(l, K, N, Dead) BY <1>0, CloseFacts
<1>2. sock' \in [Conn -> SocketType]
  <2>1. \A c \in Conn : sock[c] \in SocketType BY DEF DataInv, ObjectInv
  <2>2. \A c \in Conn : [Fresh EXCEPT !.sent = sock[c].sent] \in SocketType BY <2>1, SocketClosed
  <2> QED BY <1>1, <2>1, <2>2 DEF Closed
<1>3. \A c \in Conn : Formed(data'[c])
  <2>1. \A c \in Conn : Formed(data[c]) BY DEF DataInv, ObjectInv
  <2>2. \A c \in Conn : Formed([data[c] EXCEPT !.cstate = "disconnected"]) BY <2>1, FieldNames DEF Formed
  <2> QED BY <1>1, <2>1, <2>2, NewFormed DEF Closed
<1>4. \A c \in Conn : life'[c] \in {"idle", "backlog"} => data'[c] = New
  BY <1>0, <1>1 DEF DataInv, ObjectInv, Alive, Closed
<1>5. \A k \in Loop : \A i \in 1..Len(pending[k]) : data'[pending[k][i]] = New
  <2>1. \A k \in Loop : \A i \in 1..Len(pending[k]) : pending[k][i] \in Conn /\ pending[k][i] \notin K
    BY <1>0 DEF DataInv, OwnershipInv, PendingInv, Alive
  <2> QED BY <1>1, <2>1 DEF DataInv, ObjectInv, Closed
<1>6. DOMAIN data' = Conn /\ DOMAIN quiet' = Conn /\ DOMAIN link' = Conn BY <1>1 DEF Closed
<1> QED BY <1>0, <1>2, <1>3, <1>4, <1>5, <1>6 DEF ObjectInv

\* handleConn closes its connection, if it does, with no event and no functor left.
LEMMA FinishCloses == ASSUME OwnershipInv, NEW l \in Loop, HandleConn(l), Finish(l, cur[l])
                      PROVE  Closing(l, {cur[l]}, Others(l, cur[l]))
<1> DEFINE c == cur[l]
<1>1. /\ lpc[l] = "conn" /\ lpc' = [lpc EXCEPT ![l] = "handle"] /\ cur' = [cur EXCEPT ![l] = NoConn]
      /\ UNCHANGED <<next, backlog, pending, batch>>
  BY DEF HandleConn, accept, functor
<1>2. /\ c \in Conn /\ Alive(l, c)
      /\ \A b \in batch[l] : b[1] # c
      /\ \A i \in 1..Len(pending[l]) : pending[l][i] # c
  BY <1>1 DEF OwnershipInv, HandlerInv, PendingInv
<1>3. Others(l, c) \subseteq timers[l] BY DEF Others
<1>4. Close(l, {c}, Others(l, c)) BY DEF Finish
<1>5. DOMAIN cur' = Loop /\ \A k \in Loop \ {l} : cur'[k] = cur[k] BY <1>1 DEF OwnershipInv, Domains
<1> HIDE DEF c
<1>6. Closing(l, {c}, Others(l, c)) BY <1>1, <1>2, <1>3, <1>4, <1>5 DEF Closing
<1> QED BY <1>6 DEF c

\* handleExpired closes connections of its loop with no event and no functor left.
LEMMA ExpiryCloses ==
    ASSUME OwnershipInv, NEW l \in Loop, HandleExpired(l)
    PROVE  \E X \in SUBSET timers[l] : /\ X = {n \in timers[l] : ~ Valid(n)}
                                       /\ Closing(l, {n.conn : n \in X}, timers[l] \ X)
<1> DEFINE X == {n \in timers[l] : ~ Valid(n)}
           K == {n.conn : n \in X}
<1>1. /\ lpc[l] = "expire" /\ lpc' = [lpc EXCEPT ![l] = "poll"]
      /\ Close(l, K, timers[l] \ X)
      /\ UNCHANGED <<next, backlog, pending, cur, batch>>
  BY DEF HandleExpired, accept, functor
<1>2. K \subseteq Conn /\ \A c \in K : Alive(l, c) BY DEF OwnershipInv, TimerInv
<1>3. batch[l] = {} BY <1>1 DEF OwnershipInv, BatchInv
<1>4. \A c \in K : \A i \in 1..Len(pending[l]) : pending[l][i] # c BY DEF OwnershipInv, PendingInv
<1>5. DOMAIN cur' = Loop BY <1>1 DEF OwnershipInv, Domains
<1> HIDE DEF K
<1>6. Closing(l, K, timers[l] \ X) BY <1>1, <1>2, <1>3, <1>4, <1>5 DEF Closing
<1> QED BY <1>6 DEF K

LEMMA HandleConnData == ASSUME DataInv, NEW l \in Loop, HandleConn(l) PROVE ObjectInv' /\ HandledInv'
<1> DEFINE c == cur[l]
<1>1. /\ lpc[l] = "conn" /\ lpc' = [lpc EXCEPT ![l] = "handle"] /\ cur' = [cur EXCEPT ![l] = NoConn]
      /\ UNCHANGED pending
  BY DEF HandleConn, functor
<1>2. c \in Conn /\ Alive(l, c) BY <1>1 DEF DataInv, OwnershipInv, HandlerInv
<1>3. /\ lpc'[l] = "handle" /\ cur'[l] = NoConn
      /\ \A k \in Loop \ {l} : lpc'[k] = lpc[k] /\ cur'[k] = cur[k]
  BY <1>1 DEF DataInv, OwnershipInv, Domains
<1>4. \A k \in Loop \ {l} : lpc[k] = "conn" => cur[k] # c /\ cur[k] \in Conn
  BY <1>2 DEF DataInv, OwnershipInv, HandlerInv, Alive
<1>5. \A k \in Loop : \A i \in 1..Len(pending[k]) : pending[k][i] # c /\ pending[k][i] \in Conn
  BY <1>1, <1>2 DEF DataInv, OwnershipInv, HandlerInv, PendingInv, Alive
<1>6. ObjectInv' /\ \A d \in Conn \ {c} : data'[d] = data[d]
  <2>1. CASE Finish(l, c)
    <3>1. Closing(l, {c}, Others(l, c)) BY <2>1, FinishCloses DEF DataInv
    <3> HIDE DEF c
    <3>2. ObjectInv' BY <3>1, CloseData
    <3>3. Close(l, {c}, Others(l, c)) BY <3>1 DEF Closing
    <3>4. PICK Dead \in SUBSET {c} : Closed(l, {c}, Others(l, c), Dead) BY <3>3, CloseFacts
    <3> QED BY <3>2, <3>4 DEF Closed
  <2>2. CASE Resume(l, c) \/ Linger(l, c)
    <3>1. UNCHANGED <<sock, life>> BY <2>2 DEF Resume, Linger
    <3>2. /\ link' = link \/ \E n : link' = [link EXCEPT ![c] = n]
          /\ quiet' = quiet \/ \E t : quiet' = [quiet EXCEPT ![c] = t]
      BY <2>2 DEF Resume, Linger, AddTimer
    <3>3. PICK e : Formed(e) /\ data' = [data EXCEPT ![c] = e]
      <4>1. Formed(data[c]) BY <1>2 DEF DataInv, ObjectInv
      <4>2. \A v, w : Formed([data[c] EXCEPT !.ev = v, !.last = w]) BY <4>1, FieldNames DEF Formed
      <4>3. \A v : Formed([data[c] EXCEPT !.ev = v]) BY <4>1, FieldNames DEF Formed
      <4>4. CASE Resume(l, c) BY <4>2, <4>4 DEF Resume
      <4>5. CASE Linger(l, c) BY <4>3, <4>5 DEF Linger
      <4> QED BY <2>2, <4>4, <4>5
    <3> HIDE DEF c
    <3>4. ObjectInv' BY <1>1, <1>2, <1>5, <3>1, <3>2, <3>3 DEF DataInv, ObjectInv, Alive
    <3>5. \A d \in Conn \ {c} : data'[d] = data[d] BY <3>3 DEF DataInv, ObjectInv
    <3> QED BY <3>4, <3>5
  <2> QED BY <2>1, <2>2 DEF HandleConn
<1>7. \A k \in Loop \ {l} : lpc[k] = "conn" => data'[cur[k]] = data[cur[k]] BY <1>4, <1>6
<1>8. HandledInv' BY <1>3, <1>7 DEF DataInv, HandledInv
<1> QED BY <1>6, <1>8

\* The connections that wait for newEvent.
Waiting(l) == {pending[l][i] : i \in 1..Len(pending[l])}

\* What doPendingFunctors does for them; the kernel refuses some (bad).
Begun(l, P, bad) ==
    /\ bad \subseteq P /\ (bad = {} \/ "ctl" \in faults')
    /\ lpc[l] = "handle" /\ batch[l] = {}
    /\ \A k \in Loop : \A f \in Fd :
          \/ k = l /\ \E c \in P : fd[c] = f /\ chan'[l][f] = IF c \in bad THEN NoConn ELSE c
          \/ (k # l \/ \A c \in P : fd[c] # f) /\ chan'[k][f] = chan[k][f]
    /\ mask' = [c \in Conn |-> IF c \in P \ bad THEN DefaultEvent ELSE mask[c]]
    /\ ready' = [c \in Conn |-> IF c \in P \ bad THEN Level(sock[c], {"in"}) # {} ELSE ready[c]]
    /\ data' = [c \in Conn |-> IF c \in P THEN [data[c] EXCEPT !.ev = DefaultEvent, !.last = DefaultEvent]
                               ELSE data[c]]
    /\ timers' = [timers EXCEPT ![l] = @ \cup {Node(c, Expired) : c \in P}]
    /\ link' = [c \in Conn |-> IF c \in P THEN Node(c, Expired) ELSE link[c]]
    /\ quiet' = [c \in Conn |-> IF c \in P THEN now + Expired ELSE quiet[c]]
    /\ pending' = [pending EXCEPT ![l] = << >>]
    /\ lpc' = [lpc EXCEPT ![l] = "expire"]
    /\ UNCHANGED <<now, sock, life, fd, loop, cur, batch>>

LEMMA BegunFacts ==
    ASSUME OwnershipInv, NEW l \in Loop, DoPendingFunctors(l)
    PROVE  \E bad : Begun(l, Waiting(l), bad)
<1> DEFINE P == {pending[l][i] : i \in 1..Len(pending[l])}
           Put(m, K) == [m EXCEPT ![l] = [f \in Fd |-> IF \E c \in P : fd[c] = f
                                                        THEN LET c == CHOOSE c \in P : fd[c] = f
                                                             IN  IF c \in K THEN c ELSE NoConn
                                                        ELSE m[l][f]]]
<1>1. PICK bad \in {{}} \cup {{c} : c \in P} :
      /\ bad = {} \/ "ctl" \in faults'
      /\ chan' = Put(chan, P \ bad)
      /\ mask' = [c \in Conn |-> IF c \in P \ bad THEN DefaultEvent ELSE mask[c]]
      /\ ready' = [c \in Conn |-> IF c \in P \ bad THEN Level(sock[c], {"in"}) # {} ELSE ready[c]]
  BY DEF DoPendingFunctors, Fault
<1>2. bad \subseteq P OBVIOUS
<1>3. /\ lpc[l] = "handle" /\ batch[l] = {}
      /\ data' = [c \in Conn |-> IF c \in P THEN [data[c] EXCEPT !.ev = DefaultEvent, !.last = DefaultEvent]
                                 ELSE data[c]]
      /\ timers' = [timers EXCEPT ![l] = @ \cup {Node(c, Expired) : c \in P}]
      /\ link' = [c \in Conn |-> IF c \in P THEN Node(c, Expired) ELSE link[c]]
      /\ quiet' = [c \in Conn |-> IF c \in P THEN now + Expired ELSE quiet[c]]
      /\ pending' = [pending EXCEPT ![l] = << >>]
      /\ lpc' = [lpc EXCEPT ![l] = "expire"]
      /\ UNCHANGED <<now, sock, life, fd, loop, cur, batch>>
  BY DEF DoPendingFunctors
<1>4. P = Waiting(l) BY DEF Waiting
<1> HIDE DEF P
<1>5. ASSUME NEW k \in Loop, NEW f \in Fd
      PROVE  \/ k = l /\ \E c \in P : fd[c] = f /\ chan'[l][f] = IF c \in bad THEN NoConn ELSE c
             \/ (k # l \/ \A c \in P : fd[c] # f) /\ chan'[k][f] = chan[k][f]
  <2>1. CASE k # l BY <1>1, <2>1 DEF OwnershipInv, Domains
  <2>2. CASE k = l /\ \A c \in P : fd[c] # f BY <1>1, <2>2 DEF OwnershipInv, Domains
  <2>3. CASE k = l /\ \E c \in P : fd[c] = f
    <3> DEFINE c == CHOOSE c \in P : fd[c] = f
    <3>1. c \in P /\ fd[c] = f BY <2>3
    <3>2. chan'[l][f] = IF c \in P \ bad THEN c ELSE NoConn BY <1>1, <2>3 DEF OwnershipInv, Domains
    <3> HIDE DEF c
    <3> QED BY <2>3, <3>1, <3>2
  <2> QED BY <2>1, <2>2, <2>3
<1>6. Begun(l, P, bad) BY <1>1, <1>2, <1>3, <1>5 DEF Begun
<1> QED BY <1>4, <1>6

LEMMA DoPendingData == ASSUME DataInv, NEW l \in Loop, DoPendingFunctors(l) PROVE ObjectInv' /\ HandledInv'
<1> DEFINE P == Waiting(l)
<1>1. PICK bad : Begun(l, P, bad) BY BegunFacts DEF DataInv
<1>2. \A c \in P : c \in Conn /\ Alive(l, c) BY DEF DataInv, OwnershipInv, PendingInv, Waiting
<1>3. \A k \in Loop \ {l} : \A i \in 1..Len(pending[k]) : pending[k][i] \in Conn /\ pending[k][i] \notin P
  BY <1>2 DEF DataInv, OwnershipInv, PendingInv, Alive
<1> HIDE DEF P
<1>4. /\ pending'[l] = << >> /\ 1..Len(pending'[l]) = {} /\ lpc'[l] = "expire"
      /\ \A k \in Loop \ {l} : pending'[k] = pending[k] /\ lpc'[k] = lpc[k]
  <2>1. /\ pending'[l] = << >> /\ lpc'[l] = "expire"
        /\ \A k \in Loop \ {l} : pending'[k] = pending[k] /\ lpc'[k] = lpc[k]
    BY <1>1 DEF Begun, DataInv, OwnershipInv, Domains
  <2>2. 1..Len(pending'[l]) = {} BY <2>1
  <2> QED BY <2>1, <2>2
<1>5. \A c \in Conn \ P : data'[c] = data[c] BY <1>1 DEF Begun
<1>6. \A c \in Conn : Formed(data'[c])
  <2>1. \A c \in Conn : Formed(data[c]) BY DEF DataInv, ObjectInv
  <2>2. \A c \in Conn : Formed([data[c] EXCEPT !.ev = DefaultEvent, !.last = DefaultEvent])
    BY <2>1, FieldNames DEF Formed
  <2> QED BY <1>1, <2>1, <2>2 DEF Begun
<1>7. \A c \in Conn : life'[c] \in {"idle", "backlog"} => data'[c] = New
  BY <1>1, <1>2, <1>5 DEF Begun, DataInv, ObjectInv, Alive
<1>8. \A k \in Loop : \A i \in 1..Len(pending'[k]) : data'[pending'[k][i]] = New
  BY <1>3, <1>4, <1>5 DEF DataInv, ObjectInv
<1>9. ObjectInv' BY <1>1, <1>6, <1>7, <1>8 DEF Begun, DataInv, ObjectInv
<1>10. \A k \in Loop \ {l} : lpc[k] = "conn" => cur[k] \in Conn \ P
  BY <1>2 DEF DataInv, OwnershipInv, HandlerInv, Alive
<1>11. cur' = cur /\ lpc[l] = "handle" BY <1>1 DEF Begun
<1>12. HandledInv' BY <1>4, <1>5, <1>10, <1>11 DEF DataInv, HandledInv
<1> QED BY <1>9, <1>12

LEMMA HandleExpiredData == ASSUME DataInv, NEW l \in Loop, HandleExpired(l) PROVE ObjectInv' /\ HandledInv'
<1>1. PICK X \in SUBSET timers[l] : Closing(l, {n.conn : n \in X}, timers[l] \ X)
  BY ExpiryCloses DEF DataInv
<1> DEFINE K == {n.conn : n \in X}
<1>2. ObjectInv' BY <1>1, CloseData
<1> HIDE DEF K
<1>3. K \subseteq Conn /\ (\A c \in K : Alive(l, c)) /\ Close(l, K, timers[l] \ X) BY <1>1 DEF Closing, K
<1>4. PICK Dead \in SUBSET K : Closed(l, K, timers[l] \ X, Dead) BY <1>3, CloseFacts
<1>5. \A c \in Conn \ K : data'[c] = data[c] BY <1>4 DEF Closed
<1>6. /\ lpc[l] = "expire" /\ lpc' = [lpc EXCEPT ![l] = "poll"] /\ UNCHANGED cur BY DEF HandleExpired
<1>7. lpc'[l] = "poll" /\ \A k \in Loop \ {l} : lpc'[k] = lpc[k] BY <1>6 DEF DataInv, OwnershipInv, Domains
<1>8. \A k \in Loop \ {l} : lpc[k] = "conn" => cur[k] \in Conn \ K
  BY <1>3 DEF DataInv, OwnershipInv, HandlerInv, Alive
<1>9. HandledInv' BY <1>5, <1>6, <1>7, <1>8 DEF DataInv, HandledInv
<1> QED BY <1>2, <1>9

\* The steps that touch no connection.
LEMMA IdleData ==
    ASSUME DataInv, UNCHANGED <<sock, object, clock, pending, thread>>
    PROVE  ObjectInv' /\ HandledInv'
BY DEF DataInv, ObjectInv, HandledInv, object, clock, thread

\* Every step preserves the invariant of the connections' data.
LEMMA StepData == DataInv /\ [PNext]_vars => DataInv'
<1> SUFFICES ASSUME DataInv, [PNext]_vars PROVE ObjectInv' /\ HandledInv' BY StepInv DEF DataInv
<1>1. CASE UNCHANGED vars BY <1>1, IdleData DEF vars, functor
<1>2. CASE Tick BY <1>2, IdleData DEF Tick, functor
<1>3. CASE ServerStep
  <2>1. CASE AcceptEvent BY <2>1, IdleData DEF AcceptEvent, functor
  <2>2. CASE AcceptEnds BY <2>2, IdleData DEF AcceptEnds, functor
  <2>3. ASSUME NEW c \in Conn, Deal(c) \/ Refuse(c) \/ NonBlockFails(c) PROVE ObjectInv' /\ HandledInv'
    BY <2>3, DealData, RefuseData
  <2> QED BY <1>3, <2>1, <2>2, <2>3 DEF ServerStep
<1>4. ASSUME NEW l \in Loop, LoopStep(l) PROVE ObjectInv' /\ HandledInv'
  <2>1. CASE \E b \in batch[l] : HandleEvents(l, b[1], b[2]) BY <2>1, HandleEventsData
  <2> QED BY <1>4, <2>1, PollData, HandleConnData, DoPendingData, HandleExpiredData DEF LoopStep
<1>5. ASSUME NEW c \in Conn, ClientStep(c) PROVE ObjectInv' /\ HandledInv'
  BY <1>5, ConnectData, ClientData DEF ClientStep
<1> QED BY <1>1, <1>2, <1>3, <1>4, <1>5 DEF PNext

-----------------------------------------------------------------------------
(* Timers                                                                  *)

\* A node's time, by the clock that wraps around, is that of the timeout its connection was given.
Timely(n) ==
    \E t \in 0..now, w \in Nat : n.exp = (t % Period) + w /\ quiet[n.conn] = t + w

\* A node is the one its connection is linked to.
LinkInv ==
    /\ now \in Nat
    /\ \A c \in Conn : link[c].conn \in {c, NoConn}
    /\ \A l \in Loop : \A n \in timers[l] : n = link[n.conn] /\ Timely(n)

\* handleConn is done with the connection, and it does not wait for newEvent.
Settled(l, c) == Alive(l, c) /\ c # cur[l] /\ c \notin Waiting(l)

\* Its node is in the heap, unless it is stranded.
Watched(l, c) ==
    IF Stranded(c) THEN \A n \in timers[l] : n.conn # c
    ELSE link[c] \in timers[l] /\ link[c].conn = c

ClockInv == DataInv /\ LinkInv /\ \A l \in Loop : \A c \in Conn : Settled(l, c) => Watched(l, c)

LEMMA InitClock == PInit => LinkInv /\ \A l \in Loop : \A c \in Conn : Settled(l, c) => Watched(l, c)
BY DEF PInit, LinkInv, Settled, Alive, None

\* A step that leaves the timers alone, and settles no connection.
LEMMA ClockStays ==
    ASSUME ClockInv, UNCHANGED <<timers, link, quiet>>, now' \in Nat, now <= now',
           \A l \in Loop : \A c \in Conn : Settled(l, c)' => Settled(l, c) /\ Stranded(c)' = Stranded(c)
    PROVE  LinkInv' /\ \A l \in Loop : \A c \in Conn : Settled(l, c)' => Watched(l, c)'
<1>1. 0..now \subseteq 0..now' BY DEF ClockInv, LinkInv
<1>2. \A l \in Loop : \A n \in timers[l] : Timely(n)' BY <1>1 DEF ClockInv, LinkInv, Timely
<1>3. LinkInv' BY <1>2 DEF ClockInv, LinkInv
<1>4. ASSUME NEW l \in Loop, NEW c \in Conn, Settled(l, c)' PROVE Watched(l, c)'
  <2>1. Settled(l, c) /\ Stranded(c)' = Stranded(c) BY <1>4
  <2>2. Watched(l, c) BY <2>1 DEF ClockInv
  <2> QED BY <2>1, <2>2 DEF Watched
<1> QED BY <1>3, <1>4

\* The steps of clients, of the clock and of the accepting thread.
LEMMA OutsideClock ==
    ASSUME ClockInv, UNCHANGED <<timers, link, quiet, data, cur>>, now' \in Nat, now <= now',
           \A c \in Conn : \A l \in Loop : Settled(l, c)' => Settled(l, c)
    PROVE  LinkInv' /\ \A l \in Loop : \A c \in Conn : Settled(l, c)' => Watched(l, c)'
BY ClockStays DEF Stranded

LEMMA DealClock ==
    ASSUME ClockInv, NEW c \in Conn, Deal(c)
    PROVE  LinkInv' /\ \A l \in Loop : \A d \in Conn : Settled(l, d)' => Watched(l, d)'
<1>1. UNCHANGED <<timers, link, quiet, data, cur, now>> BY DEF Deal, Accepted, clock, thread
<1>2. /\ life' = [life EXCEPT ![c] = "alive"] /\ loop' = [loop EXCEPT ![c] = next]
      /\ pending' = [pending EXCEPT ![next] = Append(@, c)]
  BY DEF Deal
<1>3. next \in Loop /\ pending[next] \in Seq(Conn) BY DEF ClockInv, DataInv, OwnershipInv, PendingInv
<1>4. \A l \in Loop : l = next => c \in Waiting(l)'
  <2> DEFINE n == Len(pending[next]) + 1
  <2>1. pending'[next] = Append(pending[next], c) BY <1>2, <1>3 DEF ClockInv, DataInv, OwnershipInv, Domains
  <2>2. n \in 1..Len(pending'[next]) /\ pending'[next][n] = c BY <1>3, <2>1
  <2> HIDE DEF n
  <2> QED BY <2>2 DEF Waiting
<1>5. \A l \in Loop : Waiting(l) \subseteq Waiting(l)'
  <2> SUFFICES ASSUME NEW l \in Loop, NEW i \in 1..Len(pending[l])
               PROVE  i \in 1..Len(pending'[l]) /\ pending'[l][i] = pending[l][i]
    BY DEF Waiting
  <2>1. pending[l] \in Seq(Conn) BY DEF ClockInv, DataInv, OwnershipInv, PendingInv
  <2>2. pending'[l] = pending[l] \/ pending'[l] = Append(pending[l], c)
    BY <1>2 DEF ClockInv, DataInv, OwnershipInv, Domains
  <2> QED BY <2>1, <2>2
<1>6. \A d \in Conn : \A l \in Loop : Settled(l, d)' => Settled(l, d)
  <2>1. DOMAIN life = Conn /\ DOMAIN loop = Conn BY DEF ClockInv, DataInv, OwnershipInv, Domains
  <2> SUFFICES ASSUME NEW d \in Conn, NEW l \in Loop, Settled(l, d)' PROVE Settled(l, d) OBVIOUS
  <2>2. d # c BY <1>2, <1>4, <2>1 DEF Settled, Alive
  <2> QED BY <1>1, <1>2, <1>5, <2>1, <2>2 DEF Settled, Alive
<1>7. now' \in Nat /\ now <= now' BY <1>1 DEF ClockInv, LinkInv
<1> QED BY <1>1, <1>6, <1>7, OutsideClock

\* The others leave the connections where they are, or take one out of the backlog.
LEMMA RestClock ==
    ASSUME ClockInv, UNCHANGED <<clock, data, cur, loop, pending>>, now' \in Nat, now <= now',
           \A c \in Conn : life'[c] = "alive" => life[c] = "alive"
    PROVE  LinkInv' /\ \A l \in Loop : \A d \in Conn : Settled(l, d)' => Watched(l, d)'
<1>1. \A d \in Conn : \A l \in Loop : Settled(l, d)' => Settled(l, d)
  BY DEF Settled, Alive, Waiting
<1> QED BY <1>1, OutsideClock DEF clock

LEMMA HandleEventsClock ==
    ASSUME ClockInv, NEW l \in Loop, NEW b \in batch[l], HandleEvents(l, b[1], b[2])
    PROVE  LinkInv' /\ \A k \in Loop : \A d \in Conn : Settled(k, d)' => Watched(k, d)'
<1> DEFINE c == b[1]
<1>1. UNCHANGED <<timers, link, quiet, life, loop, pending, now>> /\ lpc[l] = "handle"
  BY DEF HandleEvents, clock, functor, sys
<1>2. now' \in Nat /\ now <= now' BY <1>1 DEF ClockInv, LinkInv
<1>3. DataInv BY DEF ClockInv
<1>4. c \in Conn /\ Alive(l, c) BY <1>3 DEF DataInv, OwnershipInv, BatchInv
<1>5. \A k \in Loop : Waiting(k)' = Waiting(k) BY <1>1 DEF Waiting
<1>6. cur[l] = NoConn BY <1>1, <1>3 DEF DataInv, HandledInv
<1>7. \/ UNCHANGED cur /\ data' = [data EXCEPT ![c] = [data[c] EXCEPT !.ev = {}]]
      \/ cur' = [cur EXCEPT ![l] = c] /\ \E e : data' = [data EXCEPT ![c] = e]
  <2>1. ASSUME NEW io, Handled(l, c, b[2], io)
        PROVE  cur' = [cur EXCEPT ![l] = c] /\ \E e : data' = [data EXCEPT ![c] = e]
    BY <2>1 DEF Handled
  <2> QED BY <1>3, <2>1, HandleEventsFacts
<1>8. ASSUME NEW k \in Loop, NEW d \in Conn, Settled(k, d)'
      PROVE  Settled(k, d) /\ Stranded(d)' = Stranded(d)
  <2>1. CASE UNCHANGED cur /\ data' = [data EXCEPT ![c] = [data[c] EXCEPT !.ev = {}]]
    <3>1. Settled(k, d) BY <1>1, <1>5, <1>8, <2>1 DEF Settled, Alive
    <3>2. data'[d].cstate = data[d].cstate /\ data'[d].out = data[d].out
      BY <1>3, <1>4, <2>1, FieldNames DEF DataInv, ObjectInv, Formed
    <3> QED BY <3>1, <3>2 DEF Stranded
  <2>2. CASE cur' = [cur EXCEPT ![l] = c] /\ \E e : data' = [data EXCEPT ![c] = e]
    <3>1. cur'[l] = c /\ \A j \in Loop \ {l} : cur'[j] = cur[j]
      BY <1>3, <2>2 DEF DataInv, OwnershipInv, Domains
    <3>2. d # c BY <1>1, <1>4, <1>8, <3>1 DEF Settled, Alive
    <3>3. data'[d] = data[d] BY <1>3, <2>2, <3>2 DEF DataInv, ObjectInv
    <3>4. Settled(k, d) BY <1>1, <1>5, <1>6, <1>8, <3>1, EpollServerConstants DEF Settled, Alive
    <3> QED BY <3>3, <3>4 DEF Stranded
  <2> QED BY <1>7, <2>1, <2>2
<1> QED BY <1>1, <1>2, <1>8, ClockStays

\* A step of loop l that replaces the nodes of its connections K and no others.
Touches(l, K) ==
    /\ K \subseteq Conn /\ now' = now
    /\ \A c \in K : Alive(l, c) /\ link'[c].conn \in {c, NoConn}
    /\ \A d \in Conn \ K : link'[d] = link[d] /\ quiet'[d] = quiet[d] /\ data'[d] = data[d]
    /\ \A k \in Loop \ {l} : timers'[k] = timers[k]
    /\ \A n \in timers[l] : n.conn \notin K => n \in timers'[l]
    /\ \A n \in timers'[l] : \/ n \in timers[l] /\ n.conn \notin K
                             \/ n.conn \in K /\ n = link'[n.conn] /\ Timely(n)'

LEMMA ClockTouches ==
    ASSUME ClockInv, NEW l \in Loop, NEW K, Touches(l, K),
           \A k \in Loop : \A d \in Conn \ K : Settled(k, d)' => Settled(k, d),
           \A k \in Loop : \A c \in K : Settled(k, c)' => Watched(k, c)'
    PROVE  LinkInv' /\ \A k \in Loop : \A d \in Conn : Settled(k, d)' => Watched(k, d)'
<1>1. \A k \in Loop : \A n \in timers[k] : /\ n.conn \in Conn /\ Alive(k, n.conn)
                                           /\ n = link[n.conn] /\ Timely(n)
  BY DEF ClockInv, DataInv, OwnershipInv, TimerInv, LinkInv
<1>2. \A k \in Loop : \A n \in timers[k] : n.conn \notin K => n = link'[n.conn] /\ Timely(n)'
  BY <1>1 DEF Touches, Timely
<1>3. \A k \in Loop : \A n \in timers'[k] : n = link'[n.conn] /\ Timely(n)'
  <2> SUFFICES ASSUME NEW k \in Loop, NEW n \in timers'[k] PROVE n = link'[n.conn] /\ Timely(n)' OBVIOUS
  <2>1. CASE k = l BY <1>2, <2>1 DEF Touches
  <2>2. CASE k # l
    <3>1. n \in timers[k] /\ n.conn \notin K BY <1>1, <2>2 DEF Touches, Alive
    <3> QED BY <1>2, <3>1
  <2> QED BY <2>1, <2>2
<1>4. LinkInv' BY <1>3 DEF ClockInv, LinkInv, Touches
<1>5. ASSUME NEW k \in Loop, NEW d \in Conn, Settled(k, d)' PROVE Watched(k, d)'
  <2>1. CASE d \in K BY <1>5, <2>1
  <2>2. CASE d \notin K
    <3>1. Settled(k, d) BY <1>5, <2>2
    <3>2. Watched(k, d) BY <3>1 DEF ClockInv
    <3>3. Stranded(d)' = Stranded(d) /\ link'[d] = link[d] BY <2>2 DEF Touches, Stranded
    <3>4. \A n : n.conn = d => (n \in timers'[k] <=> n \in timers[k])
      <4>1. CASE k = l BY <2>2, <4>1 DEF Touches
      <4>2. CASE k # l BY <4>2 DEF Touches
      <4> QED BY <4>1, <4>2
    <3> QED BY <3>2, <3>3, <3>4 DEF Watched
  <2> QED BY <2>1, <2>2
<1> QED BY <1>4, <1>5

\* A new node is timely.
LEMMA NodeTimely ==
    ASSUME NEW c, NEW w \in Nat, NEW n, n = Node(c, w), now \in Nat, now' = now, quiet'[c] = now + w
    PROVE  Timely(n)' /\ n.conn = c
<1>1. now \in 0..now' OBVIOUS
<1> QED BY <1>1 DEF Timely, Node

LEMMA WantedTimeout == ASSUME NEW d PROVE Wanted(d).timeout \in Nat
BY EpollServerConstants DEF Wanted

LEMMA OthersFacts ==
    ASSUME LinkInv, NEW l \in Loop, NEW c \in Conn, \A n \in timers[l] : n.conn \in Conn
    PROVE  \A n : n \in Others(l, c) <=> n \in timers[l] /\ n.conn # c
BY EpollServerConstants DEF LinkInv, Others

LEMMA HandleConnClock ==
    ASSUME ClockInv, NEW l \in Loop, HandleConn(l)
    PROVE  LinkInv' /\ \A k \in Loop : \A d \in Conn : Settled(k, d)' => Watched(k, d)'
<1>c. PICK c : c = cur[l] OBVIOUS
<1>0. DataInv /\ OwnershipInv /\ LinkInv BY DEF ClockInv, DataInv
<1>1. /\ lpc[l] = "conn" /\ lpc' = [lpc EXCEPT ![l] = "handle"] /\ cur' = [cur EXCEPT ![l] = NoConn]
      /\ UNCHANGED <<pending, now>>
  BY DEF HandleConn, functor
<1>2. c \in Conn /\ Alive(l, c) BY <1>0, <1>1, <1>c DEF OwnershipInv, HandlerInv
<1>3. cur'[l] = NoConn /\ \A k \in Loop \ {l} : cur'[k] = cur[k] BY <1>0, <1>1 DEF OwnershipInv, Domains
<1>4. \A k \in Loop : Waiting(k)' = Waiting(k) BY <1>1 DEF Waiting
<1>5. \A n : n \in Others(l, c) <=> n \in timers[l] /\ n.conn # c
  BY <1>0, <1>2, OthersFacts DEF OwnershipInv, TimerInv
<1>6. DOMAIN timers = Loop /\ DOMAIN data = Conn /\ DOMAIN link = Conn /\ DOMAIN quiet = Conn
  BY <1>0 DEF OwnershipInv, Domains, DataInv, ObjectInv
<1>7. ASSUME \A d \in Conn : life'[d] = "alive" => life[d] = "alive" /\ loop'[d] = loop[d]
      PROVE  \A k \in Loop : \A d \in Conn \ {c} : Settled(k, d)' => Settled(k, d)
  <2> SUFFICES ASSUME NEW k \in Loop, NEW d \in Conn \ {c}, Settled(k, d)' PROVE Settled(k, d) OBVIOUS
  <2>1. Alive(k, d) /\ d \notin Waiting(k) BY <1>4, <1>7 DEF Settled, Alive
  <2>2. d # cur[k] BY <1>3, <1>c DEF Settled
  <2> QED BY <2>1, <2>2 DEF Settled
<1>8. CASE Finish(l, c)
  <2>1. Close(l, {c}, Others(l, c)) BY <1>8 DEF Finish
  <2>2. PICK Dead \in SUBSET {c} : Closed(l, {c}, Others(l, c), Dead) BY <2>1, CloseFacts
  <2>3. Dead = {c} BY <1>5, <2>2 DEF Closed
  <2>4. Touches(l, {c}) BY <1>1, <1>2, <1>5, <1>6, <2>2, <2>3 DEF Touches, Closed, None
  <2>5. \A k \in Loop : ~ Settled(k, c)' BY <1>2, <2>2, <2>3 DEF Closed, Settled, Alive
  <2>6. \A d \in Conn : life'[d] = "alive" => life[d] = "alive" /\ loop'[d] = loop[d]
    BY <2>2, <2>3 DEF Closed
  <2> QED BY <1>7, <2>4, <2>5, <2>6, ClockTouches
<1>9. CASE Resume(l, c)
  <2> DEFINE w == Wanted(data[c]).timeout
  <2>1. UNCHANGED <<life, loop>> /\ data[c].cstate = "connected"
        /\ AddTimer(l, c, Others(l, c), w) /\ data' = [data EXCEPT ![c].ev = Wanted(data[c]).ev, ![c].last = Wanted(data[c]).ev]
    BY <1>9 DEF Resume
  <2>2. w \in Nat BY WantedTimeout
  <2> HIDE DEF w
  <2>3. /\ timers'[l] = Others(l, c) \cup {Node(c, w)} /\ \A k \in Loop \ {l} : timers'[k] = timers[k]
        /\ link'[c] = Node(c, w) /\ quiet'[c] = now + w
        /\ \A d \in Conn \ {c} : link'[d] = link[d] /\ quiet'[d] = quiet[d]
    BY <1>2, <1>6, <2>1 DEF AddTimer
  <2>4. \A n : n = Node(c, w) => Timely(n)' /\ n.conn = c BY <1>0, <1>1, <2>2, <2>3, NodeTimely DEF LinkInv
  <2>5. data'[c].cstate = data[c].cstate /\ \A d \in Conn \ {c} : data'[d] = data[d]
    BY <1>0, <1>2, <1>6, <2>1, FieldNames DEF DataInv, ObjectInv, Formed
  <2>6. Touches(l, {c}) BY <1>1, <1>2, <1>5, <2>3, <2>4, <2>5 DEF Touches
  <2>7. Watched(l, c)' BY <2>1, <2>3, <2>4, <2>5 DEF Watched, Stranded
  <2>8. \A k \in Loop : Settled(k, c)' => k = l BY <1>2, <2>1 DEF Settled, Alive
  <2> QED BY <1>7, <2>1, <2>6, <2>7, <2>8, ClockTouches
<1>10. CASE Linger(l, c)
  <2>1. UNCHANGED <<life, loop, quiet>> /\ data[c].cstate = "disconnecting" /\ ~ data[c].err /\ "out" \in data[c].ev
        /\ timers' = [timers EXCEPT ![l] = Others(l, c)] /\ link' = [link EXCEPT ![c] = None]
        /\ data' = [data EXCEPT ![c].ev = {"out"}]
    BY <1>10 DEF Linger
  <2>2. data[c].out # << >> BY <1>0, <1>1, <1>c, <2>1 DEF DataInv, HandledInv
  <2>3. /\ timers'[l] = Others(l, c) /\ \A k \in Loop \ {l} : timers'[k] = timers[k]
        /\ link'[c] = None /\ \A d \in Conn \ {c} : link'[d] = link[d]
    BY <1>2, <1>6, <2>1
  <2>4. data'[c].cstate = data[c].cstate /\ data'[c].out = data[c].out /\ \A d \in Conn \ {c} : data'[d] = data[d]
    BY <1>0, <1>2, <1>6, <2>1, FieldNames DEF DataInv, ObjectInv, Formed
  <2>5. Touches(l, {c}) BY <1>1, <1>2, <1>5, <2>1, <2>3, <2>4 DEF Touches, None
  <2>6. Watched(l, c)' BY <1>5, <2>1, <2>2, <2>3, <2>4 DEF Watched, Stranded
  <2>7. \A k \in Loop : Settled(k, c)' => k = l BY <1>2, <2>1 DEF Settled, Alive
  <2> QED BY <1>7, <2>1, <2>5, <2>6, <2>7, ClockTouches
<1> QED BY <1>8, <1>9, <1>10, <1>c DEF HandleConn

LEMMA DoPendingClock ==
    ASSUME ClockInv, NEW l \in Loop, DoPendingFunctors(l)
    PROVE  LinkInv' /\ \A k \in Loop : \A d \in Conn : Settled(k, d)' => Watched(k, d)'
<1> DEFINE P == Waiting(l)
<1>0. DataInv /\ OwnershipInv /\ LinkInv BY DEF ClockInv, DataInv
<1>1. PICK bad : Begun(l, P, bad) BY <1>0, BegunFacts
<1>2. /\ \A c \in P : c \in Conn /\ Alive(l, c) /\ data[c] = New
      /\ \A n \in timers[l] : n.conn \notin P
  BY <1>0 DEF DataInv, ObjectInv, OwnershipInv, PendingInv, Waiting
<1> HIDE DEF P
<1>3. \A k \in Loop \ {l} : Waiting(k)' = Waiting(k)
  <2>1. \A k \in Loop \ {l} : pending'[k] = pending[k] BY <1>0, <1>1 DEF Begun, OwnershipInv, Domains
  <2> QED BY <2>1 DEF Waiting
<1>4. UNCHANGED <<now, life, loop, cur>> BY <1>1 DEF Begun
<1>5. /\ timers'[l] = timers[l] \cup {Node(c, Expired) : c \in P}
      /\ \A k \in Loop \ {l} : timers'[k] = timers[k]
  BY <1>0, <1>1 DEF Begun, OwnershipInv, Domains
<1>6. /\ \A c \in P : link'[c] = Node(c, Expired) /\ quiet'[c] = now + Expired
                      /\ data'[c] = [data[c] EXCEPT !.ev = DefaultEvent, !.last = DefaultEvent]
      /\ \A d \in Conn \ P : link'[d] = link[d] /\ quiet'[d] = quiet[d] /\ data'[d] = data[d]
  BY <1>1, <1>2 DEF Begun
<1>7. \A c \in P : \A n : n = Node(c, Expired) => Timely(n)' /\ n.conn = c
  <2>1. Expired \in Nat /\ now \in Nat BY <1>0, EpollServerConstants DEF LinkInv
  <2> QED BY <1>4, <1>6, <2>1, NodeTimely
<1>8. Touches(l, P)
  <2>1. \A c \in P : link'[c].conn \in {c, NoConn} BY <1>6, <1>7
  <2>2. \A n \in timers'[l] :
           (n \in timers[l] /\ n.conn \notin P) \/ (n.conn \in P /\ n = link'[n.conn] /\ Timely(n)')
    <3>1. ASSUME NEW n \in timers'[l], n \notin timers[l]
          PROVE  n.conn \in P /\ n = link'[n.conn] /\ Timely(n)'
      <4>1. PICK c \in P : n = Node(c, Expired) BY <1>5, <3>1
      <4>2. Timely(n)' /\ n.conn = c BY <1>7, <4>1, Zenon
      <4>3. link'[c] = n BY <1>6, <4>1
      <4> QED BY <4>2, <4>3
    <3> QED BY <1>2, <3>1, Zenon
  <2> QED BY <1>2, <1>4, <1>5, <1>6, <2>1, <2>2 DEF Touches
<1>9. \A k \in Loop : \A d \in Conn \ P : Settled(k, d)' => Settled(k, d)
  <2> SUFFICES ASSUME NEW k \in Loop, NEW d \in Conn \ P, Settled(k, d)' PROVE Settled(k, d) OBVIOUS
  <2>1. Alive(k, d) /\ d # cur[k] BY <1>4 DEF Settled, Alive
  <2>2. k # l => d \notin Waiting(k) BY <1>3 DEF Settled
  <2> QED BY <2>1, <2>2 DEF Settled, P
<1>10. ASSUME NEW k \in Loop, NEW c \in P, Settled(k, c)' PROVE Watched(k, c)'
  <2>1. k = l BY <1>2, <1>4, <1>10 DEF Settled, Alive
  <2>2. data'[c].cstate = "connected"
    <3>1. data'[c] = [New EXCEPT !.ev = DefaultEvent, !.last = DefaultEvent] BY <1>2, <1>6
    <3> QED BY <3>1 DEF New
  <2>3. ~ Stranded(c)' BY <2>2 DEF Stranded
  <2>4. link'[c] \in timers'[l] /\ link'[c].conn = c BY <1>5, <1>6, <1>7
  <2> QED BY <2>1, <2>3, <2>4 DEF Watched
<1> QED BY <1>8, <1>9, <1>10, ClockTouches

\* handleExpired destroys the connections whose time is over: no other node refers to them.
LEMMA ExpiryDestroys ==
    ASSUME ClockInv, NEW l \in Loop, HandleExpired(l)
    PROVE  \E X \in SUBSET timers[l] :
              /\ X = {n \in timers[l] : ~ Valid(n)}
              /\ Closing(l, {n.conn : n \in X}, timers[l] \ X)
              /\ Closed(l, {n.conn : n \in X}, timers[l] \ X, {n.conn : n \in X})
<1> DEFINE X == {n \in timers[l] : ~ Valid(n)}
           K == {n.conn : n \in X}
<1>1. X \in SUBSET timers[l] /\ Closing(l, K, timers[l] \ X) BY ExpiryCloses DEF ClockInv, DataInv
<1>2. \A c \in K : \A n \in timers[l] \ X : n.conn # c BY DEF ClockInv, LinkInv
<1>3. Close(l, K, timers[l] \ X) BY <1>1 DEF Closing
<1> HIDE DEF K, X
<1>4. PICK Dead \in SUBSET K : Closed(l, K, timers[l] \ X, Dead) BY <1>3, CloseFacts
<1>5. Dead = K BY <1>2, <1>4 DEF Closed
<1> QED BY <1>1, <1>4, <1>5 DEF K, X

LEMMA HandleExpiredClock ==
    ASSUME ClockInv, NEW l \in Loop, HandleExpired(l)
    PROVE  LinkInv' /\ \A k \in Loop : \A d \in Conn : Settled(k, d)' => Watched(k, d)'
<1>0. OwnershipInv BY DEF ClockInv, DataInv
<1>1. PICK X \in SUBSET timers[l] : /\ Closing(l, {n.conn : n \in X}, timers[l] \ X)
                                    /\ Closed(l, {n.conn : n \in X}, timers[l] \ X, {n.conn : n \in X})
                                    /\ X = {n \in timers[l] : ~ Valid(n)}
  BY ExpiryDestroys
<1> DEFINE K == {n.conn : n \in X}
<1>2. \A n \in timers[l] : n \in X => n.conn \in K OBVIOUS
<1>3. \A n \in timers[l] \ X : n.conn \notin K BY DEF ClockInv, LinkInv
<1> HIDE DEF K
<1>4. K \subseteq Conn /\ \A c \in K : Alive(l, c) BY <1>1 DEF Closing, K
<1>5. UNCHANGED <<now, pending, cur>> BY DEF HandleExpired, sys, functor
<1>6. Closed(l, K, timers[l] \ X, K) BY <1>1 DEF K
<1>7. timers'[l] = timers[l] \ X /\ \A k \in Loop \ {l} : timers'[k] = timers[k]
  BY <1>0, <1>6 DEF Closed, OwnershipInv, Domains
<1>8. Touches(l, K) BY <1>2, <1>3, <1>4, <1>5, <1>6, <1>7 DEF Touches, Closed, None
<1>9. \A c \in K : life'[c] = "closed" BY <1>4, <1>6 DEF Closed
<1>10. \A k \in Loop : \A d \in Conn \ K : Settled(k, d)' => Settled(k, d)
  BY <1>5, <1>6 DEF Closed, Settled, Alive, Waiting
<1>11. \A k \in Loop : \A c \in K : ~ Settled(k, c)' BY <1>9 DEF Settled, Alive
<1> QED BY <1>8, <1>10, <1>11, ClockTouches

\* Every step preserves the invariant of the timers.
LEMMA StepClock == ClockInv /\ [PNext]_vars => ClockInv'
<1> SUFFICES ASSUME ClockInv, [PNext]_vars
             PROVE  LinkInv' /\ \A l \in Loop : \A c \in Conn : Settled(l, c)' => Watched(l, c)'
  <2>1. ClockInv => DataInv BY DEF ClockInv
  <2> QED BY <2>1, StepData DEF ClockInv
<1>0. now \in Nat BY DEF ClockInv, LinkInv
<1>1. ASSUME UNCHANGED <<object, pending, thread, clock>>, now' = now \/ now' = now + 1
      PROVE  LinkInv' /\ \A l \in Loop : \A c \in Conn : Settled(l, c)' => Watched(l, c)'
  <2>1. now' \in Nat /\ now <= now' BY <1>0, <1>1
  <2> QED BY <1>1, <2>1, RestClock DEF object, thread
<1>2. CASE UNCHANGED vars BY <1>1, <1>2 DEF vars, functor, sys
<1>3. CASE Tick BY <1>1, <1>3 DEF Tick, functor
<1>4. CASE ServerStep
  <2>1. CASE AcceptEvent BY <1>1, <2>1 DEF AcceptEvent, functor, sys
  <2>2. CASE AcceptEnds BY <1>1, <2>2 DEF AcceptEnds, functor
  <2>3. ASSUME NEW c \in Conn, Deal(c)
        PROVE  LinkInv' /\ \A l \in Loop : \A d \in Conn : Settled(l, d)' => Watched(l, d)'
    BY <2>3, DealClock
  <2>4. ASSUME NEW c \in Conn, Refuse(c) \/ NonBlockFails(c)
        PROVE  LinkInv' /\ \A l \in Loop : \A d \in Conn : Settled(l, d)' => Watched(l, d)'
    <3>1. UNCHANGED <<clock, data, cur, loop, pending, now>>
      BY <2>4 DEF Refuse, NonBlockFails, Accepted, thread, functor
    <3>2. \E w \in {"closed", "leaked"} : life' = [life EXCEPT ![c] = w] BY <2>4 DEF Refuse, NonBlockFails
    <3>3. \A d \in Conn : life'[d] = "alive" => life[d] = "alive"
      BY <3>2 DEF ClockInv, DataInv, OwnershipInv, Domains
    <3>4. now' \in Nat /\ now <= now' BY <1>0, <3>1
    <3> QED BY <3>1, <3>3, <3>4, RestClock
  <2> QED BY <1>4, <2>1, <2>2, <2>3, <2>4 DEF ServerStep
<1>5. ASSUME NEW l \in Loop, LoopStep(l)
      PROVE  LinkInv' /\ \A k \in Loop : \A c \in Conn : Settled(k, c)' => Watched(k, c)'
  <2>1. CASE \E b \in batch[l] : HandleEvents(l, b[1], b[2]) BY <2>1, HandleEventsClock
  <2>2. CASE Poll(l)
    <3>1. UNCHANGED <<clock, data, cur, loop, pending, now, life>> BY <2>2 DEF Poll, object, sys
    <3>2. now' \in Nat /\ now <= now' BY <1>0, <3>1
    <3> QED BY <3>1, <3>2, RestClock
  <2> QED BY <1>5, <2>1, <2>2, HandleConnClock, DoPendingClock, HandleExpiredClock DEF LoopStep
<1>6. ASSUME NEW c \in Conn, ClientStep(c)
      PROVE  LinkInv' /\ \A l \in Loop : \A d \in Conn : Settled(l, d)' => Watched(l, d)'
  <2>1. UNCHANGED <<clock, data, cur, loop, pending, now>>
    BY <1>6 DEF ClientStep, Connect, Shutdown, Abort, Drain, Send, object, functor, thread, sys
  <2>2. UNCHANGED life \/ life' = [life EXCEPT ![c] = "backlog"]
    BY <1>6 DEF ClientStep, Connect, Shutdown, Abort, Drain, Send, object
  <2>3. \A d \in Conn : life'[d] = "alive" => life[d] = "alive"
    BY <2>2 DEF ClockInv, DataInv, OwnershipInv, Domains
  <2>4. now' \in Nat /\ now <= now' BY <1>0, <2>1
  <2> QED BY <2>1, <2>3, <2>4, RestClock
<1> QED BY <1>2, <1>3, <1>4, <1>5, <1>6 DEF PNext

LEMMA ClockAlways == PSpec => []ClockInv
<1>1. PInit => ClockInv BY InitInv, InitData, InitClock DEF ClockInv, DataInv
<1> QED BY <1>1, StepClock, PTL DEF PSpec

\* Every connection that handleConn has left has exactly one timer, the one its timer_ leads to;
\* only a connection whose client has shut down with output left has none (HttpData::handleConn,
\* seperateTimer and linkTimer; TimerManager::addTimer and handleExpiredEvent).
THEOREM ConnectionsAreGuarded == PSpec => []Guarded
<1>1. ClockInv => Guarded
  <2> SUFFICES ASSUME ClockInv, NEW l \in Loop, NEW c \in Conn, Settled(l, c)
               PROVE  {n \in timers[l] : n.conn = c} = IF Stranded(c) THEN {} ELSE {link[c]}
    BY DEF Guarded, Settled, Waiting
  <2>1. Watched(l, c) BY DEF ClockInv
  <2>2. \A n \in timers[l] : n = link[n.conn] BY DEF ClockInv, LinkInv
  <2> QED BY <2>1, <2>2 DEF Watched
<1> QED BY <1>1, ClockAlways, PTL

\* By a clock that wraps around no more time seems to pass than passes.
LEMMA WrappedTime ==
    ASSUME NEW K \in Nat \ {0}, NEW s \in Nat, NEW t \in 0..s
    PROVE  (s % K) - (t % K) <= s - t
<1>1. PICK q \in Nat, m \in 0..(K - 1) : q = s \div K /\ m = s % K /\ s = K * q + m OBVIOUS
<1>2. PICK r \in Nat, n \in 0..(K - 1) : r = t \div K /\ n = t % K /\ t = K * r + n OBVIOUS
<1>3. K * r <= K * q
  <2> SUFFICES ASSUME K * q < K * r PROVE FALSE BY SMT
  <2>1. q < r BY SMT
  <2>2. PICK d \in Nat : r = q + 1 + d
    <3>1. r - q - 1 \in Nat BY <2>1
    <3> QED BY <3>1
  <2>3. K * r = K * q + K + K * d BY <2>2
  <2>4. K * d >= 0 OBVIOUS
  <2> QED BY <1>1, <1>2, <2>3, <2>4
<1>4. \A A, B \in Int : s = A + m /\ t = B + n /\ B <= A => m - n <= s - t OBVIOUS
<1>5. K * q \in Int /\ K * r \in Int OBVIOUS
<1>6. m - n <= s - t BY <1>1, <1>2, <1>3, <1>4, <1>5
<1>7. m = s % K /\ n = t % K BY <1>1, <1>2
<1> QED BY <1>6, <1>7

\* A connection is closed by a timer only when the time it was given last is over, although the
\* timers' clock wraps around (TimerNode::isValid; HttpData::handleConn).
THEOREM TimersCloseWhenDue == PSpec => ClosedOnlyWhenDue
<1> DEFINE Due == \A l \in Loop : \A c \in Conn :
                     lpc[l] = "expire" /\ lpc'[l] = "poll" /\ Alive(l, c) /\ ~ Ended(c) /\ Ended(c)'
                         => now >= quiet[c]
<1>1. ClockInv /\ [PNext]_vars => [Due]_vars
  <2> SUFFICES ASSUME ClockInv, PNext, NEW l \in Loop, NEW c \in Conn,
                      lpc[l] = "expire", lpc'[l] = "poll", ~ Ended(c), Ended(c)'
               PROVE  now >= quiet[c]
    OBVIOUS
  <2>1. DOMAIN lpc = Loop BY DEF ClockInv, DataInv, OwnershipInv, Domains
  <2>2. HandleExpired(l)
    <3>1. ~ UNCHANGED lpc OBVIOUS
    <3>2. PICK k \in Loop : LoopStep(k)
      BY <3>1 DEF PNext, Tick, ServerStep, AcceptEvent, AcceptEnds, Deal, Refuse, NonBlockFails, Accepted,
                  ClientStep, Connect, Shutdown, Abort, Drain, Send, thread
    <3>3. \/ \E v : lpc' = [lpc EXCEPT ![k] = v] /\ lpc[k] # "expire"
          \/ lpc' = [lpc EXCEPT ![k] = "poll"] /\ HandleExpired(k)
      BY <3>1, <3>2 DEF LoopStep, Poll, HandleConn, DoPendingFunctors, HandleExpired, HandleEvents
    <3>4. k = l BY <2>1, <3>3
    <3> QED BY <3>3, <3>4
  <2>3. PICK X \in SUBSET timers[l] : /\ Closed(l, {n.conn : n \in X}, timers[l] \ X, {n.conn : n \in X})
                                      /\ X = {n \in timers[l] : ~ Valid(n)}
    BY <2>2, ExpiryDestroys
  <2>4. c \in {n.conn : n \in X}
    <3> DEFINE K == {n.conn : n \in X}
    <3>1. Closed(l, K, timers[l] \ X, K) BY <2>3
    <3> HIDE DEF K
    <3>2. c \notin K => life'[c] = life[c] /\ data'[c] = data[c] BY <3>1 DEF Closed
    <3>3. c \in K BY <3>2 DEF Ended
    <3> QED BY <3>3 DEF K
  <2>5. PICK n \in timers[l] : n.conn = c /\ ~ Valid(n) BY <2>3, <2>4
  <2>6. now \in Nat /\ Timely(n) BY DEF ClockInv, LinkInv
  <2>7. PICK t \in 0..now, w \in Nat : n.exp = (t % Period) + w /\ quiet[c] = t + w BY <2>5, <2>6 DEF Timely
  <2>8. now % Period >= (t % Period) + w
    <3>1. now % Period \in Int /\ t % Period \in Int BY <2>6, EpollServerConstants
    <3> QED BY <2>5, <2>7, <3>1 DEF Valid
  <2>9. (now % Period) - (t % Period) <= now - t BY <2>6, EpollServerConstants, WrappedTime
  <2> QED BY <2>6, <2>7, <2>8, <2>9, EpollServerConstants
<1> QED BY <1>1, ClockAlways, PTL DEF PSpec, ClosedOnlyWhenDue

-----------------------------------------------------------------------------
(* Events                                                                  *)

\* newEvent has run for the connection.
Known(l, c) == Alive(l, c) /\ c \notin Waiting(l)

\* Epoll has its channel, and the kernel its lastEvents_, unless those were for one event.
Told(l, c) ==
    /\ chan[l][fd[c]] = c
    /\ data[c].last \in {{"in"}, {"out"}, DefaultEvent}
    /\ mask[c] = data[c].last \/ (data[c].last = DefaultEvent /\ mask[c] = {})

\* An event of poll: an error means one, and what else was asked for is there.
Reported(b) ==
    /\ "err" \in b[2] => sock[b[1]].rst
    /\ mask[b[1]] # {} /\ ~ sock[b[1]].rst => b[2] = mask[b[1]]

HasInput(s) == s.in # << >> \/ s.fin

\* Between the handlers and handleConn: what has come since will be reported.
Between(c) ==
    ~ data[c].err /\ data[c].cstate = "connected" /\ ~ sock[c].rst =>
        /\ "in" \in mask[c] /\ HasInput(sock[c]) => ready[c]
        /\ "out" \in mask[c] /\ "out" \in data[c].ev /\ sock[c].unread < Cap => ready[c]

\* The loop is done with the connection,
Idle(l, c) == Known(l, c) /\ (\A b \in batch[l] : b[1] # c) /\ c # cur[l]

\* and what it waits for will be reported.
Armed(c) ==
    data[c].cstate = "connected" /\ ~ sock[c].rst =>
        /\ mask[c] # {}
        /\ "in" \in mask[c] /\ HasInput(sock[c]) => ready[c]
        /\ "out" \in mask[c] /\ sock[c].unread < Cap => ready[c]

Heard(l, c) ==
    /\ Known(l, c) => Told(l, c)
    /\ \A b \in batch[l] : b[1] = c => Reported(b)
    /\ cur[l] = c => Between(c)
    /\ Idle(l, c) => Armed(c)

\* As long as no call of epoll_ctl fails.
EventInv == ClockInv /\ ("ctl" \notin faults => \A l \in Loop : \A c \in Conn : Heard(l, c))

\* What a socket without an error has for a registration.
LEMMA LevelFacts ==
    ASSUME NEW s, NEW m
    PROVE  /\ "err" \in Level(s, m) => s.rst
           /\ ~ s.rst => Level(s, m) \subseteq m
           /\ ~ s.rst => (Level(s, m) # {} <=> ("in" \in m /\ HasInput(s)) \/ ("out" \in m /\ s.unread < Cap))
BY DEF Level, HasInput

LEMMA InitEvents == PInit => \A l \in Loop : \A c \in Conn : Heard(l, c)
BY EpollServerConstants DEF PInit, Heard, Known, Idle, Alive

\* A step that leaves everything about the connection alone.
Same(l, c) ==
    /\ life'[c] = life[c] /\ loop'[c] = loop[c] /\ fd'[c] = fd[c] /\ data'[c] = data[c] /\ sock'[c] = sock[c]
    /\ mask'[c] = mask[c] /\ (ready[c] => ready'[c])
    /\ Alive(l, c) => chan'[l][fd[c]] = chan[l][fd[c]]
    /\ (c \in Waiting(l)') = (c \in Waiting(l))
    /\ \A b : b[1] = c => (b \in batch'[l] <=> b \in batch[l])
    /\ (cur'[l] = c) = (cur[l] = c)

LEMMA SameHeard == ASSUME NEW l, NEW c, Heard(l, c), Same(l, c) PROVE Heard(l, c)'
<1>1. Known(l, c)' = Known(l, c) BY DEF Same, Known, Alive
<1>2. Known(l, c)' => Told(l, c)' BY <1>1 DEF Same, Heard, Told, Known
<1>3. \A b \in batch'[l] : b[1] = c => Reported(b)' BY DEF Same, Heard, Reported
<1>4. cur'[l] = c => Between(c)' BY DEF Same, Heard, Between
<1>5. Idle(l, c)' => Idle(l, c) BY <1>1 DEF Same, Idle
<1>6. Idle(l, c)' => Armed(c)' BY <1>5 DEF Same, Heard, Armed
<1> QED BY <1>2, <1>3, <1>4, <1>6 DEF Heard

\* A client's step may put its socket on the ready list.
LEMMA ClientHeard ==
    ASSUME EventInv, NEW c \in Conn, Shutdown(c) \/ Abort(c) \/ Drain(c) \/ \E p \in Pieces : Send(c, p),
           NEW l \in Loop, NEW d \in Conn, "ctl" \notin faults
    PROVE  Heard(l, d)'
<1>1. UNCHANGED <<life, loop, fd, data, mask, chan, pending, batch, cur>>
  BY DEF Shutdown, Abort, Drain, Send, object, functor, thread
<1>2. Heard(l, d) BY DEF EventInv
<1>3. DOMAIN ready = Conn /\ DOMAIN sock = Conn /\ sock[c] \in SocketType
  BY DEF EventInv, ClockInv, DataInv, ObjectInv, OwnershipInv, Domains
<1>4. CASE d # c
  <2>1. sock'[d] = sock[d] /\ ready'[d] = ready[d]
    BY <1>3, <1>4 DEF Shutdown, Abort, Drain, Send, Edge
  <2>2. Same(l, d) BY <1>1, <2>1 DEF Same, Waiting
  <2> QED BY <1>2, <2>2, SameHeard
<1>5. CASE d = c
  <2>1. /\ (ready[c] => ready'[c]) /\ (sock[c].rst => sock'[c].rst)
        /\ ~ sock'[c].rst /\ "in" \in mask[c] /\ HasInput(sock'[c]) => HasInput(sock[c]) \/ ready'[c]
        /\ ~ sock'[c].rst /\ "out" \in mask[c] /\ sock'[c].unread < Cap => sock[c].unread < Cap \/ ready'[c]
    <3>1. CASE Shutdown(c) BY <1>3, <3>1 DEF Shutdown, Edge, SocketType, HasInput
    <3>2. CASE Abort(c) BY <1>3, <3>2 DEF Abort, Edge, SocketType, HasInput
    <3>3. CASE Drain(c) BY <1>3, <3>3 DEF Drain, Edge, SocketType, HasInput
    <3>4. CASE \E p \in Pieces : Send(c, p)
      <4>1. PICK p \in Pieces : Send(c, p) BY <3>4
      <4>2. sock'[c].fin = sock[c].fin /\ sock'[c].rst = sock[c].rst /\ sock'[c].unread = sock[c].unread
        BY <1>3, <4>1 DEF Send, SocketType
      <4>3. ready'[c] = (ready[c] \/ (mask[c] # {} /\ ("in" = "err" \/ "in" \in mask[c])))
        BY <1>3, <4>1 DEF Send, Edge
      <4> QED BY <4>2, <4>3 DEF HasInput
    <3> QED BY <3>1, <3>2, <3>3, <3>4
  <2>2. Known(l, c)' = Known(l, c) BY <1>1 DEF Known, Alive, Waiting
  <2>3. Known(l, c)' => Told(l, c)' BY <1>1, <1>2, <1>5, <2>2 DEF Heard, Told
  <2>4. \A b \in batch'[l] : b[1] = c => Reported(b)' BY <1>1, <1>2, <1>5, <2>1 DEF Heard, Reported
  <2>5. cur'[l] = c => Between(c)' BY <1>1, <1>2, <1>5, <2>1 DEF Heard, Between
  <2>6. Idle(l, c)' => Idle(l, c) BY <1>1, <2>2 DEF Idle
  <2>7. Idle(l, c)' => Armed(c)' BY <1>1, <1>2, <1>5, <2>1, <2>6 DEF Heard, Armed
  <2> QED BY <1>5, <2>3, <2>4, <2>5, <2>7 DEF Heard
<1> QED BY <1>4, <1>5

\* The accepting thread and clients that connect: what is not alive is not heard of.
LEMMA AcceptHeard ==
    ASSUME EventInv, NEW c \in Conn, Connect(c) \/ Deal(c) \/ Refuse(c) \/ NonBlockFails(c),
           NEW l \in Loop, NEW d \in Conn, "ctl" \notin faults
    PROVE  Heard(l, d)'
<1>1. UNCHANGED <<data, sock, mask, ready, chan, batch, cur>>
  BY DEF Connect, Deal, Refuse, NonBlockFails, Accepted, poller, thread
<1>2. Heard(l, d) BY DEF EventInv
<1>0. OwnershipInv BY DEF EventInv, ClockInv, DataInv
<1>3. life[c] # "alive"
  <2>1. CASE Connect(c) BY <2>1 DEF Connect
  <2>2. CASE Deal(c) BY <1>0, <2>2, AcceptedFacts DEF Deal
  <2>3. CASE Refuse(c) BY <1>0, <2>3, AcceptedFacts DEF Refuse
  <2>4. CASE NonBlockFails(c) BY <1>0, <2>4, AcceptedFacts DEF NonBlockFails
  <2> QED BY <2>1, <2>2, <2>3, <2>4
<1>4. pending[l] \in Seq(Conn) /\ (pending'[l] = pending[l] \/ (pending'[l] = Append(pending[l], c) /\ Deal(c)))
  <2>1. pending[l] \in Seq(Conn) /\ DOMAIN pending = Loop BY <1>0 DEF OwnershipInv, PendingInv, Domains
  <2> QED BY <2>1 DEF Connect, Deal, Refuse, NonBlockFails, functor
<1>5. CASE d # c
  <2>1. life'[d] = life[d] /\ loop'[d] = loop[d] /\ fd'[d] = fd[d]
    BY <1>0, <1>5 DEF OwnershipInv, Domains, Connect, Deal, Refuse, NonBlockFails
  <2>2. (d \in Waiting(l)') = (d \in Waiting(l)) BY <1>4, <1>5 DEF Waiting
  <2>3. Same(l, d) BY <1>1, <2>1, <2>2 DEF Same
  <2> QED BY <1>2, <2>3, SameHeard
<1>6. CASE d = c
  <2>1. (\A b \in batch[l] : b[1] # c) /\ cur[l] # c
    <3>1. \A b \in batch[l] : b[1] # c BY <1>0, <1>3 DEF OwnershipInv, BatchInv, Alive
    <3>2. lpc[l] = "conn" => cur[l] # c BY <1>0, <1>3 DEF OwnershipInv, HandlerInv, Alive
    <3>3. lpc[l] # "conn" => cur[l] # c BY EpollServerConstants DEF EventInv, ClockInv, DataInv, HandledInv
    <3> QED BY <3>1, <3>2, <3>3
  <2>2. ~ Known(l, c)'
    <3>1. CASE Deal(c)
      <4>1. life'[c] = "alive" /\ loop'[c] = next /\ next \in Loop
        BY <1>0, <3>1 DEF Deal, OwnershipInv, Domains
      <4>2. CASE l = next
        <5> DEFINE n == Len(pending[l]) + 1
        <5>1. pending'[l] = Append(pending[l], c) BY <1>0, <3>1, <4>2 DEF Deal, OwnershipInv, Domains
        <5>2. n \in 1..Len(pending'[l]) /\ pending'[l][n] = c BY <1>4, <5>1
        <5> HIDE DEF n
        <5> QED BY <5>2 DEF Known, Waiting
      <4>3. CASE l # next BY <4>1, <4>3 DEF Known, Alive
      <4> QED BY <4>2, <4>3
    <3>2. CASE Connect(c) \/ Refuse(c) \/ NonBlockFails(c)
      <4>1. life'[c] # "alive" BY <1>0, <3>2 DEF Connect, Refuse, NonBlockFails, OwnershipInv, Domains
      <4> QED BY <4>1 DEF Known, Alive
    <3> QED BY <3>1, <3>2
  <2> QED BY <1>1, <1>6, <2>1, <2>2 DEF Heard, Idle
<1> QED BY <1>5, <1>6

\* A connection that a loop does not know is not heard of.
LEMMA UnknownHeard ==
    ASSUME DataInv', NEW l \in Loop, NEW d \in Conn, ~ Known(l, d)'
    PROVE  Heard(l, d)'
<1>0. OwnershipInv' BY DEF DataInv
<1>1. \A b \in batch'[l] : b[1] # d
  BY <1>0 DEF OwnershipInv, BatchInv, PendingInv, Known, Alive, Waiting
<1>2. cur'[l] # d
  <2>1. lpc'[l] = "conn" => cur'[l] # d
    BY <1>0 DEF OwnershipInv, HandlerInv, PendingInv, Known, Alive, Waiting
  <2>2. lpc'[l] # "conn" => cur'[l] # d BY EpollServerConstants DEF DataInv, HandledInv
  <2> QED BY <2>1, <2>2
<1> QED BY <1>1, <1>2 DEF Heard, Idle

LEMMA PollHeard ==
    ASSUME EventInv, DataInv', NEW l \in Loop, Poll(l), NEW k \in Loop, NEW d \in Conn, "ctl" \notin faults
    PROVE  Heard(k, d)'
<1> DEFINE R == {c \in Conn : ready[c] /\ loop[c] = l}
           E == {c \in R : Level(sock[c], mask[c]) # {}}
           B == {<<chan[l][fd[c]], Level(sock[c], mask[c])>> : c \in {e \in E : chan[l][fd[e]] # NoConn}}
<1>0. OwnershipInv /\ HandledInv BY DEF EventInv, ClockInv, DataInv
<1>1. /\ lpc[l] = "poll" /\ batch' = [batch EXCEPT ![l] = B]
      /\ ready' = [c \in Conn |-> ready[c] /\ c \notin R]
      /\ mask' = [c \in Conn |-> IF c \in E /\ "oneshot" \in mask[c] THEN {} ELSE mask[c]]
      /\ UNCHANGED <<life, fd, loop, data, sock, pending, cur, chan>>
  BY DEF Poll, object
<1>2. Heard(k, d) BY DEF EventInv
<1>3. \A c \in E : chan[l][fd[c]] # NoConn => chan[l][fd[c]] = c
  BY <1>0 DEF OwnershipInv, RegistrationInv, FdInv, MapInv, Alive
<1>4. \A b \in B : \E c \in E : b = <<c, Level(sock[c], mask[c])>> BY <1>3
<1>5. d \in E /\ chan[l][fd[d]] = d => <<d, Level(sock[d], mask[d])>> \in B BY EpollServerConstants
<1>6. batch'[l] = B /\ batch[l] = {} /\ (\A j \in Loop \ {l} : batch'[j] = batch[j]) /\ cur[l] = NoConn
  BY <1>0, <1>1 DEF OwnershipInv, Domains, BatchInv, HandledInv
<1> HIDE DEF B
<1>7. CASE ~ Known(k, d) BY <1>1, <1>7, UnknownHeard DEF Known, Alive, Waiting
<1>8. CASE Known(k, d) /\ d \notin R
  <2>1. d \notin E BY <1>8
  <2>2. \A b \in B : b[1] # d BY <1>4, <2>1
  <2>3. mask'[d] = mask[d] /\ (ready[d] => ready'[d]) BY <1>1, <1>8, <2>1
  <2> HIDE DEF R, E
  <2>4. Same(k, d) BY <1>1, <1>6, <2>2, <2>3 DEF Same, Waiting
  <2> QED BY <1>2, <2>4, SameHeard
<1>9. CASE Known(k, d) /\ d \in R
  <2>1. k = l /\ Told(l, d) BY <1>2, <1>9 DEF Known, Alive, Heard
  <2>2. ~ ready'[d] BY <1>1, <1>9
  <2>3. cur'[l] # d BY <1>1, <1>6, EpollServerConstants
  <2>4. CASE d \in E
    <3>1. <<d, Level(sock[d], mask[d])>> \in batch'[l] BY <1>5, <1>6, <2>1, <2>4 DEF Told
    <3>2. ~ Idle(l, d)' BY <3>1 DEF Idle
    <3>3. mask'[d] = IF "oneshot" \in mask[d] THEN {} ELSE mask[d] BY <1>1, <2>4
    <3>4. Told(l, d)' BY <1>1, <2>1, <3>3 DEF Told, DefaultEvent
    <3>5. Level(sock[d], mask[d]) # {} BY <2>4
    <3>6. ASSUME NEW b \in batch'[l], b[1] = d PROVE Reported(b)'
      <4>1. b = <<d, Level(sock[d], mask[d])>> BY <1>4, <1>6, <3>6
      <4>2. b[2] = Level(sock[d], mask[d]) BY <4>1
      <4>3. "err" \in b[2] => sock'[b[1]].rst BY <1>1, <3>6, <4>2, LevelFacts
      <4>4. ASSUME mask'[d] # {}, ~ sock[d].rst PROVE b[2] = mask'[d]
        <5>1. mask'[d] = mask[d] /\ mask[d] \in {{"in"}, {"out"}}
          BY <2>1, <3>3, <4>4 DEF Told, DefaultEvent
        <5>2. b[2] \subseteq mask[d] BY <4>2, <4>4, LevelFacts
        <5> QED BY <3>5, <4>2, <5>1, <5>2
      <4> QED BY <1>1, <3>6, <4>3, <4>4 DEF Reported
    <3> QED BY <2>1, <2>3, <3>2, <3>4, <3>6 DEF Heard
  <2>5. CASE d \notin E
    <3>1. \A b \in batch'[l] : b[1] # d BY <1>4, <1>6, <2>5
    <3>2. mask'[d] = mask[d] BY <1>1, <2>5
    <3>3. Level(sock[d], mask[d]) = {} BY <1>9, <2>5
    <3>4. Told(l, d)' BY <1>1, <2>1, <3>2 DEF Told
    <3>5. Idle(l, d) BY <1>6, <1>9, <2>1, EpollServerConstants DEF Idle
    <3>6. Armed(d) BY <1>2, <2>1, <3>5 DEF Heard
    <3>7. Armed(d)' BY <1>1, <3>2, <3>3, <3>6, LevelFacts DEF Armed
    <3> QED BY <2>1, <2>3, <3>1, <3>4, <3>7 DEF Heard
  <2> QED BY <2>4, <2>5
<1> QED BY <1>7, <1>8, <1>9

LEMMA HandleEventsHeard ==
    ASSUME EventInv, DataInv', NEW l \in Loop, NEW b \in batch[l], HandleEvents(l, b[1], b[2]),
           NEW k \in Loop, NEW d \in Conn, "ctl" \notin faults
    PROVE  Heard(k, d)'
<1>c. PICK c : c = b[1] OBVIOUS
<1>0. DataInv /\ OwnershipInv BY DEF EventInv, ClockInv, DataInv
<1>1. /\ UNCHANGED <<life, fd, loop, chan, pending, mask, ready>> /\ lpc[l] = "handle"
      /\ batch' = [batch EXCEPT ![l] = @ \ {<<c, b[2]>>}]
  BY <1>c DEF HandleEvents, functor, poller
<1>2. b = <<c, b[2]>> /\ c \in Conn /\ Alive(l, c) /\ \A e \in batch[l] : e[1] = c => e = b
  BY <1>0, <1>c DEF OwnershipInv, BatchInv
<1>3. batch'[l] = batch[l] \ {b} /\ (\A j \in Loop \ {l} : batch'[j] = batch[j]) /\ cur[l] = NoConn
  <2>1. batch' = [batch EXCEPT ![l] = @ \ {b}] BY <1>1, <1>2
  <2> QED BY <1>0, <1>1, <2>1 DEF OwnershipInv, Domains, DataInv, HandledInv
<1>4. Heard(k, d) BY DEF EventInv
<1>5. \/ /\ "err" \in b[2] /\ data' = [data EXCEPT ![c] = [data[c] EXCEPT !.ev = {}]] /\ UNCHANGED <<sock, cur>>
      \/ \E io : Handled(l, c, b[2], io)
  BY <1>0, <1>c, HandleEventsFacts
<1>6. CASE ~ Known(k, d) BY <1>1, <1>6, UnknownHeard DEF Known, Alive, Waiting
<1>7. CASE d # c
  <2>1. data'[d] = data[d] /\ sock'[d] = sock[d] /\ (cur'[k] = d) = (cur[k] = d)
    <3>1. CASE data' = [data EXCEPT ![c] = [data[c] EXCEPT !.ev = {}]] /\ UNCHANGED <<sock, cur>>
      BY <1>0, <1>7, <3>1 DEF DataInv, ObjectInv
    <3>2. ASSUME NEW io, Handled(l, c, b[2], io) PROVE data'[d] = data[d] /\ sock'[d] = sock[d] /\ (cur'[k] = d) = (cur[k] = d)
      BY <1>0, <1>3, <1>7, <3>2, EpollServerConstants DEF Handled, DataInv, ObjectInv, OwnershipInv, Domains
    <3> QED BY <1>5, <3>1, <3>2
  <2>2. \A e : e[1] = d => (e \in batch'[k] <=> e \in batch[k]) BY <1>3, <1>7, <1>c
  <2>3. Same(k, d) BY <1>1, <2>1, <2>2 DEF Same, Waiting
  <2> QED BY <1>4, <2>3, SameHeard
<1>8. CASE d = c /\ Known(k, d)
  <2>1. k = l /\ Told(l, c) /\ Reported(b) BY <1>2, <1>4, <1>8, <1>c DEF Known, Alive, Heard
  <2>2. \A e \in batch'[l] : e[1] # c BY <1>2, <1>3
  <2>3. CASE "err" \in b[2] /\ data' = [data EXCEPT ![c] = [data[c] EXCEPT !.ev = {}]] /\ UNCHANGED <<sock, cur>>
    <3>1. data'[c].last = data[c].last BY <1>0, <1>2, <2>3, FieldNames DEF DataInv, ObjectInv, Formed
    <3>2. Told(l, c)' BY <1>1, <2>1, <3>1 DEF Told
    <3>3. cur'[l] # c BY <1>2, <1>3, <2>3, EpollServerConstants
    <3>4. sock'[c].rst BY <2>1, <2>3, <1>c DEF Reported
    <3> QED BY <1>8, <2>1, <2>2, <3>2, <3>3, <3>4 DEF Heard, Armed
  <2>4. ASSUME NEW io, Handled(l, c, b[2], io) PROVE Heard(l, c)'
    <3>1. /\ io.room \in 0..Cap
          /\ ~ io.d.err /\ "out" \in io.d.ev => io.room = 0
          /\ "in" \in b[2] /\ sock[c].fin => io.d.err \/ io.d.cstate # "connected"
          /\ io.d.last = data[c].last
      BY <2>4 DEF Handled, Sound
    <3>2. data'[c] = io.d BY <1>0, <1>2, <2>4 DEF Handled, DataInv, ObjectInv
    <3>3. sock[c] \in SocketType /\ DOMAIN sock = Conn BY <1>0, <1>2 DEF DataInv, ObjectInv
    <3>4. /\ sock'[c].unread = Cap - io.room /\ sock'[c].rst = sock[c].rst /\ sock'[c].fin = sock[c].fin
          /\ "in" \in b[2] => sock'[c].in = << >>
      BY <1>2, <2>4, <3>3 DEF Handled, SocketType
    <3>5. Told(l, c)' BY <1>1, <2>1, <3>1, <3>2 DEF Told
    <3>6. cur'[l] = c BY <1>0, <2>4 DEF Handled, OwnershipInv, Domains
    <3>7. mask[c] # {} /\ ~ sock[c].rst => b[2] = mask[c] BY <2>1, <1>c DEF Reported
    <3>8. io.room = 0 => sock'[c].unread = Cap BY <3>4, EpollServerConstants
    <3>9. Between(c)' BY <1>1, <3>1, <3>2, <3>4, <3>7, <3>8, EpollServerConstants DEF Between, HasInput
    <3> QED BY <2>2, <3>5, <3>6, <3>9 DEF Heard, Idle
  <2> QED BY <1>5, <1>8, <2>1, <2>3, <2>4
<1> QED BY <1>6, <1>7, <1>8

\* handleConn: the events that it registers are looked at as they are, and those that it need not
\* register have been watched all the time.
LEMMA HandleConnHeard ==
    ASSUME EventInv, DataInv', NEW l \in Loop, HandleConn(l), NEW k \in Loop, NEW d \in Conn,
           "ctl" \notin faults, "ctl" \notin faults'
    PROVE  Heard(k, d)'
<1>c. PICK c : c = cur[l] OBVIOUS
<1>0. DataInv /\ OwnershipInv /\ LinkInv BY DEF EventInv, ClockInv, DataInv
<1>1. /\ lpc[l] = "conn" /\ cur' = [cur EXCEPT ![l] = NoConn] /\ UNCHANGED <<pending, batch>>
  BY DEF HandleConn, functor
<1>2. c \in Conn /\ Alive(l, c) /\ fd[c] \in Fd /\ \A b \in batch[l] : b[1] # c
  BY <1>0, <1>1, <1>c DEF OwnershipInv, HandlerInv, FdInv, Alive
<1>3. cur'[l] = NoConn /\ \A j \in Loop \ {l} : cur'[j] = cur[j] BY <1>0, <1>1 DEF OwnershipInv, Domains
<1>4. Heard(k, d) BY DEF EventInv
<1>5. \A j \in Loop, e \in Conn : Alive(j, e) /\ e # c => fd[e] \in Fd /\ fd[e] # fd[c]
  BY <1>0, <1>2 DEF OwnershipInv, FdInv, Alive
<1>6. DOMAIN data = Conn /\ DOMAIN mask = Conn /\ DOMAIN ready = Conn
  BY <1>0 DEF OwnershipInv, Domains, DataInv, ObjectInv
<1>7. ASSUME d # c,
             life'[d] = life[d] /\ loop'[d] = loop[d] /\ fd'[d] = fd[d] /\ data'[d] = data[d] /\ sock'[d] = sock[d],
             mask'[d] = mask[d] /\ (ready[d] => ready'[d]),
             Alive(k, d) => chan'[k][fd[d]] = chan[k][fd[d]]
      PROVE  Heard(k, d)'
  <2>1. (cur'[k] = d) = (cur[k] = d)
    <3>1. CASE k = l BY <1>3, <1>7, <1>c, <3>1, EpollServerConstants
    <3>2. CASE k # l BY <1>3, <3>2
    <3> QED BY <3>1, <3>2
  <2>2. (d \in Waiting(k)') = (d \in Waiting(k)) BY <1>1 DEF Waiting
  <2>3. Same(k, d) BY <1>1, <1>7, <2>1, <2>2 DEF Same
  <2> QED BY <1>4, <2>3, SameHeard
<1>8. CASE Finish(l, c)
  <2>1. Close(l, {c}, Others(l, c)) BY <1>8 DEF Finish
  <2>2. PICK Dead \in SUBSET {c} : Closed(l, {c}, Others(l, c), Dead) BY <2>1, CloseFacts
  <2>3. \A n : n \in Others(l, c) <=> n \in timers[l] /\ n.conn # c
    BY <1>0, <1>2, OthersFacts DEF OwnershipInv, TimerInv
  <2>4. Dead = {c} BY <2>2, <2>3 DEF Closed
  <2>5. CASE d = c
    <3>1. life'[d] = "closed" BY <2>2, <2>4, <2>5 DEF Closed
    <3> QED BY <3>1, UnknownHeard DEF Known, Alive
  <2>6. CASE d # c
    <3>1. /\ life'[d] = life[d] /\ loop'[d] = loop[d] /\ fd'[d] = fd[d] /\ data'[d] = data[d] /\ sock'[d] = sock[d]
          /\ mask'[d] = mask[d] /\ (ready[d] => ready'[d])
      BY <2>2, <2>4, <2>6 DEF Closed
    <3>2. Alive(k, d) => chan'[k][fd[d]] = chan[k][fd[d]]
      BY <1>0, <1>5, <2>2, <2>6 DEF Closed, Forget, OwnershipInv, Domains
    <3> QED BY <1>7, <2>6, <3>1, <3>2
  <2> QED BY <2>5, <2>6
<1>9. CASE Linger(l, c)
  <2>1. /\ UNCHANGED <<life, loop, fd, sock, mask, ready, chan>> /\ data[c].cstate = "disconnecting"
        /\ data' = [data EXCEPT ![c].ev = {"out"}]
    BY <1>9 DEF Linger, poller
  <2>2. CASE d = c
    <3>1. data'[c].last = data[c].last /\ data'[c].cstate = data[c].cstate
      BY <1>0, <1>2, <2>1, FieldNames DEF DataInv, ObjectInv, Formed
    <3>2. CASE ~ Known(k, d)' BY <3>2, UnknownHeard
    <3>3. CASE Known(k, d)'
      <4>1. k = l /\ Known(l, c) BY <1>1, <1>2, <2>1, <2>2, <3>3 DEF Known, Alive, Waiting
      <4>2. Told(l, c)' BY <1>4, <2>1, <2>2, <3>1, <4>1 DEF Heard, Told
      <4>3. Armed(c)' BY <2>1, <3>1 DEF Armed
      <4>4. cur'[l] # c BY <1>2, <1>3, EpollServerConstants
      <4> QED BY <1>1, <1>2, <2>2, <4>1, <4>2, <4>3, <4>4 DEF Heard
    <3> QED BY <3>2, <3>3
  <2>3. CASE d # c BY <1>6, <1>7, <2>1, <2>3
  <2> QED BY <2>2, <2>3
<1>10. CASE Resume(l, c)
  <2> DEFINE ev == Wanted(data[c]).ev
  <2>1. /\ UNCHANGED <<life, loop, fd, sock>> /\ data[c].cstate = "connected" /\ ~ data[c].err
        /\ data' = [data EXCEPT ![c].ev = ev, ![c].last = ev]
        /\ EpollMod(l, c, ev)
    BY <1>10 DEF Resume
  <2>2. ev \in {{"in"}, {"out"}} /\ (ev = {"out"} => "out" \in data[c].ev)
    <3>1. data[c].ev \subseteq {"in", "out"} BY <1>0, <1>1, <1>c DEF DataInv, HandledInv
    <3> QED BY <3>1 DEF Wanted
  <2> HIDE DEF ev
  <2>3. /\ UNCHANGED chan
        /\ \/ ev = data[c].last /\ UNCHANGED <<mask, ready>>
           \/ /\ mask' = [mask EXCEPT ![c] = ev]
              /\ ready' = [ready EXCEPT ![c] = Level(sock[c], ev) # {}]
    BY <2>1 DEF EpollMod, Ctl, Fault, poller
  <2>4. CASE d = c
    <3>1. data'[c].last = ev /\ data'[c].cstate = "connected"
      BY <1>0, <1>2, <2>1, FieldNames DEF DataInv, ObjectInv, Formed
    <3>2. CASE ~ Known(k, d)' BY <3>2, UnknownHeard
    <3>3. CASE Known(k, d)'
      <4>1. k = l /\ Known(l, c) BY <1>1, <1>2, <2>1, <2>4, <3>3 DEF Known, Alive, Waiting
      <4>2. Told(l, c) /\ Between(c) BY <1>4, <1>c, <2>4, <4>1 DEF Heard
      <4>3. mask'[c] = ev BY <1>2, <1>6, <2>2, <2>3, <4>2 DEF Told, DefaultEvent
      <4>4. Told(l, c)' BY <2>1, <2>2, <2>3, <3>1, <4>2, <4>3 DEF Told
      <4>5. Armed(c)'
        <5>1. CASE UNCHANGED <<mask, ready>>
          BY <2>1, <2>2, <4>2, <4>3, <5>1 DEF Armed, Between
        <5>2. CASE ready' = [ready EXCEPT ![c] = Level(sock[c], ev) # {}]
          <6>1. ready'[c] = (Level(sock[c], ev) # {}) BY <1>2, <1>6, <5>2
          <6> QED BY <2>1, <2>2, <4>3, <6>1, LevelFacts DEF Armed
        <5> QED BY <2>3, <5>1, <5>2
      <4>6. cur'[l] # c BY <1>2, <1>3, EpollServerConstants
      <4> QED BY <1>1, <1>2, <2>4, <4>1, <4>4, <4>5, <4>6 DEF Heard
    <3> QED BY <3>2, <3>3
  <2>5. CASE d # c
    <3>1. mask'[d] = mask[d] /\ (ready[d] => ready'[d]) BY <1>6, <2>3, <2>5
    <3>2. data'[d] = data[d] BY <1>6, <2>1, <2>5
    <3> QED BY <1>7, <2>1, <2>3, <2>5, <3>1, <3>2
  <2> QED BY <2>4, <2>5
<1> QED BY <1>8, <1>9, <1>10, <1>c DEF HandleConn

LEMMA DoPendingHeard ==
    ASSUME EventInv, DataInv', NEW l \in Loop, DoPendingFunctors(l), NEW k \in Loop, NEW d \in Conn,
           "ctl" \notin faults, "ctl" \notin faults'
    PROVE  Heard(k, d)'
<1> DEFINE P == Waiting(l)
<1>0. DataInv /\ OwnershipInv BY DEF EventInv, ClockInv, DataInv
<1>1. Begun(l, P, {})
  <2>1. PICK bad : Begun(l, P, bad) BY <1>0, BegunFacts
  <2>2. bad = {} BY <2>1 DEF Begun
  <2> QED BY <2>1, <2>2
<1>2. \A c \in P : c \in Conn /\ Alive(l, c) /\ data[c] = New
  BY <1>0 DEF DataInv, ObjectInv, OwnershipInv, PendingInv, Waiting
<1>3. /\ \A j \in Loop \ {l} : Waiting(j)' = Waiting(j)
      /\ Waiting(l)' = {}
  <2>1. pending'[l] = << >> /\ \A j \in Loop \ {l} : pending'[j] = pending[j]
    BY <1>0, <1>1 DEF Begun, OwnershipInv, Domains
  <2>2. 1..Len(pending'[l]) = {} BY <2>1
  <2> QED BY <2>1, <2>2 DEF Waiting
<1>4. P = Waiting(l) OBVIOUS
<1> HIDE DEF P
<1>5. /\ UNCHANGED <<sock, life, fd, loop, cur, batch>> /\ batch[l] = {} /\ lpc[l] = "handle"
      /\ \A f \in Fd : \/ \E c \in P : fd[c] = f /\ chan'[l][f] = c
                       \/ (\A c \in P : fd[c] # f) /\ chan'[l][f] = chan[l][f]
      /\ \A j \in Loop \ {l} : \A f \in Fd : chan'[j][f] = chan[j][f]
  BY <1>1 DEF Begun
<1>6. \A j, i \in Loop, e, c \in Conn : Alive(j, e) /\ Alive(i, c) => fd[e] \in Fd /\ (fd[e] = fd[c] => e = c)
  BY <1>0 DEF OwnershipInv, FdInv, Alive
<1>7. CASE d \notin P
  <2>1. data'[d] = data[d] /\ mask'[d] = mask[d] /\ (ready[d] => ready'[d]) BY <1>1, <1>7 DEF Begun
  <2>2. Alive(k, d) => chan'[k][fd[d]] = chan[k][fd[d]] BY <1>2, <1>5, <1>6, <1>7
  <2>3. (d \in Waiting(k)') = (d \in Waiting(k)) BY <1>3, <1>4, <1>7
  <2>4. Same(k, d) BY <1>5, <2>1, <2>2, <2>3 DEF Same
  <2>5. Heard(k, d) BY DEF EventInv
  <2> QED BY <2>4, <2>5, SameHeard
<1>8. CASE d \in P /\ k # l
  <2>1. ~ Known(k, d)' BY <1>2, <1>5, <1>8 DEF Known, Alive
  <2> QED BY <2>1, UnknownHeard
<1>9. CASE d \in P /\ k = l
  <2>1. mask'[d] = DefaultEvent /\ ready'[d] = (Level(sock[d], {"in"}) # {}) BY <1>1, <1>9 DEF Begun
  <2>2. data'[d] = [New EXCEPT !.ev = DefaultEvent, !.last = DefaultEvent] BY <1>1, <1>2, <1>9 DEF Begun
  <2>3. data'[d].last = DefaultEvent BY <2>2 DEF New
  <2>4. fd[d] \in Fd /\ Alive(l, d) BY <1>2, <1>6, <1>9
  <2>5. chan'[l][fd[d]] = d
    <3>1. PICK c \in P : fd[c] = fd[d] /\ chan'[l][fd[d]] = c BY <1>5, <1>9, <2>4
    <3> QED BY <1>2, <1>6, <2>4, <3>1
  <2>6. Told(l, d)' BY <1>5, <2>1, <2>3, <2>5 DEF Told
  <2>7. Armed(d)' BY <1>5, <2>1, LevelFacts DEF Armed, DefaultEvent
  <2>8. cur'[l] # d BY <1>0, <1>5, EpollServerConstants DEF DataInv, HandledInv
  <2> QED BY <1>5, <1>9, <2>6, <2>7, <2>8 DEF Heard
<1> QED BY <1>7, <1>8, <1>9

LEMMA HandleExpiredHeard ==
    ASSUME EventInv, DataInv', NEW l \in Loop, HandleExpired(l), NEW k \in Loop, NEW d \in Conn,
           "ctl" \notin faults
    PROVE  Heard(k, d)'
<1>0. DataInv /\ OwnershipInv /\ ClockInv BY DEF EventInv, ClockInv, DataInv
<1>1. PICK X \in SUBSET timers[l] : /\ Closing(l, {n.conn : n \in X}, timers[l] \ X)
                                    /\ Closed(l, {n.conn : n \in X}, timers[l] \ X, {n.conn : n \in X})
  BY <1>0, ExpiryDestroys
<1> DEFINE K == {n.conn : n \in X}
<1>2. K \subseteq Conn /\ (\A c \in K : Alive(l, c)) /\ Closed(l, K, timers[l] \ X, K) BY <1>1 DEF Closing
<1> HIDE DEF K
<1>3. UNCHANGED <<pending, cur, batch>> BY DEF HandleExpired, functor
<1>4. CASE d \in K
  <2>1. life'[d] = "closed" BY <1>2, <1>4 DEF Closed
  <2> QED BY <2>1, UnknownHeard DEF Known, Alive
<1>5. CASE d \notin K
  <2>1. /\ life'[d] = life[d] /\ loop'[d] = loop[d] /\ fd'[d] = fd[d] /\ data'[d] = data[d] /\ sock'[d] = sock[d]
        /\ mask'[d] = mask[d] /\ (ready[d] => ready'[d])
    BY <1>2, <1>5 DEF Closed
  <2>2. Alive(k, d) => fd[d] \in Fd /\ \A c \in K : fd[d] # fd[c]
    BY <1>0, <1>2, <1>5 DEF OwnershipInv, FdInv, Alive
  <2>3. Alive(k, d) => chan'[k][fd[d]] = chan[k][fd[d]]
    BY <1>0, <1>2, <2>2 DEF Closed, Forget, OwnershipInv, Domains
  <2>4. Same(k, d) BY <1>3, <2>1, <2>3 DEF Same, Waiting
  <2>5. Heard(k, d) BY DEF EventInv
  <2> QED BY <2>4, <2>5, SameHeard
<1> QED BY <1>4, <1>5

\* A call that has failed is not forgotten.
LEMMA FaultsStay == [PNext]_vars => faults \subseteq faults'
<1> SUFFICES ASSUME [PNext]_vars PROVE faults \subseteq faults' OBVIOUS
<1>1. CASE UNCHANGED vars BY <1>1 DEF vars, sys
<1>2. CASE Tick BY <1>2 DEF Tick
<1>3. CASE ServerStep
  BY <1>3 DEF ServerStep, AcceptEvent, AcceptEnds, Deal, Refuse, NonBlockFails, Fault, sys
<1>4. ASSUME NEW l \in Loop, LoopStep(l) PROVE faults \subseteq faults'
  <2>1. CASE Poll(l) BY <2>1 DEF Poll, sys
  <2>2. CASE HandleConn(l)
    <3>1. CASE Resume(l, cur[l]) BY <3>1 DEF Resume, EpollMod, Fault
    <3>2. CASE Linger(l, cur[l]) BY <3>2 DEF Linger
    <3>3. CASE Finish(l, cur[l]) BY <3>3 DEF Finish
    <3> QED BY <2>2, <3>1, <3>2, <3>3 DEF HandleConn
  <2>3. CASE DoPendingFunctors(l) BY <2>3 DEF DoPendingFunctors, Fault
  <2>4. CASE HandleExpired(l) BY <2>4 DEF HandleExpired, sys
  <2>5. CASE \E b \in batch[l] : HandleEvents(l, b[1], b[2]) BY <2>5 DEF HandleEvents, sys
  <2> QED BY <1>4, <2>1, <2>2, <2>3, <2>4, <2>5 DEF LoopStep
<1>5. ASSUME NEW c \in Conn, ClientStep(c) PROVE faults \subseteq faults'
  BY <1>5 DEF ClientStep, Connect, Shutdown, Abort, Drain, Send, sys
<1> QED BY <1>1, <1>2, <1>3, <1>4, <1>5 DEF PNext

\* Every step preserves the invariant of the events.
LEMMA StepEvents == EventInv /\ [PNext]_vars => EventInv'
<1> SUFFICES ASSUME EventInv, [PNext]_vars, "ctl" \notin faults', NEW k \in Loop, NEW d \in Conn
             PROVE  Heard(k, d)'
  <2>1. EventInv => ClockInv BY DEF EventInv
  <2> QED BY <2>1, StepClock DEF EventInv
<1>0. "ctl" \notin faults BY FaultsStay
<1>d. DataInv' BY StepData DEF EventInv, ClockInv
<1>1. ASSUME UNCHANGED <<sock, object, pending, thread, poller>> PROVE Heard(k, d)'
  <2>1. Same(k, d) BY <1>1 DEF Same, Waiting, object, thread, poller
  <2>2. Heard(k, d) BY <1>0 DEF EventInv
  <2> QED BY <2>1, <2>2, SameHeard
<1>2. CASE UNCHANGED vars BY <1>1, <1>2 DEF vars, functor
<1>3. CASE Tick BY <1>1, <1>3 DEF Tick, functor
<1>4. CASE ServerStep
  <2>1. CASE AcceptEvent BY <1>1, <2>1 DEF AcceptEvent, functor
  <2>2. CASE AcceptEnds BY <1>1, <2>2 DEF AcceptEnds, functor
  <2> QED BY <1>0, <1>4, <2>1, <2>2, AcceptHeard DEF ServerStep
<1>5. ASSUME NEW l \in Loop, LoopStep(l) PROVE Heard(k, d)'
  <2>1. CASE \E b \in batch[l] : HandleEvents(l, b[1], b[2]) BY <1>0, <1>d, <2>1, HandleEventsHeard
  <2> QED BY <1>0, <1>5, <1>d, <2>1, PollHeard, HandleConnHeard, DoPendingHeard, HandleExpiredHeard
          DEF LoopStep
<1>6. ASSUME NEW c \in Conn, ClientStep(c) PROVE Heard(k, d)'
  BY <1>0, <1>6, AcceptHeard, ClientHeard DEF ClientStep
<1> QED BY <1>2, <1>3, <1>4, <1>5, <1>6 DEF PNext

\* As long as epoll_ctl does not fail, a connected client whose connection the loop is done with
\* is registered, and if there is input or room for output that it waits for, the loop will be
\* told, however the reports, the handlers and the client's steps are interleaved
\* (HttpData::handleConn, Epoll::epoll_mod, newEvent).
THEOREM EventsAreNotLost == PSpec => []NoLostEvent
<1>1. PInit => EventInv
  <2>1. PInit => ClockInv BY InitInv, InitData, InitClock DEF ClockInv, DataInv
  <2> QED BY <2>1, InitEvents DEF EventInv
<1>2. EventInv => NoLostEvent
  <2> SUFFICES ASSUME EventInv, NEW l \in Loop, NEW c \in Conn,
                      Alive(l, c), data[c].last # {}, data[c].cstate = "connected", ~ sock[c].rst,
                      \A b \in batch[l] : b[1] # c, c # cur[l], "ctl" \notin faults
               PROVE  mask[c] # {} /\ (Level(sock[c], mask[c]) # {} => ready[c])
    BY DEF NoLostEvent
  <2>1. c \notin Waiting(l)
    <3>1. c \in Waiting(l) => data[c] = New BY DEF EventInv, ClockInv, DataInv, ObjectInv, Waiting
    <3> QED BY <3>1 DEF New
  <2>2. Idle(l, c) BY <2>1 DEF Idle, Known
  <2>3. Armed(c) BY <2>2 DEF EventInv, Heard
  <2> QED BY <2>3, LevelFacts DEF Armed
<1> QED BY <1>1, <1>2, StepEvents, PTL DEF PSpec

-----------------------------------------------------------------------------
(* Responses                                                               *)

Piece == Nat \X Nat

\* The i-th piece that a client is to get.
Nth(i) == <<((i - 1) \div RespLen) + 1, ((i - 1) % RespLen) + 1>>

\* What a client has got, an error page at the end perhaps.
Ordered(g) == \A i \in 1..Len(g) : g[i] = Nth(i) \/ (i = Len(g) /\ g[i][1] = 0)

\* What it has got and what is left of its N responses, one piece after the other.
InSequence(g, out, N) ==
    /\ \A i \in 1..Len(g) : g[i] = Nth(i)
    /\ \A j \in 1..Len(out) : out[j] = Nth(Len(g) + j)
    /\ Len(g) + Len(out) = RespLen * N

\* A connection whose client has got g.
Flow(g, d) ==
    /\ g \in Seq(Piece)
    /\ IF d.err THEN Ordered(g) ELSE InSequence(g, d.out, d.n)

\* Pieces that are written come off the front,
LEMMA TakeInSequence ==
    ASSUME NEW g \in Seq(Piece), NEW out \in Seq(Piece), NEW N \in Nat, NEW n \in Nat, n <= Len(out),
           InSequence(g, out, N)
    PROVE  InSequence(g \o SubSeq(out, 1, n), From(out, n + 1), N)
<1> DEFINE h == SubSeq(out, 1, n)
           r == SubSeq(out, n + 1, Len(out))
<1>1. Len(g) \in Nat /\ Len(out) \in Nat OBVIOUS
<1>2. h \in Seq(Piece) /\ Len(h) = n /\ \A i \in 1..n : h[i] = out[i] OBVIOUS
<1>3. r \in Seq(Piece) /\ Len(r) = Len(out) - n /\ \A j \in 1..Len(r) : r[j] = out[n + j]
  BY <1>1
<1>4. From(out, n + 1) = r BY DEF From
<1> HIDE DEF h, r
<1> DEFINE x == g \o h
<1>5. Len(x) = Len(g) + n
  <2>1. h \in Seq(Piece) BY <1>2
  <2>2. Len(x) = Len(g) + Len(h) BY <2>1
  <2> QED BY <1>2, <2>2
<1>6. ASSUME NEW i \in 1..Len(x) PROVE x[i] = Nth(i)
  <2>1. CASE i <= Len(g)
    <3>1. i \in 1..Len(g) /\ x[i] = g[i] BY <1>1, <1>2, <1>5, <2>1
    <3> QED BY <3>1 DEF InSequence
  <2>2. CASE i > Len(g)
    <3>1. PICK j \in 1..n : i = Len(g) + j
      <4>1. i - Len(g) \in 1..n BY <1>1, <1>5, <2>2
      <4> QED BY <1>1, <4>1
    <3>2. x[i] = h[j] BY <1>1, <1>2, <1>5, <2>2, <3>1
    <3>3. j \in 1..Len(out) BY <1>1, <3>1
    <3> QED BY <1>2, <3>1, <3>2, <3>3 DEF InSequence
  <2> QED BY <1>1, <1>5, <2>1, <2>2
<1>7. ASSUME NEW j \in 1..Len(r) PROVE r[j] = Nth(Len(x) + j)
  <2>1. n + j \in 1..Len(out) BY <1>1, <1>3
  <2>2. Len(x) + j = Len(g) + (n + j) BY <1>1, <1>3, <1>5
  <2> QED BY <1>3, <2>1, <2>2 DEF InSequence
<1>8. Len(x) + Len(r) = RespLen * N
  <2>1. Len(x) + Len(r) = Len(g) + Len(out) BY <1>1, <1>3, <1>5
  <2> QED BY <2>1 DEF InSequence
<1> HIDE DEF x
<1>9. InSequence(x, r, N) BY <1>6, <1>7, <1>8 DEF InSequence
<1> QED BY <1>4, <1>9 DEF x, h

LEMMA DivMod ==
    ASSUME NEW a \in Nat, NEW b \in 0..(RespLen - 1)
    PROVE  (RespLen * a + b) % RespLen = b /\ (RespLen * a + b) \div RespLen = a
BY HttpDataConstants

\* and a response goes to the end.
LEMMA AddInSequence ==
    ASSUME NEW g \in Seq(Piece), NEW out \in Seq(Piece), NEW N \in Nat, InSequence(g, out, N)
    PROVE  InSequence(g, out \o Response(N + 1), N + 1)
<1> DEFINE R == Response(N + 1)
<1>1. R \in Seq(Piece) /\ Len(R) = RespLen /\ \A b \in 1..RespLen : R[b] = <<N + 1, b>>
  BY ResponseSeq, HttpDataConstants DEF Response, Piece
<1>2. Len(g) \in Nat /\ Len(out) \in Nat /\ RespLen \in Nat BY HttpDataConstants
<1> HIDE DEF R
<1> DEFINE x == out \o R
<1>3. Len(x) = Len(out) + RespLen
  <2>0. R \in Seq(Piece) BY <1>1
  <2>1. Len(x) = Len(out) + Len(R) BY <2>0
  <2> QED BY <1>1, <2>1
<1>4. ASSUME NEW j \in 1..Len(x) PROVE x[j] = Nth(Len(g) + j)
  <2>1. CASE j <= Len(out)
    <3>1. j \in 1..Len(out) /\ x[j] = out[j] BY <1>1, <1>2, <1>3, <2>1
    <3> QED BY <3>1 DEF InSequence
  <2>2. CASE j > Len(out)
    <3>1. PICK b \in 0..(RespLen - 1) : j = Len(out) + b + 1
      <4>1. j - Len(out) - 1 \in 0..(RespLen - 1) BY <1>2, <1>3, <2>2
      <4>2. j \in Nat BY <1>2, <1>3
      <4>3. j = Len(out) + (j - Len(out) - 1) + 1 BY <1>2, <4>2
      <4> QED BY <4>1, <4>3
    <3>2. x[j] = R[b + 1] /\ b + 1 \in 1..RespLen BY <1>1, <1>2, <1>3, <2>2, <3>1
    <3>3. Len(g) + j - 1 = RespLen * N + b
      <4>1. Len(g) + Len(out) = RespLen * N BY DEF InSequence
      <4>2. RespLen * N \in Nat BY <1>2
      <4> QED BY <1>2, <3>1, <4>1, <4>2
    <3>4. Nth(Len(g) + j) = <<N + 1, b + 1>> BY <3>3, DivMod DEF Nth
    <3> QED BY <1>1, <3>2, <3>4
  <2> QED BY <1>2, <1>3, <2>1, <2>2
<1>5. Len(g) + Len(x) = RespLen * (N + 1)
  <2>1. Len(g) + Len(out) = RespLen * N BY DEF InSequence
  <2>2. RespLen * (N + 1) = RespLen * N + RespLen BY <1>2
  <2>3. RespLen * N \in Nat BY <1>2
  <2> QED BY <1>2, <1>3, <2>1, <2>2, <2>3
<1> HIDE DEF x
<1>6. InSequence(g, x, N + 1) BY <1>4, <1>5 DEF InSequence
<1> QED BY <1>6 DEF x, R

\* An error page comes last.
LEMMA PageLast ==
    ASSUME NEW g \in Seq(Piece), NEW page \in Seq(Piece), \A i \in 1..Len(g) : g[i] = Nth(i),
           page = << >> \/ (Len(page) = 1 /\ page[1][1] = 0)
    PROVE  Ordered(g \o page)
<1> DEFINE x == g \o page
<1>1. Len(g) \in Nat /\ Len(page) \in {0, 1} /\ Len(x) = Len(g) + Len(page) OBVIOUS
<1>2. ASSUME NEW i \in 1..Len(x) PROVE x[i] = Nth(i) \/ (i = Len(x) /\ x[i][1] = 0)
  <2>1. CASE i <= Len(g)
    <3>1. i \in 1..Len(g) /\ x[i] = g[i] BY <1>1, <2>1
    <3> QED BY <3>1
  <2>2. CASE i > Len(g)
    <3>1. Len(page) = 1 /\ i = Len(g) + 1 /\ i = Len(x)
      <4>1. \A u, v \in Nat : v \in {0, 1} /\ i \in 1..(u + v) /\ i > u => v = 1 /\ i = u + 1 OBVIOUS
      <4>2. i \in 1..(Len(g) + Len(page)) /\ Len(page) \in Nat BY <1>1
      <4> HIDE DEF x
      <4>3. Len(page) = 1 /\ i = Len(g) + 1 BY <1>1, <2>2, <4>1, <4>2
      <4> QED BY <1>1, <4>3
    <3>2. x[i] = page[1] BY <1>1, <3>1
    <3> QED BY <3>1, <3>2
  <2> QED BY <1>1, <2>1, <2>2
<1> QED BY <1>2 DEF Ordered

\* No client asks for the echo, which replaces what is still to be written.
NoEcho == \A p \in Pieces : \A i \in 1..Len(p) : p[i] # "/hello"

\* analysisRequest fails, or adds a response, or is not reached.
Adds(p, d) ==
    \/ p.err
    \/ p.out = d.out /\ p.n = d.n
    \/ p.out = d.out \o Response(d.n + 1) /\ p.n = d.n + 1

LEMMA AnalysisAdds == ASSUME NoEcho, NEW d, Formed(d) PROVE Adds(AnalysisStage(d), d)
<1> DEFINE R == Response(d.n + 1)
           e == [d EXCEPT !.keep = @ \/ d.headers["Connection"] = "keep-alive", !.n = @ + 1]
<1>0. e.err = d.err /\ e.out = d.out /\ e.n = d.n + 1 /\ DOMAIN e = Fields BY FieldNames DEF Formed
<1>1. d.file # "/hello" BY DEF Formed, Token, NoEcho
<1>2. AnalysisStage(d) \in
        {d, [d EXCEPT !.err = TRUE, !.n = @ + 1], HandleError(e, 404), HandleError([e EXCEPT !.out = << >>], 404),
         [e EXCEPT !.out = @ \o R, !.state = "finish"]}
  <2> HIDE DEF e
  <2> QED BY <1>0, <1>1 DEF AnalysisStage, AnalysisRequest, e
<1>3. Adds(d, d) BY DEF Adds
<1>4. Adds([d EXCEPT !.err = TRUE, !.n = @ + 1], d) BY FieldNames DEF Adds, Formed
<1> HIDE DEF e, R
<1>5. HandleError(e, 404).err /\ HandleError([e EXCEPT !.out = << >>], 404).err
  BY <1>0, FieldNames DEF HandleError
<1>6. Adds([e EXCEPT !.out = @ \o R, !.state = "finish"], d) BY <1>0, FieldNames DEF Adds, R
<1>7. Adds(HandleError(e, 404), d) /\ Adds(HandleError([e EXCEPT !.out = << >>], 404), d) BY <1>5 DEF Adds
<1> QED BY <1>2, <1>3, <1>4, <1>6, <1>7

LEMMA ParseAdds ==
    ASSUME NoEcho, NEW d, Formed(d), NEW read \in Seq(Token), NEW zero \in BOOLEAN, NEW fails
    PROVE  Adds(Parse(d, read, zero, fails), d)
<1> DEFINE r == [d EXCEPT !.buf = @ \o read, !.page = 0, !.again = FALSE]
           z == IF zero THEN [r EXCEPT !.cstate = "disconnecting"] ELSE r
           x == [r EXCEPT !.buf = << >>]
           y == HandleError(r, 400)
           v == BodyStage(HeaderStage(URIStage(z)))
<1>1. Formed(r) /\ r.out = d.out /\ r.n = d.n /\ DOMAIN r = Fields BY FieldNames DEF Formed
<1>2. Parse(d, read, zero, fails) \in {x, y, z, AnalysisStage(v)} BY DEF Parse
<1> HIDE DEF r
<1>3. x.out = r.out /\ x.n = r.n BY <1>1, FieldNames
<1>4. y.err BY <1>1, FieldNames DEF HandleError
<1>5. Formed(z) /\ z.out = r.out /\ z.n = r.n BY <1>1, FieldNames DEF Formed
<1> HIDE DEF z, x, y
<1>6. Keeps(v, z)
  <2> DEFINE u == HeaderStage(URIStage(z))
  <2>1. Keeps(URIStage(z), z) BY <1>5, URIKeeps
  <2>2. Formed(URIStage(z)) BY <1>5, <2>1, KeepsFormed
  <2>3. Keeps(u, URIStage(z)) BY <2>2, HeadersKeep
  <2>4. Keeps(u, z) BY <1>5, <2>1, <2>3, KeepsTrans
  <2> HIDE DEF u
  <2>5. Formed(u) BY <1>5, <2>4, KeepsFormed
  <2>6. Keeps(BodyStage(u), u) BY <2>5, BodyKeeps
  <2>7. Keeps(BodyStage(u), z) BY <1>5, <2>4, <2>6, KeepsTrans
  <2> QED BY <2>7 DEF u
<1> HIDE DEF v
<1>7. Adds(AnalysisStage(v), v) /\ v.out = z.out /\ v.n = z.n
  <2>1. Formed(v) BY <1>5, <1>6, KeepsFormed
  <2> QED BY <1>6, <2>1, AnalysisAdds DEF Keeps
<1> QED BY <1>1, <1>2, <1>3, <1>4, <1>5, <1>7 DEF Adds

\* handleWrite: what is taken from outBuffer_ is what the client gets.
LEMMA WriteFlow ==
    ASSUME NEW g, NEW d, Formed(d), Flow(g, d), NEW room \in 0..Cap, NEW fails \in BOOLEAN
    PROVE  Flow(g \o SubSeq(d.out, 1, Written(d, room, fails)), HandleWrite(d, room, fails))
<1> DEFINE n == Written(d, room, fails)
           w == HandleWrite(d, room, fails)
           x == g \o SubSeq(d.out, 1, n)
<1>1. /\ n \in Nat /\ n <= Len(d.out)
      /\ d.err \/ d.cstate = "disconnected" \/ fails => n = 0
  BY EpollServerConstants, WrittenFacts
<1>2. d.out \in Seq(Piece) /\ g \in Seq(Piece) /\ d.n \in Nat /\ d.err \in BOOLEAN BY DEF Formed, Flow, Piece
<1> HIDE DEF n
<1>3. n = 0 => x = g BY <1>2
<1>4. x \in Seq(Piece) BY <1>1, <1>2
<1>5. CASE d.err \/ d.cstate = "disconnected"
  <2>1. w = d BY <1>5 DEF HandleWrite
  <2>2. x = g BY <1>1, <1>3, <1>5
  <2>3. Flow(x, w) BY <2>1, <2>2
  <2> QED BY <2>3 DEF n
<1>6. CASE ~ (d.err \/ d.cstate = "disconnected") /\ fails /\ d.out # << >>
  <2>1. w = [d EXCEPT !.ev = {"out"}, !.err = TRUE] BY <1>6 DEF HandleWrite
  <2>2. w.err = TRUE BY <2>1, FieldNames DEF Formed
  <2>3. x = g BY <1>1, <1>3, <1>6
  <2>4. Ordered(g) BY <1>6 DEF Flow, InSequence, Ordered
  <2> HIDE DEF x, w
  <2>5. Flow(x, w) BY <1>2, <1>6, <2>2, <2>3, <2>4 DEF Flow
  <2> QED BY <2>5 DEF n, x, w
<1>7. CASE ~ (d.err \/ d.cstate = "disconnected") /\ ~ (fails /\ d.out # << >>)
  <2> DEFINE rest == From(d.out, n + 1)
  <2>1. w = [d EXCEPT !.out = rest, !.ev = IF rest # << >> THEN @ \cup {"out"} ELSE @]
    BY <1>7 DEF HandleWrite, n
  <2>2. InSequence(x, rest, d.n) BY <1>1, <1>2, <1>7, TakeInSequence DEF Flow
  <2> HIDE DEF x, rest, w
  <2>3. w.out = rest /\ w.n = d.n /\ w.err = d.err BY <2>1, FieldNames DEF Formed
  <2>4. Flow(x, w) BY <1>4, <1>7, <2>2, <2>3 DEF Flow
  <2> QED BY <2>4 DEF n, x, w
<1> QED BY <1>5, <1>6, <1>7

LEMMA PieceConcat ==
    ASSUME NEW s \in Seq(Piece), NEW t \in Seq(Piece), NEW u \in Seq(Piece)
    PROVE  s \o (t \o u) = (s \o t) \o u
BY ConcatAssociative

LEMMA Concat4 ==
    ASSUME NEW s \in Seq(Piece), NEW t \in Seq(Piece), NEW u \in Seq(Piece), NEW v \in Seq(Piece)
    PROVE  s \o (t \o u \o v) = ((s \o t) \o u) \o v
<1>1. t \o u \in Seq(Piece) OBVIOUS
<1>2. s \o ((t \o u) \o v) = (s \o (t \o u)) \o v BY <1>1, PieceConcat
<1>3. s \o (t \o u) = (s \o t) \o u BY PieceConcat
<1> QED BY <1>2, <1>3

\* A call of handleRead: s is what the client had got before the event.
LEMMA RespondFlow ==
    ASSUME NEW io, NEW p, NEW s \in Seq(Piece), NEW fails \in BOOLEAN, Formed(p), ~ p.again,
           io.room \in 0..Cap, io.wrote \in Seq(Piece), p.page # 0 => p.err,
           \A i \in 1..Len(s \o io.wrote) : (s \o io.wrote)[i] = Nth(i),
           ~ p.err => InSequence(s \o io.wrote, p.out, p.n)
    PROVE  /\ Flow(s \o Respond(io, p, fails).wrote, Respond(io, p, fails).d)
           /\ Respond(io, p, fails).d.err => ~ Respond(io, p, fails).d.again
<1> DEFINE n == Written(p, io.room, fails)
           page == IF p.page # 0 /\ io.room > 0 /\ ~ fails THEN << <<0, p.page>> >> ELSE << >>
           g == s \o io.wrote
           o == SubSeq(p.out, 1, n)
           w == IF p.out # << >> THEN HandleWrite(p, io.room, fails) ELSE p
           e == AfterRead(p, io.room, fails)
<1>1. Respond(io, p, fails).d = e /\ Respond(io, p, fails).wrote = io.wrote \o page \o o BY DEF Respond
<1>0. io.room \in Nat BY EpollServerConstants
<1>2. n \in Nat /\ n <= Len(p.out) /\ (p.err => n = 0) BY <1>0, WrittenFacts
<1>3. page \in Seq(Piece) /\ (page = << >> \/ (Len(page) = 1 /\ page[1][1] = 0)) /\ (~ p.err => page = << >>)
  <2> DEFINE q == <<0, p.page>>
  <2>1. q \in Piece /\ q[1] = 0 BY DEF Formed, Piece
  <2> HIDE DEF q
  <2>2. << q >> \in Seq(Piece) /\ << >> \in Seq(Piece) /\ Len(<< q >>) = 1 /\ << q >>[1] = q BY <2>1
  <2> QED BY <2>1, <2>2 DEF q
<1>4. p.out \in Seq(Piece) BY DEF Formed, Piece
<1>5. o \in Seq(Piece) /\ (n = 0 => o = << >>)
  <2> HIDE DEF n
  <2> QED BY <1>2, <1>4
<1>6. g \in Seq(Piece) OBVIOUS
<1> HIDE DEF page, n
<1>7. s \o Respond(io, p, fails).wrote = (g \o page) \o o 
  <2>1. io.wrote \in Seq(Piece) /\ page \in Seq(Piece) /\ o \in Seq(Piece) BY <1>3, <1>5
  <2> HIDE DEF o
  <2>2. s \o (io.wrote \o page \o o) = ((s \o io.wrote) \o page) \o o 
    <3>1. \A t, u, v \in Seq(Piece) : s \o (t \o u \o v) = ((s \o t) \o u) \o v BY Concat4
    <3> QED BY <2>1, <3>1
  <2> QED BY <1>1, <2>2
<1>8. CASE p.err
  <2>1. e = p BY <1>8 DEF AfterRead
  <2>2. Ordered(g \o page) BY <1>3, <1>6, PageLast
  <2> HIDE DEF g, o
  <2>3. g \o page \in Seq(Piece) /\ (g \o page) \o o = g \o page BY <1>2, <1>3, <1>5, <1>6, <1>8
  <2>4. Flow(g \o page, p) BY <1>8, <2>2, <2>3 DEF Flow
  <2> QED BY <1>1, <1>7, <2>1, <2>3, <2>4
<1>9. CASE ~ p.err
  <2>1. (g \o page) \o o = g \o o
    <3> HIDE DEF g, o
    <3>1. page = << >> BY <1>3, <1>9
    <3>2. g \o << >> = g BY <1>6
    <3> QED BY <3>1, <3>2
  <2>2. Flow(g, p) BY <1>6, <1>9 DEF Flow
  <2>3. Flow(g \o o, w)
    <3>1. CASE p.out # << >>
      <4> HIDE DEF g
      <4>1. Flow(g \o SubSeq(p.out, 1, Written(p, io.room, fails)), HandleWrite(p, io.room, fails))
        BY <2>2, WriteFlow
      <4> QED BY <3>1, <4>1 DEF n
    <3>2. CASE p.out = << >>
      <4>1. n = 0 BY <1>2, <3>2
      <4>2. g \o o = g
        <5> HIDE DEF g, o
        <5> QED BY <1>5, <1>6, <4>1
      <4> QED BY <2>2, <3>2, <4>2
    <3> QED BY <3>1, <3>2
  <2>4. Formed(w) /\ (w.err => ~ w.again)
    <3>1. CASE p.out # << >>
      <4> DEFINE rest == From(p.out, n + 1)
      <4>1. rest \in Seq(Nat \X Nat) BY <1>2, <1>4, FromSeq DEF Piece
      <4>2. w = p \/ w = [p EXCEPT !.ev = {"out"}, !.err = TRUE]
                  \/ w = [p EXCEPT !.out = rest, !.ev = IF rest # << >> THEN @ \cup {"out"} ELSE @]
        BY <3>1 DEF HandleWrite, n
      <4> HIDE DEF rest, w
      <4>3. CASE w = p BY <4>3
      <4>4. CASE w = [p EXCEPT !.ev = {"out"}, !.err = TRUE] BY <4>4, FieldNames DEF Formed
      <4>5. CASE w = [p EXCEPT !.out = rest, !.ev = IF rest # << >> THEN @ \cup {"out"} ELSE @]
        BY <4>1, <4>5, FieldNames DEF Formed
      <4> QED BY <4>2, <4>3, <4>4, <4>5
    <3>2. CASE p.out = << >> BY <1>9, <3>2
    <3> QED BY <3>1, <3>2
  <2>5. \/ w.err /\ e = w
        \/ ~ w.err /\ e = Reset(w)
        \/ ~ w.err /\ e = [w EXCEPT !.ev = IF w.cstate # "disconnected" THEN @ \cup {"in"} ELSE @]
    BY <1>9 DEF AfterRead
  <2> HIDE DEF e, w, g, o
  <2>6. e = w \/ (~ w.err /\ e.err = w.err /\ e.out = w.out /\ e.n = w.n)
    <3>1. CASE ~ w.err /\ e = Reset(w) BY <2>4, <3>1, FieldNames DEF Formed, Reset
    <3>2. CASE ~ w.err /\ e = [w EXCEPT !.ev = IF w.cstate # "disconnected" THEN @ \cup {"in"} ELSE @]
      BY <2>4, <3>2, FieldNames DEF Formed
    <3> QED BY <2>5, <3>1, <3>2
  <2>7. Flow(g \o o, e) BY <2>3, <2>6 DEF Flow
  <2>8. e.err => ~ e.again BY <2>4, <2>6
  <2> QED BY <1>1, <1>7, <2>1, <2>7, <2>8
<1> QED BY <1>8, <1>9

LEMMA CallFlow ==
    ASSUME NoEcho, NEW io, NEW closed \in BOOLEAN, Sound(io, closed), NEW s \in Seq(Piece), ~ io.d.err,
           Flow(s \o io.wrote, io.d), NEW read \in Seq(Token), NEW zero \in BOOLEAN, NEW fails \in BOOLEAN
    PROVE  /\ Flow(s \o Call(io, read, zero, fails).wrote, Call(io, read, zero, fails).d)
           /\ Call(io, read, zero, fails).d.err => ~ Call(io, read, zero, fails).d.again
<1> DEFINE p == Parse(io.d, read, zero, fails)
           g == s \o io.wrote
<1>1. Parsed(p, io.d, zero) /\ Adds(p, io.d) BY ParseFacts, ParseAdds DEF Sound
<1> HIDE DEF p
<1>2. Formed(p) /\ ~ p.again /\ (p.page # 0 => p.err) BY <1>1 DEF Parsed
<1>3. /\ io.room \in 0..Cap /\ io.wrote \in Seq(Piece) /\ io.d.out \in Seq(Piece) /\ io.d.n \in Nat
  BY DEF Sound, Formed, Piece
<1>4. g \in Seq(Piece) /\ InSequence(g, io.d.out, io.d.n) BY DEF Flow
<1>5. InSequence(g, io.d.out \o Response(io.d.n + 1), io.d.n + 1)
  <2> HIDE DEF g
  <2> QED BY <1>3, <1>4, AddInSequence
<1>6. ~ p.err => InSequence(g, p.out, p.n)
  <2> HIDE DEF g
  <2> QED BY <1>1, <1>4, <1>5 DEF Adds
<1>7. \A i \in 1..Len(g) : g[i] = Nth(i)
  <2> HIDE DEF g
  <2> QED BY <1>4 DEF InSequence
<1>8. /\ Flow(s \o Respond(io, p, fails).wrote, Respond(io, p, fails).d)
      /\ Respond(io, p, fails).d.err => ~ Respond(io, p, fails).d.again
  BY <1>2, <1>3, <1>6, <1>7, RespondFlow
<1> QED BY <1>8 DEF Call, p

LEMMA ReadAllFlow ==
    ASSUME NoEcho, NEW io, Sound(io, FALSE), NEW g \in Seq(Piece), ~ io.d.err, Flow(g \o io.wrote, io.d),
           NEW s, s.in \in Seq(Token), s.fin \in BOOLEAN, s.rst \in BOOLEAN
    PROVE  Flow(g \o ReadAll(io, s).wrote, ReadAll(io, s).d)
<1> DEFINE a == Call(io, s.in, s.fin, s.rst)
<1>1. Formed(io.d) BY DEF Sound
<1>2. PICK n \in Nat : \E h : CallLoop(h, a, n) /\ ReadAll(io, s) = h[n] BY <1>1, ReadAllCalls
<1>3. PICK f : CallLoop(f, a, n) /\ ReadAll(io, s) = f[n] BY <1>2
<1> DEFINE Fine(x) == Sound(x, s.fin) /\ Flow(g \o x.wrote, x.d) /\ (x.d.err => ~ x.d.again)
           S == {k \in Nat : k <= n => Fine(f[k])}
<1>4. Fine(a)
  <2>1. Sound(a, FALSE \/ s.fin) BY CallSound
  <2>2. (FALSE \/ s.fin) = s.fin OBVIOUS
  <2>3. Flow(g \o a.wrote, a.d) /\ (a.d.err => ~ a.d.again) BY CallFlow
  <2> QED BY <2>1, <2>2, <2>3
<1> HIDE DEF a
<1>5. 0 \in S
  <2>1. f[0] = a BY <1>3 DEF CallLoop
  <2> QED BY <1>4, <2>1
<1>6. ASSUME NEW k \in Nat, k \in S PROVE k + 1 \in S
  <2> SUFFICES ASSUME k + 1 <= n PROVE Fine(f[k + 1]) OBVIOUS
  <2>1. f[k + 1] = CallAgain(f[k]) BY <1>3 DEF CallLoop
  <2>2. Sound(f[k], s.fin) /\ Flow(g \o f[k].wrote, f[k].d) /\ (f[k].d.err => ~ f[k].d.again) BY <1>6
  <2>3. Sound(CallAgain(f[k]), s.fin) BY <2>2, CallAgainSound
  <2>4. CASE ~ f[k].d.again BY <2>1, <2>2, <2>4 DEF CallAgain
  <2>5. CASE f[k].d.again
    <3>1. ~ f[k].d.err BY <2>2, <2>5
    <3>2. << >> \in Seq(Token) /\ FALSE \in BOOLEAN OBVIOUS
    <3>3. /\ Flow(g \o Call(f[k], << >>, FALSE, FALSE).wrote, Call(f[k], << >>, FALSE, FALSE).d)
          /\ Call(f[k], << >>, FALSE, FALSE).d.err => ~ Call(f[k], << >>, FALSE, FALSE).d.again
      BY <2>2, <3>1, <3>2, CallFlow
    <3> QED BY <2>1, <2>3, <2>5, <3>3 DEF CallAgain
  <2> QED BY <2>4, <2>5
<1> HIDE DEF S, Fine
<1>7. n \in S BY <1>5, <1>6, NatSetInduction
<1> QED BY <1>3, <1>7 DEF S, Fine

LEMMA WriteAllFlow ==
    ASSUME NEW io, NEW closed \in BOOLEAN, Sound(io, closed), NEW g \in Seq(Piece), Flow(g \o io.wrote, io.d),
           NEW s, s.rst \in BOOLEAN
    PROVE  Flow(g \o WriteAll(io, s).wrote, WriteAll(io, s).d)
<1> DEFINE n == Written(io.d, io.room, s.rst)
           o == SubSeq(io.d.out, 1, n)
           x == g \o io.wrote
<1>1. WriteAll(io, s).d = HandleWrite(io.d, io.room, s.rst) /\ WriteAll(io, s).wrote = io.wrote \o o BY DEF WriteAll
<1>2. io.room \in 0..Cap /\ io.wrote \in Seq(Piece) /\ Formed(io.d) /\ io.d.out \in Seq(Piece)
  BY DEF Sound, Formed, Piece
<1>0. io.room \in Nat BY <1>2, EpollServerConstants
<1>3. n \in Nat /\ n <= Len(io.d.out) BY <1>0, <1>2, WrittenFacts
<1>4. o \in Seq(Piece)
  <2> HIDE DEF n
  <2> QED BY <1>2, <1>3
<1>5. Flow(x \o o, HandleWrite(io.d, io.room, s.rst))
  <2>1. Flow(x, io.d) OBVIOUS
  <2> HIDE DEF x
  <2> QED BY <1>2, <2>1, WriteFlow
<1> HIDE DEF o
<1>6. g \o (io.wrote \o o) = x \o o BY <1>2, <1>4, PieceConcat
<1> QED BY <1>1, <1>5, <1>6

\* What the handlers of an event write follows what the client has got.
LEMMA HandleEventsFlow ==
    ASSUME NoEcho, DataInv, NEW l \in Loop, NEW b \in batch[l], HandleEvents(l, b[1], b[2]),
           ~ data[b[1]].err, InSequence(sock[b[1]].sent, data[b[1]].out, data[b[1]].n)
    PROVE  \/ /\ data' = [data EXCEPT ![b[1]] = [data[b[1]] EXCEPT !.ev = {}]]
              /\ UNCHANGED <<sock, cur>>
           \/ \E io : Flow(sock[b[1]].sent \o io.wrote, io.d) /\ Handled(l, b[1], b[2], io)
<1> DEFINE c == b[1]
           rev == b[2]
           start == [d |-> [data[c] EXCEPT !.ev = {}], room |-> Cap - sock[c].unread, wrote |-> << >>]
           r == IF "in" \in rev THEN ReadAll(start, sock[c]) ELSE start
           w == IF "out" \in rev THEN WriteAll(r, sock[c]) ELSE r
           closed == "in" \in rev /\ sock[c].fin
<1>1. c \in Conn BY DEF DataInv, OwnershipInv, BatchInv
<1>2. CASE "err" \in rev BY <1>2 DEF HandleEvents
<1>3. CASE "err" \notin rev
  <2>1. /\ data' = [data EXCEPT ![c] = w.d]
        /\ sock' = [sock EXCEPT ![c].in = IF "in" \in rev THEN << >> ELSE @,
                                ![c].unread = Cap - w.room, ![c].sent = @ \o w.wrote]
        /\ lpc' = [lpc EXCEPT ![l] = "conn"] /\ cur' = [cur EXCEPT ![l] = c]
    BY <1>3 DEF HandleEvents
  <2>2. sock[c] \in SocketType /\ Formed(data[c]) BY <1>1 DEF DataInv, ObjectInv
  <2>3. /\ sock[c].in \in Seq(Token) /\ sock[c].fin \in BOOLEAN /\ sock[c].rst \in BOOLEAN
        /\ sock[c].unread \in 0..Cap /\ sock[c].sent \in Seq(Piece)
    BY <2>2 DEF SocketType, Piece
  <2>4. Sound(start, FALSE) /\ start.d.last = data[c].last
    <3>1. Cap - sock[c].unread \in 0..Cap BY <2>3, EpollServerConstants
    <3>2. Formed(start.d) /\ start.d.ev = {} /\ start.d.last = data[c].last
      BY <2>2, FieldNames DEF Formed
    <3> QED BY <3>1, <3>2 DEF Sound
  <2>5. ~ start.d.err /\ Flow(sock[c].sent \o start.wrote, start.d)
    <3>1. start.d.err = data[c].err /\ start.d.out = data[c].out /\ start.d.n = data[c].n /\ start.wrote = << >>
      BY <2>2, FieldNames DEF Formed
    <3> HIDE DEF start
    <3>2. sock[c].sent \o << >> = sock[c].sent BY <2>3
    <3> QED BY <2>3, <3>1, <3>2 DEF Flow
  <2> HIDE DEF start
  <2>6. Sound(r, closed) /\ r.d.last = data[c].last /\ Flow(sock[c].sent \o r.wrote, r.d)
    <3>1. CASE "in" \in rev
      <4>1. Sound(ReadAll(start, sock[c]), FALSE \/ sock[c].fin) /\ ReadAll(start, sock[c]).d.last = start.d.last
        BY <2>3, <2>4, ReadAllSound
      <4>2. (FALSE \/ sock[c].fin) = closed BY <2>3, <3>1
      <4>3. Flow(sock[c].sent \o ReadAll(start, sock[c]).wrote, ReadAll(start, sock[c]).d)
        BY <2>3, <2>4, <2>5, ReadAllFlow
      <4> QED BY <2>4, <3>1, <4>1, <4>2, <4>3
    <3>2. CASE "in" \notin rev
      <4>1. closed = FALSE /\ r = start BY <3>2
      <4> QED BY <2>4, <2>5, <4>1
    <3> QED BY <3>1, <3>2
  <2>7. closed \in BOOLEAN BY <2>3
  <2> HIDE DEF r, closed
  <2>8. Sound(w, closed) /\ w.d.last = data[c].last /\ Flow(sock[c].sent \o w.wrote, w.d)
    <3>1. CASE "out" \in rev
      <4>1. Sound(WriteAll(r, sock[c]), closed) /\ WriteAll(r, sock[c]).d.last = r.d.last
        BY <2>3, <2>6, <2>7, WriteAllSound
      <4>2. Flow(sock[c].sent \o WriteAll(r, sock[c]).wrote, WriteAll(r, sock[c]).d)
        BY <2>3, <2>6, <2>7, WriteAllFlow
      <4> QED BY <2>6, <3>1, <4>1, <4>2
    <3>2. CASE "out" \notin rev BY <2>6, <3>2
    <3> QED BY <3>1, <3>2
  <2> HIDE DEF w
  <2>9. Handled(l, c, rev, w) BY <2>1, <2>8 DEF Handled, closed
  <2> QED BY <2>8, <2>9
<1> QED BY <1>2, <1>3

\* What a client has got is in order.  As long as its connection lives, what is left follows; after
\* an error handleConn is next, and closes it.
Stream(c) ==
    /\ Ordered(sock[c].sent)
    /\ life[c] \in {"idle", "backlog"} => sock[c].sent = << >>
    /\ life[c] = "alive" => IF data[c].err THEN \E l \in Loop : cur[l] = c
                            ELSE InSequence(sock[c].sent, data[c].out, data[c].n)

FlowInv == ClockInv /\ \A c \in Conn : Stream(c)

LEMMA EmptyStream ==
    Ordered(<< >>) /\ InSequence(<< >>, New.out, New.n) /\ New.err = FALSE
<1>1. New.out = << >> /\ New.n = 0 /\ New.err = FALSE BY DEF New
<1>2. RespLen * 0 = 0 BY HttpDataConstants
<1>3. Len(<< >>) = 0 /\ 1..0 = {} OBVIOUS
<1> QED BY <1>1, <1>2, <1>3 DEF Ordered, InSequence

LEMMA InitFlow == PInit => \A c \in Conn : Stream(c)
<1>1. Fresh.sent = << >> BY DEF Fresh
<1> QED BY <1>1, EmptyStream DEF PInit, Stream

\* A step that writes nothing to the client and takes nothing from what is left.
Rests(c) ==
    /\ sock'[c].sent = sock[c].sent
    /\ life'[c] \in {"idle", "backlog"} => life[c] \in {"idle", "backlog"}
    /\ life'[c] = "alive" =>
          /\ life[c] = "alive"
          /\ data'[c].err = data[c].err /\ data'[c].out = data[c].out /\ data'[c].n = data[c].n
    /\ \A l \in Loop : cur[l] = c /\ data'[c].err /\ life'[c] = "alive" => cur'[l] = c

LEMMA RestsStream == ASSUME NEW c, Stream(c), Rests(c) PROVE Stream(c)'
<1>1. life'[c] = "alive" /\ data'[c].err => \E l \in Loop : cur'[l] = c BY DEF Stream, Rests
<1> QED BY <1>1 DEF Stream, Rests

LEMMA ClientFlow ==
    ASSUME FlowInv, NEW c \in Conn, Shutdown(c) \/ Abort(c) \/ Drain(c) \/ \E p \in Pieces : Send(c, p),
           NEW d \in Conn
    PROVE  Stream(d)'
<1>1. UNCHANGED <<data, life, cur>> BY DEF Shutdown, Abort, Drain, Send, object, thread
<1>2. sock'[d].sent = sock[d].sent
  <2>1. sock \in [Conn -> SocketType] BY DEF FlowInv, ClockInv, DataInv, ObjectInv
  <2>2. CASE Shutdown(c) BY <2>1, <2>2 DEF Shutdown, SocketType
  <2>3. CASE Abort(c) BY <2>1, <2>3 DEF Abort, SocketType
  <2>4. CASE Drain(c) BY <2>1, <2>4 DEF Drain, SocketType
  <2>5. ASSUME NEW p \in Pieces, Send(c, p) PROVE sock'[d].sent = sock[d].sent
    BY <2>1, <2>5 DEF Send, SocketType
  <2> QED BY <2>2, <2>3, <2>4, <2>5
<1>3. Rests(d) BY <1>1, <1>2 DEF Rests
<1> QED BY <1>3, RestsStream DEF FlowInv

LEMMA AcceptFlow ==
    ASSUME FlowInv, NEW c \in Conn, Connect(c) \/ Deal(c) \/ Refuse(c) \/ NonBlockFails(c), NEW d \in Conn
    PROVE  Stream(d)'
<1>0. OwnershipInv /\ DataInv /\ DOMAIN life = Conn /\ Stream(d)
  BY DEF FlowInv, ClockInv, DataInv, OwnershipInv, Domains
<1>1. UNCHANGED <<sock, data, cur>>
  BY DEF Connect, Deal, Refuse, NonBlockFails, Accepted, object, thread
<1>2. CASE Deal(c) /\ d = c
  <2>1. life[c] = "backlog" BY <1>0, <1>2, AcceptedFacts DEF Deal
  <2>2. life'[c] = "alive" BY <1>0, <1>2 DEF Deal
  <2>3. data[c] = New /\ sock[c].sent = << >> BY <1>0, <1>2, <2>1 DEF DataInv, ObjectInv, Stream
  <2> QED BY <1>1, <1>2, <2>2, <2>3, EmptyStream DEF Stream
<1>3. CASE ~ (Deal(c) /\ d = c)
  <2>1. CASE Connect(c)
    <3>1. life[c] = "idle" /\ life' = [life EXCEPT ![c] = "backlog"] BY <2>1 DEF Connect
    <3>2. Rests(d) BY <1>0, <1>1, <3>1 DEF Rests
    <3> QED BY <1>0, <3>2, RestsStream
  <2>2. CASE Deal(c) \/ Refuse(c) \/ NonBlockFails(c)
    <3>1. \E w \in {"alive", "closed", "leaked"} : life' = [life EXCEPT ![c] = w] /\ (w = "alive" => d # c)
      BY <1>3, <2>2 DEF Deal, Refuse, NonBlockFails
    <3>2. Rests(d) BY <1>0, <1>1, <3>1 DEF Rests
    <3> QED BY <1>0, <3>2, RestsStream
  <2> QED BY <2>1, <2>2
<1> QED BY <1>2, <1>3

LEMMA EventsFlow ==
    ASSUME NoEcho, FlowInv, NEW l \in Loop, NEW b \in batch[l], HandleEvents(l, b[1], b[2]), NEW d \in Conn
    PROVE  Stream(d)'
<1>c. PICK c : c = b[1] OBVIOUS
<1>0. DataInv /\ OwnershipInv /\ Stream(d) BY DEF FlowInv, ClockInv, DataInv
<1>1. UNCHANGED life /\ lpc[l] = "handle" BY DEF HandleEvents
<1>2. c \in Conn /\ Alive(l, c) BY <1>0, <1>c DEF OwnershipInv, BatchInv
<1>3. ~ data[c].err
  <2>1. \A k \in Loop : cur[k] # c
    <3> SUFFICES ASSUME NEW k \in Loop, cur[k] = c PROVE FALSE OBVIOUS
    <3>1. lpc[k] = "conn" BY <1>0, <1>2, EpollServerConstants DEF DataInv, HandledInv
    <3>2. k = l BY <1>0, <1>2, <3>1 DEF OwnershipInv, HandlerInv, Alive
    <3> QED BY <1>1, <3>1, <3>2
  <2>2. Stream(c) BY <1>2 DEF FlowInv
  <2> QED BY <1>2, <2>1, <2>2 DEF Stream, Alive
<1>4. InSequence(sock[c].sent, data[c].out, data[c].n)
  <2>1. Stream(c) BY <1>2 DEF FlowInv
  <2> QED BY <1>2, <1>3, <2>1 DEF Stream, Alive
<1>5. /\ DOMAIN data = Conn /\ DOMAIN cur = Loop /\ sock \in [Conn -> SocketType] /\ Formed(data[c])
      /\ cur[l] = NoConn
  BY <1>0, <1>1, <1>2 DEF DataInv, ObjectInv, OwnershipInv, Domains, HandledInv
<1>6. CASE data' = [data EXCEPT ![c] = [data[c] EXCEPT !.ev = {}]] /\ UNCHANGED <<sock, cur>>
  <2>1. \A e \in Conn : data'[e].err = data[e].err /\ data'[e].out = data[e].out /\ data'[e].n = data[e].n
    BY <1>5, <1>6, FieldNames DEF Formed
  <2>2. Rests(d) BY <1>1, <1>6, <2>1 DEF Rests
  <2> QED BY <1>0, <2>2, RestsStream
<1>7. ASSUME NEW io, Flow(sock[c].sent \o io.wrote, io.d), Handled(l, c, b[2], io) PROVE Stream(d)'
  <2>1. /\ data' = [data EXCEPT ![c] = io.d] /\ cur' = [cur EXCEPT ![l] = c]
        /\ sock' = [sock EXCEPT ![c].in = IF "in" \in b[2] THEN << >> ELSE @,
                                ![c].unread = Cap - io.room, ![c].sent = @ \o io.wrote]
    BY <1>7 DEF Handled
  <2>2. cur'[l] = c /\ \A k \in Loop \ {l} : cur'[k] = cur[k] BY <1>5, <2>1
  <2>3. CASE d = c
    <3>1. data'[c] = io.d BY <1>2, <1>5, <2>1
    <3>2. sock'[c].sent = sock[c].sent \o io.wrote BY <1>2, <1>5, <2>1 DEF SocketType
    <3>3. Ordered(sock[c].sent \o io.wrote) BY <1>7 DEF Flow, InSequence, Ordered
    <3>4. ~ io.d.err => InSequence(sock[c].sent \o io.wrote, io.d.out, io.d.n) BY <1>7 DEF Flow
    <3> QED BY <1>1, <1>2, <2>2, <2>3, <3>1, <3>2, <3>3, <3>4 DEF Stream, Alive
  <2>4. CASE d # c
    <3>1. data'[d] = data[d] /\ sock'[d] = sock[d] BY <1>5, <2>1, <2>4
    <3>2. \A k \in Loop : cur[k] = d => cur'[k] = d BY <1>5, <2>2, EpollServerConstants
    <3>3. Rests(d) BY <1>1, <3>1, <3>2 DEF Rests
    <3> QED BY <1>0, <3>3, RestsStream
  <2> QED BY <2>3, <2>4
<1> QED BY <1>3, <1>4, <1>6, <1>7, <1>c, <1>0, HandleEventsFlow

LEMMA HandleConnFlow ==
    ASSUME FlowInv, NEW l \in Loop, HandleConn(l), NEW d \in Conn
    PROVE  Stream(d)'
<1>c. PICK c : c = cur[l] OBVIOUS
<1>0. DataInv /\ OwnershipInv /\ LinkInv /\ Stream(d) BY DEF FlowInv, ClockInv, DataInv
<1>1. lpc[l] = "conn" /\ cur' = [cur EXCEPT ![l] = NoConn] BY DEF HandleConn
<1>2. c \in Conn /\ Alive(l, c) BY <1>0, <1>1, <1>c DEF OwnershipInv, HandlerInv
<1>3. \A k \in Loop : cur[k] # c => cur'[k] = cur[k] BY <1>0, <1>1, <1>c DEF OwnershipInv, Domains
<1>4. DOMAIN data = Conn /\ Formed(data[c]) BY <1>0, <1>2 DEF DataInv, ObjectInv
<1>5. CASE Finish(l, c)
  <2>1. Close(l, {c}, Others(l, c)) BY <1>5 DEF Finish
  <2>2. PICK Dead \in SUBSET {c} : Closed(l, {c}, Others(l, c), Dead) BY <2>1, CloseFacts
  <2>3. \A n : n \in Others(l, c) <=> n \in timers[l] /\ n.conn # c
    BY <1>0, <1>2, OthersFacts DEF OwnershipInv, TimerInv
  <2>4. Dead = {c} BY <2>2, <2>3 DEF Closed
  <2>5. d = c => life'[d] = "closed" BY <2>2, <2>4 DEF Closed
  <2>6. d # c => data'[d] = data[d] /\ life'[d] = life[d] BY <2>2, <2>4 DEF Closed
  <2>7. sock'[d].sent = sock[d].sent BY <2>2 DEF Closed, Fresh
  <2>8. Rests(d) BY <1>3, <2>5, <2>6, <2>7 DEF Rests
  <2> QED BY <1>0, <2>8, RestsStream
<1>6. CASE Resume(l, c) \/ Linger(l, c)
  <2>1. UNCHANGED <<sock, life>> /\ ~ data[c].err BY <1>6 DEF Resume, Linger
  <2>2. \A e \in Conn : data'[e].err = data[e].err /\ data'[e].out = data[e].out /\ data'[e].n = data[e].n
    <3>1. CASE Resume(l, c) BY <1>4, <3>1, FieldNames DEF Resume, Formed
    <3>2. CASE Linger(l, c) BY <1>4, <3>2, FieldNames DEF Linger, Formed
    <3> QED BY <1>6, <3>1, <3>2
  <2>3. Rests(d) BY <1>2, <1>3, <2>1, <2>2 DEF Rests
  <2> QED BY <1>0, <2>3, RestsStream
<1> QED BY <1>5, <1>6, <1>c DEF HandleConn

LEMMA DoPendingFlow ==
    ASSUME FlowInv, NEW l \in Loop, DoPendingFunctors(l), NEW d \in Conn
    PROVE  Stream(d)'
<1>0. DataInv /\ OwnershipInv /\ Stream(d) BY DEF FlowInv, ClockInv, DataInv
<1>1. PICK bad : Begun(l, Waiting(l), bad) BY <1>0, BegunFacts
<1>2. Formed(data[d]) BY <1>0 DEF DataInv, ObjectInv
<1>3. data'[d].err = data[d].err /\ data'[d].out = data[d].out /\ data'[d].n = data[d].n
  BY <1>1, <1>2, FieldNames DEF Begun, Formed
<1>4. Rests(d) BY <1>1, <1>3 DEF Rests, Begun
<1> QED BY <1>0, <1>4, RestsStream

LEMMA HandleExpiredFlow ==
    ASSUME FlowInv, NEW l \in Loop, HandleExpired(l), NEW d \in Conn
    PROVE  Stream(d)'
<1>0. DataInv /\ OwnershipInv /\ Stream(d) /\ UNCHANGED cur
  BY DEF FlowInv, ClockInv, DataInv, HandleExpired
<1>1. PICK K, N : Close(l, K, N) BY DEF HandleExpired
<1>2. PICK Dead \in SUBSET K : Closed(l, K, N, Dead) BY <1>1, CloseFacts
<1>3. Formed(data[d]) BY <1>0 DEF DataInv, ObjectInv
<1>4. sock'[d].sent = sock[d].sent BY <1>2 DEF Closed, Fresh
<1>5. d \in Dead => life'[d] = "closed" BY <1>2 DEF Closed
<1>6. d \notin Dead => /\ life'[d] = life[d] /\ data'[d].err = data[d].err
                       /\ data'[d].out = data[d].out /\ data'[d].n = data[d].n
  BY <1>2, <1>3, FieldNames DEF Closed, Formed
<1>7. Rests(d) BY <1>0, <1>4, <1>5, <1>6 DEF Rests
<1> QED BY <1>0, <1>7, RestsStream

LEMMA StepFlow == ASSUME NoEcho PROVE FlowInv /\ [PNext]_vars => FlowInv'
<1> SUFFICES ASSUME FlowInv, [PNext]_vars, NEW d \in Conn PROVE Stream(d)'
  BY StepClock DEF FlowInv
<1>0. Stream(d) BY DEF FlowInv
<1>1. ASSUME UNCHANGED <<sock, data, life, cur>> PROVE Stream(d)' BY <1>0, <1>1 DEF Stream
<1>2. CASE UNCHANGED vars BY <1>1, <1>2 DEF vars, object, thread
<1>3. CASE Tick BY <1>1, <1>3 DEF Tick, object, thread
<1>4. CASE ServerStep
  <2>1. CASE AcceptEvent BY <1>1, <2>1 DEF AcceptEvent, object, thread
  <2>2. CASE AcceptEnds BY <1>1, <2>2 DEF AcceptEnds, object, thread
  <2>3. ASSUME NEW c \in Conn, Deal(c) \/ Refuse(c) \/ NonBlockFails(c) PROVE Stream(d)' BY <2>3, AcceptFlow
  <2> QED BY <1>4, <2>1, <2>2, <2>3 DEF ServerStep
<1>5. ASSUME NEW l \in Loop, LoopStep(l) PROVE Stream(d)'
  <2>1. CASE Poll(l) BY <1>1, <2>1 DEF Poll, object
  <2>2. CASE HandleConn(l) BY <2>2, HandleConnFlow
  <2>3. CASE DoPendingFunctors(l) BY <2>3, DoPendingFlow
  <2>4. CASE HandleExpired(l) BY <2>4, HandleExpiredFlow
  <2>5. ASSUME NEW b \in batch[l], HandleEvents(l, b[1], b[2]) PROVE Stream(d)' BY <2>5, EventsFlow
  <2> QED BY <1>5, <2>1, <2>2, <2>3, <2>4, <2>5 DEF LoopStep
<1>6. ASSUME NEW c \in Conn, ClientStep(c) PROVE Stream(d)'
  BY <1>6, AcceptFlow, ClientFlow DEF ClientStep
<1> QED BY <1>2, <1>3, <1>4, <1>5, <1>6 DEF PNext

\* A client gets the pieces of its responses in order, none twice and none left out: handleWrite
\* takes from the front of outBuffer_ what the socket has room for, analysisRequest puts a response
\* at the end, and handleError's page, which goes past outBuffer_, is the last thing written.  No
\* client asks for the echo, which takes the place of what is still to be written.
THEOREM PiecesComeInOrder == ASSUME NoEcho PROVE PSpec => []PiecesInOrder
<1>1. PInit => FlowInv
  <2>1. PInit => ClockInv BY InitInv, InitData, InitClock DEF ClockInv, DataInv
  <2> QED BY <2>1, InitFlow DEF FlowInv
<1>2. FlowInv /\ [PNext]_vars => FlowInv' BY StepFlow
<1>3. FlowInv => PiecesInOrder
  <2> SUFFICES ASSUME FlowInv, NEW c \in Conn, NEW i \in 1..Len(sock[c].sent)
               PROVE  \/ sock[c].sent[i] = <<((i - 1) \div RespLen) + 1, ((i - 1) % RespLen) + 1>>
                      \/ i = Len(sock[c].sent) /\ sock[c].sent[i][1] = 0
    BY DEF PiecesInOrder
  <2>1. Ordered(sock[c].sent) BY DEF FlowInv, Stream
  <2> QED BY <2>1 DEF Ordered, Nth
<1> QED BY <1>1, <1>2, <1>3, PTL DEF PSpec
=============================================================================
