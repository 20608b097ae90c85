------------------------------ MODULE Requests ------------------------------
(***************************************************************************)
(* One connection of either server and a client that sends a sequence of   *)
(* requests, which arrive in pieces cut anywhere: read_request and         *)
(* handle_connection of the coroutine server, handleRead of the epoll      *)
(* server.  Each request comes with what it means: its reference.          *)
(***************************************************************************)
EXTENDS HttpRequest, HttpData, FiniteSets

\* A request is a record: its tokens (wire); how many of them are its line, with the \r (line)
\* and how many must be there to answer it (due); the answer's status, or 0 if there is none;
\* whether it keeps the connection alive, whether the connection goes on behind it; the length of
\* the answer's body (size); and whether the sum of its lengths wraps around.
CONSTANTS
    Plans,      \* per server, the sequences of requests a client may send
    MaxAnswers  \* bound: answers to a connection (a request that is not taken out is answered again)

Request == [wire : Seq(STRING), line : Nat, due : Nat, status : Nat, keep : BOOLEAN, goes : BOOLEAN,
            size : Nat, wraps : BOOLEAN]

ASSUME PlansAssumption ==
    /\ DOMAIN Plans = {"coroutine", "epoll"} /\ MaxAnswers \in Nat
    /\ \A s \in DOMAIN Plans : \A p \in Plans[s] : p \in Seq(Request)

-----------------------------------------------------------------------------
(* A request's reference is what it leads to when it comes alone           *)

\* To the coroutine server, whole: it is parsed to its end, or never, and answered.
MeansToCoroutine(r) ==
    LET q == TryParse(r.wire)
        a == BuildResponse(q)
    IN  /\ r.due = Len(r.wire)
        /\ HeaderEnd(r.wire) + 3 + ParsedHead(r.wire).size < SizeMax
        /\ IF r.status = 0
           THEN HeaderEnd(r.wire) # 0 /\ Malformed(ParsedHead(r.wire)) /\ ~ r.goes
           ELSE /\ q.ok /\ q.consumed = Len(r.wire)
                /\ a.status = r.status /\ a.keep = r.keep /\ a.body = r.size
                /\ r.goes = r.keep

\* What one call of handleRead has answered.
Answer(d, e) ==
    IF e.page # 0 THEN <<[status |-> e.page, keep |-> e.keep]>>
    ELSE IF e.n > d.n /\ ~ e.err THEN <<[status |-> 200, keep |-> e.keep]>>
    ELSE << >>

\* handleRead with the given tokens from a socket that is always ready for output.
Reads(d, s, zero) == HandleRead(d, s, zero, FALSE, RespLen, FALSE)

\* A POST that waits for more of its body, whose first byte has gone with the headers.
Stuck(e) == e.state = "body" /\ e.method = "POST" /\ e.headers["Content-length"] \in DOMAIN Numbers

\* A new connection has read the request: it has answered it, and is ready for another one, fails or is stuck.
Answered(r, e) ==
    /\ Answer(New, e) = IF r.status = 0 THEN << >> ELSE <<[status |-> r.status, keep |-> r.keep]>>
    /\ IF r.goes THEN ~ e.err /\ ~ e.dead /\ e.state = "uri" /\ e.buf = << >>
       ELSE e.err \/ e.dead \/ (Stuck(e) /\ r.status = 0)

\* It has not read all of it, and has neither answered nor failed.
Waits(e) == e.page = 0 /\ e.n = 0 /\ ~ e.err /\ ~ e.dead /\ e.state # "uri"

\* A request with a header.
Headed(r) == Len(r.wire) > r.line + 3

\* To the epoll server, whole, or its line first.  That of a bad line is due with the line.
MeansToEpoll(r) ==
    LET l == Reads(New, SubSeq(r.wire, 1, r.line), FALSE)
    IN  /\ r.line \in 1..(Len(r.wire) - 1)
        /\ r.due \in {r.line, Len(r.wire)}
        /\ r.goes => r.status # 0 /\ r.due # r.line
        /\ IF r.due = r.line THEN Answered(r, l) ELSE Waits(l)
        /\ Headed(r) => /\ Answered(r, Reads(New, r.wire, FALSE))
                        /\ r.due # r.line => Answered(r, Reads(l, From(r.wire, r.line + 1), FALSE))

ASSUME RequestsAlone ==
    /\ \A p \in Plans["coroutine"] : \A n \in 1..Len(p) : ~ p[n].wraps => MeansToCoroutine(p[n])
    /\ \A p \in Plans["epoll"] : \A n \in 1..Len(p) : MeansToEpoll(p[n])

-----------------------------------------------------------------------------

VARIABLES
    server,     \* which server this is
    plan,       \* the requests the client sends
    received,   \* tokens the server has received
    buffer,     \* handle_connection's buffer
    data,       \* the HttpData of the epoll server
    answers,    \* the answers so far: status and keep-alive, and of the coroutine server the body
    open,       \* the connection is not closed
    whole       \* every read so far ended behind a request line or a request (history)

rvars == <<server, plan, received, buffer, data, answers, open, whole>>

\* The stream of the first n requests of the plan, and of all of them.
Wire(n) ==
    LET f[k \in 0..n] == IF k = 0 THEN << >> ELSE f[k - 1] \o plan[k].wire
    IN  f[n]
Stream  == Wire(Len(plan))

RInit ==
    /\ server \in DOMAIN Plans
    /\ plan \in Plans[server]
    /\ received = 0
    /\ buffer = << >>
    /\ data = New
    /\ answers = << >>
    /\ open = TRUE
    /\ whole = TRUE

\* The next k tokens.
Piece(k) == SubSeq(Stream, received + 1, received + k)

-----------------------------------------------------------------------------
(* The coroutine server                                                    *)

\* No request in the buffer: receive.
Receive(k) ==
    /\ server = "coroutine" /\ open
    /\ ~ TryParse(buffer).ok
    /\ buffer' = buffer \o Piece(k)
    /\ received' = received + k
    /\ UNCHANGED <<server, plan, data, answers, open, whole>>

\* A slip: what follows the request is dropped with it.
ServeAll ==
    /\ server = "coroutine" /\ open /\ Len(answers) < MaxAnswers
    /\ TryParse(buffer).ok
    /\ buffer' = << >>
    /\ answers' = Append(answers, BuildResponse(TryParse(buffer)))
    /\ open' = KeepAlive(TryParse(buffer))
    /\ UNCHANGED <<server, plan, received, data, whole>>

\* A request is in the buffer: take it out, answer it, and go on or close.
Serve ==
    /\ server = "coroutine" /\ open /\ Len(answers) < MaxAnswers
    /\ LET r == TryParse(buffer)
       IN  /\ r.ok
           /\ buffer' = From(buffer, r.consumed + 1)
           /\ answers' = Append(answers, BuildResponse(r))
           /\ open' = KeepAlive(r)
    /\ UNCHANGED <<server, plan, received, data, whole>>

-----------------------------------------------------------------------------
(* The epoll server                                                        *)

\* A read of k tokens that is a request line, the rest of a request, or a whole one.
Uncut(k) ==
    LET starts == {Len(Wire(n)) : n \in 0..(Len(plan) - 1)}
        lines  == {Len(Wire(n - 1)) + plan[n].line : n \in 1..Len(plan)}
    IN  /\ received \in starts \cup lines
        /\ received + k \in starts \cup lines \cup {Len(Stream)}
        /\ \A b \in starts : b \notin (received + 1)..(received + k - 1)

\* handleRead with the next k tokens, then handleConn.
Read(k) ==
    /\ server = "epoll" /\ open
    /\ received' = received + k
    /\ whole' = (whole /\ (k = 0 \/ Uncut(k)))
    /\ \E zero \in {FALSE} \cup {received + k = Len(Stream)} :
          LET e == Reads(data, Piece(k), zero)
          IN  /\ data' = e
              /\ answers' = answers \o Answer(data, e)
              /\ open' = (~ e.err /\ ~ e.dead /\ (e.again \/ e.cstate = "connected"))
    /\ UNCHANGED <<server, plan, buffer>>

ReadEvent(k) == k > 0 /\ ~ data.again /\ Read(k)

\* The call of handleRead at its end, which may find more in the socket.
ReadAgain(k) == data.again /\ Read(k)

RNext ==
    \E k \in 0..(Len(Stream) - received) :
        \/ k > 0 /\ Receive(k)
        \/ k = 0 /\ Serve
        \/ ReadEvent(k)
        \/ ReadAgain(k)

RSpec == RInit /\ [][RNext]_rvars

-----------------------------------------------------------------------------
(* Properties                                                              *)

\* The requests that have arrived far enough to be answered, if those before them let it be.
Due == {n \in 1..Len(plan) : /\ Len(Wire(n - 1)) + plan[n].due <= received
                             /\ \A m \in 1..(n - 1) : plan[m].goes}

\* The coroutine server answers exactly the requests that have arrived whole, each with its own
\* status, body and fate, wherever reads cut the stream and however many requests one read holds; a
\* request whose length wraps around (HttpServer.cpp:363) is exempt.
AnswersAreForRequests ==
    (server = "coroutine" /\ (open => ~ TryParse(buffer).ok) /\ \A n \in 1..Len(plan) : ~ plan[n].wraps) =>
        /\ Len(answers) = Cardinality({n \in Due : plan[n].status # 0})
        /\ \A i \in 1..Len(answers) :
              /\ answers[i].status = plan[i].status /\ answers[i].keep = plan[i].keep
              /\ answers[i].body = plan[i].size

\* The epoll server answers exactly the requests that have arrived, if each has a header and no
\* read cuts a request line or a header block or holds more than one request: parser states,
\* headers and methods of one request do not leak into the next.
WholeRequestsAreAnswered ==
    (server = "epoll" /\ whole /\ \A n \in Due : Headed(plan[n])) =>
        /\ Len(answers) = Cardinality({n \in Due : plan[n].status # 0})
        /\ \A i \in 1..Len(answers) :
              answers[i].status = plan[i].status /\ answers[i].keep = \E m \in 1..i : plan[m].keep
=============================================================================
