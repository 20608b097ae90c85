------------------------------ MODULE HttpData ------------------------------
(***************************************************************************)
(* HttpData of the epoll server: what its handlers do to one connection    *)
(* object.  A connection is a record; a handler is an operator from        *)
(* records to records, and the modules that use it supply the socket.      *)
(*                                                                         *)
(* Positions are the code's plus one, so that 0 stands for its -1 and for  *)
(* its npos.                                                               *)
(***************************************************************************)
EXTENDS Tokens

CONSTANTS
    RespLen,     \* pieces of a response
    MaxValue     \* the length of a header's value beyond which it is refused

ASSUME HttpDataConstants == RespLen \in Nat \ {0} /\ MaxValue \in Nat

Targets  == {"/a", "/hello", "/gone", "/locked"}   \* a file, the echo, no file, a file that does not open
Versions == {"HTTP/1.1"}
Slashed  == Targets \cup Versions \cup {"HTTP/9"}
Numbers  == [two |-> 2, neg |-> -1]                \* the values stoi can convert
NoHeaders == [k \in {"Connection", "Content-length"} |-> "none"]

\* The constructor: a connection before newEvent.
New == [buf |-> << >>, out |-> << >>, state |-> "uri", hs |-> "start", headers |-> NoHeaders,
        method |-> "GET", file |-> "/a", keep |-> FALSE, err |-> FALSE, cstate |-> "connected",
        ev |-> {}, last |-> {}, page |-> 0, n |-> 0, again |-> FALSE, dead |-> FALSE]

\* handleError: the page goes straight to the socket, past outBuffer_.
HandleError(d, code) == [d EXCEPT !.err = TRUE, !.page = code]

-----------------------------------------------------------------------------
(* parseURI                                                                *)

MethodIn(line) ==
    LET M == {m \in {"GET", "POST", "HEAD"} : Find(line, {m}, 1) # 0}
    IN  IF "GET" \in M THEN "GET" ELSE IF "POST" \in M THEN "POST" ELSE IF "HEAD" \in M THEN "HEAD" ELSE "none"

\* The line ends at the first \r.  Without one, pos is npos: pos < 0 is never true of a size_t,
\* the line is everything there is, and pos + 1 is 0, so that nothing of it is taken out.  The
\* same goes for a missing slash or space: the version is then looked for in vain.
ParseURI(d) ==
    LET cr      == Find(d.buf, {"cr"}, 1)
        line    == IF cr = 0 THEN d.buf ELSE SubSeq(d.buf, 1, cr - 1)
        target  == Find(line, Slashed, Find(line, {MethodIn(line)}, 1))
        version == Find(line, Slashed, Find(line, {"sp"}, target))
    IN  IF version # 0 /\ line[version] \in Versions
        THEN [d EXCEPT !.buf = IF cr = 0 THEN @ ELSE From(@, cr + 1), !.method = MethodIn(line),
                       !.file = line[target], !.state = "headers"]
        ELSE HandleError([d EXCEPT !.buf = << >>], 400)

-----------------------------------------------------------------------------
(* parseHeaders: hState_ outlives the call, the positions do not           *)

ScanStart(d) == [hs |-> d.hs, headers |-> d.headers, ks |-> 0, ke |-> 0, vs |-> 0, ve |-> 0,
                 begin |-> 1, i |-> 0, fin |-> FALSE, bad |-> FALSE]

\* A header is stored under the text between the positions.  A position that was set by an
\* earlier call is -1 now: the key is then empty, or begins before the buffer, and is none
\* that anybody asks for.
Stored(h, s) ==
    LET key   == SubSeq(s, h.ks, h.ke - 1)
        value == SubSeq(s, h.vs, h.ve - 1)
    IN  IF h.ks > 0 /\ Len(key) = 1 /\ key[1] \in DOMAIN NoHeaders
        THEN [h.headers EXCEPT ![key[1]] = IF Len(value) = 1 THEN value[1] ELSE "other"]
        ELSE h.headers

Step(h, s, i) ==
    LET c  == s[i]
        no == [h EXCEPT !.bad = TRUE]
    IN  CASE h.hs = "start"  -> IF c \in {"cr", "lf"} THEN h ELSE [h EXCEPT !.hs = "key", !.ks = i, !.begin = i]
          [] h.hs = "key"    -> IF c = ":" /\ i > h.ks THEN [h EXCEPT !.hs = "colon", !.ke = i]
                                ELSE IF c \in {":", "cr", "lf"} THEN no ELSE h
          [] h.hs = "colon"  -> IF c = "sp" THEN [h EXCEPT !.hs = "spaces"] ELSE no
          [] h.hs = "spaces" -> [h EXCEPT !.hs = "value", !.vs = i]
          [] h.hs = "value"  -> IF c = "cr" THEN [h EXCEPT !.hs = "cr", !.ve = i]
                                ELSE IF i - h.vs > MaxValue THEN no ELSE h
          [] h.hs = "cr"     -> IF c = "lf" THEN [h EXCEPT !.hs = "lf", !.headers = Stored(h, s), !.begin = i] ELSE no
          [] h.hs = "lf"     -> IF c = "cr" THEN [h EXCEPT !.hs = "endcr"] ELSE [h EXCEPT !.hs = "key", !.ks = i]
          [] h.hs = "endcr"  -> IF c = "lf" THEN [h EXCEPT !.hs = "endlf"] ELSE no
          [] h.hs = "endlf"  -> [h EXCEPT !.fin = TRUE, !.ks = i, !.begin = i]

\* The loop; i is the number of tokens it has gone past.
Advance(h, s, i) == IF h.fin \/ h.bad THEN h ELSE [Step(h, s, i) EXCEPT !.i = i]

Scan(d) ==
    LET f[i \in 0..Len(d.buf)] == IF i = 0 THEN ScanStart(d) ELSE Advance(f[i - 1], d.buf, i)
    IN  f[Len(d.buf)]

\* Behind the loop.  The blank line's end is noticed only at the token behind it, which goes with it.
Scanned(d, h) ==
    LET e == [d EXCEPT !.hs = h.hs, !.headers = h.headers]
    IN  IF h.bad THEN HandleError(e, 400)
        ELSE IF h.hs = "endlf"
        THEN [e EXCEPT !.buf = From(@, h.i + 1), !.state = IF d.method = "POST" THEN "body" ELSE "analysis"]
        ELSE [e EXCEPT !.buf = From(@, h.begin)]

ParseHeaders(d) == Scanned(d, Scan(d))

\* stoi throws, and nobody catches it, if the value is no number.
ReceiveBody(d) ==
    LET v == d.headers["Content-length"]
    IN  IF v = "none" THEN HandleError(d, 400)
        ELSE IF v \notin DOMAIN Numbers THEN [d EXCEPT !.dead = TRUE]
        ELSE IF Len(d.buf) < Numbers[v] THEN d
        ELSE [d EXCEPT !.state = "analysis"]

-----------------------------------------------------------------------------
(* analysisRequest                                                         *)

Response(n) == [i \in 1..RespLen |-> <<n, i>>]

\* The echo takes the place of what is still to be written; so does a file that does not open.
AnalysisRequest(d) ==
    LET e == [d EXCEPT !.keep = @ \/ d.headers["Connection"] = "keep-alive", !.n = @ + 1]
    IN  CASE d.method = "POST" -> [d EXCEPT !.err = TRUE, !.n = @ + 1]
          [] d.method # "POST" /\ d.file = "/gone" -> HandleError(e, 404)
          [] d.method = "GET" /\ d.file = "/locked" -> HandleError([e EXCEPT !.out = << >>], 404)
          [] d.method # "POST" /\ d.file = "/hello" -> [e EXCEPT !.out = Response(e.n), !.state = "finish"]
          [] OTHER -> [e EXCEPT !.out = @ \o Response(e.n), !.state = "finish"]

\* A stage acts on a connection that has come to it and has not failed.
At(d, state) == d.state = state /\ ~ d.err /\ ~ d.dead
URIStage(d)      == IF At(d, "uri") THEN ParseURI(d) ELSE d
HeaderStage(d)   == IF At(d, "headers") THEN ParseHeaders(d) ELSE d
BodyStage(d)     == IF At(d, "body") THEN ReceiveBody(d) ELSE d
AnalysisStage(d) == IF At(d, "analysis") THEN AnalysisRequest(d) ELSE d

\* The first half of handleRead: what readn has read, up to its end (zero) or its failure.
Parse(d, read, zero, fails) ==
    LET r == [d EXCEPT !.buf = @ \o read, !.page = 0, !.again = FALSE]
        z == IF zero THEN [r EXCEPT !.cstate = "disconnecting"] ELSE r
    IN  IF d.cstate = "disconnecting" THEN [r EXCEPT !.buf = << >>]
        ELSE IF fails THEN HandleError(r, 400)
        ELSE IF zero /\ read = << >> THEN z
        ELSE AnalysisStage(BodyStage(HeaderStage(URIStage(z))))

\* How many pieces handleWrite writes, with room for so many in the socket.
Written(d, room, fails) ==
    IF d.err \/ d.cstate = "disconnected" \/ fails THEN 0 ELSE Least({room, Len(d.out)})

\* A slip: what the socket has no room for is dropped with what is written.
HandleWriteOnce(d, room, fails) ==
    IF d.err \/ d.cstate = "disconnected" THEN d
    ELSE IF fails /\ d.out # << >> THEN [d EXCEPT !.ev = {"out"}, !.err = TRUE]
    ELSE [d EXCEPT !.out = << >>]

\* handleWrite; a failing write drops nothing.
HandleWrite(d, room, fails) ==
    IF d.err \/ d.cstate = "disconnected" THEN d
    ELSE IF fails /\ d.out # << >> THEN [d EXCEPT !.ev = {"out"}, !.err = TRUE]
    ELSE LET rest == From(d.out, Written(d, room, fails) + 1)
         IN  [d EXCEPT !.out = rest, !.ev = IF rest # << >> THEN @ \cup {"out"} ELSE @]

\* A slip: hState_ is not set back.
ResetHalf(d) == [d EXCEPT !.file = "/a", !.state = "uri", !.headers = NoHeaders,
                          !.again = d.buf # << >> /\ d.cstate # "disconnecting"]

\* reset, but for the timer.  keepAlive_ and inBuffer_ stay.
Reset(d) == [d EXCEPT !.file = "/a", !.state = "uri", !.hs = "start", !.headers = NoHeaders,
                      !.again = d.buf # << >> /\ d.cstate # "disconnecting"]

\* The second half of handleRead.
AfterRead(d, room, fails) ==
    IF d.err THEN d
    ELSE LET w == IF d.out # << >> THEN HandleWrite(d, room, fails) ELSE d
         IN  IF w.err THEN w
             ELSE IF w.state = "finish" THEN Reset(w)
             ELSE [w EXCEPT !.ev = IF w.cstate # "disconnected" THEN @ \cup {"in"} ELSE @]

HandleRead(d, read, zero, fails, room, wfails) == AfterRead(Parse(d, read, zero, fails), room, wfails)
=============================================================================
