---------------------------- MODULE HttpRequest ----------------------------
(***************************************************************************)
(* Requests and responses of the coroutine server: try_parse_request on    *)
(* the buffer of a connection, keep_alive, build_response and to_wire.     *)
(***************************************************************************)
EXTENDS Tokens

CONSTANT SizeMax    \* size_t goes from 0 to SizeMax - 1

ASSUME SizeMaxAssumption == SizeMax \in Nat \ {0}

NoRequest == [ok |-> FALSE]

\* trim: no white space at either end.
Trim(s) ==
    LET I == {i \in 1..Len(s) : s[i] \notin {"sp", "cr", "lf"}}
    IN  IF I = {} THEN << >> ELSE SubSeq(s, Least(I), CHOOSE i \in I : \A j \in I : i >= j)

\* to_lower, of the words that are compared.
Lower(t) ==
    CASE t = "Connection" -> "connection"
      [] t \in {"Content-Length", "Content-length"} -> "content-length"
      [] t = "Close" -> "close"
      [] OTHER -> t

LowerAll(s) == [i \in DOMAIN s |-> Lower(s[i])]

\* next_token: where the first word from pos on begins, and where it ends.
WordBegin(line, pos) == Least({i \in pos..Len(line) : line[i] # "sp"} \cup {Len(line) + 1})
WordEnd(line, pos)   == Least({i \in WordBegin(line, pos)..Len(line) : line[i] = "sp"} \cup {Len(line) + 1})
NextToken(line, pos) == SubSeq(line, WordBegin(line, pos), WordEnd(line, pos) - 1)

\* The header lines between the request line and the blank one.
HeaderLines(block, from) ==
    LET starts == {from} \cup {i + 2 : i \in {j \in from..(Len(block) - 1) : SubSeq(block, j, j + 1) = <<"cr", "lf">>}}
    IN  {[at |-> i, line |-> SubSeq(block, i, FindSeq(block, <<"cr", "lf">>, i) - 1)] :
            i \in {j \in starts : FindSeq(block, <<"cr", "lf">>, j) # 0}}

\* The value of the first header of that name, or nothing.
HeaderValue(lines, name) ==
    LET H == {h \in lines : /\ Find(h.line, {":"}, 1) # 0
                            /\ LowerAll(Trim(SubSeq(h.line, 1, Find(h.line, {":"}, 1) - 1))) = <<name>>}
    IN  IF H = {} THEN << >>
        ELSE LET h == CHOOSE x \in H : \A y \in H : x.at <= y.at
             IN  <<Trim(From(h.line, Find(h.line, {":"}, 1) + 1))>>

\* stoul, which takes a minus sign and wraps; other words make it throw.
Stoul(v) ==
    CASE v = <<"two">> -> 2
      [] v = <<"neg">> -> SizeMax - 1
      [] OTHER         -> -1

\* strip_query.
StripQuery(target) == IF target = <<"/a?q">> THEN <<"/a">> ELSE target

\* How far a request reaches, in size_t.
RequestSize(header, size) == (header + size) % SizeMax

\* Where the blank line begins.
HeaderEnd(s) == FindSeq(s, <<"cr", "lf", "cr", "lf">>, 1)

\* What the request line and the headers say.  A size below 0 stands for the exception of stoul.
ParsedHead(s) ==
    LET lineEnd   == FindSeq(s, <<"cr", "lf">>, 1)
        line      == SubSeq(s, 1, lineEnd - 1)
        lines     == HeaderLines(SubSeq(s, 1, HeaderEnd(s) + 1), lineEnd + 2)
        length    == HeaderValue(lines, "content-length")
    IN  [method |-> NextToken(line, 1), target |-> StripQuery(NextToken(line, WordEnd(line, 1))),
         version |-> NextToken(line, WordEnd(line, WordEnd(line, 1))),
         connection |-> HeaderValue(lines, "connection"),
         size |-> IF length = << >> THEN 0 ELSE Stoul(length[1])]

Malformed(h) == h.version = << >> \/ h.size < 0

TryParse(s) ==
    LET h        == ParsedHead(s)
        header   == HeaderEnd(s) + 3
        consumed == RequestSize(header, h.size)
        bodyEnd  == Least({header + h.size, Len(s)})
    IN  IF HeaderEnd(s) = 0 \/ Malformed(h) \/ Len(s) < consumed THEN NoRequest
        ELSE [ok |-> TRUE, method |-> h.method, target |-> h.target, version |-> h.version,
              connection |-> h.connection,
              body |-> SubSeq(s, header + 1, bodyEnd), consumed |-> consumed]

\* A "close" among the words of the header wins over a "keep-alive".
KeepAlive(r) ==
    LET v == IF r.connection = << >> THEN << >> ELSE LowerAll(r.connection[1])
    IN  CASE Find(v, {"close"}, 1) # 0      -> FALSE
          [] Find(v, {"close"}, 1) = 0 /\ Find(v, {"keep-alive"}, 1) # 0 -> TRUE
          [] OTHER -> r.version = <<"HTTP/1.1">>

\* resolve_path and load_file: the file behind a target.
Resolve(target) ==
    CASE target = <<"/up">>          -> "unsafe"     \* has a .. in it
      [] target \in {<<"/">>, <<"/a">>} -> "file"
      [] target = <<"/favicon.ico">> -> "icon"       \* a file, or else fallback_favicon
      [] OTHER                       -> "missing"

\* to_wire: the Content-Length is that of the body, which a HEAD does not get.
ToWire(r, length) == [length |-> length, body |-> IF r.method = <<"HEAD">> THEN 0 ELSE length]

\* build_response: a POST gets its body back; other bodies have length 1.
BuildResponse(r) ==
    LET status == IF r.method = <<"POST">> \/ r.target = <<"/hello">> THEN 200
                  ELSE CASE Resolve(r.target) = "unsafe"  -> 400
                         [] Resolve(r.target) = "missing" -> 404
                         [] OTHER -> 200
        wire   == ToWire(r, IF r.method = <<"POST">> THEN Len(r.body) ELSE 1)
    IN  [status |-> status, keep |-> KeepAlive(r), length |-> wire.length, body |-> wire.body]
=============================================================================
