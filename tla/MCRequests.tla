----------------------------- MODULE MCRequests -----------------------------
(* Instances of Requests for TLC. *)
EXTENDS Requests

Line(method, target) == <<method, "sp", target, "sp", "HTTP/1.1", "cr", "lf">>
Header(key, value) == <<key, ":", "sp">> \o value \o <<"cr", "lf">>
Blank == <<"cr", "lf">>

\* What comes back: a POST's body, nothing for a HEAD, a file or an error page otherwise.
Size(line, body) == CASE line[1] = "POST" -> Len(body) [] line[1] = "HEAD" -> 0 [] OTHER -> 1

Req(line, headers, body, status, keep, goes, wraps) ==
    LET wire == line \o headers \o Blank \o body
    IN  [wire |-> wire, line |-> Find(line, {"cr"}, 1), due |-> Len(wire), status |-> status,
         keep |-> keep, goes |-> goes, size |-> Size(line, body), wraps |-> wraps]

Host == Header("Host", <<"v">>)
Good(line, headers, body, status) == Req(line, headers, body, status, TRUE, TRUE, FALSE)
Bad(line, headers, body) == Req(line, headers, body, 0, FALSE, FALSE, FALSE)

CoroutineRequests == {
    Good(Line("GET", "/a"), << >>, << >>, 200),
    Good(Line("HEAD", "/gone"), Host, << >>, 404),
    Good(Line("GET", "/up"), Header("Connection", <<"keep-alive">>), << >>, 400),
    Good(Line("POST", "/a?q"), Host \o Header("Content-Length", <<"two">>), <<"cr", "lf">>, 200),
    Req(Line("GET", "/"), Header("Connection", <<"keep-alive", "sp", "Close">>), << >>, 200, FALSE, FALSE, FALSE),
    Bad(<<"GET", "sp", "HTTP/1.1", "cr", "lf">>, Host, << >>),
    Bad(Line("POST", "/a"), Header("Content-length", <<"v">>), << >>),
    Req(Line("POST", "/favicon.ico"), Header("Content-Length", <<"neg">>), << >>, 200, TRUE, TRUE, TRUE)}

\* keep: the request asks for it with its own header.
Epoll(line, headers, body, status, keep) == Req(line, headers, body, status, keep, status = 200, FALSE)

EpollRequests == {
    Epoll(Line("GET", "/a"), Host, << >>, 200, FALSE),
    Epoll(Line("HEAD", "/locked"), Host \o Header("Connection", <<"keep-alive">>), << >>, 200, TRUE),
    Epoll(Line("GET", "/locked"), Header("Connection", <<"keep-alive">>), << >>, 404, TRUE),
    Epoll(Line("GET", "/hello"), Host, << >>, 200, FALSE),
    Epoll(Line("GET", "/gone"), Host, << >>, 404, FALSE),
    Epoll(Line("POST", "/a"), Header("Content-length", <<"two">>), <<"x", "x">>, 0, FALSE),
    Epoll(Line("POST", "/a"), Header("Content-Length", <<"two">>), <<"x", "x">>, 400, FALSE),
    Epoll(Line("POST", "/a"), Header("Content-length", <<"v">>), <<"x">>, 0, FALSE),
    Epoll(Line("GET", "/a"), << >>, << >>, 0, FALSE),
    Epoll(Line("GET", "/a"), Header("Host", <<"v", "v", "v", "v">>), << >>, 400, FALSE),
    [Epoll(<<"GET", "sp", "HTTP/9", "cr", "lf">>, Host, << >>, 400, FALSE) EXCEPT !.due = 4]}

\* All sequences of one or two requests.
OneOrTwo(R) == {<<r>> : r \in R} \cup (R \X R)
MCPlans == [coroutine |-> OneOrTwo(CoroutineRequests), epoll |-> OneOrTwo(EpollRequests)]
=============================================================================
