--------------------------- MODULE MCEpollServer ---------------------------
(* Instances of EpollServer for TLC. *)
EXTENDS EpollServer

CONSTANTS c1, c2

MCConn == {c1, c2}
MCTalkers == {c1}

Line   == <<"GET", "sp", "/a", "sp", "HTTP/1.1", "cr", "lf">>
Header(key, value) == <<key, ":", "sp", value, "cr", "lf">>
Blank  == <<"cr", "lf">>

Keep  == Line \o Header("Connection", "keep-alive") \o Blank
Plain == Line \o Header("Host", "v") \o Blank

\* A request that keeps the connection alive; a request with the first line of another one, and
\* between them the token that goes with the end of the headers.
MCPieces == {Keep, Plain \o <<"lf">> \o Line}
=============================================================================
