------------------------------- MODULE Tokens -------------------------------
(***************************************************************************)
(* A byte stream as both servers' parsers see it: a sequence of tokens.    *)
(* Words are "GET", "/a", "HTTP/1.1", "Connection", "close", ...; the      *)
(* others are "sp", ":", "cr" and "lf".  A read may cut the stream between *)
(* any two tokens.  Positions are the code's plus one, so that 0 stands    *)
(* for npos.                                                               *)
(***************************************************************************)
EXTENDS Integers, Sequences

Least(I) == CHOOSE i \in I : \A j \in I : i <= j

\* std::string::find of a character: the first position from which s holds a token of S.
Find(s, S, from) ==
    LET I == {i \in from..Len(s) : s[i] \in S}
    IN  IF from = 0 \/ I = {} THEN 0 ELSE Least(I)

\* std::string::find of a string.
FindSeq(s, p, from) ==
    LET I == {i \in from..(Len(s) - Len(p) + 1) : SubSeq(s, i, i + Len(p) - 1) = p}
    IN  IF I = {} THEN 0 ELSE Least(I)

From(s, i) == SubSeq(s, i, Len(s))
=============================================================================
