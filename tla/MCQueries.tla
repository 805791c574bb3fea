----------------------------- MODULE MCQueries -----------------------------
(* A finite instance of Queries for TLC. *)
EXTENDS Queries, TLC

\* Codes of the characters used below.
a == 97
b == 98
d == 100
A == 65
Dot == 46

\* a  a/b  a/b/d  A/b  a0  a.b  a_/b  ab/b
MCKeys ==
  {<<a>>, <<a, Slash, b>>, <<a, Slash, b, Slash, d>>, <<A, Slash, b>>, <<a, Zero>>,
   <<a, Dot, b>>, <<a, Underscore, Slash, b>>, <<a, b, Slash, b>>}

\* (root)  a/  a/b/  A/  a_/  ab/
MCPrefixes ==
  {<<>>, <<a, Slash>>, <<a, Slash, b, Slash>>, <<A, Slash>>, <<a, Underscore, Slash>>,
   <<a, b, Slash>>}

MCValues == {<<>>, <<1, 2, 3>>}
OneValue == {<<1, 2, 3>>}

\* Inside a value of three bytes, up to its end, across it and behind it.
MCRequested ==
  {<<FromStart(0, 1), FromStart(1, Null), FromStart(1, 2), Suffix(2), Suffix(3)>>,
   <<FromStart(2, 5), FromStart(3, Null), FromStart(5, 1), FromStart(1, 0), Suffix(5)>>,
   <<Suffix(0)>>, <<FromStart(0, Null)>>, <<>>}
=============================================================================
