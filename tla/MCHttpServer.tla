---------------------------- MODULE MCHttpServer ----------------------------
(* The instance of HttpServer for TLC: requests of every route, framed well  *)
(* and badly, and a few tokens.  MaxLine is just enough for the ordinary   *)
(* lines.                                                                    *)
EXTENDS HttpServer

MCSymbols == STRING

Header0(n, v) == [name |-> n, value |-> v]
Length(v) == <<Header0("content-length", <<v>>)>>

Line(m, p, t) ==
  [method |-> m, gap |-> IF p = << >> THEN << >> ELSE <<SP>>, path |-> p, tail |-> t]

Ask(l, hs, b) ==
  [method |-> l.method, gap |-> l.gap, path |-> l.path, tail |-> l.tail,
   headers |-> hs, body |-> b, eol |-> <<CR, LF>>]

Version == <<SP, "HTTP/1.1">>
Get(p) == Line(<<"GET">>, p, Version)
Post == Line(<<"POST">>, <<"/", "v1/chat/completions">>, Version)
Plain == <<"messages">>
Stream == <<"stream", "messages">>

\* A path that is cut where it spells another one, after n blanks; and a method
\* that is cut.
Distant(n) == [Get(<<"/", "health", "z">>) EXCEPT !.gap = [i \in 1..n |-> SP]]
LongMethod == Line([i \in 1..9 |-> "G"], <<"/">>, << >>)

\* A header of exactly MaxLine symbols, one more, and one whose tail looks like
\* a header.
Long(n) == Header0("x", [i \in 1..n |-> "x"])
Tricky == Header0("x", <<"x", "x", "x", "x", "x", "content-length", ":", "1">>)

MCRequests ==
  { Ask(l, << >>, << >>) :
      l \in {Line(<< >>, << >>, << >>), Line(<<"GET">>, << >>, << >>),
             Line(<<"GET">>, <<"/">>, << >>), Get(<<"/", "other">>),
             [Post EXCEPT !.path = <<"/", "health">>],
             Distant(1), Distant(5), Distant(7), LongMethod} }
  \cup { Ask(Post, << >>, << >>),
         Ask(Post, Length("1"), Plain),
         Ask(Post, <<Header0("content-type", <<"json">>), Header0("Content-Length", <<"2">>)>>, Stream),
         Ask(Post, Length("3") \o Length("2"), Stream),
         Ask(Post, <<Header0("content-length", <<"1", "x">>)>>, Stream),
         Ask(Post, Length("3"), Stream) }
  \cup { Ask(Post, Length(v), Plain) : v \in {"-1", "x"} }
  \cup { Ask(Post, <<h>> \o Length("1"), Plain) : h \in {Long(3), Long(4), Long(5), Tricky} }
  \cup { Ask([Post EXCEPT !.tail = Version \o <<SP, "x">>], Length("1"), Plain),
         [Ask(Get(<<"/", "health">>), Length("1"), <<"x">>) EXCEPT !.eol = <<LF>>] }
=============================================================================
