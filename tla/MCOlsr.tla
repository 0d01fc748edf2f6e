------------------------------- MODULE MCOlsr -------------------------------
(***************************************************************************)
(* Instances of Olsr for TLC: networks to start from.                      *)
(***************************************************************************)
EXTENDS Olsr

CONSTANTS a, b, c, d   \* the routers, named so that networks can be written down

Both(x, y) == {<<x, y>>, <<y, x>>}

Pair == Both(a, b)
Line == Both(a, b) \cup Both(b, c)
Triangle == Line \cup Both(a, c)
LongLine == Both(a, d) \cup Both(d, b) \cup Both(b, c)
Ring == LongLine \cup Both(c, a)

New(links, failing) ==
    [on |-> {p[1] : p \in links}, near |-> links, failures |-> failing,
     informed |-> FALSE, late |-> {}]
Settled(links, failing, late) ==
    [New(links, failing) EXCEPT !.informed = TRUE, !.late = late]

\* Routers that meet; two that meet and part; a line and a triangle that lose a link;
\* a longer line and a ring that stay as they are.
Networks ==
    {New(Line, 0), New(Pair, 1),
     Settled(Line, 1, {<<b, a>>, <<c, b>>}),
     Settled(Triangle, 1, {<<a, b>>, <<b, c>>, <<c, a>>}),
     Settled(LongLine, 0, {}), Settled(Ring, 0, {})}

\* d is always willing to be a relay.
MCWillingness == [n \in Node |-> IF n = d THEN WILL_ALWAYS ELSE 3]
=============================================================================
