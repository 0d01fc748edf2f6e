----------------------------- MODULE MCCsmaCaMac -----------------------------
(***************************************************************************)
(* Instances of CsmaCaMac for TLC.                                         *)
(***************************************************************************)
EXTENDS CsmaCaMac

CONSTANTS a, b, c

Both(x, y) == {<<x, y>>, <<y, x>>}

\* a and c do not hear each other.
Line == Both(a, b) \cup Both(b, c)

Data(x, y, id) == [type |-> "DATA", from |-> x, to |-> y, id |-> id]

HiddenStations == {Data(a, b, 1), Data(a, b, 2), Data(c, b, 1), Data(c, All, 1)}
=============================================================================
