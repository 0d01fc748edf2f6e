-------------------------------- MODULE MCArp --------------------------------
(***************************************************************************)
(* Instances of Arp for TLC.                                               *)
(***************************************************************************)
EXTENDS Arp

CONSTANTS a, b, c

\* a's request for b also ends c's resolution of a.
Overheard == {<<a, b>>, <<c, a>>}

TwoAndOne == [f \in Overheard |-> IF f[1] = a THEN 2 ELSE 1]
=============================================================================
