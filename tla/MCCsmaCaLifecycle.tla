-------------------------- MODULE MCCsmaCaLifecycle --------------------------
(***************************************************************************)
(* Two stations, one of which goes down, for TLC.                          *)
(***************************************************************************)
EXTENDS CsmaCaLifecycle

CONSTANTS a, b

Pair == {<<a, b>>, <<b, a>>}

OneFrame == {[type |-> "DATA", from |-> a, to |-> b, id |-> 1]}
=============================================================================
