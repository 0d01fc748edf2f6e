--------------------------------- MODULE Hop ---------------------------------
(***************************************************************************)
(* What a link layer with acknowledgements promises the network layer: the *)
(* hop from a station to its neighbours as Aodv relies on it.  Each        *)
(* station takes frames one after the other.  The first of its frames may  *)
(* arrive, more than once, until it is settled; it counts as acknowledged  *)
(* only if it has arrived, and is reported broken whether it has or not.   *)
(***************************************************************************)
EXTENDS Naturals, Sequences

CONSTANTS Node, All, Flow

VARIABLES
    pending,     \* the frames of each station that are not settled
    accepted, delivered, acked, broken

vars == <<pending, accepted, delivered, acked, broken>>

Init ==
    /\ pending = [n \in Node |-> << >>]
    /\ accepted = {}
    /\ delivered = {}
    /\ acked = {}
    /\ broken = {}

Accept(f) ==
    /\ f \notin accepted
    /\ accepted' = accepted \cup {f}
    /\ pending' = [pending EXCEPT ![f.from] = Append(@, f)]
    /\ UNCHANGED <<delivered, acked, broken>>

First(f) == pending[f.from] # << >> /\ Head(pending[f.from]) = f

Settled(f) == f \in accepted /\ \A i \in 1 .. Len(pending[f.from]) : pending[f.from][i] # f

\* A frame arrives while it is the first of its sender.  A frame nobody acknowledges
\* has left its sender when it arrives.
Arrive(f, m) ==
    /\ m = f.to \/ f.to = All
    /\ First(f) \/ (f.to = All /\ Settled(f))
    /\ delivered' = delivered \cup {<<f, m>>}
    /\ UNCHANGED <<pending, accepted, acked, broken>>

Drop(f) == pending' = [pending EXCEPT ![f.from] = Tail(@)]

Acknowledge(f) ==
    /\ First(f)
    /\ <<f, f.to>> \in delivered
    /\ acked' = acked \cup {f}
    /\ Drop(f)
    /\ UNCHANGED <<accepted, delivered, broken>>

Break(f) ==
    /\ First(f)
    /\ f.to # All
    /\ broken' = broken \cup {f}
    /\ Drop(f)
    /\ UNCHANGED <<accepted, delivered, acked>>

BroadcastSent(f) ==
    /\ First(f)
    /\ f.to = All
    /\ Drop(f)
    /\ UNCHANGED <<accepted, delivered, acked, broken>>

Next ==
    \E f \in Flow :
        \/ Accept(f)
        \/ \E m \in Node : Arrive(f, m)
        \/ Acknowledge(f)
        \/ Break(f)
        \/ BroadcastSent(f)

Spec == Init /\ [][Next]_vars
=============================================================================
