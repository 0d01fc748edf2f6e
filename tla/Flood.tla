-------------------------------- MODULE Flood --------------------------------
(***************************************************************************)
(* What multipoint relays promise: a message that is passed on by the      *)
(* relays of whoever a router heard it from first reaches every router, in *)
(* any network and whatever the order of the transmissions.                *)
(***************************************************************************)
CONSTANT Node

VARIABLES near,     \* the pairs of routers that hear each other
          relays,   \* the relays each router has chosen
          got,      \* for each router, who has its present message
          queued    \* and who of them will still transmit it
vars == <<near, relays, got, queued>>

Neighbors(n) == {m \in Node : <<n, m>> \in near}

\* The relays of n are neighbours, and reach whoever is two hops from n.
Covering(n) ==
    /\ relays[n] \subseteq Neighbors(n)
    /\ \A m \in Neighbors(n) : \A x \in Neighbors(m) \ ({n} \cup Neighbors(n)) :
          \E r \in relays[n] : <<r, x>> \in near

Init ==
    /\ near \in SUBSET (Node \X Node)
    /\ relays \in [Node -> SUBSET Node]
    /\ \A n \in Node : Covering(n)
    /\ got = [o \in Node |-> {}]
    /\ queued = [o \in Node |-> {}]

\* A new message of o, once the one before is no longer on its way.
Announce(o) ==
    /\ queued[o] = {}
    /\ got' = [got EXCEPT ![o] = {o}]
    /\ queued' = [queued EXCEPT ![o] = {o}]
    /\ UNCHANGED <<near, relays>>

\* n transmits all it has.  Every neighbour hears it, and the relays of n among those
\* that had not heard a message yet will pass it on.
Transmit(n) ==
    /\ \E o \in Node : n \in queued[o]
    /\ got' = [o \in Node |-> IF n \in queued[o] THEN got[o] \cup Neighbors(n) ELSE got[o]]
    /\ queued' = [o \in Node |->
                    IF n \in queued[o]
                    THEN (queued[o] \ {n}) \cup ((Neighbors(n) \ got[o]) \cap relays[n])
                    ELSE queued[o]]
    /\ UNCHANGED <<near, relays>>

Next == \E n \in Node : Announce(n) \/ Transmit(n)
Spec == Init /\ [][Next]_vars

-----------------------------------------------------------------------------
\* When nobody transmits a message any more, no router without it has a neighbour with
\* it: all that are connected to its origin have it (recv_olsr takes a message only
\* once, even if it came first from a router that is no MPR selector).
Complete ==
    \A o \in Node : queued[o] = {} => \A m \in got[o] : Neighbors(m) \subseteq got[o]
=============================================================================
