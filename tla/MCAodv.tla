------------------------------- MODULE MCAodv -------------------------------
(***************************************************************************)
(* Instances of Aodv for TLC: topologies, traffic and budgets.             *)
(***************************************************************************)
EXTENDS Aodv

CONSTANTS a, b, c   \* the nodes, named so that topologies can be written down

Both(x, y) == {<<x, y>>, <<y, x>>}

Line == Both(a, b) \cup Both(b, c)
Triangle == Line \cup Both(a, c)

Data(x, y, id) == [src |-> x, dst |-> y, body |-> [type |-> "DATA", id |-> id]]

OneFlow == {Data(a, c, 1)}
TwoFlows == {Data(a, c, 1), Data(c, a, 1)}    \* discoveries that cross
TwoInARow == {Data(a, c, 1), Data(a, c, 2)}   \* one route used twice

NoDisturbance == [k \in Kind |-> 0]
OneLoss == [NoDisturbance EXCEPT !["loss"] = 1]
DownAndExpunge == [NoDisturbance EXCEPT !["down"] = 1, !["expunge"] = 1]
DownAndExpungeTwice == [NoDisturbance EXCEPT !["down"] = 1, !["expunge"] = 2]
RebootAndHello == [NoDisturbance EXCEPT !["reboot"] = 1, !["hello"] = 1, !["second"] = 1]
=============================================================================
