----------------------------- MODULE RouteTable -----------------------------
(***************************************************************************)
(* The routing table of one AODV router: what Aodv.cc keeps of a route     *)
(* (the generic IRoute fields it sets and AodvRouteData), and the rules by *)
(* which its handlers create, replace, invalidate and delete entries.      *)
(*                                                                         *)
(* Lifetimes are left out: which entries have run out is a choice of the   *)
(* expunge step.  Every entry is a host route that AODV itself created.    *)
(***************************************************************************)
EXTENDS Integers

CONSTANTS Node,    \* the routers, each standing for its address
          NoNode   \* the unspecified address

ASSUME NoNodeAssumption == NoNode \notin Node

Entry == [known : BOOLEAN,             \* the table has a route at all
          active : BOOLEAN,            \* isActive
          valid : BOOLEAN,             \* hasValidDestNum
          seq : Nat,                   \* destSeqNum
          hops : Nat,                  \* the metric
          next : Node \cup {NoNode},   \* the next hop
          prec : SUBSET Node]          \* precursorList

NoRoute == [known |-> FALSE, active |-> FALSE, valid |-> FALSE, seq |-> 0,
            hops |-> 0, next |-> NoNode, prec |-> {}]

Table == [Node -> Entry]

IsActive(tab, d) == tab[d].known /\ tab[d].active

ActiveVia(tab, u) == {d \in Node : IsActive(tab, d) /\ tab[d].next = u}

Larger(a, b) == IF a > b THEN a ELSE b

\* createRoute and updateRoutingTable: both leave an active entry; an update
\* keeps the precursors, and a new entry starts with none, as NoRoute has none.
SetRoute(tab, d, nextHop, hopCount, validSeq, destSeq) ==
    [tab EXCEPT ![d] = [known |-> TRUE, active |-> TRUE, valid |-> validSeq,
                        seq |-> destSeq, hops |-> hopCount, next |-> nextHop,
                        prec |-> tab[d].prec]]

\* What both handlers do with the node a packet came from, before anything else:
\* the sequence number they store is the one the packet carries for another node.
SetPreviousHop(tab, source, packetSeq) ==
    SetRoute(tab, source, source, 1, FALSE, packetSeq)

AddPrecursor(tab, d, m) ==
    [tab EXCEPT ![d] = [known |-> tab[d].known, active |-> tab[d].active,
                        valid |-> tab[d].valid, seq |-> tab[d].seq,
                        hops |-> tab[d].hops, next |-> tab[d].next,
                        prec |-> tab[d].prec \cup {m}]]

\* handleRREPACK: the entry of the neighbour counts as usable again.
Activate(tab, d) ==
    [tab EXCEPT ![d] = [known |-> tab[d].known, active |-> TRUE, valid |-> tab[d].valid,
                        seq |-> tab[d].seq, hops |-> tab[d].hops, next |-> tab[d].next,
                        prec |-> tab[d].prec]]

\* handleRREQ: is the reverse route to the originator created or updated?
ReverseRouteChanges(entry, rreq, hopCount) ==
    \/ ~entry.known
    \/ rreq.origSeq > entry.seq
    \/ rreq.origSeq = entry.seq /\ hopCount < entry.hops
    \/ rreq.unknownSeq

\* Mutant: the originator is taken for the next hop.
SetReverseRouteDirect(tab, rreq, source, hopCount) ==
    IF ReverseRouteChanges(tab[rreq.orig], rreq, hopCount)
    THEN SetRoute(tab, rreq.orig, rreq.orig, hopCount, TRUE,
                  Larger(tab[rreq.orig].seq, rreq.origSeq))
    ELSE tab

SetReverseRoute(tab, rreq, source, hopCount) ==
    IF ReverseRouteChanges(tab[rreq.orig], rreq, hopCount)
    THEN SetRoute(tab, rreq.orig, source, hopCount, TRUE,
                  Larger(tab[rreq.orig].seq, rreq.origSeq))
    ELSE tab

\* handleRREP: is the forward route to the destination created or updated?
ForwardRouteChanges(entry, rrep, hopCount) ==
    \/ ~entry.known
    \/ ~entry.valid
    \/ rrep.destSeq > entry.seq
    \/ rrep.destSeq = entry.seq /\ ~entry.active
    \/ rrep.destSeq = entry.seq /\ hopCount < entry.hops

SetForwardRoute(tab, rrep, source, hopCount) ==
    IF ForwardRouteChanges(tab[rrep.dest], rrep, hopCount)
    THEN SetRoute(tab, rrep.dest, source, hopCount, TRUE, rrep.destSeq)
    ELSE tab

\* Mutant: the sequence number changes, the entry stays active.
DeactivateNot(tab, gone, newSeq) ==
    [d \in Node |->
        IF d \in gone
        THEN [known |-> tab[d].known, active |-> tab[d].active, valid |-> tab[d].valid,
              seq |-> newSeq[d], hops |-> tab[d].hops, next |-> tab[d].next,
              prec |-> tab[d].prec]
        ELSE tab[d]]

\* Mutant: the entry is deleted at once.
DeactivateDeletes(tab, gone, newSeq) ==
    [d \in Node |-> IF d \in gone THEN NoRoute ELSE tab[d]]

\* An entry that stops being active keeps everything but its sequence number.
Deactivate(tab, gone, newSeq) ==
    [d \in Node |->
        IF d \in gone
        THEN [known |-> tab[d].known, active |-> FALSE, valid |-> tab[d].valid,
              seq |-> newSeq[d], hops |-> tab[d].hops, next |-> tab[d].next,
              prec |-> tab[d].prec]
        ELSE tab[d]]

\* Mutant: only the route to the neighbour itself is deactivated.
BreakLinkNeighbor(tab, neighbor) ==
    Deactivate(tab, ActiveVia(tab, neighbor) \cap {neighbor},
               [d \in Node |-> IF tab[d].valid THEN tab[d].seq + 1 ELSE tab[d].seq])

\* handleLinkBreakSendRERR: the routes over the lost neighbour, their sequence
\* number one higher if it was valid.
BreakLink(tab, neighbor) ==
    Deactivate(tab, ActiveVia(tab, neighbor),
               [d \in Node |-> IF tab[d].valid THEN tab[d].seq + 1 ELSE tab[d].seq])

\* handleRERR: the routes over the sender that the RERR lists.
Unreachable(tab, rerr, source) == ActiveVia(tab, source) \cap rerr.dests

\* expungeRoutes for the entries whose lifetime has run out: an active one is
\* deactivated, an inactive one is deleted unless a discovery is waiting for it.
Expunge(tab, due, searched) ==
    [d \in Node |->
        IF d \in due /\ ~tab[d].active /\ d \notin searched
        THEN NoRoute
        ELSE Deactivate(tab, due, [x \in Node |-> tab[x].seq])[d]]
=============================================================================
