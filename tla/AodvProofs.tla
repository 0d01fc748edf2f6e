----------------------------- MODULE AodvProofs -----------------------------
(***************************************************************************)
(* Theorems about Aodv for every network, all traffic and every budget of  *)
(* disturbances.                                                           *)
(***************************************************************************)
EXTENDS Aodv, TLAPS

-----------------------------------------------------------------------------
\* Walks

\* Radio range is mutual, whichever direction of a link is listed.
LEMMA AdjacentSymmetric ==
    ASSUME NEW n, NEW m, Adjacent(n, m)
    PROVE  Adjacent(m, n)
  BY DEF Adjacent

\* Only routers are in radio range of each other.
LEMMA AdjacentNodes ==
    ASSUME NEW n, NEW m, Adjacent(n, m)
    PROVE  n \in Node /\ m \in Node
  BY LinkAssumption DEF Adjacent

\* A router reaches itself in no hop.
LEMMA ReachesSelf ==
    ASSUME NEW n \in Node
    PROVE  Reaches(n, n, 0)
<1> DEFINE p == [i \in 0 .. 0 |-> n]
<1>1. p \in [0 .. 0 -> Node] /\ p[0] = n
  OBVIOUS
<1>2. \A i \in 0 .. 0 - 1 : Adjacent(p[i], p[i + 1])
  OBVIOUS
<1> QED
  BY <1>1, <1>2 DEF Reaches

\* A walk gets one hop longer when it starts at a neighbour.
LEMMA ReachesOver ==
    ASSUME NEW n \in Node, NEW m \in Node, NEW d \in Node, NEW h \in Nat,
           Adjacent(n, m), Reaches(m, d, h)
    PROVE  Reaches(n, d, h + 1)
<1>1. PICK p \in [0 .. h -> Node] :
          p[0] = m /\ p[h] = d /\ \A i \in 0 .. h - 1 : Adjacent(p[i], p[i + 1])
  BY DEF Reaches
<1> DEFINE q == [i \in 0 .. h + 1 |-> IF i = 0 THEN n ELSE p[i - 1]]
<1>2. q \in [0 .. h + 1 -> Node]
  <2> SUFFICES ASSUME NEW i \in 0 .. h + 1 PROVE q[i] \in Node
    OBVIOUS
  <2>1. CASE i = 0
    BY <2>1
  <2>2. CASE i # 0
    <3>1. i - 1 \in 0 .. h
      BY <2>2
    <3> QED
      BY <2>2, <3>1, <1>1
  <2> QED
    BY <2>1, <2>2
<1>3. q[0] = n /\ q[h + 1] = d
  BY <1>1
<1>4. ASSUME NEW i \in 0 .. (h + 1) - 1
      PROVE  Adjacent(q[i], q[i + 1])
  <2>1. CASE i = 0
    <3>1. q[i] = n /\ q[i + 1] = m
      BY <2>1, <1>1
    <3> QED
      BY <3>1
  <2>2. CASE i # 0
    <3>1. i - 1 \in 0 .. h - 1 /\ q[i] = p[i - 1] /\ q[i + 1] = p[(i - 1) + 1]
      BY <2>2
    <3> QED
      BY <3>1, <1>1
  <2> QED
    BY <2>1, <2>2
<1> QED
  BY <1>2, <1>3, <1>4 DEF Reaches

-----------------------------------------------------------------------------
\* Tables

\* Every entry of n's table names a neighbour of n as the next hop, and as the
\* metric the length of a walk whose first hop that is.
GoodTable(n, tab) ==
    /\ tab \in Table
    /\ \A d \in Node : tab[d].known => /\ Adjacent(n, tab[d].next)
                                       /\ tab[d].hops > 0
                                       /\ Reaches(tab[d].next, d, tab[d].hops - 1)

\* An entry tells of a walk, and a metric of one is that of a neighbour.
LEMMA EntryReaches ==
    ASSUME NEW n \in Node, NEW tab, GoodTable(n, tab), NEW d \in Node, tab[d].known
    PROVE  /\ Reaches(n, d, tab[d].hops)
           /\ tab[d].hops = 1 => tab[d].next = d
<1> DEFINE m == tab[d].next
           h == tab[d].hops - 1
<1>1. /\ m \in Node /\ h \in Nat /\ h + 1 = tab[d].hops
      /\ Adjacent(n, m) /\ Reaches(m, d, h)
  BY AdjacentNodes DEF GoodTable, Table, Entry
<1>2. Reaches(n, d, h + 1)
  BY <1>1, ReachesOver
<1>3. ASSUME h = 0 PROVE m = d
  BY <1>1, <1>3 DEF Reaches
<1> HIDE DEF m, h
<1> QED
  BY <1>1, <1>2, <1>3 DEF m, h

\* An entry made by createRoute or updateRoutingTable keeps the table good if its
\* next hop is a neighbour and its metric the length of a walk.
LEMMA SetRouteGood ==
    ASSUME NEW n \in Node, NEW tab, GoodTable(n, tab),
           NEW d \in Node, NEW m \in Node, NEW h \in Nat, NEW v \in BOOLEAN,
           NEW s \in Nat, Adjacent(n, m), h > 0, Reaches(m, d, h - 1)
    PROVE  LET new == SetRoute(tab, d, m, h, v, s)
           IN /\ GoodTable(n, new)
              /\ new[d].known
              /\ \A x \in Node : tab[x].known => new[x].known
  BY DEF GoodTable, SetRoute, Table, Entry

\* A precursor changes neither next hop nor metric.
LEMMA AddPrecursorGood ==
    ASSUME NEW n \in Node, NEW tab, GoodTable(n, tab), NEW d \in Node, NEW m \in Node
    PROVE  LET new == AddPrecursor(tab, d, m)
           IN /\ GoodTable(n, new)
              /\ \A x \in Node : /\ new[x].known <=> tab[x].known
                                 /\ new[x].next = tab[x].next
                                 /\ new[x].hops = tab[x].hops
                                 /\ new[x].seq = tab[x].seq
  BY DEF GoodTable, AddPrecursor, Table, Entry

\* Deactivation changes neither next hop nor metric.
LEMMA DeactivateGood ==
    ASSUME NEW n \in Node, NEW tab, GoodTable(n, tab), NEW gone,
           NEW newSeq \in [Node -> Nat]
    PROVE  GoodTable(n, Deactivate(tab, gone, newSeq))
  BY DEF GoodTable, Deactivate, Table, Entry

\* handleLinkBreakSendRERR keeps a table good.
LEMMA BreakLinkGood ==
    ASSUME NEW n \in Node, NEW tab, GoodTable(n, tab), NEW m
    PROVE  GoodTable(n, BreakLink(tab, m))
<1> DEFINE newSeq == [d \in Node |-> IF tab[d].valid THEN tab[d].seq + 1 ELSE tab[d].seq]
<1>1. newSeq \in [Node -> Nat]
  BY DEF GoodTable, Table, Entry
<1> QED
  BY <1>1, DeactivateGood DEF BreakLink

\* expungeRoutes keeps a table good: what it deletes tells of nothing.
LEMMA ExpungeGood ==
    ASSUME NEW n \in Node, NEW tab, GoodTable(n, tab), NEW due, NEW searched
    PROVE  GoodTable(n, Expunge(tab, due, searched))
<1> DEFINE new == Deactivate(tab, due, [x \in Node |-> tab[x].seq])
<1>1. GoodTable(n, new)
  BY DeactivateGood DEF GoodTable, Table, Entry
<1>2. NoRoute \in Entry /\ ~NoRoute.known
  BY DEF NoRoute, Entry
<1>3. Expunge(tab, due, searched) =
        [d \in Node |-> IF d \in due /\ ~tab[d].active /\ d \notin searched
                        THEN NoRoute ELSE new[d]]
  BY DEF Expunge
<1> HIDE DEF new
<1> QED
  BY <1>1, <1>2, <1>3 DEF GoodTable, Table

\* The table of a router that has just started is good.
LEMMA EmptyTableGood ==
    ASSUME NEW n \in Node
    PROVE  GoodTable(n, [d \in Node |-> NoRoute])
  BY DEF GoodTable, Table, Entry, NoRoute

\* An entry for a neighbour, with the neighbour as the next hop, is one hop long.
LEMMA DirectRouteGood ==
    ASSUME NEW n \in Node, NEW tab, GoodTable(n, tab), NEW m \in Node,
           NEW v \in BOOLEAN, NEW s \in Nat, Adjacent(n, m)
    PROVE  LET new == SetRoute(tab, m, m, 1, v, s)
           IN /\ GoodTable(n, new)
              /\ new[m].known
              /\ \A x \in Node : tab[x].known => new[x].known
<1>1. \A h \in Nat : h > 0 /\ Reaches(m, m, h - 1) => GoodTable(n, SetRoute(tab, m, m, h, v, s))
  BY SetRouteGood
<1>2. 1 \in Nat /\ 1 > 0 /\ 1 - 1 = 0
  OBVIOUS
<1>3. Reaches(m, m, 1 - 1)
  BY <1>2, ReachesSelf
<1>4. GoodTable(n, SetRoute(tab, m, m, 1, v, s))
  BY <1>1, <1>2, <1>3
<1> QED
  BY <1>4 DEF GoodTable, SetRoute, Table, Entry

\* The entry for the neighbour a packet came from is one hop long.
LEMMA SetPreviousHopGood ==
    ASSUME NEW n \in Node, NEW tab, GoodTable(n, tab), NEW m \in Node, NEW s \in Nat,
           Adjacent(n, m)
    PROVE  LET new == SetPreviousHop(tab, m, s)
           IN /\ GoodTable(n, new)
              /\ new[m].known
              /\ \A x \in Node : tab[x].known => new[x].known
  BY DirectRouteGood DEF SetPreviousHop

\* The reverse route of handleRREQ is one hop longer than what its neighbour told.
LEMMA SetReverseRouteGood ==
    ASSUME NEW n \in Node, NEW tab, GoodTable(n, tab), NEW q \in Rreq, NEW m \in Node,
           NEW h \in Nat, Adjacent(n, m), h > 0, Reaches(m, q.orig, h - 1)
    PROVE  LET new == SetReverseRoute(tab, q, m, h)
           IN /\ GoodTable(n, new)
              /\ new[q.orig].known
              /\ \A x \in Node : tab[x].known => new[x].known
<1>1. q.orig \in Node /\ q.origSeq \in Nat
  BY DEF Rreq
<1>2. Larger(tab[q.orig].seq, q.origSeq) \in Nat
  BY <1>1 DEF Larger, GoodTable, Table, Entry
<1> QED
  BY <1>1, <1>2, SetRouteGood DEF SetReverseRoute, ReverseRouteChanges

\* The forward route of handleRREP is one hop longer than what its neighbour told.
LEMMA SetForwardRouteGood ==
    ASSUME NEW n \in Node, NEW tab, GoodTable(n, tab), NEW p \in Rrep, NEW m \in Node,
           NEW h \in Nat, Adjacent(n, m), h > 0, Reaches(m, p.dest, h - 1)
    PROVE  LET new == SetForwardRoute(tab, p, m, h)
           IN /\ GoodTable(n, new)
              /\ new[p.dest].known
              /\ \A x \in Node : tab[x].known => new[x].known
<1>1. p.dest \in Node /\ p.destSeq \in Nat
  BY DEF Rrep
<1> QED
  BY <1>1, SetRouteGood DEF SetForwardRoute, ForwardRouteChanges

-----------------------------------------------------------------------------
\* Packets

\* The hop count a control packet carries is the length of a walk from its sender
\* to the node that the hops are counted from; a Hello is about its sender, and
\* only the originator of a request is asked for a RREP-ACK.
GoodBody(source, addressee, body) ==
    /\ body.type # "RREPACK"
    /\ body.type = "RREQ" => Reaches(source, body.orig, body.hops)
    /\ body.type = "RREP" => /\ Reaches(source, body.dest, body.hops)
                             /\ body.orig = NoNode => body.dest = source
                             /\ body.ack => addressee = body.orig

\* A control packet is addressed to a neighbour of its sender.
GoodDatagram(g) ==
    /\ g \in Datagram
    /\ g.body.type # "DATA" => Adjacent(g.dst, g.src) /\ GoodBody(g.src, g.dst, g.body)

GoodFrame(f) ==
    /\ f \in Frame
    /\ f.dgram.dst # All => GoodDatagram(f.dgram)
    /\ f.dgram.dst = All => /\ f.dgram.src = f.from
                            /\ Adjacent(f.to, f.from)
                            /\ GoodBody(f.from, All, f.dgram.body)

\* The type field tells the four kinds of packets apart.
LEMMA ControlTypes ==
    ASSUME NEW body \in Control
    PROVE  /\ body.type # "DATA"
           /\ body.type = "RREQ" => body \in Rreq
           /\ body.type = "RREP" => body \in Rrep
           /\ body.type = "RERR" => body \in Rerr
  BY DEF Control, Rreq, Rrep, Rerr, RrepAck

\* What every datagram has, of AODV or of an application.
LEMMA DatagramType ==
    ASSUME NEW g \in Datagram
    PROVE  /\ g.src \in Node
           /\ g.dst \in Node
           /\ g.body.type # "DATA" => g.body \in Control /\ g \notin Flow
           /\ g \notin Flow => g.body.type # "DATA"
  BY FlowAssumption, ControlTypes DEF Datagram

\* A control packet addressed to a neighbour is a good datagram.
LEMMA ToGood ==
    ASSUME NEW n \in Node, NEW m, NEW body \in Control, Adjacent(n, m),
           GoodBody(n, m, body)
    PROVE  GoodDatagram(To(n, m, body))
  BY AdjacentSymmetric, AdjacentNodes DEF GoodDatagram, To, Datagram

\* A broadcast reaches neighbours only.
LEMMA BroadcastsGood ==
    ASSUME NEW n \in Node, NEW body \in Control, GoodBody(n, All, body), link \subseteq Link
    PROVE  \A f \in Broadcasts(n, body) : GoodFrame(f)
<1> SUFFICES ASSUME NEW m \in Node, <<n, m>> \in link
             PROVE  GoodFrame([from |-> n, to |-> m, dgram |-> To(n, All, body)])
  BY DEF Broadcasts
<1>1. Adjacent(m, n)
  BY DEF Adjacent
<1>2. To(n, All, body) \in Broadcast
  BY DEF To, Broadcast
<1> QED
  BY <1>1, <1>2 DEF GoodFrame, Frame, To

\* What any router hands to a neighbour over one of its routes.
LEMMA HandedOn ==
    ASSUME NEW n \in Node, NEW m \in Node, NEW g, GoodDatagram(g)
    PROVE  GoodFrame([from |-> n, to |-> m, dgram |-> g])
<1>1. g \in Datagram /\ g.dst # All
  BY DatagramType, AllAssumption DEF GoodDatagram
<1> QED
  BY <1>1 DEF GoodFrame, Frame

\* IPv4 sends a datagram with a route to a neighbour.
LEMMA UnicastGood ==
    ASSUME NEW n \in Node, NEW g, GoodDatagram(g), GoodTable(n, routes[n]),
           IsActive(routes[n], g.dst)
    PROVE  GoodFrame(Unicast(n, g))
<1>1. g.dst \in Node
  BY DatagramType DEF GoodDatagram
<1>2. routes[n][g.dst].next \in Node
  BY <1>1, AdjacentNodes DEF GoodTable, IsActive
<1> QED
  BY <1>2, HandedOn DEF Unicast

\* A control packet that is being processed comes from a neighbour.
LEMMA ReceivedGood ==
    ASSUME NEW f, GoodFrame(f), NEW type, type # "DATA", ReceivesControl(f, type)
    PROVE  /\ f.to \in Node
           /\ f.dgram.src \in Node
           /\ Adjacent(f.to, f.dgram.src)
           /\ Body(f) \in Control
           /\ Body(f).type = type
           /\ GoodBody(f.dgram.src, f.dgram.dst, Body(f))
<1>1. f.to \in Node /\ f.from \in Node /\ f.dgram \in Datagram \cup Broadcast
  BY DEF GoodFrame, Frame
<1>2. Body(f).type = type /\ f.dgram.dst \in {f.to, All}
  BY DEF ReceivesControl
<1>3. CASE f.dgram.dst = All
  <2>1. f.dgram \in Broadcast
    BY <1>1, <1>3, DatagramType, AllAssumption
  <2> QED
    BY <1>1, <1>2, <1>3, <2>1 DEF GoodFrame, Broadcast, Body
<1>4. CASE f.dgram.dst # All
  <2>1. GoodDatagram(f.dgram) /\ f.dgram.dst = f.to
    BY <1>2, <1>4 DEF GoodFrame
  <2> QED
    BY <1>1, <1>2, <2>1, DatagramType DEF GoodDatagram, Body
<1> QED
  BY <1>3, <1>4

-----------------------------------------------------------------------------
\* The inductive invariant

GoodNetwork ==
    /\ \A n \in Node : GoodTable(n, routes[n])
    /\ \A n \in Node : \A g \in delayed[n] : GoodDatagram(g)
    /\ \A g \in udp : GoodDatagram(g)
    /\ \A f \in air : GoodFrame(f)

Inv == TypeOK /\ GoodNetwork

\* The network starts in the invariant.
LEMMA InitInv == Init => Inv
  BY EmptyTableGood, BudgetAssumption, RateAssumption
     DEF Init, Inv, TypeOK, GoodNetwork, GoodTable, Discovery, NoDiscovery

\* The table of one node is replaced by a good one.
LEMMA TablesGood ==
    ASSUME Inv, NEW n \in Node, NEW tab, GoodTable(n, tab),
           routes' = [routes EXCEPT ![n] = tab]
    PROVE  /\ routes' \in [Node -> Table]
           /\ \A m \in Node : GoodTable(m, routes'[m])
  BY DEF Inv, TypeOK, GoodNetwork, GoodTable

\* createRREQ and sendRREQ: what they send is good and what they keep has its type.
LEMMA RingTTLPositive ==
    ASSUME NEW w \in Discovery
    PROVE  RingTTL(w) \in Nat \ {0}
  BY TtlAssumption DEF RingTTL, Discovery

\* createRREQ makes a request that tells of its originator, no hop away.
LEMMA NewRREQGood ==
    ASSUME Inv, NEW n \in Node, NEW target \in Node, NEW ttl \in Nat \ {0}
    PROVE  /\ NewRREQ(n, target, ttl) \in Control
           /\ GoodBody(n, All, NewRREQ(n, target, ttl))
<1>1. sequenceNum[n] \in Nat /\ rreqId[n] \in Nat /\ routes[n] \in Table
  BY DEF Inv, TypeOK
<1>2. NewRREQ(n, target, ttl) \in Rreq
  BY <1>1 DEF NewRREQ, Rreq, NextRreqId, Table, Entry
<1>3. GoodBody(n, All, NewRREQ(n, target, ttl))
  BY ReachesSelf DEF GoodBody, NewRREQ
<1> QED
  BY <1>2, <1>3 DEF Control

\* sendRREQ keeps types and sends good frames, at the rate limit and below it.
LEMMA SendRREQGood ==
    ASSUME Inv, NEW n \in Node, NEW target \in Node, NEW w \in Discovery, NEW inAir,
           \A f \in inAir : GoodFrame(f),
           SendRREQ(n, target, w, inAir)
    PROVE  /\ sequenceNum' \in [Node -> Nat]
           /\ rreqId' \in [Node -> Nat]
           /\ seen' \in [Node -> SUBSET (Node \X Nat)]
           /\ wait' \in [Node -> [Node -> Discovery]]
           /\ rreqCount' \in [Node -> 0 .. RreqRatelimit]
           /\ \A f \in air' : GoodFrame(f)
<1>1. \A f \in Broadcasts(n, NewRREQ(n, target, RingTTL(w))) : GoodFrame(f)
  BY RingTTLPositive, NewRREQGood, BroadcastsGood DEF Inv, TypeOK
<1>2. \A f \in air' : GoodFrame(f)
  BY <1>1 DEF SendRREQ
<1>3. /\ sequenceNum' \in [Node -> Nat]
      /\ rreqId' \in [Node -> Nat]
      /\ seen' \in [Node -> SUBSET (Node \X Nat)]
  BY DEF SendRREQ, NextRreqId, Inv, TypeOK
<1>4. wait' \in [Node -> [Node -> Discovery]]
  <2>1. wait \in [Node -> [Node -> Discovery]]
    BY DEF Inv, TypeOK
  <2>2. \E x \in Discovery : wait' = [wait EXCEPT ![n] = [@ EXCEPT ![target] = x]]
    BY RingTTLPositive DEF SendRREQ, Discovery
  <2> QED
    BY <2>1, <2>2
<1>5. rreqCount' \in [Node -> 0 .. RreqRatelimit]
  BY RateAssumption DEF SendRREQ, Inv, TypeOK
<1> QED
  BY <1>2, <1>3, <1>4, <1>5

\* sendRREP sends a reply whose hop count is that of a walk to a next hop that
\* exists, because the table has an entry for the originator.
LEMMA SendRREPGood ==
    ASSUME Inv, NEW n \in Node, NEW tab, GoodTable(n, tab), NEW rrep, NEW others,
           rrep.orig \in Node, rrep.dest \in Node, rrep.destSeq \in Nat,
           rrep.hops \in Nat, tab[rrep.orig].known, Reaches(n, rrep.dest, rrep.hops),
           \A g \in others : GoodDatagram(g),
           SendRREP(n, tab, rrep, others)
    PROVE  /\ routes' \in [Node -> Table]
           /\ \A m \in Node : GoodTable(m, routes'[m])
           /\ \A g \in udp' : GoodDatagram(g)
           /\ failedNextHop' \in [Node -> Node \cup {NoNode}]
           /\ rrepAckTimer' \in [Node -> BOOLEAN]
<1> DEFINE nextHop == tab[rrep.orig].next
           ask == tab[rrep.orig].hops = 1
           body == [type |-> "RREP", orig |-> rrep.orig, dest |-> rrep.dest,
                    destSeq |-> rrep.destSeq, hops |-> rrep.hops, ack |-> ask]
<1>1. Adjacent(n, nextHop) /\ nextHop \in Node
  BY AdjacentNodes DEF GoodTable
<1>2. body \in Control /\ GoodBody(n, nextHop, body)
  BY EntryReaches, NoNodeAssumption DEF Control, Rrep, GoodBody
<1>3. GoodDatagram(To(n, nextHop, body))
  BY <1>1, <1>2, ToGood
<1>4. GoodTable(n, AddPrecursor(tab, rrep.orig, nextHop))
  BY <1>1, AddPrecursorGood
<1>5. routes' = [routes EXCEPT ![n] = AddPrecursor(tab, rrep.orig, nextHop)]
  BY DEF SendRREP
<1>6. /\ routes' \in [Node -> Table]
      /\ \A m \in Node : GoodTable(m, routes'[m])
  BY <1>4, <1>5, TablesGood
<1>7. udp' = udp \cup {To(n, nextHop, body)} \cup others
  BY DEF SendRREP
<1>8. \A g \in udp' : GoodDatagram(g)
  BY <1>3, <1>7 DEF Inv, GoodNetwork
<1>9. /\ failedNextHop' \in [Node -> Node \cup {NoNode}]
      /\ rrepAckTimer' \in [Node -> BOOLEAN]
  BY <1>1 DEF SendRREP, Inv, TypeOK
<1> QED
  BY <1>6, <1>8, <1>9

-----------------------------------------------------------------------------
\* The hooks of IPv4

\* The steps of the applications and of the hooks keep the invariant.
LEMMA AppSendInv ==
    ASSUME Inv, NEW g \in Flow, AppSend(g)
    PROVE  Inv'
<1>1. GoodDatagram(g)
  BY FlowAssumption DEF GoodDatagram, Datagram
<1> QED
  BY <1>1 DEF AppSend, Inv, TypeOK, GoodNetwork, GoodDatagram, discoveryVars, ackVars

\* The local-out hook with an active route.
LEMMA SendDatagramInv ==
    ASSUME Inv, NEW g \in udp, SendDatagram(g)
    PROVE  Inv'
<1>1. g.src \in Node
  BY DatagramType DEF Inv, TypeOK
<1>2. GoodFrame(Unicast(g.src, g))
  BY <1>1, UnicastGood DEF SendDatagram, Inv, GoodNetwork
<1> QED
  BY <1>2 DEF SendDatagram, Inv, TypeOK, GoodNetwork, GoodFrame, discoveryVars,
              ackVars, appVars

\* What delaying a datagram changes, whichever router does it.
LEMMA DelayDatagramGood ==
    ASSUME Inv, NEW n \in Node, NEW g, GoodDatagram(g), NEW inAir,
           \A f \in inAir : GoodFrame(f),
           DelayDatagram(n, g, inAir)
    PROVE  /\ sequenceNum' \in [Node -> Nat]
           /\ rreqId' \in [Node -> Nat]
           /\ seen' \in [Node -> SUBSET (Node \X Nat)]
           /\ wait' \in [Node -> [Node -> Discovery]]
           /\ rreqCount' \in [Node -> 0 .. RreqRatelimit]
           /\ delayed' \in [Node -> SUBSET Datagram]
           /\ \A m \in Node : \A x \in delayed'[m] : GoodDatagram(x)
           /\ \A f \in air' : GoodFrame(f)
<1>1. g \in Datagram /\ g.dst \in Node
  BY DatagramType DEF GoodDatagram
<1>2. /\ delayed' \in [Node -> SUBSET Datagram]
      /\ \A m \in Node : \A x \in delayed'[m] : GoodDatagram(x)
  BY <1>1 DEF DelayDatagram, Inv, TypeOK, GoodNetwork
<1>3. CASE wait[n][g.dst].on
  BY <1>2, <1>3 DEF DelayDatagram, Inv, TypeOK, discoveryVars
<1>4. CASE ~wait[n][g.dst].on
  <2>1. SendRREQ(n, g.dst, NoDiscovery, inAir)
    BY <1>4 DEF DelayDatagram
  <2>2. NoDiscovery \in Discovery
    BY DEF NoDiscovery, Discovery
  <2> QED
    BY <1>1, <1>2, <2>1, <2>2, SendRREQGood
<1> QED
  BY <1>3, <1>4

\* The local-out hook without an active route.
LEMMA QueueDatagramInv ==
    ASSUME Inv, NEW g \in udp, QueueDatagram(g)
    PROVE  Inv'
<1>1. g.src \in Node /\ GoodDatagram(g)
  BY DatagramType DEF Inv, TypeOK, GoodNetwork
<1>2. DelayDatagram(g.src, g, air) /\ \A f \in air : GoodFrame(f)
  BY DEF QueueDatagram, Inv, GoodNetwork
<1> QED
  BY <1>1, <1>2, DelayDatagramGood
     DEF QueueDatagram, Inv, TypeOK, GoodNetwork, GoodFrame, ackVars, appVars

\* A datagram that has arrived for someone else is as good as when it was sent.
LEMMA TransitGood ==
    ASSUME Inv, NEW f \in air, f.dgram.dst \in Node
    PROVE  f.to \in Node /\ GoodDatagram(f.dgram)
  BY AllAssumption DEF Inv, GoodNetwork, GoodFrame, Frame

\* A datagram in transit with an active route.
LEMMA ForwardDatagramInv ==
    ASSUME Inv, NEW f \in air, ForwardDatagram(f)
    PROVE  Inv'
<1>1. f.to \in Node /\ GoodDatagram(f.dgram)
  BY TransitGood DEF ForwardDatagram
<1>2. GoodFrame(Unicast(f.to, f.dgram))
  BY <1>1, UnicastGood DEF ForwardDatagram, Inv, GoodNetwork
<1> QED
  BY <1>2 DEF ForwardDatagram, Inv, TypeOK, GoodNetwork, GoodFrame, discoveryVars,
              ackVars, appVars

\* A datagram in transit that is delayed.
LEMMA QueueForwardedInv ==
    ASSUME Inv, NEW f \in air, QueueForwarded(f)
    PROVE  Inv'
<1>1. f.to \in Node /\ GoodDatagram(f.dgram)
  BY TransitGood DEF QueueForwarded
<1>2. DelayDatagram(f.to, f.dgram, air \ {f}) /\ \A x \in air \ {f} : GoodFrame(x)
  BY DEF QueueForwarded, Inv, GoodNetwork
<1> QED
  BY <1>1, <1>2, DelayDatagramGood
     DEF QueueForwarded, Inv, TypeOK, GoodNetwork, GoodFrame, ackVars, appVars

\* A datagram that reaches its receiver.
LEMMA DeliverDataInv ==
    ASSUME Inv, NEW f \in air, DeliverData(f)
    PROVE  Inv'
  BY DEF DeliverData, Inv, TypeOK, GoodNetwork, discoveryVars, ackVars

-----------------------------------------------------------------------------
\* handleRREQ

\* The table is good once handleRREQ has entered previous hop and reverse route,
\* and it has an entry for both.
LEMMA TableAfterRREQGood ==
    ASSUME Inv, NEW f \in air, ReceivesControl(f, "RREQ")
    PROVE  /\ GoodTable(f.to, TableAfterRREQ(f))
           /\ TableAfterRREQ(f)[f.dgram.src].known
           /\ TableAfterRREQ(f)[Body(f).orig].known
           /\ Body(f) \in Rreq
           /\ f.to \in Node
           /\ f.dgram.src \in Node
           /\ Adjacent(f.to, f.dgram.src)
           /\ Reaches(f.to, Body(f).orig, Body(f).hops + 1)
<1> DEFINE n == f.to
           m == f.dgram.src
           q == Body(f)
           prev == SetPreviousHop(routes[n], m, q.origSeq)
<1>1. /\ n \in Node /\ m \in Node /\ Adjacent(n, m)
      /\ q \in Control /\ q.type = "RREQ" /\ GoodBody(m, f.dgram.dst, q)
  BY ReceivedGood DEF Inv, GoodNetwork
<1>2. q \in Rreq /\ q.orig \in Node /\ q.hops \in Nat /\ q.origSeq \in Nat
  BY <1>1, ControlTypes DEF Rreq
<1>3. Reaches(n, q.orig, q.hops + 1)
  BY <1>1, <1>2, ReachesOver DEF GoodBody
<1>4. GoodTable(n, prev) /\ prev[m].known
  BY <1>1, <1>2, SetPreviousHopGood DEF Inv, GoodNetwork
<1>5. TableAfterRREQ(f) = SetReverseRoute(prev, q, m, q.hops + 1)
  BY DEF TableAfterRREQ
<1> HIDE DEF prev
<1>6. /\ q.hops + 1 \in Nat /\ q.hops + 1 > 0
      /\ Reaches(m, q.orig, (q.hops + 1) - 1)
  BY <1>1, <1>2 DEF GoodBody
<1> QED
  BY <1>1, <1>2, <1>3, <1>4, <1>5, <1>6, SetReverseRouteGood

\* handleRREQ for a sender on the blacklist.
LEMMA IgnoreRREQInv ==
    ASSUME Inv, NEW f \in air, IgnoreRREQ(f)
    PROVE  Inv'
  BY DEF IgnoreRREQ, Inv, TypeOK, GoodNetwork, discoveryVars, ackVars, appVars

\* handleRREQ for a duplicate.
LEMMA DiscardRREQInv ==
    ASSUME Inv, NEW f \in air, DiscardRREQ(f)
    PROVE  Inv'
<1> DEFINE n == f.to
           tab == SetPreviousHop(routes[n], f.dgram.src, Body(f).origSeq)
<1>1. /\ n \in Node /\ f.dgram.src \in Node /\ Adjacent(n, f.dgram.src)
      /\ Body(f).origSeq \in Nat
  BY TableAfterRREQGood DEF DiscardRREQ, Rreq
<1>2. GoodTable(n, tab)
  BY <1>1, SetPreviousHopGood DEF Inv, GoodNetwork
<1>3. routes' = [routes EXCEPT ![n] = tab]
  BY DEF DiscardRREQ
<1>4. /\ routes' \in [Node -> Table]
      /\ \A m \in Node : GoodTable(m, routes'[m])
  BY <1>1, <1>2, <1>3, TablesGood
<1> QED
  BY <1>4 DEF DiscardRREQ, Inv, TypeOK, GoodNetwork, discoveryVars, ackVars, appVars

\* What every RREQ that is processed leaves unchanged, and the key it records.
LEMMA FreshRREQGood ==
    ASSUME Inv, NEW f \in air, FreshRREQ(f)
    PROVE  /\ seen' \in [Node -> SUBSET (Node \X Nat)]
           /\ rreqId' \in [Node -> Nat]
           /\ wait' \in [Node -> [Node -> Discovery]]
           /\ rreqCount' \in [Node -> 0 .. RreqRatelimit]
           /\ rerrCount' \in [Node -> 0 .. RerrRatelimit]
           /\ blacklist' \in [Node -> SUBSET (Node \cup {NoNode})]
           /\ blacklistTimer' \in [Node -> BOOLEAN]
           /\ settled' \in [Node -> BOOLEAN]
           /\ link' \subseteq Link
           /\ sent' \subseteq Flow
           /\ delivered' \subseteq Flow
           /\ budget' \in [Kind -> Nat]
           /\ delayed' \in [Node -> SUBSET Datagram]
           /\ \A m \in Node : \A g \in delayed'[m] : GoodDatagram(g)
<1>1. RreqKey(Body(f)) \in Node \X Nat
  BY TableAfterRREQGood DEF FreshRREQ, RreqKey, Rreq
<1> QED
  BY <1>1 DEF FreshRREQ, Inv, TypeOK, GoodNetwork, appVars

\* handleRREQ at the destination.
LEMMA AnswerRREQInv ==
    ASSUME Inv, NEW f \in air, AnswerRREQ(f)
    PROVE  Inv'
<1> DEFINE n == f.to
           q == Body(f)
           mySeq == IF ~q.unknownSeq /\ q.destSeq = sequenceNum[n] + 1
                    THEN sequenceNum[n] + 1 ELSE sequenceNum[n]
           rrep == [orig |-> q.orig, dest |-> n, destSeq |-> mySeq, hops |-> 0]
<1>1. FreshRREQ(f) /\ ReceivesControl(f, "RREQ")
  BY DEF AnswerRREQ, FreshRREQ
<1>2. /\ n \in Node /\ q \in Rreq
      /\ GoodTable(n, TableAfterRREQ(f)) /\ TableAfterRREQ(f)[q.orig].known
  BY <1>1, TableAfterRREQGood
<1>3. mySeq \in Nat /\ q.orig \in Node /\ Reaches(n, n, 0)
  BY <1>2, ReachesSelf DEF Inv, TypeOK, Rreq
<1>4. SendRREP(n, TableAfterRREQ(f), rrep, {})
  BY DEF AnswerRREQ
<1>5. /\ sequenceNum' = [sequenceNum EXCEPT ![n] = mySeq]
      /\ air' = air \ {f}
  BY DEF AnswerRREQ
<1> HIDE DEF mySeq
<1>6. /\ routes' \in [Node -> Table]
      /\ \A m \in Node : GoodTable(m, routes'[m])
      /\ \A g \in udp' : GoodDatagram(g)
      /\ failedNextHop' \in [Node -> Node \cup {NoNode}]
      /\ rrepAckTimer' \in [Node -> BOOLEAN]
  BY <1>2, <1>3, <1>4, SendRREPGood
<1>7. sequenceNum' \in [Node -> Nat]
  BY <1>3, <1>5 DEF Inv, TypeOK
<1> QED
  BY <1>1, <1>5, <1>6, <1>7, FreshRREQGood DEF Inv, TypeOK, GoodNetwork, GoodDatagram

\* handleRREQ where a reply would make a loop.
LEMMA SuppressRREPInv ==
    ASSUME Inv, NEW f \in air, SuppressRREP(f)
    PROVE  Inv'
<1>1. FreshRREQ(f) /\ ReceivesControl(f, "RREQ")
  BY DEF SuppressRREP, FreshRREQ
<1>2. /\ routes' = [routes EXCEPT ![f.to] = TableAfterRREQ(f)]
      /\ air' = air \ {f}
      /\ UNCHANGED <<sequenceNum, failedNextHop, rrepAckTimer, udp>>
  BY DEF SuppressRREP
<1>3. /\ routes' \in [Node -> Table]
      /\ \A m \in Node : GoodTable(m, routes'[m])
  BY <1>1, <1>2, TableAfterRREQGood, TablesGood
<1> QED
  BY <1>1, <1>2, <1>3, FreshRREQGood DEF Inv, TypeOK, GoodNetwork

\* The gratuitous RREP counts its hops from the originator of the request.
LEMMA GratuitousRREPGood ==
    ASSUME NEW n \in Node, NEW tab, GoodTable(n, tab), NEW q \in Rreq,
           tab[q.dest].known, tab[q.orig].known
    PROVE  \A g \in GratuitousRREP(n, tab, q) : GoodDatagram(g)
<1> DEFINE body == [type |-> "RREP", orig |-> q.dest, dest |-> q.orig,
                    destSeq |-> q.origSeq, hops |-> tab[q.orig].hops, ack |-> FALSE]
<1>1. q.dest \in Node /\ q.orig \in Node /\ q.origSeq \in Nat
  BY DEF Rreq
<1>2. Adjacent(n, tab[q.dest].next) /\ Reaches(n, q.orig, tab[q.orig].hops)
  BY <1>1, EntryReaches DEF GoodTable
<1>3. tab[q.orig].hops \in Nat
  BY <1>1 DEF GoodTable, Table, Entry
<1>4. body \in Control /\ GoodBody(n, tab[q.dest].next, body)
  BY <1>1, <1>2, <1>3, NoNodeAssumption DEF Control, Rrep, GoodBody
<1>5. GoodDatagram(To(n, tab[q.dest].next, body))
  BY <1>2, <1>4, ToGood
<1> QED
  BY <1>5 DEF GratuitousRREP

\* handleRREQ at an intermediate router with a fresh enough route: reply and
\* gratuitous reply take their hop counts from the table.
LEMMA AnswerForDestinationInv ==
    ASSUME Inv, NEW f \in air, AnswerForDestination(f)
    PROVE  Inv'
<1> DEFINE n == f.to
           q == Body(f)
           tab == TableAfterRREQ(f)
           tab1 == AddPrecursor(tab, q.dest, f.dgram.src)
           tab2 == AddPrecursor(tab1, q.orig, tab[q.dest].next)
           rrep == [orig |-> q.orig, dest |-> q.dest, destSeq |-> tab[q.dest].seq,
                    hops |-> tab[q.dest].hops]
<1>1. FreshRREQ(f) /\ ReceivesControl(f, "RREQ")
  BY DEF AnswerForDestination, FreshRREQ
<1>2. /\ n \in Node /\ f.dgram.src \in Node /\ q \in Rreq
      /\ q.orig \in Node /\ q.dest \in Node
      /\ GoodTable(n, tab) /\ tab[q.orig].known
  BY <1>1, TableAfterRREQGood DEF Rreq
<1>3. /\ SendRREP(n, tab2, rrep, GratuitousRREP(n, tab, q))
      /\ air' = air \ {f}
      /\ sequenceNum' = sequenceNum
      /\ tab[q.dest].known
  BY DEF AnswerForDestination, FreshEnough
<1> HIDE DEF tab
<1>4. /\ tab[q.dest].next \in Node
      /\ tab[q.dest].seq \in Nat /\ tab[q.dest].hops \in Nat
      /\ Reaches(n, q.dest, tab[q.dest].hops)
  BY <1>2, <1>3, AdjacentNodes, EntryReaches DEF GoodTable, Table, Entry
<1>5. GoodTable(n, tab1) /\ tab1[q.orig].known /\ tab1[q.dest].known
  BY <1>2, <1>3, AddPrecursorGood
<1> HIDE DEF tab1
<1>6. GoodTable(n, tab2) /\ tab2[q.orig].known /\ tab2[q.dest].known
  BY <1>2, <1>4, <1>5, AddPrecursorGood
<1> HIDE DEF tab2
<1>7. \A g \in GratuitousRREP(n, tab, q) : GoodDatagram(g)
  BY <1>2, <1>3, GratuitousRREPGood
<1>8. /\ routes' \in [Node -> Table]
      /\ \A m \in Node : GoodTable(m, routes'[m])
      /\ \A g \in udp' : GoodDatagram(g)
      /\ failedNextHop' \in [Node -> Node \cup {NoNode}]
      /\ rrepAckTimer' \in [Node -> BOOLEAN]
  BY <1>2, <1>3, <1>4, <1>6, <1>7, SendRREPGood
<1> QED
  BY <1>1, <1>3, <1>8, FreshRREQGood DEF Inv, TypeOK, GoodNetwork, GoodDatagram

\* handleRREQ passing the request on, one hop further and with a TTL above zero.
LEMMA ForwardRREQInv ==
    ASSUME Inv, NEW f \in air, ForwardRREQ(f)
    PROVE  Inv'
<1> DEFINE n == f.to
           q == Body(f)
           tab == TableAfterRREQ(f)
           onward == Onward(q, tab[q.dest])
<1>1. FreshRREQ(f) /\ ReceivesControl(f, "RREQ")
  BY DEF ForwardRREQ, FreshRREQ
<1>2. /\ n \in Node /\ q \in Rreq /\ GoodTable(n, tab)
      /\ Reaches(n, q.orig, q.hops + 1)
  BY <1>1, TableAfterRREQGood
<1>3. /\ routes' = [routes EXCEPT ![n] = tab]
      /\ air' = (air \ {f}) \cup Rebroadcasts(n, onward)
      /\ UNCHANGED <<sequenceNum, failedNextHop, rrepAckTimer, udp>>
  BY DEF ForwardRREQ
<1>4. /\ routes' \in [Node -> Table]
      /\ \A m \in Node : GoodTable(m, routes'[m])
  BY <1>2, <1>3, TablesGood
<1> HIDE DEF tab
<1>5. \A x \in Rebroadcasts(n, onward) : GoodFrame(x)
  <2>1. CASE onward.ttl > 0
    <3>1. tab[q.dest].seq \in Nat /\ q.destSeq \in Nat
      BY <1>2 DEF GoodTable, Table, Entry, Rreq
    <3>2. onward \in Control
      BY <1>2, <2>1, <3>1 DEF Onward, Larger, Rreq, Control
    <3>3. GoodBody(n, All, onward)
      BY <1>2 DEF Onward, GoodBody
    <3> QED
      BY <1>2, <3>2, <3>3, BroadcastsGood DEF Rebroadcasts, Inv, TypeOK
  <2>2. CASE ~(onward.ttl > 0)
    BY <2>2 DEF Rebroadcasts
  <2> QED
    BY <2>1, <2>2
<1>6. \A x \in air' : GoodFrame(x)
  BY <1>3, <1>5 DEF Inv, GoodNetwork
<1> QED
  BY <1>1, <1>3, <1>4, <1>6, FreshRREQGood DEF Inv, TypeOK, GoodNetwork, GoodFrame

-----------------------------------------------------------------------------
\* handleRREP, handleHello and handleRREPACK

\* What a RREP that arrives tells its receiver.
LEMMA ReceivedRREP ==
    ASSUME Inv, NEW f \in air, ReceivesControl(f, "RREP")
    PROVE  /\ Body(f) \in Rrep
           /\ f.to \in Node
           /\ f.dgram.src \in Node
           /\ Adjacent(f.to, f.dgram.src)
           /\ Body(f).dest \in Node
           /\ Body(f).destSeq \in Nat
           /\ Body(f).hops \in Nat
           /\ Reaches(f.dgram.src, Body(f).dest, Body(f).hops)
           /\ Reaches(f.to, Body(f).dest, Body(f).hops + 1)
           /\ Body(f).orig = NoNode => Body(f).dest = f.dgram.src
           /\ Body(f).ack => f.dgram.dst = Body(f).orig
<1>1. /\ f.to \in Node /\ f.dgram.src \in Node /\ Adjacent(f.to, f.dgram.src)
      /\ Body(f) \in Control /\ Body(f).type = "RREP"
      /\ GoodBody(f.dgram.src, f.dgram.dst, Body(f))
  BY ReceivedGood DEF Inv, GoodNetwork
<1>2. Body(f) \in Rrep
  BY <1>1, ControlTypes
<1>3. Body(f).dest \in Node /\ Body(f).destSeq \in Nat /\ Body(f).hops \in Nat
  BY <1>2 DEF Rrep
<1> QED
  BY <1>1, <1>2, <1>3, ReachesOver DEF GoodBody

\* The table is good once handleRREP has entered previous hop and forward route.
LEMMA TableAfterRREPGood ==
    ASSUME Inv, NEW f \in air, ReceivesControl(f, "RREP")
    PROVE  /\ GoodTable(f.to, TableAfterRREP(f))
           /\ TableAfterRREP(f)[Body(f).dest].known
<1> DEFINE prev == SetPreviousHop(routes[f.to], f.dgram.src, Body(f).destSeq)
<1>1. GoodTable(f.to, prev)
  BY ReceivedRREP, SetPreviousHopGood DEF Inv, GoodNetwork
<1>2. TableAfterRREP(f) = SetForwardRoute(prev, Body(f), f.dgram.src, Body(f).hops + 1)
  BY DEF TableAfterRREP
<1> HIDE DEF prev
<1>3. /\ Body(f).hops + 1 \in Nat /\ Body(f).hops + 1 > 0
      /\ Reaches(f.dgram.src, Body(f).dest, (Body(f).hops + 1) - 1)
  BY ReceivedRREP
<1> QED
  BY <1>1, <1>2, <1>3, ReceivedRREP, SetForwardRouteGood

\* handleRREP passing the reply on. It was not asked for a RREP-ACK, as the reply is
\* for another originator.
LEMMA ForwardRREPInv ==
    ASSUME Inv, NEW f \in air, ForwardRREP(f)
    PROVE  Inv'
<1> DEFINE n == f.to
           p == Body(f)
           tab == TableAfterRREP(f)
           back == tab[p.orig].next
           passOn == tab[p.orig].known /\ settled[n]
           tab2 == AddPrecursor(tab, p.dest, back)
           tab3 == IF tab[tab[p.dest].next].known
                   THEN AddPrecursor(tab2, tab[p.dest].next, back) ELSE tab2
           body == [type |-> "RREP", orig |-> p.orig, dest |-> p.dest,
                    destSeq |-> p.destSeq, hops |-> p.hops + 1, ack |-> FALSE]
           rrepAck == [type |-> "RREPACK"]
<1>1. /\ ReceivesControl(f, "RREP")
      /\ p.orig \in Node \ {n}
      /\ routes' = [routes EXCEPT ![n] = IF passOn THEN tab3 ELSE tab]
      /\ udp' = IF passOn
                THEN udp \cup {To(n, back, body)} \cup
                     (IF p.ack THEN {To(n, f.dgram.src, rrepAck)} ELSE {})
                ELSE udp
      /\ air' = air \ {f}
      /\ UNCHANGED <<discoveryVars, delayed, rerrCount, ackVars, settled, link,
                     appVars, budget>>
  BY DEF ForwardRREP
<1>2. /\ n \in Node /\ f.dgram.src \in Node /\ Adjacent(n, f.dgram.src)
      /\ p.dest \in Node /\ p.destSeq \in Nat /\ p.hops \in Nat
      /\ Reaches(n, p.dest, p.hops + 1)
  BY <1>1, ReceivedRREP
<1>3. GoodTable(n, tab) /\ tab[p.dest].known
  BY <1>1, TableAfterRREPGood
<1> HIDE DEF tab
<1>4. ASSUME passOn
      PROVE  GoodTable(n, tab3) /\ GoodDatagram(To(n, back, body))
  <2>1. back \in Node /\ Adjacent(n, back)
    BY <1>1, <1>3, <1>4, AdjacentNodes DEF GoodTable
  <2>2. tab[p.dest].next \in Node
    BY <1>2, <1>3, AdjacentNodes DEF GoodTable
  <2>3. GoodTable(n, tab2)
    BY <1>2, <1>3, <2>1, AddPrecursorGood
  <2> HIDE DEF tab2
  <2>4. GoodTable(n, tab3)
    <3>1. GoodTable(n, AddPrecursor(tab2, tab[p.dest].next, back))
      BY <1>2, <2>1, <2>2, <2>3, AddPrecursorGood
    <3> QED
      BY <2>3, <3>1
  <2>5. body \in Control /\ GoodBody(n, back, body)
    BY <1>1, <1>2, NoNodeAssumption DEF Control, Rrep, GoodBody
  <2>6. GoodDatagram(To(n, back, body))
    BY <1>2, <2>1, <2>5, ToGood
  <2> QED
    BY <2>4, <2>6
<1>5. ~p.ack
  <2>1. f.dgram.dst \in {n, All} /\ p.ack \in BOOLEAN
    BY <1>1, ReceivedRREP DEF ReceivesControl, Rrep
  <2> QED
    BY <1>1, <2>1, ReceivedRREP, AllAssumption
<1> HIDE DEF tab3, body, rrepAck
<1>6. GoodTable(n, IF passOn THEN tab3 ELSE tab)
  BY <1>3, <1>4
<1>7. /\ routes' \in [Node -> Table]
      /\ \A m \in Node : GoodTable(m, routes'[m])
  BY <1>1, <1>2, <1>6, TablesGood
<1>8. \A g \in udp' : GoodDatagram(g)
  BY <1>1, <1>4, <1>5 DEF Inv, GoodNetwork
<1> QED
  BY <1>1, <1>7, <1>8
     DEF Inv, TypeOK, GoodNetwork, GoodDatagram, discoveryVars, ackVars, appVars

\* handleRREP completing a discovery.
LEMMA AcceptRREPInv ==
    ASSUME Inv, NEW f \in air, AcceptRREP(f)
    PROVE  Inv'
<1> DEFINE n == f.to
           p == Body(f)
           tab == TableAfterRREP(f)
           tab2 == SetRoute(tab, p.dest, f.dgram.src, p.hops + 1, TRUE, p.destSeq)
<1>1. /\ ReceivesControl(f, "RREP")
      /\ routes' = [routes EXCEPT ![n] = tab2]
      /\ wait' = [wait EXCEPT ![n] = [@ EXCEPT ![p.dest] = NoDiscovery]]
      /\ delayed' = [delayed EXCEPT ![n] = @ \ Waiting(n, p.dest)]
      /\ air' = (air \ {f}) \cup
                {[from |-> n, to |-> f.dgram.src, dgram |-> g] : g \in Waiting(n, p.dest)}
      /\ UNCHANGED <<sequenceNum, rreqId, seen, rreqCount, rerrCount, ackVars,
                     settled, udp, link, appVars, budget>>
  BY DEF AcceptRREP
<1>2. /\ n \in Node /\ f.dgram.src \in Node /\ Adjacent(n, f.dgram.src)
      /\ p.dest \in Node /\ p.destSeq \in Nat /\ p.hops + 1 \in Nat /\ p.hops + 1 > 0
      /\ Reaches(f.dgram.src, p.dest, (p.hops + 1) - 1)
  BY <1>1, ReceivedRREP
<1>3. GoodTable(n, tab)
  BY <1>1, TableAfterRREPGood
<1> HIDE DEF tab
<1>4. GoodTable(n, tab2)
  BY <1>2, <1>3, SetRouteGood
<1> HIDE DEF tab2
<1>5. /\ routes' \in [Node -> Table]
      /\ \A m \in Node : GoodTable(m, routes'[m])
  BY <1>1, <1>2, <1>4, TablesGood
<1>6. \A g \in Waiting(n, p.dest) : GoodDatagram(g)
  BY <1>2 DEF Waiting, Inv, GoodNetwork
<1>7. \A x \in air' : GoodFrame(x)
  BY <1>1, <1>2, <1>6, HandedOn DEF Inv, GoodNetwork
<1>8. wait' \in [Node -> [Node -> Discovery]]
  BY <1>1 DEF Inv, TypeOK, Discovery, NoDiscovery
<1> QED
  BY <1>1, <1>5, <1>7, <1>8 DEF Inv, TypeOK, GoodNetwork, GoodFrame, ackVars, appVars

\* handleRREP after the discovery is over.
LEMMA LateRREPInv ==
    ASSUME Inv, NEW f \in air, LateRREP(f)
    PROVE  Inv'
<1>1. ReceivesControl(f, "RREP") /\ routes' = [routes EXCEPT ![f.to] = TableAfterRREP(f)]
  BY DEF LateRREP
<1>2. /\ routes' \in [Node -> Table]
      /\ \A m \in Node : GoodTable(m, routes'[m])
  BY <1>1, ReceivedRREP, TableAfterRREPGood, TablesGood
<1> QED
  BY <1>2 DEF LateRREP, Inv, TypeOK, GoodNetwork, discoveryVars, ackVars, appVars

\* handleHelloMessage.
LEMMA HandleHelloInv ==
    ASSUME Inv, NEW f \in air, HandleHello(f)
    PROVE  Inv'
<1> DEFINE n == f.to
           hello == Body(f)
           tab == SetRoute(routes[n], hello.dest, hello.dest, 1, TRUE, hello.destSeq)
<1>1. ReceivesControl(f, "RREP") /\ routes' = [routes EXCEPT ![n] = tab]
  BY DEF HandleHello
<1>2. n \in Node /\ hello.dest \in Node /\ hello.destSeq \in Nat
  BY <1>1, ReceivedRREP
<1>3. Adjacent(n, hello.dest)
  BY <1>1, ReceivedRREP DEF HandleHello
<1>4. GoodTable(n, tab)
  BY <1>2, <1>3, DirectRouteGood DEF Inv, GoodNetwork
<1> HIDE DEF tab
<1>5. /\ routes' \in [Node -> Table]
      /\ \A m \in Node : GoodTable(m, routes'[m])
  BY <1>1, <1>2, <1>4, TablesGood
<1> QED
  BY <1>5 DEF HandleHello, Inv, TypeOK, GoodNetwork, discoveryVars, ackVars, appVars

\* handleRREPACK never runs: no frame carries a RREP-ACK.
LEMMA HandleRREPACKInv ==
    ASSUME Inv, NEW f \in air, HandleRREPACK(f)
    PROVE  Inv'
<1>1. Body(f).type = "RREPACK" /\ GoodBody(f.dgram.src, f.dgram.dst, Body(f))
  BY ReceivedGood DEF HandleRREPACK, Inv, GoodNetwork
<1> QED
  BY <1>1 DEF GoodBody

-----------------------------------------------------------------------------
\* Route errors

\* A RERR is broadcast to neighbours, and the rate limit is kept.
LEMMA SendRERRGood ==
    ASSUME Inv, NEW n \in Node, NEW tab, GoodTable(n, tab), NEW listed \in SUBSET Node,
           NEW may, NEW inAir, \A f \in inAir : GoodFrame(f),
           SendRERR(n, tab, listed, may, inAir)
    PROVE  /\ rerrCount' \in [Node -> 0 .. RerrRatelimit]
           /\ \A f \in air' : GoodFrame(f)
<1>1. Listing(tab, listed) \in Control /\ GoodBody(n, All, Listing(tab, listed))
  <2>1. Listing(tab, listed) \in Rerr
    BY DEF Listing, Rerr, GoodTable, Table, Entry
  <2> QED
    BY <2>1 DEF Control, GoodBody, Listing
<1>2. \A f \in Broadcasts(n, Listing(tab, listed)) : GoodFrame(f)
  BY <1>1, BroadcastsGood DEF Inv, TypeOK
<1>3. \A f \in air' : GoodFrame(f)
  BY <1>2 DEF SendRERR
<1>4. rerrCount' \in [Node -> 0 .. RerrRatelimit]
  BY RateAssumption DEF SendRERR, Inv, TypeOK
<1> QED
  BY <1>3, <1>4

\* A budget stays a budget.
LEMMA SpendType ==
    ASSUME Inv, NEW kind \in Kind, Spend(kind)
    PROVE  budget' \in [Kind -> Nat]
  BY DEF Spend, Inv, TypeOK

\* A broadcast frame is lost.
LEMMA LoseBroadcastInv ==
    ASSUME Inv, NEW f \in air, LoseBroadcast(f)
    PROVE  Inv'
<1>1. budget' \in [Kind -> Nat]
  BY SpendType DEF LoseBroadcast, Fails, Kind, Inv, TypeOK
<1> QED
  BY <1>1 DEF LoseBroadcast, Inv, TypeOK, GoodNetwork, discoveryVars, ackVars, appVars

\* handleLinkBreakSendRERR keeps the tables good and sends good frames.
LEMMA HandleLinkBreakGood ==
    ASSUME Inv, NEW n \in Node, NEW neighbor \in Node, NEW inAir,
           \A f \in inAir : GoodFrame(f),
           HandleLinkBreak(n, neighbor, inAir)
    PROVE  /\ routes' \in [Node -> Table]
           /\ \A m \in Node : GoodTable(m, routes'[m])
           /\ rerrCount' \in [Node -> 0 .. RerrRatelimit]
           /\ \A f \in air' : GoodFrame(f)
<1> DEFINE new == BreakLink(routes[n], neighbor)
           listed == ActiveVia(routes[n], neighbor) \cup
                     (IF routes[n][neighbor].active THEN {neighbor} ELSE {})
<1>1. CASE routes[n][neighbor].known
  <2>1. routes' = [routes EXCEPT ![n] = new] /\ SendRERR(n, new, listed, TRUE, inAir)
    BY <1>1 DEF HandleLinkBreak
  <2>2. listed \in SUBSET Node
    BY DEF ActiveVia
  <2>3. GoodTable(n, new)
    BY BreakLinkGood DEF Inv, GoodNetwork
  <2> HIDE DEF new, listed
  <2> QED
    BY <2>1, <2>2, <2>3, TablesGood, SendRERRGood
<1>2. CASE ~routes[n][neighbor].known
  BY <1>2 DEF HandleLinkBreak, Inv, TypeOK, GoodNetwork
<1> QED
  BY <1>1, <1>2

\* receiveSignal: the link layer gives up a unicast frame, arrived or not.
LEMMA LinkBreakInv ==
    ASSUME Inv, NEW f \in air, NEW arrived \in BOOLEAN, LinkBreak(f, arrived)
    PROVE  Inv'
<1> DEFINE n == f.from
           entry == routes[n][f.dgram.dst]
           inAir == IF arrived THEN air ELSE air \ {f}
<1>1. n \in Node /\ \A x \in inAir : GoodFrame(x)
  BY DEF Inv, GoodNetwork, GoodFrame, Frame
<1>2. budget' \in [Kind -> Nat]
  BY SpendType DEF LinkBreak, Fails, Kind, Inv, TypeOK
<1>3. f.dgram.dst \in Node
  BY DatagramType DEF LinkBreak, Inv, GoodNetwork, GoodFrame, GoodDatagram
<1>4. /\ routes' \in [Node -> Table]
      /\ \A m \in Node : GoodTable(m, routes'[m])
      /\ rerrCount' \in [Node -> 0 .. RerrRatelimit]
      /\ \A x \in air' : GoodFrame(x)
  <2>1. CASE entry.known
    <3>1. HandleLinkBreak(n, entry.next, inAir)
      BY <2>1 DEF LinkBreak
    <3>2. entry.next \in Node
      BY <1>1, <1>3, <2>1, AdjacentNodes DEF Inv, GoodNetwork, GoodTable
    <3> HIDE DEF inAir, entry
    <3> QED
      BY <1>1, <3>1, <3>2, HandleLinkBreakGood
  <2>2. CASE ~entry.known
    <3>1. air' = inAir /\ UNCHANGED <<routes, rerrCount>>
      BY <2>2 DEF LinkBreak
    <3> QED
      BY <1>1, <3>1 DEF Inv, TypeOK, GoodNetwork
  <2> QED
    BY <2>1, <2>2
<1> QED
  BY <1>2, <1>4
     DEF LinkBreak, Inv, TypeOK, GoodNetwork, GoodFrame, discoveryVars, ackVars, appVars

\* handleRERR.
LEMMA HandleRERRInv ==
    ASSUME Inv, NEW f \in air, HandleRERR(f)
    PROVE  Inv'
<1> DEFINE n == f.to
           gone == Unreachable(routes[n], Body(f), f.dgram.src)
           new == Deactivate(routes[n], gone, Body(f).seqs)
           listed == {d \in gone : new[d].prec # {}}
<1>1. /\ ReceivesControl(f, "RERR")
      /\ routes' = [routes EXCEPT ![n] = new]
      /\ SendRERR(n, new, listed, settled[n], air \ {f})
  BY DEF HandleRERR
<1>2. n \in Node /\ Body(f) \in Control /\ Body(f).type = "RERR"
  BY <1>1, ReceivedGood DEF Inv, GoodNetwork
<1>3. Body(f).seqs \in [Node -> Nat]
  BY <1>2, ControlTypes DEF Rerr
<1>4. GoodTable(n, new)
  BY <1>2, <1>3, DeactivateGood DEF Inv, GoodNetwork
<1>5. listed \in SUBSET Node
  BY DEF Unreachable, ActiveVia
<1>6. \A x \in air \ {f} : GoodFrame(x)
  BY DEF Inv, GoodNetwork
<1> HIDE DEF new, listed
<1>7. /\ routes' \in [Node -> Table]
      /\ \A m \in Node : GoodTable(m, routes'[m])
  BY <1>1, <1>2, <1>4, TablesGood
<1>8. /\ rerrCount' \in [Node -> 0 .. RerrRatelimit]
      /\ \A x \in air' : GoodFrame(x)
  BY <1>1, <1>2, <1>4, <1>5, <1>6, SendRERRGood
<1> QED
  BY <1>7, <1>8
     DEF HandleRERR, Inv, TypeOK, GoodNetwork, GoodFrame, discoveryVars, ackVars, appVars

-----------------------------------------------------------------------------
\* Timers, links and life cycle

\* handleWaitForRREP after the last retry.
LEMMA CancelRouteDiscoveryInv ==
    ASSUME Inv, NEW n \in Node, NEW target \in Node, CancelRouteDiscovery(n, target)
    PROVE  Inv'
<1>1. wait' \in [Node -> [Node -> Discovery]]
  <2>1. NoDiscovery \in Discovery
    BY DEF NoDiscovery, Discovery
  <2> QED
    BY <2>1 DEF CancelRouteDiscovery, Inv, TypeOK
<1> QED
  BY <1>1 DEF CancelRouteDiscovery, Inv, TypeOK, GoodNetwork, ackVars, appVars

\* handleWaitForRREP before the last retry.
LEMMA RetryRREQInv ==
    ASSUME Inv, NEW n \in Node, NEW target \in Node, RetryRREQ(n, target)
    PROVE  Inv'
<1> DEFINE old == wait[n][target]
           w == [on |-> TRUE, lastTTL |-> old.lastTTL, retries |-> Attempts(old),
                 armed |-> TRUE]
<1>1. old \in Discovery
  BY DEF Inv, TypeOK
<1>2. w \in Discovery
  BY <1>1 DEF Discovery, Attempts
<1>3. SendRREQ(n, target, w, air) /\ \A f \in air : GoodFrame(f)
  BY DEF RetryRREQ, Inv, GoodNetwork
<1> QED
  BY <1>2, <1>3, SendRREQGood
     DEF RetryRREQ, Inv, TypeOK, GoodNetwork, GoodFrame, ackVars, appVars

\* The timers of RREP-ACK and blacklist.
LEMMA AckTimersInv ==
    ASSUME Inv, NEW n \in Node, NEW over,
           HandleRREPACKTimer(n) \/ HandleBlackListTimer(n, over)
    PROVE  Inv'
<1>1. CASE HandleRREPACKTimer(n)
  BY <1>1 DEF HandleRREPACKTimer, Inv, TypeOK, GoodNetwork, discoveryVars, appVars
<1>2. CASE HandleBlackListTimer(n, over)
  BY <1>2 DEF HandleBlackListTimer, Inv, TypeOK, GoodNetwork, discoveryVars, appVars
<1> QED
  BY <1>1, <1>2

\* expungeRoutes for any set of entries that are due.
LEMMA ExpungeRoutesInv ==
    ASSUME Inv, NEW n \in Node, NEW due, ExpungeRoutes(n, due)
    PROVE  Inv'
<1>1. budget' \in [Kind -> Nat]
  BY SpendType DEF ExpungeRoutes, Kind
<1>2. /\ routes' \in [Node -> Table]
      /\ \A m \in Node : GoodTable(m, routes'[m])
  BY ExpungeGood, TablesGood DEF ExpungeRoutes, Inv, GoodNetwork
<1> QED
  BY <1>1, <1>2
     DEF ExpungeRoutes, Inv, TypeOK, GoodNetwork, discoveryVars, ackVars, appVars

\* sendHelloMessagesIfNeeded.
LEMMA SendHelloMessagesInv ==
    ASSUME Inv, NEW n \in Node, SendHelloMessages(n)
    PROVE  Inv'
<1> DEFINE hello == [type |-> "RREP", orig |-> NoNode, dest |-> n,
                     destSeq |-> sequenceNum[n], hops |-> 0, ack |-> FALSE]
<1>1. budget' \in [Kind -> Nat]
  BY SpendType DEF SendHelloMessages, Kind
<1>2. hello \in Control /\ GoodBody(n, All, hello)
  BY ReachesSelf DEF Control, Rrep, GoodBody, Inv, TypeOK
<1>3. \A f \in Broadcasts(n, hello) : GoodFrame(f)
  BY <1>2, BroadcastsGood DEF Inv, TypeOK
<1>4. \A f \in air' : GoodFrame(f)
  BY <1>3 DEF SendHelloMessages, Inv, GoodNetwork
<1> QED
  BY <1>1, <1>4 DEF SendHelloMessages, Inv, TypeOK, GoodNetwork, GoodFrame,
                    discoveryVars, ackVars, appVars

\* The counters are reset once a second.
LEMMA CounterTimerInv ==
    ASSUME Inv, NEW n \in Node, CounterTimer(n)
    PROVE  Inv'
<1>1. budget' \in [Kind -> Nat]
  BY SpendType DEF CounterTimer, Kind
<1> QED
  BY <1>1, RateAssumption
     DEF CounterTimer, Inv, TypeOK, GoodNetwork, ackVars, appVars

\* A link fails: what the tables tell of is the network as it was built.
LEMMA LinkDownInv ==
    ASSUME Inv, NEW l, LinkDown(l)
    PROVE  Inv'
<1>1. budget' \in [Kind -> Nat]
  BY SpendType DEF LinkDown, Kind
<1> QED
  BY <1>1 DEF LinkDown, Inv, TypeOK, GoodNetwork, discoveryVars, ackVars, appVars

\* Stop or crash, and start.
LEMMA RebootInv ==
    ASSUME Inv, NEW n \in Node, Reboot(n)
    PROVE  Inv'
<1>1. budget' \in [Kind -> Nat]
  BY SpendType DEF Reboot, Kind
<1>2. /\ routes' \in [Node -> Table]
      /\ \A m \in Node : GoodTable(m, routes'[m])
  BY EmptyTableGood, TablesGood DEF Reboot
<1>3. wait' \in [Node -> [Node -> Discovery]]
  BY DEF Reboot, NoDiscovery, Discovery, Inv, TypeOK
<1> QED
  BY <1>1, <1>2, <1>3, RateAssumption DEF Reboot, Inv, TypeOK, GoodNetwork, appVars

\* The wait after a start is over.
LEMMA RebootWaitOverInv ==
    ASSUME Inv, NEW n \in Node, RebootWaitOver(n)
    PROVE  Inv'
  BY DEF RebootWaitOver, Inv, TypeOK, GoodNetwork, discoveryVars, ackVars, appVars

-----------------------------------------------------------------------------
\* The theorems

\* Every handler of a frame keeps the invariant.
LEMMA ReceiveInv ==
    ASSUME Inv, NEW f \in air, Receive(f)
    PROVE  Inv'
<1>1. CASE HandleRREQ(f)
  BY <1>1, IgnoreRREQInv, DiscardRREQInv, AnswerRREQInv, SuppressRREPInv,
     AnswerForDestinationInv, ForwardRREQInv DEF HandleRREQ
<1>2. CASE HandleRREP(f)
  BY <1>2, ForwardRREPInv, AcceptRREPInv, LateRREPInv, HandleHelloInv DEF HandleRREP
<1>3. CASE HandleRREPACK(f) \/ HandleRERR(f)
  BY <1>3, HandleRREPACKInv, HandleRERRInv
<1>4. CASE ForwardDatagram(f) \/ QueueForwarded(f) \/ DeliverData(f)
  BY <1>4, ForwardDatagramInv, QueueForwardedInv, DeliverDataInv
<1> QED
  BY <1>1, <1>2, <1>3, <1>4 DEF Receive

\* Every timer and life-cycle step of a router keeps the invariant.
LEMMA NodeStepInv ==
    ASSUME Inv, NEW n \in Node, NodeStep(n)
    PROVE  Inv'
<1>1. CASE \E target \in Node : HandleWaitForRREP(n, target)
  BY <1>1, CancelRouteDiscoveryInv, RetryRREQInv DEF HandleWaitForRREP
<1>2. CASE \/ HandleRREPACKTimer(n)
           \/ \E over \in SUBSET blacklist[n] : HandleBlackListTimer(n, over)
  BY <1>2, AckTimersInv
<1>3. CASE \E due \in SUBSET Node : ExpungeRoutes(n, due)
  BY <1>3, ExpungeRoutesInv
<1>4. CASE SendHelloMessages(n) \/ CounterTimer(n)
  BY <1>4, SendHelloMessagesInv, CounterTimerInv
<1>5. CASE Reboot(n) \/ RebootWaitOver(n)
  BY <1>5, RebootInv, RebootWaitOverInv
<1> QED
  BY <1>1, <1>2, <1>3, <1>4, <1>5 DEF NodeStep

\* Every step of the network keeps the invariant: it is inductive.
LEMMA NextInv == Inv /\ [Next]_vars => Inv'
<1> SUFFICES ASSUME Inv, [Next]_vars PROVE Inv'
  OBVIOUS
<1>1. ASSUME NEW g \in Flow, AppSend(g) PROVE Inv'
  BY <1>1, AppSendInv
<1>2. ASSUME NEW g \in udp, LocalOut(g) PROVE Inv'
  BY <1>2, SendDatagramInv, QueueDatagramInv DEF LocalOut
<1>3. ASSUME NEW f \in air, FrameStep(f) PROVE Inv'
  BY <1>3, ReceiveInv, LoseBroadcastInv, LinkBreakInv DEF FrameStep
<1>4. ASSUME NEW n \in Node, NodeStep(n) PROVE Inv'
  BY <1>4, NodeStepInv
<1>5. ASSUME NEW l \in Link, LinkDown(l) PROVE Inv'
  BY <1>5, LinkDownInv
<1>6. CASE UNCHANGED vars
  BY <1>6 DEF vars, discoveryVars, ackVars, appVars, Inv, TypeOK, GoodNetwork
<1> QED
  BY <1>1, <1>2, <1>3, <1>4, <1>5, <1>6 DEF Next

\* At any time every variable has its type, every entry names a neighbour and the
\* length of a walk over it, and every packet and frame on its way tells its next
\* receiver of such a walk. Without the packets the other theorems are not inductive: an
\* entry is good because the packet it was learnt from was.
THEOREM Invariance == Spec => []Inv
  BY InitInv, NextInv, PTL DEF Spec

\* Every variable keeps its type, whatever is lost, expires, fails or reboots; in
\* particular a RREQ is never sent with a TTL of zero (sendAODVPacket asserts it).
THEOREM TypeCorrect == Spec => []TypeOK
<1>1. Inv => TypeOK
  BY DEF Inv
<1> QED
  BY <1>1, Invariance, PTL

\* Every next hop in every table is a node in radio range.
THEOREM NextHopsAreNeighbors == Spec => []NextHopAdjacent
<1>1. Inv => NextHopAdjacent
  BY DEF Inv, GoodNetwork, GoodTable, NextHopAdjacent
<1> QED
  BY <1>1, Invariance, PTL

\* Every metric in every table is the length of a walk to the destination that starts
\* with the next hop.
THEOREM HopCountsAreWalks == Spec => []HopCountSound
<1>1. Inv => HopCountSound
  BY DEF Inv, GoodNetwork, GoodTable, HopCountSound
<1> QED
  BY <1>1, Invariance, PTL

\* No RREP-ACK is ever sent, in any network: what sendRREP asks for at a metric of one
\* is asked of the originator of the request, which never answers with a RREP-ACK. A
\* neighbour that asked for a route is therefore blacklisted in the end although its
\* RREP arrived (handleRREPACKTimer), and handleRREPACK is dead code.
THEOREM RrepAckNeverSent == Spec => []NoRrepAckSent
<1>1. Inv => NoRrepAckSent
  <2> SUFFICES ASSUME Inv PROVE ~InFlight({"RREPACK"})
    BY DEF NoRrepAckSent
  <2>1. ASSUME NEW g \in udp PROVE g.body.type # "RREPACK"
    BY DEF Inv, GoodNetwork, GoodDatagram, GoodBody
  <2>2. ASSUME NEW f \in air PROVE Body(f).type # "RREPACK"
    BY DEF Inv, GoodNetwork, GoodFrame, GoodDatagram, GoodBody, Body
  <2> QED
    BY <2>1, <2>2 DEF InFlight
<1> QED
  BY <1>1, Invariance, PTL
=============================================================================
