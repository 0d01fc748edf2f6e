------------------------- MODULE AodvDiscoveryProofs -------------------------
(***************************************************************************)
(* Theorems about the discoveries of Aodv, for every network, traffic and  *)
(* value of the parameters: retries, queues, request IDs, sequence         *)
(* numbers, the way back of replies, and what route errors list.           *)
(*                                                                         *)
(* Two lemmas describe all steps at once: where an entry of a table comes  *)
(* from (EntriesStep) and where a packet comes from (PacketsStep).         *)
(***************************************************************************)
EXTENDS AodvProofs

\* Every datagram and every broadcast that is somewhere on its way.
Datagrams == udp \cup {f.dgram : f \in air} \cup UNION {delayed[n] : n \in Node}

\* As long as no router has restarted, and as long as no entry has been deleted.
Unrebooted == budget["reboot"] = Budget["reboot"]
Undeleted == \A k \in {"expunge", "reboot"} : budget[k] = Budget[k]

-----------------------------------------------------------------------------
\* What a step does to an entry: it stays, or stops being active;
Kept(old, new) ==
    /\ new.known = old.known
    /\ new.next = old.next
    /\ new.active => old.active /\ new.valid = old.valid /\ new.seq = old.seq
    /\ ~new.known => new.seq = old.seq

\* or a packet tells of it: of the neighbour it comes from, of the originator of a
\* request, of the destination of a reply.
TaughtBy(f, d, entry) ==
    /\ entry.known
    /\ \/ d = f.dgram.src /\ entry.next = d /\ ~entry.valid
       \/ /\ Body(f).type = "RREQ" /\ d = Body(f).orig
          /\ entry.next = f.dgram.src /\ entry.seq = Body(f).origSeq
       \/ /\ Body(f).type = "RREP" /\ d = Body(f).dest
          /\ entry.next = f.dgram.src /\ entry.seq = Body(f).destSeq

\* or it is deleted, by expiry or by a restart.
EntryStep(n, d) ==
    \/ Kept(routes[n][d], routes'[n][d])
    \/ \E f \in air : f.to = n /\ TaughtBy(f, d, routes'[n][d])
    \/ routes'[n][d] = NoRoute /\ \E k \in {"expunge", "reboot"} : budget'[k] < budget[k]

EntriesStep == \A n, d \in Node : EntryStep(n, d)

\* Where a request comes from: it is new, for the target t, or passed on.
RequestStep(g, t) ==
    LET q == g.body
    IN /\ q.type = "RREQ"
       /\ g.dst = All
       /\ \/ /\ q.orig = g.src
             /\ q.dest = t
             /\ q.id = rreqId[q.orig] + 1 /\ q.id = rreqId'[q.orig]
             /\ q.origSeq = sequenceNum'[q.orig]
          \/ /\ ~q.unknownSeq
             /\ routes'[g.src][q.orig].known
             /\ \E h \in Datagrams : /\ h.body.type = "RREQ"
                                     /\ RreqKey(h.body) = RreqKey(q)
                                     /\ h.body.dest = q.dest
                                     /\ h.body.origSeq = q.origSeq

\* Where a reply comes from: from its destination, from an entry, from a request whose
\* originator it is about, or from another reply.
ReplyStep(g) ==
    LET p == g.body
    IN /\ p.type = "RREP"
       /\ \/ p.dest = g.src /\ p.destSeq = sequenceNum'[g.src]
          \/ /\ routes'[g.src][p.dest].known
             /\ \/ /\ routes'[g.src][p.dest].active /\ routes'[g.src][p.dest].valid
                   /\ routes'[g.src][p.dest].seq = p.destSeq
                \/ \E h \in Datagrams : /\ h.body.type = "RREQ"
                                        /\ h.body.orig = p.dest /\ h.body.origSeq = p.destSeq
                \/ \E h \in Datagrams : /\ h.body.type = "RREP"
                                        /\ h.body.dest = p.dest /\ h.body.destSeq = p.destSeq

PacketStep(g, t) ==
    \/ g \in Datagrams
    \/ g.body.type = "DATA"
    \/ g.body.type = "RERR" /\ g.dst = All
    \/ RequestStep(g, t)
    \/ ReplyStep(g)

PacketsStep == \E t \in Node \cup {NoNode} : \A g \in Datagrams' : PacketStep(g, t)

CountersStep ==
    \A n \in Node : \/ rreqId[n] <= rreqId'[n] /\ sequenceNum[n] <= sequenceNum'[n]
                    \/ budget'["reboot"] < budget["reboot"]

SeenStep ==
    \A n \in Node : \A k \in seen'[n] :
        \/ k \in seen[n]
        \/ k = <<n, rreqId'[n]>>
        \/ \E g \in Datagrams : g.body.type = "RREQ" /\ k = RreqKey(g.body)

BudgetStep == \A k \in Kind : budget'[k] <= budget[k]

Step == EntriesStep /\ PacketsStep /\ CountersStep /\ SeenStep /\ BudgetStep

-----------------------------------------------------------------------------
\* Only an originator sends a request that does not know the destination's number;
\* entries that do not exist have the number 0; requests and errors are broadcast.
Firsthand ==
    /\ \A g \in Datagrams :
          /\ g.body.type = "RREQ" => g.dst = All /\ (g.body.unknownSeq => g.src = g.body.orig)
          /\ g.body.type = "RERR" => g.dst = All
    /\ \A n, d \in Node : ~routes[n][d].known => routes[n][d].seq = 0

\* No number that is told or taken for valid is ahead of the router it belongs to, and no
\* ID ahead of its originator; the copies of a request have the same target and number.
Numbers ==
    /\ SeqNotAhead
    /\ RreqIdsFresh
    /\ \A g \in Datagrams :
          /\ g.body.type = "RREQ" => /\ g.body.origSeq <= sequenceNum[g.body.orig]
                                     /\ g.body.id <= rreqId[g.body.orig]
          /\ g.body.type = "RREP" => g.body.destSeq <= sequenceNum[g.body.dest]
    /\ \A g, h \in Datagrams :
          g.body.type = "RREQ" /\ h.body.type = "RREQ" /\ RreqKey(g.body) = RreqKey(h.body) =>
              g.body.dest = h.body.dest /\ g.body.origSeq = h.body.origSeq

\* Whoever tells of a node is this node or has an entry for it, and a next hop is
\* somebody who has told.
Knows(n, d) == n = d \/ routes[n][d].known
Telling ==
    /\ \A n, d \in Node : routes[n][d].known => Knows(routes[n][d].next, d)
    /\ \A g \in Datagrams : /\ g.body.type = "RREQ" => Knows(g.src, g.body.orig)
                            /\ g.body.type = "RREP" => Knows(g.src, g.body.dest)

BudgetsSpent == \A k \in Kind : budget[k] <= Budget[k]

DInv ==
    /\ Firsthand
    /\ BudgetsSpent
    /\ Unrebooted => Numbers
    /\ Undeleted => Telling

-----------------------------------------------------------------------------
\* Entries

\* Precursors play no part in any of this.
SamePath(e, x) ==
    /\ x.known = e.known /\ x.active = e.active /\ x.valid = e.valid
    /\ x.next = e.next /\ x.seq = e.seq

LEMMA AddPrecursorSamePath ==
    ASSUME NEW tab \in Table, NEW d, NEW m
    PROVE  \A x \in Node : SamePath(tab[x], AddPrecursor(tab, d, m)[x])
BY DEF SamePath, AddPrecursor, Table

LEMMA AddPrecursorTable ==
    ASSUME NEW tab \in Table, NEW d \in Node, NEW m \in Node
    PROVE  AddPrecursor(tab, d, m) \in Table
BY DEF AddPrecursor, Table, Entry

LEMMA AddPrecursorSamePathOf ==
    ASSUME NEW tab \in Table, NEW d, NEW m, NEW e, NEW k
    PROVE  \A x \in Node : SamePath(AddPrecursor(tab, d, m)[x],
                                    AddPrecursor(AddPrecursor(tab, d, m), e, k)[x])
BY DEF SamePath, AddPrecursor, Table

\* The table tab of n, as the packet of the frame f changes it.
Learnt(f, tab) ==
    \A d \in Node : Kept(routes[f.to][d], tab[d]) \/ TaughtBy(f, d, tab[d])

LEMMA SamePathLearnt ==
    ASSUME NEW f, NEW tab, NEW new, Learnt(f, tab), \A x \in Node : SamePath(tab[x], new[x])
    PROVE  Learnt(f, new)
<1> SUFFICES ASSUME NEW d \in Node
             PROVE  Kept(routes[f.to][d], new[d]) \/ TaughtBy(f, d, new[d])
  BY DEF Learnt
<1>1. SamePath(tab[d], new[d])
  OBVIOUS
<1>2. CASE Kept(routes[f.to][d], tab[d])
  BY <1>1, <1>2 DEF SamePath, Kept
<1>3. CASE TaughtBy(f, d, tab[d])
  BY <1>1, <1>3 DEF SamePath, TaughtBy
<1> QED
  BY <1>2, <1>3 DEF Learnt

\* A step that replaces the table of the receiver of f by what f taught it.
LEMMA LearntStep ==
    ASSUME Inv, NEW f \in air, f.to \in Node, NEW tab, Learnt(f, tab),
           routes' = [routes EXCEPT ![f.to] = tab]
    PROVE  EntriesStep
<1> SUFFICES ASSUME NEW n \in Node, NEW d \in Node PROVE EntryStep(n, d)
  BY DEF EntriesStep
<1>1. routes \in [Node -> Table]
  BY DEF Inv, TypeOK
<1>2. CASE n = f.to
  BY <1>1, <1>2 DEF EntryStep, Learnt
<1>3. CASE n # f.to
  BY <1>1, <1>3 DEF EntryStep, Kept
<1> QED
  BY <1>2, <1>3

\* A step that leaves the tables alone.
LEMMA TablesKept ==
    ASSUME UNCHANGED routes
    PROVE  EntriesStep
BY DEF EntriesStep, EntryStep, Kept

\* The previous hop and the reverse route of handleRREQ. The number of the reverse route is
\* that of the request even where updateRoutingTable is given the larger one: only the
\* originator itself sends a request that overrides a larger number.
LEMMA LearntFromRREQ ==
    ASSUME Inv, Firsthand, NEW f \in air, ReceivesControl(f, "RREQ")
    PROVE  /\ Learnt(f, SetPreviousHop(routes[f.to], f.dgram.src, Body(f).origSeq))
           /\ Learnt(f, TableAfterRREQ(f))
<1> DEFINE m == f.dgram.src
           q == Body(f)
           old == routes[f.to]
           prev == SetPreviousHop(old, m, q.origSeq)
<1>1. /\ f.to \in Node /\ m \in Node /\ q \in Rreq /\ q.type = "RREQ"
      /\ q.orig \in Node /\ q.origSeq \in Nat /\ q.unknownSeq \in BOOLEAN
  BY TableAfterRREQGood DEF ReceivesControl, Rreq
<1>2. old \in Table /\ \A d \in Node : ~old[d].known => old[d].seq = 0
  BY <1>1 DEF Inv, TypeOK, Firsthand
<1>3. q.unknownSeq => m = q.orig
  BY <1>1 DEF Firsthand, Datagrams, Body
<1>4. /\ prev[m].known /\ prev[m].next = m /\ ~prev[m].valid /\ prev[m].seq = q.origSeq
      /\ \A d \in Node \ {m} : prev[d] = old[d]
  BY <1>1, <1>2 DEF SetPreviousHop, SetRoute, Table
<1>5. prev \in [Node -> Entry]
  BY <1>1, <1>2 DEF SetPreviousHop, SetRoute, Table, Entry
<1>6. Learnt(f, prev)
  BY <1>1, <1>4 DEF Learnt, TaughtBy, Kept
<1>7. TableAfterRREQ(f) = SetReverseRoute(prev, q, m, q.hops + 1)
  BY DEF TableAfterRREQ
<1> HIDE DEF prev
<1>8. ASSUME ReverseRouteChanges(prev[q.orig], q, q.hops + 1)
      PROVE  Learnt(f, TableAfterRREQ(f))
  <2> DEFINE new == TableAfterRREQ(f)
  <2>1. Larger(prev[q.orig].seq, q.origSeq) = q.origSeq
    <3>1. prev[q.orig].seq \in Nat
      BY <1>1, <1>5 DEF Entry
    <3>2. ~prev[q.orig].known => prev[q.orig].seq = 0
      BY <1>1, <1>2, <1>4
    <3>3. q.unknownSeq => prev[q.orig].seq = q.origSeq
      BY <1>3, <1>4
    <3> QED
      BY <1>1, <1>8, <3>1, <3>2, <3>3 DEF Larger, ReverseRouteChanges
  <2>2. /\ new[q.orig].known /\ new[q.orig].next = m /\ new[q.orig].seq = q.origSeq
        /\ \A d \in Node \ {q.orig} : new[d] = prev[d]
    BY <1>1, <1>5, <1>7, <1>8, <2>1 DEF SetReverseRoute, SetRoute
  <2> QED
    BY <1>1, <1>6, <2>2 DEF Learnt, TaughtBy
<1>9. ASSUME ~ReverseRouteChanges(prev[q.orig], q, q.hops + 1)
      PROVE  Learnt(f, TableAfterRREQ(f))
  BY <1>6, <1>7, <1>9 DEF SetReverseRoute
<1> QED
  BY <1>6, <1>8, <1>9 DEF prev

\* The previous hop and the forward route of handleRREP.
LEMMA LearntFromRREP ==
    ASSUME Inv, NEW f \in air, ReceivesControl(f, "RREP")
    PROVE  /\ Learnt(f, TableAfterRREP(f))
           /\ TableAfterRREP(f) \in Table
<1> DEFINE m == f.dgram.src
           p == Body(f)
           old == routes[f.to]
           prev == SetPreviousHop(old, m, p.destSeq)
<1>1. /\ f.to \in Node /\ m \in Node /\ p \in Rrep /\ p.type = "RREP"
      /\ p.dest \in Node /\ p.destSeq \in Nat
  BY ReceivedRREP DEF ReceivesControl
<1>2. old \in Table
  BY <1>1 DEF Inv, TypeOK
<1>3. /\ prev[m].known /\ prev[m].next = m /\ ~prev[m].valid
      /\ \A d \in Node \ {m} : prev[d] = old[d]
  BY <1>1, <1>2 DEF SetPreviousHop, SetRoute, Table
<1>4. prev \in [Node -> Entry]
  BY <1>1, <1>2 DEF SetPreviousHop, SetRoute, Table, Entry
<1>5. Learnt(f, prev)
  BY <1>1, <1>3 DEF Learnt, TaughtBy, Kept
<1>6. TableAfterRREP(f) = SetForwardRoute(prev, p, m, p.hops + 1)
  BY DEF TableAfterRREP
<1> HIDE DEF prev
<1>7. Learnt(f, SetRoute(prev, p.dest, m, p.hops + 1, TRUE, p.destSeq))
  BY <1>1, <1>4, <1>5 DEF Learnt, TaughtBy, SetRoute
<1>8. TableAfterRREP(f) \in Table
  BY TableAfterRREPGood DEF GoodTable
<1> QED
  BY <1>5, <1>6, <1>7, <1>8 DEF SetForwardRoute

-----------------------------------------------------------------------------
\* Packets

\* The packets of a step are those of its datagrams, frames and queues.
LEMMA PacketsFrom ==
    ASSUME NEW t \in Node \cup {NoNode},
           \A g \in udp' \ udp : PacketStep(g, t),
           \A f \in air' \ air : PacketStep(f.dgram, t),
           \A n \in Node : \A g \in delayed'[n] \ delayed[n] : PacketStep(g, t)
    PROVE  PacketsStep
<1> SUFFICES ASSUME NEW g \in Datagrams', g \notin Datagrams PROVE PacketStep(g, t)
  BY DEF PacketsStep, PacketStep
<1>1. CASE g \in udp'
  BY <1>1 DEF Datagrams
<1>2. CASE \E f \in air' : g = f.dgram
  BY <1>2 DEF Datagrams
<1>3. CASE \E n \in Node : g \in delayed'[n]
  BY <1>3 DEF Datagrams
<1> QED
  BY <1>1, <1>2, <1>3 DEF Datagrams

\* A packet that is somewhere on its way stays what it is.
LEMMA OldPacket ==
    ASSUME NEW g \in Datagrams, NEW t
    PROVE  PacketStep(g, t)
BY DEF PacketStep

\* A step without new packets.
LEMMA NoNewPackets ==
    ASSUME udp' \subseteq udp, air' \subseteq air,
           \A n \in Node : delayed'[n] \subseteq delayed[n]
    PROVE  PacketsStep
BY PacketsFrom

\* A step that leaves all numbers alone.
LEMMA CountersKept ==
    ASSUME Inv, UNCHANGED <<sequenceNum, rreqId>>
    PROVE  CountersStep
BY DEF CountersStep, Inv, TypeOK

\* A step that records no request.
LEMMA SeenKept ==
    ASSUME UNCHANGED seen
    PROVE  SeenStep
BY DEF SeenStep

\* A step that disturbs nothing.
LEMMA BudgetKept ==
    ASSUME Inv, UNCHANGED budget
    PROVE  BudgetStep
BY DEF BudgetStep, Inv, TypeOK

\* A disturbance is paid for.
LEMMA SpendLess ==
    ASSUME Inv, NEW kind \in Kind, Spend(kind)
    PROVE  BudgetStep /\ budget'[kind] < budget[kind]
BY DEF BudgetStep, Spend, Inv, TypeOK

-----------------------------------------------------------------------------
\* The hooks of IPv4

\* Applications and the local-out hook with an active route.
LEMMA AppSendStep ==
    ASSUME Inv, NEW g \in Flow, AppSend(g)
    PROVE  Step
<1>1. PacketsStep
  BY PacketsFrom, FlowAssumption DEF AppSend, PacketStep
<1> QED
  BY <1>1, TablesKept, CountersKept, SeenKept, BudgetKept
     DEF AppSend, Step, discoveryVars

LEMMA SendDatagramStep ==
    ASSUME Inv, NEW g \in udp, SendDatagram(g)
    PROVE  Step
<1>1. PacketsStep
  BY PacketsFrom, OldPacket DEF SendDatagram, Unicast, Datagrams
<1> QED
  BY <1>1, TablesKept, CountersKept, SeenKept, BudgetKept
     DEF SendDatagram, Step, discoveryVars

\* A datagram in transit.
LEMMA ForwardDatagramStep ==
    ASSUME Inv, NEW f \in air, ForwardDatagram(f)
    PROVE  Step
<1>1. PacketsStep
  BY PacketsFrom, OldPacket DEF ForwardDatagram, Unicast, Datagrams
<1> QED
  BY <1>1, TablesKept, CountersKept, SeenKept, BudgetKept
     DEF ForwardDatagram, Step, discoveryVars

LEMMA DeliverDataStep ==
    ASSUME Inv, NEW f \in air, DeliverData(f)
    PROVE  Step
<1>1. PacketsStep
  BY NoNewPackets DEF DeliverData
<1> QED
  BY <1>1, TablesKept, CountersKept, SeenKept, BudgetKept
     DEF DeliverData, Step, discoveryVars

\* What the frames of a broadcast carry.
LEMMA BroadcastFrame ==
    ASSUME NEW n, NEW body, NEW f \in Broadcasts(n, body)
    PROVE  f.from = n /\ f.dgram = To(n, All, body)
<1>1. PICK m \in Node : f = [from |-> n, to |-> m, dgram |-> To(n, All, body)]
  BY DEF Broadcasts
<1> QED
  BY <1>1

\* sendRREQ broadcasts one new request, with a new ID and a new number.
LEMMA SendRREQStep ==
    ASSUME Inv, NEW n \in Node, NEW target \in Node, NEW w, NEW inAir,
           SendRREQ(n, target, w, inAir)
    PROVE  /\ CountersStep
           /\ SeenStep
           /\ \A f \in air' \ inAir : PacketStep(f.dgram, target)
<1> DEFINE q == NewRREQ(n, target, RingTTL(w))
<1>1. /\ sequenceNum \in [Node -> Nat] /\ rreqId \in [Node -> Nat]
      /\ seen \in [Node -> SUBSET (Node \X Nat)]
  BY DEF Inv, TypeOK
<1>2. /\ sequenceNum' = [sequenceNum EXCEPT ![n] = @ + 1]
      /\ rreqId' = [rreqId EXCEPT ![n] = rreqId[n] + 1]
      /\ seen' = [seen EXCEPT ![n] = @ \cup {<<n, rreqId[n] + 1>>}]
  BY DEF SendRREQ, NextRreqId
<1>3. CountersStep
  BY <1>1, <1>2 DEF CountersStep
<1>4. SeenStep
  BY <1>1, <1>2 DEF SeenStep
<1>5. \A f \in air' \ inAir : f.dgram = To(n, All, q)
  <2>1. air' \subseteq inAir \cup Broadcasts(n, q)
    BY DEF SendRREQ
  <2> QED
    BY <2>1, BroadcastFrame
<1>6. RequestStep(To(n, All, q), target)
  BY <1>1, <1>2 DEF RequestStep, To, NewRREQ, NextRreqId
<1> QED
  BY <1>3, <1>4, <1>5, <1>6 DEF PacketStep

\* A datagram that is delayed stays what it is, and may be followed by a request.
LEMMA DelayDatagramStep ==
    ASSUME Inv, NEW n \in Node, NEW g \in Datagrams, g.dst \in Node, NEW inAir,
           inAir \subseteq air, udp' \subseteq udp, UNCHANGED <<routes, budget>>,
           DelayDatagram(n, g, inAir)
    PROVE  Step
<1>1. \A m \in Node : delayed'[m] \subseteq delayed[m] \cup {g}
  BY DEF DelayDatagram, Inv, TypeOK
<1>2. CountersStep /\ SeenStep /\ \A f \in air' \ inAir : PacketStep(f.dgram, g.dst)
  <2>1. CASE wait[n][g.dst].on
    BY <2>1, CountersKept, SeenKept DEF DelayDatagram, discoveryVars
  <2>2. CASE ~wait[n][g.dst].on
    BY <2>2, SendRREQStep DEF DelayDatagram
  <2> QED
    BY <2>1, <2>2
<1>3. PacketsStep
  BY <1>1, <1>2, PacketsFrom, OldPacket
<1> QED
  BY <1>2, <1>3, TablesKept, BudgetKept DEF Step

LEMMA QueueDatagramStep ==
    ASSUME Inv, NEW g \in udp, QueueDatagram(g)
    PROVE  Step
<1>1. g.src \in Node /\ g.dst \in Node /\ g \in Datagrams
  BY DatagramType DEF Inv, TypeOK, Datagrams
<1> QED
  BY <1>1, DelayDatagramStep DEF QueueDatagram

LEMMA QueueForwardedStep ==
    ASSUME Inv, NEW f \in air, QueueForwarded(f)
    PROVE  Step
<1>1. f.to \in Node /\ f.dgram.dst \in Node /\ f.dgram \in Datagrams
  BY TransitGood DEF QueueForwarded, Datagrams
<1> QED
  BY <1>1, DelayDatagramStep DEF QueueForwarded

-----------------------------------------------------------------------------
\* handleRREQ

\* What every RREQ that is processed records, and leaves alone.
LEMMA FreshRREQStep ==
    ASSUME Inv, NEW f \in air, FreshRREQ(f)
    PROVE  SeenStep /\ BudgetStep /\ UNCHANGED <<rreqId, delayed>>
<1>1. f.to \in Node /\ Body(f).type = "RREQ"
  BY TableAfterRREQGood DEF FreshRREQ, ReceivesControl
<1>2. SeenStep
  BY <1>1 DEF FreshRREQ, SeenStep, Datagrams, Body, Inv, TypeOK
<1> QED
  BY <1>2, BudgetKept DEF FreshRREQ

\* A sender on the blacklist, and a duplicate.
LEMMA IgnoreRREQStep ==
    ASSUME Inv, NEW f \in air, IgnoreRREQ(f)
    PROVE  Step
<1>1. PacketsStep
  BY NoNewPackets DEF IgnoreRREQ
<1> QED
  BY <1>1, TablesKept, CountersKept, SeenKept, BudgetKept DEF IgnoreRREQ, Step, discoveryVars

LEMMA DiscardRREQStep ==
    ASSUME Inv, Firsthand, NEW f \in air, DiscardRREQ(f)
    PROVE  Step
<1>1. ReceivesControl(f, "RREQ") /\ f.to \in Node
  BY TableAfterRREQGood DEF DiscardRREQ
<1>2. EntriesStep
  BY <1>1, LearntFromRREQ, LearntStep DEF DiscardRREQ
<1>3. PacketsStep
  BY NoNewPackets DEF DiscardRREQ
<1> QED
  BY <1>2, <1>3, CountersKept, SeenKept, BudgetKept DEF DiscardRREQ, Step, discoveryVars

\* A reply over the table tab, which tells what the request taught.
LEMMA SendRREPStep ==
    ASSUME Inv, NEW f \in air, f.to \in Node, NEW tab \in Table, Learnt(f, tab),
           NEW rrep, rrep.orig \in Node, NEW others, SendRREP(f.to, tab, rrep, others),
           tab[rrep.orig].next \in Node
    PROVE  /\ EntriesStep
           /\ \A x \in Node : SamePath(tab[x], routes'[f.to][x])
           /\ \A g \in udp' \ udp : \/ g \in others
                                    \/ /\ g.src = f.to
                                       /\ g.body.type = "RREP"
                                       /\ g.body.dest = rrep.dest
                                       /\ g.body.destSeq = rrep.destSeq
<1> DEFINE new == AddPrecursor(tab, rrep.orig, tab[rrep.orig].next)
<1>1. routes' = [routes EXCEPT ![f.to] = new]
  BY DEF SendRREP
<1>2. \A x \in Node : SamePath(tab[x], new[x])
  BY AddPrecursorSamePath
<1> HIDE DEF new
<1>3. Learnt(f, new)
  BY <1>2, SamePathLearnt
<1>4. routes'[f.to] = new
  BY <1>1 DEF Inv, TypeOK
<1>5. \A g \in udp' \ udp : \/ g \in others
                            \/ /\ g.src = f.to
                               /\ g.body.type = "RREP"
                               /\ g.body.dest = rrep.dest
                               /\ g.body.destSeq = rrep.destSeq
  BY DEF SendRREP, To
<1> QED
  BY <1>1, <1>2, <1>3, <1>4, <1>5, LearntStep

\* The destination answers with its own number.
LEMMA AnswerRREQStep ==
    ASSUME Inv, Firsthand, NEW f \in air, AnswerRREQ(f)
    PROVE  Step
<1> DEFINE n == f.to
           q == Body(f)
           tab == TableAfterRREQ(f)
           mySeq == IF ~q.unknownSeq /\ q.destSeq = sequenceNum[n] + 1
                    THEN sequenceNum[n] + 1 ELSE sequenceNum[n]
           rrep == [orig |-> q.orig, dest |-> n, destSeq |-> mySeq, hops |-> 0]
           others == {}
<1>1. FreshRREQ(f) /\ ReceivesControl(f, "RREQ")
  BY DEF AnswerRREQ, FreshRREQ
<1>2. /\ n \in Node /\ q.orig \in Node /\ GoodTable(n, tab) /\ tab[q.orig].known
  BY <1>1, TableAfterRREQGood DEF Rreq
<1>3. tab \in Table /\ tab[q.orig].next \in Node
  BY <1>2, AdjacentNodes DEF GoodTable
<1>4. Learnt(f, tab)
  BY <1>1, LearntFromRREQ
<1>5. SendRREP(n, tab, rrep, others) /\ air' = air \ {f}
      /\ sequenceNum' = [sequenceNum EXCEPT ![n] = mySeq]
  BY DEF AnswerRREQ
<1>6. sequenceNum'[n] = mySeq /\ CountersStep
  BY <1>1, <1>2, <1>5, FreshRREQStep DEF Inv, TypeOK, CountersStep
<1> HIDE DEF tab, mySeq
<1>7. /\ EntriesStep
      /\ \A g \in udp' \ udp : /\ g.src = n
                               /\ g.body.type = "RREP"
                               /\ g.body.dest = n
                               /\ g.body.destSeq = mySeq
  <2>1. rrep.orig = q.orig /\ rrep.dest = n /\ rrep.destSeq = mySeq
    OBVIOUS
  <2> HIDE DEF rrep, others
  <2>2. rrep.orig \in Node /\ tab[rrep.orig].next \in Node
    BY <1>2, <1>3, <2>1
  <2>3. /\ EntriesStep
        /\ \A g \in udp' \ udp : \/ g \in others
                                 \/ /\ g.src = f.to
                                    /\ g.body.type = "RREP"
                                    /\ g.body.dest = rrep.dest
                                    /\ g.body.destSeq = rrep.destSeq
    BY <1>2, <1>3, <1>4, <1>5, <2>2, SendRREPStep
  <2> QED
    BY <2>1, <2>3 DEF others
<1>8. \A g \in udp' \ udp : ReplyStep(g)
  BY <1>6, <1>7 DEF ReplyStep
<1>9. PacketsStep
  BY <1>1, <1>5, <1>8, PacketsFrom, FreshRREQStep DEF PacketStep
<1> QED
  BY <1>1, <1>6, <1>7, <1>9, FreshRREQStep DEF Step

\* The request goes back where it came from.
LEMMA SuppressRREPStep ==
    ASSUME Inv, Firsthand, NEW f \in air, SuppressRREP(f)
    PROVE  Step
<1>1. FreshRREQ(f) /\ ReceivesControl(f, "RREQ") /\ f.to \in Node
  BY TableAfterRREQGood DEF SuppressRREP, FreshRREQ
<1>2. EntriesStep
  BY <1>1, LearntFromRREQ, LearntStep DEF SuppressRREP
<1>3. PacketsStep
  BY <1>1, NoNewPackets, FreshRREQStep DEF SuppressRREP
<1> QED
  BY <1>1, <1>2, <1>3, CountersKept, FreshRREQStep DEF SuppressRREP, Step

\* An intermediate router answers with the number of its entry; the gratuitous reply
\* carries that of the request.
LEMMA AnswerForDestinationStep ==
    ASSUME Inv, Firsthand, NEW f \in air, AnswerForDestination(f)
    PROVE  Step
<1> DEFINE n == f.to
           q == Body(f)
           tab == TableAfterRREQ(f)
           tab1 == AddPrecursor(tab, q.dest, f.dgram.src)
           tab2 == AddPrecursor(tab1, q.orig, tab[q.dest].next)
           rrep == [orig |-> q.orig, dest |-> q.dest, destSeq |-> tab[q.dest].seq,
                    hops |-> tab[q.dest].hops]
<1>1. FreshRREQ(f) /\ ReceivesControl(f, "RREQ")
  BY DEF AnswerForDestination, FreshRREQ
<1>2. /\ n \in Node /\ f.dgram.src \in Node /\ q.type = "RREQ"
      /\ q.orig \in Node /\ q.dest \in Node
      /\ GoodTable(n, tab) /\ tab[q.orig].known
  BY <1>1, TableAfterRREQGood DEF Rreq
<1>3. /\ SendRREP(n, tab2, rrep, GratuitousRREP(n, tab, q))
      /\ air' = air \ {f}
      /\ sequenceNum' = sequenceNum
      /\ tab[q.dest].known /\ tab[q.dest].active /\ tab[q.dest].valid
  BY DEF AnswerForDestination, FreshEnough
<1>4. Learnt(f, tab)
  BY <1>1, LearntFromRREQ
<1> HIDE DEF tab
<1>5. /\ tab \in Table /\ tab[q.orig].next \in Node /\ tab[q.dest].next \in Node
  BY <1>2, <1>3, AdjacentNodes DEF GoodTable
<1>6. tab1 \in Table /\ \A x \in Node : SamePath(tab[x], tab1[x])
  BY <1>2, <1>5, AddPrecursorSamePath, AddPrecursorTable
<1> HIDE DEF tab1
<1>7. tab2 \in Table /\ \A x \in Node : SamePath(tab1[x], tab2[x])
  BY <1>2, <1>5, <1>6, AddPrecursorSamePath, AddPrecursorTable
<1> HIDE DEF tab2
<1>8. Learnt(f, tab2) /\ \A x \in Node : SamePath(tab[x], tab2[x])
  BY <1>4, <1>6, <1>7, SamePathLearnt DEF SamePath
<1>9. tab2[rrep.orig].next \in Node /\ rrep.orig \in Node
  BY <1>2, <1>5, <1>8 DEF SamePath
<1>10. /\ EntriesStep
       /\ \A x \in Node : SamePath(tab2[x], routes'[n][x])
       /\ \A g \in udp' \ udp : \/ g \in GratuitousRREP(n, tab, q)
                                \/ /\ g.src = n
                                   /\ g.body.type = "RREP"
                                   /\ g.body.dest = q.dest
                                   /\ g.body.destSeq = tab[q.dest].seq
  BY <1>2, <1>3, <1>7, <1>8, <1>9, SendRREPStep
<1>11. \A x \in {q.orig, q.dest} : SamePath(tab[x], routes'[n][x])
  BY <1>2, <1>8, <1>10 DEF SamePath
<1>12. \A g \in GratuitousRREP(n, tab, q) : ReplyStep(g)
  BY <1>2, <1>11, SMTT(30) DEF GratuitousRREP, ReplyStep, To, SamePath, Datagrams, Body
<1>13. \A g \in udp' \ udp : ReplyStep(g)
  BY <1>3, <1>10, <1>11, <1>12 DEF ReplyStep, SamePath
<1>14. PacketsStep
  BY <1>1, <1>3, <1>13, PacketsFrom, FreshRREQStep DEF PacketStep
<1> QED
  BY <1>1, <1>3, <1>10, <1>14, FreshRREQStep, CountersKept DEF Step

\* The request is passed on, with everything that names it and its originator.
LEMMA ForwardRREQStep ==
    ASSUME Inv, Firsthand, NEW f \in air, ForwardRREQ(f)
    PROVE  Step
<1> DEFINE n == f.to
           q == Body(f)
           tab == TableAfterRREQ(f)
           onward == Onward(q, tab[q.dest])
<1>1. FreshRREQ(f) /\ ReceivesControl(f, "RREQ")
  BY DEF ForwardRREQ, FreshRREQ
<1>2. n \in Node /\ q.type = "RREQ" /\ tab[q.orig].known
  BY <1>1, TableAfterRREQGood DEF Rreq
<1>3. /\ routes' = [routes EXCEPT ![n] = tab]
      /\ air' = (air \ {f}) \cup Rebroadcasts(n, onward)
      /\ UNCHANGED <<sequenceNum, failedNextHop, rrepAckTimer, udp>>
  BY DEF ForwardRREQ
<1>4. EntriesStep
  BY <1>1, <1>2, <1>3, LearntFromRREQ, LearntStep
<1>5. routes'[n] = tab
  BY <1>2, <1>3 DEF Inv, TypeOK
<1> HIDE DEF tab
<1>6. RequestStep(To(n, All, onward), NoNode)
  <2>1. f.dgram \in Datagrams /\ f.dgram.body = q
    BY DEF Datagrams, Body
  <2> QED
    BY <1>2, <1>5, <2>1 DEF RequestStep, To, Onward, RreqKey
<1>7. \A x \in air' \ air : x.dgram = To(n, All, onward)
  <2> HIDE DEF onward
  <2>1. air' \subseteq air \cup Broadcasts(n, onward)
    BY <1>3 DEF Rebroadcasts
  <2> QED
    BY <2>1, BroadcastFrame
<1>8. PacketsStep
  BY <1>1, <1>3, <1>6, <1>7, PacketsFrom, FreshRREQStep DEF PacketStep
<1> QED
  BY <1>1, <1>3, <1>4, <1>8, FreshRREQStep, CountersKept DEF Step

-----------------------------------------------------------------------------
\* handleRREP

\* A reply is passed on with the number it came with; no RREP-ACK is sent.
LEMMA ForwardRREPStep ==
    ASSUME Inv, NEW f \in air, ForwardRREP(f)
    PROVE  Step
<1> DEFINE n == f.to
           p == Body(f)
           tab == TableAfterRREP(f)
           back == tab[p.orig].next
           passOn == tab[p.orig].known /\ settled[n]
           tab2 == AddPrecursor(tab, p.dest, back)
           tab3 == IF tab[tab[p.dest].next].known
                   THEN AddPrecursor(tab2, tab[p.dest].next, back) ELSE tab2
           body == [type |-> "RREP", orig |-> p.orig, dest |-> p.dest,
                    destSeq |-> p.destSeq, hops |-> p.hops + 1, ack |-> FALSE]
           onward == To(n, back, body)
<1>1. /\ ReceivesControl(f, "RREP")
      /\ p.orig \in Node \ {n}
      /\ routes' = [routes EXCEPT ![n] = IF passOn THEN tab3 ELSE tab]
      /\ udp' = IF passOn
                THEN udp \cup {onward} \cup
                     (IF p.ack THEN {To(n, f.dgram.src, [type |-> "RREPACK"])} ELSE {})
                ELSE udp
      /\ air' = air \ {f}
      /\ UNCHANGED <<discoveryVars, delayed, budget>>
  BY DEF ForwardRREP
<1>2. n \in Node /\ p.dest \in Node /\ p.type = "RREP" /\ f.dgram.dst \in {n, All}
  BY <1>1, ReceivedRREP DEF ReceivesControl
<1>3. Learnt(f, tab) /\ tab \in Table /\ tab[p.dest].known
  BY <1>1, LearntFromRREP, TableAfterRREPGood
<1>4. ~p.ack
  <2>1. p.ack \in BOOLEAN
    BY <1>1, ReceivedRREP DEF Rrep
  <2> QED
    BY <1>1, <1>2, <2>1, ReceivedRREP, AllAssumption
<1> HIDE DEF tab
<1>5. \A x \in Node : SamePath(tab[x], tab3[x])
  <2>1. \A x \in Node : SamePath(tab[x], tab2[x])
    BY <1>3, AddPrecursorSamePath
  <2> HIDE DEF tab2
  <2>2. CASE ~tab[tab[p.dest].next].known
    BY <2>1, <2>2
  <2>3. CASE tab[tab[p.dest].next].known
    <3>1. \A x \in Node : SamePath(tab2[x], AddPrecursor(tab2, tab[p.dest].next, back)[x])
      BY AddPrecursorSamePathOf, <1>3 DEF tab2
    <3> QED
      BY <2>1, <2>3, <3>1 DEF SamePath
  <2> QED
    BY <2>2, <2>3
<1> HIDE DEF tab3
<1>6. Learnt(f, IF passOn THEN tab3 ELSE tab)
  BY <1>3, <1>5, SamePathLearnt
<1>7. EntriesStep
  BY <1>1, <1>2, <1>6, LearntStep
<1>8. ASSUME passOn PROVE routes'[n][p.dest].known
  <2>1. routes'[n] = tab3
    BY <1>1, <1>2, <1>8 DEF Inv, TypeOK
  <2> QED
    BY <1>2, <1>3, <1>5, <2>1 DEF SamePath
<1>9. ASSUME passOn PROVE ReplyStep(onward)
  <2>1. f.dgram \in Datagrams /\ f.dgram.body = p
    BY DEF Datagrams, Body
  <2> QED
    BY <1>2, <1>8, <1>9, <2>1 DEF ReplyStep, To
<1> HIDE DEF onward, passOn
<1>10. PacketsStep
  BY <1>1, <1>4, <1>9, PacketsFrom DEF PacketStep
<1> QED
  BY <1>1, <1>7, <1>10, CountersKept, SeenKept, BudgetKept DEF Step, discoveryVars

\* The reply that completes a discovery sends what was waiting for it.
LEMMA AcceptRREPStep ==
    ASSUME Inv, NEW f \in air, AcceptRREP(f)
    PROVE  Step
<1> DEFINE n == f.to
           p == Body(f)
           tab == TableAfterRREP(f)
           tab2 == SetRoute(tab, p.dest, f.dgram.src, p.hops + 1, TRUE, p.destSeq)
<1>1. /\ ReceivesControl(f, "RREP")
      /\ routes' = [routes EXCEPT ![n] = tab2]
      /\ delayed' = [delayed EXCEPT ![n] = @ \ Waiting(n, p.dest)]
      /\ air' = (air \ {f}) \cup
                {[from |-> n, to |-> f.dgram.src, dgram |-> g] : g \in Waiting(n, p.dest)}
      /\ UNCHANGED <<sequenceNum, rreqId, seen, udp, budget>>
  BY DEF AcceptRREP
<1>2. n \in Node /\ p.dest \in Node /\ p.type = "RREP"
  BY <1>1, ReceivedRREP DEF ReceivesControl
<1>3. Learnt(f, tab) /\ tab \in Table
  BY <1>1, LearntFromRREP
<1> HIDE DEF tab
<1>4. Learnt(f, tab2)
  BY <1>2, <1>3 DEF Learnt, TaughtBy, SetRoute, Table
<1> HIDE DEF tab2
<1>5. EntriesStep
  BY <1>1, <1>2, <1>4, LearntStep
<1>6. \A x \in air' \ air : x.dgram \in Datagrams
  BY <1>1, <1>2 DEF Waiting, Datagrams
<1>7. \A m \in Node : delayed'[m] \subseteq delayed[m]
  BY <1>1 DEF Inv, TypeOK
<1>8. PacketsStep
  BY <1>1, <1>6, <1>7, PacketsFrom, OldPacket
<1> QED
  BY <1>1, <1>5, <1>8, CountersKept, SeenKept, BudgetKept DEF Step

\* A reply that comes too late, and a Hello.
LEMMA LateRREPStep ==
    ASSUME Inv, NEW f \in air, LateRREP(f)
    PROVE  Step
<1>1. ReceivesControl(f, "RREP") /\ f.to \in Node
  BY ReceivedRREP DEF LateRREP
<1>2. EntriesStep
  BY <1>1, LearntFromRREP, LearntStep DEF LateRREP
<1>3. PacketsStep
  BY NoNewPackets DEF LateRREP
<1> QED
  BY <1>2, <1>3, CountersKept, SeenKept, BudgetKept DEF LateRREP, Step, discoveryVars

LEMMA HandleHelloStep ==
    ASSUME Inv, NEW f \in air, HandleHello(f)
    PROVE  Step
<1> DEFINE n == f.to
           p == Body(f)
           tab == SetRoute(routes[n], p.dest, p.dest, 1, TRUE, p.destSeq)
<1>1. ReceivesControl(f, "RREP") /\ p.orig = NoNode /\ routes' = [routes EXCEPT ![n] = tab]
  BY DEF HandleHello
<1>2. n \in Node /\ p.dest \in Node /\ p.type = "RREP" /\ p.dest = f.dgram.src
  BY <1>1, ReceivedRREP DEF ReceivesControl
<1>3. routes[n] \in Table
  BY <1>2 DEF Inv, TypeOK
<1>4. Learnt(f, tab)
  BY <1>2, <1>3 DEF Learnt, TaughtBy, Kept, SetRoute, Table
<1> HIDE DEF tab
<1>5. EntriesStep
  BY <1>1, <1>2, <1>4, LearntStep
<1>6. PacketsStep
  BY NoNewPackets DEF HandleHello
<1> QED
  BY <1>5, <1>6, CountersKept, SeenKept, BudgetKept DEF HandleHello, Step, discoveryVars

\* handleRREPACK never runs.
LEMMA NoRREPACK ==
    ASSUME Inv, NEW f \in air
    PROVE  ~HandleRREPACK(f)
<1> SUFFICES ASSUME HandleRREPACK(f) PROVE FALSE
  OBVIOUS
<1>1. Body(f).type = "RREPACK" /\ GoodBody(f.dgram.src, f.dgram.dst, Body(f))
  BY ReceivedGood DEF HandleRREPACK, Inv, GoodNetwork
<1> QED
  BY <1>1 DEF GoodBody

-----------------------------------------------------------------------------
\* Route errors

\* A table of which some active routes have been deactivated.
LEMMA DeactivateKept ==
    ASSUME NEW tab \in Table, NEW gone, \A d \in Node : d \in gone => tab[d].known,
           NEW newSeq, NEW d \in Node
    PROVE  Kept(tab[d], Deactivate(tab, gone, newSeq)[d])
BY DEF Kept, Deactivate, Table, Entry

\* What a RERR does not change, and where it goes.
LEMMA SendRERRStep ==
    ASSUME Inv, NEW n \in Node, NEW tab, NEW listed, NEW may, NEW inAir,
           inAir \subseteq air, UNCHANGED <<udp, delayed>>,
           SendRERR(n, tab, listed, may, inAir)
    PROVE  PacketsStep
<1> DEFINE body == Listing(tab, listed)
<1>1. air' \subseteq air \cup Broadcasts(n, body)
  BY DEF SendRERR
<1>2. body.type = "RERR"
  BY DEF Listing
<1> HIDE DEF body
<1>3. \A f \in air' \ air : PacketStep(f.dgram, NoNode)
  <2>1. \A f \in air' \ air : f.dgram = To(n, All, body)
    BY <1>1, BroadcastFrame
  <2>2. PacketStep(To(n, All, body), NoNode)
    BY <1>2 DEF PacketStep, To
  <2> QED
    BY <2>1, <2>2
<1> QED
  BY <1>3, PacketsFrom

LEMMA HandleRERRStep ==
    ASSUME Inv, NEW f \in air, HandleRERR(f)
    PROVE  Step
<1> DEFINE n == f.to
           gone == Unreachable(routes[n], Body(f), f.dgram.src)
           new == Deactivate(routes[n], gone, Body(f).seqs)
           listed == {d \in gone : new[d].prec # {}}
<1>1. /\ ReceivesControl(f, "RERR")
      /\ routes' = [routes EXCEPT ![n] = new]
      /\ SendRERR(n, new, listed, settled[n], air \ {f})
      /\ UNCHANGED <<discoveryVars, delayed, udp, budget>>
  BY DEF HandleRERR
<1>2. n \in Node /\ routes \in [Node -> Table]
  BY <1>1, ReceivedGood DEF Inv, GoodNetwork, TypeOK
<1>3. \A d \in Node : Kept(routes[n][d], new[d])
  <2>1. \A d \in Node : d \in gone => routes[n][d].known
    BY DEF Unreachable, ActiveVia, IsActive
  <2> HIDE DEF gone
  <2> QED
    BY <1>2, <2>1, DeactivateKept
<1> HIDE DEF new, listed
<1>4. EntriesStep
  BY <1>1, <1>2, <1>3, LearntStep DEF Learnt
<1>5. PacketsStep
  <2>1. air \ {f} \subseteq air
    OBVIOUS
  <2> QED
    BY <1>1, <1>2, <2>1, SendRERRStep
<1> QED
  BY <1>1, <1>4, <1>5, CountersKept, SeenKept, BudgetKept DEF Step, discoveryVars

LEMMA LoseBroadcastStep ==
    ASSUME Inv, NEW f \in air, LoseBroadcast(f)
    PROVE  Step
<1>1. PacketsStep
  BY NoNewPackets DEF LoseBroadcast
<1>2. BudgetStep
  BY BudgetKept, SpendLess DEF LoseBroadcast, Fails, Kind
<1> QED
  BY <1>1, <1>2, TablesKept, CountersKept, SeenKept DEF LoseBroadcast, Step, discoveryVars

\* handleLinkBreakSendRERR.
LEMMA HandleLinkBreakStep ==
    ASSUME Inv, NEW n \in Node, NEW neighbor, NEW inAir, inAir \subseteq air,
           UNCHANGED <<udp, delayed>>, HandleLinkBreak(n, neighbor, inAir)
    PROVE  EntriesStep /\ PacketsStep
<1> DEFINE gone == ActiveVia(routes[n], neighbor)
           new == BreakLink(routes[n], neighbor)
           listed == gone \cup (IF routes[n][neighbor].active THEN {neighbor} ELSE {})
<1>1. CASE routes[n][neighbor].known
  <2>1. routes' = [routes EXCEPT ![n] = new] /\ SendRERR(n, new, listed, TRUE, inAir)
    BY <1>1 DEF HandleLinkBreak
  <2>2. \A d \in Node : d \in gone => routes[n][d].known
    BY DEF ActiveVia, IsActive
  <2>3. routes \in [Node -> Table]
    BY DEF Inv, TypeOK
  <2>4. \A d \in Node : Kept(routes[n][d], new[d])
    BY <2>2, <2>3, DeactivateKept DEF BreakLink
  <2> HIDE DEF new, listed, gone
  <2>5. EntriesStep
    BY <2>1, <2>3, <2>4 DEF EntriesStep, EntryStep, Kept
  <2> QED
    BY <2>1, <2>5, SendRERRStep
<1>2. CASE ~routes[n][neighbor].known
  BY <1>2, TablesKept, NoNewPackets DEF HandleLinkBreak
<1> QED
  BY <1>1, <1>2

LEMMA LinkBreakStep ==
    ASSUME Inv, NEW f \in air, NEW arrived \in BOOLEAN, LinkBreak(f, arrived)
    PROVE  Step
<1> DEFINE n == f.from
           entry == routes[n][f.dgram.dst]
           inAir == IF arrived THEN air ELSE air \ {f}
<1>1. n \in Node /\ inAir \subseteq air
  BY DEF Inv, GoodNetwork, GoodFrame, Frame
<1>2. BudgetStep
  BY BudgetKept, SpendLess DEF LinkBreak, Fails, Kind
<1>3. EntriesStep /\ PacketsStep
  <2>1. CASE entry.known
    <3>1. HandleLinkBreak(n, entry.next, inAir) /\ UNCHANGED <<udp, delayed>>
      BY <2>1 DEF LinkBreak
    <3> HIDE DEF inAir, entry
    <3> QED
      BY <1>1, <3>1, HandleLinkBreakStep
  <2>2. CASE ~entry.known
    <3>1. air' = inAir /\ UNCHANGED <<routes, udp, delayed>>
      BY <2>2 DEF LinkBreak
    <3> QED
      BY <1>1, <3>1, TablesKept, NoNewPackets
  <2> QED
    BY <2>1, <2>2
<1> QED
  BY <1>2, <1>3, CountersKept, SeenKept DEF LinkBreak, Step, discoveryVars

-----------------------------------------------------------------------------
\* Timers, links and life cycle

LEMMA CancelRouteDiscoveryStep ==
    ASSUME Inv, NEW n \in Node, NEW target \in Node, CancelRouteDiscovery(n, target)
    PROVE  Step
<1>1. \A m \in Node : delayed'[m] \subseteq delayed[m]
  BY DEF CancelRouteDiscovery, Inv, TypeOK
<1>2. PacketsStep
  BY <1>1, NoNewPackets DEF CancelRouteDiscovery
<1> QED
  BY <1>2, TablesKept, CountersKept, SeenKept, BudgetKept DEF CancelRouteDiscovery, Step

LEMMA RetryRREQStep ==
    ASSUME Inv, NEW n \in Node, NEW target \in Node, RetryRREQ(n, target)
    PROVE  Step
<1> DEFINE w == [on |-> TRUE, lastTTL |-> wait[n][target].lastTTL,
                 retries |-> Attempts(wait[n][target]), armed |-> TRUE]
<1>1. SendRREQ(n, target, w, air) /\ UNCHANGED <<routes, delayed, udp, budget>>
  BY DEF RetryRREQ
<1> HIDE DEF w
<1>2. CountersStep /\ SeenStep /\ \A f \in air' \ air : PacketStep(f.dgram, target)
  BY <1>1, SendRREQStep
<1>3. PacketsStep
  BY <1>1, <1>2, PacketsFrom
<1> QED
  BY <1>1, <1>2, <1>3, TablesKept, BudgetKept DEF Step

\* The timers of RREP-ACK, blacklist and counters, the end of the wait after a start,
\* and the failure of a link.
LEMMA QuietStep ==
    ASSUME Inv, NEW n \in Node, NEW over, NEW l,
           \/ HandleRREPACKTimer(n) \/ HandleBlackListTimer(n, over)
           \/ CounterTimer(n) \/ RebootWaitOver(n) \/ LinkDown(l)
    PROVE  Step
<1>1. UNCHANGED <<routes, sequenceNum, rreqId, seen, delayed, udp, air>>
  BY DEF HandleRREPACKTimer, HandleBlackListTimer, CounterTimer, RebootWaitOver, LinkDown,
         discoveryVars
<1>2. PacketsStep
  BY <1>1, NoNewPackets
<1>3. BudgetStep
  BY BudgetKept, SpendLess DEF HandleRREPACKTimer, HandleBlackListTimer, CounterTimer,
                               RebootWaitOver, LinkDown, Kind
<1> QED
  BY <1>1, <1>2, <1>3, TablesKept, CountersKept, SeenKept DEF Step

\* expungeRoutes deletes entries or deactivates them.
LEMMA ExpungeRoutesStep ==
    ASSUME Inv, NEW n \in Node, NEW due, ExpungeRoutes(n, due)
    PROVE  Step
<1> DEFINE searched == {d \in Node : wait[n][d].on}
           new == Deactivate(routes[n], due, [x \in Node |-> routes[n][x].seq])
<1>1. BudgetStep /\ budget'["expunge"] < budget["expunge"]
  BY SpendLess DEF ExpungeRoutes, Kind
<1>2. routes' = [routes EXCEPT ![n] = Expunge(routes[n], due, searched)]
  BY DEF ExpungeRoutes
<1>3. routes \in [Node -> Table]
  BY DEF Inv, TypeOK
<1>4. \A d \in Node : d \in due => routes[n][d].known
  BY DEF ExpungeRoutes
<1>5. \A d \in Node : Kept(routes[n][d], new[d])
  BY <1>3, <1>4, DeactivateKept
<1>6. \A d \in Node : Expunge(routes[n], due, searched)[d] \in {NoRoute, new[d]}
  BY DEF Expunge
<1> HIDE DEF new, searched
<1>7. EntriesStep
  <2> SUFFICES ASSUME NEW m \in Node, NEW d \in Node PROVE EntryStep(m, d)
    BY DEF EntriesStep
  <2>1. CASE m = n
    BY <1>1, <1>2, <1>3, <1>5, <1>6, <2>1 DEF EntryStep
  <2>2. CASE m # n
    BY <1>2, <1>3, <2>2 DEF EntryStep, Kept
  <2> QED
    BY <2>1, <2>2
<1>8. PacketsStep
  BY NoNewPackets DEF ExpungeRoutes
<1> QED
  BY <1>1, <1>7, <1>8, CountersKept, SeenKept DEF ExpungeRoutes, Step, discoveryVars

\* A Hello carries the number of its sender.
LEMMA SendHelloMessagesStep ==
    ASSUME Inv, NEW n \in Node, SendHelloMessages(n)
    PROVE  Step
<1> DEFINE hello == [type |-> "RREP", orig |-> NoNode, dest |-> n,
                     destSeq |-> sequenceNum[n], hops |-> 0, ack |-> FALSE]
<1>1. air' = air \cup Broadcasts(n, hello)
      /\ UNCHANGED <<routes, discoveryVars, delayed, udp>>
  BY DEF SendHelloMessages
<1>2. ReplyStep(To(n, All, hello))
  BY <1>1 DEF ReplyStep, To, discoveryVars
<1> HIDE DEF hello
<1>3. PacketsStep
  <2>1. \A f \in air' \ air : f.dgram = To(n, All, hello)
    BY <1>1, BroadcastFrame
  <2> QED
    BY <1>1, <1>2, <2>1, PacketsFrom DEF PacketStep
<1>4. BudgetStep
  BY SpendLess DEF SendHelloMessages, Kind
<1> QED
  BY <1>1, <1>3, <1>4, TablesKept, CountersKept, SeenKept DEF Step, discoveryVars

\* A restart deletes everything the router knew.
LEMMA RebootStep ==
    ASSUME Inv, NEW n \in Node, Reboot(n)
    PROVE  Step
<1>1. BudgetStep /\ budget'["reboot"] < budget["reboot"]
  BY SpendLess DEF Reboot, Kind
<1>2. EntriesStep
  <2>1. routes' = [routes EXCEPT ![n] = [d \in Node |-> NoRoute]]
    BY DEF Reboot
  <2>2. routes \in [Node -> Table]
    BY DEF Inv, TypeOK
  <2> QED
    BY <1>1, <2>1, <2>2 DEF EntriesStep, EntryStep, Kept
<1>3. \A m \in Node : delayed'[m] \subseteq delayed[m] /\ seen'[m] \subseteq seen[m]
  BY DEF Reboot, Inv, TypeOK
<1>4. PacketsStep
  BY <1>3, NoNewPackets DEF Reboot
<1>5. CountersStep /\ SeenStep
  BY <1>1, <1>3 DEF CountersStep, SeenStep
<1> QED
  BY <1>1, <1>2, <1>4, <1>5 DEF Step

-----------------------------------------------------------------------------
\* Every step of the network is of this kind.

LEMMA FrameStepStep ==
    ASSUME Inv, Firsthand, NEW f \in air, FrameStep(f)
    PROVE  Step
<1>1. CASE HandleRREQ(f)
  BY <1>1, IgnoreRREQStep, DiscardRREQStep, AnswerRREQStep, SuppressRREPStep,
     AnswerForDestinationStep, ForwardRREQStep DEF HandleRREQ
<1>2. CASE HandleRREP(f)
  BY <1>2, ForwardRREPStep, AcceptRREPStep, LateRREPStep, HandleHelloStep DEF HandleRREP
<1>3. CASE HandleRREPACK(f) \/ HandleRERR(f)
  BY <1>3, NoRREPACK, HandleRERRStep
<1>4. CASE ForwardDatagram(f) \/ QueueForwarded(f) \/ DeliverData(f)
  BY <1>4, ForwardDatagramStep, QueueForwardedStep, DeliverDataStep
<1>5. CASE LoseBroadcast(f) \/ \E arrived \in BOOLEAN : LinkBreak(f, arrived)
  BY <1>5, LoseBroadcastStep, LinkBreakStep
<1> QED
  BY <1>1, <1>2, <1>3, <1>4, <1>5 DEF FrameStep, Receive

LEMMA NodeStepStep ==
    ASSUME Inv, NEW n \in Node, NodeStep(n)
    PROVE  Step
<1>1. CASE \E target \in Node : HandleWaitForRREP(n, target)
  BY <1>1, CancelRouteDiscoveryStep, RetryRREQStep DEF HandleWaitForRREP
<1>2. CASE \/ HandleRREPACKTimer(n)
           \/ \E over \in SUBSET blacklist[n] : HandleBlackListTimer(n, over)
           \/ CounterTimer(n)
           \/ RebootWaitOver(n)
  BY <1>2, QuietStep
<1>3. CASE (\E due \in SUBSET Node : ExpungeRoutes(n, due)) \/ SendHelloMessages(n) \/ Reboot(n)
  BY <1>3, ExpungeRoutesStep, SendHelloMessagesStep, RebootStep
<1> QED
  BY <1>1, <1>2, <1>3 DEF NodeStep

LEMMA EveryStep ==
    ASSUME Inv, Firsthand, [Next]_vars
    PROVE  Step
<1>1. ASSUME NEW g \in Flow, AppSend(g) PROVE Step
  BY <1>1, AppSendStep
<1>2. ASSUME NEW g \in udp, LocalOut(g) PROVE Step
  BY <1>2, SendDatagramStep, QueueDatagramStep DEF LocalOut
<1>3. ASSUME NEW f \in air, FrameStep(f) PROVE Step
  BY <1>3, FrameStepStep
<1>4. ASSUME NEW n \in Node, NodeStep(n) PROVE Step
  BY <1>4, NodeStepStep
<1>5. ASSUME NEW l \in Link, LinkDown(l) PROVE Step
  <2>1. PICK n \in Node : TRUE
    BY LinkAssumption
  <2> QED
    BY <1>5, <2>1, QuietStep
<1>6. CASE UNCHANGED vars
  <2>1. UNCHANGED <<routes, sequenceNum, rreqId, seen, delayed, udp, air, budget>>
    BY <1>6 DEF vars, discoveryVars
  <2> QED
    BY <2>1, TablesKept, NoNewPackets, CountersKept, SeenKept, BudgetKept DEF Step
<1> QED
  BY <1>1, <1>2, <1>3, <1>4, <1>5, <1>6 DEF Next

-----------------------------------------------------------------------------
\* The invariant is inductive

\* What is on its way comes from a router, and has the fields of its kind.
DatagramsTyped ==
    \A g \in Datagrams : /\ g.src \in Node
                         /\ g.body.type = "RREQ" => g.body \in Rreq
                         /\ g.body.type = "RREP" => g.body \in Rrep

LEMMA TypedDatagrams == Inv => DatagramsTyped
<1> SUFFICES ASSUME Inv, NEW g \in Datagrams
             PROVE  /\ g.src \in Node
                    /\ g.body.type = "RREQ" => g.body \in Rreq
                    /\ g.body.type = "RREP" => g.body \in Rrep
  BY DEF DatagramsTyped
<1>1. CASE g \in Datagram
  BY <1>1, DatagramType, ControlTypes
<1>2. CASE g \in Broadcast
  BY <1>2, ControlTypes DEF Broadcast
<1>3. g \in Datagram \cup Broadcast
  BY DEF Datagrams, Inv, TypeOK, Frame
<1> QED
  BY <1>1, <1>2, <1>3

\* The network starts in the invariant, with nothing on its way.
LEMMA InitDInv == Init => DInv
<1> SUFFICES ASSUME Init PROVE DInv
  OBVIOUS
<1>1. Datagrams = {}
  BY DEF Init, Datagrams
<1>2. \A n, d \in Node : routes[n][d] = NoRoute
  BY DEF Init
<1>3. Firsthand
  BY <1>1, <1>2 DEF Firsthand, NoRoute
<1>4. BudgetsSpent
  BY BudgetAssumption DEF Init, BudgetsSpent
<1>5. Numbers
  BY <1>1, <1>2 DEF Init, Numbers, SeqNotAhead, RreqIdsFresh, IsActive, NoRoute
<1>6. Telling
  BY <1>1, <1>2 DEF Telling, NoRoute
<1> QED
  BY <1>3, <1>4, <1>5, <1>6 DEF DInv

\* Packets of a step, sorted by kind.
LEMMA FirsthandStep ==
    ASSUME Firsthand, Step
    PROVE  Firsthand'
<1>1. \A g \in Datagrams' :
          /\ g.body.type = "RREQ" => g.dst = All /\ (g.body.unknownSeq => g.src = g.body.orig)
          /\ g.body.type = "RERR" => g.dst = All
  BY DEF Firsthand, Step, PacketsStep, PacketStep, RequestStep, ReplyStep
<1>2. ASSUME NEW n \in Node, NEW d \in Node, ~routes'[n][d].known
      PROVE  routes'[n][d].seq = 0
  BY <1>2 DEF Firsthand, Step, EntriesStep, EntryStep, Kept, TaughtBy, NoRoute
<1> QED
  BY <1>1, <1>2 DEF Firsthand

LEMMA BudgetsStep ==
    ASSUME Inv, Inv', BudgetsSpent, Step
    PROVE  /\ BudgetsSpent'
           /\ Unrebooted' => Unrebooted /\ ~(budget'["reboot"] < budget["reboot"])
           /\ Undeleted' => Undeleted /\ ~ \E k \in {"expunge", "reboot"} : budget'[k] < budget[k]
<1>1. \A k \in Kind : /\ budget[k] \in Nat /\ budget'[k] \in Nat /\ Budget[k] \in Nat
                      /\ budget[k] <= Budget[k] /\ budget'[k] <= budget[k]
  BY BudgetAssumption DEF Inv, TypeOK, BudgetsSpent, Step, BudgetStep
<1>2. BudgetsSpent'
  BY <1>1 DEF BudgetsSpent
<1>3. \A k \in Kind : budget'[k] = Budget[k] => budget[k] = Budget[k]
  BY <1>1
<1>4. {"expunge", "reboot"} \subseteq Kind
  BY DEF Kind
<1> QED
  BY <1>1, <1>2, <1>3, <1>4 DEF Unrebooted, Undeleted

\* A request on its way is new, or a copy of one that was on its way.
LEMMA RequestsStep ==
    ASSUME NEW t, NEW g, g.body.type = "RREQ", PacketStep(g, t)
    PROVE  \/ /\ g.body.orig = g.src
              /\ g.body.dest = t
              /\ g.body.id = rreqId[g.body.orig] + 1
              /\ g.body.id = rreqId'[g.body.orig]
              /\ g.body.origSeq = sequenceNum'[g.body.orig]
           \/ \E h \in Datagrams : /\ h.body.type = "RREQ"
                                   /\ RreqKey(h.body) = RreqKey(g.body)
                                   /\ h.body.dest = g.body.dest
                                   /\ h.body.origSeq = g.body.origSeq
BY DEF PacketStep, RequestStep, ReplyStep

\* Without restarts, numbers and IDs only grow, and what tells of them follows.
LEMMA NumbersStep ==
    ASSUME Inv, Inv', Numbers, Step, ~(budget'["reboot"] < budget["reboot"])
    PROVE  Numbers'
<1>1. \A n \in Node : /\ rreqId[n] <= rreqId'[n] /\ sequenceNum[n] <= sequenceNum'[n]
                      /\ rreqId[n] \in Nat /\ rreqId'[n] \in Nat
                      /\ sequenceNum[n] \in Nat /\ sequenceNum'[n] \in Nat
  BY DEF Step, CountersStep, Inv, TypeOK
<1>2. \A g \in Datagrams :
          /\ g.body.type = "RREQ" => g.body.orig \in Node /\ g.body.id \in Nat /\ g.body.origSeq \in Nat
          /\ g.body.type = "RREP" => g.body.dest \in Node /\ g.body.destSeq \in Nat
  BY TypedDatagrams DEF DatagramsTyped, Rreq, Rrep
<1>3. \A g \in Datagrams' :
          /\ g.src \in Node
          /\ g.body.type = "RREQ" => g.body.orig \in Node /\ g.body.id \in Nat /\ g.body.origSeq \in Nat
          /\ g.body.type = "RREP" => g.body.dest \in Node /\ g.body.destSeq \in Nat
  <2>1. DatagramsTyped'
    BY TypedDatagrams, PTL
  <2> QED
    BY <2>1 DEF DatagramsTyped, Rreq, Rrep
<1>4. ASSUME NEW n \in Node, NEW d \in Node, IsActive(routes'[n], d), routes'[n][d].valid
      PROVE  routes'[n][d].seq <= sequenceNum'[d]
  <2>1. routes[n][d].seq \in Nat /\ routes'[n][d].seq \in Nat
    BY DEF Inv, TypeOK, Table, Entry
  <2>2. EntryStep(n, d)
    BY DEF Step, EntriesStep
  <2>3. CASE Kept(routes[n][d], routes'[n][d])
    <3>1. routes[n][d].seq = routes'[n][d].seq /\ routes[n][d].seq <= sequenceNum[d]
      BY <1>4, <2>3 DEF Kept, IsActive, Numbers, SeqNotAhead
    <3> QED
      BY <1>1, <2>1, <3>1
  <2>4. ASSUME NEW f \in air, TaughtBy(f, d, routes'[n][d])
        PROVE  routes'[n][d].seq <= sequenceNum'[d]
    <3>1. f.dgram \in Datagrams /\ Body(f) = f.dgram.body
      BY DEF Datagrams, Body
    <3>2. routes'[n][d].seq <= sequenceNum[d]
      BY <1>4, <2>4, <3>1 DEF TaughtBy, Numbers
    <3> QED
      BY <1>1, <2>1, <3>2
  <2>5. CASE routes'[n][d] = NoRoute
    BY <1>4, <2>5 DEF NoRoute, IsActive
  <2> QED
    BY <2>2, <2>3, <2>4, <2>5 DEF EntryStep
<1>5. ASSUME NEW n \in Node, NEW k \in seen'[n]
      PROVE  k[2] <= rreqId'[k[1]]
  <2>1. k \in Node \X Nat
    BY DEF Inv, TypeOK
  <2>2. CASE k \in seen[n]
    <3>1. k[2] <= rreqId[k[1]]
      BY <2>2 DEF Numbers, RreqIdsFresh
    <3> QED
      BY <1>1, <2>1, <3>1
  <2>3. CASE k = <<n, rreqId'[n]>>
    BY <1>1, <2>3
  <2>4. ASSUME NEW g \in Datagrams, g.body.type = "RREQ", k = RreqKey(g.body)
        PROVE  k[2] <= rreqId'[k[1]]
    <3>1. k[1] = g.body.orig /\ k[2] = g.body.id /\ g.body.id <= rreqId[g.body.orig]
      BY <2>4 DEF RreqKey, Numbers
    <3> QED
      BY <1>1, <2>1, <3>1
  <2> QED
    BY <2>2, <2>3, <2>4 DEF Step, SeenStep
<1>6. PICK t \in Node \cup {NoNode} : \A g \in Datagrams' : PacketStep(g, t)
  BY DEF Step, PacketsStep
<1>7. ASSUME NEW g \in Datagrams', g.body.type = "RREQ"
      PROVE  g.body.origSeq <= sequenceNum'[g.body.orig] /\ g.body.id <= rreqId'[g.body.orig]
  <2>1. PacketStep(g, t)
    BY <1>6
  <2>2. CASE g.body.id = rreqId'[g.body.orig] /\ g.body.origSeq = sequenceNum'[g.body.orig]
    BY <1>3, <1>7, <2>2
  <2>3. ASSUME NEW h \in Datagrams, h.body.type = "RREQ", RreqKey(h.body) = RreqKey(g.body),
               h.body.origSeq = g.body.origSeq
        PROVE  g.body.origSeq <= sequenceNum'[g.body.orig] /\ g.body.id <= rreqId'[g.body.orig]
    <3>1. /\ h.body.orig = g.body.orig /\ h.body.id = g.body.id /\ g.body.orig \in Node
          /\ g.body.origSeq <= sequenceNum[g.body.orig] /\ g.body.id <= rreqId[g.body.orig]
      BY <1>2, <2>3 DEF RreqKey, Numbers
    <3> QED
      BY <1>1, <1>3, <1>7, <3>1
  <2> QED
    BY <1>7, <2>1, <2>2, <2>3, RequestsStep
<1>8. ASSUME NEW g \in Datagrams', g.body.type = "RREP"
      PROVE  g.body.destSeq <= sequenceNum'[g.body.dest]
  <2>1. PacketStep(g, t)
    BY <1>6
  <2>2. CASE g \in Datagrams
    <3>1. g.body.destSeq <= sequenceNum[g.body.dest]
      BY <1>8, <2>2 DEF Numbers
    <3> QED
      BY <1>1, <1>3, <1>8, <3>1
  <2>3. CASE ReplyStep(g)
    <3>1. CASE g.body.dest = g.src /\ g.body.destSeq = sequenceNum'[g.src]
      BY <1>1, <1>3, <3>1
    <3>2. CASE /\ routes'[g.src][g.body.dest].known
               /\ routes'[g.src][g.body.dest].active /\ routes'[g.src][g.body.dest].valid
               /\ routes'[g.src][g.body.dest].seq = g.body.destSeq
      BY <1>3, <1>4, <1>8, <3>2 DEF IsActive
    <3>3. ASSUME NEW h \in Datagrams,
                 \/ h.body.type = "RREQ" /\ h.body.orig = g.body.dest
                                         /\ h.body.origSeq = g.body.destSeq
                 \/ h.body.type = "RREP" /\ h.body.dest = g.body.dest
                                         /\ h.body.destSeq = g.body.destSeq
          PROVE  g.body.destSeq <= sequenceNum'[g.body.dest]
      <4>1. g.body.destSeq <= sequenceNum[g.body.dest]
        BY <3>3 DEF Numbers
      <4> QED
        BY <1>1, <1>3, <1>8, <4>1
    <3> QED
      BY <2>3, <3>1, <3>2, <3>3 DEF ReplyStep
  <2> QED
    BY <1>8, <2>1, <2>2, <2>3 DEF PacketStep, RequestStep
<1>9. ASSUME NEW g \in Datagrams', NEW h \in Datagrams',
             g.body.type = "RREQ", h.body.type = "RREQ", RreqKey(g.body) = RreqKey(h.body)
      PROVE  g.body.dest = h.body.dest /\ g.body.origSeq = h.body.origSeq
  <2> DEFINE New(x) == /\ x.body.dest = t
                       /\ x.body.id = rreqId[x.body.orig] + 1
                       /\ x.body.origSeq = sequenceNum'[x.body.orig]
             CopyOf(x, y) == /\ y.body.type = "RREQ"
                             /\ RreqKey(y.body) = RreqKey(x.body)
                             /\ y.body.dest = x.body.dest
                             /\ y.body.origSeq = x.body.origSeq
  <2>1. New(g) \/ \E y \in Datagrams : CopyOf(g, y)
    BY <1>6, <1>9, RequestsStep
  <2>2. New(h) \/ \E y \in Datagrams : CopyOf(h, y)
    BY <1>6, <1>9, RequestsStep
  <2>3. g.body.orig = h.body.orig /\ g.body.id = h.body.id /\ g.body.orig \in Node
    BY <1>3, <1>9 DEF RreqKey
  <2>4. \A x, y : RreqKey(x.body) = RreqKey(y.body) /\ New(x) /\ x.body.orig \in Node
                      => ~(y \in Datagrams /\ y.body.type = "RREQ")
    <3> SUFFICES ASSUME NEW x, NEW y \in Datagrams, y.body.type = "RREQ", New(x),
                        x.body.orig \in Node, RreqKey(x.body) = RreqKey(y.body)
                 PROVE  FALSE
      OBVIOUS
    <3>1. y.body.orig = x.body.orig /\ y.body.id = x.body.id
      BY DEF RreqKey
    <3>2. y.body.id <= rreqId[y.body.orig]
      BY DEF Numbers
    <3> QED
      BY <1>1, <3>1, <3>2
  <2>5. \A x, y \in Datagrams : CopyOf(g, x) /\ CopyOf(h, y) =>
            g.body.dest = h.body.dest /\ g.body.origSeq = h.body.origSeq
    BY <1>9 DEF Numbers
  <2>6. ASSUME New(g), New(h) PROVE g.body.dest = h.body.dest /\ g.body.origSeq = h.body.origSeq
    BY <2>3, <2>6
  <2>7. ~(New(g) /\ \E y \in Datagrams : CopyOf(h, y))
    BY <1>9, <2>3, <2>4
  <2>8. ~(New(h) /\ \E y \in Datagrams : CopyOf(g, y))
    BY <1>9, <2>3, <2>4
  <2> HIDE DEF New, CopyOf
  <2> QED
    BY <2>1, <2>2, <2>5, <2>6, <2>7, <2>8
<1> QED
  BY <1>4, <1>5, <1>7, <1>8, <1>9 DEF Numbers, SeqNotAhead, RreqIdsFresh

\* Without deletions, what a router knows it keeps knowing.
LEMMA TellingStep ==
    ASSUME Inv, Inv', Telling, Step,
           ~ \E k \in {"expunge", "reboot"} : budget'[k] < budget[k]
    PROVE  Telling'
<1> DEFINE WillKnow(n, d) == n = d \/ routes'[n][d].known
<1>1. \A n, d \in Node : EntryStep(n, d)
  BY DEF Step, EntriesStep
<1>2. \A n, d \in Node : Knows(n, d) => WillKnow(n, d)
  BY <1>1 DEF EntryStep, Knows, Kept, TaughtBy
<1>3. ASSUME NEW n \in Node, NEW d \in Node, routes'[n][d].known
      PROVE  WillKnow(routes'[n][d].next, d)
  <2>1. CASE Kept(routes[n][d], routes'[n][d])
    <3>1. routes[n][d].known /\ routes[n][d].next = routes'[n][d].next
      BY <1>3, <2>1 DEF Kept
    <3>2. routes[n][d].next \in Node
      BY <3>1, AdjacentNodes DEF Inv, GoodNetwork, GoodTable
    <3>3. Knows(routes[n][d].next, d)
      BY <3>1 DEF Telling
    <3>4. WillKnow(routes[n][d].next, d)
      BY <1>2, <3>2, <3>3 DEF Knows
    <3> QED
      BY <3>1, <3>4 DEF Knows
  <2>2. ASSUME NEW f \in air, TaughtBy(f, d, routes'[n][d])
        PROVE  WillKnow(routes'[n][d].next, d)
    <3>1. f.dgram \in Datagrams /\ Body(f) = f.dgram.body /\ f.dgram.src \in Node
      BY TypedDatagrams DEF DatagramsTyped, Datagrams, Body
    <3>2. CASE routes'[n][d].next = d
      BY <3>2 DEF Knows
    <3>3. CASE routes'[n][d].next # d
      <4>1. routes'[n][d].next = f.dgram.src /\ Knows(f.dgram.src, d)
        BY <2>2, <3>1, <3>3 DEF TaughtBy, Telling
      <4> QED
        BY <1>2, <3>1, <4>1 DEF Knows
    <3> QED
      BY <3>2, <3>3
  <2> QED
    BY <1>1, <2>1, <2>2 DEF EntryStep
<1>4. ASSUME NEW g \in Datagrams'
      PROVE  /\ g.body.type = "RREQ" => WillKnow(g.src, g.body.orig)
             /\ g.body.type = "RREP" => WillKnow(g.src, g.body.dest)
  <2>1. PICK t \in Node \cup {NoNode} : PacketStep(g, t)
    BY DEF Step, PacketsStep
  <2>2. CASE g \in Datagrams
    <3>1. /\ g.src \in Node
          /\ g.body.type = "RREQ" => g.body.orig \in Node /\ Knows(g.src, g.body.orig)
          /\ g.body.type = "RREP" => g.body.dest \in Node /\ Knows(g.src, g.body.dest)
      BY <2>2, TypedDatagrams DEF DatagramsTyped, Telling, Rreq, Rrep
    <3> QED
      BY <1>2, <3>1 DEF Knows
  <2>3. CASE RequestStep(g, t)
    BY <2>3 DEF RequestStep, Knows
  <2>4. CASE ReplyStep(g)
    BY <2>4 DEF ReplyStep, Knows
  <2> QED
    BY <2>1, <2>2, <2>3, <2>4 DEF PacketStep
<1> QED
  BY <1>3, <1>4 DEF Telling, Knows

\* Numbers and knowledge together, in every step.
LEMMA NextDInv == Inv /\ Inv' /\ DInv /\ [Next]_vars => DInv'
<1> SUFFICES ASSUME Inv, Inv', DInv, [Next]_vars PROVE DInv'
  OBVIOUS
<1>1. Step /\ Firsthand /\ BudgetsSpent
  BY EveryStep DEF DInv
<1>2. Firsthand'
  BY <1>1, FirsthandStep
<1>3. /\ BudgetsSpent'
      /\ Unrebooted' => Unrebooted /\ ~(budget'["reboot"] < budget["reboot"])
      /\ Undeleted' => Undeleted /\ ~ \E k \in {"expunge", "reboot"} : budget'[k] < budget[k]
  BY <1>1, BudgetsStep
<1>4. ASSUME Unrebooted' PROVE Numbers'
  BY <1>1, <1>3, <1>4, NumbersStep DEF DInv
<1>5. ASSUME Undeleted' PROVE Telling'
  BY <1>1, <1>3, <1>5, TellingStep DEF DInv
<1> QED
  BY <1>2, <1>3, <1>4, <1>5 DEF DInv

\* Requests and replies never tell more than their sender may know: the invariant of
\* what packets and entries carry, as long as nobody has restarted or deleted an entry.
THEOREM DiscoveryInvariance == Spec => [](Inv /\ DInv)
<1>1. Init => Inv /\ DInv
  BY InitInv, InitDInv
<1>2. Inv /\ DInv /\ [Next]_vars => Inv' /\ DInv'
  BY NextInv, NextDInv
<1> QED
  BY <1>1, <1>2, PTL DEF Spec

\* Until the first restart no valid active route is ahead of its destination, although
\* link breaks count numbers up and request and reply carry them past each other: what
\* is counted up is inactive, and an inactive number is told only as what is asked for.
THEOREM NumbersAreReached == Spec => [](Unrebooted => SeqNotAhead)
<1>1. DInv => (Unrebooted => SeqNotAhead)
  BY DEF DInv, Numbers
<1> QED
  BY <1>1, DiscoveryInvariance, PTL

\* Until the first restart no router has seen an ID that its originator has yet to use.
THEOREM IdsAreFresh == Spec => [](Unrebooted => RreqIdsFresh)
<1>1. DInv => (Unrebooted => RreqIdsFresh)
  BY DEF DInv, Numbers
<1> QED
  BY <1>1, DiscoveryInvariance, PTL

\* Until the first restart requests with the same originator and ID are copies.
THEOREM IdsAreUnique == Spec => [](Unrebooted => RreqIdUnique)
<1>1. DInv => (Unrebooted => RreqIdUnique)
  <2> SUFFICES ASSUME DInv, Unrebooted PROVE RreqIdUnique
    OBVIOUS
  <2>1. \A f \in air : f.dgram \in Datagrams /\ Body(f) = f.dgram.body
    BY DEF Datagrams, Body
  <2>2. \A g, h \in Datagrams :
            g.body.type = "RREQ" /\ h.body.type = "RREQ" /\ RreqKey(g.body) = RreqKey(h.body) =>
                g.body.dest = h.body.dest /\ g.body.origSeq = h.body.origSeq
    BY DEF DInv, Numbers
  <2> QED
    BY <2>1, <2>2 DEF RreqIdUnique
<1> QED
  BY <1>1, DiscoveryInvariance, PTL

\* As long as no entry is deleted, every next hop is the destination or knows a next
\* hop itself.
THEOREM NextHopsKnow == Spec => []NextHopKnows
<1>1. DInv => NextHopKnows
  BY DEF DInv, Undeleted, Telling, Knows, NextHopKnows
<1> QED
  BY <1>1, DiscoveryInvariance, PTL

-----------------------------------------------------------------------------
\* Retries and queues

\* sendRREQ for the discovery w, below the rate limit and at it.
Searching(n, w) ==
    IF rreqCount[n] >= RreqRatelimit
    THEN [on |-> w.on, lastTTL |-> w.lastTTL, retries |-> w.retries, armed |-> FALSE]
    ELSE [on |-> TRUE, lastTTL |-> RingTTL(w), retries |-> w.retries, armed |-> TRUE]

Again(w) ==
    [on |-> TRUE, lastTTL |-> w.lastTTL, retries |-> Attempts(w), armed |-> TRUE]

\* What a step does to the discovery of d at n, and to the datagrams that wait for it:
\* it goes on, it ends and nothing waits any more, it starts, or it tries again.
DiscoveryStep(n, d) ==
    \/ /\ wait'[n][d] = wait[n][d]
       /\ \A g \in delayed'[n] : g.dst = d => g \in delayed[n] \/ wait[n][d].on
    \/ /\ wait'[n][d] = NoDiscovery
       /\ \A g \in delayed'[n] : g.dst # d
    \/ /\ ~wait[n][d].on
       /\ wait'[n][d] = Searching(n, NoDiscovery)
    \/ /\ wait[n][d].armed
       /\ wait[n][d].retries # RreqRetries
       /\ wait'[n][d] = Searching(n, Again(wait[n][d]))

DiscoveriesStep == \A n, d \in Node : DiscoveryStep(n, d)

\* A step that has nothing to do with discoveries.
LEMMA DiscoveriesKept ==
    ASSUME UNCHANGED <<wait, delayed>>
    PROVE  DiscoveriesStep
BY DEF DiscoveriesStep, DiscoveryStep

\* sendRREQ changes the discovery of its target only.
LEMMA SendRREQDiscovery ==
    ASSUME Inv, NEW n \in Node, NEW target \in Node, NEW w, NEW inAir,
           SendRREQ(n, target, w, inAir)
    PROVE  /\ wait'[n][target] = Searching(n, w)
           /\ \A m, d \in Node : m # n \/ d # target => wait'[m][d] = wait[m][d]
<1>1. wait \in [Node -> [Node -> Discovery]]
  BY DEF Inv, TypeOK
<1>2. wait' = [wait EXCEPT ![n] = [wait[n] EXCEPT ![target] = Searching(n, w)]]
  BY DEF SendRREQ, Searching
<1> QED
  BY <1>1, <1>2

\* delayDatagram and startRouteDiscovery.
LEMMA DelayDatagramDiscovery ==
    ASSUME Inv, NEW n \in Node, NEW g, g.dst \in Node, NEW inAir,
           DelayDatagram(n, g, inAir)
    PROVE  DiscoveriesStep
<1>1. delayed' = [delayed EXCEPT ![n] = @ \cup {g}] /\ delayed \in [Node -> SUBSET Datagram]
  BY DEF DelayDatagram, Inv, TypeOK
<1>2. CASE wait[n][g.dst].on
  <2>1. wait' = wait
    BY <1>2 DEF DelayDatagram, discoveryVars
  <2> QED
    BY <1>1, <1>2, <2>1 DEF DiscoveriesStep, DiscoveryStep
<1>3. CASE ~wait[n][g.dst].on
  <2>1. SendRREQ(n, g.dst, NoDiscovery, inAir)
    BY <1>3 DEF DelayDatagram
  <2>2. /\ wait'[n][g.dst] = Searching(n, NoDiscovery)
        /\ \A m, d \in Node : m # n \/ d # g.dst => wait'[m][d] = wait[m][d]
    BY <2>1, SendRREQDiscovery
  <2> SUFFICES ASSUME NEW m \in Node, NEW d \in Node PROVE DiscoveryStep(m, d)
    BY DEF DiscoveriesStep
  <2>3. CASE m = n /\ d = g.dst
    BY <1>3, <2>2, <2>3 DEF DiscoveryStep
  <2>4. CASE m # n \/ d # g.dst
    BY <1>1, <2>2, <2>4 DEF DiscoveryStep
  <2> QED
    BY <2>3, <2>4
<1> QED
  BY <1>2, <1>3

\* A discovery that ends takes what waits for it out of the queue.
LEMMA DiscoveryEnds ==
    ASSUME Inv, NEW n \in Node, NEW target \in Node,
           wait' = [wait EXCEPT ![n] = [@ EXCEPT ![target] = NoDiscovery]],
           delayed' = [delayed EXCEPT ![n] = @ \ Waiting(n, target)]
    PROVE  DiscoveriesStep
<1>1. wait \in [Node -> [Node -> Discovery]] /\ delayed \in [Node -> SUBSET Datagram]
  BY DEF Inv, TypeOK
<1>2. \A m \in Node : delayed'[m] \subseteq delayed[m]
  BY <1>1
<1>3. \A g \in delayed'[n] : g.dst # target
  BY <1>1 DEF Waiting
<1>4. /\ wait'[n][target] = NoDiscovery
      /\ \A m, d \in Node : m # n \/ d # target => wait'[m][d] = wait[m][d]
  BY <1>1
<1> QED
  BY <1>2, <1>3, <1>4 DEF DiscoveriesStep, DiscoveryStep

\* handleWaitForRREP.
LEMMA WaitForRREPDiscovery ==
    ASSUME Inv, NEW n \in Node, NEW target \in Node, HandleWaitForRREP(n, target)
    PROVE  DiscoveriesStep
<1>1. CASE CancelRouteDiscovery(n, target)
  BY <1>1, DiscoveryEnds DEF CancelRouteDiscovery
<1>2. CASE RetryRREQ(n, target)
  <2> DEFINE w == Again(wait[n][target])
  <2>1. /\ wait[n][target].armed /\ wait[n][target].retries # RreqRetries
        /\ SendRREQ(n, target, w, air)
        /\ delayed' = delayed
    BY <1>2 DEF RetryRREQ, Again
  <2> HIDE DEF w
  <2>2. /\ wait'[n][target] = Searching(n, w)
        /\ \A m, d \in Node : m # n \/ d # target => wait'[m][d] = wait[m][d]
    BY <2>1, SendRREQDiscovery
  <2> QED
    BY <2>1, <2>2 DEF DiscoveriesStep, DiscoveryStep, w
<1> QED
  BY <1>1, <1>2 DEF HandleWaitForRREP

\* A restart ends all discoveries of a router.
LEMMA RebootDiscovery ==
    ASSUME Inv, NEW n \in Node, Reboot(n)
    PROVE  DiscoveriesStep
<1>1. /\ wait' = [wait EXCEPT ![n] = [d \in Node |-> NoDiscovery]]
      /\ delayed' = [delayed EXCEPT ![n] = {}]
  BY DEF Reboot
<1>2. wait \in [Node -> [Node -> Discovery]] /\ delayed \in [Node -> SUBSET Datagram]
  BY DEF Inv, TypeOK
<1> QED
  BY <1>1, <1>2 DEF DiscoveriesStep, DiscoveryStep

\* What all frames do to discoveries: a datagram may start one, a reply end one.
LEMMA FrameDiscovery ==
    ASSUME Inv, NEW f \in air, FrameStep(f)
    PROVE  DiscoveriesStep
<1>1. CASE QueueForwarded(f)
  <2>1. f.to \in Node /\ f.dgram.dst \in Node
    BY <1>1, TransitGood DEF QueueForwarded
  <2> QED
    BY <1>1, <2>1, DelayDatagramDiscovery DEF QueueForwarded
<1>2. CASE AcceptRREP(f)
  <2>1. f.to \in Node /\ Body(f).dest \in Node
    BY <1>2, ReceivedRREP DEF AcceptRREP
  <2> QED
    BY <1>2, <2>1, DiscoveryEnds DEF AcceptRREP
<1>3. CASE HandleRREQ(f)
  BY <1>3, DiscoveriesKept
     DEF HandleRREQ, IgnoreRREQ, DiscardRREQ, AnswerRREQ, SuppressRREP, AnswerForDestination,
         ForwardRREQ, FreshRREQ, discoveryVars
<1>4. CASE ForwardRREP(f) \/ LateRREP(f) \/ HandleHello(f) \/ HandleRREPACK(f) \/ HandleRERR(f)
  BY <1>4, DiscoveriesKept
     DEF ForwardRREP, LateRREP, HandleHello, HandleRREPACK, HandleRERR, discoveryVars
<1>5. CASE \/ ForwardDatagram(f) \/ DeliverData(f) \/ LoseBroadcast(f)
           \/ \E arrived \in BOOLEAN : LinkBreak(f, arrived)
  BY <1>5, DiscoveriesKept
     DEF ForwardDatagram, DeliverData, LoseBroadcast, LinkBreak, discoveryVars
<1> QED
  BY <1>1, <1>2, <1>3, <1>4, <1>5 DEF FrameStep, Receive, HandleRREP

\* What every step does to discoveries.
LEMMA EveryDiscovery ==
    ASSUME Inv, [Next]_vars
    PROVE  DiscoveriesStep
<1>1. ASSUME NEW g \in Flow, AppSend(g) PROVE DiscoveriesStep
  BY <1>1, DiscoveriesKept DEF AppSend, discoveryVars
<1>2. ASSUME NEW g \in udp, LocalOut(g) PROVE DiscoveriesStep
  <2>1. g.src \in Node /\ g.dst \in Node
    BY DatagramType DEF Inv, TypeOK
  <2>2. CASE SendDatagram(g)
    BY <2>2, DiscoveriesKept DEF SendDatagram, discoveryVars
  <2>3. CASE QueueDatagram(g)
    BY <2>1, <2>3, DelayDatagramDiscovery DEF QueueDatagram
  <2> QED
    BY <1>2, <2>2, <2>3 DEF LocalOut
<1>3. ASSUME NEW f \in air, FrameStep(f) PROVE DiscoveriesStep
  BY <1>3, FrameDiscovery
<1>4. ASSUME NEW n \in Node, NodeStep(n) PROVE DiscoveriesStep
  <2>1. CASE \E target \in Node : HandleWaitForRREP(n, target)
    BY <2>1, WaitForRREPDiscovery
  <2>2. CASE Reboot(n)
    BY <2>2, RebootDiscovery
  <2>3. CASE UNCHANGED <<wait, delayed>>
    BY <2>3, DiscoveriesKept
  <2> QED
    BY <1>4, <2>1, <2>2, <2>3
       DEF NodeStep, HandleRREPACKTimer, HandleBlackListTimer, ExpungeRoutes,
           SendHelloMessages, CounterTimer, RebootWaitOver, discoveryVars
<1>5. ASSUME NEW l \in Link, LinkDown(l) PROVE DiscoveriesStep
  BY <1>5, DiscoveriesKept DEF LinkDown, discoveryVars
<1>6. CASE UNCHANGED vars
  BY <1>6, DiscoveriesKept DEF vars, discoveryVars
<1> QED
  BY <1>1, <1>2, <1>3, <1>4, <1>5, <1>6 DEF Next

\* Once a discovery has reached the largest TTL it stays there if the threshold is not
\* far above it (35 and 7 in Aodv.ned), and retries count from there.
LEMMA RetriesStep ==
    ASSUME TtlThreshold <= NetDiameter + TtlIncrement, Inv, RetriesBounded,
           NEW n \in Node, NEW d \in Node, DiscoveryStep(n, d)
    PROVE  /\ wait'[n][d].retries <= RreqRetries
           /\ wait'[n][d].retries > 0 => wait'[n][d].lastTTL = NetDiameter
<1> DEFINE w == wait[n][d]
<1>1. /\ w \in Discovery /\ w.retries \in Nat /\ w.lastTTL \in Nat
      /\ w.retries <= RreqRetries /\ (w.retries > 0 => w.lastTTL = NetDiameter)
  BY DEF Inv, TypeOK, Discovery, RetriesBounded
<1>2. NetDiameter \in Nat /\ TtlIncrement \in Nat /\ TtlThreshold \in Nat /\ RreqRetries \in Nat
  BY TtlAssumption
<1>3. CASE wait'[n][d] = w
  BY <1>1, <1>3
<1>4. CASE wait'[n][d] = NoDiscovery \/ wait'[n][d] = Searching(n, NoDiscovery)
  BY <1>2, <1>4 DEF NoDiscovery, Searching
<1>5. CASE w.retries # RreqRetries /\ wait'[n][d] = Searching(n, Again(w))
  <2>1. CASE w.lastTTL = NetDiameter
    BY <1>1, <1>2, <1>5, <2>1 DEF Searching, Again, Attempts, RingTTL
  <2>2. CASE w.lastTTL # NetDiameter
    BY <1>1, <1>2, <1>5, <2>2 DEF Searching, Again, Attempts
  <2> QED
    BY <2>1, <2>2
<1> QED
  BY <1>3, <1>4, <1>5 DEF DiscoveryStep

\* The retries of a discovery never step over the value they are compared with for
\* equality, so that every discovery that goes on asking is given up in the end.
THEOREM RetriesAreBounded ==
    ASSUME TtlThreshold <= NetDiameter + TtlIncrement
    PROVE  Spec => []RetriesBounded
<1>1. Init => RetriesBounded
  BY TtlAssumption DEF Init, RetriesBounded, NoDiscovery
<1>2. Inv /\ RetriesBounded /\ [Next]_vars => RetriesBounded'
  <2> SUFFICES ASSUME Inv, RetriesBounded, [Next]_vars PROVE RetriesBounded'
    OBVIOUS
  <2>1. \A n, d \in Node : DiscoveryStep(n, d)
    BY EveryDiscovery DEF DiscoveriesStep
  <2> QED
    BY <2>1, RetriesStep DEF RetriesBounded
<1> QED
  BY <1>1, <1>2, Invariance, PTL DEF Spec

\* No router is at the rate limit of its requests.
BelowRate == \A n \in Node : rreqCount[n] < RreqRatelimit

\* A discovery that is going on has its timer scheduled.
Armed == \A n, d \in Node : wait[n][d].on => wait[n][d].armed

\* One step of the queues below the rate limit.
LEMMA QueuesStep ==
    ASSUME Inv, Inv', BelowRate, Armed, QueuedMeansSearching, DiscoveriesStep
    PROVE  Armed' /\ QueuedMeansSearching'
<1>1. ASSUME NEW n \in Node, NEW d \in Node
      PROVE  /\ wait'[n][d].on => wait'[n][d].armed
             /\ \A g \in delayed'[n] : g.dst = d => wait'[n][d].armed
  <2>1. DiscoveryStep(n, d)
    BY DEF DiscoveriesStep
  <2>2. \A w : Searching(n, w).armed
    <3>1. ~(rreqCount[n] >= RreqRatelimit)
      <4>1. rreqCount[n] \in Nat /\ RreqRatelimit \in Nat
        BY RateAssumption DEF Inv, TypeOK
      <4> QED
        BY <4>1 DEF BelowRate
    <3> QED
      BY <3>1 DEF Searching
  <2>3. CASE /\ wait'[n][d] = wait[n][d]
             /\ \A g \in delayed'[n] : g.dst = d => g \in delayed[n] \/ wait[n][d].on
    BY <2>3 DEF Armed, QueuedMeansSearching
  <2>4. CASE wait'[n][d] = NoDiscovery /\ \A g \in delayed'[n] : g.dst # d
    BY <2>4 DEF NoDiscovery
  <2>5. CASE \E w : wait'[n][d] = Searching(n, w)
    BY <2>2, <2>5
  <2> QED
    BY <2>1, <2>3, <2>4, <2>5 DEF DiscoveryStep
<1>2. Armed'
  BY <1>1 DEF Armed
<1>3. \A n \in Node : \A g \in delayed'[n] : g.dst \in Node
  BY DatagramType DEF Inv, TypeOK
<1>4. QueuedMeansSearching'
  BY <1>1, <1>3 DEF QueuedMeansSearching
<1> QED
  BY <1>2, <1>4

\* As long as no router reaches the rate limit, a delayed datagram has a timer behind
\* it. At the limit it is false (sendRREQ returns before it schedules the timer).
THEOREM QueuedIsSearchedFor == Spec /\ []BelowRate => []QueuedMeansSearching
<1>1. Init => Armed /\ QueuedMeansSearching
  BY DEF Init, Armed, QueuedMeansSearching, NoDiscovery
<1>2. /\ Inv /\ BelowRate /\ Armed /\ QueuedMeansSearching /\ [Next]_vars
      => Armed' /\ QueuedMeansSearching'
  BY NextInv, EveryDiscovery, QueuesStep
<1> QED
  BY <1>1, <1>2, Invariance, PTL DEF Spec

-----------------------------------------------------------------------------
\* What route errors list

\* The statement of RerrTruthful about one new frame.
TruthfulFrame(h) ==
    Body(h).type = "RERR" =>
        \A d \in Body(h).dests : IsActive(routes'[h.from], d) =>
            /\ routes'[h.from][d].next # d
            /\ \E f \in air : /\ f.from = h.from
                              /\ f.dgram.dst \in Node
                              /\ routes[h.from][f.dgram.dst].next = d

AirStep == \A h \in air' \ air : TruthfulFrame(h)

\* A datagram that is sent to a router is not an error, errors are broadcast.
LEMMA UnicastTruthful ==
    ASSUME Firsthand, NEW g \in Datagrams, g.dst \in Node, NEW h, h.dgram = g
    PROVE  TruthfulFrame(h)
BY AllAssumption DEF Firsthand, TruthfulFrame, Body

\* What sendRREQ and a Hello broadcast is no error.
LEMMA OtherBroadcastTruthful ==
    ASSUME NEW n, NEW body, body.type # "RERR", NEW h \in Broadcasts(n, body)
    PROVE  TruthfulFrame(h)
<1>1. h.dgram = To(n, All, body)
  BY BroadcastFrame
<1> QED
  BY <1>1 DEF TruthfulFrame, Body, To

LEMMA SendRREQTruthful ==
    ASSUME NEW n, NEW target, NEW w, NEW inAir, inAir \subseteq air,
           SendRREQ(n, target, w, inAir)
    PROVE  AirStep
<1> DEFINE q == NewRREQ(n, target, RingTTL(w))
<1>1. air' \subseteq air \cup Broadcasts(n, q)
  BY DEF SendRREQ
<1>2. q.type # "RERR"
  BY DEF NewRREQ
<1> HIDE DEF q
<1> QED
  BY <1>1, <1>2, OtherBroadcastTruthful DEF AirStep

LEMMA DelayDatagramTruthful ==
    ASSUME NEW n, NEW g, NEW inAir, inAir \subseteq air, DelayDatagram(n, g, inAir)
    PROVE  AirStep
<1>1. CASE wait[n][g.dst].on
  BY <1>1 DEF DelayDatagram, AirStep
<1>2. CASE ~wait[n][g.dst].on
  BY <1>2, SendRREQTruthful DEF DelayDatagram
<1> QED
  BY <1>1, <1>2

\* sendRERR lists what it is given.
LEMMA SendRERRTruthful ==
    ASSUME NEW n, NEW tab, NEW listed, NEW may, NEW inAir, inAir \subseteq air,
           SendRERR(n, tab, listed, may, inAir),
           \A d \in listed : IsActive(routes'[n], d) =>
               /\ routes'[n][d].next # d
               /\ \E f \in air : /\ f.from = n
                                 /\ f.dgram.dst \in Node
                                 /\ routes[n][f.dgram.dst].next = d
    PROVE  AirStep
<1> DEFINE body == Listing(tab, listed)
<1>1. air' \subseteq air \cup Broadcasts(n, body)
  BY DEF SendRERR
<1>2. body.dests = listed
  BY DEF Listing
<1> HIDE DEF body
<1> SUFFICES ASSUME NEW h \in air' \ air PROVE TruthfulFrame(h)
  BY DEF AirStep
<1>3. h.from = n /\ h.dgram = To(n, All, body)
  BY <1>1, BroadcastFrame
<1>4. Body(h).dests = listed
  BY <1>2, <1>3 DEF Body, To
<1> QED
  BY <1>3, <1>4 DEF TruthfulFrame

\* handleRERR reports what it has just deactivated.
LEMMA HandleRERRTruthful ==
    ASSUME Inv, NEW f \in air, HandleRERR(f)
    PROVE  AirStep
<1> DEFINE n == f.to
           gone == Unreachable(routes[n], Body(f), f.dgram.src)
           new == Deactivate(routes[n], gone, Body(f).seqs)
           listed == {d \in gone : new[d].prec # {}}
<1>1. /\ ReceivesControl(f, "RERR")
      /\ routes' = [routes EXCEPT ![n] = new]
      /\ SendRERR(n, new, listed, settled[n], air \ {f})
  BY DEF HandleRERR
<1>2. n \in Node /\ routes \in [Node -> Table]
  BY <1>1, ReceivedGood DEF Inv, GoodNetwork, TypeOK
<1>3. routes'[n] = new
  BY <1>1, <1>2
<1>4. \A d \in listed : ~new[d].active
  BY DEF Deactivate, Unreachable, ActiveVia
<1>5. air \ {f} \subseteq air
  OBVIOUS
<1> HIDE DEF new, listed
<1> QED
  BY <1>1, <1>3, <1>4, <1>5, SendRERRTruthful DEF IsActive

\* handleLinkBreakSendRERR reports what it has just deactivated, and the lost neighbour,
\* to which there may be an active route over another one.
LEMMA LinkBreakTruthful ==
    ASSUME Inv, NEW f \in air, NEW arrived \in BOOLEAN, LinkBreak(f, arrived)
    PROVE  AirStep
<1> DEFINE n == f.from
           neighbor == routes[n][f.dgram.dst].next
           inAir == IF arrived THEN air ELSE air \ {f}
           new == BreakLink(routes[n], neighbor)
           listed == ActiveVia(routes[n], neighbor) \cup
                     (IF routes[n][neighbor].active THEN {neighbor} ELSE {})
<1>1. n \in Node /\ inAir \subseteq air /\ routes \in [Node -> Table]
  BY DEF Inv, GoodNetwork, GoodFrame, Frame, TypeOK
<1>2. f.dgram.dst \in Node
  BY DatagramType DEF LinkBreak, Inv, GoodNetwork, GoodFrame, GoodDatagram
<1>3. CASE routes[n][f.dgram.dst].known /\ routes[n][neighbor].known
  <2>1. routes' = [routes EXCEPT ![n] = new] /\ SendRERR(n, new, listed, TRUE, inAir)
    BY <1>3 DEF LinkBreak, HandleLinkBreak
  <2>2. routes'[n] = new
    BY <1>1, <2>1
  <2>3. neighbor \in Node
    BY <1>1, <1>2, <1>3, AdjacentNodes DEF Inv, GoodNetwork, GoodTable
  <2>4. \A d \in Node : /\ d \in ActiveVia(routes[n], neighbor) => ~new[d].active
                        /\ d \notin ActiveVia(routes[n], neighbor) => new[d] = routes[n][d]
    BY DEF BreakLink, Deactivate
  <2>5. ASSUME NEW d \in listed, IsActive(new, d)
        PROVE  d = neighbor /\ new[d].next # d
    <3>1. d \in Node
      BY <2>3 DEF ActiveVia
    <3>2. d \notin ActiveVia(routes[n], neighbor) /\ new[d] = routes[n][d]
      BY <2>4, <2>5, <3>1 DEF IsActive
    <3>3. d = neighbor
      BY <3>2
    <3> QED
      BY <2>5, <3>1, <3>2, <3>3 DEF ActiveVia, IsActive
  <2> HIDE DEF new, listed, inAir
  <2>6. \A d \in listed : IsActive(routes'[n], d) =>
            /\ routes'[n][d].next # d
            /\ \E x \in air : /\ x.from = n
                              /\ x.dgram.dst \in Node
                              /\ routes[n][x.dgram.dst].next = d
    BY <1>2, <2>2, <2>5
  <2> QED
    BY <1>1, <2>1, <2>6, SendRERRTruthful, ZenonT(40)
<1>4. CASE ~(routes[n][f.dgram.dst].known /\ routes[n][neighbor].known)
  <2>1. air' = inAir
    BY <1>4 DEF LinkBreak, HandleLinkBreak
  <2> QED
    BY <1>1, <2>1 DEF AirStep
<1> QED
  BY <1>3, <1>4

\* The request that is passed on, the datagrams that a reply sets free, and Hellos.
LEMMA ForwardRREQTruthful ==
    ASSUME NEW f \in air, ForwardRREQ(f)
    PROVE  AirStep
<1> DEFINE onward == Onward(Body(f), TableAfterRREQ(f)[Body(f).dest])
<1>1. air' \subseteq air \cup Broadcasts(f.to, onward)
  BY DEF ForwardRREQ, Rebroadcasts
<1>2. onward.type # "RERR"
  BY DEF Onward
<1> HIDE DEF onward
<1> QED
  BY <1>1, <1>2, OtherBroadcastTruthful DEF AirStep

LEMMA AcceptRREPTruthful ==
    ASSUME Inv, Firsthand, NEW f \in air, AcceptRREP(f)
    PROVE  AirStep
<1>1. f.to \in Node
  BY ReceivedRREP DEF AcceptRREP
<1>2. \A g \in delayed[f.to] : g \in Datagrams /\ g.dst \in Node
  BY <1>1, DatagramType DEF Datagrams, Inv, TypeOK
<1>3. \A h \in air' \ air : h.dgram \in delayed[f.to]
  BY DEF AcceptRREP, Waiting
<1> QED
  BY <1>2, <1>3, UnicastTruthful DEF AirStep

LEMMA SendHelloTruthful ==
    ASSUME NEW n, SendHelloMessages(n)
    PROVE  AirStep
<1> DEFINE hello == [type |-> "RREP", orig |-> NoNode, dest |-> n,
                     destSeq |-> sequenceNum[n], hops |-> 0, ack |-> FALSE]
<1>1. air' = air \cup Broadcasts(n, hello) /\ hello.type # "RERR"
  BY DEF SendHelloMessages
<1> HIDE DEF hello
<1> QED
  BY <1>1, OtherBroadcastTruthful DEF AirStep

LEMMA FrameTruthful ==
    ASSUME Inv, Firsthand, NEW f \in air, FrameStep(f)
    PROVE  AirStep
<1>1. CASE HandleRERR(f) \/ \E arrived \in BOOLEAN : LinkBreak(f, arrived)
  BY <1>1, HandleRERRTruthful, LinkBreakTruthful
<1>2. CASE ForwardRREQ(f) \/ AcceptRREP(f)
  BY <1>2, ForwardRREQTruthful, AcceptRREPTruthful
<1>3. CASE ForwardDatagram(f)
  <2>1. f.dgram \in Datagrams /\ f.dgram.dst \in Node
    BY <1>3 DEF ForwardDatagram, Datagrams
  <2>2. \A h \in air' \ air : h.dgram = f.dgram
    BY <1>3 DEF ForwardDatagram, Unicast
  <2> QED
    BY <2>1, <2>2, UnicastTruthful DEF AirStep
<1>4. CASE QueueForwarded(f)
  BY <1>4, DelayDatagramTruthful DEF QueueForwarded
<1>5. CASE air' \subseteq air
  BY <1>5 DEF AirStep
<1> QED
  BY <1>1, <1>2, <1>3, <1>4, <1>5
     DEF FrameStep, Receive, HandleRREQ, HandleRREP, HandleRREPACK, DeliverData, LoseBroadcast,
         IgnoreRREQ, DiscardRREQ, AnswerRREQ, SuppressRREP, AnswerForDestination,
         ForwardRREP, LateRREP, HandleHello

LEMMA EveryAirStep ==
    ASSUME Inv, Firsthand, Next
    PROVE  AirStep
<1>1. ASSUME NEW g \in Flow, AppSend(g) PROVE AirStep
  BY <1>1 DEF AppSend, AirStep
<1>2. ASSUME NEW g \in udp, LocalOut(g) PROVE AirStep
  <2>1. g \in Datagrams /\ g.dst \in Node
    BY DatagramType DEF Inv, TypeOK, Datagrams
  <2>2. CASE SendDatagram(g)
    <3>1. \A h \in air' \ air : h.dgram = g
      BY <2>2 DEF SendDatagram, Unicast
    <3> QED
      BY <2>1, <3>1, UnicastTruthful DEF AirStep
  <2>3. CASE QueueDatagram(g)
    BY <2>3, DelayDatagramTruthful DEF QueueDatagram
  <2> QED
    BY <1>2, <2>2, <2>3 DEF LocalOut
<1>3. ASSUME NEW f \in air, FrameStep(f) PROVE AirStep
  BY <1>3, FrameTruthful
<1>4. ASSUME NEW n \in Node, NodeStep(n) PROVE AirStep
  <2>1. CASE \E target \in Node : RetryRREQ(n, target)
    BY <2>1, SendRREQTruthful DEF RetryRREQ
  <2>2. CASE SendHelloMessages(n)
    BY <2>2, SendHelloTruthful
  <2>3. CASE air' = air
    BY <2>3 DEF AirStep
  <2> QED
    BY <1>4, <2>1, <2>2, <2>3
       DEF NodeStep, HandleWaitForRREP, CancelRouteDiscovery, HandleRREPACKTimer,
           HandleBlackListTimer, ExpungeRoutes, CounterTimer, Reboot, RebootWaitOver
<1>5. ASSUME NEW l \in Link, LinkDown(l) PROVE AirStep
  BY <1>5 DEF LinkDown, AirStep
<1> QED
  BY <1>1, <1>2, <1>3, <1>4, <1>5 DEF Next

\* A route error never lists a destination to which its sender keeps an active route,
\* with the exception of the lost neighbour that is reached over another one.
THEOREM RerrsAreTruthful == Spec => RerrTruthful
<1>1. Inv /\ DInv /\ [Next]_vars =>
        [\A h \in air' \ air : Body(h).type = "RERR" =>
            \A d \in Body(h).dests : IsActive(routes'[h.from], d) =>
                /\ routes'[h.from][d].next # d
                /\ \E f \in air : /\ f.from = h.from
                                  /\ f.dgram.dst \in Node
                                  /\ routes[h.from][f.dgram.dst].next = d]_vars
  <2> SUFFICES ASSUME Inv, DInv, Next PROVE AirStep
    BY DEF AirStep, TruthfulFrame
  <2> QED
    BY EveryAirStep DEF DInv
<1> QED
  BY <1>1, DiscoveryInvariance, PTL DEF Spec, RerrTruthful
=============================================================================
