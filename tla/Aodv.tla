-------------------------------- MODULE Aodv --------------------------------
(***************************************************************************)
(* A network of routers that run inetmanet's Aodv module (Aodv.cc), with   *)
(* the netfilter hooks by which IPv4 asks it for routes.                   *)
(*                                                                         *)
(* A step is one handler of Aodv.cc run to its end: a packet that arrives, *)
(* a timer that fires, a hook or a link-break signal that calls in.  Time  *)
(* is abstracted: a timer that is scheduled may fire at any moment, jitter *)
(* and transmission delay are the time a frame spends in the air, and the  *)
(* entries whose lifetime is over are a choice of the expunge step.  All   *)
(* routers have the same parameters and one wireless interface.            *)
(***************************************************************************)
EXTENDS RouteTable, FiniteSets

CONSTANTS Link,            \* pairs <<a, b>>: b hears a
          Flow,            \* the datagrams the applications send
          TtlStart, TtlIncrement, TtlThreshold, NetDiameter, RreqRetries,
          RreqRatelimit, RerrRatelimit,
          DestinationOnly, AskGratuitousRREP, UseHelloMessages,
          Prompt,          \* time-outs outlast the traffic they wait for
          Budget,          \* how many disturbances of each kind may happen
          All              \* the broadcast address

ASSUME LinkAssumption == Link \subseteq Node \X Node
ASSUME AllAssumption == All \notin Node
ASSUME FlowAssumption == \A g \in Flow : g.src \in Node /\ g.dst \in Node /\ g.src # g.dst
                                         /\ g.body.type = "DATA"
ASSUME TtlAssumption == /\ {TtlStart, NetDiameter, TtlIncrement} \subseteq Nat \ {0}
                        /\ {TtlThreshold, RreqRetries} \subseteq Nat
ASSUME RateAssumption == RreqRatelimit \in Nat /\ RerrRatelimit \in Nat
ASSUME SwitchAssumption ==
    {DestinationOnly, AskGratuitousRREP, UseHelloMessages, Prompt} \subseteq BOOLEAN

Kind == {"loss", "down", "expunge", "hello", "second", "reboot"}

ASSUME BudgetAssumption == Budget \in [Kind -> Nat]

VARIABLES
    routes,         \* routes[n]: the AODV entries of n's routing table
    sequenceNum,    \* n's own sequence number
    rreqId,         \* the RREQ ID n used last
    seen,           \* keys of rreqsArrivalTime: <<originator, RREQ ID>>
    wait,           \* waitForRREPTimers with addressToRreqRetries
    delayed,        \* targetAddressToDelayedPackets
    rreqCount, rerrCount,
    blacklist, failedNextHop,
    rrepAckTimer, blacklistTimer,   \* is the timer scheduled?
    settled,        \* the wait of DELETE_PERIOD after a reboot is over
    udp,            \* unicast datagrams on their way from a socket to IPv4
    air,            \* frames on their way to one receiver
    link,           \* the links that work
    sent, delivered,  \* datagrams the applications sent and received
    budget

discoveryVars == <<sequenceNum, rreqId, seen, wait, rreqCount>>
ackVars == <<blacklist, failedNextHop, rrepAckTimer, blacklistTimer>>
appVars == <<sent, delivered>>
vars == <<routes, discoveryVars, delayed, rerrCount, ackVars, settled, udp, air,
          link, appVars, budget>>

-----------------------------------------------------------------------------
\* Packets (AodvControlPackets.msg).  A Hello is a RREP without originator; a
\* RERR maps the destinations it lists to sequence numbers.
Rreq == [type : {"RREQ"}, orig : Node, dest : Node, id : Nat, origSeq : Nat,
         destSeq : Nat, unknownSeq : BOOLEAN, hops : Nat, ttl : Nat \ {0}]
Rrep == [type : {"RREP"}, orig : Node \cup {NoNode}, dest : Node, destSeq : Nat,
         hops : Nat, ack : BOOLEAN]
Rerr == [type : {"RERR"}, dests : SUBSET Node, seqs : [Node -> Nat]]
RrepAck == [type : {"RREPACK"}]

Control == Rreq \cup Rrep \cup Rerr \cup RrepAck

Datagram == [src : Node, dst : Node, body : Control] \cup Flow
Broadcast == [src : Node, dst : {All}, body : Control]
Frame == [from : Node, to : Node, dgram : Datagram \cup Broadcast]

\* An entry of waitForRREPTimers: the TTL of the last RREQ, the attempts made at
\* the largest TTL, and whether the timer is scheduled.
Discovery == [on : BOOLEAN, lastTTL : Nat, retries : Nat, armed : BOOLEAN]
NoDiscovery == [on |-> FALSE, lastTTL |-> 0, retries |-> 0, armed |-> FALSE]

TypeOK ==
    /\ routes \in [Node -> Table]
    /\ sequenceNum \in [Node -> Nat]
    /\ rreqId \in [Node -> Nat]
    /\ seen \in [Node -> SUBSET (Node \X Nat)]
    /\ wait \in [Node -> [Node -> Discovery]]
    /\ delayed \in [Node -> SUBSET Datagram]
    /\ rreqCount \in [Node -> 0 .. RreqRatelimit]
    /\ rerrCount \in [Node -> 0 .. RerrRatelimit]
    /\ blacklist \in [Node -> SUBSET (Node \cup {NoNode})]
    /\ failedNextHop \in [Node -> Node \cup {NoNode}]
    /\ rrepAckTimer \in [Node -> BOOLEAN]
    /\ blacklistTimer \in [Node -> BOOLEAN]
    /\ settled \in [Node -> BOOLEAN]
    /\ udp \subseteq Datagram
    /\ air \subseteq Frame
    /\ link \subseteq Link
    /\ sent \subseteq Flow
    /\ delivered \subseteq Flow
    /\ budget \in [Kind -> Nat]

Init ==
    /\ routes = [n \in Node |-> [d \in Node |-> NoRoute]]
    /\ sequenceNum = [n \in Node |-> 0]
    /\ rreqId = [n \in Node |-> 0]
    /\ seen = [n \in Node |-> {}]
    /\ wait = [n \in Node |-> [d \in Node |-> NoDiscovery]]
    /\ delayed = [n \in Node |-> {}]
    /\ rreqCount = [n \in Node |-> 0]
    /\ rerrCount = [n \in Node |-> 0]
    /\ blacklist = [n \in Node |-> {}]
    /\ failedNextHop = [n \in Node |-> NoNode]
    /\ rrepAckTimer = [n \in Node |-> FALSE]
    /\ blacklistTimer = [n \in Node |-> FALSE]
    /\ settled = [n \in Node |-> TRUE]
    /\ udp = {}
    /\ air = {}
    /\ link = Link
    /\ sent = {}
    /\ delivered = {}
    /\ budget = Budget

-----------------------------------------------------------------------------
\* Sending

Spend(kind) ==
    /\ budget[kind] > 0
    /\ budget' = [budget EXCEPT ![kind] = @ - 1]

To(n, m, body) == [src |-> n, dst |-> m, body |-> body]

Unicast(n, g) == [from |-> n, to |-> routes[n][g.dst].next, dgram |-> g]

Broadcasts(n, body) ==
    {[from |-> n, to |-> m, dgram |-> To(n, All, body)] :
        m \in {x \in Node : <<n, x>> \in link}}

\* Mutant: the RREQ ID is used before it is counted up, and never counted up.
StaleRreqId(n) == rreqId[n]

NextRreqId(n) == rreqId[n] + 1

\* createRREQ, with the sequence number and the ID already counted up.
NewRREQ(n, target, ttl) ==
    LET known == routes[n][target].known /\ routes[n][target].valid
    IN [type |-> "RREQ", orig |-> n, dest |-> target, id |-> NextRreqId(n),
        origSeq |-> sequenceNum[n] + 1,
        destSeq |-> IF known THEN routes[n][target].seq ELSE 0,
        unknownSeq |-> ~known, hops |-> 0, ttl |-> ttl]

\* The TTL of the next RREQ of a discovery: the expanding ring of sendRREQ.
RingTTL(w) ==
    IF ~w.on THEN TtlStart
    ELSE IF w.lastTTL + TtlIncrement < TtlThreshold THEN w.lastTTL + TtlIncrement
    ELSE NetDiameter

\* createRREQ and sendRREQ for the discovery w of target.  At the rate limit
\* sendRREQ returns before it starts the timer: nothing is sent, and the timer
\* that fired is not scheduled again.
SendRREQ(n, target, w, inAir) ==
    LET limited == rreqCount[n] >= RreqRatelimit
        ttl == RingTTL(w)
    IN /\ sequenceNum' = [sequenceNum EXCEPT ![n] = @ + 1]
       /\ rreqId' = [rreqId EXCEPT ![n] = NextRreqId(n)]
       /\ seen' = [seen EXCEPT ![n] = @ \cup {<<n, NextRreqId(n)>>}]
       /\ wait' = [wait EXCEPT ![n] =
                     [@ EXCEPT ![target] =
                        IF limited
                        THEN [on |-> w.on, lastTTL |-> w.lastTTL, retries |-> w.retries,
                              armed |-> FALSE]
                        ELSE [on |-> TRUE, lastTTL |-> ttl, retries |-> w.retries,
                              armed |-> TRUE]]]
       /\ rreqCount' = IF limited THEN rreqCount ELSE [rreqCount EXCEPT ![n] = @ + 1]
       /\ air' = IF limited THEN inAir
                 ELSE inAir \cup Broadcasts(n, NewRREQ(n, target, ttl))

\* sendRREP over the table tab: the neighbour that originated the request is
\* asked for a RREP-ACK, any other next hop is not.
SendRREP(n, tab, rrep, others) ==
    LET nextHop == tab[rrep.orig].next
        ask == tab[rrep.orig].hops = 1
    IN /\ routes' = [routes EXCEPT ![n] = AddPrecursor(tab, rrep.orig, nextHop)]
       /\ failedNextHop' = IF ask THEN [failedNextHop EXCEPT ![n] = nextHop]
                           ELSE failedNextHop
       /\ rrepAckTimer' = IF ask THEN [rrepAckTimer EXCEPT ![n] = TRUE]
                          ELSE rrepAckTimer
       /\ udp' = udp \cup {To(n, nextHop, [type |-> "RREP", orig |-> rrep.orig,
                              dest |-> rrep.dest, destSeq |-> rrep.destSeq,
                              hops |-> rrep.hops, ack |-> ask])} \cup others

Listing(tab, listed) ==
    [type |-> "RERR", dests |-> listed,
     seqs |-> [d \in Node |-> IF d \in listed THEN tab[d].seq ELSE 0]]

-----------------------------------------------------------------------------
\* Datagrams: the hooks of IPv4

AppSend(g) ==
    /\ g \in Flow \ sent
    /\ sent' = sent \cup {g}
    /\ udp' = udp \cup {g}
    /\ UNCHANGED <<routes, discoveryVars, delayed, rerrCount, ackVars, settled, air,
                   link, delivered, budget>>

\* ensureRouteForDatagram without an active route: the datagram is delayed, and
\* a discovery is started if none is going on.
DelayDatagram(n, g, inAir) ==
    /\ ~IsActive(routes[n], g.dst)
    /\ delayed' = [delayed EXCEPT ![n] = @ \cup {g}]
    /\ IF wait[n][g.dst].on
       THEN air' = inAir /\ UNCHANGED discoveryVars
       ELSE SendRREQ(n, g.dst, NoDiscovery, inAir)

\* The local-out hook, for data and for AODV's own unicast packets alike.
SendDatagram(g) ==
    /\ g \in udp
    /\ IsActive(routes[g.src], g.dst)
    /\ udp' = udp \ {g}
    /\ air' = air \cup {Unicast(g.src, g)}
    /\ UNCHANGED <<routes, discoveryVars, delayed, rerrCount, ackVars, settled,
                   link, appVars, budget>>

QueueDatagram(g) ==
    /\ g \in udp
    /\ udp' = udp \ {g}
    /\ DelayDatagram(g.src, g, air)
    /\ UNCHANGED <<routes, rerrCount, ackVars, settled, link, appVars, budget>>

Arrives(f) == f \in air /\ <<f.from, f.to>> \in link

\* A datagram for someone else: the prerouting hook, then the forward hook, which
\* after the first one has an active route and only refreshes lifetimes.
ForwardDatagram(f) ==
    /\ Arrives(f)
    /\ f.dgram.dst \in Node \ {f.to}
    /\ IsActive(routes[f.to], f.dgram.dst)
    /\ air' = (air \ {f}) \cup {Unicast(f.to, f.dgram)}
    /\ UNCHANGED <<routes, discoveryVars, delayed, rerrCount, ackVars, settled, udp,
                   link, appVars, budget>>

QueueForwarded(f) ==
    /\ Arrives(f)
    /\ f.dgram.dst \in Node \ {f.to}
    /\ DelayDatagram(f.to, f.dgram, air \ {f})
    /\ UNCHANGED <<routes, rerrCount, ackVars, settled, udp, link, appVars, budget>>

DeliverData(f) ==
    /\ Arrives(f)
    /\ f.dgram \in Flow
    /\ f.dgram.dst = f.to
    /\ delivered' = delivered \cup {f.dgram}
    /\ air' = air \ {f}
    /\ UNCHANGED <<routes, discoveryVars, delayed, rerrCount, ackVars, settled, udp,
                   link, sent, budget>>

-----------------------------------------------------------------------------
\* handleRREQ

Body(f) == f.dgram.body

\* A control packet that reached its destination (processPacket).
ReceivesControl(f, type) ==
    /\ Arrives(f)
    /\ Body(f).type = type
    /\ f.dgram.dst \in {f.to, All}

\* Mutant: duplicates are recognised by the destination of the request.
KeyOfDestination(q) == <<q.dest, q.id>>

RreqKey(q) == <<q.orig, q.id>>

\* The table once the previous hop and the reverse route are entered.
TableAfterRREQ(f) ==
    SetReverseRoute(SetPreviousHop(routes[f.to], f.dgram.src, Body(f).origSeq),
                    Body(f), f.dgram.src, Body(f).hops + 1)

IgnoreRREQ(f) ==
    /\ ReceivesControl(f, "RREQ")
    /\ f.dgram.src \in blacklist[f.to]
    /\ air' = air \ {f}
    /\ UNCHANGED <<routes, discoveryVars, delayed, rerrCount, ackVars, settled, udp,
                   link, appVars, budget>>

DiscardRREQ(f) ==
    /\ ReceivesControl(f, "RREQ")
    /\ f.dgram.src \notin blacklist[f.to]
    /\ RreqKey(Body(f)) \in seen[f.to]
    /\ routes' = [routes EXCEPT ![f.to] =
                    SetPreviousHop(@, f.dgram.src, Body(f).origSeq)]
    /\ air' = air \ {f}
    /\ UNCHANGED <<discoveryVars, delayed, rerrCount, ackVars, settled, udp, link,
                   appVars, budget>>

\* A RREQ to be processed: what all the alternatives below have in common.
FreshRREQ(f) ==
    /\ ReceivesControl(f, "RREQ")
    /\ f.dgram.src \notin blacklist[f.to]
    /\ RreqKey(Body(f)) \notin seen[f.to]
    /\ seen' = [seen EXCEPT ![f.to] = @ \cup {RreqKey(Body(f))}]
    /\ UNCHANGED <<rreqId, wait, delayed, rreqCount, rerrCount, blacklist,
                   blacklistTimer, settled, link, appVars, budget>>

\* Check (i): the destination answers.
AnswerRREQ(f) ==
    LET n == f.to
        q == Body(f)
        mySeq == IF ~q.unknownSeq /\ q.destSeq = sequenceNum[n] + 1
                 THEN sequenceNum[n] + 1 ELSE sequenceNum[n]
    IN /\ FreshRREQ(f)
       /\ q.dest = n
       /\ sequenceNum' = [sequenceNum EXCEPT ![n] = mySeq]
       /\ SendRREP(n, TableAfterRREQ(f),
                   [orig |-> q.orig, dest |-> n, destSeq |-> mySeq, hops |-> 0], {})
       /\ air' = air \ {f}

\* Check (ii): a fresh enough active route to the destination.
FreshEnough(entry, q) ==
    entry.known /\ entry.active /\ entry.valid /\ entry.seq >= q.destSeq

SuppressRREP(f) ==
    LET tab == TableAfterRREQ(f)
        q == Body(f)
    IN /\ FreshRREQ(f)
       /\ q.dest # f.to
       /\ FreshEnough(tab[q.dest], q)
       /\ tab[q.dest].next = f.dgram.src
       /\ routes' = [routes EXCEPT ![f.to] = tab]
       /\ air' = air \ {f}
       /\ UNCHANGED <<sequenceNum, failedNextHop, rrepAckTimer, udp>>

GratuitousRREP(n, tab, q) ==
    IF AskGratuitousRREP
    THEN {To(n, tab[q.dest].next,
             [type |-> "RREP", orig |-> q.dest, dest |-> q.orig,
              destSeq |-> q.origSeq, hops |-> tab[q.orig].hops, ack |-> FALSE])}
    ELSE {}

AnswerForDestination(f) ==
    LET n == f.to
        q == Body(f)
        tab == TableAfterRREQ(f)
        tab2 == AddPrecursor(AddPrecursor(tab, q.dest, f.dgram.src),
                             q.orig, tab[q.dest].next)
    IN /\ FreshRREQ(f)
       /\ q.dest # n
       /\ FreshEnough(tab[q.dest], q)
       /\ tab[q.dest].next # f.dgram.src
       /\ ~DestinationOnly
       /\ SendRREP(n, tab2,
                   [orig |-> q.orig, dest |-> q.dest, destSeq |-> tab[q.dest].seq,
                    hops |-> tab[q.dest].hops],
                   GratuitousRREP(n, tab, q))
       /\ air' = air \ {f}
       /\ UNCHANGED sequenceNum

\* Mutant: the hop count is not counted up.
OnwardSameHops(q, entry) ==
    [type |-> "RREQ", orig |-> q.orig, dest |-> q.dest, id |-> q.id,
     origSeq |-> q.origSeq, destSeq |-> Larger(entry.seq, q.destSeq),
     unknownSeq |-> FALSE, hops |-> q.hops, ttl |-> q.ttl - 1]

\* The request as it is passed on: one hop further, with the sequence number that
\* is known of the destination.
Onward(q, entry) ==
    [type |-> "RREQ", orig |-> q.orig, dest |-> q.dest, id |-> q.id,
     origSeq |-> q.origSeq, destSeq |-> Larger(entry.seq, q.destSeq),
     unknownSeq |-> FALSE, hops |-> q.hops + 1, ttl |-> q.ttl - 1]

\* Mutant: the TTL is not looked at.
RebroadcastsAnyTTL(n, rreq) == IF settled[n] THEN Broadcasts(n, rreq) ELSE {}

\* forwardRREQ, if there is a hop left to go.
Rebroadcasts(n, rreq) ==
    IF rreq.ttl > 0 /\ settled[n] THEN Broadcasts(n, rreq) ELSE {}

\* Neither check applies: the request is passed on.
ForwardRREQ(f) ==
    LET n == f.to
        q == Body(f)
        tab == TableAfterRREQ(f)
    IN /\ FreshRREQ(f)
       /\ q.dest # n
       /\ FreshEnough(tab[q.dest], q)
             => DestinationOnly /\ tab[q.dest].next # f.dgram.src
       /\ routes' = [routes EXCEPT ![n] = tab]
       /\ air' = (air \ {f}) \cup Rebroadcasts(n, Onward(q, tab[q.dest]))
       /\ UNCHANGED <<sequenceNum, failedNextHop, rrepAckTimer, udp>>

HandleRREQ(f) ==
    \/ IgnoreRREQ(f)
    \/ DiscardRREQ(f)
    \/ AnswerRREQ(f)
    \/ SuppressRREP(f)
    \/ AnswerForDestination(f)
    \/ ForwardRREQ(f)

-----------------------------------------------------------------------------
\* handleRREP

TableAfterRREP(f) ==
    SetForwardRoute(SetPreviousHop(routes[f.to], f.dgram.src, Body(f).destSeq),
                    Body(f), f.dgram.src, Body(f).hops + 1)

\* A RREP for another originator is passed on along the reverse route, if there
\* is one, whether or not the forward route was changed.
ForwardRREP(f) ==
    LET n == f.to
        p == Body(f)
        tab == TableAfterRREP(f)
        back == tab[p.orig].next
        passOn == tab[p.orig].known /\ settled[n]
        tab2 == AddPrecursor(tab, p.dest, back)
        tab3 == IF tab[tab[p.dest].next].known
                THEN AddPrecursor(tab2, tab[p.dest].next, back) ELSE tab2
        onward == [type |-> "RREP", orig |-> p.orig, dest |-> p.dest,
                   destSeq |-> p.destSeq, hops |-> p.hops + 1, ack |-> FALSE]
        rrepAck == IF p.ack THEN {To(n, f.dgram.src, [type |-> "RREPACK"])} ELSE {}
    IN /\ ReceivesControl(f, "RREP")
       /\ p.orig \in Node \ {n}
       /\ routes' = [routes EXCEPT ![n] = IF passOn THEN tab3 ELSE tab]
       /\ udp' = IF passOn THEN udp \cup {To(n, back, onward)} \cup rrepAck ELSE udp
       /\ air' = air \ {f}
       /\ UNCHANGED <<discoveryVars, delayed, rerrCount, ackVars, settled, link,
                      appVars, budget>>

\* Mutant: the queue is searched for the wrong address.
WaitingFrom(n, target) == {g \in delayed[n] : g.src = target}

Waiting(n, target) == {g \in delayed[n] : g.dst = target}

\* The RREP for our own RREQ: with the discovery still going on, the route is
\* taken over in any case and the delayed datagrams are reinjected.
AcceptRREP(f) ==
    LET n == f.to
        p == Body(f)
        tab == SetRoute(TableAfterRREP(f), p.dest, f.dgram.src, p.hops + 1, TRUE,
                        p.destSeq)
        waiting == Waiting(n, p.dest)
    IN /\ ReceivesControl(f, "RREP")
       /\ p.orig = f.to
       /\ wait[n][p.dest].on
       /\ routes' = [routes EXCEPT ![n] = tab]
       /\ wait' = [wait EXCEPT ![n] = [@ EXCEPT ![p.dest] = NoDiscovery]]
       /\ delayed' = [delayed EXCEPT ![n] = @ \ waiting]
       /\ air' = (air \ {f}) \cup
                 {[from |-> n, to |-> f.dgram.src, dgram |-> g] : g \in waiting}
       /\ UNCHANGED <<sequenceNum, rreqId, seen, rreqCount, rerrCount, ackVars,
                      settled, udp, link, appVars, budget>>

LateRREP(f) ==
    /\ ReceivesControl(f, "RREP")
    /\ Body(f).orig = f.to
    /\ ~wait[f.to][Body(f).dest].on
    /\ routes' = [routes EXCEPT ![f.to] = TableAfterRREP(f)]
    /\ air' = air \ {f}
    /\ UNCHANGED <<discoveryVars, delayed, rerrCount, ackVars, settled, udp, link,
                   appVars, budget>>

HandleHello(f) ==
    LET hello == Body(f)
    IN /\ ReceivesControl(f, "RREP")
       /\ hello.orig = NoNode
       /\ routes' = [routes EXCEPT ![f.to] =
                       SetRoute(@, hello.dest, hello.dest, 1, TRUE, hello.destSeq)]
       /\ air' = air \ {f}
       /\ UNCHANGED <<discoveryVars, delayed, rerrCount, ackVars, settled, udp, link,
                      appVars, budget>>

HandleRREP(f) == ForwardRREP(f) \/ AcceptRREP(f) \/ LateRREP(f) \/ HandleHello(f)

\* Any RREP-ACK counts while the timer runs, if there is an entry for its sender.
HandleRREPACK(f) ==
    LET n == f.to
        m == f.dgram.src
        counts == rrepAckTimer[n] /\ routes[n][m].known
    IN /\ ReceivesControl(f, "RREPACK")
       /\ rrepAckTimer' = IF counts THEN [rrepAckTimer EXCEPT ![n] = FALSE]
                          ELSE rrepAckTimer
       /\ routes' = IF counts THEN [routes EXCEPT ![n] = Activate(@, m)] ELSE routes
       /\ air' = air \ {f}
       /\ UNCHANGED <<discoveryVars, delayed, rerrCount, blacklist, failedNextHop,
                      blacklistTimer, settled, udp, link, appVars, budget>>

-----------------------------------------------------------------------------
\* Route errors

\* Broadcast a RERR for listed, unless there is nothing to list or the rate
\* limit is reached.
SendRERR(n, tab, listed, may, inAir) ==
    IF listed # {} /\ may /\ rerrCount[n] < RerrRatelimit
    THEN /\ rerrCount' = [rerrCount EXCEPT ![n] = @ + 1]
         /\ air' = inAir \cup Broadcasts(n, Listing(tab, listed))
    ELSE /\ air' = inAir
         /\ UNCHANGED rerrCount

\* handleLinkBreakSendRERR: nothing happens if the table has no entry for the
\* lost neighbour itself.
HandleLinkBreak(n, neighbor, inAir) ==
    LET old == routes[n]
        new == BreakLink(old, neighbor)
        listed == ActiveVia(old, neighbor) \cup
                  (IF old[neighbor].active THEN {neighbor} ELSE {})
    IN IF old[neighbor].known
       THEN /\ routes' = [routes EXCEPT ![n] = new]
            /\ SendRERR(n, new, listed, TRUE, inAir)
       ELSE /\ air' = inAir
            /\ UNCHANGED <<routes, rerrCount>>

\* A frame the link layer gives up on: a unicast one raises linkBrokenSignal with
\* the datagram (receiveSignal), even when only the acknowledgement was lost.
Fails(f) ==
    /\ f \in air
    /\ IF <<f.from, f.to>> \in link THEN Spend("loss") ELSE UNCHANGED budget

LoseBroadcast(f) ==
    /\ Fails(f)
    /\ f.dgram.dst = All
    /\ air' = air \ {f}
    /\ UNCHANGED <<routes, discoveryVars, delayed, rerrCount, ackVars, settled, udp,
                   link, appVars>>

LinkBreak(f, arrived) ==
    LET entry == routes[f.from][f.dgram.dst]
        inAir == IF arrived THEN air ELSE air \ {f}
    IN /\ Fails(f)
       /\ f.dgram.dst # All
       /\ arrived => <<f.from, f.to>> \in link
       /\ IF entry.known
          THEN HandleLinkBreak(f.from, entry.next, inAir)
          ELSE air' = inAir /\ UNCHANGED <<routes, rerrCount>>
       /\ UNCHANGED <<discoveryVars, delayed, ackVars, settled, udp, link, appVars>>

\* The routes over the sender that the RERR lists are deactivated; those with
\* precursors are reported further.
HandleRERR(f) ==
    LET n == f.to
        gone == Unreachable(routes[n], Body(f), f.dgram.src)
        new == Deactivate(routes[n], gone, Body(f).seqs)
    IN /\ ReceivesControl(f, "RERR")
       /\ routes' = [routes EXCEPT ![n] = new]
       /\ SendRERR(n, new, {d \in gone : new[d].prec # {}}, settled[n], air \ {f})
       /\ UNCHANGED <<discoveryVars, delayed, ackVars, settled, udp, link, appVars,
                      budget>>

-----------------------------------------------------------------------------
\* Timers

InFlight(types) ==
    \/ \E g \in udp : g.body.type \in types
    \/ \E f \in air : Body(f).type \in types

\* Mutant: the discovery is given up, the delayed datagrams are kept.
CancelKeepsQueue(n, target) ==
    /\ wait[n][target].armed
    /\ Prompt => ~InFlight({"RREQ", "RREP"})
    /\ wait[n][target].retries = RreqRetries
    /\ wait' = [wait EXCEPT ![n] = [@ EXCEPT ![target] = NoDiscovery]]
    /\ UNCHANGED <<routes, sequenceNum, rreqId, seen, delayed, rreqCount, rerrCount,
                   ackVars, settled, udp, air, link, appVars, budget>>

\* handleWaitForRREP: give up after RreqRetries attempts at the largest TTL, and
\* drop what was delayed; before that, ask again.
CancelRouteDiscovery(n, target) ==
    /\ wait[n][target].armed
    /\ Prompt => ~InFlight({"RREQ", "RREP"})
    /\ wait[n][target].retries = RreqRetries
    /\ delayed' = [delayed EXCEPT ![n] = @ \ Waiting(n, target)]
    /\ wait' = [wait EXCEPT ![n] = [@ EXCEPT ![target] = NoDiscovery]]
    /\ UNCHANGED <<routes, sequenceNum, rreqId, seen, rreqCount, rerrCount, ackVars,
                   settled, udp, air, link, appVars, budget>>

\* Mutant: every attempt is counted as a retry.
AttemptsAll(w) == w.retries + 1

\* Only the attempts at the largest TTL are counted.
Attempts(w) == IF w.lastTTL = NetDiameter THEN w.retries + 1 ELSE w.retries

RetryRREQ(n, target) ==
    LET w == wait[n][target]
    IN /\ w.armed
       /\ Prompt => ~InFlight({"RREQ", "RREP"})
       /\ w.retries # RreqRetries
       /\ SendRREQ(n, target, [on |-> TRUE, lastTTL |-> w.lastTTL, retries |-> Attempts(w),
                               armed |-> TRUE], air)
       /\ UNCHANGED <<routes, delayed, rerrCount, ackVars, settled, udp, link,
                      appVars, budget>>

HandleWaitForRREP(n, target) == CancelRouteDiscovery(n, target) \/ RetryRREQ(n, target)

HandleRREPACKTimer(n) ==
    /\ rrepAckTimer[n]
    /\ Prompt => ~InFlight({"RREP", "RREPACK"})
    /\ blacklist' = [blacklist EXCEPT ![n] = @ \cup {failedNextHop[n]}]
    /\ rrepAckTimer' = [rrepAckTimer EXCEPT ![n] = FALSE]
    /\ blacklistTimer' = [blacklistTimer EXCEPT ![n] = TRUE]
    /\ UNCHANGED <<routes, discoveryVars, delayed, rerrCount, failedNextHop, settled,
                   udp, air, link, appVars, budget>>

HandleBlackListTimer(n, over) ==
    /\ blacklistTimer[n]
    /\ over \in SUBSET blacklist[n] \ {{}}
    /\ blacklist' = [blacklist EXCEPT ![n] = @ \ over]
    /\ blacklistTimer' = [blacklistTimer EXCEPT ![n] = (blacklist[n] # over)]
    /\ UNCHANGED <<routes, discoveryVars, delayed, rerrCount, failedNextHop,
                   rrepAckTimer, settled, udp, air, link, appVars, budget>>

ExpungeRoutes(n, due) ==
    /\ Spend("expunge")
    /\ Prompt => \A g \in udp : g.src # n
    /\ due \in SUBSET {d \in Node : routes[n][d].known} \ {{}}
    /\ routes' = [routes EXCEPT ![n] =
                    Expunge(@, due, {d \in Node : wait[n][d].on})]
    /\ UNCHANGED <<discoveryVars, delayed, rerrCount, ackVars, settled, udp, air,
                   link, appVars>>

SendHelloMessages(n) ==
    /\ UseHelloMessages
    /\ Spend("hello")
    /\ \E d \in Node : IsActive(routes[n], d)
    /\ air' = air \cup Broadcasts(n, [type |-> "RREP", orig |-> NoNode, dest |-> n,
                             destSeq |-> sequenceNum[n], hops |-> 0, ack |-> FALSE])
    /\ UNCHANGED <<routes, discoveryVars, delayed, rerrCount, ackVars, settled, udp,
                   link, appVars>>

CounterTimer(n) ==
    /\ Spend("second")
    /\ rreqCount[n] + rerrCount[n] > 0
    /\ rreqCount' = [rreqCount EXCEPT ![n] = 0]
    /\ rerrCount' = [rerrCount EXCEPT ![n] = 0]
    /\ UNCHANGED <<routes, sequenceNum, rreqId, seen, wait, delayed, ackVars, settled,
                   udp, air, link, appVars>>

-----------------------------------------------------------------------------
\* Links and life cycle

LinkDown(l) ==
    /\ l \in link
    /\ Spend("down")
    /\ link' = link \ {l}
    /\ UNCHANGED <<routes, discoveryVars, delayed, rerrCount, ackVars, settled, udp,
                   air, appVars>>

\* handleCrashOperation or handleStopOperation, then handleStartOperation.
\* clearState keeps the blacklist but cancels its timer; the routing table is
\* emptied by IPv4; packets waiting for their jitter are kept.
Reboot(n) ==
    /\ Spend("reboot")
    /\ routes' = [routes EXCEPT ![n] = [d \in Node |-> NoRoute]]
    /\ sequenceNum' = [sequenceNum EXCEPT ![n] = 0]
    /\ rreqId' = [rreqId EXCEPT ![n] = 0]
    /\ seen' = [seen EXCEPT ![n] = {}]
    /\ wait' = [wait EXCEPT ![n] = [d \in Node |-> NoDiscovery]]
    /\ delayed' = [delayed EXCEPT ![n] = {}]
    /\ rreqCount' = [rreqCount EXCEPT ![n] = 0]
    /\ rerrCount' = [rerrCount EXCEPT ![n] = 0]
    /\ rrepAckTimer' = [rrepAckTimer EXCEPT ![n] = FALSE]
    /\ blacklistTimer' = [blacklistTimer EXCEPT ![n] = FALSE]
    /\ settled' = [settled EXCEPT ![n] = FALSE]
    /\ UNCHANGED <<blacklist, failedNextHop, udp, air, link, appVars>>

RebootWaitOver(n) ==
    /\ ~settled[n]
    /\ settled' = [settled EXCEPT ![n] = TRUE]
    /\ UNCHANGED <<routes, discoveryVars, delayed, rerrCount, ackVars, udp, air, link,
                   appVars, budget>>

-----------------------------------------------------------------------------
\* A frame that can arrive is handled.
Receive(f) ==
    \/ HandleRREQ(f)
    \/ HandleRREP(f)
    \/ HandleRREPACK(f)
    \/ HandleRERR(f)
    \/ ForwardDatagram(f)
    \/ QueueForwarded(f)
    \/ DeliverData(f)

LocalOut(g) == SendDatagram(g) \/ QueueDatagram(g)

FrameStep(f) ==
    \/ Receive(f)
    \/ LoseBroadcast(f)
    \/ \E arrived \in BOOLEAN : LinkBreak(f, arrived)

NodeStep(n) ==
    \/ \E target \in Node : HandleWaitForRREP(n, target)
    \/ HandleRREPACKTimer(n)
    \/ \E over \in SUBSET blacklist[n] : HandleBlackListTimer(n, over)
    \/ \E due \in SUBSET Node : ExpungeRoutes(n, due)
    \/ SendHelloMessages(n)
    \/ CounterTimer(n)
    \/ Reboot(n)
    \/ RebootWaitOver(n)

Next ==
    \/ \E g \in Flow : AppSend(g)
    \/ \E g \in udp : LocalOut(g)
    \/ \E f \in air : FrameStep(f)
    \/ \E n \in Node : NodeStep(n)
    \/ \E l \in Link : LinkDown(l)

Spec == Init /\ [][Next]_vars

\* The simulator delivers every event it has scheduled: datagrams reach the
\* local-out hook, frames arrive or are given up, and a discovery timer that
\* stays scheduled fires.  No fairness for what need not happen at all: sending
\* by applications, expiry, link failures, reboots.
Fairness ==
    /\ WF_vars(\E g \in udp : LocalOut(g))
    /\ WF_vars(\E f \in air : FrameStep(f))
    /\ \A n, target \in Node : WF_vars(HandleWaitForRREP(n, target))

FairSpec == Spec /\ Fairness

-----------------------------------------------------------------------------
\* Safety

Adjacent(n, m) == <<n, m>> \in Link \/ <<m, n>> \in Link

\* A next hop is always a node within radio range: no handler takes an address
\* out of a packet for that of the neighbour it came from (createRoute and
\* updateRoutingTable calls of handleRREQ, handleRREP and handleHello).
NextHopAdjacent ==
    \A n, d \in Node : routes[n][d].known => Adjacent(n, routes[n][d].next)

\* There is a walk of h hops from n to d.
Reaches(n, d, h) ==
    \E p \in [0 .. h -> Node] :
        p[0] = n /\ p[h] = d /\ \A i \in 0 .. h - 1 : Adjacent(p[i], p[i + 1])

\* The metric of an entry is the length of a way to its destination that exists and
\* starts with the next hop, whatever mixture of requests, replies, gratuitous
\* replies, hellos and stale packets it was learnt from (the updates of handleRREQ,
\* handleRREP and handleHelloMessage): a hop count is never less than the distance,
\* and a metric of one is only that of a neighbour.
HopCountSound ==
    \A n, d \in Node :
        routes[n][d].known => /\ routes[n][d].hops > 0
                              /\ Reaches(routes[n][d].next, d, routes[n][d].hops - 1)

\* No RREP-ACK is ever sent: sendRREP asks for one only where the metric to the
\* originator is one, so that it addresses the originator itself, and only a router
\* that passes a RREP on acknowledges it (handleRREP).  handleRREPACK never runs.
NoRrepAckSent == ~InFlight({"RREPACK"})

\* As long as no entry is deleted, the next hop of a route is the destination or
\* knows a next hop itself: a reply always finds its way back (the reverse route
\* looked up in handleRREP).
NextHopKnows ==
    (\A k \in {"expunge", "reboot"} : budget[k] = Budget[k]) =>
        \A n, d \in Node : LET m == routes[n][d].next
                           IN routes[n][d].known => m = d \/ routes[m][d].known

\* An active route never carries a destination sequence number that its
\* destination has not reached: what a link break adds to a number stays with
\* inactive entries until the destination itself has counted up (handleRREQ,
\* handleRREP, handleLinkBreakSendRERR).
SeqNotAhead ==
    \A n, d \in Node :
        IsActive(routes[n], d) /\ routes[n][d].valid
            => routes[n][d].seq <= sequenceNum[d]

\* Two requests on the air with the same originator and ID are copies of one
\* request, so that the duplicate check of handleRREQ drops nothing but copies.
RreqIdUnique ==
    \A f, h \in {x \in air : Body(x).type = "RREQ"} :
        RreqKey(Body(f)) = RreqKey(Body(h)) =>
            Body(f).dest = Body(h).dest /\ Body(f).origSeq = Body(h).origSeq

\* No router has seen a RREQ ID its originator has yet to use ("A sequence number
\* uniquely identifying the particular RREQ", AodvControlPackets.msg): the next
\* request is not taken for a duplicate.
RreqIdsFresh == \A n \in Node : \A k \in seen[n] : k[2] <= rreqId[k[1]]

\* A delayed datagram always has a discovery with a scheduled timer behind it, so
\* that it is sent or dropped in the end (delayDatagram, startRouteDiscovery,
\* handleWaitForRREP).
QueuedMeansSearching == \A n \in Node : \A g \in delayed[n] : wait[n][g.dst].armed

\* The retries of a discovery are those at the largest TTL, and never step over
\* the value that handleWaitForRREP compares them with for equality.
RetriesBounded ==
    \A n, d \in Node :
        /\ wait[n][d].retries <= RreqRetries
        /\ wait[n][d].retries > 0 => wait[n][d].lastTTL = NetDiameter

\* No nodes send each other datagrams for d in a circle ("it helps to prevent loops
\* in the routes", the comment on sequenceNum in Aodv.h).
RoutesLoopFree ==
    \A d \in Node : \A S \in SUBSET (Node \ {d}) \ {{}} :
        \E n \in S : IsActive(routes[n], d) => routes[n][d].next \notin S

-----------------------------------------------------------------------------
\* Action properties

\* A RERR lists no destination that its sender has an active route to once it has
\* been sent, with one exception: the lost neighbour itself, to which there may be a
\* way over somebody else (handleLinkBreakSendRERR lists it whatever its next hop is,
\* and handleRERR fills its list in another way).
RerrTruthful ==
    [][\A h \in air' \ air : Body(h).type = "RERR" =>
          \A d \in Body(h).dests : IsActive(routes'[h.from], d) =>
              /\ routes'[h.from][d].next # d
              /\ \E f \in air : /\ f.from = h.from
                                /\ f.dgram.dst \in Node
                                /\ routes[h.from][f.dgram.dst].next = d]_vars

\* When a frame could not be sent to the next hop, no active route over that next
\* hop is left (the list of unreachable destinations of handleLinkBreakSendRERR).
LinkBreakCleans ==
    [][\A f \in air :
          LinkBreak(f, FALSE) /\ routes[f.from][f.dgram.dst].next = f.to
             => ActiveVia(routes'[f.from], f.to) = {}]_vars

-----------------------------------------------------------------------------
\* Liveness

\* Every datagram arrives unless a frame is lost or an entry expires on the way,
\* although the discoveries of several nodes cross (all handlers of RREQ and RREP
\* together).
Delivery == \A g \in Flow : g \in sent ~> (g \in delivered \/ budget # Budget)

\* A delayed datagram leaves the queue: it is sent, or dropped when the retries
\* are exhausted (handleWaitForRREP).
DatagramsLeaveQueue ==
    \A g \in Flow : \A n \in Node : g \in delayed[n] ~> g \notin delayed[n]
=============================================================================
