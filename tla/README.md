# A verification project for MeshPi-Tools

MeshPi-Tools holds the software of a mesh of autonomous rovers: set-up scripts for the
ad-hoc interface (`src/Mesh`), prototypes of neighbour discovery (`src/Network/Python`) and a
copy of the inetmanet-4.x simulation library (`src/omnetpp`), in which the mesh is to be
tested. The scripts let a rover route by OLSR (`olsrd.conf`) or batman-adv, the simulations by
AODV. The specifications in this directory model, from the library, what a rover's packet
meets on its way: the routing protocols AODV (`inet/routing/aodv`) and OLSR
(`inet/routing/extras/olsr`), the resolution of addresses (`inet/networklayer/arp/ipv4`, with the
packets that wait for it in `Ipv4.cc`) and a wireless MAC with acknowledgements on its radio
(`inet/linklayer/csmaca`, `inet/physicallayer`); and, from the rovers' own code, the neighbour
discovery. In the sections on AODV, line numbers without a file are those of `Aodv.cc`.

## Inventory

| Component | State | Operations | Interacts with |
|---|---|---|---|
| Aodv: route discovery | own sequence number, RREQ ID, seen RREQs, one timer and one retry counter per destination, RREQs in this second | `ensureRouteForDatagram`, `sendRREQ`, `handleRREQ`, `handleRREP`, `handleWaitForRREP` | other routers by RREQ and RREP; IPv4 by hooks; the table |
| Aodv: delayed datagrams | `targetAddressToDelayedPackets` | delay, reinject (`completeRouteDiscovery`), drop (`cancelRouteDiscovery`) | IPv4, which keeps the datagram queued meanwhile |
| Aodv: routing table entries | next hop, metric, sequence number and its validity, active flag, precursors, lifetime | `createRoute`, `updateRoutingTable`, `expungeRoutes` | every handler |
| Aodv: link breaks and errors | RERRs in this second | `receiveSignal`, `handleLinkBreakSendRERR`, `handleRERR` | the MAC by `linkBrokenSignal`, other routers by RERR |
| Aodv: neighbours | `failedNextHop`, blacklist, two timers | Hello, RREP-ACK, their time-outs | `handleRREQ` ignores blacklisted senders |
| Aodv: life cycle | `rebootTime` | start, stop, crash, `clearState` | everything above |
| INET: OLSR | link, neighbour, 2-hop, MPR, selector, topology and duplicate set, ANSN, message buffer, routing table, a timer for each tuple | `send_hello`, `send_tc`, `send_pkt`, `recv_olsr`, `link_sensing`, `mpr_computation`, `rtable_computation`, `forward_default`, `nb_loss` | other routers by HELLO and TC |
| INET: ARP and waiting packets | the ARP cache with retries and timers; `pendingPackets` in `Ipv4` | `resolveL3Address`, `processArpPacket`, `requestTimedOut`, `updateArpCache`, `flush` | `Ipv4` by two signals, other hosts by requests and replies |
| INET: CSMA/CA MAC and radio | state machine, current frame, queue, back-off, retries, timers; radio mode, what is received | `handleUpperPacket`, `handleWithFsm`, `sendDataFrame`, `sendAckFrame`; `startReception`, `endReception`, `endTransmission` | the network layer above, other stations by signals |
| INET: life cycle of MAC and radio | whether a station is up | stop, crash, start | state machine and timers of the MAC |
| Neighbour discovery | the class-level table of `meshTool` and its counter | `meshHello`, `addHost`, `displayHosts`; the responder loop | multicast UDP |
| Packet serializer, sample clients and servers, set-up scripts, the rest of INET | | | not modelled, see below |

What is hard: routers act concurrently and only see each other by packets that are lost,
delayed and overtaken by timers; discoveries of several routers cross and write the same
entries; entries are written by seven handlers under different conditions; link breaks are
reported although only an acknowledgement was lost; a router restarts with an empty table and
counters at zero in a network that remembers it; rate limits and lifetimes cut a handler short.
Stations of a radio network do not all hear each other, and their acknowledgements say neither
who sent them nor what they are for. Two modules keep tables of the same addresses and only
signals keep these equal. OLSR keeps seven tables whose tuples run out at different times, in an order
that follows from when which message came.
`PROJECT.json` lists the hazards with their lines and the properties that catch them.

What makes each component correct:

* AODV entries name a neighbour and a metric that is the length of an existing way over it
  (`NextHopAdjacent`, `HopCountSound`), their next hops know the way on (`NextHopKnows`), they do
  not form loops (`RoutesLoopFree`), and they are not ahead of the sequence number of their
  destination (`SeqNotAhead`);
* a discovery sends requests that are told apart by originator and ID (`RreqIdUnique`,
  `RreqIdsFresh`), bounded in number (`RetriesBounded`), and ends: a delayed datagram always has a
  timer behind it (`QueuedMeansSearching`) and leaves the queue (`DatagramsLeaveQueue`), and without
  disturbances it is delivered (`Delivery`);
* route errors list what is unreachable (`RerrTruthful`) and a link break leaves no route over the
  link (`LinkBreakCleans`);
* the acknowledgement of a RREP that should keep a neighbour off the blacklist is never sent
  (`NoRrepAckSent`);
* OLSR routers take a link for symmetric only if both ends know it (`SymIsMutual`), their tables agree
  with each other (`NeighborsHaveLinks`, `AnsnNamesSelectors`), a TC reaches everybody (`FloodSpec`, and
  `Complete` of `Flood`), when all TCs have spread the routes are shortest paths (`CalmRoutes`), and in the end
  all have them (`Converges`);
* packets wait for an address only while somebody looks for it (`WaitingMeansPending`), leave in
  order (`InOrder`), are dropped only with a cause (`FailuresHaveCauses`) and do not wait for ever
  (`NothingWaitsForever`);
* a MAC is never left without the event it waits for (`NeverStuck`), what counts as acknowledged has
  arrived (`AckMeansDelivered`), every frame is settled (`EveryFrameSettled`), and together the stations
  are what a network layer takes for a hop (`HopSpec`), also when they go down (`NoRuntimeError`);
* the table of the neighbour discovery lists the replies that came (`OneRowPerReply`,
  `CounterMatchesTable`), and a call ends (`HelloEnds`).

## Modules

| Module | Models |
|---|---|
| `RouteTable` | one router's table of AODV entries and the rules by which handlers change it |
| `Aodv` | a network of routers: every handler, timer and hook of `Aodv.cc`, the frames between them, and the properties |
| `MCAodv` | topologies, traffic and budgets for TLC |
| `AodvProofs` | theorems about the tables and packets of `Aodv` with their proofs |
| `AodvDiscoveryProofs` | theorems about its discoveries: requests, numbers, queues, route errors |
| `OlsrRouter` | the tables of one OLSR router and what the handlers do with them |
| `Olsr` | a network of OLSR routers: messages, timers, failing links, and the properties |
| `Flood` | abstract: a message passed on by relays reaches everybody |
| `FloodProofs` | the proof that it does |
| `MCOlsr` | networks to start from, for TLC |
| `OlsrProofs` | theorems about `Olsr` with their proofs, and the proof that it implements `Flood` |
| `Arp` | hosts on one link: `Arp.cc` and the packets that wait in `Ipv4.cc` |
| `MCArp`, `ArpProofs` | an instance for TLC; theorems with their proofs |
| `CsmaCaMac` | stations on a shared medium: MAC and radio |
| `Hop` | abstract: what a link layer with acknowledgements promises |
| `MCCsmaCaMac`, `CsmaCaMacProofs` | an instance for TLC; theorems with their proofs |
| `HopProofs` | the proof that `CsmaCaMac` implements `Hop` |
| `CsmaCaLifecycle`, `MCCsmaCaLifecycle` | `CsmaCaMac` with stations that go down and come up |
| `MeshTool` | a program that calls `meshHello` and the stations that answer |
| `MeshToolProofs` | theorems about its table with their proofs |

`Aodv` EXTENDS `RouteTable` and `Olsr` EXTENDS `OlsrRouter`, the tables of one router. `CsmaCaMac` implements `Hop` and `Olsr` implements
`Flood`, each by a refinement mapping in the detailed module. The layers are not composed in one model: `Aodv` keeps of the
MAC what `Hop` promises, but for two things, and of `Arp` that the next hop has an address. The two: a frame may arrive
twice at a hop, because a retransmission is not told from the first, while a frame of `Aodv` arrives once; and the hop keeps the order of
the frames of one station, while the frames of `Aodv` have no order, since each router sends after a jitter.

### Aodv

A step is one handler run to its end: an OMNeT++ simulation handles one event at a time, and
nothing in `Aodv.cc` waits inside a handler. State of the code and of the model:

| Code | Model |
|---|---|
| routing table with `AodvRouteData` | `routes[n][d]`, a record; `known` says whether there is a route |
| `sequenceNum`, `rreqId`, `rreqCount`, `rerrCount` | variables of the same names |
| `rreqsArrivalTime` | `seen[n]`, the keys |
| `waitForRREPTimers`, `addressToRreqRetries` | `wait[n][d]`: registered, last TTL, retries, timer scheduled |
| `targetAddressToDelayedPackets` | `delayed[n]` |
| `blacklist`, `failedNextHop`, the two timers | variables; a timer is whether it is scheduled |
| `rebootTime + deletePeriod` | `settled[n]` |
| datagrams from `socket.send` or an application to the local-out hook | `udp` |
| frames in the air, jitter included | `air` |

Handlers and actions:

| Code | Actions |
|---|---|
| local-out hook | `SendDatagram`, `QueueDatagram` |
| prerouting and forward hook | `ForwardDatagram`, `QueueForwarded` |
| `handleRREQ` | `IgnoreRREQ`, `DiscardRREQ`, `AnswerRREQ`, `SuppressRREP`, `AnswerForDestination`, `ForwardRREQ` |
| `handleRREP` | `ForwardRREP`, `AcceptRREP`, `LateRREP`, `HandleHello` |
| `handleRREPACK`, `handleRERR` | the same names |
| `receiveSignal` | `LinkBreak` |
| `handleWaitForRREP` | `CancelRouteDiscovery`, `RetryRREQ` |
| other timers | `HandleRREPACKTimer`, `HandleBlackListTimer`, `ExpungeRoutes`, `SendHelloMessages`, `CounterTimer` |
| life cycle | `Reboot`, `RebootWaitOver` |
| outside the module | `AppSend`, `DeliverData`, `LoseBroadcast`, `LinkDown` |

Abstractions:

* Time. A scheduled timer may fire at any moment. With `Prompt = TRUE` the time-outs outlast what
  they wait for, as the defaults in `Aodv.ned` make them: a discovery timer fires only when no RREQ or RREP is
  on its way, the RREP-ACK timer only when no RREP or RREP-ACK is, and an entry does not expire in the
  same instant in which its router sends over it. The run `untimed` and the proofs do without.
* Lifetimes. `expungeRoutes` is applied to any non-empty set of entries; every other assignment of a
  lifetime is left out. `seen` is never forgotten: `PATH_DISCOVERY_TIME` is not modelled.
* `air` and `udp` are sets: two equal packets on the same way at the same time count as one. There
  is no order between frames.
* IPv4. A unicast frame goes to the next hop of the entry (also an inactive one cannot be used: the
  hook delays the datagram). The IP TTL is modelled for RREQs only. A reinjected datagram goes
  straight on (`Ipv4.cc` 1202-1222). A host that stops loses its routes (`Ipv4RoutingTable.cc` 787-800).
* The MAC gives up a unicast frame and reports the broken link with the datagram when the link is
  down, or, for a budget, when the frame or only its acknowledgement was lost.
* All routers have the same parameters and one interface; the table has host routes of AODV only.
* Stop, or crash, and start are one step. What was in the air stays there.
* A failure to resolve an address drops the datagram without a link break (`Ipv4.cc` 1126); the model has it as no
  event of its own.
* `HandleRREPACK` is the translation of `handleRREPACK`, but no run takes it and none could: no RREP-ACK is ever sent
  (`RrepAckNeverSent`).
* The branch of the forward hook that reports a missing route (1557-1581) has no action: the
  prerouting hook has delayed such a datagram before. The TTL that `ensureRouteForDatagram` derives from an inactive entry has no
  effect in the code either (`sendRREQ` uses it only if the discovery is already registered).

### OLSR

A router is a record of its tables; an operator of `OlsrRouter` takes them and returns the new ones, as a
handler of `Olrs.cc` does.

| Code | Model |
|---|---|
| `linkset_` | `links[m]`: known, `sym_time` and `asym_time` still to come, `first_time_` of its timer |
| `nbset_` | `nbset`, in its order, and `status` |
| `nb2hopset_`, `mprset_`, `mprselset_`, `ansn_` | `nb2hop`, `mprset`, `mprsel`, `ansn` modulo 2^16 |
| `topologyset_`, `dupset_` | `topology`; `dup`, the originators whose present TC is noted |
| `msgs_` | `msgs` |
| `rtable_` | `rt`, a set of routes |

| Code | Operators and actions |
|---|---|
| `Olsr_HelloTimer::expire`, `send_hello` | `SendHello`, `HelloMsg`, `LinkCode` |
| `Olsr_TcTimer::expire`, `send_tc` | `SendTc`, `TcMsg` |
| `Olsr_MsgTimer::expire`, `send_pkt`, and `recv_olsr` at each receiver | `SendPkt`, `RecvOlsr`, `HandleMsg` |
| `link_sensing`, `populate_nbset`, `populate_nb2hopset`, `populate_mprselset` | `LinkSensing`, `PopulateNb2hopset`, `PopulateMprselset` |
| `mpr_computation`, `rtable_computation` | `MprComputation`, `RtableComputation` |
| `process_tc`, `forward_default` | `ProcessTc`, `ForwardDefault` |
| `Olsr_LinkTupleTimer`, `nb_loss`, `rm_link_tuple` | `NeighborTimers`, `RemoveLink` |
| `Olsr_Nb2hopTupleTimer`, `Olsr_MprSelTupleTimer`, `Olsr_TopologyTupleTimer` | `Nb2hopTimer`, `MprSelTimer`, `TopologyTimer` |

Abstractions:

* No clock. Holding times are three intervals, so a tuple may expire once nothing refreshes it any more, and not before.
  The symmetric time of a link, the 2-hop tuples and the selection of that neighbour, refreshed by the same
  HELLOs, run out in one step (`HoldTimeOver`). A TC has left the buffers before its originator sends the next, so
  the duplicate set is the set of originators.
* A transmission reaches all routers in range at once; none is lost. A link that fails fails in both directions and for good.
* One interface per router, hence no MID, and one packet takes the whole buffer (`send_pkt` splits at four messages, which these
  networks do not exceed). `use_mac` is off, as by default. The TTL of 255 is never used up. Willingness does not change.
* Of several equal routes a router has the one that the order of its tables gives; the model keeps all in `rt` and takes any.
* `computeDistributionPath` and the counters are statistics.

### ARP

A host stands for its IP and its MAC address, because it has one interface. `arpCache[h][x]` is the entry of `h` for `x`
(none, pending, valid, expired, with retries and timer), `pendingPackets[h][x]` is the queue in `Ipv4`, `net` the bag of ARP packets on
their way. Signals are procedure calls, so the step that completes or gives up a resolution also empties the queue
in `Ipv4`.

| Code | Actions |
|---|---|
| `Ipv4::sendDatagramToOutput`, `Arp::resolveL3Address`, `initiateArpResolution` | `SendDatagramToOutput` |
| `requestTimedOut`, `arpResolutionTimedOut` | `Resend`, `ResolutionFails` |
| `processArpPacket`, `updateArpCache`, `arpResolutionCompleted` | `ProcessArpPacket` |
| `flush` of both modules, `handleStartOperation` | `GoDown`, `GoUp` |
| `cacheTimeout` | `Expire` |

The retry timer outlasts an answer, unless a setback is spent: a setback is a lost ARP packet or an answer that comes too late. Proxy ARP needs
a second interface; the gratuitous request and the probe have no caller.

### CSMA/CA

`mac[n]` is the state machine of `CsmaCaMac.cc` with its current frame, queue, back-off, retries and timers; `mode`, `heard`, `rx` and
`spoiled` are the radio. `signal[n]` is the frame that `n` transmitted last, `coming` tells whom it has not reached. A step is one simulator event with all the calls inside
it: what the radio signals to the MAC, and the second run of the state machine that `handleWithFsm` adds when it ends in IDLE.

| Code | Actions |
|---|---|
| `handleUpperPacket` | `UpperPacket` |
| timers in `handleWithFsm` | `EndDifs`, `EndBackoff`, `EndSifs`, `GiveUpTransmission`, `RetryTransmission` |
| `Radio::startReception`, `mediumStateChange` | `SignalStarts` |
| `Radio::endReception`, `handleLowerPacket` and the transitions of RECEIVE, WAITACK, WAITSIFS | `EndUnused`, `ReceiveAck`, `ReceiveNothing`, `ReceiveData` |
| `Radio::endTransmission`, transitions of TRANSMIT | `TransmitUnacknowledged`, `TransmitUnicast`, `AckTransmitted` |

Abstractions: periods are not numbers, so every order of timers that no rule forbids is possible. What is kept of time: a signal reaches everybody in
range before its sender can send again, and `ackTimeout` outlasts an acknowledgement that is being made, since it is
computed from the gap, the acknowledgement and twice the propagation. A signal that overlaps another at a receiver may spoil it or not; noise spoils
one for a budget. The queue is not limited.

`CsmaCaLifecycle` adds what a stop or crash does to MAC and radio: the MAC first and then the radio, in one event, of which
every change runs the state machine of the MAC once more. A runtime error is the variable `failed`.

`Hop`: each station has its frames in order; the first may arrive, more than once, until it is acknowledged, which
takes that it has arrived, or reported broken, which may happen either way.

### MeshTool

The program calls `meshHello` up to `MaxRounds` times. The table and its counter belong to the class,
so they survive a call. Stations answer each HELLO they get once. A reply that comes after the socket
was closed is lost. `addHost` with the table full raises `IndexError`: phase `raised`.

## Runs

Bounds. Three routers are the least number with an intermediate router, or a hidden station, and a triangle the least
topology with two ways to a destination. Sequence numbers, IDs and hop counts are bounded by the traffic (one or two
datagrams), the retries and the budget. A budget says how often something may happen that the protocol does not
cause: a lost frame, a failing link, an expiry, a Hello, a second that passes, a reboot, noise. OLSR needs
four routers for a relay that has itself been relayed to, and for a ring in which a TC comes by two ways. Its tables are finite, so its timers are
not bounded at all. The definitions are in the `MC` modules and the constants in the `.cfg` files.

| Run | Instance | Checks |
|---|---|---|
| `live` | line, two crossing discoveries, one loss, destination only, fairness | `SeqNotAhead`, `Delivery`, `DatagramsLeaveQueue` |
| `triangle` | triangle, one datagram, one link failure, one expiry | `RreqIdsFresh`, `SeqNotAhead`, `NextHopKnows`, `RerrTruthful` |
| `untimed` | line, rings 1, 2, 3, timers at any moment | `TypeOK`, `RreqIdUnique`, `QueuedMeansSearching`, `RetriesBounded` |
| `reboot` | line, two datagrams in a row, one reboot, Hello, gratuitous RREP, counters | `NextHopAdjacent`, `HopCountSound`, `NoRrepAckSent` |
| `olsr` | a line that meets, a pair that meets and parts, a line and a triangle that lose a link, a longer line and a ring that flood; fairness | `TypeOK`, `NeighborsHaveLinks`, `SymIsMutual`, `AnsnNamesSelectors`, `CalmRoutes`, `FloodSpec`, `Converges` |
| `arp` | three hosts, two flows of which one is answered by overhearing, two setbacks, one outage, fairness | `TypeOK`, `WaitingMeansPending`, `InOrder`, `FailuresHaveCauses`, `NothingWaitsForever` |
| `csmaca` | two hidden stations send three unicast frames and a broadcast, one retry, one noise, fairness | `TypeOK`, `NeverStuck`, `AckMeansDelivered`, `EveryFrameSettled`, `HopSpec` |
| `meshtool` | three stations, three calls, four columns, fairness | `TypeOK`, `OneRowPerReply`, `CounterMatchesTable`, `HelloEnds` |

`CHECK_DEADLOCK FALSE` is in all runs but `olsr`, where HELLOs never end: a network whose frames are delivered or
dropped has nothing left to do (timers that only repeat themselves are bounded by the budget), and neither has a program after its last call.

`QueuedMeansSearching` holds below the rate limit only: with `RreqRatelimit` = 1 TLC finds a datagram that is
delayed while `sendRREQ` returns at 295 before the timer exists. The repository does not say that this should not happen, so it is no
run. In the same way `RreqIdsFresh` holds as long as nobody restarts. In `live` only destinations answer requests, which keeps
the state graph small enough for the check of liveness; intermediate routers answer in `triangle`, `untimed` and `reboot`.

Runs that end with a counterexample, each against a sentence of the repository:

| Run | Property | What happens |
|---|---|---|
| `loop` | `RoutesLoopFree` | a link fails, an entry is deleted, and a delayed RREP is accepted because the previous-hop update (583) has marked the newer number invalid: two routers point at each other |
| `linkbreak` | `LinkBreakCleans` | the entry of the neighbour has been deleted, so `handleLinkBreakSendRERR` returns at 1074 and leaves the routes over it active |
| `csmacalife` | `NoRuntimeError` | a stop or crash (`CsmaCaMac.cc` 662-672) forgets frames and back-off but neither the state machine nor its timers: an assertion fails when the radio goes off, or a timer fires in a module that is down |
| `meshtoolfull` | `LooksForAllResponses` | the fifth reply raises `IndexError` |

Fairness is what the simulator gives: events that are scheduled happen. `Aodv`: a datagram in `udp`
reaches the hook, a frame is received or given up, a discovery timer that stays scheduled fires; nothing
of applications, expiry, failures or reboots. `CsmaCaMac`: weak fairness of the timers and transmissions of each station and of each
signal, not of the network layer. `Arp`: weak fairness of the retry timer and of each packet on its way. `Olsr`: every router again and again has a HELLO
in its buffer, a TC while it has selectors, an empty buffer, and no tuple that is overdue; its timers are periodic and
rescheduled whenever they fire. `MeshTool`: a call of `recvfrom` returns a reply that is there, and times out when there is none.

`Converges` is about routers that still hear somebody. A router that loses its only neighbour may keep the route to it: the first time the
symmetric time of a link runs out, `Olsr_LinkTupleTimer` only clears `first_time_` and does not call `nb_loss` (`Olrs.cc` 205), and
`rm_link_tuple` computes no routes.

## Proofs

Proved for every set of nodes, finite or not (OLSR: finite, `NodeAssumption`, since its loops must end), every topology and
traffic and every value of the parameters that meets the named assumptions of the modules. Each module has an inductive
invariant, lemmas that every action keeps it, and theorems that follow.

`AodvProofs`:

* `TypeCorrect`: `Spec => []TypeOK`. It includes that no RREQ is sent with TTL 0, which
  `sendAODVPacket` asserts.
* `NextHopsAreNeighbors`: `Spec => []NextHopAdjacent`.
* `HopCountsAreWalks`: `Spec => []HopCountSound`.
* `RrepAckNeverSent`: `Spec => []NoRrepAckSent`.

The inductive invariant is `Inv == TypeOK /\ GoodNetwork`. `GoodNetwork` says that every entry is good
(next hop in radio range, metric the length of a walk over it along the links the network was built with), that
every control packet tells its receivers of a walk (a RREQ to its originator, a RREP or Hello to its
destination, of as many hops as it says, from the node that sent it) and asks only an originator for a RREP-ACK,
and that every frame goes to a neighbour. The part about packets is what makes it inductive: an entry is good because the packet it was
learnt from was, and a reply of an intermediate router is because its entry was. Links that fail do not
matter, since the walk is one of the original network. The lemmas go bottom up: walks, table
operators, packets, one lemma per handler, then the cases of `Next`. `Invariance` is the theorem the four rest on.

That the walk starts with the next hop is what shows that RREP-ACKs do not exist: a metric of one means that the next
hop is the destination, `sendRREP` (366) asks for an acknowledgement at a metric of one only, so it asks the originator of the
request, and the originator is not in the branch of `handleRREP` (681-685) that acknowledges.
So a neighbour that asked for a route ends on the blacklist although its RREP arrived.

`AodvDiscoveryProofs` goes another way than one lemma per invariant and action: two lemmas, proved action by action, say all that a
step may do, and the invariants follow from these alone. `EntriesStep` says that an entry stays, becomes inactive, is learnt
from a packet that its router receives in this step, or is deleted; `PacketsStep` that a packet is an old one, passed on, or new, and then what its
sender knew.

* `NumbersAreReached` (`SeqNotAhead`), `IdsAreFresh` (`RreqIdsFresh`) and `IdsAreUnique` (`RreqIdUnique`), each as long as no router has
  restarted (`Unrebooted`): a restarted router counts from the beginning while others remember its old numbers, and the properties are
  false. Their invariant is `Numbers`: no request or reply tells a number of its originator or destination that this one has
  not reached. What makes it hold although link breaks count up the numbers of others is that a number counted up belongs to
  an inactive entry, and that an inactive entry is told only as the number that a request asks for; the destination catches up with that
  number before it answers (`handleRREQ`).
* `NextHopsKnow` (`NextHopKnows`, as long as no entry is deleted): by `Telling`, whoever tells of a node has an entry for it.
* `RetriesAreBounded` (`RetriesBounded`): `handleWaitForRREP` compares both the last TTL with `NetDiameter` and the counter with its limit for
  equality, so a ring that reaches `NetDiameter` must not grow on from there. It does not if
  `TtlThreshold <= NetDiameter + TtlIncrement`; `Aodv.ned` has 7, 35 and 2.
* `QueuedIsSearchedFor` (`QueuedMeansSearching`): `Spec /\ []BelowRate`, that is, unless a router reaches its limit of requests;
  at the limit the property is false, see above.
* `RerrsAreTruthful` (`RerrTruthful`). The exception in the property was found by its proof: `handleLinkBreakSendRERR` puts the lost
  neighbour on the list (1079-1084) whenever its entry is active, also when the entry goes over another next hop, and then does not
  invalidate it. The comment above (1058-1068) says that the entry of each destination on the list is marked invalid. It takes four
  routers, more than a run has room for.

`CsmaCaMacProofs`: `TypeCorrect`, `NeverStuckTheorem`, `AckMeansDeliveredTheorem`. The inductive invariant is `TypeOK /\ StationInv /\
SignalInv /\ DataInv /\ AckInv /\ AckMeansDelivered`. `StationInv` ties each state of the machine to its timer, its frame and
its radio mode; `SignalInv` says that a signal on the medium has a sender in the state that sent it; `DataInv` and
`AckInv` that an acknowledgement in the making or on the medium answers the frame its receiver has been waiting with since. This
last part is why an acknowledgement without numbers is enough: the station it is for waits, and can have sent
nothing else since, because its time-out outlasts the answer. The assumption of `AnswerUnderway` carries the theorem.

`HopProofs`: `HopImplemented`, that `Spec` of `CsmaCaMac` implies `HopSpec` if acknowledgements are used. On top of the
invariant of `CsmaCaMacProofs` it needs that a station holds each frame once and only what it has accepted (`Held`), that a data
frame in the air is the first of its sender or already settled (`Carried`), and that nobody waits for the acknowledgement of a broadcast
(`NoBroadcastWaits`). Each action then is a step of `Hop` or leaves its variables as they are: the arrival of a unicast frame comes
before it is settled by `DataInv`, a frame settled by an acknowledgement has been delivered by `AckInv`, and all others
only move a frame between queue and state machine. `Hop` states no fairness, so the theorem has none to carry over.

`ArpProofs`: `TypeCorrect`, `WaitingMeansPendingTheorem`, `InOrderTheorem`, `FailuresHaveCausesTheorem`. The invariant is
`TypeOK /\ WaitingMeansPending /\ OrderInv`; `OrderInv` says that for each flow the numbers grow over what has been sent followed by
what waits, and stay below the next one. An entry that is not pending has nothing waiting, so a packet that is sent at once overtakes
none. For `FailuresHaveCauses` it needs `CauseInv`: as long as no host has been down, the setbacks met so far are at least the
retries of any resolution, and one more if no answer to it is under way (`AnswerUnderway`: a request or a reply on its way between the
two). So a resolution that times out without an answer under way has met a setback in each of its attempts, and an answer that is under way can be
missed only by spending one more.

`FloodProofs`: `CompleteTheorem`, that a message nobody transmits any more has reached everyone connected to its origin. The invariant is that
each router without the message that has a neighbour with it also has one that will still transmit it (`Bridged`). A relay that
heard the message first from somebody who did not choose it transmits nothing, but then somebody else covers its neighbours: this is the point at which
the rule of `forward_default`, by which a message is noted when it first comes, could have broken the flooding.

`MeshToolProofs`: `TypeCorrect`, `OneRowPerReplyTheorem`, `CounterMatchesTableTheorem`. The invariant is their conjunction with
`OneAnswerPerHello`, that a station has answered or has still to answer at most one HELLO of each call. Since the columns with a host
are those before the counter, `addHost` writes to an empty one and adds exactly one row.

`OlsrProofs`: `TypeCorrect`, `NeighborsHaveLinksTheorem`, `SymIsMutualTheorem`, `AnsnNamesSelectorsTheorem`, `MprsCover`,
`FloodImplemented`, `TcsAreComplete`, `RoutesAreShortest`.

* Recursion. `mpr_computation`, `rtable_computation` and the loop of `recv_olsr` over a packet are loops, in the model recursive functions over the
  subsets of a finite set or over numbers. A lemma for each shows that the function exists; what it computes follows by induction on sets
  of numbers or of sets (`Induction`, `Smallest`, from `WFMin`).
* `MprsCover`: the relays are symmetric neighbours and reach every 2-hop neighbour that is to be covered (`StrictTwoHop`). The loop of step 4 ends because
  as long as a tuple is left, its first router is a neighbour with a reachability above zero, so the best provider exists, and
  choosing it removes a tuple.
* The invariant `IInv` is `TypeOK`, that links are heard in both directions (`Mutual`), that link set and neighbour set are about the same
  neighbours (`Linked`), `SymIsMutual`, and `HelloInv`: a HELLO in a buffer lists only neighbours its originator has a link tuple
  of, as long as they hear each other. `SymIsMutual` needs the last part, because a router takes a link for symmetric on the word of a HELLO that may have waited since. All actions are
  summed up in `Step`, what one router does in `Moved`.
* `AnsnNamesSelectors` is proved of behaviours in which no number comes round (`NoWrapStep`): with 65536 sets of selectors while somebody remembers the
  first one, it is false, and the code has nothing against it but time. The number `initialize` starts from is -1 in 16 bits, the greatest, so
  what counts is how often it was counted up (`Counted`). A number in a topology tuple or a TC in a buffer is not ahead of its
  originator, and if it is the present one, what it names is still selected (`Past`).
* `FloodImplemented`: `Spec` implies `FloodSpec`. A network is calm if it starts informed and no link of it fails. `CalmInv` says that then every router
  stays `UpToDate`: its tables are those the network would give it, and `mpr_computation` would choose the same relays again. For this the
  choice must depend on nothing but the neighbour and 2-hop sets (`GreedyMprsSame`), so that a HELLO of a router that is up to date changes nothing
  (`NothingNew`) and the only effect of a packet is what its TCs leave in duplicate set and buffer (`Flooded`, by induction over the packet). Hence a
  `SendPkt` with TCs is one `Transmit` of `Flood`, of all messages the router has at once. The initial relays cover their 2-hop neighbours by `MprsCover`. The hypothesis
  is that nobody has willingness `WILL_NEVER`: a router reached only over such neighbours is left out of N2, so it is not covered, as RFC 3626 has it.
* `TcsAreComplete` carries `CompleteTheorem` of `Flood` over: when nobody has the TC of a router in its buffer any more, everyone connected to it
  has had it.
* `RoutesAreShortest`: `CalmRoutes`, in a network where nobody has willingness `WILL_NEVER`. `CalmKnowledge` says that in a calm network a
  TC names all selectors of its originator under its present number, that topology tuples say the same and are complete for every router in the
  duplicate set (`WellInformed`), and that the table of routes is what `rtable_computation` would return again (`Routed`). So no tuple runs out
  (`NothingExpires`), and once the TCs have spread every router has a tuple for each selector in reach (`AllTold`, from `TcsAreComplete`). What
  `rtable_computation` makes of that is an induction over hops: steps 2 and 3 find whoever is at most two hops away (`NearRoutesShortest`), and round h
  of step 4 finds whoever is h + 1 hops away, since such a router has chosen a relay that is one hop nearer (`FartherRoutesShortest`): its neighbour two
  hops nearer is in its N2. The distance is the first number of hops that reaches a router (`DistanceIs`), and a walk as long as there are routers
  reaches nobody new (`WithinEnds`).

`StartAssumption` on the networks that a behaviour starts from says only that they are networks: links between routers that take part, heard in both directions.

What stays with TLC: liveness (`Delivery`, `DatagramsLeaveQueue`, `EveryFrameSettled`, `NothingWaitsForever`, `Converges`, `HelloEnds`), which
needs fairness and `ENABLED`. That OLSR gets from any start, and after a link has failed, to right routes is `Converges`; the theorem is about networks
that know their links. The properties of the four runs that end with a counterexample are false.
`CsmaCaLifecycle` has no theorem, its only property is one of these.

## Not modelled

* `AodvControlPacketsSerializer`: byte layout without state.
* `src/Mesh`: shell commands and the configuration of olsrd and batman-adv, which are not in the repository.
* `sampleClient.py`, `sampleServer.py`, `sampleMultiCastServer.py`: socket samples without state of their own;
  `meshListener` of `TOC-Mesh.py` is never called.
* The rest of INET: a vendored library of several thousand files, of which a simulation of the rovers uses few. Alternatives to what is modelled (other
  routing protocols, other MACs, `OLSR_ETX` and `OlsrOpt`, which derive from `Olrs.cc`), forwarding, fragmentation and multicast in IPv4, transport protocols and applications are left out.
* OLSR: MID, `use_mac`, lost packets and the life cycle (`Olrs.cc` 3158 deletes the timers of tuples it keeps).
* ARP: several interfaces, proxy ARP.
* The stages of a life-cycle operation, and stops that take time.
* AODV: local repair, IPv6 and several interfaces, which `Aodv.cc` does not implement or which only differ in types; overflow of sequence numbers; numeric
  lifetimes, among them the absolute lifetime of a gratuitous RREP (554); the time a router is down.

## Plan

Done, in this order: `MeshTool`, `RouteTable`, `Aodv`, `AodvProofs`; `CsmaCaMac`, `Hop`, `CsmaCaMacProofs`, `CsmaCaLifecycle`;
`Arp`, `ArpProofs`; `OlsrRouter`, `Olsr`, `Flood`, `FloodProofs`; `HopProofs`, `MeshToolProofs`; `AodvDiscoveryProofs`, `OlsrProofs`. Open:

1. OLSR: life cycle, lost packets, and the routes that stay when the last neighbour is lost (`Olrs.cc` 205).
2. A module for AODV lifetimes with a clock, for one router: expiry, deletion, extension while a discovery is going on, the
   absolute lifetime of a gratuitous RREP (554), the blacklist after a restart (1272).
3. AODV: stop and start as two steps, with packets that wait for their jitter while a router is down (116).
4. An abstract specification of one discovery as its originator sees it, implemented by `Aodv`.
5. Frames that arrive twice in `Aodv`, as `Hop` allows.
6. Theorems: that a TC reaches nobody who is not connected to its originator; that a network that has become informed after a failure is as good as a calm one.
