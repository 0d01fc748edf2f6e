-------------------------------- MODULE Olsr --------------------------------
(***************************************************************************)
(* A network of OLSR routers (Olrs.cc): HELLOs, TCs, the buffer they wait  *)
(* in for their jitter, and the timers of the tuples.                      *)
(*                                                                         *)
(* A transmission is heard by all routers in range at once.  There is no   *)
(* clock: a tuple may expire as soon as nothing refreshes it any more, and *)
(* not before, which is what holding times of three intervals are for.     *)
(***************************************************************************)
EXTENDS OlsrRouter

CONSTANT Start   \* where a behaviour starts: the routers that take part, the pairs
                 \* of them that hear each other, how many links will fail, and
                 \* whether the routers are new or have long exchanged HELLOs,
                 \* then late are the <<n, m>> for which the first HELLO of m
                 \* that n heard listed n already

ASSUME StartAssumption ==
    \A st \in Start :
        /\ st.on \subseteq Node
        /\ st.near \subseteq st.on \X st.on
        /\ \A p \in st.near : p[1] # p[2] /\ <<p[2], p[1]>> \in st.near
        /\ st.failures \in Nat
        /\ st.informed \in BOOLEAN
        /\ st.late \subseteq Node \X Node

VARIABLES router,     \* the tables of each router that takes part
          near,       \* the pairs of routers that hear each other
          failures,   \* links that are still to fail
          calm        \* whether the network was informed at the start and stays as it is
vars == <<router, near, failures, calm>>

Routers == DOMAIN router

TcQueued(o) == {n \in Routers : \E i \in DOMAIN router[n].msgs :
                               router[n].msgs[i].type = "TC" /\ router[n].msgs[i].orig = o}
HelloQueued(n) == \E i \in DOMAIN router[n].msgs : router[n].msgs[i].type = "HELLO"

\* What keeps a tuple alive: the HELLOs of m as they are now.
Audible(n, m) == <<n, m>> \in near
Nb2hopRefreshed(n, t) ==
    /\ router[t[1]].links[t[2]].known
    /\ t[2] \in router[t[1]].mprset \/ router[t[1]].status[t[2]] = "sym"
MprselRefreshed(n, m) == n \in router[m].mprset

\* Distances in the network as it is, to the routers that can be reached.
Distance(n) ==
    LET within[h \in 0..Cardinality(Node)] ==
            IF h = 0 THEN {n}
            ELSE LET w == within[h - 1] IN w \cup {p[2] : p \in {q \in near : q[1] \in w}}
    IN  [d \in within[Cardinality(Node)] |->
            CHOOSE h \in 0..Cardinality(Node) :
                d \in within[h] /\ (h = 0 \/ d \notin within[h - 1])]

TopologyRefreshed(n, t) == t.dest \in router[t.last].mprsel /\ t.last \in DOMAIN Distance(n)

-----------------------------------------------------------------------------
\* A router of which the HELLOs have told all there is to tell; order is the one
\* in which it met its neighbours.
Neighbors(n) == {m \in Node : Audible(n, m)}

Orders ==
    {f \in [Node -> UNION {SetToSeqs(Neighbors(n)) : n \in Node}] :
        \A n \in Node : f[n] \in SetToSeqs(Neighbors(n))}

Informed(n, order, late) ==
    LET sym(m) == [known |-> TRUE, sym |-> TRUE, asym |-> TRUE, first |-> <<n, m>> \in late]
    IN  MprComputation(
            [Fresh EXCEPT
                !.links = [m \in Node |-> IF Audible(n, m) THEN sym(m) ELSE NoLink],
                !.nbset = order,
                !.status = [m \in Node |-> IF Audible(n, m) THEN "sym" ELSE "none"],
                !.nb2hop = {t \in near : Audible(n, t[1]) /\ t[2] # n}], n)

Selected(s, n) ==
    LET by == {m \in DOMAIN s : n \in s[m].mprset}
    IN  [s[n] EXCEPT !.mprsel = by, !.ansn = (@ + Cardinality(by)) % (MAX_SEQ_NUM + 1)]

Init ==
    \E st \in Start :
        /\ near = st.near
        /\ failures = st.failures
        /\ calm = (st.informed /\ st.failures = 0)
        /\ \/ ~st.informed /\ router = [n \in st.on |-> Fresh]
           \/ /\ st.informed
              /\ \E order \in Orders :
                    LET s == [n \in st.on |-> Informed(n, order[n], st.late)]
                    IN  router = [n \in st.on |-> RtableComputation(Selected(s, n))]

\* Olsr_HelloTimer: the HELLO before has left the buffer, because the jitter is a
\* quarter of the interval.
SendHello(n) ==
    /\ ~HelloQueued(n)
    /\ router' = [router EXCEPT ![n] = Enqueue(@, HelloMsg(@, n))]
    /\ UNCHANGED <<near, failures, calm>>

\* Olsr_TcTimer: the TC before is no longer on its way, and the number of the new
\* one is in no duplicate set.
SendTc(n) ==
    /\ router[n].mprsel # {}
    /\ TcQueued(n) = {}
    /\ router' = [m \in Routers |->
                    IF m = n THEN Enqueue(router[n], TcMsg(router[n], n))
                    ELSE [router[m] EXCEPT !.dup = @ \ {n}]]
    /\ UNCHANGED <<near, failures, calm>>

\* Olsr_MsgTimer: everything in the buffer goes out.
SendPkt(n) ==
    /\ router[n].msgs # <<>>
    /\ router' = [m \in Routers |->
                    IF m = n THEN [router[n] EXCEPT !.msgs = <<>>]
                    ELSE IF Audible(m, n) THEN RecvOlsr(router[m], m, n, router[n].msgs)
                    ELSE router[m]]
    /\ UNCHANGED <<near, failures, calm>>

NeighborTimers(n, m) ==
    /\ router[n].links[m].sym
    /\ ~Audible(n, m)
    /\ router' = [router EXCEPT ![n] = HoldTimeOver(@, n, m)]
    /\ UNCHANGED <<near, failures, calm>>

RemoveLink(n, m) ==
    /\ router[n].links[m].known
    /\ ~router[n].links[m].sym
    /\ ~Audible(n, m)
    /\ router' = [router EXCEPT ![n] = RmLinkTuple(@, m)]
    /\ UNCHANGED <<near, failures, calm>>

Nb2hopTimer(n, t) ==
    /\ Audible(n, t[1])
    /\ ~Nb2hopRefreshed(n, t)
    /\ router' = [router EXCEPT ![n].nb2hop = @ \ {t}]
    /\ UNCHANGED <<near, failures, calm>>

MprSelTimer(n, m) ==
    /\ m \in router[n].mprsel
    /\ Audible(n, m)
    /\ ~MprselRefreshed(n, m)
    /\ router' = [router EXCEPT ![n] = RmMprselTuple(@, m)]
    /\ UNCHANGED <<near, failures, calm>>

TopologyTimer(n, t) ==
    /\ ~TopologyRefreshed(n, t)
    /\ router' = [router EXCEPT ![n].topology = @ \ {t}]
    /\ UNCHANGED <<near, failures, calm>>

LinkFails(n, m) ==
    /\ failures > 0
    /\ Audible(n, m)
    /\ near' = near \ {<<n, m>>, <<m, n>>}
    /\ failures' = failures - 1
    /\ UNCHANGED <<router, calm>>

TupleTimer(n) ==
    \/ \E m \in Node : NeighborTimers(n, m) \/ RemoveLink(n, m) \/ MprSelTimer(n, m)
    \/ \E t \in router[n].nb2hop : Nb2hopTimer(n, t)
    \/ \E t \in router[n].topology : TopologyTimer(n, t)

Next ==
    \/ \E n \in Routers : SendHello(n) \/ SendTc(n) \/ SendPkt(n) \/ TupleTimer(n)
    \/ \E n, m \in Routers : LinkFails(n, m)

Spec == Init /\ [][Next]_vars

Overdue(n) ==
    \/ \E m \in Node : router[n].links[m].known /\ ~Audible(n, m)
    \/ \E m \in router[n].mprsel : Audible(n, m) /\ ~MprselRefreshed(n, m)
    \/ \E t \in router[n].nb2hop : Audible(n, t[1]) /\ ~Nb2hopRefreshed(n, t)
    \/ \E t \in router[n].topology : ~TopologyRefreshed(n, t)

FairSpec ==
    /\ Spec
    /\ \A n \in Node :
          /\ []<>(n \in Routers => HelloQueued(n))
          /\ []<>(n \in Routers => router[n].msgs = <<>>)
          /\ []<>(n \in Routers => (router[n].mprsel # {} => n \in TcQueued(n)))
          /\ []<>(n \in Routers => ~Overdue(n))

-----------------------------------------------------------------------------
\* Every table holds what its type says, and the neighbour set lists each neighbour
\* with a status once.
TypeOK ==
    /\ Routers \subseteq Node
    /\ router \in [Routers -> Router]
    /\ near \in SUBSET (Routers \X Routers)
    /\ failures \in Nat
    /\ calm \in BOOLEAN
    /\ \A n \in Routers :
          /\ IsInjective(router[n].nbset)
          /\ ToSet(router[n].nbset) = {m \in Node : router[n].status[m] # "none"}

\* A neighbour that counts as symmetric has a link tuple, whatever timers have fired:
\* rtable_computation asserts that it finds a route to the neighbour of a 2-hop tuple.
NeighborsHaveLinks ==
    \A n, m \in Routers : router[n].status[m] = "sym" => router[n].links[m].known

\* A link is taken for symmetric only when the router at its other end knows it as
\* well (link_sensing), in whatever order their HELLOs crossed.
SymIsMutual ==
    \A n, m \in Routers : Audible(n, m) /\ router[n].links[m].sym => router[m].links[n].known

\* An ANSN names one set of selectors: a topology tuple with the present number of its
\* originator is about a router that is still its selector, for process_tc refreshes
\* tuples of the same number without looking whether the TC still lists their router.
AnsnNamesSelectors ==
    \A n \in Routers : \A t \in router[n].topology :
        t.seq = router[t.last].ansn => t.dest \in router[t.last].mprsel

\* The routes of n are shortest paths of the network as it is, and each next hop a
\* router from which the rest of the way is one hop shorter.
RoutesRight(n) ==
    LET dist == Distance(n)
        routes == {r \in router[n].rt : r.dest # n}
    IN  /\ {r.dest : r \in routes} = DOMAIN dist \ {n}
        /\ \A r \in routes : /\ r.dist = dist[r.dest]
                             /\ Audible(n, r.hop)
                             /\ Distance(r.hop)[r.dest] = r.dist - 1

\* Whatever links failed and in whatever order messages and timers came, every router
\* that still hears another one has the right routes in the end and keeps them.
Converges == <>[](\A n \in Routers : Neighbors(n) # {} => RoutesRight(n))

\* A TC of o is known to be on its way or to have come.
Announced(o) == TcQueued(o) # {} \/ \E n \in Routers : o \in router[n].dup

\* In a calm network, once every router that is to send TCs has sent one and no relay
\* holds one back any more, all routers have the right routes: the selectors that the
\* TCs name are all that rtable_computation needs beyond two hops.
CalmRoutes ==
    /\ calm
    /\ \A o \in Routers : router[o].mprsel # {} => Announced(o) /\ TcQueued(o) = {}
    => \A n \in Routers : RoutesRight(n)

\* In a calm network the TCs of a router spread as the relays promise.
Flooding ==
    INSTANCE Flood WITH
        near   <- IF calm THEN near ELSE {},
        relays <- [n \in Node |-> IF calm /\ n \in Routers THEN router[n].mprset ELSE {}],
        got    <- [o \in Node |->
                      IF calm /\ Announced(o) THEN {o} \cup {n \in Routers : o \in router[n].dup} ELSE {}],
        queued <- [o \in Node |-> IF calm THEN TcQueued(o) ELSE {}]
FloodSpec == Flooding!Spec
=============================================================================
