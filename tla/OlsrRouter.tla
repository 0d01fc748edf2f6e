----------------------------- MODULE OlsrRouter -----------------------------
(***************************************************************************)
(* The tables of one OLSR router (Olrs_state.h) and what the handlers of   *)
(* Olrs.cc do with them.  An operator takes the router's tables s and      *)
(* returns the new ones; n is the router's own address.                    *)
(*                                                                         *)
(* A router is a record:                                                   *)
(*   links     the link set: is there a tuple for a neighbour, is its      *)
(*             sym_time / asym_time still to come, and the flag            *)
(*             first_time_ of its timer                                    *)
(*   nbset     the neighbour set, in its order; status holds the states    *)
(*   nb2hop    the 2-hop set: <<m, x>> when m lists x                      *)
(*   mprset, mprsel   the MPRs and the MPR selectors                       *)
(*   ansn      the advertised neighbour sequence number                    *)
(*   topology  the topology set, dup the originators whose present TC      *)
(*             has a duplicate tuple, msgs the buffer msgs_                *)
(*   rt        the routes; of several to one destination the router has    *)
(*             one, by the order of its tables                             *)
(***************************************************************************)
EXTENDS Integers, FiniteSets, Sequences, SequencesExt

CONSTANTS Node,         \* the routers, by their only interface
          Willingness   \* the parameter Willingness of each

ASSUME NodeAssumption == IsFiniteSet(Node)
ASSUME WillingnessAssumption == Willingness \in [Node -> 0..7]

WILL_NEVER == 0
WILL_ALWAYS == 7
MAX_SEQ_NUM == 65535

NoLink == [known |-> FALSE, sym |-> FALSE, asym |-> FALSE, first |-> FALSE]

\* A router as initialize leaves it.
Fresh ==
    [links |-> [m \in Node |-> NoLink], nbset |-> <<>>, status |-> [m \in Node |-> "none"],
     nb2hop |-> {}, mprset |-> {}, mprsel |-> {}, ansn |-> MAX_SEQ_NUM,
     topology |-> {}, dup |-> {}, msgs |-> <<>>, rt |-> {}]

HelloMessage ==
    [type : {"HELLO"}, orig : Node,
     list : SUBSET [addr : Node, link : {"sym", "asym", "lost"}, nb : {"mpr", "sym", "not"}]]
TcMessage == [type : {"TC"}, orig : Node, ansn : 0..MAX_SEQ_NUM, list : SUBSET Node]

Router ==
    [links : [Node -> [known : BOOLEAN, sym : BOOLEAN, asym : BOOLEAN, first : BOOLEAN]],
     nbset : Seq(Node), status : [Node -> {"none", "not", "sym"}],
     nb2hop : SUBSET (Node \X Node), mprset : SUBSET Node, mprsel : SUBSET Node,
     ansn : 0..MAX_SEQ_NUM,
     topology : SUBSET [dest : Node, last : Node, seq : 0..MAX_SEQ_NUM],
     dup : SUBSET Node, msgs : Seq(HelloMessage \cup TcMessage),
     rt : SUBSET [dest : Node, hop : Node, dist : 1..Cardinality(Node) + 1]]

NextAnsn(s) == (s.ansn + 1) % (MAX_SEQ_NUM + 1)

-----------------------------------------------------------------------------
\* mpr_computation

SymNeighbors(s) == {m \in ToSet(s.nbset) : s.status[m] = "sym"}

\* N2: the 2-hop tuples that are to be covered.
StrictTwoHop(s, n) ==
    {t \in s.nb2hop : /\ t[2] # n
                      /\ t[1] \in SymNeighbors(s)
                      /\ Willingness[t[1]] # WILL_NEVER
                      /\ t[2] \notin SymNeighbors(s)}

\* CoverTwoHopNeighbors: what m does not reach remains.
Uncovered(m, two) == {t \in two : <<m, t[2]>> \notin two}

OnlyProviders(two) == {m \in Node : \E t \in two : t[1] = m /\ \A u \in two : u[2] = t[2] => u[1] = m}

Reachability(m, two) == Cardinality({t \in two : t[1] = m})

Degree(s, m) == Cardinality({t \in s.nb2hop : t[1] = m /\ t[2] \notin ToSet(s.nbset)})

\* Step 4.2: willingness first, then reachability, then degree.
Beats(s, two, x, y) ==
    \/ Willingness[x] > Willingness[y]
    \/ /\ Willingness[x] = Willingness[y]
       /\ \/ Reachability(x, two) > Reachability(y, two)
          \/ /\ Reachability(x, two) = Reachability(y, two)
             /\ Degree(s, x) > Degree(s, y)

\* The first of the best in the order of the neighbour set.
BestProvider(s, two) ==
    LET offers(i) == s.nbset[i] \in SymNeighbors(s) /\ Reachability(s.nbset[i], two) > 0
        best == {i \in DOMAIN s.nbset :
                   /\ offers(i)
                   /\ \A j \in DOMAIN s.nbset :
                         offers(j) => ~Beats(s, two, s.nbset[j], s.nbset[i])}
    IN  s.nbset[CHOOSE i \in best : \A j \in best : i <= j]

\* The rest of step 4: as long as something is left, the best provider becomes an MPR.
GreedyMprs(s, rest) ==
    LET greedy[left \in SUBSET rest] ==
            IF left = {} THEN {}
            ELSE LET m == BestProvider(s, left) IN {m} \cup greedy[Uncovered(m, left)]
    IN  greedy[rest]

MprComputation(s, n) ==
    LET always == {m \in SymNeighbors(s) : Willingness[m] = WILL_ALWAYS}
        two == {t \in StrictTwoHop(s, n) : \A m \in always : t \in Uncovered(m, StrictTwoHop(s, n))}
        only == OnlyProviders(two)
        rest == {t \in two : \A m \in only : t \in Uncovered(m, two)}
    IN  [s EXCEPT !.mprset = always \cup only \cup GreedyMprs(s, rest)]

-----------------------------------------------------------------------------
\* rtable_computation

Route(dest, hop, dist) == [dest |-> dest, hop |-> hop, dist |-> dist]

\* Steps 2 and 3.  Of several neighbours that list a router, the willing ones win.
NearRoutes(s) ==
    LET sym == SymNeighbors(s)
        two == {t \in s.nb2hop : t[1] \in sym /\ Willingness[t[1]] # WILL_NEVER /\ t[2] \notin sym}
        best == {t \in two : \A u \in two : u[2] = t[2] => Willingness[u[1]] <= Willingness[t[1]]}
    IN  {Route(m, m, 1) : m \in {k \in sym : s.links[k].known}}
        \cup {Route(t[2], t[1], 2) : t \in best}

\* Step 4 for one h.
\* A plausible bug: the last router before the destination becomes the next hop.
FartherRoutesOverLast(s, rt, h) ==
    LET unreached == {t \in s.topology : \A r \in rt : r.dest # t.dest}
        last == {r \in rt : r.dist = h}
    IN  {Route(p[1].dest, p[1].last, h + 1) : p \in {q \in unreached \X last : q[1].last = q[2].dest}}

FartherRoutes(s, rt, h) ==
    LET unreached == {t \in s.topology : \A r \in rt : r.dest # t.dest}
        last == {r \in rt : r.dist = h}
    IN  {Route(p[1].dest, p[2].hop, h + 1) : p \in {q \in unreached \X last : q[1].last = q[2].dest}}

\* The table with the routes of up to h + 1 hops.
RoutesWithin(s) ==
    LET table[h \in 1..Cardinality(Node)] ==
            IF h = 1 THEN NearRoutes(s)
            ELSE table[h - 1] \cup FartherRoutes(s, table[h - 1], h)
    IN  table

RtableComputation(s) == [s EXCEPT !.rt = RoutesWithin(s)[Cardinality(Node)]]

-----------------------------------------------------------------------------
\* Messages

\* send_hello: how a link is listed.
LinkCode(s, m) ==
    [addr |-> m,
     link |-> IF s.links[m].sym THEN "sym" ELSE IF s.links[m].asym THEN "asym" ELSE "lost",
     nb   |-> IF m \in s.mprset THEN "mpr" ELSE s.status[m]]

HelloMsg(s, n) ==
    [type |-> "HELLO", orig |-> n, list |-> {LinkCode(s, m) : m \in {k \in Node : s.links[k].known}}]

TcMsg(s, n) == [type |-> "TC", orig |-> n, ansn |-> s.ansn, list |-> s.mprsel]

Enqueue(s, msg) == [s EXCEPT !.msgs = Append(@, msg)]

-----------------------------------------------------------------------------
\* process_hello, of the HELLO h from a neighbour

\* A plausible bug: a HELLO that does not list the router still proves the link.
LinkSensingOneWay(s, n, h) ==
    LET m == h.orig
        new == ~s.links[m].known
        mine == {e \in h.list : e.addr = n}
        sym == \A e \in mine : e.link # "lost"
    IN  [s EXCEPT !.links[m] = [known |-> TRUE, asym |-> TRUE, sym |-> sym,
                                first |-> IF new THEN sym ELSE @.first],
                  !.nbset = IF new THEN Append(@, m) ELSE @,
                  !.status[m] = IF sym THEN "sym" ELSE "not"]

\* A plausible bug: every HELLO adds a neighbour tuple.
LinkSensingAdds(s, n, h) ==
    LET m == h.orig
        mine == {e \in h.list : e.addr = n /\ ~(e.link = "sym" /\ e.nb = "not")}
        sym == IF mine = {} THEN s.links[m].sym ELSE \A e \in mine : e.link # "lost"
    IN  [s EXCEPT !.links[m] = [known |-> TRUE, asym |-> TRUE, sym |-> sym,
                                first |-> IF @.known THEN @.first ELSE sym],
                  !.nbset = Append(@, m),
                  !.status[m] = IF sym THEN "sym" ELSE "not"]

\* The timer of a new tuple without symmetric time expires at once and clears
\* first_time_; so a tuple keeps the flag if its first HELLO listed the router.
LinkSensing(s, n, h) ==
    LET m == h.orig
        new == ~s.links[m].known
        mine == {e \in h.list : e.addr = n /\ ~(e.link = "sym" /\ e.nb = "not")}
        sym == IF mine = {} THEN s.links[m].sym ELSE \A e \in mine : e.link # "lost"
    IN  [s EXCEPT !.links[m] = [known |-> TRUE, asym |-> TRUE, sym |-> sym,
                                first |-> IF new THEN sym ELSE @.first],
                  !.nbset = IF new THEN Append(@, m) ELSE @,
                  !.status[m] = IF sym THEN "sym" ELSE "not"]

PopulateNb2hopset(s, n, h) ==
    LET listed == {e.addr : e \in {x \in h.list : x.nb # "not"}} \ {n}
        denied == {e.addr : e \in {x \in h.list : x.nb = "not"}}
    IN  IF s.links[h.orig].sym
        THEN [s EXCEPT !.nb2hop = (@ \cup ({h.orig} \X listed)) \ ({h.orig} \X denied)]
        ELSE s

PopulateMprselset(s, n, h) ==
    IF (\E e \in h.list : e.addr = n /\ e.nb = "mpr") /\ h.orig \notin s.mprsel
    THEN [s EXCEPT !.mprsel = @ \cup {h.orig}, !.ansn = NextAnsn(s)]
    ELSE s

ProcessHello(s, n, h) ==
    PopulateMprselset(MprComputation(PopulateNb2hopset(LinkSensing(s, n, h), n, h), n), n, h)

-----------------------------------------------------------------------------
\* process_tc and forward_default, of a TC passed on by the router from

ProcessTc(s, tc) ==
    LET known == {t \in s.topology : t.last = tc.orig}
        kept == {t \in s.topology : t.last # tc.orig \/ t.seq >= tc.ansn}
        new == tc.list \ {t.dest : t \in known \cap kept}
    IN  IF \E t \in known : t.seq > tc.ansn THEN s
        ELSE [s EXCEPT !.topology =
                kept \cup {[dest |-> d, last |-> tc.orig, seq |-> tc.ansn] : d \in new}]

\* A plausible bug: the originator is looked up among the selectors, not the sender.
ForwardForOriginator(s, from, tc) ==
    LET noted == [s EXCEPT !.dup = @ \cup {tc.orig}]
    IN  IF tc.orig \in s.mprsel THEN Enqueue(noted, tc) ELSE noted

ForwardDefault(s, from, tc) ==
    LET noted == [s EXCEPT !.dup = @ \cup {tc.orig}]
    IN  IF from \in s.mprsel THEN Enqueue(noted, tc) ELSE noted

\* One message of a packet, as recv_olsr handles it.
HandleMsg(s, n, from, msg) ==
    IF msg.orig = n THEN s
    ELSE IF msg.type = "HELLO" THEN ProcessHello(s, n, msg)
    ELSE IF msg.orig \in s.dup \/ ~s.links[from].sym THEN s
    ELSE ForwardDefault(ProcessTc(s, msg), from, msg)

\* The tables after each message of a packet.
AfterMsgs(s, n, from, msgs) ==
    LET after[i \in 0..Len(msgs)] ==
            IF i = 0 THEN s ELSE HandleMsg(after[i - 1], n, from, msgs[i])
    IN  after

RecvOlsr(s, n, from, msgs) == RtableComputation(AfterMsgs(s, n, from, msgs)[Len(msgs)])

-----------------------------------------------------------------------------
\* Timers of the tuples

\* A plausible bug: a lost selector does not count ansn_ up, as erase_mprsel_tuples.
RmMprselTupleSilently(s, m) == [s EXCEPT !.mprsel = @ \ {m}]

RmMprselTuple(s, m) == [s EXCEPT !.mprsel = @ \ {m}, !.ansn = NextAnsn(s)]

\* Nothing has come from m for the holding time: the symmetric time of its link, its
\* selection and the 2-hop tuples it listed are over together.  nb_loss erases the
\* selector without counting ansn_ up, the timer of the erased tuple does.  The
\* first time Olsr_LinkTupleTimer only changes its flag and does not call nb_loss.
HoldTimeOver(s, n, m) ==
    LET silent == [s EXCEPT !.links[m] = [@ EXCEPT !.sym = FALSE, !.asym = FALSE, !.first = FALSE],
                            !.nb2hop = {t \in @ : t[1] # m}]
        unselected == IF m \in s.mprsel THEN RmMprselTuple(silent, m) ELSE silent
    IN  IF s.links[m].first THEN unselected
        ELSE RtableComputation(MprComputation([unselected EXCEPT !.status[m] = "not"], n))

\* A plausible bug: the neighbour tuple survives its link tuple.
RmLinkTupleOnly(s, m) == [s EXCEPT !.links[m] = NoLink]

\* rm_link_tuple, when the time of the tuple itself is over: neither the MPRs nor the
\* routes are computed again.
RmLinkTuple(s, m) ==
    [s EXCEPT !.links[m] = NoLink, !.status[m] = "none", !.nbset = RemoveFirst(@, m)]
=============================================================================
