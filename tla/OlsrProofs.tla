----------------------------- MODULE OlsrProofs -----------------------------
(***************************************************************************)
(* What holds of OLSR in every network: the tables keep their types, links *)
(* are mutual, an ANSN names one set of selectors, and in a network that   *)
(* stays as it is the TCs of every router reach all that are connected and *)
(* make all routes shortest paths.                                         *)
(***************************************************************************)
EXTENDS Olsr, FiniteSetTheorems, TLAPS

-----------------------------------------------------------------------------
\* Numbers

\* Numbers have a least one.
LEMMA Smallest ==
    ASSUME NEW T, T \subseteq Nat, T # {}
    PROVE  \E x \in T : \A y \in T : x <= y
<1> DEFINE R == OpToRel(<, Nat)
<1>1. \E x \in T : \A y \in T : <<y, x>> \notin R
  <2> HIDE DEF R
  <2>1. IsWellFoundedOn(R, Nat)
    BY NatLessThanWellFounded DEF R
  <2> QED
    BY <2>1, WFMin
<1>2. ASSUME NEW x \in Nat, NEW y \in Nat, <<y, x>> \notin R
      PROVE  x <= y
  BY <1>2 DEF OpToRel
<1> QED
  BY <1>1, <1>2

\* Numbers up to a bound have a greatest one.
LEMMA Largest ==
    ASSUME NEW N \in Nat, NEW T, T \subseteq 0 .. N, T # {}
    PROVE  \E x \in T : \A y \in T : y <= x
<1> DEFINE U == {N - x : x \in T}
<1>1. U \subseteq Nat /\ U # {}
  <2>1. \A x \in 0 .. N : N - x \in Nat
    OBVIOUS
  <2> QED
    BY <2>1
<1>2. PICK u \in U : \A v \in U : u <= v
  <2> HIDE DEF U
  <2> QED
    BY <1>1, Smallest
<1>3. PICK x \in T : u = N - x
  BY <1>2
<1>4. \A y \in T : N - x <= N - y
  BY <1>2, <1>3
<1> QED
  BY <1>4

\* A set of numbers with 0 that has the successor of each of its members has them all.
LEMMA Induction ==
    ASSUME NEW T, 0 \in T, \A k \in T : k \in Nat => k + 1 \in T
    PROVE  Nat \subseteq T
<1> SUFFICES ASSUME Nat \ T # {}
             PROVE  FALSE
  OBVIOUS
<1>1. PICK x \in Nat \ T : \A y \in Nat \ T : x <= y
  BY Smallest
<1>2. x # 0 /\ x - 1 \in Nat
  BY <1>1
<1>3. x - 1 \in T
  BY <1>1, <1>2
<1>4. (x - 1) + 1 = x
  BY <1>1
<1> QED
  BY <1>1, <1>2, <1>3, <1>4

-----------------------------------------------------------------------------
\* Recursive definitions: the functions they name exist

\* The tables after i messages are what handling message i makes of those before.
LEMMA AfterMsgsDef ==
    ASSUME NEW s, NEW n, NEW from, NEW msgs, Len(msgs) \in Nat
    PROVE  AfterMsgs(s, n, from, msgs) =
               [i \in 0 .. Len(msgs) |->
                   IF i = 0 THEN s
                   ELSE HandleMsg(AfterMsgs(s, n, from, msgs)[i - 1], n, from, msgs[i])]
<1> DEFINE Is(f, k) ==
             f = [i \in 0 .. k |-> IF i = 0 THEN s ELSE HandleMsg(f[i - 1], n, from, msgs[i])]
           T == {k \in Nat : \E f : Is(f, k)}
<1>1. 0 \in T
  <2>1. Is([i \in 0 .. 0 |-> s], 0)
    OBVIOUS
  <2> QED
    BY <2>1
<1>2. ASSUME NEW k \in T
      PROVE  k + 1 \in T
  <2>1. PICK f : Is(f, k)
    OBVIOUS
  <2> DEFINE g == [i \in 0 .. k + 1 |-> IF i = 0 THEN s ELSE HandleMsg(f[i - 1], n, from, msgs[i])]
  <2>2. \A i \in 0 .. k : g[i] = f[i]
    BY <2>1
  <2>3. Is(g, k + 1)
    <3>1. \A i \in 0 .. k + 1 : i # 0 => g[i - 1] = f[i - 1]
      <4> HIDE DEF g
      <4> QED
        BY <2>2
    <3> QED
      BY <3>1
  <2>4. k + 1 \in Nat
    OBVIOUS
  <2> HIDE DEF Is
  <2> QED
    BY <2>3, <2>4
<1>3. \E f : Is(f, Len(msgs))
  <2> HIDE DEF T
  <2>1. Nat \subseteq T
    BY <1>1, <1>2, Induction
  <2> QED
    BY <2>1 DEF T
<1>4. AfterMsgs(s, n, from, msgs) = CHOOSE f : Is(f, Len(msgs))
  BY DEF AfterMsgs
<1>5. Is(CHOOSE f : Is(f, Len(msgs)), Len(msgs))
  BY <1>3
<1> QED
  BY <1>4, <1>5

\* The routes of up to h + 1 hops come from those of up to h.
LEMMA RoutesWithinDef ==
    ASSUME NEW s, Cardinality(Node) \in Nat
    PROVE  RoutesWithin(s) =
               [h \in 1 .. Cardinality(Node) |->
                   IF h = 1 THEN NearRoutes(s)
                   ELSE RoutesWithin(s)[h - 1] \cup FartherRoutes(s, RoutesWithin(s)[h - 1], h)]
<1> DEFINE Is(f, k) ==
             f = [h \in 1 .. k |-> IF h = 1 THEN NearRoutes(s)
                                   ELSE f[h - 1] \cup FartherRoutes(s, f[h - 1], h)]
           T == {k \in Nat : \E f : Is(f, k)}
<1>1. 0 \in T
  <2>1. Is([h \in 1 .. 0 |-> {}], 0)
    OBVIOUS
  <2> HIDE DEF Is
  <2> QED
    BY <2>1
<1>2. ASSUME NEW k \in T
      PROVE  k + 1 \in T
  <2>1. PICK f : Is(f, k)
    OBVIOUS
  <2> DEFINE g == [h \in 1 .. k + 1 |-> IF h = 1 THEN NearRoutes(s)
                                        ELSE f[h - 1] \cup FartherRoutes(s, f[h - 1], h)]
  <2>2. ASSUME NEW h \in 1 .. k
        PROVE  g[h] = f[h]
    <3>1. f[h] = IF h = 1 THEN NearRoutes(s) ELSE f[h - 1] \cup FartherRoutes(s, f[h - 1], h)
      BY <2>1
    <3>2. h \in 1 .. k + 1
      OBVIOUS
    <3> QED
      BY <3>1, <3>2
  <2>3. Is(g, k + 1)
    <3>1. \A h \in 1 .. k + 1 : h # 1 => g[h - 1] = f[h - 1]
      <4> HIDE DEF g
      <4> QED
        BY <2>2
    <3> QED
      BY <3>1
  <2>4. k + 1 \in Nat
    OBVIOUS
  <2> HIDE DEF Is
  <2> QED
    BY <2>3, <2>4
<1>3. \E f : Is(f, Cardinality(Node))
  <2> HIDE DEF T
  <2>1. Nat \subseteq T
    BY <1>1, <1>2, Induction
  <2> QED
    BY <2>1 DEF T
<1>4. RoutesWithin(s) = CHOOSE f : Is(f, Cardinality(Node))
  BY DEF RoutesWithin
<1>5. Is(CHOOSE f : Is(f, Cardinality(Node)), Cardinality(Node))
  BY <1>3
<1> QED
  BY <1>4, <1>5

-----------------------------------------------------------------------------
\* The choice of the relays

\* Sets of pairs of routers are finite, and so are the counts the choice compares.
LEMMA PairsFinite ==
    ASSUME NEW P, P \subseteq Node \X Node
    PROVE  IsFiniteSet(P) /\ Cardinality(P) \in Nat
  BY NodeAssumption, FS_Product, FS_Subset, FS_CardinalityType

\* A neighbour covers some of what is left if and only if it is the first of a pair.
LEMMA ReachabilityBound ==
    ASSUME NEW P, P \subseteq Node \X Node, NEW m
    PROVE  /\ Reachability(m, P) \in 0 .. Cardinality(P)
           /\ Reachability(m, P) > 0 <=> \E t \in P : t[1] = m
<1> DEFINE Q == {t \in P : t[1] = m}
<1>1. IsFiniteSet(P) /\ Cardinality(P) \in Nat
  BY PairsFinite
<1>2. Q \in SUBSET P
  OBVIOUS
<1>3. IsFiniteSet(Q) /\ Cardinality(Q) \in Nat /\ Cardinality(Q) <= Cardinality(P)
  BY <1>1, <1>2, FS_Subset, FS_CardinalityType
<1>4. Cardinality(Q) = 0 <=> Q = {}
  BY <1>3, FS_EmptySet
<1> QED
  BY <1>1, <1>3, <1>4 DEF Reachability

\* The degree of a neighbour is at most the number of 2-hop tuples.
LEMMA DegreeBound ==
    ASSUME NEW s, s.nb2hop \subseteq Node \X Node, NEW m
    PROVE  Degree(s, m) \in 0 .. Cardinality(s.nb2hop)
<1> DEFINE Q == {t \in s.nb2hop : t[1] = m /\ t[2] \notin ToSet(s.nbset)}
<1>1. IsFiniteSet(s.nb2hop) /\ Cardinality(s.nb2hop) \in Nat
  BY PairsFinite
<1>2. Q \in SUBSET s.nb2hop
  OBVIOUS
<1>3. IsFiniteSet(Q) /\ Cardinality(Q) \in Nat /\ Cardinality(Q) <= Cardinality(s.nb2hop)
  BY <1>1, <1>2, FS_Subset, FS_CardinalityType
<1> QED
  BY <1>1, <1>3 DEF Degree

\* As long as something is left there is a best provider, and it covers some of it.
LEMMA BestProviderCovers ==
    ASSUME NEW s, NEW two, s.nbset \in Seq(Node), s.nb2hop \subseteq Node \X Node,
           two \subseteq Node \X Node, two # {}, \A t \in two : t[1] \in SymNeighbors(s)
    PROVE  /\ BestProvider(s, two) \in SymNeighbors(s)
           /\ \E t \in two : t[1] = BestProvider(s, two)
<1> DEFINE at(i) == s.nbset[i]
           offers(i) == s.nbset[i] \in SymNeighbors(s) /\ Reachability(s.nbset[i], two) > 0
           I == {i \in DOMAIN s.nbset : offers(i)}
           W(i) == Willingness[at(i)]
           R(i) == Reachability(at(i), two)
           D(i) == Degree(s, at(i))
<1>1. \A i \in DOMAIN s.nbset : /\ at(i) \in Node
                                /\ W(i) \in 0 .. 7
                                /\ R(i) \in 0 .. Cardinality(two)
                                /\ D(i) \in 0 .. Cardinality(s.nb2hop)
  <2> SUFFICES ASSUME NEW i \in DOMAIN s.nbset
               PROVE  /\ at(i) \in Node
                      /\ W(i) \in 0 .. 7
                      /\ R(i) \in 0 .. Cardinality(two)
                      /\ D(i) \in 0 .. Cardinality(s.nb2hop)
    OBVIOUS
  <2>1. at(i) \in Node
    OBVIOUS
  <2>2. W(i) \in 0 .. 7
    BY <2>1, WillingnessAssumption
  <2>3. R(i) \in 0 .. Cardinality(two)
    BY ReachabilityBound
  <2>4. D(i) \in 0 .. Cardinality(s.nb2hop)
    BY DegreeBound
  <2> QED
    BY <2>1, <2>2, <2>3, <2>4
<1>2. Cardinality(two) \in Nat /\ Cardinality(s.nb2hop) \in Nat
  BY PairsFinite
<1>3. I # {}
  <2>1. PICK t \in two : TRUE
    OBVIOUS
  <2>2. PICK i \in DOMAIN s.nbset : at(i) = t[1]
    BY <2>1 DEF SymNeighbors, ToSet
  <2>3. offers(i)
    BY <2>1, <2>2, ReachabilityBound
  <2> QED
    BY <2>3
<1> DEFINE best == {i \in DOMAIN s.nbset :
                      /\ offers(i)
                      /\ \A j \in DOMAIN s.nbset :
                            offers(j) => ~Beats(s, two, s.nbset[j], s.nbset[i])}
<1>4. best # {}
  <2> HIDE DEF W, R, D, offers
  <2> DEFINE I1 == {i \in I : \A j \in I : W(j) <= W(i)}
             I2 == {i \in I1 : \A j \in I1 : R(j) <= R(i)}
             I3 == {i \in I2 : \A j \in I2 : D(j) <= D(i)}
  <2>1. I1 # {}
    <3> DEFINE T == {W(i) : i \in I}
    <3>1. T \subseteq 0 .. 7 /\ T # {}
      BY <1>1, <1>3
    <3>2. PICK x \in T : \A y \in T : y <= x
      <4> HIDE DEF T
      <4> QED
        BY <3>1, Largest
    <3> QED
      BY <3>2
  <2>2. I2 # {}
    <3> DEFINE T == {R(i) : i \in I1}
    <3>1. T \subseteq 0 .. Cardinality(two) /\ T # {}
      BY <1>1, <2>1
    <3>2. PICK x \in T : \A y \in T : y <= x
      <4> HIDE DEF T
      <4> QED
        BY <1>2, <3>1, Largest
    <3> QED
      BY <3>2
  <2>3. I3 # {}
    <3> DEFINE T == {D(i) : i \in I2}
    <3>1. T \subseteq 0 .. Cardinality(s.nb2hop) /\ T # {}
      BY <1>1, <2>2
    <3>2. PICK x \in T : \A y \in T : y <= x
      <4> HIDE DEF T
      <4> QED
        BY <1>2, <3>1, Largest
    <3> QED
      BY <3>2
  <2>4. PICK i \in I3 : TRUE
    BY <2>3
  <2>5. ASSUME NEW j \in I
        PROVE  ~Beats(s, two, at(j), at(i))
    <3>1. W(i) \in Nat /\ W(j) \in Nat /\ R(i) \in Nat /\ R(j) \in Nat /\ D(i) \in Nat /\ D(j) \in Nat
      <4>1. i \in I /\ j \in I
        OBVIOUS
      <4>2. ASSUME NEW k \in I
            PROVE  W(k) \in Nat /\ R(k) \in Nat /\ D(k) \in Nat
        <5>1. k \in DOMAIN s.nbset
          OBVIOUS
        <5> HIDE DEF I
        <5> QED
          BY <1>1, <1>2, <5>1
      <4> HIDE DEF I
      <4> QED
        BY <4>1, <4>2
    <3>2. W(j) <= W(i)
      OBVIOUS
    <3>3. W(j) = W(i) => j \in I1 /\ R(j) <= R(i)
      BY <3>1
    <3>4. W(j) = W(i) /\ R(j) = R(i) => j \in I2 /\ D(j) <= D(i)
      BY <3>1, <3>3
    <3> HIDE DEF I1, I2, I3, I
    <3> QED
      BY <3>1, <3>2, <3>3, <3>4 DEF Beats, W, R, D
  <2> QED
    BY <2>4, <2>5 DEF offers
<1>5. \E i \in best : \A j \in best : i <= j
  <2>1. best \subseteq Nat
    OBVIOUS
  <2> HIDE DEF best
  <2> QED
    BY <1>4, <2>1, Smallest
<1> DEFINE first == CHOOSE i \in best : \A j \in best : i <= j
<1>6. first \in best
  <2> HIDE DEF best
  <2> QED
    BY <1>5
<1>7. BestProvider(s, two) = s.nbset[first]
  BY DEF BestProvider
<1>8. offers(first)
  <2> HIDE DEF first, offers
  <2> QED
    BY <1>6
<1> HIDE DEF first
<1> QED
  BY <1>7, <1>8, ReachabilityBound

\* The best provider covers part of what is left, so that less remains.
LEMMA BestProviderStep ==
    ASSUME NEW s, NEW left, s.nbset \in Seq(Node), s.nb2hop \subseteq Node \X Node,
           left \subseteq Node \X Node, left # {}, \A t \in left : t[1] \in SymNeighbors(s)
    PROVE  LET m == BestProvider(s, left)
           IN  /\ m \in SymNeighbors(s)
               /\ Uncovered(m, left) \in SUBSET left
               /\ \A t \in left : t \in Uncovered(m, left) \/ <<m, t[2]>> \in left
               /\ Cardinality(Uncovered(m, left)) < Cardinality(left)
<1> DEFINE m == BestProvider(s, left)
           rest == Uncovered(m, left)
<1>1. m \in SymNeighbors(s) /\ \E t \in left : t[1] = m
  BY BestProviderCovers
<1>2. rest = {t \in left : <<m, t[2]>> \notin left}
  BY DEF Uncovered
<1>3. PICK t \in left : t[1] = m
  BY <1>1
<1>4. t = <<t[1], t[2]>>
  OBVIOUS
<1>5. t \notin rest
  BY <1>2, <1>3, <1>4
<1>6. rest \in SUBSET left /\ rest # left
  BY <1>2, <1>5
<1>7. /\ IsFiniteSet(left) /\ Cardinality(left) \in Nat
      /\ Cardinality(rest) \in Nat
  BY <1>6, PairsFinite
<1>8. Cardinality(rest) <= Cardinality(left) /\ Cardinality(left) # Cardinality(rest)
  BY <1>6, <1>7, FS_Subset
<1>9. \A x \in left : x \in rest \/ <<m, x[2]>> \in left
  BY <1>2
<1> HIDE DEF rest
<1>10. Cardinality(rest) < Cardinality(left)
  BY <1>7, <1>8
<1> QED
  BY <1>1, <1>6, <1>9, <1>10 DEF rest

\* G tells for each rest of N2 which MPRs the loop adds.
IsGreedy(s, rest, G) ==
    \A left \in SUBSET rest :
        G[left] = IF left = {} THEN {}
                  ELSE {BestProvider(s, left)} \cup G[Uncovered(BestProvider(s, left), left)]

\* The while loop of mpr_computation does what its definition says: it ends.
LEMMA GreedyMprsDef ==
    ASSUME NEW s, NEW rest, s.nbset \in Seq(Node), s.nb2hop \subseteq Node \X Node,
           rest \subseteq Node \X Node, \A t \in rest : t[1] \in SymNeighbors(s)
    PROVE  \E G : GreedyMprs(s, rest) = G[rest] /\ IsGreedy(s, rest, G)
<1> DEFINE M(left) == BestProvider(s, left)
           U(left) == Uncovered(M(left), left)
           Small(k) == {l \in SUBSET rest : Cardinality(l) <= k}
           Is(g, S) == g = [left \in S |-> IF left = {} THEN {} ELSE {M(left)} \cup g[U(left)]]
           T == {k \in Nat : \E g : Is(g, Small(k))}
<1>1. ASSUME NEW left \in SUBSET rest
      PROVE  /\ IsFiniteSet(left) /\ Cardinality(left) \in Nat
             /\ Cardinality(left) = 0 <=> left = {}
  BY PairsFinite, FS_EmptySet
<1>2. ASSUME NEW left \in SUBSET rest, left # {}
      PROVE  U(left) \in SUBSET left /\ Cardinality(U(left)) < Cardinality(left)
  <2>1. left \subseteq Node \X Node /\ \A t \in left : t[1] \in SymNeighbors(s)
    OBVIOUS
  <2> QED
    BY <1>2, <2>1, BestProviderStep
<1> HIDE DEF M, U
<1>3. 0 \in T
  <2>1. \A l \in Small(0) : l = {}
    BY <1>1
  <2>2. Is([l \in Small(0) |-> {}], Small(0))
    <3> HIDE DEF Small
    <3> QED
      BY <2>1
  <2> HIDE DEF Is
  <2> QED
    BY <2>2
<1>4. ASSUME NEW k \in T
      PROVE  k + 1 \in T
  <2>1. PICK f : Is(f, Small(k))
    OBVIOUS
  <2>2. k \in Nat /\ k + 1 \in Nat
    OBVIOUS
  <2> DEFINE g == [left \in Small(k + 1) |-> IF left = {} THEN {} ELSE {M(left)} \cup f[U(left)]]
  <2>3. ASSUME NEW left \in Small(k)
        PROVE  left \in Small(k + 1) /\ g[left] = f[left]
    <3>1. left \in SUBSET rest /\ Cardinality(left) \in Nat
      BY <1>1
    <3>2. left \in Small(k + 1)
      BY <2>2, <3>1
    <3>3. f[left] = IF left = {} THEN {} ELSE {M(left)} \cup f[U(left)]
      <4> HIDE DEF Small
      <4> QED
        BY <2>1
    <3> HIDE DEF Small
    <3> QED
      BY <3>2, <3>3
  <2>4. ASSUME NEW left \in Small(k + 1), left # {}
        PROVE  U(left) \in Small(k)
    <3>1. left \in SUBSET rest /\ Cardinality(left) <= k + 1
      OBVIOUS
    <3>2. U(left) \in SUBSET rest /\ Cardinality(U(left)) < Cardinality(left)
      BY <1>2, <2>4, <3>1
    <3>3. Cardinality(left) \in Nat /\ Cardinality(U(left)) \in Nat
      BY <1>1, <3>1, <3>2
    <3>4. Cardinality(U(left)) <= k
      BY <2>2, <3>1, <3>2, <3>3
    <3> QED
      BY <3>2, <3>4
  <2>5. Is(g, Small(k + 1))
    <3>1. \A left \in Small(k + 1) : left # {} => g[U(left)] = f[U(left)]
      <4> HIDE DEF g, Small
      <4> QED
        BY <2>3, <2>4
    <3> HIDE DEF Small
    <3> QED
      BY <3>1
  <2> HIDE DEF Is
  <2> QED
    BY <2>2, <2>5
<1>5. \E g : Is(g, SUBSET rest)
  <2>1. Cardinality(rest) \in T
    <3> HIDE DEF T
    <3>1. Nat \subseteq T
      BY <1>3, <1>4, Induction
    <3> QED
      BY <1>1, <3>1
  <2>2. Small(Cardinality(rest)) = SUBSET rest
    <3>1. \A l \in SUBSET rest : Cardinality(l) <= Cardinality(rest)
      BY <1>1, FS_Subset
    <3> QED
      BY <3>1
  <2> HIDE DEF Small, Is
  <2> QED
    BY <2>1, <2>2
<1> DEFINE G == CHOOSE g : Is(g, SUBSET rest)
<1>6. GreedyMprs(s, rest) = G[rest]
  BY DEF GreedyMprs, M, U
<1>7. Is(G, SUBSET rest)
  <2> HIDE DEF Is
  <2> QED
    BY <1>5
<1> HIDE DEF G
<1>8. \A left \in SUBSET rest : G[left] = IF left = {} THEN {} ELSE {M(left)} \cup G[U(left)]
  BY <1>7
<1>9. IsGreedy(s, rest, G)
  BY <1>8 DEF IsGreedy, M, U
<1> QED
  BY <1>6, <1>9

\* It leaves nothing uncovered.
LEMMA GreedyMprsCover ==
    ASSUME NEW s, NEW rest, s.nbset \in Seq(Node), s.nb2hop \subseteq Node \X Node,
           rest \subseteq Node \X Node, \A t \in rest : t[1] \in SymNeighbors(s)
    PROVE  /\ GreedyMprs(s, rest) \subseteq SymNeighbors(s)
           /\ \A t \in rest : \E m \in GreedyMprs(s, rest) : <<m, t[2]>> \in rest
<1> DEFINE M(left) == BestProvider(s, left)
           U(left) == Uncovered(M(left), left)
<1>1. ASSUME NEW left \in SUBSET rest
      PROVE  Cardinality(left) \in Nat
  BY PairsFinite
<1>2. ASSUME NEW left \in SUBSET rest, left # {}
      PROVE  /\ M(left) \in SymNeighbors(s)
             /\ U(left) \in SUBSET left
             /\ \A t \in left : t \in U(left) \/ <<M(left), t[2]>> \in left
             /\ Cardinality(U(left)) < Cardinality(left)
  <2>1. left \subseteq Node \X Node /\ \A t \in left : t[1] \in SymNeighbors(s)
    OBVIOUS
  <2> QED
    BY <1>2, <2>1, BestProviderStep
<1>5. PICK G : GreedyMprs(s, rest) = G[rest] /\ IsGreedy(s, rest, G)
  BY GreedyMprsDef
<1>6. \A left \in SUBSET rest : G[left] = IF left = {} THEN {} ELSE {M(left)} \cup G[U(left)]
  BY <1>5 DEF IsGreedy
<1> HIDE DEF M, U
<1> DEFINE Good(l) == /\ G[l] \subseteq SymNeighbors(s)
                      /\ \A t \in l : \E m \in G[l] : <<m, t[2]>> \in l
           Bad == {l \in SUBSET rest : ~Good(l)}
           Sizes == {Cardinality(l) : l \in Bad}
<1>8. ASSUME Bad # {}
      PROVE  FALSE
  <2>1. Sizes \subseteq Nat /\ Sizes # {}
    BY <1>1, <1>8
  <2>2. PICK x \in Sizes : \A y \in Sizes : x <= y
    <3> HIDE DEF Sizes
    <3> QED
      BY <2>1, Smallest
  <2>3. PICK l \in Bad : x = Cardinality(l)
    BY <2>2
  <2>4. l \in SUBSET rest /\ ~Good(l)
    OBVIOUS
  <2>5. G[l] = IF l = {} THEN {} ELSE {M(l)} \cup G[U(l)]
    BY <1>6, <2>4
  <2>6. l # {}
    BY <2>4, <2>5
  <2>7. U(l) \in SUBSET l /\ Cardinality(U(l)) < Cardinality(l)
    BY <1>2, <2>4, <2>6
  <2>8. Cardinality(U(l)) \in Nat /\ Cardinality(l) \in Nat
    BY <1>1, <2>4, <2>7
  <2>9. U(l) \notin Bad
    <3>1. U(l) \in Bad => Cardinality(l) <= Cardinality(U(l))
      BY <2>2, <2>3
    <3> QED
      BY <2>7, <2>8, <3>1
  <2>10. Good(U(l))
    BY <2>4, <2>7, <2>9
  <2>11. G[l] = {M(l)} \cup G[U(l)] /\ M(l) \in SymNeighbors(s)
    BY <1>2, <2>4, <2>5, <2>6
  <2>12. ASSUME NEW t \in l
         PROVE  \E m \in G[l] : <<m, t[2]>> \in l
    <3>1. CASE t \in U(l)
      BY <2>7, <2>10, <2>11, <3>1
    <3>2. CASE t \notin U(l)
      BY <1>2, <2>4, <2>6, <2>11, <3>2
    <3> QED
      BY <3>1, <3>2
  <2> QED
    BY <2>4, <2>10, <2>11, <2>12
<1>9. Good(rest)
  BY <1>8
<1> QED
  BY <1>5, <1>9

\* The relays depend on the neighbours and their 2-hop tuples only.
LEMMA GreedyMprsSame ==
    ASSUME NEW s, NEW u, s.nbset = u.nbset, s.status = u.status, s.nb2hop = u.nb2hop,
           NEW rest, s.nbset \in Seq(Node), s.nb2hop \subseteq Node \X Node,
           rest \subseteq Node \X Node, \A t \in rest : t[1] \in SymNeighbors(s)
    PROVE  GreedyMprs(u, rest) = GreedyMprs(s, rest)
<1>1. SymNeighbors(s) = SymNeighbors(u)
  BY DEF SymNeighbors
<1>2. \A m : Degree(s, m) = Degree(u, m)
  BY DEF Degree
<1>3. \A two, x, y : Beats(s, two, x, y) <=> Beats(u, two, x, y)
  BY <1>2 DEF Beats
<1>4. ASSUME NEW two
      PROVE  BestProvider(s, two) = BestProvider(u, two)
  <2> DEFINE offers(v, i) == v.nbset[i] \in SymNeighbors(v) /\ Reachability(v.nbset[i], two) > 0
             best(v) == {i \in DOMAIN v.nbset :
                           /\ offers(v, i)
                           /\ \A j \in DOMAIN v.nbset :
                                 offers(v, j) => ~Beats(v, two, v.nbset[j], v.nbset[i])}
  <2>1. best(s) = best(u)
    BY <1>1, <1>3
  <2>2. /\ BestProvider(s, two) = s.nbset[CHOOSE i \in best(s) : \A j \in best(s) : i <= j]
        /\ BestProvider(u, two) = u.nbset[CHOOSE i \in best(u) : \A j \in best(u) : i <= j]
    BY DEF BestProvider
  <2> HIDE DEF best
  <2> QED
    BY <2>1, <2>2
<1> DEFINE M(left) == BestProvider(s, left)
           U(left) == Uncovered(M(left), left)
<1>5. PICK G : GreedyMprs(s, rest) = G[rest] /\ IsGreedy(s, rest, G)
  BY GreedyMprsDef
<1>6. PICK H : GreedyMprs(u, rest) = H[rest] /\ IsGreedy(u, rest, H)
  BY <1>1, GreedyMprsDef
<1>7. ASSUME NEW left \in SUBSET rest
      PROVE  /\ Cardinality(left) \in Nat
             /\ left # {} => U(left) \in SUBSET rest /\ Cardinality(U(left)) < Cardinality(left)
  <2>1. left \subseteq Node \X Node /\ \A t \in left : t[1] \in SymNeighbors(s)
    OBVIOUS
  <2>2. Cardinality(left) \in Nat
    BY <2>1, PairsFinite
  <2>3. left # {} => U(left) \in SUBSET left /\ Cardinality(U(left)) < Cardinality(left)
    BY <2>1, BestProviderStep
  <2> QED
    BY <2>2, <2>3
<1> HIDE DEF M, U
<1> DEFINE Bad == {l \in SUBSET rest : G[l] # H[l]}
           Sizes == {Cardinality(l) : l \in Bad}
<1>8. ASSUME Bad # {}
      PROVE  FALSE
  <2>1. Sizes \subseteq Nat /\ Sizes # {}
    BY <1>7, <1>8
  <2>2. PICK x \in Sizes : \A y \in Sizes : x <= y
    <3> HIDE DEF Sizes
    <3> QED
      BY <2>1, Smallest
  <2>3. PICK l \in Bad : x = Cardinality(l)
    BY <2>2
  <2>4. l \in SUBSET rest /\ G[l] # H[l]
    OBVIOUS
  <2>5. /\ G[l] = IF l = {} THEN {} ELSE {M(l)} \cup G[U(l)]
        /\ H[l] = IF l = {} THEN {} ELSE {M(l)} \cup H[U(l)]
    <3>1. G[l] = IF l = {} THEN {} ELSE {M(l)} \cup G[U(l)]
      BY <1>5, <2>4 DEF IsGreedy, M, U
    <3>2. H[l] = IF l = {} THEN {}
                 ELSE {BestProvider(u, l)} \cup H[Uncovered(BestProvider(u, l), l)]
      BY <1>6, <2>4 DEF IsGreedy
    <3>3. BestProvider(u, l) = M(l) /\ Uncovered(BestProvider(u, l), l) = U(l)
      BY <1>4 DEF M, U
    <3> QED
      BY <3>1, <3>2, <3>3
  <2>6. l # {} /\ G[U(l)] # H[U(l)]
    BY <2>4, <2>5
  <2>7. U(l) \in SUBSET rest /\ Cardinality(U(l)) < Cardinality(l)
    BY <1>7, <2>4, <2>6
  <2>8. U(l) \in Bad
    BY <2>6, <2>7
  <2>9. Cardinality(l) <= Cardinality(U(l))
    BY <2>2, <2>3, <2>8
  <2> QED
    BY <1>7, <2>4, <2>7, <2>9
<1>9. G[rest] = H[rest]
  BY <1>8
<1> QED
  BY <1>5, <1>6, <1>9

\* mpr_computation changes nothing but the MPRs.  They are symmetric neighbours, and cover
\* every router that is to be covered: some MPR lists it.
THEOREM MprsCover ==
    ASSUME NEW s, NEW n, s.nbset \in Seq(Node), s.nb2hop \subseteq Node \X Node
    PROVE  \E mprs \in SUBSET SymNeighbors(s) :
              /\ MprComputation(s, n) = [s EXCEPT !.mprset = mprs]
              /\ \A t \in StrictTwoHop(s, n) : \E m \in mprs : <<m, t[2]>> \in StrictTwoHop(s, n)
<1> DEFINE strict == StrictTwoHop(s, n)
           always == {m \in SymNeighbors(s) : Willingness[m] = WILL_ALWAYS}
           two == {t \in strict : \A m \in always : t \in Uncovered(m, strict)}
           only == OnlyProviders(two)
           rest == {t \in two : \A m \in only : t \in Uncovered(m, two)}
           mprs == always \cup only \cup GreedyMprs(s, rest)
<1>1. MprComputation(s, n) = [s EXCEPT !.mprset = mprs]
  BY DEF MprComputation
<1>2. strict \subseteq Node \X Node /\ \A t \in strict : t[1] \in SymNeighbors(s)
  BY DEF StrictTwoHop
<1>3. rest \subseteq two /\ two \subseteq strict
  OBVIOUS
<1>4. /\ GreedyMprs(s, rest) \subseteq SymNeighbors(s)
      /\ \A t \in rest : \E m \in GreedyMprs(s, rest) : <<m, t[2]>> \in rest
  <2>1. rest \subseteq Node \X Node /\ \A t \in rest : t[1] \in SymNeighbors(s)
    BY <1>2, <1>3
  <2> HIDE DEF rest
  <2> QED
    BY <2>1, GreedyMprsCover
<1>5. only \subseteq SymNeighbors(s)
  BY <1>2, <1>3 DEF OnlyProviders
<1>6. mprs \in SUBSET SymNeighbors(s)
  BY <1>4, <1>5
<1>7. ASSUME NEW t \in strict
      PROVE  \E m \in mprs : <<m, t[2]>> \in strict
  <2>1. CASE t \notin two
    <3>1. PICK m \in always : t \notin Uncovered(m, strict)
      BY <2>1
    <3> QED
      BY <3>1 DEF Uncovered
  <2>2. CASE t \in two /\ t \notin rest
    <3>1. PICK m \in only : t \notin Uncovered(m, two)
      BY <2>2
    <3>2. <<m, t[2]>> \in two
      BY <2>2, <3>1 DEF Uncovered
    <3> HIDE DEF two
    <3> QED
      BY <1>3, <3>2
  <2>3. CASE t \in rest
    BY <1>3, <1>4, <2>3
  <2> QED
    BY <2>1, <2>2, <2>3
<1> HIDE DEF strict, mprs
<1> QED
  BY <1>1, <1>6, <1>7 DEF strict

-----------------------------------------------------------------------------
\* The tables of one router

Entry == [known : BOOLEAN, sym : BOOLEAN, asym : BOOLEAN, first : BOOLEAN]

\* The link set and the neighbour set are about the same neighbours, and a link that is
\* symmetric has a tuple.
Linked(s) ==
    /\ IsInjective(s.nbset)
    /\ ToSet(s.nbset) = {m \in Node : s.status[m] # "none"}
    /\ \A m \in Node : /\ s.links[m].known <=> s.status[m] # "none"
                       /\ s.links[m].sym => s.links[m].known

WellFormed(s) == s \in Router /\ Linked(s)

\* mpr_computation keeps a router well-formed and changes its MPRs only.
LEMMA MprComputationType ==
    ASSUME NEW s, WellFormed(s), NEW n
    PROVE  /\ WellFormed(MprComputation(s, n))
           /\ \E mprs \in SUBSET Node : MprComputation(s, n) = [s EXCEPT !.mprset = mprs]
<1>1. s.nbset \in Seq(Node) /\ s.nb2hop \subseteq Node \X Node
  BY DEF WellFormed, Router
<1>2. PICK mprs \in SUBSET SymNeighbors(s) : MprComputation(s, n) = [s EXCEPT !.mprset = mprs]
  BY <1>1, MprsCover
<1>3. mprs \in SUBSET Node
  BY <1>1 DEF SymNeighbors, ToSet
<1>4. [s EXCEPT !.mprset = mprs] \in Router
  BY <1>3 DEF WellFormed, Router
<1>5. Linked([s EXCEPT !.mprset = mprs])
  BY DEF WellFormed, Linked, Router
<1> QED
  BY <1>2, <1>3, <1>4, <1>5 DEF WellFormed

\* Routes lead to routers, over routers, in as many hops as there may be.
RouteOf(h) == [dest : Node, hop : Node, dist : 1 .. h + 1]

LEMMA RoutesWithinType ==
    ASSUME NEW s, WellFormed(s), NEW n \in Node
    PROVE  RoutesWithin(s)[Cardinality(Node)] \subseteq RouteOf(Cardinality(Node))
<1> DEFINE N == Cardinality(Node)
           T == {h \in Nat : h \in 1 .. N => RoutesWithin(s)[h] \subseteq RouteOf(h)}
<1>1. N \in Nat /\ N # 0
  BY NodeAssumption, FS_CardinalityType, FS_EmptySet
<1>2. /\ s.nb2hop \subseteq Node \X Node /\ s.nbset \in Seq(Node)
      /\ s.topology \subseteq [dest : Node, last : Node, seq : 0..MAX_SEQ_NUM]
  BY DEF WellFormed, Router
<1>3. SymNeighbors(s) \subseteq Node
  BY <1>2 DEF SymNeighbors, ToSet
<1>4. NearRoutes(s) \subseteq RouteOf(1)
  <2>1. \A m \in Node : Route(m, m, 1) \in RouteOf(1)
    BY DEF Route, RouteOf
  <2>2. \A m, k \in Node : Route(m, k, 2) \in RouteOf(1)
    BY DEF Route, RouteOf
  <2> QED
    BY <1>2, <1>3, <2>1, <2>2 DEF NearRoutes
<1>5. ASSUME NEW h \in 2 .. N, NEW rt, rt \subseteq RouteOf(h - 1)
      PROVE  rt \cup FartherRoutes(s, rt, h) \subseteq RouteOf(h)
  <2>1. rt \subseteq RouteOf(h)
    BY <1>1, <1>5 DEF RouteOf
  <2>2. ASSUME NEW p \in s.topology \X rt
        PROVE  Route(p[1].dest, p[2].hop, h + 1) \in RouteOf(h)
    <3>1. p[1].dest \in Node
      BY <1>2
    <3>2. p[2].hop \in Node
      BY <1>5 DEF RouteOf
    <3> QED
      BY <3>1, <3>2 DEF Route, RouteOf
  <2>3. FartherRoutes(s, rt, h) \subseteq RouteOf(h)
    BY <2>2 DEF FartherRoutes
  <2> QED
    BY <2>1, <2>3
<1>6. RoutesWithin(s) =
         [h \in 1 .. N |-> IF h = 1 THEN NearRoutes(s)
                           ELSE RoutesWithin(s)[h - 1] \cup FartherRoutes(s, RoutesWithin(s)[h - 1], h)]
  BY <1>1, RoutesWithinDef
<1>7. 0 \in T
  BY <1>1
<1>8. ASSUME NEW k \in T
      PROVE  k + 1 \in T
  <2>1. k + 1 \in Nat
    OBVIOUS
  <2>2. ASSUME k + 1 \in 1 .. N
        PROVE  RoutesWithin(s)[k + 1] \subseteq RouteOf(k + 1)
    <3>1. CASE k = 0
      <4>1. RoutesWithin(s)[1] = NearRoutes(s)
        BY <1>6, <2>2, <3>1
      <4> QED
        BY <1>4, <3>1, <4>1
    <3>2. CASE k # 0
      <4>1. k \in 1 .. N /\ k + 1 \in 2 .. N /\ (k + 1) - 1 = k
        <5> HIDE DEF N
        <5>1. k \in Nat
          OBVIOUS
        <5> HIDE DEF T
        <5> QED
          BY <1>1, <2>2, <3>2, <5>1
      <4>2. RoutesWithin(s)[k + 1] =
               RoutesWithin(s)[(k + 1) - 1] \cup FartherRoutes(s, RoutesWithin(s)[(k + 1) - 1], k + 1)
        <5>1. ASSUME NEW h \in 2 .. N
              PROVE  RoutesWithin(s)[h] =
                        RoutesWithin(s)[h - 1] \cup FartherRoutes(s, RoutesWithin(s)[h - 1], h)
          <6>1. h \in 1 .. N /\ h # 1
            <7> HIDE DEF N
            <7> QED
              BY <1>1
          <6> HIDE DEF T, N
          <6> QED
            BY <1>6, <6>1
        <5> HIDE DEF T, N
        <5> QED
          BY <4>1, <5>1
      <4>3. RoutesWithin(s)[k] \subseteq RouteOf((k + 1) - 1)
        BY <4>1
      <4> QED
        BY <1>5, <4>1, <4>2, <4>3
    <3> QED
      BY <3>1, <3>2
  <2> QED
    BY <2>1, <2>2
<1> QED
  <2> HIDE DEF T
  <2>1. Nat \subseteq T
    BY <1>7, <1>8, Induction
  <2> QED
    BY <1>1, <2>1 DEF T

\* rtable_computation keeps a router well-formed and changes its routes only.
LEMMA RtableComputationType ==
    ASSUME NEW s, WellFormed(s), NEW n \in Node
    PROVE  /\ WellFormed(RtableComputation(s))
           /\ \E rt : RtableComputation(s) = [s EXCEPT !.rt = rt]
<1> DEFINE rt == RoutesWithin(s)[Cardinality(Node)]
<1>1. rt \in SUBSET [dest : Node, hop : Node, dist : 1..Cardinality(Node) + 1]
  BY RoutesWithinType DEF RouteOf
<1>2. RtableComputation(s) = [s EXCEPT !.rt = rt]
  BY DEF RtableComputation
<1> HIDE DEF rt
<1>3. [s EXCEPT !.rt = rt] \in Router
  BY <1>1 DEF WellFormed, Router
<1>4. Linked([s EXCEPT !.rt = rt])
  BY DEF WellFormed, Linked, Router
<1> QED
  BY <1>2, <1>3, <1>4 DEF WellFormed

\* What rtable_computation looks at.
SameInputs(s, t) ==
    /\ t.links = s.links /\ t.nbset = s.nbset /\ t.status = s.status
    /\ t.nb2hop = s.nb2hop /\ t.topology = s.topology

LEMMA RoutesWithinSame ==
    ASSUME NEW s, NEW t, SameInputs(s, t), NEW n \in Node
    PROVE  RoutesWithin(t)[Cardinality(Node)] = RoutesWithin(s)[Cardinality(Node)]
<1> DEFINE N == Cardinality(Node)
           T == {k \in Nat : k \in 1 .. N => RoutesWithin(t)[k] = RoutesWithin(s)[k]}
<1>1. N \in Nat /\ N # 0
  BY NodeAssumption, FS_CardinalityType, FS_EmptySet
<1>2. ASSUME NEW u
      PROVE  /\ 1 \in 1 .. N => RoutesWithin(u)[1] = NearRoutes(u)
             /\ \A k \in 1 .. N - 1 :
                   RoutesWithin(u)[k + 1] = RoutesWithin(u)[k] \cup FartherRoutes(u, RoutesWithin(u)[k], k + 1)
  <2>1. RoutesWithin(u) =
           [h \in 1 .. N |-> IF h = 1 THEN NearRoutes(u)
                             ELSE RoutesWithin(u)[h - 1] \cup FartherRoutes(u, RoutesWithin(u)[h - 1], h)]
    BY <1>1, RoutesWithinDef
  <2> HIDE DEF N
  <2>2. \A k \in 1 .. N - 1 : k + 1 \in 1 .. N /\ k + 1 # 1 /\ (k + 1) - 1 = k
    BY <1>1
  <2> HIDE DEF T
  <2> QED
    BY <2>1, <2>2
<1>3. SymNeighbors(t) = SymNeighbors(s)
  BY DEF SymNeighbors, SameInputs
<1>4. NearRoutes(t) = NearRoutes(s)
  BY <1>3 DEF NearRoutes, SameInputs
<1>5. \A rt, h : FartherRoutes(t, rt, h) = FartherRoutes(s, rt, h)
  BY DEF FartherRoutes, SameInputs
<1> HIDE DEF N
<1>6. 0 \in T
  BY <1>1
<1>7. ASSUME NEW k \in T
      PROVE  k + 1 \in T
  <2>1. k \in Nat /\ k + 1 \in Nat
    OBVIOUS
  <2>2. ASSUME k + 1 \in 1 .. N
        PROVE  RoutesWithin(t)[k + 1] = RoutesWithin(s)[k + 1]
    <3>1. CASE k = 0
      BY <1>2, <1>4, <2>2, <3>1
    <3>2. CASE k # 0
      <4>1. k \in 1 .. N - 1 /\ k \in 1 .. N
        BY <1>1, <2>1, <2>2, <3>2
      <4>2. RoutesWithin(t)[k] = RoutesWithin(s)[k]
        BY <4>1
      <4>3. RoutesWithin(t)[k + 1] = RoutesWithin(t)[k] \cup FartherRoutes(t, RoutesWithin(t)[k], k + 1)
        BY <1>2, <4>1
      <4>4. RoutesWithin(s)[k + 1] = RoutesWithin(s)[k] \cup FartherRoutes(s, RoutesWithin(s)[k], k + 1)
        BY <1>2, <4>1
      <4> HIDE DEF T
      <4> QED
        BY <1>5, <4>2, <4>3, <4>4
    <3> QED
      BY <3>1, <3>2
  <2> QED
    BY <2>1, <2>2
<1> HIDE DEF T
<1>8. Nat \subseteq T
  BY <1>6, <1>7, Induction
<1> QED
  BY <1>1, <1>8 DEF N, T

\* The table is that of the last rtable_computation, and nothing has changed since.
Routed(s) == s.rt = RoutesWithin(s)[Cardinality(Node)]

LEMMA RoutedSame ==
    ASSUME NEW s, NEW t, SameInputs(s, t), t.rt = s.rt, Routed(s), NEW n \in Node
    PROVE  Routed(t)
  BY RoutesWithinSame DEF Routed

LEMMA RtableComputationRouted ==
    ASSUME NEW s, WellFormed(s), NEW n \in Node
    PROVE  Routed(RtableComputation(s))
<1> DEFINE rt == RoutesWithin(s)[Cardinality(Node)]
           t == RtableComputation(s)
<1>1. s \in Router /\ t = [s EXCEPT !.rt = rt]
  BY DEF WellFormed, RtableComputation
<1> HIDE DEF rt, t
<1>2. SameInputs(s, t) /\ t.rt = rt
  BY <1>1 DEF SameInputs, Router
<1>3. RoutesWithin(t)[Cardinality(Node)] = rt
  BY <1>2, RoutesWithinSame DEF rt
<1> QED
  BY <1>2, <1>3 DEF Routed, t

\* A tuple that is added, or the one that is erased, is the only difference of a
\* neighbour set that lists each neighbour once.
LEMMA AppendNeighbor ==
    ASSUME NEW q \in Seq(Node), IsInjective(q), NEW m \in Node, m \notin ToSet(q)
    PROVE  /\ Append(q, m) \in Seq(Node)
           /\ IsInjective(Append(q, m))
           /\ ToSet(Append(q, m)) = ToSet(q) \cup {m}
<1> DEFINE p == Append(q, m)
<1>1. p \in Seq(Node) /\ Len(p) = Len(q) + 1 /\ p[Len(q) + 1] = m /\ \A i \in 1 .. Len(q) : p[i] = q[i]
  OBVIOUS
<1>2. DOMAIN q = 1 .. Len(q) /\ DOMAIN p = 1 .. Len(q) + 1 /\ Len(q) \in Nat
  BY <1>1
<1>3. \A i \in DOMAIN p : i \in DOMAIN q \/ i = Len(q) + 1
  BY <1>2
<1>4. \A i \in DOMAIN q : i \in DOMAIN p
  BY <1>2
<1>5. Len(q) + 1 \in DOMAIN p
  BY <1>2
<1> HIDE DEF p
<1>6. ToSet(p) = ToSet(q) \cup {m}
  BY <1>1, <1>2, <1>3, <1>4, <1>5 DEF ToSet
<1>7. IsInjective(p)
  BY <1>1, <1>2, <1>3 DEF IsInjective, ToSet
<1> QED
  BY <1>1, <1>6, <1>7 DEF p

LEMMA RemoveNeighbor ==
    ASSUME NEW q \in Seq(Node), IsInjective(q), NEW m \in Node
    PROVE  /\ RemoveFirst(q, m) \in Seq(Node)
           /\ IsInjective(RemoveFirst(q, m))
           /\ ToSet(RemoveFirst(q, m)) = ToSet(q) \ {m}
<1>1. CASE ~ \E i \in 1 .. Len(q) : q[i] = m
  <2>1. RemoveFirst(q, m) = q
    BY <1>1 DEF RemoveFirst
  <2>2. m \notin ToSet(q)
    BY <1>1 DEF ToSet
  <2> QED
    BY <2>1, <2>2
<1>2. CASE \E i \in 1 .. Len(q) : q[i] = m
  <2> DEFINE I == {i \in 1 .. Len(q) : q[i] = m}
             k == CHOOSE x \in I : \A y \in I : x <= y
             p == SubSeq(q, 1, k - 1) \o SubSeq(q, k + 1, Len(q))
  <2>1. k \in 1 .. Len(q) /\ q[k] = m
    <3>1. I \subseteq Nat /\ I # {}
      BY <1>2
    <3>2. \E x \in I : \A y \in I : x <= y
      <4> HIDE DEF I
      <4> QED
        BY <3>1, Smallest
    <3>3. k \in I
      <4> HIDE DEF I
      <4> QED
        BY <3>2
    <3> HIDE DEF k
    <3> QED
      BY <3>3
  <2>2. RemoveFirst(q, m) = p
    BY <1>2 DEF RemoveFirst, RemoveAt, SelectInSeq, Min
  <2> HIDE DEF k
  <2>3. /\ p \in Seq(Node)
        /\ Len(p) = Len(q) - 1
        /\ \A i \in 1 .. Len(q) - 1 : p[i] = IF i < k THEN q[i] ELSE q[i + 1]
    <3> DEFINE left == SubSeq(q, 1, k - 1)
               right == SubSeq(q, k + 1, Len(q))
    <3>1. Len(q) \in Nat /\ k \in Nat /\ k >= 1 /\ k <= Len(q)
      BY <2>1
    <3>2. left \in Seq(Node) /\ Len(left) = k - 1 /\ \A i \in 1 .. k - 1 : left[i] = q[i]
      BY <3>1
    <3>3. /\ right \in Seq(Node) /\ Len(right) = Len(q) - k
          /\ \A i \in 1 .. Len(q) - k : right[i] = q[k + i]
      BY <3>1
    <3> HIDE DEF left, right
    <3>c. left \in Seq(Node) /\ right \in Seq(Node)
      BY <3>2, <3>3
    <3>a. left \o right \in Seq(Node) /\ Len(left \o right) = Len(left) + Len(right)
      BY <3>c, SMT
    <3>b. (k - 1) + (Len(q) - k) = Len(q) - 1
      BY <3>1
    <3>4. left \o right \in Seq(Node) /\ Len(left \o right) = Len(q) - 1
      BY <3>2, <3>3, <3>a, <3>b
    <3>5. ASSUME NEW i \in 1 .. Len(q) - 1
          PROVE  (left \o right)[i] = IF i < k THEN q[i] ELSE q[i + 1]
      <4>1. CASE i < k
        BY <3>1, <3>2, <3>3, <4>1
      <4>2. CASE ~(i < k)
        <5>1. i - (k - 1) \in 1 .. Len(q) - k /\ k + (i - (k - 1)) = i + 1
          BY <3>1, <4>2
        <5>2. (left \o right)[i] = right[i - (k - 1)]
          BY <3>1, <3>2, <3>3, <4>2
        <5>3. right[i - (k - 1)] = q[k + (i - (k - 1))]
          BY <3>3, <5>1
        <5> QED
          BY <4>2, <5>1, <5>2, <5>3
      <4> QED
        BY <4>1, <4>2
    <3> QED
      BY <3>4, <3>5 DEF left, right
  <2>4. /\ DOMAIN q = 1 .. Len(q)
        /\ DOMAIN p = 1 .. Len(q) - 1
        /\ Len(q) \in Nat
    <3>1. p \in Seq(Node) /\ Len(p) = Len(q) - 1
      BY <2>3
    <3> HIDE DEF p
    <3> QED
      BY <3>1
  <2> HIDE DEF p
  <2>5. \A i \in DOMAIN p : \E j \in DOMAIN q : p[i] = q[j] /\ j # k /\ j = IF i < k THEN i ELSE i + 1
    BY <2>1, <2>3, <2>4
  <2>6. \A j \in DOMAIN q : j # k => \E i \in DOMAIN p : p[i] = q[j]
    <3> SUFFICES ASSUME NEW j \in DOMAIN q, j # k
                 PROVE  \E i \in DOMAIN p : p[i] = q[j]
      OBVIOUS
    <3>1. CASE j < k
      <4>1. j \in DOMAIN p /\ p[j] = q[j]
        BY <2>1, <2>3, <2>4, <3>1
      <4> QED
        BY <4>1
    <3>2. CASE ~(j < k)
      <4>1. j - 1 \in DOMAIN p /\ ~(j - 1 < k) /\ (j - 1) + 1 = j
        BY <2>1, <2>4, <3>2
      <4>2. p[j - 1] = q[j]
        BY <2>3, <2>4, <4>1
      <4> QED
        BY <4>1, <4>2
    <3> QED
      BY <3>1, <3>2
  <2>7. \A j \in DOMAIN q : q[j] = m => j = k
    BY <2>1, <2>4 DEF IsInjective
  <2>8. ToSet(p) = ToSet(q) \ {m}
    <3>1. ASSUME NEW x \in ToSet(p)
          PROVE  x \in ToSet(q) \ {m}
      BY <2>5, <2>7 DEF ToSet
    <3>2. ASSUME NEW x \in ToSet(q) \ {m}
          PROVE  x \in ToSet(p)
      BY <2>1, <2>6 DEF ToSet
    <3> QED
      BY <3>1, <3>2
  <2>9. IsInjective(p)
    <3> SUFFICES ASSUME NEW a \in DOMAIN p, NEW b \in DOMAIN p, p[a] = p[b]
                 PROVE  a = b
      BY DEF IsInjective
    <3>1. PICK i \in DOMAIN q : p[a] = q[i] /\ i = IF a < k THEN a ELSE a + 1
      BY <2>5
    <3>2. PICK j \in DOMAIN q : p[b] = q[j] /\ j = IF b < k THEN b ELSE b + 1
      BY <2>5
    <3>3. i = j
      BY <3>1, <3>2 DEF IsInjective
    <3>4. a \in Int /\ b \in Int /\ k \in Int
      BY <2>1, <2>4
    <3> QED
      BY <3>1, <3>2, <3>3, <3>4
  <2> QED
    BY <2>2, <2>3, <2>8, <2>9
<1> QED
  BY <1>1, <1>2

\* What is said about one neighbour changes, and nothing else.
SameButNeighbors(s, t) ==
    /\ t.nb2hop = s.nb2hop /\ t.mprset = s.mprset
    /\ t.mprsel = s.mprsel /\ t.ansn = s.ansn
    /\ t.topology = s.topology /\ t.dup = s.dup /\ t.msgs = s.msgs /\ t.rt = s.rt

Noted(s, m, e, q, st) == [s EXCEPT !.links[m] = e, !.nbset = q, !.status[m] = st]

LEMMA UpdateNeighbor ==
    ASSUME NEW s, WellFormed(s), NEW m \in Node, NEW e \in Entry, NEW q \in Seq(Node),
           NEW st \in {"none", "not", "sym"}, IsInjective(q),
           ToSet(q) = IF st = "none" THEN ToSet(s.nbset) \ {m} ELSE ToSet(s.nbset) \cup {m},
           e.known <=> st # "none", e.sym => e.known
    PROVE  LET t == Noted(s, m, e, q, st)
           IN  /\ WellFormed(t)
               /\ t.links[m] = e /\ t.status[m] = st
               /\ \A k \in Node \ {m} : t.links[k] = s.links[k] /\ t.status[k] = s.status[k]
               /\ SameButNeighbors(s, t)
<1> DEFINE t == Noted(s, m, e, q, st)
<1> USE DEF Noted
<1>1. s \in Router
  BY DEF WellFormed
<1>2. t.links = [s.links EXCEPT ![m] = e] /\ t.status = [s.status EXCEPT ![m] = st] /\ t.nbset = q
  BY <1>1 DEF Router
<1>3. SameButNeighbors(s, t)
  BY <1>1 DEF Router, SameButNeighbors
<1>4. t \in Router
  BY <1>1 DEF Router, Entry
<1>5. Linked(t)
  <2>1. s.links \in [Node -> Entry] /\ s.status \in [Node -> {"none", "not", "sym"}]
    BY <1>1 DEF Router, Entry
  <2>2. ToSet(s.nbset) = {k \in Node : s.status[k] # "none"}
    BY DEF WellFormed, Linked
  <2>3. ToSet(q) = {k \in Node : t.status[k] # "none"}
    BY <1>2, <2>1, <2>2
  <2>4. ASSUME NEW k \in Node
        PROVE  /\ t.links[k].known <=> t.status[k] # "none"
               /\ t.links[k].sym => t.links[k].known
    <3>1. /\ s.links[k].known <=> s.status[k] # "none"
          /\ s.links[k].sym => s.links[k].known
      BY DEF WellFormed, Linked
    <3> QED
      BY <1>2, <2>1, <3>1
  <2> HIDE DEF t
  <2> QED
    BY <1>2, <2>3, <2>4 DEF Linked
<1>6. /\ t.links[m] = e /\ t.status[m] = st
      /\ \A k \in Node \ {m} : t.links[k] = s.links[k] /\ t.status[k] = s.status[k]
  <2>1. s.links \in [Node -> Entry] /\ s.status \in [Node -> {"none", "not", "sym"}]
    BY <1>1 DEF Router, Entry
  <2> HIDE DEF t
  <2> QED
    BY <1>2, <2>1
<1> HIDE DEF t
<1> QED
  BY <1>3, <1>4, <1>5, <1>6 DEF WellFormed, t

\* link_sensing: a link becomes symmetric only by a HELLO that lists this router.
LEMMA LinkSensingStep ==
    ASSUME NEW s, WellFormed(s), NEW n, NEW h \in HelloMessage
    PROVE  LET t == LinkSensing(s, n, h)
           IN  /\ WellFormed(t)
               /\ \A k \in Node : s.links[k].known => t.links[k].known
               /\ \A k \in Node : t.links[k].sym =>
                     s.links[k].sym \/ (k = h.orig /\ \E e \in h.list : e.addr = n)
               /\ SameButNeighbors(s, t)
<1> DEFINE m == h.orig
           mine == {e \in h.list : e.addr = n /\ ~(e.link = "sym" /\ e.nb = "not")}
           sym == IF mine = {} THEN s.links[m].sym ELSE \A e \in mine : e.link # "lost"
           new == ~s.links[m].known
           entry == [known |-> TRUE, asym |-> TRUE, sym |-> sym,
                     first |-> IF new THEN sym ELSE s.links[m].first]
           q == IF new THEN Append(s.nbset, m) ELSE s.nbset
           st == IF sym THEN "sym" ELSE "not"
           t == Noted(s, m, entry, q, st)
<1>1. m \in Node
  BY DEF HelloMessage
<1>2. /\ s \in Router /\ s.links \in [Node -> Entry] /\ s.nbset \in Seq(Node)
      /\ s.status \in [Node -> {"none", "not", "sym"}]
  BY DEF WellFormed, Router, Entry
<1>3. LinkSensing(s, n, h) = t
  BY <1>1, <1>2 DEF LinkSensing, Noted, Router
<1>4. sym \in BOOLEAN /\ new \in BOOLEAN
  BY <1>1, <1>2 DEF Entry
<1>5. entry \in Entry /\ entry.known /\ entry.sym = sym
  <2> HIDE DEF sym, new
  <2> QED
    BY <1>1, <1>2, <1>4 DEF Entry
<1>6. q \in Seq(Node) /\ IsInjective(q) /\ ToSet(q) = ToSet(s.nbset) \cup {m}
  <2>1. IsInjective(s.nbset) /\ (s.links[m].known <=> m \in ToSet(s.nbset))
    BY <1>1 DEF WellFormed, Linked
  <2> QED
    BY <1>1, <1>2, <2>1, AppendNeighbor
<1>7. sym => s.links[m].sym \/ \E e \in h.list : e.addr = n
  OBVIOUS
<1>8. st \in {"not", "sym"}
  OBVIOUS
<1> HIDE DEF sym, new, entry, q, st
<1>9. /\ WellFormed(t) /\ SameButNeighbors(s, t)
      /\ t.links[m] = entry /\ \A k \in Node \ {m} : t.links[k] = s.links[k]
  <2>1. st # "none" /\ st \in {"none", "not", "sym"}
    BY <1>8
  <2>2. ToSet(q) = IF st = "none" THEN ToSet(s.nbset) \ {m} ELSE ToSet(s.nbset) \cup {m}
    BY <1>6, <2>1
  <2>3. (entry.known <=> st # "none") /\ (entry.sym => entry.known)
    BY <1>5, <2>1
  <2>4. q \in Seq(Node) /\ IsInjective(q) /\ entry \in Entry
    BY <1>5, <1>6
  <2> HIDE DEF m
  <2> QED
    BY <1>1, <2>1, <2>2, <2>3, <2>4, UpdateNeighbor
<1> HIDE DEF t, m
<1>10. ASSUME NEW k \in Node
       PROVE  /\ s.links[k].known => t.links[k].known
              /\ t.links[k].sym => s.links[k].sym \/ (k = m /\ \E e \in h.list : e.addr = n)
  <2>1. CASE k = m
    <3>1. t.links[k] = entry
      BY <1>1, <1>2, <1>9, <2>1
    <3> QED
      BY <1>5, <1>7, <2>1, <3>1
  <2>2. CASE k # m
    <3>1. t.links[k] = s.links[k]
      BY <1>1, <1>2, <1>9, <2>2
    <3> QED
      BY <3>1
  <2> QED
    BY <2>1, <2>2
<1> QED
  BY <1>3, <1>9, <1>10 DEF m

\* An ANSN that is counted up is one.
LEMMA Remainder ==
    ASSUME NEW x \in Nat, NEW N \in Nat
    PROVE  x % (N + 1) \in 0 .. N
  BY SMT

LEMMA MaxNumber == MAX_SEQ_NUM \in Nat
  BY SMT DEF MAX_SEQ_NUM

LEMMA AnyNumber ==
    ASSUME NEW a \in 0 .. MAX_SEQ_NUM, NEW k \in Nat
    PROVE  (a + k) % (MAX_SEQ_NUM + 1) \in 0 .. MAX_SEQ_NUM
<1>1. a + k \in Nat
  BY MaxNumber, SMT
<1> QED
  BY <1>1, MaxNumber, Remainder, SMT

LEMMA NextAnsnType ==
    ASSUME NEW s, s.ansn \in 0 .. MAX_SEQ_NUM
    PROVE  NextAnsn(s) \in 0 .. MAX_SEQ_NUM
<1>1. 1 \in Nat
  BY SMT
<1> QED
  BY <1>1, AnyNumber, Zenon DEF NextAnsn

\* A router after a HELLO, compared with the router before: links are added, one may have
\* become symmetric, and at most one selector is new, with a new ANSN.
Lists(msg, n) == msg.type = "HELLO" /\ \E e \in msg.list : e.addr = n

Heard(s, t, n, from, M) ==
    /\ WellFormed(t)
    /\ \A k \in Node : s.links[k].known => t.links[k].known
    /\ \A k \in Node : t.links[k].sym => s.links[k].sym \/ (k = from /\ \E msg \in M : Lists(msg, n))
    /\ \/ t.mprsel = s.mprsel /\ t.ansn = s.ansn
       \/ from \notin s.mprsel /\ from \in t.mprsel /\ t.ansn = NextAnsn(s)

LEMMA ProcessHelloStep ==
    ASSUME NEW s, WellFormed(s), NEW n, NEW h \in HelloMessage
    PROVE  LET t == ProcessHello(s, n, h)
           IN  /\ Heard(s, t, n, h.orig, {h})
               /\ t.topology = s.topology /\ t.dup = s.dup /\ t.msgs = s.msgs
<1> DEFINE a == LinkSensing(s, n, h)
           b == PopulateNb2hopset(a, n, h)
           c == MprComputation(b, n)
           d == PopulateMprselset(c, n, h)
<1>1. /\ WellFormed(a)
      /\ \A k \in Node : s.links[k].known => a.links[k].known
      /\ \A k \in Node : a.links[k].sym =>
            s.links[k].sym \/ (k = h.orig /\ \E e \in h.list : e.addr = n)
      /\ SameButNeighbors(s, a)
  BY LinkSensingStep
<1> HIDE DEF a
<1>2. /\ WellFormed(b) /\ b.links = a.links /\ b.mprsel = a.mprsel /\ b.ansn = a.ansn
      /\ b.topology = a.topology /\ b.dup = a.dup /\ b.msgs = a.msgs
  <2>1. a \in Router /\ Linked(a)
    BY <1>1 DEF WellFormed
  <2>2. \E P \in SUBSET (Node \X Node) : b = [a EXCEPT !.nb2hop = P]
    <3> DEFINE listed == {e.addr : e \in {x \in h.list : x.nb # "not"}} \ {n}
               denied == {e.addr : e \in {x \in h.list : x.nb = "not"}}
               P == (a.nb2hop \cup ({h.orig} \X listed)) \ ({h.orig} \X denied)
    <3>1. listed \subseteq Node /\ h.orig \in Node
      BY DEF HelloMessage
    <3>2. a.nb2hop \in SUBSET (Node \X Node)
      BY <2>1 DEF Router
    <3>3. P \in SUBSET (Node \X Node)
      <4> HIDE DEF listed, denied
      <4> QED
        BY <3>1, <3>2
    <3>4. b = [a EXCEPT !.nb2hop = P] \/ b = a
      BY DEF PopulateNb2hopset
    <3>5. a = [a EXCEPT !.nb2hop = a.nb2hop]
      BY <2>1 DEF Router
    <3> HIDE DEF P, b
    <3> QED
      BY <3>2, <3>3, <3>4, <3>5
  <2>3. PICK P \in SUBSET (Node \X Node) : b = [a EXCEPT !.nb2hop = P]
    BY <2>2
  <2>4. b \in Router
    BY <2>1, <2>3 DEF Router
  <2> HIDE DEF b
  <2> QED
    BY <2>1, <2>3, <2>4 DEF WellFormed, Linked, Router
<1> HIDE DEF b
<1>3. PICK mprs \in SUBSET Node : c = [b EXCEPT !.mprset = mprs]
  BY <1>2, MprComputationType
<1>4. /\ WellFormed(c) /\ c.links = b.links /\ c.mprsel = b.mprsel /\ c.ansn = b.ansn
      /\ c.topology = b.topology /\ c.dup = b.dup /\ c.msgs = b.msgs
  BY <1>2, <1>3, MprComputationType DEF WellFormed, Router
<1> HIDE DEF c
<1>5. c \in Router /\ Linked(c)
  BY <1>4 DEF WellFormed
<1>h. h.type = "HELLO"
  BY DEF HelloMessage
<1>6. CASE d = c
  BY <1>1, <1>2, <1>4, <1>6, <1>h DEF Heard, Lists, ProcessHello, a, b, c, d, SameButNeighbors
<1>7. CASE d # c
  <2> DEFINE selectors == c.mprsel \cup {h.orig}
             next == NextAnsn(c)
  <2>1. h.orig \notin c.mprsel /\ d = [c EXCEPT !.mprsel = selectors, !.ansn = next]
    BY <1>7 DEF PopulateMprselset
  <2>2. h.orig \in Node
    BY DEF HelloMessage
  <2>3. next \in 0 .. MAX_SEQ_NUM
    <3>1. c.ansn \in 0 .. MAX_SEQ_NUM
      BY <1>5 DEF Router
    <3> QED
      BY <3>1, NextAnsnType
  <2>a. selectors \in SUBSET Node
    BY <1>5, <2>2 DEF Router
  <2> HIDE DEF selectors, next, d
  <2>4. d \in Router
    BY <1>5, <2>1, <2>3, <2>a DEF Router
  <2>5. /\ d.links = c.links /\ d.nbset = c.nbset /\ d.status = c.status
        /\ d.mprsel = selectors /\ d.ansn = next
        /\ d.topology = c.topology /\ d.dup = c.dup /\ d.msgs = c.msgs
    BY <1>5, <2>1 DEF Router
  <2>6. WellFormed(d)
    BY <1>5, <2>4, <2>5 DEF WellFormed, Linked
  <2>7. ProcessHello(s, n, h) = d
    BY DEF ProcessHello, a, b, c, d
  <2>8. next = NextAnsn(s) /\ h.orig \notin s.mprsel /\ h.orig \in d.mprsel
    BY <1>1, <1>2, <1>4, <2>1, <2>5 DEF SameButNeighbors, NextAnsn, next, selectors
  <2> QED
    BY <1>1, <1>2, <1>4, <1>h, <2>5, <2>6, <2>7, <2>8 DEF Heard, Lists, SameButNeighbors
<1> QED
  BY <1>6, <1>7

\* process_tc: a tuple that is new names its originator, its number and a router it lists.
Told(x, tc) ==
    tc.type = "TC" /\ x.last = tc.orig /\ x.seq = tc.ansn /\ x.dest \in tc.list

LEMMA ProcessTcStep ==
    ASSUME NEW s, WellFormed(s), NEW tc \in TcMessage
    PROVE  LET t == ProcessTc(s, tc)
           IN  /\ WellFormed(t)
               /\ t.links = s.links /\ t.mprsel = s.mprsel /\ t.ansn = s.ansn /\ t.msgs = s.msgs
               /\ t.dup = s.dup
               /\ \A x \in t.topology : x \in s.topology \/ Told(x, tc)
<1> DEFINE Tuple == [dest : Node, last : Node, seq : 0..MAX_SEQ_NUM]
           known == {t \in s.topology : t.last = tc.orig}
           kept == {t \in s.topology : t.last # tc.orig \/ t.seq >= tc.ansn}
           new == tc.list \ {t.dest : t \in known \cap kept}
           told == {[dest |-> d, last |-> tc.orig, seq |-> tc.ansn] : d \in new}
           top == kept \cup told
<1>1. s \in Router /\ Linked(s) /\ s.topology \in SUBSET Tuple
  BY DEF WellFormed, Router
<1>2. tc.orig \in Node /\ tc.ansn \in 0 .. MAX_SEQ_NUM /\ tc.list \in SUBSET Node /\ tc.type = "TC"
  BY DEF TcMessage
<1>3. new \subseteq tc.list /\ kept \subseteq s.topology
  OBVIOUS
<1>4. \A x \in told : x \in Tuple /\ Told(x, tc)
  <2> HIDE DEF new
  <2> QED
    BY <1>2, <1>3 DEF Told
<1>5. top \in SUBSET Tuple /\ \A x \in top : x \in s.topology \/ Told(x, tc)
  <2> HIDE DEF told, kept
  <2> QED
    BY <1>1, <1>3, <1>4
<1>6. ProcessTc(s, tc) = s \/ ProcessTc(s, tc) = [s EXCEPT !.topology = top]
  BY DEF ProcessTc
<1> HIDE DEF top
<1>7. [s EXCEPT !.topology = top] \in Router
  BY <1>1, <1>5 DEF Router
<1>8. CASE ProcessTc(s, tc) = s
  BY <1>1, <1>8 DEF WellFormed
<1>9. CASE ProcessTc(s, tc) = [s EXCEPT !.topology = top]
  <2> DEFINE u == [s EXCEPT !.topology = top]
  <2>1. /\ u.links = s.links /\ u.nbset = s.nbset /\ u.status = s.status
        /\ u.mprsel = s.mprsel /\ u.ansn = s.ansn /\ u.msgs = s.msgs /\ u.dup = s.dup
        /\ u.topology = top
    BY <1>1 DEF Router
  <2> HIDE DEF u
  <2>2. WellFormed(u)
    BY <1>1, <1>7, <2>1 DEF WellFormed, Linked, u
  <2> QED
    BY <1>5, <1>9, <2>1, <2>2 DEF u
<1> QED
  BY <1>6, <1>8, <1>9

\* What is in the buffer after one more message has been put there.
LEMMA EnqueueStep ==
    ASSUME NEW s, WellFormed(s), NEW msg \in HelloMessage \cup TcMessage
    PROVE  LET t == Enqueue(s, msg)
           IN  /\ WellFormed(t)
               /\ ToSet(t.msgs) = ToSet(s.msgs) \cup {msg}
               /\ t.links = s.links /\ t.mprsel = s.mprsel /\ t.ansn = s.ansn
               /\ t.topology = s.topology /\ t.dup = s.dup
<1> DEFINE q == Append(s.msgs, msg)
<1>1. s \in Router /\ Linked(s) /\ s.msgs \in Seq(HelloMessage \cup TcMessage)
  BY DEF WellFormed, Router
<1>2. q \in Seq(HelloMessage \cup TcMessage)
  BY <1>1
<1>3. ToSet(q) = ToSet(s.msgs) \cup {msg}
  <2>1. /\ DOMAIN q = 1 .. Len(s.msgs) + 1 /\ DOMAIN s.msgs = 1 .. Len(s.msgs) /\ Len(s.msgs) \in Nat
        /\ q[Len(s.msgs) + 1] = msg /\ \A i \in 1 .. Len(s.msgs) : q[i] = s.msgs[i]
    BY <1>1
  <2>2. \A i \in DOMAIN q : i \in DOMAIN s.msgs \/ i = Len(s.msgs) + 1
    BY <2>1
  <2>3. (\A i \in DOMAIN s.msgs : i \in DOMAIN q) /\ Len(s.msgs) + 1 \in DOMAIN q
    BY <2>1
  <2> HIDE DEF q
  <2> QED
    BY <2>1, <2>2, <2>3 DEF ToSet
<1>4. Enqueue(s, msg) = [s EXCEPT !.msgs = q]
  BY DEF Enqueue
<1> HIDE DEF q
<1>5. [s EXCEPT !.msgs = q] \in Router
  BY <1>1, <1>2 DEF Router
<1> DEFINE u == [s EXCEPT !.msgs = q]
<1>6. /\ u.links = s.links /\ u.nbset = s.nbset /\ u.status = s.status
      /\ u.mprsel = s.mprsel /\ u.ansn = s.ansn /\ u.topology = s.topology /\ u.dup = s.dup
      /\ u.msgs = q
  BY <1>1 DEF Router
<1>7. u \in Router
  BY <1>5
<1> HIDE DEF u
<1>8. WellFormed(u)
  BY <1>1, <1>6, <1>7 DEF WellFormed, Linked
<1> QED
  BY <1>3, <1>4, <1>6, <1>8 DEF u

\* forward_default: at most the TC itself is put into the buffer.
LEMMA ForwardDefaultStep ==
    ASSUME NEW s, WellFormed(s), NEW from, NEW tc \in TcMessage
    PROVE  LET t == ForwardDefault(s, from, tc)
           IN  /\ WellFormed(t)
               /\ ToSet(t.msgs) \subseteq ToSet(s.msgs) \cup {tc}
               /\ t.links = s.links /\ t.mprsel = s.mprsel /\ t.ansn = s.ansn
               /\ t.topology = s.topology
<1> DEFINE dups == s.dup \cup {tc.orig}
           noted == [s EXCEPT !.dup = dups]
<1>1. s \in Router /\ Linked(s) /\ dups \in SUBSET Node
  BY DEF WellFormed, Router, TcMessage
<1>2. ForwardDefault(s, from, tc) = IF from \in s.mprsel THEN Enqueue(noted, tc) ELSE noted
  BY DEF ForwardDefault
<1> HIDE DEF dups
<1>3. noted \in Router
  BY <1>1 DEF Router
<1>4. /\ WellFormed(noted) /\ noted.msgs = s.msgs
      /\ noted.links = s.links /\ noted.mprsel = s.mprsel /\ noted.ansn = s.ansn
      /\ noted.topology = s.topology
  BY <1>1, <1>3 DEF WellFormed, Linked, Router
<1> HIDE DEF noted
<1>5. CASE from \in s.mprsel
  BY <1>2, <1>4, <1>5, EnqueueStep
<1>6. CASE from \notin s.mprsel
  BY <1>2, <1>4, <1>6
<1> QED
  BY <1>5, <1>6

-----------------------------------------------------------------------------
\* A packet

\* A router after messages of a packet, compared with the router before.
Received(s, t, n, from, M) ==
    /\ Heard(s, t, n, from, M)
    /\ \A x \in t.topology : x \in s.topology \/ \E msg \in M : Told(x, msg)
    /\ \A msg \in ToSet(t.msgs) : msg \in ToSet(s.msgs) \/ (msg \in M /\ msg.type = "TC")

\* recv_olsr, of one message.
LEMMA HandleMsgStep ==
    ASSUME NEW s, WellFormed(s), NEW n, NEW from, NEW msg \in HelloMessage \cup TcMessage,
           msg.type = "HELLO" => msg.orig = from
    PROVE  Received(s, HandleMsg(s, n, from, msg), n, from, {msg})
<1> DEFINE t == HandleMsg(s, n, from, msg)
<1>1. CASE t = s
  BY <1>1 DEF Received, Heard
<1>2. CASE t # s /\ msg.type = "HELLO"
  <2>1. msg \in HelloMessage /\ msg.orig = from
    BY <1>2 DEF TcMessage
  <2>2. t = ProcessHello(s, n, msg)
    BY <1>2 DEF HandleMsg
  <2> HIDE DEF t
  <2>3. /\ Heard(s, t, n, from, {msg})
        /\ t.topology = s.topology /\ t.msgs = s.msgs
    BY <2>1, <2>2, ProcessHelloStep
  <2>4. Received(s, t, n, from, {msg})
    BY <1>2, <2>3 DEF Received, Heard
  <2> QED
    BY <2>4 DEF t
<1>3. CASE t # s /\ msg.type # "HELLO"
  <2>1. msg \in TcMessage /\ msg.type = "TC"
    BY <1>3 DEF HelloMessage, TcMessage
  <2> DEFINE p == ProcessTc(s, msg)
  <2>2. t = ForwardDefault(p, from, msg)
    BY <1>3 DEF HandleMsg
  <2> HIDE DEF t
  <2>3. /\ WellFormed(p)
        /\ p.links = s.links /\ p.mprsel = s.mprsel /\ p.ansn = s.ansn /\ p.msgs = s.msgs
        /\ \A x \in p.topology : x \in s.topology \/ Told(x, msg)
    BY <2>1, ProcessTcStep
  <2> HIDE DEF p
  <2>4. /\ WellFormed(t)
        /\ ToSet(t.msgs) \subseteq ToSet(p.msgs) \cup {msg}
        /\ t.links = p.links /\ t.mprsel = p.mprsel /\ t.ansn = p.ansn
        /\ t.topology = p.topology
    BY <2>1, <2>2, <2>3, ForwardDefaultStep
  <2>5. Received(s, t, n, from, {msg})
    BY <2>1, <2>3, <2>4 DEF Received, Heard
  <2> QED
    BY <2>5 DEF t
<1> QED
  BY <1>1, <1>2, <1>3

\* One message after another.
LEMMA ReceivedTransitive ==
    ASSUME NEW s, NEW t, NEW u, NEW n, NEW from, NEW M, NEW L, L \subseteq M, NEW msg \in M,
           Received(s, t, n, from, L), Received(t, u, n, from, {msg})
    PROVE  Received(s, u, n, from, M)
<1>1. WellFormed(u)
  BY DEF Received, Heard
<1>2. \A k \in Node : s.links[k].known => u.links[k].known
  BY DEF Received, Heard
<1>3. \A k \in Node : u.links[k].sym => s.links[k].sym \/ (k = from /\ \E x \in M : Lists(x, n))
  BY DEF Received, Heard
<1>4. \/ u.mprsel = s.mprsel /\ u.ansn = s.ansn
      \/ from \notin s.mprsel /\ from \in u.mprsel /\ u.ansn = NextAnsn(s)
  BY DEF Received, Heard, NextAnsn
<1>5. \A x \in u.topology : x \in s.topology \/ \E y \in M : Told(x, y)
  BY DEF Received
<1>6. \A x \in ToSet(u.msgs) : x \in ToSet(s.msgs) \/ (x \in M /\ x.type = "TC")
  BY DEF Received
<1> QED
  BY <1>1, <1>2, <1>3, <1>4, <1>5, <1>6 DEF Received, Heard

\* recv_olsr, of all messages of a packet.
LEMMA RecvOlsrStep ==
    ASSUME NEW s, WellFormed(s), NEW n \in Node, NEW from,
           NEW msgs \in Seq(HelloMessage \cup TcMessage),
           \A msg \in ToSet(msgs) : msg.type = "HELLO" => msg.orig = from
    PROVE  Received(s, RecvOlsr(s, n, from, msgs), n, from, ToSet(msgs))
<1> DEFINE after == AfterMsgs(s, n, from, msgs)
           M == ToSet(msgs)
           T == {i \in Nat : i \in 0 .. Len(msgs) => Received(s, after[i], n, from, M)}
<1>1. Len(msgs) \in Nat
  OBVIOUS
<1>2. after = [i \in 0 .. Len(msgs) |-> IF i = 0 THEN s ELSE HandleMsg(after[i - 1], n, from, msgs[i])]
  BY <1>1, AfterMsgsDef
<1> HIDE DEF after
<1>3. 0 \in T
  <2>1. after[0] = s
    BY <1>1, <1>2
  <2>2. Received(s, s, n, from, M)
    BY DEF Received, Heard
  <2> QED
    BY <2>1, <2>2
<1>4. ASSUME NEW i \in T
      PROVE  i + 1 \in T
  <2>1. i \in Nat /\ i + 1 \in Nat
    OBVIOUS
  <2>2. ASSUME i + 1 \in 0 .. Len(msgs)
        PROVE  Received(s, after[i + 1], n, from, M)
    <3>1. i \in 0 .. Len(msgs) /\ i + 1 # 0 /\ (i + 1) - 1 = i /\ i + 1 \in DOMAIN msgs
      BY <2>1, <2>2
    <3>2. Received(s, after[i], n, from, M)
      BY <3>1
    <3>3. after[i + 1] = HandleMsg(after[i], n, from, msgs[i + 1])
      BY <1>2, <2>2, <3>1
    <3>4. msgs[i + 1] \in M /\ msgs[i + 1] \in HelloMessage \cup TcMessage
      BY <3>1 DEF ToSet
    <3>5. WellFormed(after[i])
      BY <3>2 DEF Received, Heard
    <3>6. Received(after[i], after[i + 1], n, from, {msgs[i + 1]})
      BY <3>3, <3>4, <3>5, HandleMsgStep
    <3> QED
      BY <3>2, <3>4, <3>6, ReceivedTransitive
  <2> QED
    BY <2>1, <2>2
<1> DEFINE u == after[Len(msgs)]
<1>5. Received(s, u, n, from, M)
  <2> HIDE DEF T
  <2>1. Nat \subseteq T
    BY <1>3, <1>4, Induction
  <2> QED
    BY <1>1, <2>1 DEF T
<1>6. RecvOlsr(s, n, from, msgs) = RtableComputation(u)
  BY DEF RecvOlsr, after
<1> HIDE DEF u, M
<1>7. WellFormed(u)
  BY <1>5 DEF Received, Heard
<1>8. PICK rt : WellFormed(RtableComputation(u)) /\ RtableComputation(u) = [u EXCEPT !.rt = rt]
  BY <1>7, RtableComputationType
<1>9. LET v == RtableComputation(u)
      IN  /\ WellFormed(v) /\ v.links = u.links /\ v.mprsel = u.mprsel /\ v.ansn = u.ansn
          /\ v.topology = u.topology /\ v.msgs = u.msgs
  BY <1>7, <1>8 DEF WellFormed, Router
<1> QED
  BY <1>5, <1>6, <1>9 DEF Received, Heard, M

-----------------------------------------------------------------------------
\* The timers of the tuples

\* A router after a timer, compared with the router before: nothing becomes symmetric, no
\* tuple of a topology set and no message is new, and selectors change with the ANSN.
Expired(s, t) ==
    /\ WellFormed(t)
    /\ \A k \in Node : t.links[k].sym => s.links[k].sym
    /\ \/ t.mprsel = s.mprsel /\ t.ansn = s.ansn
       \/ t.ansn = NextAnsn(s)
    /\ t.topology = s.topology /\ t.msgs = s.msgs

LEMMA RmMprselTupleStep ==
    ASSUME NEW s, WellFormed(s), NEW m
    PROVE  LET t == RmMprselTuple(s, m)
           IN  /\ Expired(s, t)
               /\ t.links = s.links /\ t.nbset = s.nbset /\ t.status = s.status
<1> DEFINE rest == s.mprsel \ {m}
           next == NextAnsn(s)
           t == RmMprselTuple(s, m)
<1>1. s \in Router /\ Linked(s) /\ rest \in SUBSET Node
  BY DEF WellFormed, Router
<1>2. next \in 0 .. MAX_SEQ_NUM
  <2>1. s.ansn \in 0 .. MAX_SEQ_NUM
    BY <1>1 DEF Router
  <2> QED
    BY <2>1, NextAnsnType
<1>3. t = [s EXCEPT !.mprsel = rest, !.ansn = next]
  BY DEF RmMprselTuple
<1> HIDE DEF rest, next, t
<1>4. t \in Router
  BY <1>1, <1>2, <1>3 DEF Router
<1>5. /\ t.links = s.links /\ t.nbset = s.nbset /\ t.status = s.status
      /\ t.ansn = next /\ t.topology = s.topology /\ t.msgs = s.msgs
  BY <1>1, <1>3 DEF Router
<1>6. WellFormed(t)
  BY <1>1, <1>4, <1>5 DEF WellFormed, Linked
<1> QED
  BY <1>5, <1>6 DEF Expired, next, t

LEMMA HoldTimeOverStep ==
    ASSUME NEW s, WellFormed(s), NEW n \in Node, NEW m \in Node, s.links[m].sym
    PROVE  LET t == HoldTimeOver(s, n, m)
           IN  Expired(s, t) /\ \A k \in Node : s.links[k].known => t.links[k].known
<1> DEFINE entry == [s.links[m] EXCEPT !.sym = FALSE, !.asym = FALSE, !.first = FALSE]
           two == {t \in s.nb2hop : t[1] # m}
           silent == [s EXCEPT !.links[m] = entry, !.nb2hop = two]
           a == IF m \in silent.mprsel THEN RmMprselTuple(silent, m) ELSE silent
           b == [a EXCEPT !.status[m] = "not"]
           c == MprComputation(b, n)
           d == RtableComputation(c)
<1>1. /\ s \in Router /\ Linked(s) /\ s.links \in [Node -> Entry]
      /\ s.status \in [Node -> {"none", "not", "sym"}] /\ two \in SUBSET (Node \X Node)
  BY DEF WellFormed, Router, Entry
<1>2. s.links[m].known
  BY <1>1 DEF Linked
<1>3. entry \in Entry /\ entry.known /\ ~entry.sym
  <2>1. s.links[m] \in Entry
    BY <1>1
  <2> QED
    BY <1>2, <2>1 DEF Entry
<1>4. HoldTimeOver(s, n, m) = IF s.links[m].first THEN a ELSE d
  <2>1. silent.mprsel = s.mprsel
    BY <1>1 DEF Router
  <2> QED
    BY <2>1 DEF HoldTimeOver
<1> HIDE DEF entry, two
<1>5. silent \in Router
  BY <1>1, <1>3 DEF Router, Entry
<1>6. /\ silent.links = [s.links EXCEPT ![m] = entry]
      /\ silent.nbset = s.nbset /\ silent.status = s.status
      /\ silent.mprsel = s.mprsel /\ silent.ansn = s.ansn
      /\ silent.topology = s.topology /\ silent.msgs = s.msgs
  BY <1>1 DEF Router
<1> HIDE DEF silent
<1>7. \A k \in Node : /\ silent.links[k].known <=> s.links[k].known
                      /\ silent.links[k].sym => s.links[k].sym
  BY <1>1, <1>2, <1>3, <1>6
<1>8. WellFormed(silent)
  BY <1>1, <1>3, <1>5, <1>6, <1>7 DEF WellFormed, Linked
<1>9. /\ Expired(silent, a) /\ a.links = silent.links
      /\ a.nbset = silent.nbset /\ a.status = silent.status
  <2>1. CASE m \in silent.mprsel
    BY <1>8, <2>1, RmMprselTupleStep
  <2>2. CASE m \notin silent.mprsel
    BY <1>8, <2>2 DEF Expired
  <2> QED
    BY <2>1, <2>2
<1> HIDE DEF a
<1>10. Expired(s, a) /\ \A k \in Node : s.links[k].known => a.links[k].known
  BY <1>6, <1>7, <1>9 DEF Expired, NextAnsn
<1>11. a \in Router /\ Linked(a) /\ a.links[m].known
  BY <1>2, <1>10 DEF Expired, WellFormed
<1>12. b \in Router
  BY <1>11 DEF Router
<1>13. /\ b.status = [a.status EXCEPT ![m] = "not"]
       /\ b.links = a.links /\ b.nbset = a.nbset /\ b.mprsel = a.mprsel /\ b.ansn = a.ansn
       /\ b.topology = a.topology /\ b.msgs = a.msgs
  BY <1>11 DEF Router
<1> HIDE DEF b
<1>14. WellFormed(b)
  <2>1. a.status \in [Node -> {"none", "not", "sym"}] /\ a.status[m] # "none"
    BY <1>11 DEF Router, Linked
  <2>2. \A k \in Node : b.status[k] # "none" <=> a.status[k] # "none"
    BY <1>13, <2>1
  <2> QED
    BY <1>11, <1>12, <1>13, <2>2 DEF WellFormed, Linked
<1>15. PICK mprs \in SUBSET Node : WellFormed(c) /\ c = [b EXCEPT !.mprset = mprs]
  BY <1>14, MprComputationType
<1>16. /\ c.links = b.links /\ c.mprsel = b.mprsel /\ c.ansn = b.ansn
       /\ c.topology = b.topology /\ c.msgs = b.msgs
  BY <1>12, <1>15 DEF Router
<1> HIDE DEF c
<1>17. PICK rt : WellFormed(d) /\ d = [c EXCEPT !.rt = rt]
  BY <1>15, RtableComputationType
<1>18. /\ d.links = c.links /\ d.mprsel = c.mprsel /\ d.ansn = c.ansn
       /\ d.topology = c.topology /\ d.msgs = c.msgs
  BY <1>15, <1>17 DEF WellFormed, Router
<1> HIDE DEF d
<1>19. Expired(s, d) /\ \A k \in Node : s.links[k].known => d.links[k].known
  BY <1>10, <1>13, <1>16, <1>17, <1>18 DEF Expired
<1> QED
  BY <1>4, <1>10, <1>19

LEMMA RmLinkTupleStep ==
    ASSUME NEW s, WellFormed(s), NEW m \in Node
    PROVE  LET t == RmLinkTuple(s, m)
           IN  Expired(s, t) /\ \A k \in Node \ {m} : t.links[k] = s.links[k]
<1> DEFINE q == RemoveFirst(s.nbset, m)
           t == RmLinkTuple(s, m)
<1>1. s \in Router /\ s.nbset \in Seq(Node) /\ IsInjective(s.nbset)
  BY DEF WellFormed, Router, Linked
<1>2. q \in Seq(Node) /\ IsInjective(q) /\ ToSet(q) = ToSet(s.nbset) \ {m}
  BY <1>1, RemoveNeighbor
<1>3. t = Noted(s, m, NoLink, q, "none")
  BY <1>1 DEF RmLinkTuple, Noted, Router
<1>4. NoLink \in Entry /\ ~NoLink.known /\ ~NoLink.sym
  BY DEF NoLink, Entry
<1> HIDE DEF q, t
<1>5. /\ WellFormed(t) /\ SameButNeighbors(s, t) /\ t.links[m] = NoLink
      /\ \A k \in Node \ {m} : t.links[k] = s.links[k]
  <2>1. ToSet(q) = IF "none" = "none" THEN ToSet(s.nbset) \ {m} ELSE ToSet(s.nbset) \cup {m}
    BY <1>2
  <2>2. (NoLink.known <=> "none" # "none") /\ (NoLink.sym => NoLink.known)
    BY <1>4
  <2>3. "none" \in {"none", "not", "sym"}
    OBVIOUS
  <2> QED
    BY <1>2, <1>3, <1>4, <2>1, <2>2, <2>3, UpdateNeighbor
<1>6. Expired(s, t)
  BY <1>4, <1>5 DEF Expired, SameButNeighbors
<1> QED
  BY <1>5, <1>6 DEF t

-----------------------------------------------------------------------------
\* The network

\* A HELLO stays with its originator, which still knows every router it lists as long as
\* they hear each other; hence a link is symmetric at one end only if the other end knows
\* it.  Timers and losses can only come between them once they do not hear each other.
HelloInv(n) ==
    \A msg \in ToSet(router[n].msgs) :
        msg.type = "HELLO" =>
            /\ msg.orig = n
            /\ \A m \in Routers : Audible(n, m) /\ Lists(msg, m) => router[n].links[m].known

Mutual == \A p \in near : p[1] # p[2] /\ <<p[2], p[1]>> \in near

IInv ==
    /\ Routers \subseteq Node
    /\ router \in [Routers -> Router]
    /\ \A n \in Routers : WellFormed(router[n])
    /\ near \in SUBSET (Routers \X Routers) /\ Mutual
    /\ failures \in Nat
    /\ calm \in BOOLEAN
    /\ \A n \in Routers : HelloInv(n)
    /\ SymIsMutual

\* All messages in all buffers.
Queued == UNION {ToSet(router[m].msgs) : m \in Routers}

\* What any step may do to router n.
Moved(n) ==
    LET s == router[n]
        t == router'[n]
    IN  /\ WellFormed(t)
        /\ \A m \in Node : s.links[m].known => t.links[m].known \/ ~Audible(n, m)
        /\ \A m \in Node :
              t.links[m].sym =>
                  \/ s.links[m].sym
                  \/ /\ Audible(n, m)
                     /\ \E msg \in ToSet(router[m].msgs) : Lists(msg, n)
        /\ \A msg \in ToSet(t.msgs) :
              \/ msg \in ToSet(s.msgs)
              \/ msg = HelloMsg(s, n) \/ msg = TcMsg(s, n)
              \/ msg \in Queued /\ msg.type = "TC"
        /\ \A x \in t.topology : x \in s.topology \/ \E msg \in Queued : Told(x, msg)
        /\ \/ t.mprsel = s.mprsel /\ t.ansn = s.ansn
           \/ t.ansn = NextAnsn(s)

\* What any step may do to the network.
Step ==
    /\ Routers' = Routers
    /\ router' \in [Routers -> Router]
    /\ near' \subseteq near /\ Mutual'
    /\ failures' \in Nat
    /\ calm' = calm
    /\ \A n \in Routers : Moved(n)

\* A HELLO lists whom its originator knows.
LEMMA HelloMsgLists ==
    ASSUME NEW s, NEW n, NEW m, Lists(HelloMsg(s, n), m)
    PROVE  s.links[m].known /\ m \in Node
  BY DEF Lists, HelloMsg, LinkCode

\* Hence every step keeps the invariant.
LEMMA StepInv ==
    ASSUME IInv, Step
    PROVE  IInv'
<1>1. Routers' = Routers /\ Routers \subseteq Node
  BY DEF IInv, Step
<1>2. ASSUME NEW n \in Routers, NEW m \in Routers, <<n, m>> \in near'
      PROVE  Audible(n, m) /\ Audible(m, n)
  BY <1>2 DEF IInv, Step, Mutual, Audible
<1>3. ASSUME NEW n \in Routers
      PROVE  HelloInv(n)'
  <2> SUFFICES ASSUME NEW msg \in ToSet(router'[n].msgs), msg.type = "HELLO"
               PROVE  /\ msg.orig = n
                      /\ \A m \in Routers : <<n, m>> \in near' /\ Lists(msg, m) =>
                                                router'[n].links[m].known
    BY <1>1 DEF HelloInv, Audible
  <2>1. CASE msg \in ToSet(router[n].msgs)
    <3>1. /\ msg.orig = n
          /\ \A m \in Routers : Audible(n, m) /\ Lists(msg, m) => router[n].links[m].known
      BY <2>1 DEF IInv, HelloInv
    <3>2. \A m \in Routers : Audible(n, m) /\ router[n].links[m].known => router'[n].links[m].known
      BY <1>1 DEF Step, Moved
    <3> QED
      BY <1>2, <3>1, <3>2
  <2>2. CASE msg = HelloMsg(router[n], n)
    <3>1. msg.orig = n
      BY <2>2 DEF HelloMsg
    <3>2. \A m \in Routers : Lists(msg, m) => router[n].links[m].known
      BY <2>2, HelloMsgLists
    <3>3. \A m \in Routers : Audible(n, m) /\ router[n].links[m].known => router'[n].links[m].known
      BY <1>1 DEF Step, Moved
    <3> QED
      BY <1>2, <3>1, <3>2, <3>3
  <2>3. msg # TcMsg(router[n], n)
    BY DEF TcMsg
  <2> QED
    BY <2>1, <2>2, <2>3 DEF Step, Moved
<1>4. ASSUME NEW n \in Routers, NEW m \in Routers, <<n, m>> \in near', router'[n].links[m].sym
      PROVE  router'[m].links[n].known
  <2>1. Audible(n, m) /\ Audible(m, n)
    BY <1>2, <1>4
  <2>2. router[m].links[n].known
    <3>1. CASE router[n].links[m].sym
      BY <2>1, <3>1 DEF IInv, SymIsMutual
    <3>2. CASE \E msg \in ToSet(router[m].msgs) : Lists(msg, n)
      <4>1. PICK msg \in ToSet(router[m].msgs) : Lists(msg, n)
        BY <3>2
      <4>2. msg.type = "HELLO"
        BY <4>1 DEF Lists
      <4> QED
        BY <2>1, <4>1, <4>2 DEF IInv, HelloInv
    <3> QED
      BY <1>1, <1>4, <3>1, <3>2 DEF Step, Moved
  <2> QED
    BY <1>1, <2>1, <2>2 DEF Step, Moved
<1>5. SymIsMutual'
  BY <1>1, <1>4 DEF SymIsMutual, Audible
<1>6. \A n \in Routers : WellFormed(router[n])'
  BY DEF Step, Moved
<1>7. near' \in SUBSET (Routers \X Routers)
  BY DEF IInv, Step
<1> QED
  BY <1>1, <1>3, <1>5, <1>6, <1>7 DEF IInv, Step

\* A router that nothing happens to.
LEMMA StillMoved ==
    ASSUME NEW n, WellFormed(router[n]), router'[n] = router[n]
    PROVE  Moved(n)
  BY DEF Moved

\* One router changes.
LEMMA OneMoves ==
    ASSUME IInv, NEW n \in Routers, NEW t, router' = [router EXCEPT ![n] = t],
           Moved(n), UNCHANGED <<near, failures, calm>>
    PROVE  Step
<1>1. router \in [Routers -> Router] /\ router' = [m \in Routers |-> IF m = n THEN t ELSE router[m]]
  BY DEF IInv, Routers
<1>2. router'[n] = t /\ \A m \in Routers \ {n} : router'[m] = router[m]
  BY <1>1
<1>3. t \in Router
  BY <1>2 DEF Moved, WellFormed
<1>4. Routers' = Routers /\ router' \in [Routers -> Router]
  BY <1>1, <1>3 DEF Routers
<1>5. \A m \in Routers : Moved(m)
  BY <1>2, StillMoved DEF IInv
<1> QED
  BY <1>4, <1>5 DEF Step, IInv, Mutual

\* A timer changes one router.
LEMMA OneExpires ==
    ASSUME IInv, NEW n \in Routers, NEW t, router' = [router EXCEPT ![n] = t],
           UNCHANGED <<near, failures, calm>>, Expired(router[n], t),
           \A m \in Node : router[n].links[m].known => t.links[m].known \/ ~Audible(n, m)
    PROVE  Step
<1>1. router'[n] = t
  BY DEF IInv, Routers
<1>2. Moved(n)
  BY <1>1 DEF Moved, Expired
<1> QED
  BY <1>2, OneMoves

\* Olsr_HelloTimer, Olsr_TcTimer.
LEMMA HelloMsgType ==
    ASSUME NEW s, WellFormed(s), NEW n \in Node
    PROVE  HelloMsg(s, n) \in HelloMessage
<1>1. /\ s.status \in [Node -> {"none", "not", "sym"}]
      /\ \A m \in Node : s.links[m].known => s.status[m] # "none"
  BY DEF WellFormed, Router, Linked
<1>2. ASSUME NEW m \in Node, s.links[m].known
      PROVE  LinkCode(s, m) \in
                [addr : Node, link : {"sym", "asym", "lost"}, nb : {"mpr", "sym", "not"}]
  BY <1>1, <1>2 DEF LinkCode
<1> QED
  BY <1>2 DEF HelloMsg, HelloMessage

LEMMA TcMsgType ==
    ASSUME NEW s, WellFormed(s), NEW n \in Node
    PROVE  TcMsg(s, n) \in TcMessage
<1>1. s.mprsel \in SUBSET Node /\ s.ansn \in 0 .. MAX_SEQ_NUM
  BY DEF WellFormed, Router
<1> QED
  BY <1>1 DEF TcMsg, TcMessage

LEMMA SendHelloStep ==
    ASSUME IInv, NEW n \in Routers, SendHello(n)
    PROVE  Step
<1> DEFINE msg == HelloMsg(router[n], n)
           t == Enqueue(router[n], msg)
<1>1. WellFormed(router[n]) /\ n \in Node
  BY DEF IInv
<1>2. msg \in HelloMessage
  BY <1>1, HelloMsgType
<1>3. router' = [router EXCEPT ![n] = t] /\ UNCHANGED <<near, failures, calm>>
  BY DEF SendHello
<1>4. /\ WellFormed(t) /\ ToSet(t.msgs) = ToSet(router[n].msgs) \cup {msg}
      /\ t.links = router[n].links /\ t.mprsel = router[n].mprsel /\ t.ansn = router[n].ansn
      /\ t.topology = router[n].topology
  BY <1>1, <1>2, EnqueueStep
<1>5. router'[n] = t
  BY <1>3 DEF IInv, Routers
<1> HIDE DEF t
<1>6. Moved(n)
  BY <1>4, <1>5 DEF Moved
<1> QED
  BY <1>3, <1>6, OneMoves

LEMMA SendTcStep ==
    ASSUME IInv, NEW n \in Routers, SendTc(n)
    PROVE  Step
<1> DEFINE msg == TcMsg(router[n], n)
           t == Enqueue(router[n], msg)
           u(m) == [router[m] EXCEPT !.dup = @ \ {n}]
<1>1. \A m \in Routers : WellFormed(router[m]) /\ m \in Node
  BY DEF IInv
<1>2. msg \in TcMessage
  BY <1>1, TcMsgType
<1>3. /\ router' = [m \in Routers |-> IF m = n THEN t ELSE u(m)]
      /\ UNCHANGED <<near, failures, calm>>
  BY DEF SendTc
<1>4. /\ WellFormed(t) /\ ToSet(t.msgs) = ToSet(router[n].msgs) \cup {msg}
      /\ t.links = router[n].links /\ t.mprsel = router[n].mprsel /\ t.ansn = router[n].ansn
      /\ t.topology = router[n].topology
  BY <1>1, <1>2, EnqueueStep
<1> HIDE DEF t
<1>5. ASSUME NEW m \in Routers
      PROVE  WellFormed(u(m)) /\ Expired(router[m], u(m)) /\ u(m).links = router[m].links
  <2> DEFINE dups == router[m].dup \ {n}
             v == [router[m] EXCEPT !.dup = dups]
  <2>1. router[m] \in Router /\ Linked(router[m]) /\ dups \in SUBSET Node
    BY <1>1 DEF WellFormed, Router
  <2> HIDE DEF dups
  <2>2. v \in Router
    BY <2>1 DEF Router
  <2>3. /\ v.links = router[m].links /\ v.nbset = router[m].nbset /\ v.status = router[m].status
        /\ v.mprsel = router[m].mprsel /\ v.ansn = router[m].ansn
        /\ v.topology = router[m].topology /\ v.msgs = router[m].msgs
    BY <2>1 DEF Router
  <2>4. u(m) = v
    BY DEF dups
  <2> HIDE DEF v, u
  <2> QED
    BY <2>1, <2>2, <2>3, <2>4 DEF WellFormed, Linked, Expired
<1> HIDE DEF u
<1>6. ASSUME NEW m \in Routers
      PROVE  Moved(m) /\ router'[m] \in Router
  <2>1. CASE m = n
    <3>1. router'[m] = t
      BY <1>3, <2>1
    <3> QED
      BY <1>4, <2>1, <3>1 DEF Moved, WellFormed
  <2>2. CASE m # n
    <3>1. router'[m] = u(m)
      BY <1>3, <2>2
    <3> QED
      BY <1>5, <3>1 DEF Moved, Expired, WellFormed
  <2> QED
    BY <2>1, <2>2
<1>7. Routers' = Routers /\ router' \in [Routers -> Router]
  BY <1>3, <1>6 DEF Routers
<1> QED
  BY <1>3, <1>6, <1>7 DEF Step, IInv, Mutual

\* Olsr_MsgTimer.
LEMMA SendPktStep ==
    ASSUME IInv, NEW n \in Routers, SendPkt(n)
    PROVE  Step
<1> DEFINE msgs == router[n].msgs
           t == [router[n] EXCEPT !.msgs = <<>>]
           r(m) == RecvOlsr(router[m], m, n, msgs)
<1>1. \A m \in Routers : WellFormed(router[m]) /\ m \in Node
  BY DEF IInv
<1>2. /\ router' = [m \in Routers |-> IF m = n THEN t
                                      ELSE IF Audible(m, n) THEN r(m) ELSE router[m]]
      /\ UNCHANGED <<near, failures, calm>>
  BY DEF SendPkt
<1>3. /\ msgs \in Seq(HelloMessage \cup TcMessage)
      /\ \A msg \in ToSet(msgs) : msg.type = "HELLO" => msg.orig = n
  BY <1>1 DEF WellFormed, Router, IInv, HelloInv
<1>4. ASSUME NEW m \in Routers
      PROVE  Moved(m) /\ router'[m] \in Router
  <2>1. CASE m = n
    <3>1. router[n] \in Router /\ Linked(router[n])
      BY <1>1 DEF WellFormed
    <3>2. t \in Router
      <4> DEFINE none == <<>>
      <4>1. none \in Seq(HelloMessage \cup TcMessage)
        OBVIOUS
      <4> HIDE DEF none
      <4>2. [router[n] EXCEPT !.msgs = none] \in Router
        BY <3>1, <4>1 DEF Router
      <4> QED
        BY <4>2 DEF none
    <3>3. /\ t.links = router[n].links /\ t.nbset = router[n].nbset /\ t.status = router[n].status
          /\ t.mprsel = router[n].mprsel /\ t.ansn = router[n].ansn
          /\ t.topology = router[n].topology /\ t.msgs = <<>>
      BY <3>1 DEF Router
    <3>4. router'[m] = t
      BY <1>2, <2>1
    <3>5. ToSet(t.msgs) = {}
      BY <3>3 DEF ToSet
    <3> HIDE DEF t
    <3>6. WellFormed(t)
      BY <3>1, <3>2, <3>3 DEF WellFormed, Linked
    <3> QED
      BY <2>1, <3>2, <3>3, <3>4, <3>5, <3>6 DEF Moved
  <2>2. CASE m # n /\ Audible(m, n)
    <3>1. router'[m] = r(m)
      BY <1>2, <2>2
    <3>2. Received(router[m], r(m), m, n, ToSet(msgs))
      BY <1>1, <1>3, RecvOlsrStep
    <3>3. ToSet(msgs) \subseteq Queued
      BY DEF Queued
    <3> HIDE DEF r
    <3>4. Moved(m)
      BY <2>2, <3>1, <3>2, <3>3 DEF Moved, Received, Heard
    <3> QED
      BY <3>1, <3>4 DEF Moved, WellFormed
  <2>3. CASE m # n /\ ~Audible(m, n)
    <3>1. router'[m] = router[m]
      BY <1>2, <2>3
    <3> QED
      BY <1>1, <3>1, StillMoved DEF WellFormed
  <2> QED
    BY <2>1, <2>2, <2>3
<1>5. Routers' = Routers /\ router' \in [Routers -> Router]
  BY <1>2, <1>4 DEF Routers
<1> QED
  BY <1>2, <1>4, <1>5 DEF Step, IInv, Mutual

\* The timers of the tuples.
LEMMA NeighborTimersStep ==
    ASSUME IInv, NEW n \in Routers, NEW m \in Node, NeighborTimers(n, m)
    PROVE  Step
<1> DEFINE t == HoldTimeOver(router[n], n, m)
<1>1. WellFormed(router[n]) /\ n \in Node
  BY DEF IInv
<1>2. /\ router' = [router EXCEPT ![n] = t] /\ UNCHANGED <<near, failures, calm>>
      /\ router[n].links[m].sym
  BY DEF NeighborTimers
<1>3. Expired(router[n], t) /\ \A k \in Node : router[n].links[k].known => t.links[k].known
  BY <1>1, <1>2, HoldTimeOverStep
<1> HIDE DEF t
<1> QED
  BY <1>2, <1>3, OneExpires

LEMMA RemoveLinkStep ==
    ASSUME IInv, NEW n \in Routers, NEW m \in Node, RemoveLink(n, m)
    PROVE  Step
<1> DEFINE t == RmLinkTuple(router[n], m)
<1>1. WellFormed(router[n])
  BY DEF IInv
<1>2. /\ router' = [router EXCEPT ![n] = t] /\ UNCHANGED <<near, failures, calm>>
      /\ ~Audible(n, m)
  BY DEF RemoveLink
<1>3. Expired(router[n], t) /\ \A k \in Node \ {m} : t.links[k] = router[n].links[k]
  BY <1>1, RmLinkTupleStep
<1> HIDE DEF t
<1>4. \A k \in Node : router[n].links[k].known => t.links[k].known \/ ~Audible(n, k)
  BY <1>2, <1>3
<1> QED
  BY <1>2, <1>3, <1>4, OneExpires

LEMMA MprSelTimerStep ==
    ASSUME IInv, NEW n \in Routers, NEW m \in Node, MprSelTimer(n, m)
    PROVE  Step
<1> DEFINE t == RmMprselTuple(router[n], m)
<1>1. WellFormed(router[n])
  BY DEF IInv
<1>2. router' = [router EXCEPT ![n] = t] /\ UNCHANGED <<near, failures, calm>>
  BY DEF MprSelTimer
<1>3. Expired(router[n], t) /\ t.links = router[n].links
  BY <1>1, RmMprselTupleStep
<1> HIDE DEF t
<1> QED
  BY <1>2, <1>3, OneExpires

LEMMA Nb2hopTimerStep ==
    ASSUME IInv, NEW n \in Routers, NEW x, Nb2hopTimer(n, x)
    PROVE  Step
<1> DEFINE two == router[n].nb2hop \ {x}
           t == [router[n] EXCEPT !.nb2hop = two]
<1>1. router[n] \in Router /\ Linked(router[n]) /\ router \in [Routers -> Router]
  BY DEF IInv, WellFormed
<1>2. router' = [router EXCEPT ![n] = t] /\ UNCHANGED <<near, failures, calm>>
  BY <1>1 DEF Nb2hopTimer
<1>3. two \in SUBSET (Node \X Node)
  BY <1>1 DEF Router
<1> HIDE DEF two
<1>4. t \in Router
  BY <1>1, <1>3 DEF Router
<1>5. /\ t.links = router[n].links /\ t.nbset = router[n].nbset /\ t.status = router[n].status
      /\ t.mprsel = router[n].mprsel /\ t.ansn = router[n].ansn
      /\ t.topology = router[n].topology /\ t.msgs = router[n].msgs
  BY <1>1 DEF Router
<1> HIDE DEF t
<1>6. Expired(router[n], t)
  BY <1>1, <1>4, <1>5 DEF Expired, WellFormed, Linked
<1> QED
  BY <1>2, <1>5, <1>6, OneExpires

LEMMA TopologyTimerStep ==
    ASSUME IInv, NEW n \in Routers, NEW x, TopologyTimer(n, x)
    PROVE  Step
<1> DEFINE top == router[n].topology \ {x}
           t == [router[n] EXCEPT !.topology = top]
<1>1. router[n] \in Router /\ Linked(router[n]) /\ router \in [Routers -> Router]
  BY DEF IInv, WellFormed
<1>2. router' = [router EXCEPT ![n] = t] /\ UNCHANGED <<near, failures, calm>>
  BY <1>1 DEF TopologyTimer
<1>3. top \in SUBSET [dest : Node, last : Node, seq : 0..MAX_SEQ_NUM] /\ top \subseteq router[n].topology
  BY <1>1 DEF Router
<1> HIDE DEF top
<1>4. t \in Router
  BY <1>1, <1>3 DEF Router
<1>5. /\ t.links = router[n].links /\ t.nbset = router[n].nbset /\ t.status = router[n].status
      /\ t.mprsel = router[n].mprsel /\ t.ansn = router[n].ansn
      /\ t.topology = top /\ t.msgs = router[n].msgs
  BY <1>1 DEF Router
<1>6. router'[n] = t
  BY <1>1, <1>2
<1> HIDE DEF t
<1>7. WellFormed(t)
  BY <1>1, <1>4, <1>5 DEF WellFormed, Linked
<1>8. Moved(n)
  BY <1>3, <1>5, <1>6, <1>7 DEF Moved
<1> QED
  BY <1>2, <1>8, OneMoves

\* Two routers move out of range.
LEMMA LinkFailsStep ==
    ASSUME IInv, NEW n \in Routers, NEW m \in Routers, LinkFails(n, m)
    PROVE  Step
<1>1. near' = near \ {<<n, m>>, <<m, n>>} /\ UNCHANGED <<router, calm>>
  BY DEF LinkFails
<1>2. failures' \in Nat
  BY DEF LinkFails, IInv
<1>3. Mutual'
  <2> SUFFICES ASSUME NEW p \in near'
               PROVE  p[1] # p[2] /\ <<p[2], p[1]>> \in near'
    BY DEF Mutual
  <2>1. p \in near /\ p[1] # p[2] /\ <<p[2], p[1]>> \in near /\ p = <<p[1], p[2]>>
    BY <1>1 DEF IInv, Mutual
  <2> QED
    BY <1>1, <2>1
<1>4. \A k \in Routers : Moved(k)
  BY <1>1, StillMoved DEF IInv
<1> QED
  BY <1>1, <1>2, <1>3, <1>4 DEF Step, IInv, Routers

\* So every step is one of these.
LEMMA EveryStep ==
    ASSUME IInv, [Next]_vars
    PROVE  Step
<1>1. CASE UNCHANGED vars
  <2>1. \A k \in Routers : Moved(k)
    BY <1>1, StillMoved DEF IInv, vars
  <2> QED
    BY <1>1, <2>1 DEF Step, IInv, Mutual, Routers, vars
<1>2. ASSUME NEW n \in Routers, NEW m \in Routers, LinkFails(n, m)
      PROVE  Step
  BY <1>2, LinkFailsStep
<1>3. ASSUME NEW n \in Routers, TupleTimer(n)
      PROVE  Step
  BY <1>3, NeighborTimersStep, RemoveLinkStep, MprSelTimerStep, Nb2hopTimerStep, TopologyTimerStep
     DEF TupleTimer
<1> QED
  BY <1>1, <1>2, <1>3, SendHelloStep, SendTcStep, SendPktStep DEF Next

-----------------------------------------------------------------------------
\* Routers that know their neighbours

\* The tables of n are those of a router that has heard all its neighbours tell of
\* theirs: its MPRs are the ones that mpr_computation would choose again.
UpToDate(s, n) ==
    /\ \A m \in Node : /\ s.links[m].known <=> Audible(n, m)
                       /\ s.links[m].sym <=> Audible(n, m)
                       /\ s.links[m].asym <=> Audible(n, m)
                       /\ s.status[m] = IF Audible(n, m) THEN "sym" ELSE "none"
    /\ s.nb2hop = {t \in near : Audible(n, t[1]) /\ t[2] # n}
    /\ MprComputation(s, n).mprset = s.mprset

\* mpr_computation chooses the same MPRs as long as neighbours and 2-hop tuples stay.
LEMMA MprComputationSame ==
    ASSUME NEW s, WellFormed(s), NEW t, t \in Router,
           t.nbset = s.nbset, t.status = s.status, t.nb2hop = s.nb2hop, NEW n
    PROVE  MprComputation(t, n).mprset = MprComputation(s, n).mprset
<1>1. /\ s \in Router /\ s.nbset \in Seq(Node) /\ s.nb2hop \subseteq Node \X Node
      /\ s.nbset = t.nbset /\ s.status = t.status /\ s.nb2hop = t.nb2hop
  BY DEF WellFormed, Router
<1> DEFINE always(u) == {m \in SymNeighbors(u) : Willingness[m] = WILL_ALWAYS}
           two(u) == {x \in StrictTwoHop(u, n) :
                         \A m \in always(u) : x \in Uncovered(m, StrictTwoHop(u, n))}
           only(u) == OnlyProviders(two(u))
           rest(u) == {x \in two(u) : \A m \in only(u) : x \in Uncovered(m, two(u))}
           mprs(u) == always(u) \cup only(u) \cup GreedyMprs(u, rest(u))
<1>2. /\ MprComputation(s, n) = [s EXCEPT !.mprset = mprs(s)]
      /\ MprComputation(t, n) = [t EXCEPT !.mprset = mprs(t)]
  BY DEF MprComputation
<1>3. SymNeighbors(s) = SymNeighbors(t)
  BY <1>1 DEF SymNeighbors
<1>4. StrictTwoHop(s, n) = StrictTwoHop(t, n)
  BY <1>1, <1>3 DEF StrictTwoHop
<1>5. always(s) = always(t) /\ two(s) = two(t)
  BY <1>3, <1>4
<1>6. rest(s) \subseteq Node \X Node /\ \A x \in rest(s) : x[1] \in SymNeighbors(s)
  BY <1>1 DEF StrictTwoHop
<1> HIDE DEF always, two
<1>7. only(s) = only(t)
  BY <1>5
<1> HIDE DEF only
<1>8. rest(s) = rest(t)
  BY <1>5, <1>7
<1> HIDE DEF rest
<1>9. GreedyMprs(t, rest(s)) = GreedyMprs(s, rest(s))
  BY <1>1, <1>6, GreedyMprsSame
<1>10. mprs(s) = mprs(t)
  BY <1>5, <1>7, <1>8, <1>9
<1> HIDE DEF mprs
<1> QED
  BY <1>1, <1>2, <1>10 DEF Router

\* Hence a table stays up to date as long as none of its parts changes,
LEMMA UpToDateSame ==
    ASSUME NEW s, WellFormed(s), NEW t, t \in Router, NEW n, UpToDate(s, n),
           t.links = s.links, t.nbset = s.nbset, t.status = s.status,
           t.nb2hop = s.nb2hop, t.mprset = s.mprset
    PROVE  UpToDate(t, n)
<1>1. MprComputation(t, n).mprset = MprComputation(s, n).mprset
  BY MprComputationSame
<1> QED
  BY <1>1 DEF UpToDate

\* and mpr_computation has nothing to do.
LEMMA NothingToChoose ==
    ASSUME NEW s, WellFormed(s), NEW n, UpToDate(s, n)
    PROVE  MprComputation(s, n) = s
<1>1. PICK mprs \in SUBSET Node : MprComputation(s, n) = [s EXCEPT !.mprset = mprs]
  BY MprComputationType
<1>2. s \in Router /\ MprComputation(s, n).mprset = s.mprset
  BY DEF WellFormed, UpToDate
<1>3. mprs = s.mprset
  BY <1>1, <1>2 DEF Router
<1> QED
  BY <1>1, <1>2, <1>3 DEF Router

\* What a TC that passes by leaves alone.
SameTables(s, t) ==
    /\ t.links = s.links /\ t.nbset = s.nbset /\ t.status = s.status
    /\ t.nb2hop = s.nb2hop /\ t.mprset = s.mprset /\ t.mprsel = s.mprsel /\ t.ansn = s.ansn

\* There is a TC of o in the buffer.
HasTc(s, o) == \E msg \in ToSet(s.msgs) : msg.type = "TC" /\ msg.orig = o

\* The HELLOs on their way tell what the tables say, and nobody passes on a TC that it
\* has not noted, or floods a TC of its own that nobody hears.
CalmRouter(n) ==
    /\ UpToDate(router[n], n)
    /\ router[n].mprsel = {m \in Routers : n \in router[m].mprset}
    /\ \A msg \in ToSet(router[n].msgs) : msg.type = "HELLO" => msg = HelloMsg(router[n], n)
    /\ \A o \in Node : HasTc(router[n], o) => o \in router[n].dup \/ (o = n /\ router[n].mprsel # {})

CalmInv == calm => failures = 0 /\ \A n \in Routers : CalmRouter(n)

-----------------------------------------------------------------------------
\* The start

\* An order of a set of routers lists each of them once.
LEMMA OrderOf ==
    ASSUME NEW S, S \subseteq Node, NEW q \in SetToSeqs(S)
    PROVE  q \in Seq(Node) /\ IsInjective(q) /\ ToSet(q) = S
<1> DEFINE k == Cardinality(S)
<1>1. IsFiniteSet(S) /\ k \in Nat
  BY NodeAssumption, FS_Subset, FS_CardinalityType
<1>2. q \in [1 .. k -> S] /\ \A i, j \in 1 .. k : i # j => q[i] # q[j]
  BY DEF SetToSeqs
<1>3. IsInjective(q) /\ q \in Injection(1 .. k, S)
  BY <1>2 DEF IsInjective, Injection
<1>4. IsFiniteSet(1 .. k) /\ Cardinality(1 .. k) = k
  BY <1>1, FS_Interval
<1>5. q \in Surjection(1 .. k, S)
  BY <1>1, <1>3, <1>4, FS_Injection
<1>6. ToSet(q) = S
  BY <1>2, <1>5 DEF Surjection, ToSet
<1>7. q \in Seq(Node)
  <2> HIDE DEF k
  <2>1. q \in [1 .. k -> Node]
    BY <1>2
  <2> QED
    BY <1>1, <2>1
<1> QED
  BY <1>3, <1>6, <1>7

\* A router as it starts: nothing is under way, and it knows whom it hears, or nobody.
Starting(t) == WellFormed(t) /\ t.topology = {} /\ t.dup = {} /\ t.msgs = <<>>

LEMMA FreshStart ==
    Starting(Fresh) /\ \A m \in Node : ~Fresh.links[m].known /\ ~Fresh.links[m].sym
<1>1. Fresh \in Router
  BY DEF Fresh, Router, NoLink, MAX_SEQ_NUM
<1>2. Linked(Fresh)
  BY DEF Fresh, Linked, NoLink, IsInjective, ToSet
<1>3. Fresh.topology = {} /\ Fresh.dup = {} /\ Fresh.msgs = <<>>
  BY DEF Fresh
<1>4. \A m \in Node : ~Fresh.links[m].known /\ ~Fresh.links[m].sym
  BY DEF Fresh, NoLink
<1> QED
  BY <1>1, <1>2, <1>3, <1>4 DEF Starting, WellFormed

LEMMA InformedStart ==
    ASSUME near \subseteq Node \X Node, NEW n \in Node, NEW q \in SetToSeqs(Neighbors(n)), NEW late
    PROVE  LET t == Informed(n, q, late)
           IN  Starting(t) /\ UpToDate(t, n)
<1> DEFINE sym(m) == [known |-> TRUE, sym |-> TRUE, asym |-> TRUE, first |-> <<n, m>> \in late]
           links == [m \in Node |-> IF Audible(n, m) THEN sym(m) ELSE NoLink]
           status == [m \in Node |-> IF Audible(n, m) THEN "sym" ELSE "none"]
           two == {t \in near : Audible(n, t[1]) /\ t[2] # n}
           a == [Fresh EXCEPT !.links = links, !.nbset = q, !.status = status, !.nb2hop = two]
<1>1. Informed(n, q, late) = MprComputation(a, n)
  BY DEF Informed
<1>2. q \in Seq(Node) /\ IsInjective(q) /\ ToSet(q) = {m \in Node : Audible(n, m)}
  BY OrderOf DEF Neighbors
<1>3. /\ links \in [Node -> Entry]
      /\ \A m \in Node : /\ links[m].known <=> Audible(n, m)
                         /\ links[m].sym <=> Audible(n, m)
                         /\ links[m].asym <=> Audible(n, m)
  BY DEF NoLink, Entry
<1>4. /\ status \in [Node -> {"none", "not", "sym"}]
      /\ \A m \in Node : status[m] # "none" <=> Audible(n, m)
  OBVIOUS
<1>5. two \in SUBSET (Node \X Node)
  OBVIOUS
<1> HIDE DEF links, status, two
<1>6. Fresh \in Router /\ Fresh.topology = {} /\ Fresh.dup = {} /\ Fresh.msgs = <<>>
  BY FreshStart DEF Starting, WellFormed
<1>7. a \in Router
  BY <1>2, <1>3, <1>4, <1>5, <1>6 DEF Router, Entry
<1>8. /\ a.links = links /\ a.nbset = q /\ a.status = status /\ a.nb2hop = two
      /\ a.topology = {} /\ a.dup = {} /\ a.msgs = <<>>
  BY <1>6 DEF Router
<1> HIDE DEF a
<1>9. WellFormed(a)
  BY <1>2, <1>3, <1>4, <1>7, <1>8 DEF WellFormed, Linked
<1>10. PICK mprs \in SUBSET Node :
          WellFormed(MprComputation(a, n)) /\ MprComputation(a, n) = [a EXCEPT !.mprset = mprs]
  BY <1>9, MprComputationType
<1> DEFINE b == MprComputation(a, n)
<1>11. /\ b.links = a.links /\ b.nbset = a.nbset /\ b.status = a.status /\ b.nb2hop = a.nb2hop
       /\ b.topology = a.topology /\ b.dup = a.dup /\ b.msgs = a.msgs
  BY <1>7, <1>10 DEF Router
<1> HIDE DEF b
<1>12. MprComputation(b, n).mprset = b.mprset
  <2>1. b \in Router
    BY <1>10 DEF WellFormed, b
  <2>2. MprComputation(b, n).mprset = MprComputation(a, n).mprset
    BY <1>9, <1>11, <2>1, MprComputationSame
  <2> QED
    BY <2>2 DEF b
<1>13. UpToDate(b, n)
  BY <1>3, <1>8, <1>11, <1>12 DEF UpToDate, status, two
<1>14. Starting(b)
  BY <1>8, <1>10, <1>11 DEF Starting, b
<1> QED
  BY <1>1, <1>13, <1>14 DEF b

\* Its neighbours have told it whether it is their MPR.
LEMMA SelectedStart ==
    ASSUME NEW s, DOMAIN s \subseteq Node, NEW n \in DOMAIN s, Starting(s[n])
    PROVE  LET t == RtableComputation(Selected(s, n))
           IN  /\ Starting(t)
               /\ t.links = s[n].links /\ t.nbset = s[n].nbset /\ t.status = s[n].status
               /\ t.nb2hop = s[n].nb2hop /\ t.mprset = s[n].mprset
               /\ t.mprsel = {m \in DOMAIN s : n \in s[m].mprset}
               /\ Routed(t)
<1> DEFINE by == {m \in DOMAIN s : n \in s[m].mprset}
           ansn == (s[n].ansn + Cardinality(by)) % (MAX_SEQ_NUM + 1)
           a == [s[n] EXCEPT !.mprsel = by, !.ansn = ansn]
<1>1. /\ s[n] \in Router /\ Linked(s[n]) /\ n \in Node
      /\ s[n].topology = {} /\ s[n].dup = {} /\ s[n].msgs = <<>>
  BY DEF Starting, WellFormed
<1>2. by \in SUBSET Node /\ Cardinality(by) \in Nat
  BY NodeAssumption, FS_Subset, FS_CardinalityType
<1>3. ansn \in 0 .. MAX_SEQ_NUM
  <2>1. s[n].ansn \in 0 .. MAX_SEQ_NUM
    BY <1>1 DEF Router
  <2> HIDE DEF by
  <2> QED
    BY <1>2, <2>1, AnyNumber, Zenon
<1>4. Selected(s, n) = a
  BY DEF Selected
<1> HIDE DEF by, ansn
<1>5. a \in Router
  BY <1>1, <1>2, <1>3 DEF Router
<1>6. /\ a.links = s[n].links /\ a.nbset = s[n].nbset /\ a.status = s[n].status
      /\ a.nb2hop = s[n].nb2hop /\ a.mprset = s[n].mprset /\ a.mprsel = by
      /\ a.topology = {} /\ a.dup = {} /\ a.msgs = <<>>
  BY <1>1 DEF Router
<1> HIDE DEF a
<1>7. WellFormed(a)
  BY <1>1, <1>5, <1>6 DEF WellFormed, Linked
<1>8. PICK rt : WellFormed(RtableComputation(a)) /\ RtableComputation(a) = [a EXCEPT !.rt = rt]
  BY <1>1, <1>7, RtableComputationType
<1>9. LET t == RtableComputation(a)
      IN  /\ t.links = a.links /\ t.nbset = a.nbset /\ t.status = a.status
          /\ t.nb2hop = a.nb2hop /\ t.mprset = a.mprset /\ t.mprsel = a.mprsel
          /\ t.topology = a.topology /\ t.dup = a.dup /\ t.msgs = a.msgs
  BY <1>5, <1>8 DEF Router
<1>10. Routed(RtableComputation(a))
  BY <1>1, <1>7, RtableComputationRouted
<1> QED
  BY <1>4, <1>6, <1>8, <1>9, <1>10 DEF Starting, by

\* Hence every network starts with the invariant.
LEMMA InitStart ==
    ASSUME Init
    PROVE  /\ IInv /\ CalmInv
           /\ \A n \in Routers : Starting(router[n]) /\ (calm => Routed(router[n]))
<1>1. PICK st \in Start :
         /\ near = st.near
         /\ failures = st.failures
         /\ calm = (st.informed /\ st.failures = 0)
         /\ \/ ~st.informed /\ router = [n \in st.on |-> Fresh]
            \/ /\ st.informed
               /\ \E order \in Orders :
                     LET s == [n \in st.on |-> Informed(n, order[n], st.late)]
                     IN  router = [n \in st.on |-> RtableComputation(Selected(s, n))]
  BY DEF Init
<1>2. /\ st.on \subseteq Node /\ near \subseteq st.on \X st.on
      /\ \A p \in near : p[1] # p[2] /\ <<p[2], p[1]>> \in near
      /\ failures \in Nat
  BY <1>1, StartAssumption
<1>3. calm \in BOOLEAN
  BY <1>1
<1>4. Routers = st.on
  BY <1>1 DEF Routers
<1>5. ASSUME NEW n \in Routers
      PROVE  /\ Starting(router[n])
             /\ \A m \in Routers : Audible(n, m) /\ router[n].links[m].sym =>
                                       router[m].links[n].known
             /\ calm => /\ UpToDate(router[n], n)
                        /\ router[n].mprsel = {m \in Routers : n \in router[m].mprset}
                        /\ Routed(router[n])
  <2>1. n \in st.on /\ n \in Node
    BY <1>2, <1>4
  <2>2. CASE ~st.informed
    <3>1. router = [k \in st.on |-> Fresh]
      BY <1>1, <2>2
    <3>2. ~calm
      BY <1>1, <2>2
    <3> QED
      BY <1>2, <1>4, <2>1, <3>1, <3>2, FreshStart
  <2>3. CASE st.informed
    <3>1. PICK order \in Orders :
             router = [k \in st.on |->
                          RtableComputation(Selected([i \in st.on |-> Informed(i, order[i], st.late)], k))]
      BY <1>1, <2>3
    <3> DEFINE s == [i \in st.on |-> Informed(i, order[i], st.late)]
    <3>2. ASSUME NEW k \in st.on
          PROVE  Starting(s[k]) /\ UpToDate(s[k], k)
      <4>1. k \in Node /\ order[k] \in SetToSeqs(Neighbors(k))
        BY <1>2 DEF Orders
      <4>2. near \subseteq Node \X Node
        BY <1>2
      <4> QED
        BY <4>1, <4>2, InformedStart
    <3>3. DOMAIN s = st.on
      OBVIOUS
    <3> HIDE DEF s
    <3>4. ASSUME NEW k \in st.on
          PROVE  /\ Starting(router[k]) /\ UpToDate(router[k], k) /\ Routed(router[k])
                 /\ router[k].mprset = s[k].mprset
                 /\ router[k].mprsel = {m \in st.on : k \in s[m].mprset}
      <4>1. router[k] = RtableComputation(Selected(s, k))
        BY <3>1 DEF s
      <4>2. /\ Starting(router[k])
            /\ router[k].links = s[k].links /\ router[k].nbset = s[k].nbset
            /\ router[k].status = s[k].status /\ router[k].nb2hop = s[k].nb2hop
            /\ router[k].mprset = s[k].mprset
            /\ router[k].mprsel = {m \in st.on : k \in s[m].mprset}
            /\ Routed(router[k])
        BY <1>2, <3>2, <3>3, <4>1, SelectedStart
      <4>3. UpToDate(router[k], k)
        BY <3>2, <4>2, UpToDateSame DEF Starting, WellFormed
      <4> QED
        BY <4>2, <4>3
    <3>5. \A m \in Routers : Audible(n, m) => Audible(m, n)
      BY <1>2 DEF Audible
    <3>6. router[n].mprsel = {m \in Routers : n \in router[m].mprset}
      BY <1>4, <2>1, <3>4
    <3> QED
      BY <1>2, <1>4, <2>1, <3>4, <3>5, <3>6 DEF UpToDate
  <2> QED
    BY <2>2, <2>3
<1>6. router \in [Routers -> Router]
  <2>1. \A n \in Routers : router[n] \in Router
    BY <1>5 DEF Starting, WellFormed
  <2>2. router = [n \in Routers |-> router[n]]
    BY <1>1 DEF Routers
  <2> QED
    BY <2>1, <2>2
<1>7. \A n \in Routers : ToSet(router[n].msgs) = {}
  BY <1>5 DEF Starting, ToSet
<1>8. \A n \in Routers : HelloInv(n)
  BY <1>7 DEF HelloInv
<1>9. SymIsMutual
  BY <1>5 DEF SymIsMutual
<1>10. \A n \in Routers : WellFormed(router[n])
  BY <1>5 DEF Starting
<1>11. CalmInv
  <2>1. calm => failures = 0
    BY <1>1
  <2> QED
    BY <1>5, <1>7, <2>1 DEF CalmInv, CalmRouter, HasTc
<1> QED
  BY <1>2, <1>3, <1>4, <1>5, <1>6, <1>8, <1>9, <1>10, <1>11 DEF IInv, Mutual

-----------------------------------------------------------------------------
\* What holds in every network

\* The invariant the theorems below come from.
THEOREM Invariance == Spec => []IInv
<1>1. Init => IInv
  BY InitStart
<1>2. IInv /\ [Next]_vars => IInv'
  BY EveryStep, StepInv
<1> QED
  BY <1>1, <1>2, PTL DEF Spec

\* Every table keeps its type, and the neighbour set lists each neighbour with a status
\* once, in networks of any size and shape: mpr_computation and rtable_computation end.
THEOREM TypeCorrect == Spec => []TypeOK
<1>1. IInv => TypeOK
  BY DEF IInv, TypeOK, WellFormed, Linked
<1> QED
  BY <1>1, Invariance, PTL

\* A neighbour that counts as symmetric has a link tuple: the assertion of
\* rtable_computation that it finds a route to it cannot fail.
THEOREM NeighborsHaveLinksTheorem == Spec => []NeighborsHaveLinks
<1>1. IInv => NeighborsHaveLinks
  BY DEF IInv, NeighborsHaveLinks, WellFormed, Linked
<1> QED
  BY <1>1, Invariance, PTL

\* A link counts as symmetric only if the router at its other end knows it, however their
\* HELLOs crossed and whatever timers fired.
THEOREM SymIsMutualTheorem == Spec => []SymIsMutual
<1>1. IInv => SymIsMutual
  BY DEF IInv
<1> QED
  BY <1>1, Invariance, PTL

-----------------------------------------------------------------------------
\* The numbers of the selector sets

\* How often an ANSN has been counted up: initialize sets it to the greatest number.
Counted(a) == (a + 1) % (MAX_SEQ_NUM + 1)

\* A number is not counted up to the greatest again: between two states of a network that
\* remembers the first, a router has not had 65536 sets of selectors.
NoWrapStep ==
    \A n \in Routers : router'[n].ansn = MAX_SEQ_NUM => router[n].ansn = MAX_SEQ_NUM

\* What carries number a of router o says nothing of the future, and if a is still the
\* number of o it lists selectors of o only.
Past(o, a, list) ==
    /\ o \in Routers /\ a \in 0 .. MAX_SEQ_NUM
    /\ Counted(a) <= Counted(router[o].ansn)
    /\ a = router[o].ansn => list \subseteq router[o].mprsel

AnsnInv ==
    \A n \in Routers :
        /\ \A x \in router[n].topology : Past(x.last, x.seq, {x.dest})
        /\ \A msg \in ToSet(router[n].msgs) :
              msg.type = "TC" => Past(msg.orig, msg.ansn, msg.list)

\* Counting up counts.
LEMMA CountedStep ==
    ASSUME NEW a \in 0 .. MAX_SEQ_NUM
    PROVE  /\ Counted(a) \in Nat
           /\ (a + 1) % (MAX_SEQ_NUM + 1) # MAX_SEQ_NUM =>
                 Counted((a + 1) % (MAX_SEQ_NUM + 1)) = Counted(a) + 1
           /\ (a + 1) % (MAX_SEQ_NUM + 1) # a
  BY SMTT(30) DEF MAX_SEQ_NUM, Counted

\* What is past stays past.
LEMMA PastStays ==
    ASSUME IInv, Step, NoWrapStep, NEW o, NEW a, NEW list, Past(o, a, list)
    PROVE  Past(o, a, list)'
<1> DEFINE b == router[o].ansn
           c == router'[o].ansn
<1>1. o \in Routers /\ Routers' = Routers /\ a \in 0 .. MAX_SEQ_NUM
  BY DEF Past, Step
<1>2. b \in 0 .. MAX_SEQ_NUM /\ c \in 0 .. MAX_SEQ_NUM
  BY <1>1 DEF IInv, Step, Router
<1>3. CASE router'[o].mprsel = router[o].mprsel /\ c = b
  BY <1>1, <1>3 DEF Past
<1>4. CASE c # b /\ c = NextAnsn(router[o])
  <2>1. c = (b + 1) % (MAX_SEQ_NUM + 1)
    BY <1>4 DEF NextAnsn
  <2>2. c # MAX_SEQ_NUM
    <3>1. c = MAX_SEQ_NUM => b = MAX_SEQ_NUM
      BY <1>1 DEF NoWrapStep
    <3> QED
      BY <1>4, <3>1
  <2> HIDE DEF b, c
  <2>3. Counted(a) \in Nat /\ Counted(b) \in Nat /\ Counted(c) = Counted(b) + 1
    BY <1>1, <1>2, <2>1, <2>2, CountedStep, Zenon
  <2>4. Counted(a) <= Counted(b)
    BY DEF Past, b
  <2>5. Counted(a) <= Counted(c) /\ Counted(a) # Counted(c)
    BY <2>3, <2>4
  <2>6. a # c
    BY <2>5
  <2> QED
    BY <1>1, <2>5, <2>6 DEF Past, c
<1>5. \/ router'[o].mprsel = router[o].mprsel /\ c = b
      \/ c = NextAnsn(router[o]) /\ c # b
  <2>1. \/ router'[o].mprsel = router[o].mprsel /\ c = b
        \/ c = NextAnsn(router[o])
    BY <1>1 DEF Step, Moved
  <2>2. NextAnsn(router[o]) # b
    BY <1>2, CountedStep, Zenon DEF NextAnsn
  <2> QED
    BY <2>1, <2>2
<1> QED
  BY <1>3, <1>4, <1>5

LEMMA StepAnsn ==
    ASSUME IInv, Step, NoWrapStep, AnsnInv
    PROVE  AnsnInv'
<1>1. Routers' = Routers /\ \A n \in Routers : Moved(n)
  BY DEF Step
<1>2. ASSUME NEW msg \in Queued, msg.type = "TC"
      PROVE  Past(msg.orig, msg.ansn, msg.list)
  BY <1>2 DEF AnsnInv, Queued
<1> SUFFICES ASSUME NEW n \in Routers
             PROVE  /\ \A x \in router'[n].topology : Past(x.last, x.seq, {x.dest})'
                    /\ \A msg \in ToSet(router'[n].msgs) :
                          msg.type = "TC" => Past(msg.orig, msg.ansn, msg.list)'
  BY <1>1 DEF AnsnInv
<1>3. ASSUME NEW x \in router'[n].topology
      PROVE  Past(x.last, x.seq, {x.dest})'
  <2>1. CASE x \in router[n].topology
    <3>1. Past(x.last, x.seq, {x.dest})
      BY <2>1 DEF AnsnInv
    <3> QED
      BY <3>1, PastStays
  <2>2. CASE \E msg \in Queued : Told(x, msg)
    <3>1. PICK msg \in Queued : Told(x, msg)
      BY <2>2
    <3>2. Past(msg.orig, msg.ansn, msg.list)
      BY <1>2, <3>1 DEF Told
    <3>3. Past(x.last, x.seq, {x.dest})
      BY <3>1, <3>2 DEF Told, Past
    <3> QED
      BY <3>3, PastStays
  <2> QED
    BY <1>1, <2>1, <2>2 DEF Moved
<1>4. ASSUME NEW msg \in ToSet(router'[n].msgs), msg.type = "TC"
      PROVE  Past(msg.orig, msg.ansn, msg.list)'
  <2>1. Past(msg.orig, msg.ansn, msg.list)
    <3>1. CASE msg \in ToSet(router[n].msgs)
      BY <1>4, <3>1 DEF AnsnInv
    <3>2. CASE msg = TcMsg(router[n], n)
      <4>1. msg.orig = n /\ msg.ansn = router[n].ansn /\ msg.list = router[n].mprsel
        BY <3>2 DEF TcMsg
      <4>2. router[n].ansn \in 0 .. MAX_SEQ_NUM
        BY DEF IInv, Router
      <4>3. Counted(router[n].ansn) \in Nat
        BY <4>2, CountedStep
      <4> QED
        BY <4>1, <4>2, <4>3 DEF Past
    <3>3. CASE msg \in Queued
      BY <1>2, <1>4, <3>3
    <3>4. msg # HelloMsg(router[n], n)
      BY <1>4 DEF HelloMsg
    <3> QED
      BY <1>1, <3>1, <3>2, <3>3, <3>4 DEF Moved
  <2> QED
    BY <2>1, PastStays
<1> QED
  BY <1>3, <1>4

\* An ANSN names one set of selectors, in every network in which no router has had so many
\* sets of selectors that its number came round.
THEOREM AnsnNamesSelectorsTheorem == Spec /\ [][NoWrapStep]_vars => []AnsnNamesSelectors
<1>1. Init => AnsnInv
  <2> SUFFICES ASSUME Init
               PROVE  AnsnInv
    OBVIOUS
  <2>1. \A n \in Routers : router[n].topology = {} /\ ToSet(router[n].msgs) = {}
    BY InitStart DEF Starting, ToSet
  <2> QED
    BY <2>1 DEF AnsnInv
<1>2. IInv /\ AnsnInv /\ [Next]_vars /\ [NoWrapStep]_vars => AnsnInv'
  <2> SUFFICES ASSUME IInv, AnsnInv, [Next]_vars, [NoWrapStep]_vars
               PROVE  AnsnInv'
    OBVIOUS
  <2>1. Step
    BY EveryStep
  <2>2. NoWrapStep
    BY DEF NoWrapStep, vars
  <2> QED
    BY <2>1, <2>2, StepAnsn
<1>3. AnsnInv => AnsnNamesSelectors
  BY DEF AnsnInv, Past, AnsnNamesSelectors
<1> QED
  BY <1>1, <1>2, <1>3, Invariance, PTL DEF Spec

-----------------------------------------------------------------------------
\* Flooding in a calm network

\* A HELLO of a router that is up to date tells another one nothing new.
LEMMA NothingNew ==
    ASSUME Mutual, near \subseteq Node \X Node,
           NEW s, WellFormed(s), NEW n \in Node, UpToDate(s, n),
           NEW u, WellFormed(u), NEW m \in Node, UpToDate(u, m),
           Audible(n, m), n \in u.mprset => m \in s.mprsel
    PROVE  ProcessHello(s, n, HelloMsg(u, m)) = s
<1> DEFINE h == HelloMsg(u, m)
           mine == {e \in h.list : e.addr = n /\ ~(e.link = "sym" /\ e.nb = "not")}
           sym == IF mine = {} THEN s.links[m].sym ELSE \A e \in mine : e.link # "lost"
           listed == {e.addr : e \in {x \in h.list : x.nb # "not"}} \ {n}
           denied == {e.addr : e \in {x \in h.list : x.nb = "not"}}
<1>1. Audible(m, n) /\ m # n
  BY DEF Mutual, Audible
<1>2. h.orig = m /\ h.list = {LinkCode(u, k) : k \in {x \in Node : Audible(m, x)}}
  BY DEF HelloMsg, UpToDate
<1>3. \A k \in Node : Audible(m, k) =>
         /\ LinkCode(u, k).addr = k /\ LinkCode(u, k).link = "sym"
         /\ LinkCode(u, k).nb = IF k \in u.mprset THEN "mpr" ELSE "sym"
  BY DEF LinkCode, UpToDate
<1>4. /\ \A e \in h.list : /\ e.addr \in Node /\ Audible(m, e.addr) /\ e.link = "sym"
                           /\ e.nb = IF e.addr \in u.mprset THEN "mpr" ELSE "sym"
      /\ \A k \in Node : Audible(m, k) => \E e \in h.list : e.addr = k
  BY <1>2, <1>3
<1> HIDE DEF h
<1>5. sym = TRUE
  BY <1>4 DEF UpToDate
<1>6. /\ s \in Router /\ s.links[m] \in Entry /\ s.links \in [Node -> Entry]
      /\ s.links[m].known = TRUE /\ s.links[m].sym = TRUE /\ s.links[m].asym = TRUE
      /\ s.status[m] = "sym" /\ s.status \in [Node -> {"none", "not", "sym"}]
  BY DEF WellFormed, Router, Entry, UpToDate
<1>7. LinkSensing(s, n, h) = s
  <2> DEFINE entry == [known |-> TRUE, asym |-> TRUE, sym |-> sym,
                       first |-> IF ~s.links[m].known THEN sym ELSE s.links[m].first]
  <2>1. entry = s.links[m]
    <3> HIDE DEF sym
    <3> QED
      BY <1>5, <1>6 DEF Entry
  <2>2. LinkSensing(s, n, h) =
          [s EXCEPT !.links[m] = entry,
                    !.nbset = IF ~s.links[m].known THEN Append(@, m) ELSE @,
                    !.status[m] = IF sym THEN "sym" ELSE "not"]
    <3>1. LinkSensing(s, n, h) =
            [s EXCEPT !.links[m] = [known |-> TRUE, asym |-> TRUE, sym |-> sym,
                                    first |-> IF ~s.links[m].known THEN sym ELSE @.first],
                      !.nbset = IF ~s.links[m].known THEN Append(@, m) ELSE @,
                      !.status[m] = IF sym THEN "sym" ELSE "not"]
      BY <1>2 DEF LinkSensing
    <3> HIDE DEF sym
    <3> QED
      BY <1>6, <3>1 DEF Router
  <2> HIDE DEF sym, entry
  <2>3. LinkSensing(s, n, h) = [s EXCEPT !.links[m] = s.links[m], !.status[m] = s.status[m]]
    BY <1>5, <1>6, <2>1, <2>2 DEF Router
  <2>4. [s.links EXCEPT ![m] = s.links[m]] = s.links /\ [s.status EXCEPT ![m] = s.status[m]] = s.status
    BY <1>6
  <2> DEFINE links == [s.links EXCEPT ![m] = s.links[m]]
             status == [s.status EXCEPT ![m] = s.status[m]]
  <2>5. LinkSensing(s, n, h) = [s EXCEPT !.links = links, !.status = status]
    BY <1>6, <2>3 DEF Router
  <2>6. links = s.links /\ status = s.status
    BY <2>4
  <2> HIDE DEF links, status
  <2> QED
    BY <1>6, <2>5, <2>6 DEF Router
<1>8. PopulateNb2hopset(s, n, h) = s
  <2>1. denied = {}
    BY <1>4
  <2>2. listed = {k \in Node : Audible(m, k)} \ {n}
    BY <1>4
  <2>3. {m} \X listed \subseteq s.nb2hop
    BY <2>2 DEF UpToDate, Audible
  <2>4. PopulateNb2hopset(s, n, h) = [s EXCEPT !.nb2hop = (s.nb2hop \cup ({m} \X listed)) \ ({m} \X denied)]
    BY <1>2, <1>6 DEF PopulateNb2hopset
  <2>5. (s.nb2hop \cup ({m} \X listed)) \ ({m} \X denied) = s.nb2hop
    <3> HIDE DEF listed, denied
    <3> QED
      BY <2>1, <2>3
  <2> HIDE DEF listed, denied
  <2> QED
    BY <1>6, <2>4, <2>5 DEF Router
<1>9. MprComputation(s, n) = s
  BY NothingToChoose
<1>10. PopulateMprselset(s, n, h) = s
  BY <1>2, <1>4 DEF PopulateMprselset
<1> QED
  BY <1>7, <1>8, <1>9, <1>10 DEF ProcessHello, h

\* A router t is the router s after the messages M from a neighbour: it has noted their
\* TCs, and will pass on those that were new if the neighbour chose it.
Flooded(s, t, n, from, M) ==
    LET heard(o) == o # n /\ \E msg \in M : msg.type = "TC" /\ msg.orig = o
    IN  /\ WellFormed(t)
        /\ SameTables(s, t)
        /\ t.dup = s.dup \cup {o \in Node : heard(o)}
        /\ \A o \in Node :
              HasTc(t, o) <=> HasTc(s, o) \/ (heard(o) /\ o \notin s.dup /\ from \in s.mprsel)
        /\ \A msg \in ToSet(t.msgs) : msg.type = "HELLO" => msg \in ToSet(s.msgs)

\* recv_olsr, of one message of a router that is up to date to another one.
LEMMA CalmMsg ==
    ASSUME Mutual, near \subseteq Node \X Node,
           NEW s, WellFormed(s), NEW n \in Node, UpToDate(s, n),
           NEW u, WellFormed(u), NEW m \in Node, UpToDate(u, m),
           Audible(n, m), n \in u.mprset => m \in s.mprsel,
           NEW msg \in HelloMessage \cup TcMessage, msg.type = "HELLO" => msg = HelloMsg(u, m)
    PROVE  Flooded(s, HandleMsg(s, n, m, msg), n, m, {msg})
<1> DEFINE t == HandleMsg(s, n, m, msg)
           heard(o) == o # n /\ msg.type = "TC" /\ msg.orig = o
<1>1. s \in Router /\ s.dup \subseteq Node /\ s.links[m].sym
  BY DEF WellFormed, Router, UpToDate
<1>a. ASSUME NEW v, WellFormed(v), SameTables(s, v), v.dup = s.dup \cup {o \in Node : heard(o)},
             \A o \in Node : HasTc(v, o) <=> HasTc(s, o) \/ (heard(o) /\ o \notin s.dup /\ m \in s.mprsel),
             \A x \in ToSet(v.msgs) : x.type = "HELLO" => x \in ToSet(s.msgs)
      PROVE  Flooded(s, v, n, m, {msg})
  BY <1>a DEF Flooded
<1>2. ASSUME msg.type = "HELLO"
      PROVE  Flooded(s, t, n, m, {msg})
  <2>1. t = s
    BY <1>2, NothingNew DEF HandleMsg
  <2>2. \A o : ~heard(o)
    BY <1>2
  <2> HIDE DEF t, heard
  <2>3. Flooded(s, s, n, m, {msg})
    BY <1>a, <2>2 DEF SameTables
  <2> QED
    BY <2>1, <2>3
<1>3. ASSUME msg.type # "HELLO"
      PROVE  Flooded(s, t, n, m, {msg})
  <2>1. msg \in TcMessage /\ msg.type = "TC" /\ msg.orig \in Node
    BY <1>3 DEF HelloMessage, TcMessage
  <2>2. CASE msg.orig = n \/ msg.orig \in s.dup
    <3>1. t = s
      BY <1>3, <2>2 DEF HandleMsg
    <3>2. \A o : heard(o) => o \in s.dup
      BY <2>2
    <3> HIDE DEF t, heard
    <3>3. Flooded(s, s, n, m, {msg})
      BY <1>1, <1>a, <3>2 DEF SameTables
    <3> QED
      BY <3>1, <3>3
  <2>3. CASE msg.orig # n /\ msg.orig \notin s.dup
    <3> DEFINE a == ProcessTc(s, msg)
               noted == [a EXCEPT !.dup = a.dup \cup {msg.orig}]
    <3>1. t = ForwardDefault(a, m, msg)
      BY <1>1, <1>3, <2>3 DEF HandleMsg
    <3>2. WellFormed(a) /\ a.dup = s.dup /\ a.mprsel = s.mprsel /\ a.msgs = s.msgs /\ SameTables(s, a)
      <4>1. /\ WellFormed(a) /\ a.dup = s.dup /\ a.mprsel = s.mprsel /\ a.msgs = s.msgs
        BY <2>1, ProcessTcStep
      <4>2. a = s \/ \E T : a = [s EXCEPT !.topology = T]
        BY DEF ProcessTc
      <4> HIDE DEF a
      <4> QED
        BY <1>1, <4>1, <4>2 DEF SameTables, Router
    <3> HIDE DEF a
    <3>3. t = IF m \in a.mprsel THEN Enqueue(noted, msg) ELSE noted
      BY <3>1, <3>2 DEF ForwardDefault
    <3>4. a \in Router /\ a.dup \cup {msg.orig} \in SUBSET Node
      BY <1>1, <2>1, <3>2 DEF WellFormed
    <3>5. noted \in Router
      BY <3>4 DEF Router
    <3>6. /\ noted.dup = s.dup \cup {msg.orig} /\ noted.msgs = s.msgs /\ SameTables(s, noted)
          /\ noted.mprsel = s.mprsel
      BY <3>2, <3>4 DEF SameTables, Router
    <3>7. WellFormed(t) /\ WellFormed(noted)
      BY <2>1, <3>1, <3>2, <3>5, <3>6, ForwardDefaultStep DEF WellFormed, Linked, SameTables
    <3> HIDE DEF noted, t
    <3>10. {o \in Node : heard(o)} = {msg.orig} /\ \A o : heard(o) <=> o = msg.orig
      BY <2>1, <2>3
    <3> HIDE DEF heard
    <3>8. CASE m \in a.mprsel
      <4>1. t = [noted EXCEPT !.msgs = Append(noted.msgs, msg)]
        BY <3>3, <3>8 DEF Enqueue
      <4>2. t.dup = noted.dup /\ SameTables(noted, t)
        BY <3>5, <4>1 DEF SameTables, Router
      <4>3. t = Enqueue(noted, msg)
        BY <3>3, <3>8
      <4>4. ToSet(t.msgs) = ToSet(s.msgs) \cup {msg}
        BY <2>1, <3>6, <3>7, <4>3, EnqueueStep
      <4>5. \A o \in Node : HasTc(t, o) <=> HasTc(s, o) \/ o = msg.orig
        BY <2>1, <4>4 DEF HasTc
      <4>6. SameTables(s, t) /\ t.dup = s.dup \cup {msg.orig}
        BY <3>6, <4>2 DEF SameTables
      <4>7. \A x \in ToSet(t.msgs) : x.type = "HELLO" => x \in ToSet(s.msgs)
        BY <2>1, <4>4
      <4> QED
        BY <1>a, <2>1, <2>3, <3>2, <3>7, <3>8, <3>10, <4>5, <4>6, <4>7
    <3>9. CASE m \notin a.mprsel
      <4>1. t = noted
        BY <3>3, <3>9
      <4>2. \A o \in Node : HasTc(t, o) <=> HasTc(s, o)
        BY <3>6, <4>1 DEF HasTc
      <4> QED
        BY <1>a, <2>3, <3>2, <3>6, <3>7, <3>9, <3>10, <4>1, <4>2
    <3> QED
      BY <3>8, <3>9
  <2> QED
    BY <2>2, <2>3
<1> QED
  BY <1>2, <1>3

\* One message after others.
LEMMA FloodedTransitive ==
    ASSUME NEW s, NEW t, NEW u, NEW n, NEW from, NEW L, NEW msg,
           Flooded(s, t, n, from, L), Flooded(t, u, n, from, {msg})
    PROVE  Flooded(s, u, n, from, L \cup {msg})
<1> DEFINE told(o, M) == \E x \in M : x.type = "TC" /\ x.orig = o
<1>1. /\ WellFormed(u)
      /\ SameTables(s, t) /\ SameTables(t, u)
      /\ t.dup = s.dup \cup {o \in Node : o # n /\ told(o, L)}
      /\ u.dup = t.dup \cup {o \in Node : o # n /\ told(o, {msg})}
      /\ \A x \in ToSet(u.msgs) : x.type = "HELLO" => x \in ToSet(s.msgs)
  BY DEF Flooded
<1>2. SameTables(s, u)
  BY <1>1 DEF SameTables
<1>3. \A o : told(o, L \cup {msg}) <=> told(o, L) \/ told(o, {msg})
  OBVIOUS
<1>4. \A o \in Node :
         /\ HasTc(t, o) <=> HasTc(s, o) \/ (o # n /\ told(o, L) /\ o \notin s.dup /\ from \in s.mprsel)
         /\ HasTc(u, o) <=> HasTc(t, o) \/ (o # n /\ told(o, {msg}) /\ o \notin t.dup /\ from \in t.mprsel)
  BY DEF Flooded
<1>5. t.mprsel = s.mprsel
  BY <1>1 DEF SameTables
<1> HIDE DEF told
<1>6. u.dup = s.dup \cup {o \in Node : o # n /\ told(o, L \cup {msg})}
  BY <1>1, <1>3
<1>7. \A o \in Node :
         HasTc(u, o) <=> HasTc(s, o) \/ (o # n /\ told(o, L \cup {msg}) /\ o \notin s.dup /\ from \in s.mprsel)
  <2> TAKE o \in Node
  <2>1. o \in t.dup <=> o \in s.dup \/ (o # n /\ told(o, L))
    BY <1>1
  <2> QED
    BY <1>3, <1>4, <1>5, <2>1
<1> QED
  BY <1>1, <1>2, <1>6, <1>7 DEF Flooded, told

\* What is true of a calm network and a router in it may know: a TC names all selectors of
\* a router in reach, under its present number.
TrueTc(n, msg) ==
    /\ msg.orig \in Routers /\ msg.orig \in DOMAIN Distance(n)
    /\ msg.list = router[msg.orig].mprsel /\ msg.ansn = router[msg.orig].ansn

\* The topology set s of n says so too, and completely for each router whose TC has come.
WellInformed(s, n) ==
    /\ \A x \in s.topology : /\ x.last \in Routers /\ x.last \in DOMAIN Distance(n)
                             /\ x.dest \in router[x.last].mprsel /\ x.seq = router[x.last].ansn
    /\ \A msg \in ToSet(s.msgs) : msg.type = "TC" => TrueTc(n, msg)
    /\ \A o \in s.dup : /\ o \in Routers
                        /\ \A d \in router[o].mprsel : \E x \in s.topology : x.last = o /\ x.dest = d

\* process_tc, forward_default: of a TC that is true.
LEMMA TcInforms ==
    ASSUME IInv, NEW s, WellFormed(s), NEW n, NEW from, WellInformed(s, n),
           NEW msg \in TcMessage, TrueTc(n, msg)
    PROVE  WellInformed(ForwardDefault(ProcessTc(s, msg), from, msg), n)
<1> DEFINE known == {x \in s.topology : x.last = msg.orig}
           kept == {x \in s.topology : x.last # msg.orig \/ x.seq >= msg.ansn}
           new == msg.list \ {x.dest : x \in known \cap kept}
           more == {[dest |-> d, last |-> msg.orig, seq |-> msg.ansn] : d \in new}
           a == ProcessTc(s, msg)
           noted == [a EXCEPT !.dup = a.dup \cup {msg.orig}]
           t == ForwardDefault(a, from, msg)
<1>1. /\ s \in Router /\ s.dup \in SUBSET Node /\ msg.orig \in Node /\ msg.type = "TC"
      /\ msg.orig \in Routers /\ msg.orig \in DOMAIN Distance(n)
      /\ msg.list = router[msg.orig].mprsel /\ msg.ansn = router[msg.orig].ansn
      /\ msg.ansn \in Nat
  BY DEF WellFormed, Router, TcMessage, TrueTc
<1>2. \A x \in s.topology : /\ x.last \in Routers /\ x.last \in DOMAIN Distance(n)
                            /\ x.dest \in router[x.last].mprsel /\ x.seq = router[x.last].ansn
  BY DEF WellInformed
<1>3. \A x \in known : x.seq = msg.ansn
  BY <1>1, <1>2
<1>4. kept = s.topology
  BY <1>1, <1>2
<1>5. ~ \E x \in known : x.seq > msg.ansn
  BY <1>1, <1>3
<1>6. a = [s EXCEPT !.topology = kept \cup more]
  BY <1>5 DEF ProcessTc
<1>7. known \cap kept = known
  BY <1>4
<1> HIDE DEF a, more, new, kept, known
<1>8. /\ a.topology = s.topology \cup more
      /\ a.dup = s.dup /\ a.msgs = s.msgs /\ a.mprsel = s.mprsel
  BY <1>1, <1>4, <1>6 DEF Router
<1>9. WellFormed(a) /\ a \in Router
  BY ProcessTcStep DEF a, WellFormed
<1>10. WellFormed(noted)
  <2>1. a.dup \cup {msg.orig} \in SUBSET Node
    BY <1>1, <1>8
  <2>2. noted \in Router
    BY <1>9, <2>1 DEF Router
  <2>3. noted.links = a.links /\ noted.nbset = a.nbset /\ noted.status = a.status
    BY <1>9 DEF Router
  <2> HIDE DEF noted
  <2> QED
    BY <1>9, <2>2, <2>3 DEF WellFormed, Linked
<1>11. /\ noted.topology = s.topology \cup more
       /\ noted.dup = s.dup \cup {msg.orig} /\ noted.msgs = s.msgs
  BY <1>8, <1>9 DEF Router
<1>12. /\ t.topology = s.topology \cup more
       /\ t.dup = s.dup \cup {msg.orig} /\ ToSet(t.msgs) \subseteq ToSet(s.msgs) \cup {msg}
  <2>1. t = IF from \in a.mprsel THEN Enqueue(noted, msg) ELSE noted
    BY <1>9 DEF ForwardDefault
  <2> HIDE DEF noted, t
  <2>2. CASE from \in a.mprsel
    <3>1. t = Enqueue(noted, msg)
      BY <2>1, <2>2
    <3> QED
      BY <1>10, <1>11, <3>1, EnqueueStep
  <2>3. CASE from \notin a.mprsel
    BY <1>11, <2>1, <2>3
  <2> QED
    BY <2>2, <2>3
<1> HIDE DEF noted, t
<1>13. \A x \in more : x.last = msg.orig /\ x.seq = msg.ansn /\ x.dest \in msg.list
  BY DEF more, new
<1>14. ASSUME NEW d \in msg.list
       PROVE  \E x \in s.topology \cup more : x.last = msg.orig /\ x.dest = d
  <2>1. CASE d \in new
    <3>1. [dest |-> d, last |-> msg.orig, seq |-> msg.ansn] \in more
      BY <2>1 DEF more
    <3> QED
      BY <3>1
  <2>2. CASE d \notin new
    BY <1>7, <2>2 DEF new, known
  <2> QED
    BY <2>1, <2>2
<1>15. \A x \in t.topology : /\ x.last \in Routers /\ x.last \in DOMAIN Distance(n)
                             /\ x.dest \in router[x.last].mprsel /\ x.seq = router[x.last].ansn
  BY <1>1, <1>2, <1>12, <1>13
<1>16. \A x \in ToSet(t.msgs) : x.type = "TC" => TrueTc(n, x)
  BY <1>12 DEF WellInformed
<1>17. ASSUME NEW o \in t.dup
       PROVE  /\ o \in Routers
              /\ \A d \in router[o].mprsel : \E x \in t.topology : x.last = o /\ x.dest = d
  <2>1. CASE o = msg.orig
    BY <1>1, <1>12, <1>14, <2>1
  <2>2. CASE o \in s.dup
    BY <1>12, <2>2 DEF WellInformed
  <2> QED
    BY <1>12, <2>1, <2>2
<1>18. WellInformed(t, n)
  BY <1>15, <1>16, <1>17 DEF WellInformed
<1> QED
  BY <1>18 DEF t, a

\* recv_olsr: the whole packet.
LEMMA CalmPacket ==
    ASSUME Mutual, near \subseteq Node \X Node,
           NEW s, WellFormed(s), NEW n \in Node, UpToDate(s, n),
           NEW u, WellFormed(u), NEW m \in Node, UpToDate(u, m),
           Audible(n, m), n \in u.mprset => m \in s.mprsel,
           \A msg \in ToSet(u.msgs) : msg.type = "HELLO" => msg = HelloMsg(u, m)
    PROVE  /\ Flooded(s, RecvOlsr(s, n, m, u.msgs), n, m, ToSet(u.msgs))
           /\ /\ IInv /\ WellInformed(s, n)
              /\ \A msg \in ToSet(u.msgs) : msg.type = "TC" => TrueTc(n, msg)
              => WellInformed(RecvOlsr(s, n, m, u.msgs), n)
           /\ Routed(RecvOlsr(s, n, m, u.msgs))
<1> DEFINE msgs == u.msgs
           after == AfterMsgs(s, n, m, msgs)
           First(i) == {msgs[j] : j \in 1 .. i}
           Truth == /\ IInv /\ WellInformed(s, n)
                    /\ \A msg \in ToSet(msgs) : msg.type = "TC" => TrueTc(n, msg)
           Good(i) == Flooded(s, after[i], n, m, First(i)) /\ (Truth => WellInformed(after[i], n))
           T == {i \in Nat : i \in 0 .. Len(msgs) => Good(i)}
<1>1. /\ msgs \in Seq(HelloMessage \cup TcMessage) /\ Len(msgs) \in Nat
      /\ s.dup \subseteq Node
  BY DEF WellFormed, Router
<1> HIDE DEF msgs
<1>2. after = [i \in 0 .. Len(msgs) |-> IF i = 0 THEN s ELSE HandleMsg(after[i - 1], n, m, msgs[i])]
  BY <1>1, AfterMsgsDef
<1> HIDE DEF after, Truth
<1>3. 0 \in T
  <2>1. after[0] = s
    BY <1>1, <1>2
  <2>2. Flooded(s, s, n, m, First(0))
    BY <1>1 DEF Flooded, SameTables
  <2>3. Truth => WellInformed(s, n)
    BY DEF Truth
  <2> HIDE DEF First
  <2> QED
    BY <2>1, <2>2, <2>3
<1>4. ASSUME NEW i \in T
      PROVE  i + 1 \in T
  <2>1. i \in Nat /\ i + 1 \in Nat
    OBVIOUS
  <2>2. ASSUME i + 1 \in 0 .. Len(msgs)
        PROVE  Good(i + 1)
    <3> DEFINE a == after[i]
               msg == msgs[i + 1]
    <3>1. i \in 0 .. Len(msgs) /\ i + 1 # 0 /\ (i + 1) - 1 = i /\ i + 1 \in DOMAIN msgs
      BY <1>1, <2>1, <2>2
    <3>2. Flooded(s, a, n, m, First(i)) /\ (Truth => WellInformed(a, n))
      <4> HIDE DEF First
      <4> QED
        BY <3>1
    <3>3. after[i + 1] = HandleMsg(a, n, m, msg)
      BY <1>2, <2>2, <3>1
    <3>4. msg \in ToSet(msgs) /\ msg \in HelloMessage \cup TcMessage
      BY <1>1, <3>1 DEF ToSet
    <3>5. First(i + 1) = First(i) \cup {msg}
      <4>1. \A j : j \in 1 .. i + 1 <=> j \in 1 .. i \/ j = i + 1
        BY <2>1
      <4> QED
        BY <4>1
    <3>6. WellFormed(a) /\ SameTables(s, a)
      BY <3>2 DEF Flooded
    <3> HIDE DEF a, msg, First
    <3>7. UpToDate(a, n) /\ (n \in u.mprset => m \in a.mprsel)
      BY <3>6, UpToDateSame DEF WellFormed, SameTables
    <3>8. msg.type = "HELLO" => msg = HelloMsg(u, m)
      BY <3>4 DEF msgs
    <3>9. Flooded(a, HandleMsg(a, n, m, msg), n, m, {msg})
      BY <3>4, <3>6, <3>7, <3>8, CalmMsg
    <3>10. Flooded(s, HandleMsg(a, n, m, msg), n, m, First(i) \cup {msg})
      BY <3>2, <3>9, FloodedTransitive
    <3>11. ASSUME Truth
           PROVE  WellInformed(HandleMsg(a, n, m, msg), n)
      <4>1. WellInformed(a, n)
        BY <3>2, <3>11
      <4>2. CASE msg.type = "HELLO"
        <5>1. ProcessHello(a, n, msg) = a
          BY <3>6, <3>7, <3>8, <4>2, NothingNew
        <5> QED
          BY <4>1, <4>2, <5>1 DEF HandleMsg
      <4>3. CASE msg.type # "HELLO"
        <5>1. msg \in TcMessage /\ msg.type = "TC"
          BY <3>4, <4>3 DEF HelloMessage, TcMessage
        <5>2. IInv /\ TrueTc(n, msg)
          BY <3>4, <3>11, <5>1 DEF Truth
        <5>3. WellInformed(ForwardDefault(ProcessTc(a, msg), m, msg), n)
          BY <3>6, <4>1, <5>1, <5>2, TcInforms
        <5> QED
          BY <4>1, <4>3, <5>3 DEF HandleMsg
      <4> QED
        BY <4>2, <4>3
    <3> QED
      BY <3>3, <3>5, <3>10, <3>11
  <2> HIDE DEF First
  <2> QED
    BY <2>1, <2>2
<1> DEFINE a == after[Len(msgs)]
<1>5. Flooded(s, a, n, m, First(Len(msgs))) /\ (Truth => WellInformed(a, n))
  <2> HIDE DEF T
  <2>1. Nat \subseteq T
    BY <1>3, <1>4, Induction
  <2> HIDE DEF First
  <2> QED
    BY <1>1, <2>1 DEF T
<1>6. First(Len(msgs)) = ToSet(msgs)
  BY <1>1 DEF ToSet
<1>7. RecvOlsr(s, n, m, msgs) = RtableComputation(a)
  BY DEF RecvOlsr, after
<1> HIDE DEF a, First
<1>8. WellFormed(a)
  BY <1>5 DEF Flooded
<1>9. PICK rt : WellFormed(RtableComputation(a)) /\ RtableComputation(a) = [a EXCEPT !.rt = rt]
  BY <1>8, RtableComputationType
<1> DEFINE t == RtableComputation(a)
<1>10. SameTables(a, t) /\ t.dup = a.dup /\ t.msgs = a.msgs /\ t.topology = a.topology
  BY <1>8, <1>9 DEF SameTables, WellFormed, Router
<1> HIDE DEF t
<1>11. Flooded(s, t, n, m, ToSet(msgs))
  BY <1>5, <1>6, <1>9, <1>10 DEF Flooded, SameTables, HasTc, t
<1>12. Truth => WellInformed(t, n)
  BY <1>5, <1>10 DEF WellInformed
<1>13. Routed(t)
  BY <1>8, RtableComputationRouted DEF t
<1> QED
  BY <1>7, <1>11, <1>12, <1>13 DEF t, msgs, Truth

\* The MPRs of a router that is up to date are neighbours, and reach whoever is two hops
\* away, unless a neighbour that is never willing stands in between.
LEMMA UpToDateCovers ==
    ASSUME near \subseteq Node \X Node, NEW s, WellFormed(s), NEW n \in Node, UpToDate(s, n)
    PROVE  /\ \A m \in s.mprset : m \in Node /\ Audible(n, m)
           /\ \A m, x \in Node :
                 /\ Audible(n, m) /\ Audible(m, x) /\ x # n /\ ~Audible(n, x)
                 /\ Willingness[m] # WILL_NEVER
                 => \E r \in s.mprset : <<r, x>> \in near
<1>1. /\ s \in Router /\ s.nbset \in Seq(Node) /\ s.nb2hop \subseteq Node \X Node
      /\ ToSet(s.nbset) = {m \in Node : s.status[m] # "none"}
  BY DEF WellFormed, Router, Linked
<1>2. PICK mprs \in SUBSET SymNeighbors(s) :
         /\ MprComputation(s, n) = [s EXCEPT !.mprset = mprs]
         /\ \A t \in StrictTwoHop(s, n) : \E m \in mprs : <<m, t[2]>> \in StrictTwoHop(s, n)
  BY <1>1, MprsCover
<1>3. mprs = s.mprset
  BY <1>1, <1>2 DEF UpToDate, Router
<1>4. SymNeighbors(s) = {m \in Node : Audible(n, m)}
  BY <1>1 DEF SymNeighbors, UpToDate
<1>5. ASSUME NEW m \in Node, NEW x \in Node, Audible(n, m), Audible(m, x), x # n, ~Audible(n, x),
             Willingness[m] # WILL_NEVER
      PROVE  \E r \in s.mprset : <<r, x>> \in near
  <2>1. <<m, x>> \in s.nb2hop
    BY <1>5 DEF UpToDate, Audible
  <2>2. <<m, x>> \in StrictTwoHop(s, n)
    BY <1>4, <1>5, <2>1 DEF StrictTwoHop
  <2>3. PICK r \in mprs : <<r, x>> \in StrictTwoHop(s, n)
    BY <1>2, <2>2
  <2> QED
    BY <1>3, <2>3 DEF StrictTwoHop, UpToDate
<1> QED
  BY <1>2, <1>3, <1>4, <1>5

\* What keeps a calm network calm.
LEMMA CalmKept ==
    ASSUME IInv, IInv', CalmInv, calm, calm' = calm, near' = near, failures' = failures,
           Routers' = Routers,
           ASSUME NEW n \in Routers
           PROVE  /\ SameTables(router[n], router'[n])
                  /\ \A msg \in ToSet(router'[n].msgs) : msg.type = "HELLO" =>
                        msg \in ToSet(router[n].msgs) \/ msg = HelloMsg(router[n], n)
                  /\ \A o \in Node : HasTc(router'[n], o) =>
                        o \in router'[n].dup \/ (o = n /\ router[n].mprsel # {})
    PROVE  CalmInv'
<1>1. failures = 0 /\ \A n \in Routers : CalmRouter(n)
  BY DEF CalmInv
<1>2. ASSUME NEW n \in Routers
      PROVE  CalmRouter(n)'
  <2> DEFINE s == router[n]
             t == router'[n]
  <2>1. /\ CalmRouter(n) /\ WellFormed(s) /\ WellFormed(t) /\ SameTables(s, t)
    BY <1>1 DEF IInv
  <2>2. UpToDate(t, n)
    BY <2>1, UpToDateSame DEF CalmRouter, WellFormed, SameTables
  <2>3. UpToDate(router[n], n)'
    BY <2>2 DEF UpToDate, Audible
  <2>4. \A m \in Routers : router'[m].mprset = router[m].mprset
    BY DEF SameTables
  <2>5. t.mprsel = {m \in Routers : n \in router'[m].mprset}
    BY <2>1, <2>4 DEF CalmRouter, SameTables
  <2>6. HelloMsg(t, n) = HelloMsg(s, n)
    BY <2>1 DEF HelloMsg, LinkCode, SameTables
  <2>7. \A msg \in ToSet(t.msgs) : msg.type = "HELLO" => msg = HelloMsg(t, n)
    BY <2>1, <2>6 DEF CalmRouter
  <2>8. \A o \in Node : HasTc(t, o) => o \in t.dup \/ (o = n /\ t.mprsel # {})
    BY <2>1 DEF SameTables
  <2> QED
    BY <2>3, <2>5, <2>7, <2>8 DEF CalmRouter
<1> QED
  BY <1>1, <1>2 DEF CalmInv

\* What Flood sees of a router.
SameFlooding(s, t) ==
    t.mprset = s.mprset /\ t.dup = s.dup /\ \A o \in Node : HasTc(t, o) <=> HasTc(s, o)

LEMMA FloodingStutters ==
    ASSUME calm' = calm, near' = near, Routers' = Routers,
           \A n \in Routers : SameFlooding(router[n], router'[n])
    PROVE  UNCHANGED Flooding!vars
<1>1. ASSUME NEW o \in Node
      PROVE  TcQueued(o)' = TcQueued(o)
  <2>1. TcQueued(o) = {n \in Routers : HasTc(router[n], o)}
    BY DEF TcQueued, HasTc, ToSet
  <2>2. TcQueued(o)' = {n \in Routers' : HasTc(router'[n], o)}
    BY DEF TcQueued, HasTc, ToSet
  <2> QED
    BY <2>1, <2>2 DEF SameFlooding
<1>2. \A o \in Node : {n \in Routers' : o \in router'[n].dup} = {n \in Routers : o \in router[n].dup}
  BY DEF SameFlooding
<1>3. \A o \in Node : Announced(o)' <=> Announced(o)
  BY <1>1 DEF Announced, SameFlooding
<1>4. \A n \in Routers : router'[n].mprset = router[n].mprset
  BY DEF SameFlooding
<1> QED
  BY <1>1, <1>2, <1>3, <1>4 DEF Flooding!vars

\* A network that is not calm floods nothing in the sense of Flood.
LEMMA NoFlooding ==
    ASSUME calm = FALSE, calm' = FALSE
    PROVE  UNCHANGED Flooding!vars
  BY DEF Flooding!vars

\* Olsr_HelloTimer in a calm network.
LEMMA SendHelloCalm ==
    ASSUME IInv, IInv', Step, CalmInv, calm, NEW n \in Routers, SendHello(n)
    PROVE  CalmInv' /\ UNCHANGED Flooding!vars
<1> DEFINE s == router[n]
           t == Enqueue(s, HelloMsg(s, n))
<1>1. /\ \A m \in Routers : WellFormed(router[m]) /\ CalmRouter(m)
      /\ n \in Node /\ s \in Router
  BY DEF IInv, CalmInv, WellFormed
<1>2. /\ near' = near /\ failures' = failures /\ calm' = calm /\ Routers' = Routers
      /\ router'[n] = t /\ \A m \in Routers \ {n} : router'[m] = router[m]
  BY DEF SendHello, Step, Routers
<1>3. HelloMsg(s, n) \in HelloMessage
  BY <1>1, HelloMsgType
<1>4. ToSet(t.msgs) = ToSet(s.msgs) \cup {HelloMsg(s, n)} /\ t.dup = s.dup
  BY <1>1, <1>3, EnqueueStep
<1>5. SameTables(s, t)
  BY <1>1 DEF Enqueue, SameTables, Router
<1> HIDE DEF t
<1>6. HelloMsg(s, n).type = "HELLO"
  BY DEF HelloMsg
<1>7. \A o \in Node : HasTc(t, o) <=> HasTc(s, o)
  BY <1>4, <1>6 DEF HasTc
<1>8. ASSUME NEW m \in Routers
      PROVE  /\ SameTables(router[m], router'[m])
             /\ \A msg \in ToSet(router'[m].msgs) : msg.type = "HELLO" =>
                   msg \in ToSet(router[m].msgs) \/ msg = HelloMsg(router[m], m)
             /\ \A o \in Node : HasTc(router'[m], o) <=> HasTc(router[m], o)
             /\ router'[m].dup = router[m].dup
  <2>1. CASE m = n
    BY <1>2, <1>4, <1>5, <1>7, <2>1
  <2>2. CASE m # n
    BY <1>2, <2>2 DEF SameTables
  <2> QED
    BY <2>1, <2>2
<1>9. CalmInv'
  <2>1. ASSUME NEW m \in Routers
        PROVE  \A o \in Node : HasTc(router'[m], o) =>
                  o \in router'[m].dup \/ (o = m /\ router[m].mprsel # {})
    BY <1>1, <1>8 DEF CalmRouter
  <2> QED
    BY <1>2, <1>8, <2>1, CalmKept
<1>10. UNCHANGED Flooding!vars
  BY <1>2, <1>8, FloodingStutters DEF SameFlooding, SameTables
<1> QED
  BY <1>9, <1>10

\* Olsr_TcTimer in a calm network announces a new message of n.
LEMMA SendTcCalm ==
    ASSUME IInv, IInv', Step, CalmInv, calm, NEW n \in Routers, SendTc(n)
    PROVE  CalmInv' /\ Flooding!Announce(n)
<1> DEFINE s == router[n]
           t == Enqueue(s, TcMsg(s, n))
<1>1. /\ \A m \in Routers : WellFormed(router[m]) /\ CalmRouter(m) /\ router[m] \in Router
      /\ n \in Node /\ s \in Router /\ Routers \subseteq Node
  BY DEF IInv, CalmInv, WellFormed
<1>2. /\ near' = near /\ failures' = failures /\ calm' = calm /\ Routers' = Routers
      /\ s.mprsel # {} /\ TcQueued(n) = {}
      /\ router'[n] = t
      /\ \A m \in Routers \ {n} : router'[m] = [router[m] EXCEPT !.dup = router[m].dup \ {n}]
  BY DEF SendTc, Step
<1>3. TcMsg(s, n) \in TcMessage
  BY <1>1, TcMsgType
<1>4. ToSet(t.msgs) = ToSet(s.msgs) \cup {TcMsg(s, n)} /\ t.dup = s.dup
  BY <1>1, <1>3, EnqueueStep
<1>5. SameTables(s, t)
  BY <1>1 DEF Enqueue, SameTables, Router
<1> HIDE DEF t
<1>6. TcMsg(s, n).type = "TC" /\ TcMsg(s, n).orig = n
  BY DEF TcMsg
<1>7. \A o \in Node : HasTc(t, o) <=> HasTc(s, o) \/ o = n
  BY <1>4, <1>6 DEF HasTc
<1>8. TcQueued(n) = {m \in Routers : HasTc(router[m], n)}
  BY DEF TcQueued, HasTc, ToSet
<1>9. ASSUME NEW m \in Routers
      PROVE  /\ SameTables(router[m], router'[m])
             /\ \A msg \in ToSet(router'[m].msgs) : msg.type = "HELLO" => msg \in ToSet(router[m].msgs)
             /\ \A o \in Node : HasTc(router'[m], o) <=> HasTc(router[m], o) \/ (m = n /\ o = n)
             /\ router'[m].dup = IF m = n THEN s.dup ELSE router[m].dup \ {n}
  <2>1. CASE m = n
    BY <1>2, <1>4, <1>5, <1>6, <1>7, <2>1
  <2>2. CASE m # n
    <3>1. router'[m] = [router[m] EXCEPT !.dup = router[m].dup \ {n}]
      BY <1>2, <2>2
    <3>2. SameTables(router[m], router'[m]) /\ router'[m].msgs = router[m].msgs
          /\ router'[m].dup = router[m].dup \ {n}
      BY <1>1, <3>1 DEF SameTables, Router
    <3> QED
      BY <2>2, <3>2 DEF HasTc
  <2> QED
    BY <2>1, <2>2
<1>10. CalmInv'
  <2>1. ASSUME NEW m \in Routers, NEW o \in Node, HasTc(router'[m], o)
        PROVE  o \in router'[m].dup \/ (o = m /\ router[m].mprsel # {})
    <3>1. CASE o = n
      BY <1>2, <1>8, <1>9, <2>1, <3>1
    <3>2. CASE o # n
      BY <1>1, <1>9, <2>1, <3>2, ZenonT(40) DEF CalmRouter
    <3> QED
      BY <3>1, <3>2
  <2> QED
    BY <1>2, <1>9, <2>1, CalmKept
<1>11. ASSUME NEW o \in Node
       PROVE  TcQueued(o)' = IF o = n THEN {n} ELSE TcQueued(o)
  <2>1. TcQueued(o) = {m \in Routers : HasTc(router[m], o)}
    BY DEF TcQueued, HasTc, ToSet
  <2>2. TcQueued(o)' = {m \in Routers' : HasTc(router'[m], o)}
    BY DEF TcQueued, HasTc, ToSet
  <2>3. \A m \in Routers : HasTc(router'[m], o) <=> HasTc(router[m], o) \/ (m = n /\ o = n)
    BY <1>9
  <2>4. CASE o = n
    <3>1. \A m \in Routers : ~HasTc(router[m], n)
      BY <1>2, <1>8
    <3> QED
      BY <1>2, <2>2, <2>3, <2>4, <3>1
  <2>5. CASE o # n
    BY <1>2, <2>1, <2>2, <2>3, <2>5
  <2> QED
    BY <2>4, <2>5
<1>12. Announced(n)' /\ {n} \cup {m \in Routers' : n \in router'[m].dup} = {n}
  <2>1. \A m \in Routers : n \in router'[m].dup => m = n
    BY <1>9
  <2>2. TcQueued(n)' = {n}
    BY <1>1, <1>11
  <2> QED
    BY <1>2, <2>1, <2>2 DEF Announced
<1>13. ASSUME NEW o \in Node \ {n}
       PROVE  /\ Announced(o)' <=> Announced(o)
              /\ {m \in Routers' : o \in router'[m].dup} = {m \in Routers : o \in router[m].dup}
  <2>1. \A m \in Routers : o \in router'[m].dup <=> o \in router[m].dup
    BY <1>9
  <2>2. TcQueued(o)' = TcQueued(o)
    BY <1>11
  <2> QED
    BY <1>2, <2>1, <2>2 DEF Announced
<1>14. \A m \in Routers : router'[m].mprset = router[m].mprset
  BY <1>9 DEF SameTables
<1>15. Flooding!Announce(n)
  <2>1. calm /\ calm'
    BY <1>2
  <2>2. TcQueued(n)' = {n} /\ \A o \in Node \ {n} : TcQueued(o)' = TcQueued(o)
    BY <1>1, <1>11
  <2> DEFINE G(o) == IF calm /\ Announced(o) THEN {o} \cup {m \in Routers : o \in router[m].dup} ELSE {}
             Q(o) == IF calm THEN TcQueued(o) ELSE {}
  <2>3. G(n)' = {n} /\ Q(n)' = {n} /\ Q(n) = {}
    BY <1>2, <1>12, <2>1, <2>2
  <2>4. ASSUME NEW o \in Node \ {n}
        PROVE  G(o)' = G(o) /\ Q(o)' = Q(o)
    BY <1>13, <2>1, <2>2
  <2>5. /\ [o \in Node |-> G(o)]' = [[o \in Node |-> G(o)] EXCEPT ![n] = {n}]
        /\ [o \in Node |-> Q(o)]' = [[o \in Node |-> Q(o)] EXCEPT ![n] = {n}]
        /\ [o \in Node |-> Q(o)][n] = {}
    <3> HIDE DEF G, Q
    <3> QED
      BY <1>1, <2>3, <2>4
  <2>6. UNCHANGED <<IF calm THEN near ELSE {},
                    [m \in Node |-> IF calm /\ m \in Routers THEN router[m].mprset ELSE {}]>>
    BY <1>2, <1>14, <2>1
  <2> QED
    BY <2>5, <2>6 DEF Flooding!Announce
<1> QED
  BY <1>10, <1>15

\* Olsr_MsgTimer in a calm network: what n floods, and what that does to a router m.
LEMMA SendPktEffect ==
    ASSUME IInv, IInv', Step, CalmInv, calm, NEW n \in Routers, SendPkt(n), NEW m \in Routers
    PROVE  LET s == router[m]
               t == router'[m]
           IN  /\ SameTables(s, t)
               /\ t.dup = s.dup \cup {o \in Node : Audible(m, n) /\ o # m /\ HasTc(router[n], o)}
               /\ \A o \in Node :
                     HasTc(t, o) <=>
                         /\ m # n
                         /\ \/ HasTc(s, o)
                            \/ /\ Audible(m, n) /\ o # m /\ HasTc(router[n], o)
                               /\ o \notin s.dup /\ n \in s.mprsel
               /\ \A msg \in ToSet(t.msgs) : msg.type = "HELLO" => msg \in ToSet(s.msgs)
<1> DEFINE s == router[m]
           t == router'[m]
           heard(o) == Audible(m, n) /\ o # m /\ HasTc(router[n], o)
<1>1. /\ WellFormed(router[n]) /\ CalmRouter(n) /\ WellFormed(s) /\ CalmRouter(m)
      /\ s \in Router /\ s.dup \subseteq Node /\ m \in Node /\ n \in Node
      /\ Mutual /\ near \subseteq Node \X Node
  BY DEF IInv, CalmInv, WellFormed, Router
<1>2. ~Audible(n, n)
  BY <1>1 DEF Mutual, Audible
<1>3. t = IF m = n THEN [router[n] EXCEPT !.msgs = <<>>]
          ELSE IF Audible(m, n) THEN RecvOlsr(s, m, n, router[n].msgs) ELSE s
  BY DEF SendPkt
<1>4. CASE m = n
  <2>1. SameTables(s, t) /\ t.dup = s.dup /\ t.msgs = <<>>
    BY <1>1, <1>3, <1>4 DEF SameTables, Router
  <2>2. ToSet(t.msgs) = {}
    BY <2>1 DEF ToSet
  <2>3. \A o \in Node : ~heard(o) /\ ~HasTc(t, o)
    BY <1>2, <1>4, <2>2 DEF HasTc
  <2> HIDE DEF s, t
  <2> QED
    BY <1>4, <2>1, <2>2, <2>3 DEF s, t
<1>5. CASE m # n /\ ~Audible(m, n)
  <2>1. t = s
    BY <1>3, <1>5
  <2> HIDE DEF s, t
  <2> QED
    BY <1>5, <2>1 DEF SameTables, s, t
<1>6. CASE m # n /\ Audible(m, n)
  <2>1. t = RecvOlsr(s, m, n, router[n].msgs)
    BY <1>3, <1>6
  <2>2. m \in router[n].mprset => n \in s.mprsel
    BY <1>1 DEF CalmRouter
  <2>3. Flooded(s, RecvOlsr(s, m, n, router[n].msgs), m, n, ToSet(router[n].msgs))
    BY <1>1, <1>6, <2>2, CalmPacket DEF CalmRouter
  <2>4. Flooded(s, t, m, n, ToSet(router[n].msgs))
    BY <2>1, <2>3
  <2> HIDE DEF s, t
  <2>5. /\ SameTables(s, t)
        /\ t.dup = s.dup \cup {o \in Node : o # m /\ HasTc(router[n], o)}
        /\ \A o \in Node :
              HasTc(t, o) <=>
                  HasTc(s, o) \/ (o # m /\ HasTc(router[n], o) /\ o \notin s.dup /\ n \in s.mprsel)
        /\ \A msg \in ToSet(t.msgs) : msg.type = "HELLO" => msg \in ToSet(s.msgs)
    BY <2>4 DEF Flooded, HasTc
  <2> QED
    BY <1>6, <2>5 DEF s, t
<1> QED
  BY <1>4, <1>5, <1>6

\* That is a transmission of Flood, or nothing if n has only HELLOs.
LEMMA SendPktCalm ==
    ASSUME IInv, IInv', Step, CalmInv, calm, NEW n \in Routers, SendPkt(n)
    PROVE  CalmInv' /\ [Flooding!Next]_Flooding!vars
<1> DEFINE tc(o) == HasTc(router[n], o)
<1>1. /\ \A m \in Routers : WellFormed(router[m]) /\ CalmRouter(m) /\ router[m].dup \subseteq Node
      /\ n \in Node /\ Routers \subseteq Node /\ Mutual /\ near \subseteq Routers \X Routers
      /\ near \subseteq Node \X Node
  BY DEF IInv, CalmInv, WellFormed, Router
<1>2. near' = near /\ failures' = failures /\ calm' = calm /\ Routers' = Routers /\ calm'
  BY DEF SendPkt, Step
<1>3. \A m \in Routers : /\ SameTables(router[m], router'[m])
                         /\ \A msg \in ToSet(router'[m].msgs) :
                               msg.type = "HELLO" => msg \in ToSet(router[m].msgs)
  BY SendPktEffect
<1>4. \A m \in Routers : \A o \in Node :
         o \in router'[m].dup <=> o \in router[m].dup \/ (Audible(m, n) /\ o # m /\ tc(o))
  BY SendPktEffect
<1>5. \A m \in Routers : \A o \in Node :
         HasTc(router'[m], o) <=>
             /\ m # n
             /\ \/ HasTc(router[m], o)
                \/ /\ Audible(m, n) /\ o # m /\ tc(o)
                   /\ o \notin router[m].dup /\ n \in router[m].mprsel
  BY SendPktEffect
<1>6. CalmInv'
  <2>1. ASSUME NEW m \in Routers, NEW o \in Node, HasTc(router'[m], o)
        PROVE  o \in router'[m].dup \/ (o = m /\ router[m].mprsel # {})
    <3>1. CASE HasTc(router[m], o)
      BY <1>1, <1>4, <3>1 DEF CalmRouter
    <3>2. CASE ~HasTc(router[m], o)
      BY <1>4, <1>5, <2>1, <3>2
    <3> QED
      BY <3>1, <3>2
  <2> QED
    BY <1>2, <1>3, <2>1, CalmKept
<1> DEFINE G(o) == IF calm /\ Announced(o) THEN {o} \cup {m \in Routers : o \in router[m].dup} ELSE {}
           Q(o) == IF calm THEN TcQueued(o) ELSE {}
           N == {m \in Node : Audible(n, m)}
<1>7. N = {m \in Routers : Audible(m, n)} /\ n \notin N
  BY <1>1 DEF Mutual, Audible
<1>8. \A m \in router[n].mprset : m \in N
  BY <1>1, UpToDateCovers DEF CalmRouter
<1>9. ASSUME NEW m \in N
      PROVE  m \in Routers /\ (n \in router[m].mprsel <=> m \in router[n].mprset)
  BY <1>1, <1>7 DEF CalmRouter
<1>10. ASSUME NEW o \in Node
       PROVE  /\ TcQueued(o) = {m \in Routers : HasTc(router[m], o)}
              /\ TcQueued(o)' = {m \in Routers : HasTc(router'[m], o)}
  <2>1. TcQueued(o)' = {m \in Routers' : HasTc(router'[m], o)}
    BY DEF TcQueued, HasTc, ToSet
  <2> QED
    BY <1>2, <2>1 DEF TcQueued, HasTc, ToSet
<1>11. ASSUME NEW o \in Node, tc(o)
       PROVE  /\ n \in Q(o)
              /\ G(o)' = G(o) \cup N
              /\ Q(o)' = (Q(o) \ {n}) \cup ((N \ G(o)) \cap router[n].mprset)
  <2>1. n \in TcQueued(o) /\ Announced(o)
    BY <1>10, <1>11 DEF Announced
  <2>2. G(o) = {o} \cup {m \in Routers : o \in router[m].dup} /\ Q(o) = TcQueued(o)
    BY <2>1
  <2>3. \E k \in Routers : o \in router'[k].dup
    <3>1. CASE o \in router[n].dup
      BY <1>4, <3>1
    <3>2. CASE o = n /\ router[n].mprsel # {}
      <4>1. PICK k \in Routers : n \in router[k].mprset
        BY <1>1, <3>2 DEF CalmRouter
      <4>2. Audible(k, n) /\ k # n
        BY <1>1, <4>1, UpToDateCovers DEF CalmRouter, Mutual, Audible
      <4> QED
        BY <1>4, <1>11, <3>2, <4>1, <4>2
    <3> QED
      BY <1>1, <1>11, <3>1, <3>2 DEF CalmRouter
  <2>4. G(o)' = {o} \cup {m \in Routers : o \in router'[m].dup}
    BY <1>2, <2>3 DEF Announced
  <2>5. G(o)' = G(o) \cup N
    <3> HIDE DEF N, G
    <3>1. \A m \in Routers : o \in router'[m].dup <=> o \in router[m].dup \/ (m \in N /\ o # m)
      BY <1>4, <1>7, <1>11
    <3> QED
      BY <1>9, <2>2, <2>4, <3>1
  <2>6. Q(o)' = {m \in Routers : HasTc(router'[m], o)}
    BY <1>2, <1>10
  <2>7. ASSUME NEW m \in Routers
        PROVE  HasTc(router'[m], o) <=>
                  \/ m \in Q(o) \ {n}
                  \/ m \in (N \ G(o)) \cap router[n].mprset
    <3>1. m \in Q(o) <=> HasTc(router[m], o)
      BY <1>10, <2>2
    <3>2. m \in G(o) <=> m = o \/ o \in router[m].dup
      BY <2>2
    <3>3. Audible(m, n) <=> m \in N
      BY <1>7
    <3>4. m \in N => (n \in router[m].mprsel <=> m \in router[n].mprset)
      BY <1>9
    <3> HIDE DEF N, G, Q
    <3> QED
      BY <1>5, <1>7, <1>11, <3>1, <3>2, <3>3, <3>4
  <2>8. Q(o) \subseteq Routers /\ N \subseteq Routers
    BY <1>7, <2>2, <1>10
  <2> HIDE DEF N, G, Q
  <2>9. Q(o)' = (Q(o) \ {n}) \cup ((N \ G(o)) \cap router[n].mprset)
    BY <2>6, <2>7, <2>8
  <2> QED
    BY <2>1, <2>2, <2>5, <2>9
<1>12. ASSUME NEW o \in Node, ~tc(o)
       PROVE  n \notin Q(o) /\ G(o)' = G(o) /\ Q(o)' = Q(o)
  <2>1. \A m \in Routers : /\ o \in router'[m].dup <=> o \in router[m].dup
                           /\ HasTc(router'[m], o) <=> HasTc(router[m], o)
    BY <1>4, <1>5, <1>12
  <2>2. TcQueued(o)' = TcQueued(o) /\ n \notin TcQueued(o)
    BY <1>10, <1>12, <2>1
  <2>3. Announced(o)' <=> Announced(o)
    BY <1>2, <2>1, <2>2 DEF Announced
  <2> QED
    BY <1>2, <2>1, <2>2, <2>3
<1>13. \A m \in Routers : router'[m].mprset = router[m].mprset
  BY <1>3 DEF SameTables
<1>14. UNCHANGED <<IF calm THEN near ELSE {},
                   [m \in Node |-> IF calm /\ m \in Routers THEN router[m].mprset ELSE {}]>>
  BY <1>2, <1>13
<1>15. ASSUME NEW k \in Node, tc(k)
       PROVE  Flooding!Transmit(n)
  <2>1. Flooding!Neighbors(n) = N
    BY DEF Flooding!Neighbors, Audible
  <2>2. [m \in Node |-> IF calm /\ m \in Routers THEN router[m].mprset ELSE {}][n] = router[n].mprset
    BY <1>1
  <2>3. \E o \in Node : n \in [p \in Node |-> Q(p)][o]
    BY <1>11, <1>15
  <2> HIDE DEF N, G, Q
  <2>4. [o \in Node |-> G(o)]' =
          [o \in Node |-> IF n \in [p \in Node |-> Q(p)][o]
                          THEN [p \in Node |-> G(p)][o] \cup N
                          ELSE [p \in Node |-> G(p)][o]]
    BY <1>11, <1>12
  <2>5. [o \in Node |-> Q(o)]' =
          [o \in Node |-> IF n \in [p \in Node |-> Q(p)][o]
                          THEN ([p \in Node |-> Q(p)][o] \ {n}) \cup
                                  ((N \ [p \in Node |-> G(p)][o]) \cap router[n].mprset)
                          ELSE [p \in Node |-> Q(p)][o]]
    BY <1>11, <1>12
  <2> QED
    BY <1>14, <2>1, <2>2, <2>3, <2>4, <2>5 DEF Flooding!Transmit, G, Q
<1>16. CASE \E k \in Node : tc(k)
  BY <1>1, <1>6, <1>15, <1>16 DEF Flooding!Next
<1>17. CASE \A k \in Node : ~tc(k)
  <2>1. \A m \in Routers : SameFlooding(router[m], router'[m])
    <3> TAKE m \in Routers
    <3>1. router'[m].dup = router[m].dup
      <4>1. router'[m].dup \subseteq Node /\ router[m].dup \subseteq Node
        BY <1>2 DEF IInv, WellFormed, Router
      <4> QED
        BY <1>4, <1>17, <4>1
    <3>2. m # n \/ \A o \in Node : ~HasTc(router[m], o)
      BY <1>17
    <3>3. \A o \in Node : HasTc(router'[m], o) <=> HasTc(router[m], o)
      BY <1>5, <1>17, <3>2
    <3> QED
      BY <1>13, <3>1, <3>3 DEF SameFlooding
  <2> QED
    BY <1>2, <1>6, <2>1, FloodingStutters
<1> QED
  BY <1>16, <1>17

\* In a calm network only tuples of the topology set run out,
LEMMA OnlyTopologyExpires ==
    ASSUME IInv, CalmInv, calm, NEW n \in Routers, TupleTimer(n)
    PROVE  \E t \in router[n].topology : TopologyTimer(n, t)
<1> DEFINE s == router[n]
<1>1. /\ \A m \in Routers : CalmRouter(m)
      /\ n \in Node /\ Routers \subseteq Node /\ Mutual /\ near \subseteq Routers \X Routers
  BY DEF IInv, CalmInv
<1>2. UpToDate(s, n)
  BY <1>1 DEF CalmRouter
<1>3. ASSUME NEW m \in Node, NeighborTimers(n, m) \/ RemoveLink(n, m)
      PROVE  FALSE
  BY <1>2, <1>3 DEF NeighborTimers, RemoveLink, UpToDate
<1>4. ASSUME NEW m \in Node, MprSelTimer(n, m)
      PROVE  FALSE
  BY <1>1, <1>4 DEF MprSelTimer, MprselRefreshed, CalmRouter
<1>5. ASSUME NEW t \in s.nb2hop, Nb2hopTimer(n, t)
      PROVE  FALSE
  <2>1. t \in near /\ t = <<t[1], t[2]>> /\ t[1] \in Routers /\ t[2] \in Node
    BY <1>1, <1>2 DEF UpToDate
  <2>2. UpToDate(router[t[1]], t[1]) /\ Audible(t[1], t[2])
    BY <1>1, <2>1 DEF CalmRouter, Audible
  <2> QED
    BY <1>5, <2>1, <2>2 DEF Nb2hopTimer, Nb2hopRefreshed, UpToDate
<1> QED
  BY <1>3, <1>4, <1>5 DEF TupleTimer

\* which neither Flood nor the neighbours notice.
LEMMA TupleTimerCalm ==
    ASSUME IInv, IInv', Step, CalmInv, calm, NEW n \in Routers, TupleTimer(n)
    PROVE  CalmInv' /\ UNCHANGED Flooding!vars
<1> DEFINE s == router[n]
<1>1. \A m \in Routers : CalmRouter(m) /\ router[m] \in Router
  BY DEF IInv, CalmInv, WellFormed
<1>2. PICK t \in s.topology : TopologyTimer(n, t)
  BY OnlyTopologyExpires
<1>3. /\ near' = near /\ failures' = failures /\ calm' = calm /\ Routers' = Routers
      /\ router'[n] = [s EXCEPT !.topology = s.topology \ {t}]
      /\ \A m \in Routers \ {n} : router'[m] = router[m]
  BY <1>2 DEF TopologyTimer, Step, Routers
<1>4. ASSUME NEW m \in Routers
      PROVE  /\ SameTables(router[m], router'[m])
             /\ router'[m].dup = router[m].dup /\ router'[m].msgs = router[m].msgs
  <2>1. CASE m = n
    BY <1>1, <1>3, <2>1 DEF SameTables, Router
  <2>2. CASE m # n
    BY <1>3, <2>2 DEF SameTables
  <2> QED
    BY <2>1, <2>2
<1>5. \A m \in Routers : \A o \in Node : HasTc(router'[m], o) <=> HasTc(router[m], o)
  BY <1>4 DEF HasTc
<1>6. CalmInv'
  <2>1. ASSUME NEW m \in Routers
        PROVE  \A o \in Node : HasTc(router'[m], o) =>
                  o \in router'[m].dup \/ (o = m /\ router[m].mprsel # {})
    BY <1>1, <1>4, <1>5 DEF CalmRouter
  <2> QED
    BY <1>3, <1>4, <2>1, CalmKept
<1> QED
  BY <1>3, <1>4, <1>5, <1>6, FloodingStutters DEF SameFlooding, SameTables

\* Every step keeps a calm network calm and is one of Flood, or changes nothing there.
LEMMA NextFlooding ==
    ASSUME IInv, IInv', CalmInv, [Next]_vars
    PROVE  CalmInv' /\ [Flooding!Next]_Flooding!vars
<1>1. Step
  BY EveryStep
<1>2. calm' = calm /\ calm \in BOOLEAN
  BY <1>1 DEF Step, IInv
<1>3. CASE ~calm
  <2>1. UNCHANGED Flooding!vars
    BY <1>2, <1>3, NoFlooding
  <2> QED
    BY <1>2, <1>3, <2>1 DEF CalmInv
<1>4. CASE calm
  <2>1. CASE UNCHANGED vars
    <3>1. /\ calm' = calm /\ near' = near /\ failures' = failures /\ router' = router
          /\ Routers' = Routers
      BY <2>1 DEF vars, Routers
    <3>2. CalmInv'
      <4>1. failures = 0 /\ \A n \in Routers : CalmRouter(n)
        BY <1>4 DEF CalmInv
      <4>2. ASSUME NEW n \in Routers
            PROVE  \A o \in Node : HasTc(router'[n], o) =>
                      o \in router'[n].dup \/ (o = n /\ router[n].mprsel # {})
        BY <3>1, <4>1 DEF CalmRouter
      <4>3. \A n \in Routers : SameTables(router[n], router'[n])
        BY <3>1 DEF SameTables
      <4> QED
        BY <1>4, <3>1, <4>2, <4>3, CalmKept
    <3>3. UNCHANGED Flooding!vars
      BY <3>1, FloodingStutters DEF SameFlooding
    <3> QED
      BY <3>2, <3>3
  <2>2. ASSUME NEW n \in Routers, SendHello(n) \/ SendTc(n) \/ SendPkt(n) \/ TupleTimer(n)
        PROVE  CalmInv' /\ [Flooding!Next]_Flooding!vars
    <3>1. n \in Node
      BY DEF IInv
    <3>2. CASE SendHello(n)
      BY <1>1, <1>4, <3>2, SendHelloCalm
    <3>3. CASE SendTc(n)
      BY <1>1, <1>4, <3>1, <3>3, SendTcCalm DEF Flooding!Next
    <3>4. CASE SendPkt(n)
      BY <1>1, <1>4, <3>4, SendPktCalm
    <3>5. CASE TupleTimer(n)
      BY <1>1, <1>4, <3>5, TupleTimerCalm
    <3> QED
      BY <2>2, <3>2, <3>3, <3>4, <3>5
  <2>3. ASSUME NEW n \in Routers, NEW m \in Routers, LinkFails(n, m)
        PROVE  FALSE
    BY <1>4, <2>3 DEF LinkFails, CalmInv
  <2> QED
    BY <2>1, <2>2, <2>3 DEF Next
<1> QED
  BY <1>2, <1>3, <1>4

\* A network starts as a network of Flood, with nothing on its way, if it starts calm and
\* everybody is willing to be a relay: mpr_computation leaves out the 2-hop neighbours
\* that only neighbours with WILL_NEVER reach.
LEMMA InitFlooding ==
    ASSUME Init, \A n \in Node : Willingness[n] # WILL_NEVER
    PROVE  CalmInv /\ Flooding!Init
<1>1. IInv /\ CalmInv /\ \A n \in Routers : Starting(router[n])
  BY InitStart
<1>2. /\ Routers \subseteq Node /\ near \subseteq Routers \X Routers /\ near \subseteq Node \X Node
      /\ \A n \in Routers : WellFormed(router[n])
  BY <1>1 DEF IInv
<1> DEFINE pairs == IF calm THEN near ELSE {}
           relays == [n \in Node |-> IF calm /\ n \in Routers THEN router[n].mprset ELSE {}]
<1>3. relays \in [Node -> SUBSET Node] /\ pairs \in SUBSET (Node \X Node)
  BY <1>2 DEF WellFormed, Router
<1>4. ASSUME NEW n \in Node
      PROVE  Flooding!Covering(n)
  <2>1. CASE calm /\ n \in Routers
    <3>1. UpToDate(router[n], n) /\ WellFormed(router[n])
      BY <1>1, <1>2, <2>1 DEF CalmInv, CalmRouter
    <3>2. /\ \A m \in router[n].mprset : m \in Node /\ Audible(n, m)
          /\ \A m, x \in Node :
                Audible(n, m) /\ Audible(m, x) /\ x # n /\ ~Audible(n, x) =>
                    \E r \in router[n].mprset : <<r, x>> \in near
      BY <1>2, <3>1, UpToDateCovers
    <3>3. relays[n] = router[n].mprset /\ pairs = near
      BY <2>1
    <3> HIDE DEF relays, pairs
    <3>4. relays[n] \subseteq {m \in Node : <<n, m>> \in pairs}
      BY <3>2, <3>3 DEF Audible
    <3>5. \A m \in {k \in Node : <<n, k>> \in pairs} :
             \A x \in {k \in Node : <<m, k>> \in pairs} \ ({n} \cup {k \in Node : <<n, k>> \in pairs}) :
                \E r \in relays[n] : <<r, x>> \in pairs
      BY <3>2, <3>3 DEF Audible
    <3> QED
      BY <3>4, <3>5 DEF Flooding!Covering, Flooding!Neighbors, relays, pairs
  <2>2. CASE ~(calm /\ n \in Routers)
    <3>1. \A m : <<n, m>> \notin pairs
      BY <1>2, <2>2
    <3>2. relays[n] = {}
      BY <2>2
    <3> HIDE DEF relays, pairs
    <3> QED
      BY <3>1, <3>2 DEF Flooding!Covering, Flooding!Neighbors, relays, pairs
  <2> QED
    BY <2>1, <2>2
<1>5. ASSUME NEW o \in Node
      PROVE  TcQueued(o) = {} /\ ~Announced(o)
  <2>1. \A n \in Routers : router[n].msgs = <<>> /\ router[n].dup = {}
    BY <1>1 DEF Starting
  <2>2. TcQueued(o) = {}
    BY <2>1 DEF TcQueued
  <2> QED
    BY <2>1, <2>2 DEF Announced
<1> QED
  BY <1>1, <1>3, <1>4, <1>5 DEF Flooding!Init

\* In a network whose links stay, and which knows them, a TC spreads as Flood says,
\* whatever HELLOs and TCs of others cross it and however long the jitter holds it.
THEOREM FloodImplemented == (\A n \in Node : Willingness[n] # WILL_NEVER) => (Spec => FloodSpec)
<1> SUFFICES ASSUME \A n \in Node : Willingness[n] # WILL_NEVER
             PROVE  Spec => FloodSpec
  OBVIOUS
<1>1. Init => CalmInv /\ Flooding!Init
  BY InitFlooding
<1>2. IInv /\ IInv' /\ CalmInv /\ [Next]_vars => CalmInv' /\ [Flooding!Next]_Flooding!vars
  BY NextFlooding
<1> QED
  BY <1>1, <1>2, Invariance, PTL DEF Spec, FloodSpec, Flooding!Spec

\* What is proved of Flood, of the TCs of a calm network.
FloodingProofs ==
    INSTANCE FloodProofs WITH
        near   <- IF calm THEN near ELSE {},
        relays <- [n \in Node |-> IF calm /\ n \in Routers THEN router[n].mprset ELSE {}],
        got    <- [o \in Node |->
                      IF calm /\ Announced(o) THEN {o} \cup {n \in Routers : o \in router[n].dup} ELSE {}],
        queued <- [o \in Node |-> IF calm THEN TcQueued(o) ELSE {}]

\* When nobody will pass on the TC of o any more, whoever hears a router that has it has
\* it too.
TcsComplete ==
    calm => \A o \in Node : Announced(o) /\ TcQueued(o) = {} =>
                \A n, m \in Routers : /\ n = o \/ o \in router[n].dup
                                     /\ Audible(n, m)
                                     => m = o \/ o \in router[m].dup

\* In a calm network the TCs of a router reach every router connected to it, though only
\* MPRs pass them on and each only if it heard them first from a router that chose it
\* (forward_default over the MPRs of mpr_computation).
THEOREM TcsAreComplete ==
    (\A n \in Node : Willingness[n] # WILL_NEVER) => (Spec => []TcsComplete)
<1> SUFFICES ASSUME \A n \in Node : Willingness[n] # WILL_NEVER
             PROVE  Spec => []TcsComplete
  OBVIOUS
<1>1. Spec => Flooding!Spec
  BY FloodImplemented DEF FloodSpec
<1>2. Flooding!Spec => FloodingProofs!Spec
  <2>1. \A n \in Node : Flooding!Covering(n) <=> FloodingProofs!Covering(n)
    BY DEF Flooding!Covering, FloodingProofs!Covering, Flooding!Neighbors, FloodingProofs!Neighbors
  <2>2. Flooding!Init => FloodingProofs!Init
    BY <2>1 DEF Flooding!Init, FloodingProofs!Init
  <2>3. UNCHANGED Flooding!vars => UNCHANGED FloodingProofs!vars
    BY DEF Flooding!vars, FloodingProofs!vars
  <2>4. Flooding!Next => FloodingProofs!Next
    BY DEF Flooding!Next, FloodingProofs!Next, Flooding!Announce, FloodingProofs!Announce,
           Flooding!Transmit, FloodingProofs!Transmit, Flooding!Neighbors, FloodingProofs!Neighbors
  <2>5. [Flooding!Next]_Flooding!vars => [FloodingProofs!Next]_FloodingProofs!vars
    BY <2>3, <2>4
  <2> QED
    BY <2>2, <2>5, PTL DEF Flooding!Spec, FloodingProofs!Spec
<1>3. FloodingProofs!Spec => []FloodingProofs!Complete
  BY FloodingProofs!CompleteTheorem
<1>4. IInv /\ FloodingProofs!Complete => TcsComplete
  <2> SUFFICES ASSUME IInv, FloodingProofs!Complete, calm, NEW o \in Node,
                      Announced(o), TcQueued(o) = {}, NEW n \in Routers, NEW m \in Routers,
                      n = o \/ o \in router[n].dup, Audible(n, m)
               PROVE  m = o \/ o \in router[m].dup
    BY DEF TcsComplete
  <2> DEFINE has == {o} \cup {k \in Routers : o \in router[k].dup}
  <2>1. \A k \in has : FloodingProofs!Neighbors(k) \subseteq has
    BY DEF FloodingProofs!Complete
  <2>2. m \in FloodingProofs!Neighbors(n)
    BY DEF FloodingProofs!Neighbors, Audible, IInv
  <2> QED
    BY <2>1, <2>2
<1> QED
  BY <1>1, <1>2, <1>3, <1>4, Invariance, PTL

-----------------------------------------------------------------------------
\* Distances

\* Whoever is in w or is heard by somebody in w.
Spread(w) == w \cup {p[2] : p \in {q \in near : q[1] \in w}}

\* Whom n reaches in as many hops, as Distance counts them.
Within(n) ==
    LET within[h \in 0..Cardinality(Node)] ==
            IF h = 0 THEN {n}
            ELSE LET w == within[h - 1] IN w \cup {p[2] : p \in {q \in near : q[1] \in w}}
    IN  within

LEMMA WithinDef ==
    ASSUME NEW n
    PROVE  /\ Cardinality(Node) \in Nat
           /\ Within(n) = [h \in 0 .. Cardinality(Node) |->
                              IF h = 0 THEN {n} ELSE Spread(Within(n)[h - 1])]
<1> DEFINE N == Cardinality(Node)
           Is(f, k) == f = [h \in 0 .. k |-> IF h = 0 THEN {n} ELSE Spread(f[h - 1])]
           T == {k \in Nat : \E f : Is(f, k)}
<1>1. N \in Nat
  BY NodeAssumption, FS_CardinalityType
<1>2. 0 \in T
  <2>1. Is([h \in 0 .. 0 |-> {n}], 0)
    OBVIOUS
  <2> QED
    BY <2>1
<1>3. ASSUME NEW k \in T
      PROVE  k + 1 \in T
  <2>1. PICK f : Is(f, k)
    OBVIOUS
  <2> DEFINE g == [h \in 0 .. k + 1 |-> IF h = 0 THEN {n} ELSE Spread(f[h - 1])]
  <2>2. ASSUME NEW h \in 0 .. k
        PROVE  g[h] = f[h]
    <3>1. f[h] = IF h = 0 THEN {n} ELSE Spread(f[h - 1])
      BY <2>1
    <3>2. h \in 0 .. k + 1
      OBVIOUS
    <3> QED
      BY <3>1, <3>2
  <2>3. Is(g, k + 1)
    <3>1. \A h \in 0 .. k + 1 : h # 0 => g[h - 1] = f[h - 1]
      <4> HIDE DEF g
      <4> QED
        BY <2>2
    <3> QED
      BY <3>1
  <2>4. k + 1 \in Nat
    OBVIOUS
  <2> HIDE DEF Is
  <2> QED
    BY <2>3, <2>4
<1>4. \E f : Is(f, N)
  <2> HIDE DEF T, N
  <2>1. Nat \subseteq T
    BY <1>2, <1>3, Induction
  <2> QED
    BY <1>1, <2>1 DEF T
<1>5. Within(n) = CHOOSE f : Is(f, N)
  BY DEF Within, Spread
<1>6. Is(CHOOSE f : Is(f, N), N)
  BY <1>4
<1> QED
  BY <1>1, <1>5, <1>6

\* The first hop counts, and every further one.
LEMMA WithinStep ==
    ASSUME NEW n
    PROVE  /\ Within(n)[0] = {n}
           /\ \A h \in 0 .. Cardinality(Node) - 1 :
                 /\ h \in 0 .. Cardinality(Node) /\ h + 1 \in 0 .. Cardinality(Node)
                 /\ Within(n)[h + 1] = Spread(Within(n)[h])
<1> DEFINE N == Cardinality(Node)
<1>1. N \in Nat
  BY WithinDef
<1>2. Within(n) = [h \in 0 .. N |-> IF h = 0 THEN {n} ELSE Spread(Within(n)[h - 1])]
  BY WithinDef
<1> HIDE DEF N
<1>3. \A h \in 0 .. N - 1 : h \in 0 .. N /\ h + 1 \in 0 .. N /\ h + 1 # 0 /\ (h + 1) - 1 = h
  BY <1>1
<1>4. 0 \in 0 .. N
  BY <1>1
<1>5. Within(n)[0] = {n}
  BY <1>2, <1>4
<1>6. \A h \in 0 .. N - 1 : Within(n)[h + 1] = Spread(Within(n)[h])
  BY <1>2, <1>3
<1> QED
  BY <1>3, <1>5, <1>6 DEF N

LEMMA SpreadIs ==
    ASSUME near \subseteq Node \X Node, NEW w, NEW x
    PROVE  x \in Spread(w) <=> x \in w \/ \E y \in w : Audible(y, x)
<1>1. ASSUME NEW y \in w, Audible(y, x)
      PROVE  x \in Spread(w)
  BY <1>1 DEF Spread, Audible
<1>2. ASSUME x \in Spread(w), x \notin w
      PROVE  \E y \in w : Audible(y, x)
  <2>1. PICK q \in near : q[1] \in w /\ x = q[2]
    BY <1>2 DEF Spread
  <2> QED
    BY <2>1 DEF Audible
<1>3. w \subseteq Spread(w)
  BY DEF Spread
<1> QED
  BY <1>1, <1>2, <1>3

\* More hops reach more routers, all of the network.
LEMMA WithinGrows ==
    ASSUME near \subseteq Node \X Node, NEW n \in Node
    PROVE  \A h \in 0 .. Cardinality(Node) :
              /\ Within(n)[h] \subseteq Node
              /\ n \in Within(n)[h]
              /\ \A k \in 0 .. h : Within(n)[k] \subseteq Within(n)[h]
<1> DEFINE N == Cardinality(Node)
           W == Within(n)
           Good(h) == W[h] \subseteq Node /\ n \in W[h] /\ \A k \in 0 .. h : W[k] \subseteq W[h]
           T == {h \in Nat : h \in 0 .. N => Good(h)}
<1>1. N \in Nat
  BY WithinDef
<1>2. W[0] = {n} /\ \A h \in 0 .. N - 1 : W[h + 1] = Spread(W[h])
  BY WithinStep
<1> HIDE DEF W, N
<1>3. 0 \in T
  <2>1. \A k \in 0 .. 0 : k = 0
    OBVIOUS
  <2> QED
    BY <1>2, <2>1
<1>4. ASSUME NEW h \in T
      PROVE  h + 1 \in T
  <2>1. h \in Nat
    OBVIOUS
  <2>2. ASSUME h + 1 \in 0 .. N
        PROVE  Good(h + 1)
    <3>1. h \in 0 .. N /\ h \in 0 .. N - 1
      BY <1>1, <2>1, <2>2
    <3>2. Good(h)
      BY <3>1
    <3>3. W[h + 1] = Spread(W[h])
      BY <1>2, <3>1
    <3>4. W[h] \subseteq W[h + 1]
      BY <3>3 DEF Spread
    <3>5. W[h + 1] \subseteq Node
      <4>1. ASSUME NEW x \in Spread(W[h])
            PROVE  x \in W[h] \/ \E y \in W[h] : <<y, x>> \in near
        BY <4>1, SpreadIs DEF Audible
      <4>2. \A x, y : <<y, x>> \in near => x \in Node
        OBVIOUS
      <4> QED
        BY <3>2, <3>3, <4>1, <4>2
    <3>6. \A k \in 0 .. h + 1 : k \in 0 .. h \/ k = h + 1
      BY <2>1
    <3> QED
      BY <3>2, <3>4, <3>5, <3>6
  <2> HIDE DEF Good
  <2> QED
    BY <2>1, <2>2
<1> HIDE DEF T, Good
<1>5. Nat \subseteq T
  BY <1>3, <1>4, Induction
<1>6. \A h \in 0 .. N : Good(h)
  BY <1>1, <1>5 DEF T
<1> QED
  BY <1>6 DEF Good, W, N

\* A walk of as many hops as there are routers reaches nobody who was not reached before.
LEMMA WithinEnds ==
    ASSUME near \subseteq Node \X Node, NEW n \in Node
    PROVE  /\ Cardinality(Node) \in Nat \ {0}
           /\ Within(n)[Cardinality(Node)] = Within(n)[Cardinality(Node) - 1]
<1> DEFINE N == Cardinality(Node)
           W == Within(n)
           T == {h \in Nat : h + 1 \in 0 .. N /\ W[h + 1] # W[h] => Cardinality(W[h + 1]) >= h + 2}
<1>1. N \in Nat /\ N # 0
  BY NodeAssumption, FS_CardinalityType, FS_EmptySet
<1>2. W[0] = {n} /\ \A h \in 0 .. N - 1 : W[h + 1] = Spread(W[h])
  BY WithinStep
<1>3. \A h \in 0 .. N : W[h] \subseteq Node
  BY WithinGrows
<1>4. \A h \in 0 .. N : IsFiniteSet(W[h]) /\ Cardinality(W[h]) \in Nat /\ Cardinality(W[h]) <= N
  BY <1>3, NodeAssumption, FS_Subset, FS_CardinalityType
<1> HIDE DEF W
<1>5. ASSUME NEW h \in 0 .. N - 1, W[h + 1] # W[h]
      PROVE  Cardinality(W[h + 1]) >= Cardinality(W[h]) + 1
  <2>1. h \in 0 .. N /\ h + 1 \in 0 .. N
    BY <1>1
  <2>2. W[h] \subseteq W[h + 1]
    BY <1>2 DEF Spread
  <2>3. Cardinality(W[h]) <= Cardinality(W[h + 1]) /\ Cardinality(W[h]) # Cardinality(W[h + 1])
    BY <1>4, <1>5, <2>1, <2>2, FS_Subset
  <2> HIDE DEF N
  <2> QED
    BY <1>4, <2>1, <2>3
<1> HIDE DEF N
<1>6. 0 \in T
  <2>1. ASSUME 0 + 1 \in 0 .. N, W[0 + 1] # W[0]
        PROVE  Cardinality(W[0 + 1]) >= 0 + 2
    <3>1. 0 \in 0 .. N - 1
      BY <1>1
    <3>2. Cardinality(W[0]) = 1
      BY <1>2, FS_Singleton
    <3>3. 0 + 1 \in 0 .. N /\ Cardinality(W[0 + 1]) \in Nat
      BY <1>4, <2>1
    <3> QED
      BY <1>5, <2>1, <3>1, <3>2, <3>3
  <2> QED
    BY <2>1
<1>7. ASSUME NEW h \in T
      PROVE  h + 1 \in T
  <2>1. h \in Nat /\ h + 1 \in Nat
    OBVIOUS
  <2>2. ASSUME (h + 1) + 1 \in 0 .. N, W[(h + 1) + 1] # W[h + 1]
        PROVE  Cardinality(W[(h + 1) + 1]) >= (h + 1) + 2
    <3>1. h \in 0 .. N - 1 /\ h + 1 \in 0 .. N - 1 /\ h + 1 \in 0 .. N
      BY <1>1, <2>1, <2>2
    <3>2. W[h + 1] # W[h]
      BY <1>2, <2>2, <3>1
    <3>3. Cardinality(W[h + 1]) >= h + 2
      BY <3>1, <3>2
    <3>4. Cardinality(W[(h + 1) + 1]) >= Cardinality(W[h + 1]) + 1
      BY <1>5, <2>2, <3>1
    <3>5. Cardinality(W[h + 1]) \in Nat /\ Cardinality(W[(h + 1) + 1]) \in Nat
      BY <1>4, <2>2, <3>1
    <3> HIDE DEF T
    <3> QED
      BY <2>1, <3>3, <3>4, <3>5
  <2> QED
    BY <2>1, <2>2
<1> HIDE DEF T
<1>8. Nat \subseteq T
  BY <1>6, <1>7, Induction
<1>9. W[N] = W[N - 1]
  <2>1. N - 1 \in Nat /\ (N - 1) + 1 = N /\ N \in 0 .. N
    BY <1>1
  <2>2. W[N] # W[N - 1] => Cardinality(W[N]) >= (N - 1) + 2
    BY <1>8, <2>1 DEF T
  <2>3. Cardinality(W[N]) <= N /\ Cardinality(W[N]) \in Nat
    BY <1>4, <2>1
  <2> QED
    BY <1>1, <2>2, <2>3
<1> QED
  BY <1>1, <1>9 DEF N, W

\* The distance is the least number of hops.
LEMMA DistanceIs ==
    ASSUME near \subseteq Node \X Node, NEW n \in Node
    PROVE  /\ DOMAIN Distance(n) = Within(n)[Cardinality(Node)]
           /\ \A h \in 0 .. Cardinality(Node) : \A d \in Within(n)[h] :
                 h = 0 \/ d \notin Within(n)[h - 1] => d \in DOMAIN Distance(n) /\ Distance(n)[d] = h
<1> DEFINE N == Cardinality(Node)
           W == Within(n)
           First(d, h) == d \in W[h] /\ (h = 0 \/ d \notin W[h - 1])
<1>1. Distance(n) = [d \in W[N] |-> CHOOSE h \in 0 .. N : First(d, h)]
  BY DEF Distance, Within
<1>2. N \in Nat
  BY WithinDef
<1>3. \A h \in 0 .. N : \A k \in 0 .. h : W[k] \subseteq W[h]
  BY WithinGrows
<1> HIDE DEF W, N
<1>4. ASSUME NEW h \in 0 .. N, NEW d \in W[h], h = 0 \/ d \notin W[h - 1]
      PROVE  d \in W[N] /\ (CHOOSE k \in 0 .. N : First(d, k)) = h
  <2>1. N \in 0 .. N /\ h \in 0 .. N
    BY <1>2
  <2>2. d \in W[N]
    BY <1>3, <2>1
  <2>3. First(d, h)
    BY <1>4
  <2>4. ASSUME NEW k \in 0 .. N, First(d, k)
        PROVE  k = h
    <3>1. ASSUME NEW i \in 0 .. N, NEW j \in 0 .. N, First(d, i), First(d, j), i < j
          PROVE  FALSE
      <4>1. j - 1 \in 0 .. N /\ i \in 0 .. j - 1 /\ j # 0
        BY <1>2, <3>1
      <4>2. d \in W[j - 1]
        BY <1>3, <3>1, <4>1
      <4> QED
        BY <3>1, <4>1, <4>2
    <3>2. k < h \/ h < k \/ k = h
      BY <1>2
    <3> HIDE DEF First
    <3> QED
      BY <2>3, <2>4, <3>1, <3>2
  <2> HIDE DEF First
  <2> QED
    BY <2>2, <2>3, <2>4
<1> HIDE DEF First
<1>5. DOMAIN Distance(n) = W[N]
  BY <1>1
<1>6. \A h \in 0 .. N : \A d \in W[h] :
         h = 0 \/ d \notin W[h - 1] => d \in DOMAIN Distance(n) /\ Distance(n)[d] = h
  BY <1>1, <1>4
<1> QED
  BY <1>5, <1>6 DEF W, N

\* Whom a neighbour reaches the router itself reaches in one more hop.
LEMMA WithinOfNeighbor ==
    ASSUME near \subseteq Node \X Node, NEW n \in Node, NEW m \in Node, Audible(n, m)
    PROVE  \A h \in 0 .. Cardinality(Node) - 1 : Within(m)[h] \subseteq Within(n)[h + 1]
<1> DEFINE N == Cardinality(Node)
           T == {h \in Nat : h \in 0 .. N - 1 => Within(m)[h] \subseteq Within(n)[h + 1]}
<1>1. N \in Nat
  BY WithinDef
<1>2. /\ Within(n)[0] = {n} /\ \A h \in 0 .. N - 1 : Within(n)[h + 1] = Spread(Within(n)[h])
      /\ Within(m)[0] = {m} /\ \A h \in 0 .. N - 1 : Within(m)[h + 1] = Spread(Within(m)[h])
  BY WithinStep
<1> HIDE DEF N
<1>3. 0 \in T
  <2>1. ASSUME 0 \in 0 .. N - 1
        PROVE  m \in Within(n)[0 + 1]
    BY <1>2, <2>1, SpreadIs
  <2> QED
    BY <1>2, <2>1
<1>4. ASSUME NEW h \in T
      PROVE  h + 1 \in T
  <2>1. h \in Nat /\ h + 1 \in Nat
    OBVIOUS
  <2>2. ASSUME h + 1 \in 0 .. N - 1
        PROVE  Within(m)[h + 1] \subseteq Within(n)[(h + 1) + 1]
    <3>1. h \in 0 .. N - 1
      BY <1>1, <2>1, <2>2
    <3>2. Within(m)[h] \subseteq Within(n)[h + 1]
      BY <3>1
    <3>3. /\ Within(m)[h + 1] = Spread(Within(m)[h])
          /\ Within(n)[(h + 1) + 1] = Spread(Within(n)[h + 1])
      BY <1>2, <2>2, <3>1
    <3> QED
      BY <3>2, <3>3 DEF Spread
  <2> QED
    BY <2>1, <2>2
<1> HIDE DEF T
<1>5. Nat \subseteq T
  BY <1>3, <1>4, Induction
<1>6. \A h \in 0 .. N - 1 : h \in Nat
  BY <1>1
<1> QED
  BY <1>5, <1>6 DEF N, T

-----------------------------------------------------------------------------
\* The routes of a calm network

\* rt holds a shortest route to each router in up to h hops, and to no other.
ShortestRoutes(n, rt, h) ==
    /\ {r.dest : r \in rt} = Within(n)[h] \ {n}
    /\ \A r \in rt : /\ r.dist \in 1 .. h
                     /\ r.dest \in Within(n)[r.dist] \ Within(n)[r.dist - 1]
                     /\ r.hop \in Node /\ Audible(n, r.hop)
                     /\ r.dest \in Within(r.hop)[r.dist - 1]

\* Willingness is a number, so among neighbours some are the most willing.
LEMMA MostWilling ==
    ASSUME NEW S, S \subseteq Node, S # {}
    PROVE  \E m \in S : \A k \in S : Willingness[k] <= Willingness[m]
<1>1. \A m \in S : Willingness[m] \in 0 .. 7
  BY WillingnessAssumption
<1>2. PICK x \in {Willingness[m] : m \in S} : \A y \in {Willingness[m] : m \in S} : y <= x
  <2>1. {Willingness[m] : m \in S} \subseteq 0 .. 7 /\ {Willingness[m] : m \in S} # {}
    BY <1>1
  <2> QED
    BY <2>1, Largest
<1> QED
  BY <1>2

\* Steps 2 and 3 of rtable_computation.
LEMMA NearRoutesShortest ==
    ASSUME near \subseteq Node \X Node, Mutual, NEW s, WellFormed(s), NEW n \in Node, UpToDate(s, n),
           \A m \in Node : Willingness[m] # WILL_NEVER, 2 \in 0 .. Cardinality(Node)
    PROVE  ShortestRoutes(n, NearRoutes(s), 2)
<1> DEFINE sym == SymNeighbors(s)
           two == {t \in s.nb2hop : t[1] \in sym /\ Willingness[t[1]] # WILL_NEVER /\ t[2] \notin sym}
           best == {t \in two : \A u \in two : u[2] = t[2] => Willingness[u[1]] <= Willingness[t[1]]}
           N == Cardinality(Node)
<1>1. sym = {m \in Node : Audible(n, m)}
  BY DEF SymNeighbors, UpToDate, WellFormed, Linked, Router
<1>2. two = {t \in near : Audible(n, t[1]) /\ t[2] # n /\ ~Audible(n, t[2])}
  BY <1>1 DEF UpToDate, Audible
<1>3. {k \in sym : s.links[k].known} = sym
  BY <1>1 DEF UpToDate
<1>4. NearRoutes(s) = {Route(m, m, 1) : m \in sym} \cup {Route(t[2], t[1], 2) : t \in best}
  BY <1>3 DEF NearRoutes
<1>5. N \in Nat /\ 0 \in 0 .. N - 1 /\ 1 \in 0 .. N - 1
  BY WithinDef
<1>6. \A m \in Node : /\ Within(m)[0] = {m}
                      /\ Within(m)[1] = Spread(Within(m)[0])
                      /\ Within(m)[2] = Spread(Within(m)[1])
  <2>1. 0 + 1 = 1 /\ 1 + 1 = 2
    OBVIOUS
  <2> QED
    BY <1>5, <2>1, WithinStep
<1>7. ~Audible(n, n) /\ \A m : Audible(n, m) => m \in Node
  BY DEF Mutual, Audible
<1>8. \A m \in Node : \A x : x \in Within(m)[1] <=> x = m \/ Audible(m, x)
  BY <1>6, SpreadIs
<1>9. \A x : x \in Within(n)[2] <=> x \in Within(n)[1] \/ \E y \in Within(n)[1] : Audible(y, x)
  BY <1>6, SpreadIs
<1> HIDE DEF N, sym, two, best
<1>10. ASSUME NEW r \in NearRoutes(s)
       PROVE  /\ r.dist \in 1 .. 2
              /\ r.dest \in Within(n)[r.dist] \ Within(n)[r.dist - 1]
              /\ r.hop \in Node /\ Audible(n, r.hop)
              /\ r.dest \in Within(r.hop)[r.dist - 1]
  <2>1. CASE \E m \in sym : r = Route(m, m, 1)
    <3>1. PICK m \in Node : Audible(n, m) /\ r.dest = m /\ r.hop = m /\ r.dist = 1
      BY <1>1, <2>1 DEF Route
    <3>2. m # n /\ 1 - 1 = 0
      BY <1>7, <3>1
    <3> QED
      BY <1>6, <1>8, <3>1, <3>2
  <2>2. CASE \E t \in best : r = Route(t[2], t[1], 2)
    <3>1. PICK t \in near : /\ Audible(n, t[1]) /\ t[2] # n /\ ~Audible(n, t[2])
                            /\ r.dest = t[2] /\ r.hop = t[1] /\ r.dist = 2
      BY <1>2, <2>2 DEF Route, best
    <3>2. t[1] \in Node /\ Audible(t[1], t[2]) /\ 2 - 1 = 1
      BY DEF Audible
    <3>3. t[2] \in Within(t[1])[1] /\ t[1] \in Within(n)[1] /\ t[2] \notin Within(n)[1]
      BY <1>8, <3>1, <3>2
    <3>4. t[2] \in Within(n)[2]
      BY <1>9, <3>2, <3>3
    <3> QED
      BY <3>1, <3>2, <3>3, <3>4
  <2> QED
    BY <1>4, <2>1, <2>2
<1>11. ASSUME NEW x \in Within(n)[2], x # n
       PROVE  \E r \in NearRoutes(s) : r.dest = x
  <2>1. CASE Audible(n, x)
    <3>1. x \in sym
      BY <1>1, <1>7, <2>1
    <3>2. Route(x, x, 1) \in NearRoutes(s) /\ Route(x, x, 1).dest = x
      BY <1>4, <3>1 DEF Route
    <3> QED
      BY <3>2
  <2>2. CASE ~Audible(n, x)
    <3> DEFINE S == {m \in Node : <<m, x>> \in two}
    <3>1. \E y \in Within(n)[1] : Audible(y, x)
      BY <1>8, <1>9, <1>11, <2>2
    <3>2. S # {}
      BY <1>2, <1>7, <1>8, <1>11, <2>2, <3>1 DEF Audible
    <3>3. PICK m \in S : \A k \in S : Willingness[k] <= Willingness[m]
      <4> HIDE DEF S
      <4>1. S \subseteq Node
        BY DEF S
      <4> QED
        BY <3>2, <4>1, MostWilling
    <3>4. \A u \in two : u = <<u[1], u[2]>> /\ u[1] \in Node
      BY <1>2
    <3>5. <<m, x>> \in best
      BY <3>3, <3>4 DEF best
    <3>6. Route(x, m, 2) \in NearRoutes(s) /\ Route(x, m, 2).dest = x
      BY <1>4, <3>5 DEF Route
    <3> QED
      BY <3>6
  <2> QED
    BY <2>1, <2>2
<1>12. \A r \in NearRoutes(s) : r.dest \in Within(n)[2] /\ r.dest # n
  <2> TAKE r \in NearRoutes(s)
  <2>1. r.dist = 1 \/ r.dist = 2
    BY <1>10
  <2>2. r.dest # n
    <3>1. n \in Within(n)[r.dist - 1]
      BY <1>6, <1>8, <2>1
    <3> QED
      BY <1>10, <3>1
  <2> QED
    BY <1>9, <1>10, <2>1, <2>2
<1>13. {r.dest : r \in NearRoutes(s)} = Within(n)[2] \ {n}
  BY <1>11, <1>12
<1> QED
  BY <1>10, <1>13 DEF ShortestRoutes

\* A router has a tuple for each selector of each router that it may reach.
KnowsTopology(n) ==
    \A m \in Routers : m \in DOMAIN Distance(n) /\ m # n =>
        \A d \in router[m].mprsel : \E t \in router[n].topology : t.last = m /\ t.dest = d

\* A calm network in which everybody is willing to be a relay.
CalmNetwork == IInv /\ CalmInv /\ calm /\ \A n \in Node : Willingness[n] # WILL_NEVER

LEMMA CalmNetworkIs ==
    ASSUME CalmNetwork
    PROVE  /\ Routers \subseteq Node /\ Mutual /\ near \subseteq Routers \X Routers
           /\ near \subseteq Node \X Node
           /\ \A m \in Routers : WellFormed(router[m]) /\ UpToDate(router[m], m)
           /\ \A m, k : Audible(m, k) => m # k /\ Audible(k, m) /\ m \in Routers /\ k \in Routers
           /\ \A m, d : m \in Routers /\ d \in router[m].mprsel =>
                 d \in Routers /\ Audible(m, d) /\ m \in router[d].mprset
           /\ \A m, d \in Routers : m \in router[d].mprset => d \in router[m].mprsel
<1>1. /\ Routers \subseteq Node /\ Mutual /\ near \subseteq Routers \X Routers
      /\ near \subseteq Node \X Node
      /\ \A m \in Routers : WellFormed(router[m]) /\ CalmRouter(m)
  BY DEF CalmNetwork, IInv, CalmInv
<1>2. \A m, k : Audible(m, k) => m # k /\ Audible(k, m) /\ m \in Routers /\ k \in Routers
  <2> TAKE m, k
  <2> HAVE Audible(m, k)
  <2> DEFINE p == <<m, k>>
  <2>1. p \in near /\ p[1] = m /\ p[2] = k
    BY DEF Audible
  <2>2. p[1] # p[2] /\ <<p[2], p[1]>> \in near
    BY <1>1, <2>1 DEF Mutual
  <2> QED
    BY <1>1, <2>1, <2>2 DEF Audible
<1>3. \A m \in Routers : UpToDate(router[m], m) /\ router[m].mprsel = {k \in Routers : m \in router[k].mprset}
  BY <1>1 DEF CalmRouter
<1>4. ASSUME NEW m \in Routers, NEW d \in router[m].mprsel
      PROVE  d \in Routers /\ Audible(m, d) /\ m \in router[d].mprset
  <2>1. d \in Routers /\ m \in router[d].mprset
    BY <1>3
  <2>2. Audible(d, m)
    BY <1>1, <1>3, <2>1, UpToDateCovers
  <2> QED
    BY <1>2, <2>1, <2>2
<1>5. \A m, d \in Routers : m \in router[d].mprset => d \in router[m].mprsel
  BY <1>3
<1> QED
  BY <1>1, <1>2, <1>3, <1>4, <1>5

\* Step 4 of rtable_computation: whoever is farther away has chosen as relay a router that
\* is one hop nearer, for relays reach whoever is two hops away.
LEMMA FartherRoutesShortest ==
    ASSUME CalmNetwork, NEW n \in Routers, WellInformed(router[n], n), KnowsTopology(n),
           NEW h \in 0 .. Cardinality(Node), h >= 2, NEW rt, ShortestRoutes(n, rt, h)
    PROVE  LET more == FartherRoutes(router[n], rt, h)
           IN  /\ h = Cardinality(Node) => more = {}
               /\ h # Cardinality(Node) => ShortestRoutes(n, rt \cup more, h + 1)
<1> DEFINE s == router[n]
           N == Cardinality(Node)
           W == Within(n)
           more == FartherRoutes(s, rt, h)
           tuples == {t \in s.topology : \A r \in rt : r.dest # t.dest}
           last == {r \in rt : r.dist = h}
<1>1. /\ Routers \subseteq Node /\ near \subseteq Node \X Node /\ n \in Node
      /\ \A m \in Routers : WellFormed(router[m]) /\ UpToDate(router[m], m)
      /\ \A m, k : Audible(m, k) => m # k /\ Audible(k, m) /\ m \in Routers /\ k \in Routers
      /\ \A m, d : m \in Routers /\ d \in router[m].mprsel =>
            d \in Routers /\ Audible(m, d) /\ m \in router[d].mprset
      /\ \A m, d \in Routers : m \in router[d].mprset => d \in router[m].mprsel
  BY CalmNetworkIs
<1>2. /\ N \in Nat /\ h \in Nat /\ h - 1 \in 0 .. N /\ h - 2 \in 0 .. N /\ 0 \in 0 .. N
      /\ h - 2 \in 0 .. N - 1 /\ h - 1 \in 0 .. N - 1 /\ (h - 2) + 1 = h - 1 /\ (h - 1) + 1 = h
      /\ h # N => h \in 0 .. N - 1 /\ h + 1 \in 0 .. N
  BY WithinDef
<1>3. \A m \in Node : \A k \in 0 .. N - 1 : \A x :
         x \in Within(m)[k + 1] <=> x \in Within(m)[k] \/ \E y \in Within(m)[k] : Audible(y, x)
  BY <1>1, WithinStep, SpreadIs
<1>4. \A k \in 0 .. N : W[k] \subseteq Node /\ n \in W[k] /\ \A j \in 0 .. k : W[j] \subseteq W[k]
  BY <1>1, WithinGrows
<1>5. W[N] = W[N - 1] /\ DOMAIN Distance(n) = W[N]
  BY <1>1, WithinEnds, DistanceIs
<1>6. /\ {r.dest : r \in rt} = W[h] \ {n}
      /\ \A r \in rt : /\ r.dist \in 1 .. h
                       /\ r.dest \in W[r.dist] \ W[r.dist - 1]
                       /\ r.hop \in Node /\ Audible(n, r.hop)
                       /\ r.dest \in Within(r.hop)[r.dist - 1]
  BY DEF ShortestRoutes
<1>7. more = {Route(p[1].dest, p[2].hop, h + 1) : p \in {q \in tuples \X last : q[1].last = q[2].dest}}
  BY DEF FartherRoutes
<1>8. h = N => more = {}
  <2>1. h = N => last = {}
    BY <1>5, <1>6
  <2> HIDE DEF last, tuples, more
  <2> QED
    BY <1>7, <2>1
<1> HIDE DEF N, W, more
<1>9. ASSUME h # N, NEW r \in more
      PROVE  /\ r.dist = h + 1
             /\ r.dest \in W[h + 1] \ W[h]
             /\ r.hop \in Node /\ Audible(n, r.hop)
             /\ r.dest \in Within(r.hop)[h]
  <2>1. PICK t \in tuples, k \in last : t.last = k.dest /\ r = Route(t.dest, k.hop, h + 1)
    BY <1>7
  <2>2. /\ r.dest = t.dest /\ r.hop = k.hop /\ r.dist = h + 1
        /\ k \in rt /\ k.dist = h /\ t \in s.topology /\ \A x \in rt : x.dest # t.dest
    BY <2>1 DEF Route
  <2>3. /\ t.last \in W[h] \ W[h - 1] /\ k.hop \in Node /\ Audible(n, k.hop)
        /\ t.last \in Within(k.hop)[h - 1]
    BY <1>6, <2>1, <2>2
  <2>4. Audible(t.last, t.dest) /\ Audible(t.dest, t.last)
    BY <1>1, <2>2 DEF WellInformed
  <2>5. t.dest # n
    <3>1. ASSUME t.dest = n
          PROVE  FALSE
      <4>1. t.last \in W[(h - 2) + 1]
        BY <1>1, <1>2, <1>3, <1>4, <2>4, <3>1 DEF W
      <4> QED
        BY <1>2, <2>3, <4>1
    <3> QED
      BY <3>1
  <2>6. t.dest \notin W[h]
    BY <1>6, <2>2, <2>5
  <2>7. t.dest \in W[h + 1]
    BY <1>1, <1>2, <1>3, <1>9, <2>3, <2>4 DEF W
  <2>8. t.dest \in Within(k.hop)[(h - 1) + 1]
    BY <1>1, <1>2, <1>3, <2>3, <2>4
  <2> QED
    BY <1>2, <2>2, <2>3, <2>6, <2>7, <2>8
<1>10. ASSUME h # N, NEW x \in W[h + 1], x \notin W[h]
       PROVE  \E r \in more : r.dest = x
  <2>1. PICK l \in W[h] : Audible(l, x)
    BY <1>1, <1>2, <1>3, <1>10 DEF W
  <2>2. l \notin W[h - 1]
    <3>1. l \in W[h - 1] => x \in W[(h - 1) + 1]
      BY <1>1, <1>2, <1>3, <2>1 DEF W
    <3> QED
      BY <1>2, <1>10, <3>1
  <2>3. PICK y \in W[h - 1] : Audible(y, l)
    <3>1. l \in W[(h - 1) + 1]
      BY <1>2
    <3> QED
      BY <1>1, <1>2, <1>3, <2>2, <3>1 DEF W
  <2>4. \A z : Audible(z, x) => z \notin W[h - 1]
    <3>1. \A z : Audible(z, x) /\ z \in W[h - 1] => x \in W[(h - 1) + 1]
      BY <1>1, <1>2, <1>3 DEF W
    <3> QED
      BY <1>2, <1>10, <3>1
  <2>5. /\ x \in Routers /\ l \in Node /\ y \in Node /\ x \in Node
        /\ Audible(x, l) /\ Audible(l, y) /\ y # x /\ ~Audible(x, y)
    <3>1. y # x
      BY <1>2, <1>4, <1>10
    <3>2. ~Audible(x, y)
      BY <1>1, <2>4
    <3> QED
      BY <1>1, <2>1, <2>3, <3>1, <3>2
  <2>6. PICK m \in router[x].mprset : <<m, y>> \in near
    <3>1. Willingness[l] # WILL_NEVER
      BY <2>5 DEF CalmNetwork
    <3> QED
      BY <1>1, <2>5, <3>1, UpToDateCovers
  <2>7. Audible(m, y) /\ Audible(y, m) /\ Audible(x, m) /\ Audible(m, x) /\ m \in Routers
    <3>1. Audible(x, m)
      BY <1>1, <2>5, UpToDateCovers
    <3> QED
      BY <1>1, <2>6, <3>1 DEF Audible
  <2>8. m \in W[h] /\ m \notin W[h - 1] /\ m # n
    <3>1. m \in W[(h - 1) + 1]
      BY <1>1, <1>2, <1>3, <2>3, <2>7 DEF W
    <3>2. m \notin W[h - 1]
      BY <2>4, <2>7
    <3> QED
      BY <1>2, <1>4, <3>1, <3>2
  <2>9. x \in router[m].mprsel
    BY <1>1, <2>5, <2>6, <2>7
  <2>10. PICK t \in s.topology : t.last = m /\ t.dest = x
    <3>1. m \in DOMAIN Distance(n)
      <4>1. h \in 0 .. N /\ N \in 0 .. N
        BY <1>2 DEF N
      <4> QED
        BY <1>2, <1>4, <1>5, <2>8, <4>1
    <3> QED
      BY <2>7, <2>8, <2>9, <3>1 DEF KnowsTopology
  <2>11. PICK k \in rt : k.dest = m
    BY <1>6, <2>8
  <2>12. k.dist = h
    <3>1. k.dist \in 1 .. h /\ m \in W[k.dist]
      BY <1>6, <2>11
    <3>2. CASE k.dist \in 0 .. h - 1
      <4>1. W[k.dist] \subseteq W[h - 1]
        BY <1>2, <1>4, <3>2
      <4> QED
        BY <2>8, <3>1, <4>1
    <3> QED
      BY <1>2, <3>1, <3>2
  <2>13. t \in tuples /\ k \in last
    <3>1. \A r \in rt : r.dest # x
      BY <1>6, <1>10
    <3> QED
      BY <2>10, <2>12, <3>1
  <2> DEFINE r == Route(x, k.hop, h + 1)
  <2>14. r \in more
    <3>1. <<t, k>> \in {q \in tuples \X last : q[1].last = q[2].dest}
      BY <2>10, <2>11, <2>13
    <3>2. r = Route(<<t, k>>[1].dest, <<t, k>>[2].hop, h + 1)
      BY <2>10
    <3> HIDE DEF r, tuples, last
    <3> QED
      BY <1>7, <3>1, <3>2
  <2> QED
    BY <2>14 DEF Route
<1>11. ASSUME h # N
       PROVE  ShortestRoutes(n, rt \cup more, h + 1)
  <2>1. W[h + 1] = W[h] \cup (W[h + 1] \ W[h]) /\ n \in W[h]
    <3>1. W[h] \subseteq W[h + 1]
      <4>1. h + 1 \in 0 .. N /\ h \in 0 .. h + 1
        BY <1>2, <1>11
      <4> QED
        BY <1>4, <4>1
    <3> QED
      BY <1>4, <3>1 DEF N
  <2>2. {r.dest : r \in more} = W[h + 1] \ W[h]
    BY <1>9, <1>10, <1>11
  <2>3. {r.dest : r \in rt \cup more} = W[h + 1] \ {n}
    BY <1>6, <2>1, <2>2
  <2>4. \A r \in rt : r.dist \in 1 .. h + 1
    BY <1>2, <1>6
  <2>5. h + 1 \in 1 .. h + 1 /\ (h + 1) - 1 = h
    BY <1>2
  <2>6. \A r \in more : /\ r.dist \in 1 .. h + 1
                        /\ r.dest \in W[r.dist] \ W[r.dist - 1]
                        /\ r.hop \in Node /\ Audible(n, r.hop)
                        /\ r.dest \in Within(r.hop)[r.dist - 1]
    BY <1>9, <1>11, <2>5
  <2> QED
    BY <1>6, <2>3, <2>4, <2>6 DEF ShortestRoutes, W
<1> QED
  BY <1>8, <1>11 DEF N, more

\* Such a table is right.
LEMMA RoutedIsRight ==
    ASSUME CalmNetwork, NEW n \in Routers, WellInformed(router[n], n), KnowsTopology(n), Routed(router[n])
    PROVE  RoutesRight(n)
<1> DEFINE s == router[n]
           N == Cardinality(Node)
           table(k) == RoutesWithin(s)[k]
           T == {k \in Nat : k \in 1 .. N - 1 => ShortestRoutes(n, table(k), k + 1)}
<1>1. /\ Routers \subseteq Node /\ near \subseteq Node \X Node /\ Mutual /\ n \in Node
      /\ WellFormed(s) /\ UpToDate(s, n)
      /\ \A m, k : Audible(m, k) => m # k /\ Audible(k, m) /\ m \in Routers /\ k \in Routers
      /\ \A m \in Node : Willingness[m] # WILL_NEVER
  BY CalmNetworkIs DEF CalmNetwork
<1>2. N \in Nat /\ N # 0
  BY <1>1, WithinEnds
<1>3. RoutesWithin(s) =
         [h \in 1 .. N |-> IF h = 1 THEN NearRoutes(s)
                           ELSE RoutesWithin(s)[h - 1] \cup FartherRoutes(s, RoutesWithin(s)[h - 1], h)]
  BY <1>2, RoutesWithinDef
<1> HIDE DEF N
<1>4. /\ table(1) = NearRoutes(s)
      /\ \A k \in 1 .. N - 1 : table(k + 1) = table(k) \cup FartherRoutes(s, table(k), k + 1)
  <2>1. 1 \in 1 .. N /\ \A k \in 1 .. N - 1 : k + 1 \in 1 .. N /\ k + 1 # 1 /\ (k + 1) - 1 = k
    BY <1>2
  <2> HIDE DEF T
  <2> QED
    BY <1>3, <2>1
<1> HIDE DEF table
<1>5. 0 \in T
  BY <1>2
<1>6. ASSUME NEW k \in T
      PROVE  k + 1 \in T
  <2>1. k \in Nat /\ k + 1 \in Nat
    OBVIOUS
  <2>2. ASSUME k + 1 \in 1 .. N - 1
        PROVE  ShortestRoutes(n, table(k + 1), (k + 1) + 1)
    <3>1. CASE k = 0
      <4>1. 2 \in 0 .. N /\ k + 1 = 1 /\ (k + 1) + 1 = 2
        BY <1>2, <2>2, <3>1
      <4>2. ShortestRoutes(n, NearRoutes(s), 2)
        BY <1>1, <4>1, NearRoutesShortest DEF N
      <4> QED
        BY <1>4, <4>1, <4>2
    <3>2. CASE k # 0
      <4>1. k \in 1 .. N - 1 /\ k + 1 \in 0 .. N /\ k + 1 >= 2 /\ k + 1 # N
        BY <1>2, <2>1, <2>2, <3>2
      <4>2. ShortestRoutes(n, table(k), k + 1)
        BY <4>1
      <4>3. ShortestRoutes(n, table(k) \cup FartherRoutes(s, table(k), k + 1), (k + 1) + 1)
        BY <4>1, <4>2, FartherRoutesShortest DEF N
      <4> QED
        BY <1>4, <4>1, <4>3
    <3> QED
      BY <3>1, <3>2
  <2> HIDE DEF s
  <2> QED
    BY <2>1, <2>2
<1> HIDE DEF T
<1>7. Nat \subseteq T
  BY <1>5, <1>6, Induction
<1>8. CASE N = 1
  <2>1. Within(n)[1] = {n} /\ DOMAIN Distance(n) = Within(n)[1]
    <3>1. 1 - 1 = 0 /\ Within(n)[0] = {n}
      BY WithinStep
    <3> QED
      BY <1>1, <1>8, <3>1, WithinEnds, DistanceIs DEF N
  <2>2. \A m : ~Audible(n, m)
    <3>1. 0 \in 0 .. N - 1 /\ 0 + 1 = 1
      BY <1>8
    <3>2. \A m : Audible(n, m) => m \in Within(n)[1]
      BY <1>1, <3>1, WithinStep, SpreadIs DEF N
    <3> QED
      BY <1>1, <2>1, <3>2
  <2>3. SymNeighbors(s) = {}
    BY <1>1, <2>2 DEF SymNeighbors, UpToDate, WellFormed, Linked, Router
  <2>4. NearRoutes(s) = {}
    BY <2>3 DEF NearRoutes
  <2>5. s.rt = {}
    BY <1>4, <1>8, <2>4 DEF Routed, table, N
  <2> QED
    BY <2>1, <2>5 DEF RoutesRight
<1>9. CASE N # 1
  <2>1. /\ N - 1 \in 1 .. N - 1 /\ N - 1 \in Nat /\ (N - 1) + 1 = N
        /\ N \in 0 .. N /\ N >= 2
    BY <1>2, <1>9
  <2>2. ShortestRoutes(n, table(N - 1), N)
    BY <1>7, <2>1 DEF T
  <2>3. FartherRoutes(s, table(N - 1), N) = {}
    BY <2>1, <2>2, FartherRoutesShortest DEF N
  <2>4. s.rt = table(N - 1)
    BY <1>4, <2>1, <2>3 DEF Routed, table, N
  <2>5. ShortestRoutes(n, s.rt, N)
    BY <2>2, <2>4
  <2>6. DOMAIN Distance(n) = Within(n)[N]
    BY <1>1, DistanceIs DEF N
  <2>7. ASSUME NEW r \in s.rt
        PROVE  /\ r.dist = Distance(n)[r.dest]
               /\ Audible(n, r.hop)
               /\ Distance(r.hop)[r.dest] = r.dist - 1
    <3>1. /\ r.dist \in 1 .. N
          /\ r.dest \in Within(n)[r.dist] /\ r.dest \notin Within(n)[r.dist - 1]
          /\ r.hop \in Node /\ Audible(n, r.hop)
          /\ r.dest \in Within(r.hop)[r.dist - 1]
      BY <2>5 DEF ShortestRoutes
    <3>2. r.dist \in 0 .. N /\ r.dist - 1 \in 0 .. N
      BY <1>2, <3>1
    <3>3. Distance(n)[r.dest] = r.dist
      BY <1>1, <3>1, <3>2, DistanceIs DEF N
    <3>4. r.dist - 1 = 0 \/ r.dest \notin Within(r.hop)[(r.dist - 1) - 1]
      <4>1. CASE r.dist = 1
        BY <4>1
      <4>2. CASE r.dist # 1
        <5>1. (r.dist - 1) - 1 \in 0 .. N - 1 /\ ((r.dist - 1) - 1) + 1 = r.dist - 1
          BY <1>2, <3>1, <4>2
        <5>2. Within(r.hop)[(r.dist - 1) - 1] \subseteq Within(n)[((r.dist - 1) - 1) + 1]
          BY <1>1, <3>1, <5>1, WithinOfNeighbor DEF N
        <5> QED
          BY <3>1, <5>1, <5>2
      <4> QED
        BY <4>1, <4>2
    <3>5. Distance(r.hop)[r.dest] = r.dist - 1
      BY <1>1, <3>1, <3>2, <3>4, DistanceIs DEF N
    <3> QED
      BY <3>1, <3>3, <3>5
  <2>8. {r.dest : r \in s.rt} = DOMAIN Distance(n) \ {n}
    BY <2>5, <2>6 DEF ShortestRoutes
  <2>9. {r \in s.rt : r.dest # n} = s.rt
    BY <2>8
  <2> QED
    BY <2>7, <2>8, <2>9 DEF RoutesRight
<1> QED
  BY <1>8, <1>9

-----------------------------------------------------------------------------
\* Who is in reach

\* Whoever hears only routers of a set reaches only routers of it.
LEMMA ReachStaysIn ==
    ASSUME near \subseteq Node \X Node, NEW n \in Node, NEW S, n \in S,
           \A x \in S : \A y : Audible(x, y) => y \in S
    PROVE  DOMAIN Distance(n) \subseteq S
<1> DEFINE N == Cardinality(Node)
           T == {h \in Nat : h \in 0 .. N => Within(n)[h] \subseteq S}
<1>1. N \in Nat
  BY WithinDef
<1>2. Within(n)[0] = {n} /\ \A h \in 0 .. N - 1 : Within(n)[h + 1] = Spread(Within(n)[h])
  BY WithinStep
<1> HIDE DEF N
<1>3. 0 \in T
  BY <1>2
<1>4. ASSUME NEW h \in T
      PROVE  h + 1 \in T
  <2>1. h \in Nat /\ h + 1 \in Nat
    OBVIOUS
  <2>2. ASSUME h + 1 \in 0 .. N
        PROVE  Within(n)[h + 1] \subseteq S
    <3>1. h \in 0 .. N - 1 /\ h \in 0 .. N
      BY <1>1, <2>1, <2>2
    <3>2. Within(n)[h] \subseteq S
      BY <3>1
    <3>3. \A x : x \in Spread(Within(n)[h]) <=>
             x \in Within(n)[h] \/ \E y \in Within(n)[h] : Audible(y, x)
      BY SpreadIs
    <3> QED
      BY <1>2, <3>1, <3>2, <3>3
  <2> QED
    BY <2>1, <2>2
<1> HIDE DEF T
<1>5. Nat \subseteq T
  BY <1>3, <1>4, Induction
<1>6. N \in 0 .. N
  BY <1>1
<1> QED
  BY <1>1, <1>5, <1>6, DistanceIs DEF N, T

LEMMA ReachIs ==
    ASSUME near \subseteq Node \X Node, NEW n \in Node
    PROVE  /\ n \in DOMAIN Distance(n)
           /\ \A x \in DOMAIN Distance(n) : \A y : Audible(x, y) => y \in DOMAIN Distance(n)
<1> DEFINE N == Cardinality(Node)
           W == Within(n)
<1>1. N \in Nat \ {0} /\ W[N] = W[N - 1] /\ DOMAIN Distance(n) = W[N]
  BY WithinEnds, DistanceIs
<1>2. \A h \in 0 .. N : n \in W[h]
  BY WithinGrows
<1>3. \A h \in 0 .. N - 1 : W[h + 1] = Spread(W[h])
  BY WithinStep
<1> HIDE DEF N, W
<1>4. N \in 0 .. N /\ N - 1 \in 0 .. N - 1 /\ (N - 1) + 1 = N
  BY <1>1
<1>5. W[N] = Spread(W[N])
  BY <1>1, <1>3, <1>4
<1>6. \A x : x \in Spread(W[N]) <=> x \in W[N] \/ \E y \in W[N] : Audible(y, x)
  BY SpreadIs
<1> QED
  BY <1>1, <1>2, <1>4, <1>5, <1>6

\* What a router reaches its neighbours reach as well.
LEMMA ReachOfNeighbor ==
    ASSUME near \subseteq Node \X Node, NEW n \in Node, NEW m \in Node, Audible(n, m)
    PROVE  DOMAIN Distance(m) \subseteq DOMAIN Distance(n)
<1>1. m \in DOMAIN Distance(n)
  BY ReachIs
<1>2. \A x \in DOMAIN Distance(n) : \A y : Audible(x, y) => y \in DOMAIN Distance(n)
  BY ReachIs
<1> QED
  BY <1>1, <1>2, ReachStaysIn

\* Distances change only with the links.
DistanceIn(n, links) ==
    LET within[h \in 0..Cardinality(Node)] ==
            IF h = 0 THEN {n}
            ELSE LET w == within[h - 1] IN w \cup {p[2] : p \in {q \in links : q[1] \in w}}
    IN  [d \in within[Cardinality(Node)] |->
            CHOOSE h \in 0..Cardinality(Node) :
                d \in within[h] /\ (h = 0 \/ d \notin within[h - 1])]

LEMMA DistanceKept ==
    ASSUME near' = near, NEW n
    PROVE  Distance(n)' = Distance(n)
<1>1. Distance(n) = DistanceIn(n, near)
  BY DEF Distance, DistanceIn
<1>2. Distance(n)' = DistanceIn(n, near')
  BY DEF Distance, DistanceIn
<1> QED
  BY <1>1, <1>2

-----------------------------------------------------------------------------
\* What the routers of a calm network know

\* They know only what is true, and their routes are those of what they know.
CalmKnowledge == calm => \A n \in Routers : WellInformed(router[n], n) /\ Routed(router[n])

\* What keeps that so.
LEMMA KnowledgeKept ==
    ASSUME IInv, near' = near, Routers' = Routers,
           \A n \in Routers : /\ SameTables(router[n], router'[n])
                              /\ WellInformed(router'[n], n)
                              /\ Routed(router'[n])
    PROVE  CalmKnowledge'
<1>1. \A m \in Routers : router'[m].mprsel = router[m].mprsel /\ router'[m].ansn = router[m].ansn
  BY DEF SameTables
<1>2. ASSUME NEW n \in Routers
      PROVE  WellInformed(router[n], n)' /\ Routed(router[n])'
  <2> DEFINE t == router'[n]
  <2>1. Distance(n)' = Distance(n)
    BY DistanceKept
  <2>2. WellInformed(t, n)
    OBVIOUS
  <2>3. \A x \in t.topology : /\ x.last \in Routers' /\ x.last \in DOMAIN (Distance(n)')
                              /\ x.dest \in router'[x.last].mprsel /\ x.seq = router'[x.last].ansn
    BY <1>1, <2>1, <2>2 DEF WellInformed
  <2>4. \A msg \in ToSet(t.msgs) : msg.type = "TC" => TrueTc(n, msg)'
    BY <1>1, <2>1, <2>2 DEF WellInformed, TrueTc
  <2>5. \A o \in t.dup : /\ o \in Routers'
                         /\ \A d \in router'[o].mprsel : \E x \in t.topology : x.last = o /\ x.dest = d
    BY <1>1, <2>2 DEF WellInformed
  <2>6. WellInformed(router[n], n)'
    BY <2>3, <2>4, <2>5 DEF WellInformed
  <2>7. Routed(router[n])'
    BY DEF Routed
  <2> QED
    BY <2>6, <2>7
<1> QED
  BY <1>2 DEF CalmKnowledge

\* A router of which only the buffer or the duplicate set changes.
LEMMA SameKnowledge ==
    ASSUME NEW s, s \in Router, Routed(s), NEW n \in Node, NEW t,
           \/ \E msgs : t = [s EXCEPT !.msgs = msgs]
           \/ \E dup : t = [s EXCEPT !.dup = dup]
    PROVE  SameTables(s, t) /\ Routed(t) /\ t.topology = s.topology
<1>1. SameTables(s, t) /\ SameInputs(s, t) /\ t.rt = s.rt
  BY DEF SameTables, SameInputs, Router
<1> QED
  BY <1>1, RoutedSame DEF SameInputs

LEMMA SendHelloKnown ==
    ASSUME IInv, CalmInv, calm, CalmKnowledge, NEW n \in Routers, SendHello(n), Routers' = Routers
    PROVE  CalmKnowledge'
<1> DEFINE s == router[n]
           t == Enqueue(s, HelloMsg(s, n))
<1>1. /\ n \in Node /\ s \in Router /\ WellFormed(s)
      /\ \A m \in Routers : WellInformed(router[m], m) /\ Routed(router[m])
  BY DEF IInv, WellFormed, CalmKnowledge
<1>2. /\ near' = near /\ router'[n] = t /\ \A m \in Routers \ {n} : router'[m] = router[m]
  BY DEF SendHello, Routers
<1>3. ToSet(t.msgs) = ToSet(s.msgs) \cup {HelloMsg(s, n)} /\ t.dup = s.dup /\ t.topology = s.topology
  <2>1. HelloMsg(s, n) \in HelloMessage
    BY <1>1, HelloMsgType
  <2> QED
    BY <1>1, <2>1, EnqueueStep
<1>4. SameTables(s, t) /\ Routed(t)
  BY <1>1, SameKnowledge DEF Enqueue
<1> HIDE DEF t
<1>5. HelloMsg(s, n).type = "HELLO"
  BY DEF HelloMsg
<1>6. WellInformed(t, n)
  BY <1>1, <1>3, <1>5 DEF WellInformed
<1>7. \A m \in Routers : /\ SameTables(router[m], router'[m])
                         /\ WellInformed(router'[m], m)
                         /\ Routed(router'[m])
  <2> TAKE m \in Routers
  <2>1. CASE m = n
    BY <1>2, <1>4, <1>6, <2>1
  <2>2. CASE m # n
    BY <1>1, <1>2, <2>2 DEF SameTables
  <2> QED
    BY <2>1, <2>2
<1> QED
  BY <1>2, <1>7, KnowledgeKept

\* A new TC is true.
LEMMA SendTcKnown ==
    ASSUME IInv, CalmInv, calm, CalmKnowledge, NEW n \in Routers, SendTc(n), Routers' = Routers
    PROVE  CalmKnowledge'
<1> DEFINE s == router[n]
           t == Enqueue(s, TcMsg(s, n))
<1>1. /\ n \in Node /\ s \in Router /\ WellFormed(s) /\ near \subseteq Node \X Node
      /\ \A m \in Routers : /\ WellInformed(router[m], m) /\ Routed(router[m])
                            /\ router[m] \in Router /\ m \in Node
  BY DEF IInv, WellFormed, CalmKnowledge
<1>2. /\ near' = near /\ router'[n] = t
      /\ \A m \in Routers \ {n} : router'[m] = [router[m] EXCEPT !.dup = router[m].dup \ {n}]
  BY DEF SendTc
<1>3. ToSet(t.msgs) = ToSet(s.msgs) \cup {TcMsg(s, n)} /\ t.dup = s.dup /\ t.topology = s.topology
  <2>1. TcMsg(s, n) \in TcMessage
    BY <1>1, TcMsgType
  <2> QED
    BY <1>1, <2>1, EnqueueStep
<1>4. SameTables(s, t) /\ Routed(t)
  BY <1>1, SameKnowledge DEF Enqueue
<1> HIDE DEF t
<1>5. TrueTc(n, TcMsg(s, n))
  <2>1. n \in DOMAIN Distance(n)
    BY <1>1, ReachIs
  <2> QED
    BY <2>1 DEF TcMsg, TrueTc
<1>6. WellInformed(t, n)
  BY <1>1, <1>3, <1>5 DEF WellInformed
<1>7. ASSUME NEW m \in Routers
      PROVE  /\ SameTables(router[m], router'[m])
             /\ WellInformed(router'[m], m)
             /\ Routed(router'[m])
  <2>1. CASE m = n
    BY <1>2, <1>4, <1>6, <2>1
  <2>2. CASE m # n
    <3>1. router'[m] = [router[m] EXCEPT !.dup = router[m].dup \ {n}]
      BY <1>2, <2>2
    <3> DEFINE u == router'[m]
    <3>2. u.dup = router[m].dup \ {n} /\ u.msgs = router[m].msgs
      BY <1>1, <3>1 DEF Router
    <3>3. SameTables(router[m], u) /\ Routed(u) /\ u.topology = router[m].topology
      BY <1>1, <3>1, SameKnowledge
    <3>4. WellInformed(router[m], m)
      BY <1>1
    <3> HIDE DEF u
    <3>5. WellInformed(u, m)
      BY <3>2, <3>3, <3>4 DEF WellInformed
    <3> QED
      BY <3>3, <3>5 DEF u
  <2> QED
    BY <2>1, <2>2
<1> QED
  BY <1>2, <1>7, KnowledgeKept

\* A packet of a neighbour tells only of routers in reach.
LEMMA SendPktKnown ==
    ASSUME IInv, IInv', Step, CalmInv, calm, CalmKnowledge, NEW n \in Routers, SendPkt(n)
    PROVE  CalmKnowledge'
<1>1. /\ n \in Node /\ Mutual /\ near \subseteq Node \X Node
      /\ \A m \in Routers : /\ WellInformed(router[m], m) /\ Routed(router[m]) /\ m \in Node
                            /\ router[m] \in Router /\ WellFormed(router[m]) /\ CalmRouter(m)
  BY DEF IInv, WellFormed, CalmKnowledge, CalmInv
<1>2. near' = near /\ Routers' = Routers
  BY DEF SendPkt, Step
<1>3. ASSUME NEW m \in Routers
      PROVE  WellInformed(router'[m], m) /\ Routed(router'[m])
  <2> DEFINE s == router[m]
  <2>1. router'[m] = IF m = n THEN [router[n] EXCEPT !.msgs = <<>>]
                     ELSE IF Audible(m, n) THEN RecvOlsr(s, m, n, router[n].msgs) ELSE s
    BY DEF SendPkt
  <2>2. CASE m = n
    <3> DEFINE t == router'[m]
    <3>1. t = [s EXCEPT !.msgs = <<>>]
      BY <2>1, <2>2
    <3>2. t.dup = s.dup /\ t.msgs = <<>>
      BY <1>1, <3>1 DEF Router
    <3>3. Routed(t) /\ t.topology = s.topology
      BY <1>1, <3>1, SameKnowledge
    <3>4. ToSet(t.msgs) = {}
      BY <3>2 DEF ToSet
    <3>5. WellInformed(s, m)
      BY <1>1
    <3> HIDE DEF t, s
    <3>6. WellInformed(t, m)
      BY <3>2, <3>3, <3>4, <3>5 DEF WellInformed
    <3> QED
      BY <3>3, <3>6 DEF t
  <2>3. CASE m # n /\ Audible(m, n)
    <3>1. DOMAIN Distance(n) \subseteq DOMAIN Distance(m)
      BY <1>1, <2>3, ReachOfNeighbor
    <3>2. \A msg \in ToSet(router[n].msgs) : msg.type = "TC" => TrueTc(m, msg)
      <4>1. \A msg \in ToSet(router[n].msgs) : msg.type = "TC" => TrueTc(n, msg)
        BY <1>1 DEF WellInformed
      <4> QED
        BY <3>1, <4>1 DEF TrueTc
    <3>3. m \in router[n].mprset => n \in s.mprsel
      BY <1>1 DEF CalmRouter
    <3>4. /\ WellInformed(RecvOlsr(s, m, n, router[n].msgs), m)
          /\ Routed(RecvOlsr(s, m, n, router[n].msgs))
      BY <1>1, <2>3, <3>2, <3>3, CalmPacket DEF CalmRouter
    <3> QED
      BY <2>1, <2>3, <3>4
  <2>4. CASE m # n /\ ~Audible(m, n)
    BY <1>1, <2>1, <2>4
  <2> QED
    BY <2>2, <2>3, <2>4
<1>4. \A m \in Routers : SameTables(router[m], router'[m])
  BY SendPktEffect
<1> QED
  BY <1>2, <1>3, <1>4, KnowledgeKept

\* No tuple of a calm network runs out, for its TCs are repeated.
LEMMA NothingExpires ==
    ASSUME IInv, CalmInv, calm, CalmKnowledge, NEW n \in Routers, TupleTimer(n)
    PROVE  FALSE
<1>1. PICK t \in router[n].topology : TopologyTimer(n, t)
  BY OnlyTopologyExpires
<1>2. TopologyRefreshed(n, t)
  BY DEF CalmKnowledge, WellInformed, TopologyRefreshed
<1> QED
  BY <1>1, <1>2 DEF TopologyTimer

LEMMA NextKnown ==
    ASSUME IInv, IInv', CalmInv, CalmKnowledge, [Next]_vars
    PROVE  CalmKnowledge'
<1>1. Step
  BY EveryStep
<1>2. calm' = calm /\ Routers' = Routers
  BY <1>1 DEF Step
<1>3. CASE ~calm
  BY <1>2, <1>3 DEF CalmKnowledge
<1>4. CASE calm
  <2>1. CASE UNCHANGED vars
    <3>1. near' = near /\ router' = router
      BY <2>1 DEF vars
    <3>2. \A n \in Routers : WellInformed(router'[n], n) /\ Routed(router'[n])
      BY <1>4, <3>1 DEF CalmKnowledge
    <3>3. \A n \in Routers : SameTables(router[n], router'[n])
      BY <3>1 DEF SameTables
    <3> QED
      BY <1>2, <3>1, <3>2, <3>3, KnowledgeKept
  <2>2. ASSUME NEW n \in Routers, SendHello(n) \/ SendTc(n) \/ SendPkt(n) \/ TupleTimer(n)
        PROVE  CalmKnowledge'
    BY <1>1, <1>2, <1>4, <2>2, SendHelloKnown, SendTcKnown, SendPktKnown, NothingExpires
  <2>3. ASSUME NEW n \in Routers, NEW m \in Routers, LinkFails(n, m)
        PROVE  FALSE
    BY <1>4, <2>3 DEF LinkFails, CalmInv
  <2> QED
    BY <2>1, <2>2, <2>3 DEF Next
<1> QED
  BY <1>3, <1>4

\* When the TC of o is on its way no more, everybody in reach knows its selectors.
LEMMA AllTold ==
    ASSUME IInv, TcsComplete, calm, NEW o \in Routers, Announced(o), TcQueued(o) = {},
           NEW n \in Routers, o \in DOMAIN Distance(n), n # o
    PROVE  o \in router[n].dup
<1> DEFINE has == {k \in Routers : k = o \/ o \in router[k].dup}
<1>1. /\ Routers \subseteq Node /\ near \subseteq Routers \X Routers /\ near \subseteq Node \X Node
      /\ Mutual
  BY DEF IInv
<1>2. ASSUME n \notin has
      PROVE  FALSE
  <2>1. ASSUME NEW x \in Routers \ has, NEW y, Audible(x, y)
        PROVE  y \in Routers \ has
    <3>1. y \in Routers
      BY <1>1, <2>1 DEF Audible
    <3>2. Audible(y, x)
      <4> DEFINE p == <<x, y>>
      <4>1. p \in near /\ p[1] = x /\ p[2] = y
        BY <2>1 DEF Audible
      <4>2. <<p[2], p[1]>> \in near
        BY <1>1, <4>1 DEF Mutual
      <4> QED
        BY <4>1, <4>2 DEF Audible
    <3>3. y \in has => x \in has
      BY <1>1, <3>1, <3>2 DEF TcsComplete
    <3> QED
      BY <2>1, <3>1, <3>3
  <2>2. n \in Routers \ has /\ n \in Node
    BY <1>1, <1>2
  <2> HIDE DEF has
  <2>3. DOMAIN Distance(n) \subseteq Routers \ has
    BY <1>1, <2>1, <2>2, ReachStaysIn
  <2> QED
    BY <2>3 DEF has
<1> QED
  BY <1>2

\* The routes of a calm network whose TCs have all spread are shortest paths, whatever
\* HELLOs and TCs crossed each other on the way: MPR selectors are enough of a topology
\* for rtable_computation, if nobody refuses to be a relay.
THEOREM RoutesAreShortest ==
    (\A n \in Node : Willingness[n] # WILL_NEVER) => (Spec => []CalmRoutes)
<1> SUFFICES ASSUME \A n \in Node : Willingness[n] # WILL_NEVER
             PROVE  Spec => []CalmRoutes
  OBVIOUS
<1>1. Init => CalmInv /\ CalmKnowledge
  <2> SUFFICES ASSUME Init
               PROVE  CalmInv /\ CalmKnowledge
    OBVIOUS
  <2>1. CalmInv /\ \A n \in Routers : Starting(router[n]) /\ (calm => Routed(router[n]))
    BY InitStart
  <2>2. \A n \in Routers : WellInformed(router[n], n)
    BY <2>1 DEF Starting, WellInformed, ToSet
  <2> QED
    BY <2>1, <2>2 DEF CalmKnowledge
<1>2. IInv /\ IInv' /\ CalmInv /\ CalmKnowledge /\ [Next]_vars => CalmInv' /\ CalmKnowledge'
  BY NextFlooding, NextKnown
<1>3. Spec => []TcsComplete
  BY TcsAreComplete
<1>4. IInv /\ CalmInv /\ CalmKnowledge /\ TcsComplete => CalmRoutes
  <2> SUFFICES ASSUME IInv, CalmInv, CalmKnowledge, TcsComplete, calm,
                      \A o \in Routers : router[o].mprsel # {} => Announced(o) /\ TcQueued(o) = {},
                      NEW n \in Routers
               PROVE  RoutesRight(n)
    BY DEF CalmRoutes
  <2>1. CalmNetwork /\ WellInformed(router[n], n) /\ Routed(router[n])
    BY DEF CalmNetwork, CalmKnowledge
  <2>2. KnowsTopology(n)
    <3> SUFFICES ASSUME NEW o \in Routers, o \in DOMAIN Distance(n), o # n, NEW d \in router[o].mprsel
                 PROVE  \E t \in router[n].topology : t.last = o /\ t.dest = d
      BY DEF KnowsTopology
    <3>1. o \in router[n].dup
      BY AllTold
    <3> QED
      BY <2>1, <3>1 DEF WellInformed
  <2> QED
    BY <2>1, <2>2, RoutedIsRight
<1> QED
  BY <1>1, <1>2, <1>3, <1>4, Invariance, PTL DEF Spec
=============================================================================
