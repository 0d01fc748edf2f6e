----------------------------- MODULE FloodProofs -----------------------------
(***************************************************************************)
(* The flooding of Flood.tla is complete in every network.                 *)
(***************************************************************************)
EXTENDS Flood, TLAPS

TypeOK ==
    /\ near \in SUBSET (Node \X Node)
    /\ relays \in [Node -> SUBSET Node]
    /\ got \in [Node -> SUBSET Node]
    /\ queued \in [Node -> SUBSET Node]

\* A router that will transmit has the message, and as long as a router y without it
\* has a neighbour with it, one that will still transmit is a neighbour of y.  This is
\* what makes Complete inductive: a relay that had the message already is no help to y
\* itself, but whoever stood in for it then still is.
Bridged(o) ==
    /\ queued[o] \subseteq got[o]
    /\ \A y \in Node \ got[o] : \A m \in got[o] :
          <<m, y>> \in near => \E q \in queued[o] : <<q, y>> \in near

IInv ==
    /\ TypeOK
    /\ \A n \in Node : Covering(n)
    /\ \A o \in Node : Bridged(o)

\* A transmission keeps the bridges of every message it carries.
LEMMA TransmitBridges ==
    ASSUME IInv, NEW n \in Node, Transmit(n), NEW o \in Node, n \in queued[o]
    PROVE  Bridged(o)'
<1> DEFINE fresh == (Neighbors(n) \ got[o]) \cap relays[n]
<1>1. got'[o] = got[o] \cup Neighbors(n) /\ queued'[o] = (queued[o] \ {n}) \cup fresh
  BY DEF Transmit, IInv, TypeOK
<1>2. near' = near /\ relays' = relays
  BY DEF Transmit
<1>3. got[o] \subseteq Node /\ Neighbors(n) \subseteq Node /\ Covering(n) /\ Bridged(o)
  BY DEF IInv, TypeOK, Neighbors
<1>4. queued'[o] \subseteq got'[o]
  BY <1>1, <1>3 DEF Bridged
<1>5. ASSUME NEW y \in Node \ got'[o], NEW m \in got'[o], <<m, y>> \in near
      PROVE  \E q \in queued'[o] : <<q, y>> \in near
  <2>1. y \in Node \ got[o] /\ <<n, y>> \notin near
    BY <1>1, <1>5 DEF Neighbors
  <2>2. ASSUME NEW k \in got[o], <<k, y>> \in near
        PROVE  \E q \in queued'[o] : <<q, y>> \in near
    <3>1. PICK q \in queued[o] : <<q, y>> \in near
      BY <1>3, <2>1, <2>2 DEF Bridged
    <3>2. q # n
      BY <2>1, <3>1
    <3> QED
      BY <1>1, <3>1, <3>2
  <2>3. CASE m \in got[o]
    BY <1>5, <2>2, <2>3
  <2>4. CASE m \notin got[o]
    <3>1. m \in Neighbors(n)
      BY <1>1, <2>4
    <3>2. y \in Neighbors(m) \ ({n} \cup Neighbors(n))
      <4>1. n \in got[o]
        BY <1>3 DEF Bridged
      <4> QED
        BY <1>5, <2>1, <4>1 DEF Neighbors
    <3>3. PICK r \in relays[n] : <<r, y>> \in near
      BY <1>3, <3>1, <3>2 DEF Covering
    <3>4. r \in Neighbors(n)
      BY <1>3 DEF Covering
    <3>5. CASE r \in got[o]
      BY <2>2, <3>3, <3>5
    <3>6. CASE r \notin got[o]
      <4>1. r \in queued'[o]
        BY <1>1, <3>4, <3>6
      <4> QED
        BY <3>3, <4>1
    <3> QED
      BY <3>5, <3>6
  <2> QED
    BY <2>3, <2>4
<1> QED
  BY <1>2, <1>4, <1>5 DEF Bridged

LEMMA InitIInv == Init => IInv
BY DEF Init, IInv, TypeOK, Bridged

LEMMA NextIInv == IInv /\ [Next]_vars => IInv'
<1> SUFFICES ASSUME IInv, [Next]_vars
             PROVE  IInv'
  OBVIOUS
<1>1. CASE UNCHANGED vars
  BY <1>1 DEF vars, IInv, TypeOK, Covering, Neighbors, Bridged
<1>2. ASSUME NEW n \in Node, Announce(n)
      PROVE  IInv'
  <2>1. near' = near /\ relays' = relays
    BY <1>2 DEF Announce
  <2>2. TypeOK'
    BY <1>2 DEF Announce, IInv, TypeOK
  <2>3. \A k \in Node : Covering(k)'
    BY <2>1 DEF IInv, Covering, Neighbors
  <2>4. ASSUME NEW o \in Node
        PROVE  Bridged(o)'
    <3>1. CASE o = n
      <4>1. got'[o] = {n} /\ queued'[o] = {n}
        BY <1>2, <3>1 DEF Announce, IInv, TypeOK
      <4> QED
        BY <2>1, <4>1 DEF Bridged
    <3>2. CASE o # n
      <4>1. got'[o] = got[o] /\ queued'[o] = queued[o]
        BY <1>2, <3>2 DEF Announce, IInv, TypeOK
      <4> QED
        BY <2>1, <4>1 DEF IInv, Bridged
    <3> QED
      BY <3>1, <3>2
  <2> QED
    BY <2>2, <2>3, <2>4 DEF IInv
<1>3. ASSUME NEW n \in Node, Transmit(n)
      PROVE  IInv'
  <2>1. near' = near /\ relays' = relays
    BY <1>3 DEF Transmit
  <2>2. TypeOK'
    BY <1>3 DEF Transmit, IInv, TypeOK, Neighbors
  <2>3. \A k \in Node : Covering(k)'
    BY <2>1 DEF IInv, Covering, Neighbors
  <2>4. ASSUME NEW o \in Node
        PROVE  Bridged(o)'
    <3>1. CASE n \in queued[o]
      BY <1>3, <3>1, TransmitBridges
    <3>2. CASE n \notin queued[o]
      <4>1. got'[o] = got[o] /\ queued'[o] = queued[o]
        BY <1>3, <3>2 DEF Transmit
      <4> QED
        BY <2>1, <4>1 DEF IInv, Bridged
    <3> QED
      BY <3>1, <3>2
  <2> QED
    BY <2>2, <2>3, <2>4 DEF IInv
<1> QED
  BY <1>1, <1>2, <1>3 DEF Next

\* The invariant from which completeness follows.
THEOREM Invariance == Spec => []IInv
<1> QED
  BY InitIInv, NextIInv, PTL DEF Spec

\* In every network, with any relays that cover the routers two hops away and in any
\* order of the transmissions, a message that nobody transmits any more has reached all
\* routers connected to its origin (forward_default over the MPRs of mpr_computation).
THEOREM CompleteTheorem == Spec => []Complete
<1>1. IInv => Complete
  BY DEF IInv, TypeOK, Bridged, Complete, Neighbors
<1> QED
  BY <1>1, Invariance, PTL
=============================================================================
