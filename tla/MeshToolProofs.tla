---------------------------- MODULE MeshToolProofs ----------------------------
(***************************************************************************)
(* Theorems about the table of the neighbour discovery, for any number of  *)
(* stations, columns and calls.                                            *)
(***************************************************************************)
EXTENDS MeshTool, FiniteSetTheorems, TLAPS

\* A station has answered, or has still to answer, at most one HELLO of each call.
OneAnswerPerHello ==
    \A s \in Station : answered[s] + (IF s \in hello THEN 1 ELSE 0) <= round

IInv == TypeOK /\ OneAnswerPerHello /\ CounterMatchesTable /\ OneRowPerReply

-----------------------------------------------------------------------------
LEMMA RowsFinite ==
    ASSUME NEW s
    PROVE  IsFiniteSet(Rows(s)) /\ Cardinality(Rows(s)) \in Nat
<1>1. IsFiniteSet(Column)
  BY FS_Interval, WidthAssumption DEF Column
<1> QED
  BY <1>1, FS_Subset, FS_CardinalityType DEF Rows

\* A step that leaves the table alone.
LEMMA TableKept ==
    ASSUME UNCHANGED <<neighborArray, neighborCounter>>, CounterMatchesTable
    PROVE  CounterMatchesTable' /\ \A s : Rows(s)' = Rows(s)
BY DEF CounterMatchesTable, Rows

LEMMA MeshHelloStep ==
    ASSUME IInv, MeshHello
    PROVE  IInv'
<1>1. TypeOK' /\ OneAnswerPerHello'
  BY RoundsAssumption DEF IInv, TypeOK, OneAnswerPerHello, MeshHello
<1>2. CounterMatchesTable' /\ \A s : Rows(s)' = Rows(s)
  BY TableKept DEF IInv, MeshHello
<1>3. OneRowPerReply'
  BY <1>2, RowsFinite DEF IInv, TypeOK, OneRowPerReply, MeshHello
<1> QED
  BY <1>1, <1>2, <1>3 DEF IInv

LEMMA RespondStep ==
    ASSUME IInv, NEW s \in Station, Respond(s)
    PROVE  IInv'
<1>1. answered[s] + 1 <= round
  BY DEF IInv, OneAnswerPerHello, Respond
<1>2. TypeOK'
  BY <1>1, RoundsAssumption DEF IInv, TypeOK, Respond
<1>3. OneAnswerPerHello'
  <2> SUFFICES ASSUME NEW t \in Station
               PROVE  answered'[t] + (IF t \in hello' THEN 1 ELSE 0) <= round'
    BY DEF OneAnswerPerHello
  <2>1. answered[t] \in Nat /\ round \in Nat /\ answered[t] + (IF t \in hello THEN 1 ELSE 0) <= round
    BY RoundsAssumption DEF IInv, TypeOK, OneAnswerPerHello
  <2>2. /\ round' = round
        /\ t # s => answered'[t] = answered[t] /\ (t \in hello' => t \in hello)
        /\ t = s => answered'[t] = answered[t] + 1 /\ t \in hello /\ t \notin hello'
    BY DEF Respond, IInv, TypeOK
  <2> QED
    BY <2>1, <2>2
<1>4. CounterMatchesTable' /\ \A t : Rows(t)' = Rows(t)
  BY TableKept DEF IInv, Respond
<1>5. OneRowPerReply'
  <2> SUFFICES ASSUME NEW t \in Station
               PROVE  Cardinality(Rows(t)') + (IF t \in reply' THEN 1 ELSE 0) <= answered'[t]
    BY DEF OneRowPerReply
  <2>1. Cardinality(Rows(t)) \in Nat /\ answered[t] \in Nat
    BY RowsFinite, RoundsAssumption DEF IInv, TypeOK
  <2>2. Cardinality(Rows(t)) + (IF t \in reply THEN 1 ELSE 0) <= answered[t]
    BY DEF IInv, OneRowPerReply
  <2>3. Rows(t)' = Rows(t)
    BY <1>4
  <2>4. /\ t # s => answered'[t] = answered[t] /\ (t \in reply' => t \in reply)
        /\ t = s => answered'[t] = answered[t] + 1
    BY DEF Respond, IInv, TypeOK
  <2> QED
    BY <2>1, <2>2, <2>3, <2>4
<1> QED
  BY <1>2, <1>3, <1>4, <1>5 DEF IInv

\* Steps that only lose something: a packet, or the replies with the socket.
LEMMA LosingStep ==
    ASSUME IInv,
           phase' \in {"idle", "waiting", "raised"}, hello' \subseteq hello, reply' \subseteq reply,
           UNCHANGED <<neighborArray, neighborCounter, round, answered>>
    PROVE  IInv'
<1>1. TypeOK' /\ OneAnswerPerHello'
  BY DEF IInv, TypeOK, OneAnswerPerHello
<1>2. CounterMatchesTable' /\ \A s : Rows(s)' = Rows(s)
  BY TableKept DEF IInv
<1>3. OneRowPerReply'
  BY <1>2, RowsFinite DEF IInv, TypeOK, OneRowPerReply
<1> QED
  BY <1>1, <1>2, <1>3 DEF IInv

\* addHost: the column neighborCounter was empty, so no row of another station is lost.
LEMMA AddHostStep ==
    ASSUME IInv, NEW s \in Station, AddHost(s)
    PROVE  IInv'
<1>1. /\ neighborCounter \in Column
      /\ neighborArray[neighborCounter] = Nobody
      /\ \A c \in Column : neighborArray'[c] = IF c = neighborCounter THEN s ELSE neighborArray[c]
  BY WidthAssumption DEF IInv, TypeOK, CounterMatchesTable, AddHost, Column
<1>2. TypeOK' /\ OneAnswerPerHello'
  BY <1>1, WidthAssumption DEF IInv, TypeOK, OneAnswerPerHello, AddHost
<1>3. CounterMatchesTable'
  <2> SUFFICES ASSUME NEW c \in Column
               PROVE  neighborArray'[c] # Nobody <=> c < neighborCounter'
    BY DEF CounterMatchesTable
  <2>1. neighborArray[c] # Nobody <=> c < neighborCounter
    BY DEF IInv, CounterMatchesTable
  <2>2. c \in Int /\ neighborCounter \in Int /\ neighborCounter' = neighborCounter + 1
    BY WidthAssumption DEF IInv, TypeOK, AddHost, Column
  <2> QED
    BY <1>1, <2>1, <2>2, NobodyAssumption
<1>4. Rows(s)' = Rows(s) \cup {neighborCounter}
  BY <1>1, NobodyAssumption DEF Rows
<1>5. Cardinality(Rows(s)') \in Nat /\ Cardinality(Rows(s)') <= Cardinality(Rows(s)) + 1
  <2>1. IsFiniteSet(Rows(s)) /\ Cardinality(Rows(s)) \in Nat
    BY RowsFinite
  <2>2. Cardinality(Rows(s) \cup {neighborCounter})
            \in {Cardinality(Rows(s)), Cardinality(Rows(s)) + 1}
    BY <2>1, FS_AddElement
  <2> QED
    BY <1>4, <2>1, <2>2
<1>6. \A t \in Station \ {s} : Rows(t)' = Rows(t)
  BY <1>1, NobodyAssumption DEF Rows
<1>7. s \in reply /\ reply' = reply \ {s} /\ answered' = answered
  BY DEF AddHost
<1>8. ASSUME NEW t \in Station
      PROVE  Cardinality(Rows(t)') + (IF t \in reply' THEN 1 ELSE 0) <= answered'[t]
  <2>1. Cardinality(Rows(t)) \in Nat /\ Cardinality(Rows(t)') \in Nat /\ answered[t] \in Nat
    <3>1. Cardinality(Rows(t)) \in Nat
      BY RowsFinite
    <3>2. Cardinality(Rows(t)') \in Nat
      <4>1. CASE t = s
        BY <1>5, <4>1
      <4>2. CASE t # s
        BY <1>6, <3>1, <4>2
      <4> QED
        BY <4>1, <4>2
    <3> QED
      BY <3>1, <3>2, RoundsAssumption DEF IInv, TypeOK
  <2>2. Cardinality(Rows(t)) + (IF t \in reply THEN 1 ELSE 0) <= answered[t]
    BY DEF IInv, OneRowPerReply
  <2>3. CASE t = s
    BY <1>5, <1>7, <2>1, <2>2, <2>3
  <2>4. CASE t # s
    BY <1>6, <1>7, <2>1, <2>2, <2>4
  <2> QED
    BY <2>3, <2>4
<1>9. OneRowPerReply'
  BY <1>8 DEF OneRowPerReply
<1> QED
  BY <1>2, <1>3, <1>9 DEF IInv

-----------------------------------------------------------------------------
LEMMA InitIInv == Init => IInv
<1> SUFFICES ASSUME Init PROVE IInv
  OBVIOUS
<1>1. TypeOK /\ OneAnswerPerHello
  BY WidthAssumption, RoundsAssumption DEF Init, TypeOK, OneAnswerPerHello
<1>2. CounterMatchesTable
  BY WidthAssumption DEF Init, CounterMatchesTable, Column
<1>3. \A s \in Station : Rows(s) = {}
  BY NobodyAssumption DEF Init, Rows
<1>4. OneRowPerReply
  BY <1>3, FS_EmptySet DEF Init, OneRowPerReply
<1> QED
  BY <1>1, <1>2, <1>4 DEF IInv

LEMMA NextIInv == IInv /\ [Next]_vars => IInv'
<1> SUFFICES ASSUME IInv, [Next]_vars PROVE IInv'
  OBVIOUS
<1>1. CASE MeshHello
  BY <1>1, MeshHelloStep
<1>2. CASE TimedOut
  BY <1>2, LosingStep DEF TimedOut
<1>3. ASSUME NEW s \in Station, Respond(s) PROVE IInv'
  BY <1>3, RespondStep
<1>4. ASSUME NEW s \in Station, LoseHello(s) PROVE IInv'
  BY <1>4, LosingStep DEF LoseHello, IInv, TypeOK
<1>5. ASSUME NEW s \in Station, LoseReply(s) PROVE IInv'
  BY <1>5, LosingStep DEF LoseReply, IInv, TypeOK
<1>6. ASSUME NEW s \in Station, AddHost(s) PROVE IInv'
  BY <1>6, AddHostStep
<1>7. ASSUME NEW s \in Station, AddHostRaises(s) PROVE IInv'
  BY <1>7, LosingStep DEF AddHostRaises
<1>8. CASE UNCHANGED vars
  BY <1>8, LosingStep DEF vars, IInv, TypeOK
<1> QED
  BY <1>1, <1>2, <1>3, <1>4, <1>5, <1>6, <1>7, <1>8 DEF Next

\* The inductive invariant behind the theorems on the table of meshTool.
THEOREM Invariance == Spec => []IInv
<1> QED
  BY InitIInv, NextIInv, PTL DEF Spec

\* Every variable of the program always has its type; the counter stays within the array.
THEOREM TypeCorrect == Spec => []TypeOK
<1>1. IInv => TypeOK
  BY DEF IInv
<1> QED
  BY <1>1, Invariance, PTL

\* The table never lists a station more often than it has answered, whatever is lost or
\* comes late over any number of calls (addHost, the receive loop of meshHello).
THEOREM OneRowPerReplyTheorem == Spec => []OneRowPerReply
<1>1. IInv => OneRowPerReply
  BY DEF IInv
<1> QED
  BY <1>1, Invariance, PTL

\* The shared counter and the array always agree on what is filled, so addHost overwrites no
\* row (addHost, displayHosts).
THEOREM CounterMatchesTableTheorem == Spec => []CounterMatchesTable
<1>1. IInv => CounterMatchesTable
  BY DEF IInv
<1> QED
  BY <1>1, Invariance, PTL
=============================================================================
