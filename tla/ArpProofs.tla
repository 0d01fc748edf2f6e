------------------------------ MODULE ArpProofs ------------------------------
(***************************************************************************)
(* Theorems about Arp, for every set of hosts, number of packets, limit of *)
(* attempts, losses and outages.                                           *)
(***************************************************************************)
EXTENDS Arp, TLAPS

\* The numbers of q grow and do not exceed k.
Growing(q, k) ==
    /\ q \in Seq(Nat)
    /\ \A i, j \in 1 .. Len(q) : i < j => q[i] < q[j]
    /\ \A i \in 1 .. Len(q) : q[i] <= k

OrderInv == \A h, x \in Host : Growing(sent[h][x] \o pendingPackets[h][x], handed[h][x])

IInv == TypeOK /\ WaitingMeansPending /\ OrderInv

-----------------------------------------------------------------------------
\* ARP packets on the link

LEMMA RequestsType ==
    ASSUME NEW h \in Host, NEW x \in Host, BagToSet(net) \subseteq Message,
           net' = net (+) Requests(h, x)
    PROVE  BagToSet(net') \subseteq Message
<1>1. BagToSet(Requests(h, x)) \subseteq Message
  BY DEF Requests, BagToSet, SetToBag, Message
<1>2. BagToSet(net') = BagToSet(net) \cup BagToSet(Requests(h, x))
  BY DEF BagToSet, (+)
<1> QED
  BY <1>1, <1>2

LEMMA RemoveType ==
    ASSUME NEW B, NEW m
    PROVE  BagToSet(BagRemove(B, m)) \subseteq BagToSet(B)
  BY DEF BagToSet, BagRemove

LEMMA AddType ==
    ASSUME NEW B, NEW m
    PROVE  BagToSet(BagAdd(B, m)) \subseteq BagToSet(B) \cup {m}
  BY DEF BagToSet, BagAdd

-----------------------------------------------------------------------------
\* Packets in order

LEMMA ConcatElements ==
    ASSUME NEW p \in Seq(Nat), NEW q \in Seq(Nat)
    PROVE  /\ p \o q \in Seq(Nat) /\ Len(p \o q) = Len(p) + Len(q)
           /\ \A i \in 1 .. Len(p) : (p \o q)[i] = p[i]
           /\ \A i \in 1 .. Len(q) : (p \o q)[Len(p) + i] = q[i]
  OBVIOUS

LEMMA GrowingAppend ==
    ASSUME NEW q, NEW k \in Nat, Growing(q, k)
    PROVE  Growing(Append(q, k + 1), k + 1)
<1> DEFINE r == Append(q, k + 1)
<1>1. q \in Seq(Nat) /\ Len(q) \in Nat
  BY DEF Growing
<1>2. r \in Seq(Nat) /\ Len(r) = Len(q) + 1 /\ r[Len(q) + 1] = k + 1
        /\ \A i \in 1 .. Len(q) : r[i] = q[i]
  BY <1>1
<1> HIDE DEF r
<1>3. \A i \in 1 .. Len(q) : r[i] <= k /\ r[i] \in Nat
  <2> SUFFICES ASSUME NEW i \in 1 .. Len(q) PROVE r[i] <= k /\ r[i] \in Nat
    OBVIOUS
  <2>1. q[i] \in Nat /\ q[i] <= k
    BY <1>1 DEF Growing
  <2> QED
    BY <1>2, <2>1
<1>4. \A i \in 1 .. Len(r) : r[i] <= k + 1
  BY <1>1, <1>2, <1>3
<1>5. ASSUME NEW i \in 1 .. Len(r), NEW j \in 1 .. Len(r), i < j
      PROVE  r[i] < r[j]
  <2>1. i \in 1 .. Len(q)
    BY <1>1, <1>2, <1>5
  <2>2. CASE j = Len(q) + 1
    BY <1>2, <1>3, <2>1, <2>2
  <2>3. CASE j \in 1 .. Len(q)
    BY <1>2, <1>5, <2>1, <2>3 DEF Growing
  <2> QED
    BY <1>1, <1>2, <2>2, <2>3
<1> QED
  BY <1>2, <1>4, <1>5 DEF Growing

LEMMA GrowingPrefix ==
    ASSUME NEW p \in Seq(Nat), NEW q \in Seq(Nat), NEW k \in Nat, Growing(p \o q, k)
    PROVE  Growing(p, k)
<1>1. Len(p) \in Nat /\ Len(q) \in Nat
  OBVIOUS
<1>2. \A i \in 1 .. Len(p) : i \in 1 .. Len(p \o q) /\ (p \o q)[i] = p[i]
  BY <1>1, ConcatElements
<1> QED
  BY <1>2 DEF Growing

LEMMA ConcatAppend ==
    ASSUME NEW p \in Seq(Nat), NEW q \in Seq(Nat), NEW x \in Nat
    PROVE  /\ p \o Append(q, x) = Append(p \o q, x)
           /\ p \o << >> = p
  OBVIOUS

-----------------------------------------------------------------------------
\* The steps

\* A step that concerns what h, which is up, knows of x.
LEMMA CellStep ==
    ASSUME IInv, TypeOK', NEW h \in Host, NEW x \in Host, h \in up, up' = up,
           \A i, j \in Host : i # h \/ j # x =>
               /\ arpCache'[i][j] = arpCache[i][j]
               /\ pendingPackets'[i][j] = pendingPackets[i][j]
               /\ sent'[i][j] = sent[i][j]
               /\ handed'[i][j] = handed[i][j],
           arpCache'[h][x].timer <=> arpCache'[h][x].state = "pending",
           pendingPackets'[h][x] # << >> => arpCache'[h][x].state = "pending",
           Growing(sent'[h][x] \o pendingPackets'[h][x], handed'[h][x])
    PROVE  IInv'
<1>1. WaitingMeansPending'
  BY DEF IInv, WaitingMeansPending
<1>2. OrderInv'
  BY DEF IInv, OrderInv
<1> QED
  BY <1>1, <1>2 DEF IInv

\* What is known of a pair.
LEMMA Cell ==
    ASSUME IInv, NEW h \in Host, NEW x \in Host
    PROVE  /\ arpCache[h][x] \in Entry
           /\ pendingPackets[h][x] \in Seq(Nat) /\ sent[h][x] \in Seq(Nat)
           /\ handed[h][x] \in Nat
           /\ arpCache[h][x].timer <=> arpCache[h][x].state = "pending"
           /\ pendingPackets[h][x] # << >> => arpCache[h][x].state = "pending"
           /\ arpCache[h][x].state # "none" => h \in up
           /\ Growing(sent[h][x] \o pendingPackets[h][x], handed[h][x])
  BY DEF IInv, TypeOK, WaitingMeansPending, OrderInv, NoEntry

LEMMA EntryFacts ==
    /\ NoEntry \in Entry /\ NoEntry.state = "none" /\ ~NoEntry.timer
    /\ Initiated \in Entry /\ Initiated.state = "pending" /\ Initiated.timer
    /\ [state |-> "valid", numRetries |-> 0, timer |-> FALSE] \in Entry
<1>1. 0 \in 0 .. (RetryCount - 1)
  BY RetryAssumption
<1> QED
  BY <1>1 DEF NoEntry, Initiated, Entry

LEMMA SendDatagramToOutputStep ==
    ASSUME IInv, NEW h \in Host, NEW x \in Host, SendDatagramToOutput(h, x)
    PROVE  IInv'
<1> DEFINE packet == handed[h][x] + 1
<1>1. h \in up /\ up' = up /\ handed' = [handed EXCEPT ![h][x] = packet]
        /\ UNCHANGED <<dropped, faultVars>>
  BY DEF SendDatagramToOutput, faultVars
<1>2. packet \in Nat /\ handed'[h][x] = packet
  <2>1. handed[h][x] \in Nat /\ handed \in [Host -> [Host -> Nat]]
    BY Cell DEF IInv, TypeOK
  <2>2. packet \in Nat
    BY <2>1
  <2> HIDE DEF packet
  <2> QED
    BY <1>1, <2>1, <2>2
<1>3. Growing(Append(sent[h][x] \o pendingPackets[h][x], packet), packet)
  BY Cell, GrowingAppend
<1>4. Growing(sent[h][x] \o Append(pendingPackets[h][x], packet), packet)
  <2>1. pendingPackets[h][x] \in Seq(Nat) /\ sent[h][x] \in Seq(Nat)
    BY Cell
  <2>2. sent[h][x] \o Append(pendingPackets[h][x], packet)
          = Append(sent[h][x] \o pendingPackets[h][x], packet)
    BY <1>2, <2>1, ConcatAppend
  <2> QED
    BY <1>3, <2>2
<1> HIDE DEF packet
<1>5. CASE /\ arpCache[h][x].state \in {"none", "expired"}
           /\ arpCache' = [arpCache EXCEPT ![h][x] = Initiated]
           /\ net' = net (+) Requests(h, x)
           /\ pendingPackets' = [pendingPackets EXCEPT ![h][x] = Append(@, packet)]
           /\ UNCHANGED sent
  <2>1. BagToSet(net') \subseteq Message
    BY <1>5, RequestsType DEF IInv, TypeOK
  <2>2. Append(pendingPackets[h][x], packet) \in Seq(Nat)
    BY <1>2, Cell
  <2>3. TypeOK'
    BY <1>1, <1>2, <1>5, <2>1, <2>2, EntryFacts DEF IInv, TypeOK, faultVars
  <2>4. arpCache'[h][x] = Initiated
          /\ pendingPackets'[h][x] = Append(pendingPackets[h][x], packet)
    BY <1>5 DEF IInv, TypeOK
  <2>5. \A i, j \in Host : i # h \/ j # x =>
               /\ arpCache'[i][j] = arpCache[i][j]
               /\ pendingPackets'[i][j] = pendingPackets[i][j]
               /\ sent'[i][j] = sent[i][j]
               /\ handed'[i][j] = handed[i][j]
    BY <1>1, <1>5 DEF IInv, TypeOK
  <2> QED
    BY <1>1, <1>2, <1>4, <1>5, <2>3, <2>4, <2>5, EntryFacts, CellStep
<1>6. CASE /\ arpCache[h][x].state = "pending"
           /\ pendingPackets' = [pendingPackets EXCEPT ![h][x] = Append(@, packet)]
           /\ UNCHANGED <<arpCache, net, sent>>
  <2>1. Append(pendingPackets[h][x], packet) \in Seq(Nat)
    BY <1>2, Cell
  <2>2. TypeOK'
    BY <1>1, <1>2, <1>6, <2>1 DEF IInv, TypeOK, faultVars
  <2>3. pendingPackets'[h][x] = Append(pendingPackets[h][x], packet)
    BY <1>6 DEF IInv, TypeOK
  <2>4. \A i, j \in Host : i # h \/ j # x =>
               /\ arpCache'[i][j] = arpCache[i][j]
               /\ pendingPackets'[i][j] = pendingPackets[i][j]
               /\ sent'[i][j] = sent[i][j]
               /\ handed'[i][j] = handed[i][j]
    BY <1>1, <1>6 DEF IInv, TypeOK
  <2>5. arpCache'[h][x].timer <=> arpCache'[h][x].state = "pending"
    BY <1>6, Cell
  <2> QED
    BY <1>1, <1>2, <1>4, <1>6, <2>2, <2>3, <2>4, <2>5, CellStep
<1>7. CASE /\ arpCache[h][x].state = "valid"
           /\ sent' = [sent EXCEPT ![h][x] = Append(@, packet)]
           /\ UNCHANGED <<arpCache, net, pendingPackets>>
  <2>1. pendingPackets[h][x] = << >>
    BY <1>7, Cell
  <2>2. Append(sent[h][x], packet) \in Seq(Nat)
    BY <1>2, Cell
  <2>3. TypeOK'
    BY <1>1, <1>2, <1>7, <2>2 DEF IInv, TypeOK, faultVars
  <2>4. sent'[h][x] = Append(sent[h][x], packet)
    BY <1>7 DEF IInv, TypeOK
  <2>5. \A i, j \in Host : i # h \/ j # x =>
               /\ arpCache'[i][j] = arpCache[i][j]
               /\ pendingPackets'[i][j] = pendingPackets[i][j]
               /\ sent'[i][j] = sent[i][j]
               /\ handed'[i][j] = handed[i][j]
    BY <1>1, <1>7 DEF IInv, TypeOK
  <2>6. arpCache'[h][x].timer <=> arpCache'[h][x].state = "pending"
    BY <1>7, Cell
  <2>7. Growing(sent'[h][x] \o << >>, packet)
    BY <1>2, <1>3, <2>1, <2>2, <2>4, Cell, ConcatAppend
  <2> QED
    BY <1>1, <1>2, <1>7, <2>1, <2>3, <2>5, <2>6, <2>7, CellStep, ZenonT(40)
<1> QED
  BY <1>5, <1>6, <1>7 DEF SendDatagramToOutput, packet

\* The parts of a step that concern the timer alone.
LEMMA SetbackType ==
    ASSUME IInv, NEW h \in Host, NEW x \in Host, TooLate(h, x)
    PROVE  setbacks' \in 0 .. Setbacks
  BY BoundAssumption DEF IInv, TypeOK, TooLate

LEMMA ResendStep ==
    ASSUME IInv, NEW h \in Host, NEW x \in Host, Resend(h, x)
    PROVE  IInv'
<1> DEFINE e == [arpCache[h][x] EXCEPT !.numRetries = @ + 1]
<1>1. /\ arpCache[h][x].timer /\ arpCache[h][x].numRetries + 1 < RetryCount
      /\ UNCHANGED <<pendingPackets, sent, dropped, handed, up, outages>>
      /\ net' = net (+) Requests(h, x)
  BY DEF Resend, ipVars
<1>2. arpCache' = [arpCache EXCEPT ![h][x].numRetries = @ + 1]
  BY DEF Resend
<1>3. arpCache[h][x] \in Entry /\ arpCache[h][x].state = "pending" /\ h \in up
  BY <1>1, Cell
<1>4. e \in Entry /\ e.state = "pending" /\ e.timer
  <2>1. arpCache[h][x].numRetries + 1 \in 0 .. (RetryCount - 1)
    BY <1>1, <1>3, RetryAssumption DEF Entry
  <2> QED
    BY <1>1, <1>3, <2>1 DEF Entry
<1>5. /\ arpCache' \in [Host -> [Host -> Entry]] /\ arpCache'[h][x] = e
      /\ \A i, j \in Host : i # h \/ j # x => arpCache'[i][j] = arpCache[i][j]
  BY <1>2, <1>4 DEF IInv, TypeOK
<1>6. BagToSet(net') \subseteq Message
  BY <1>1, RequestsType DEF IInv, TypeOK
<1>7. setbacks' \in 0 .. Setbacks
  BY SetbackType DEF Resend
<1> HIDE DEF e
<1>8. TypeOK'
  BY <1>1, <1>5, <1>6, <1>7 DEF IInv, TypeOK
<1> QED
  BY <1>1, <1>3, <1>4, <1>5, <1>8, Cell, CellStep

LEMMA ResolutionFailsStep ==
    ASSUME IInv, NEW h \in Host, NEW x \in Host, ResolutionFails(h, x)
    PROVE  IInv'
<1>1. /\ arpCache[h][x].timer
      /\ arpCache' = [arpCache EXCEPT ![h][x] = NoEntry]
      /\ pendingPackets' = [pendingPackets EXCEPT ![h][x] = << >>]
      /\ UNCHANGED <<sent, handed, net, up, outages>>
      /\ dropped' \subseteq dropped \cup {<<h, x>>}
  BY DEF ResolutionFails
<1>2. h \in up
  BY <1>1, Cell
<1>3. /\ arpCache'[h][x] = NoEntry /\ pendingPackets'[h][x] = << >>
      /\ \A i, j \in Host : i # h \/ j # x =>
             arpCache'[i][j] = arpCache[i][j] /\ pendingPackets'[i][j] = pendingPackets[i][j]
  BY <1>1 DEF IInv, TypeOK
<1>4. setbacks' \in 0 .. Setbacks
  BY SetbackType DEF ResolutionFails
<1>5. TypeOK'
  BY <1>1, <1>4, EntryFacts, SMTT(30) DEF IInv, TypeOK
<1>6. Growing(sent'[h][x] \o pendingPackets'[h][x], handed'[h][x])
  <2>1. pendingPackets[h][x] \in Seq(Nat) /\ sent[h][x] \in Seq(Nat) /\ handed[h][x] \in Nat
          /\ Growing(sent[h][x] \o pendingPackets[h][x], handed[h][x])
    BY Cell
  <2>2. Growing(sent[h][x], handed[h][x]) /\ sent[h][x] \o << >> = sent[h][x]
    BY <2>1, GrowingPrefix, ConcatAppend, Zenon
  <2> QED
    BY <1>1, <1>3, <2>2
<1> QED
  BY <1>1, <1>2, <1>3, <1>5, <1>6, EntryFacts, CellStep

LEMMA UpdateArpCacheStep ==
    ASSUME IInv, NEW h \in Host, NEW x \in Host, h \in up, UpdateArpCache(h, x),
           BagToSet(net') \subseteq Message, UNCHANGED faultVars
    PROVE  IInv'
<1> DEFINE e == [state |-> "valid", numRetries |-> 0, timer |-> FALSE]
<1>1. /\ arpCache' = [arpCache EXCEPT ![h][x] = e]
      /\ sent' = [sent EXCEPT ![h][x] = @ \o pendingPackets[h][x]]
      /\ pendingPackets' = [pendingPackets EXCEPT ![h][x] = << >>]
      /\ UNCHANGED <<dropped, handed>>
  BY DEF UpdateArpCache
<1>2. pendingPackets[h][x] \in Seq(Nat) /\ sent[h][x] \in Seq(Nat)
        /\ Growing(sent[h][x] \o pendingPackets[h][x], handed[h][x])
  BY Cell
<1>3. sent[h][x] \o pendingPackets[h][x] \in Seq(Nat)
  BY <1>2
<1>4. e \in Entry /\ e.state = "valid" /\ ~e.timer
  BY EntryFacts
<1> HIDE DEF e
<1>5. /\ arpCache'[h][x] = e /\ pendingPackets'[h][x] = << >>
      /\ sent'[h][x] = sent[h][x] \o pendingPackets[h][x]
      /\ \A i, j \in Host : i # h \/ j # x =>
             /\ arpCache'[i][j] = arpCache[i][j]
             /\ pendingPackets'[i][j] = pendingPackets[i][j]
             /\ sent'[i][j] = sent[i][j]
  BY <1>1 DEF IInv, TypeOK
<1>6. TypeOK'
  <2>1. arpCache' \in [Host -> [Host -> Entry]]
    BY <1>1, <1>4 DEF IInv, TypeOK
  <2>2. pendingPackets' \in [Host -> [Host -> Seq(Nat)]]
    BY <1>1 DEF IInv, TypeOK
  <2>3. sent' \in [Host -> [Host -> Seq(Nat)]]
    BY <1>1, <1>3 DEF IInv, TypeOK
  <2> QED
    BY <1>1, <2>1, <2>2, <2>3 DEF IInv, TypeOK, faultVars
<1>7. Growing(sent'[h][x] \o pendingPackets'[h][x], handed'[h][x])
  <2>1. sent'[h][x] \o << >> = sent[h][x] \o pendingPackets[h][x]
    BY <1>3, <1>5, ConcatAppend
  <2> QED
    BY <1>1, <1>2, <1>5, <2>1
<1> QED
  BY <1>1, <1>4, <1>5, <1>6, <1>7, CellStep DEF faultVars

LEMMA ProcessArpPacketStep ==
    ASSUME IInv, NEW m, ProcessArpPacket(m)
    PROVE  IInv'
<1> DEFINE reply == [type |-> "reply", from |-> m.at, at |-> m.from, target |-> m.from]
           rest == BagRemove(net, m)
<1>1. m \in Message /\ m.at \in Host /\ m.from \in Host
  <2>1. m \in BagToSet(net)
    BY DEF ProcessArpPacket, BagIn, BagToSet
  <2> QED
    BY <2>1 DEF IInv, TypeOK, Message
<1>2. m.at \in up /\ UNCHANGED faultVars
  BY DEF ProcessArpPacket
<1>3. net' = IF m.target = m.at /\ m.type = "request" THEN BagAdd(rest, reply) ELSE rest
  BY DEF ProcessArpPacket
<1>4. reply \in Message
  BY <1>1 DEF Message
<1>5. BagToSet(rest) \subseteq Message
  BY RemoveType DEF IInv, TypeOK
<1> HIDE DEF reply, rest
<1>6. BagToSet(net') \subseteq Message
  BY <1>3, <1>4, <1>5, AddType
<1>7. CASE UpdateArpCache(m.at, m.from)
  BY <1>1, <1>2, <1>6, <1>7, UpdateArpCacheStep
<1>8. CASE UNCHANGED <<arpCache, ipVars>>
  BY <1>2, <1>6, <1>8 DEF IInv, TypeOK, WaitingMeansPending, OrderInv, ipVars, faultVars
<1> QED
  BY <1>7, <1>8 DEF ProcessArpPacket

LEMMA LeavesNet ==
    ASSUME IInv, NEW m, net' = BagRemove(net, m), UNCHANGED <<arpCache, ipVars, up, outages>>,
           setbacks' \in 0 .. Setbacks
    PROVE  IInv'
<1>1. BagToSet(net') \subseteq Message
  BY RemoveType DEF IInv, TypeOK
<1> QED
  BY <1>1 DEF IInv, TypeOK, WaitingMeansPending, OrderInv, ipVars

LEMMA ExpireStep ==
    ASSUME IInv, NEW h \in Host, NEW x \in Host, Expire(h, x)
    PROVE  IInv'
<1> DEFINE e == [arpCache[h][x] EXCEPT !.state = "expired"]
<1>1. arpCache[h][x].state = "valid" /\ UNCHANGED <<ipVars, net, faultVars>>
  BY DEF Expire
<1>2. arpCache' = [arpCache EXCEPT ![h][x].state = "expired"]
  BY DEF Expire
<1>3. arpCache[h][x] \in Entry /\ ~arpCache[h][x].timer /\ h \in up
        /\ pendingPackets[h][x] = << >>
  BY <1>1, Cell
<1>4. e \in Entry /\ e.state = "expired" /\ ~e.timer
  BY <1>3 DEF Entry
<1>5. /\ arpCache' \in [Host -> [Host -> Entry]] /\ arpCache'[h][x] = e
      /\ \A i, j \in Host : i # h \/ j # x => arpCache'[i][j] = arpCache[i][j]
  BY <1>2, <1>4 DEF IInv, TypeOK
<1> HIDE DEF e
<1>6. TypeOK'
  BY <1>1, <1>5 DEF IInv, TypeOK, ipVars, faultVars
<1> QED
  BY <1>1, <1>3, <1>4, <1>5, <1>6, Cell, CellStep DEF ipVars, faultVars

LEMMA GoDownStep ==
    ASSUME IInv, NEW h \in Host, GoDown(h)
    PROVE  IInv'
<1>1. /\ up' = up \ {h} /\ outages > 0 /\ outages' = outages - 1
      /\ arpCache' = [arpCache EXCEPT ![h] = [x \in Host |-> NoEntry]]
      /\ pendingPackets' = [pendingPackets EXCEPT ![h] = [x \in Host |-> << >>]]
      /\ UNCHANGED <<sent, dropped, handed, net, setbacks>>
  BY DEF GoDown
<1>2. TypeOK'
  <2>1. [x \in Host |-> NoEntry] \in [Host -> Entry]
    BY EntryFacts
  <2>2. [x \in Host |-> << >>] \in [Host -> Seq(Nat)]
    OBVIOUS
  <2>3. arpCache' \in [Host -> [Host -> Entry]]
    BY <1>1, <2>1 DEF IInv, TypeOK
  <2>4. pendingPackets' \in [Host -> [Host -> Seq(Nat)]]
    BY <1>1, <2>2 DEF IInv, TypeOK
  <2>5. outages' \in 0 .. Outages
    BY <1>1, BoundAssumption DEF IInv, TypeOK
  <2> QED
    BY <1>1, <2>3, <2>4, <2>5 DEF IInv, TypeOK
<1>3. \A i, x \in Host :
          /\ i = h => arpCache'[i][x] = NoEntry /\ pendingPackets'[i][x] = << >>
          /\ i # h => arpCache'[i][x] = arpCache[i][x]
                      /\ pendingPackets'[i][x] = pendingPackets[i][x]
  BY <1>1 DEF IInv, TypeOK
<1>4. WaitingMeansPending'
  BY <1>1, <1>3, EntryFacts DEF IInv, WaitingMeansPending
<1>5. OrderInv'
  <2> SUFFICES ASSUME NEW i \in Host, NEW x \in Host
               PROVE  Growing(sent[i][x] \o pendingPackets'[i][x], handed[i][x])
    BY <1>1 DEF OrderInv
  <2>1. pendingPackets[i][x] \in Seq(Nat) /\ sent[i][x] \in Seq(Nat) /\ handed[i][x] \in Nat
          /\ Growing(sent[i][x] \o pendingPackets[i][x], handed[i][x])
    BY Cell
  <2>2. Growing(sent[i][x], handed[i][x]) /\ sent[i][x] \o << >> = sent[i][x]
    BY <2>1, GrowingPrefix, ConcatAppend, Zenon
  <2> QED
    BY <1>3, <2>1, <2>2
<1> QED
  BY <1>2, <1>4, <1>5 DEF IInv

LEMMA GoUpStep ==
    ASSUME IInv, NEW h \in Host, GoUp(h)
    PROVE  IInv'
  BY DEF IInv, TypeOK, WaitingMeansPending, OrderInv, GoUp, ipVars

LEMMA InitInv == Init => IInv
<1> SUFFICES ASSUME Init PROVE IInv
  OBVIOUS
<1>1. BagToSet(net) = {}
  BY DEF Init, EmptyBag, SetToBag, BagToSet
<1>2. TypeOK
  BY <1>1, EntryFacts, BoundAssumption DEF Init, TypeOK
<1>3. WaitingMeansPending
  BY EntryFacts DEF Init, WaitingMeansPending
<1>4. OrderInv
  <2>1. Growing(<< >> \o << >>, 0)
    BY DEF Growing
  <2> QED
    BY <2>1 DEF Init, OrderInv
<1> QED
  BY <1>2, <1>3, <1>4 DEF IInv

LEMMA NextInv == IInv /\ [Next]_vars => IInv'
<1> SUFFICES ASSUME IInv, [Next]_vars PROVE IInv'
  OBVIOUS
<1>1. CASE UNCHANGED vars
  BY <1>1 DEF vars, ipVars, faultVars, IInv, TypeOK, WaitingMeansPending, OrderInv
<1>2. ASSUME NEW h \in Host, NEW x \in Host, SendDatagramToOutput(h, x) PROVE IInv'
  BY <1>2, SendDatagramToOutputStep
<1>3. ASSUME NEW h \in Host, NEW x \in Host, Times(h, x) PROVE IInv'
  BY <1>3, ResendStep, ResolutionFailsStep DEF Times
<1>4. ASSUME NEW h \in Host, NEW x \in Host, Expire(h, x) PROVE IInv'
  BY <1>4, ExpireStep
<1>5. ASSUME NEW m, ProcessArpPacket(m) PROVE IInv'
  BY <1>5, ProcessArpPacketStep
<1>6. ASSUME NEW m, MissedArpPacket(m) PROVE IInv'
  BY <1>6, LeavesNet DEF MissedArpPacket, faultVars, IInv, TypeOK
<1>7. ASSUME NEW m, LostArpPacket(m) PROVE IInv'
  <2>1. setbacks' \in 0 .. Setbacks
    BY <1>7, BoundAssumption DEF LostArpPacket, IInv, TypeOK
  <2> QED
    BY <1>7, <2>1, LeavesNet DEF LostArpPacket
<1>8. ASSUME NEW h \in Host, GoDown(h) \/ GoUp(h) PROVE IInv'
  BY <1>8, GoDownStep, GoUpStep
<1> QED
  BY <1>1, <1>2, <1>3, <1>4, <1>5, <1>6, <1>7, <1>8 DEF Next, Arrives

-----------------------------------------------------------------------------
\* The inductive invariant: the types, what waits, and numbers that grow.
THEOREM Invariance == Spec => []IInv
<1>1. IInv /\ [Next]_vars => IInv'
  BY NextInv
<1> QED
  BY <1>1, InitInv, PTL DEF Spec

\* Every variable keeps its type: no entry counts more retries than retryCount allows.
THEOREM TypeCorrect == Spec => []TypeOK
<1>1. IInv => TypeOK
  BY DEF IInv
<1> QED
  BY <1>1, Invariance, PTL

\* Packets wait in Ipv4 only for a resolution that is in progress in Arp: the assertion in
\* Ipv4::sendDatagramToOutput cannot fail, nor the one in Arp::handleStartOperation.
THEOREM WaitingMeansPendingTheorem == Spec => []WaitingMeansPending
<1>1. IInv => WaitingMeansPending
  BY DEF IInv
<1> QED
  BY <1>1, Invariance, PTL

\* The packets for a next hop leave in the order in which Ipv4 got them.
THEOREM InOrderTheorem == Spec => []InOrder
<1>1. IInv => InOrder
  BY DEF IInv, OrderInv, InOrder, Growing
<1> QED
  BY <1>1, Invariance, PTL

-----------------------------------------------------------------------------
\* Setbacks

Met == Setbacks - setbacks

\* As long as no host has gone down: every attempt of a resolution that is in progress has
\* met a setback of its own except the last one, and that one too if no answer to it is
\* under way any more.
CauseInv ==
    outages = Outages =>
        /\ up = Host
        /\ dropped # {} => Met >= RetryCount
        /\ \A h, x \in Host :
              arpCache[h][x].timer =>
                  /\ h # x
                  /\ Met >= arpCache[h][x].numRetries
                  /\ ~AnswerUnderway(h, x) => Met >= arpCache[h][x].numRetries + 1

\* What is left of a budget is a number.
LEMMA Difference ==
    ASSUME NEW a \in Nat, NEW b \in 0 .. a
    PROVE  a - b \in Nat
  OBVIOUS

\* The setbacks met are a number, before and after a step.
LEMMA MetRange ==
    ASSUME IInv, IInv'
    PROVE  /\ Met \in Nat /\ Met' \in Nat /\ RetryCount \in Nat
           /\ \A h, x \in Host : arpCache[h][x].numRetries \in Nat
<1>a. setbacks \in 0 .. Setbacks
  BY DEF IInv, TypeOK
<1>b. setbacks' \in 0 .. Setbacks
  BY DEF IInv, TypeOK
<1>c. Setbacks \in Nat
  BY BoundAssumption
<1>1. /\ Setbacks - setbacks \in Nat
      /\ Setbacks - setbacks' \in Nat
  BY <1>a, <1>b, <1>c, Difference
<1>2. Met \in Nat /\ Met' \in Nat
  BY <1>1 DEF Met
<1>3. \A h, x \in Host : arpCache[h][x].numRetries \in Nat
  BY RetryAssumption DEF IInv, TypeOK, Entry
<1> QED
  BY <1>2, <1>3, RetryAssumption

\* What is on the link once something has been added to it or taken from it.
LEMMA NetContents ==
    ASSUME NEW B, NEW C, NEW m
    PROVE  /\ BagToSet(B (+) C) = BagToSet(B) \cup BagToSet(C)
           /\ BagToSet(BagAdd(B, m)) = BagToSet(B) \cup {m}
           /\ BagToSet(B) \ {m} \subseteq BagToSet(BagRemove(B, m))
  BY DEF BagToSet, BagAdd, BagRemove, (+)

\* What is under way stays under way while the messages stay.
LEMMA UnderwayGrows ==
    ASSUME BagToSet(net) \subseteq BagToSet(net'), NEW h, NEW x, AnswerUnderway(h, x)
    PROVE  AnswerUnderway(h, x)'
  BY DEF AnswerUnderway

\* A request has an answer under way: it is on its way to the target itself.
LEMMA RequestUnderway ==
    ASSUME NEW h \in Host, NEW x \in Host, h # x, net' = net (+) Requests(h, x)
    PROVE  AnswerUnderway(h, x)' /\ BagToSet(net) \subseteq BagToSet(net')
<1> DEFINE m == [type |-> "request", from |-> h, at |-> x, target |-> x]
<1>1. m \in BagToSet(Requests(h, x))
  BY DEF Requests, BagToSet, SetToBag
<1>2. BagToSet(net') = BagToSet(net) \cup BagToSet(Requests(h, x))
  BY NetContents
<1> QED
  BY <1>1, <1>2 DEF AnswerUnderway

\* A step that leaves the resolution of x at h alone, loses no answer to it and gives back
\* no setback.
CellKept(h, x) ==
    /\ arpCache'[h][x].timer => arpCache'[h][x] = arpCache[h][x]
    /\ arpCache'[h][x].timer /\ AnswerUnderway(h, x) => AnswerUnderway(h, x)'

\* What becomes of the invariant when all resolutions are left alone, or ended.
LEMMA CellsKept ==
    ASSUME IInv, IInv', CauseInv, UNCHANGED <<dropped, up, outages>>, Met' = Met,
           \A h, x \in Host : CellKept(h, x)
    PROVE  CauseInv'
<1> SUFFICES ASSUME outages' = Outages,
                    NEW h \in Host, NEW x \in Host, arpCache'[h][x].timer
             PROVE  /\ h # x
                    /\ Met' >= arpCache'[h][x].numRetries
                    /\ ~AnswerUnderway(h, x)' => Met' >= arpCache'[h][x].numRetries + 1
  BY DEF CauseInv
<1>1. /\ arpCache'[h][x] = arpCache[h][x]
      /\ AnswerUnderway(h, x) => AnswerUnderway(h, x)'
  BY DEF CellKept
<1> QED
  BY <1>1 DEF CauseInv

\* The first attempt.
LEMMA SendDatagramToOutputCause ==
    ASSUME IInv, IInv', CauseInv, NEW h \in Host, NEW x \in Host, SendDatagramToOutput(h, x)
    PROVE  CauseInv'
<1>1. /\ h # x
      /\ UNCHANGED <<dropped, up, outages, setbacks>>
      /\ arpCache \in [Host -> [Host -> Entry]]
  BY FlowAssumption DEF SendDatagramToOutput, faultVars, IInv, TypeOK
<1>2. CASE arpCache' = [arpCache EXCEPT ![h][x] = Initiated] /\ net' = net (+) Requests(h, x)
  <2> SUFFICES ASSUME outages' = Outages,
                      NEW i \in Host, NEW j \in Host, arpCache'[i][j].timer
               PROVE  /\ i # j
                      /\ Met' >= arpCache'[i][j].numRetries
                      /\ ~AnswerUnderway(i, j)' => Met' >= arpCache'[i][j].numRetries + 1
    BY <1>1 DEF CauseInv, Met
  <2>1. AnswerUnderway(h, x)' /\ BagToSet(net) \subseteq BagToSet(net')
    BY <1>1, <1>2, RequestUnderway
  <2>2. CASE i = h /\ j = x
    <3>1. arpCache'[i][j].numRetries = 0
      BY <1>1, <1>2, <2>2 DEF Initiated
    <3>2. Met' >= 0
      BY MetRange
    <3> QED
      BY <1>1, <2>1, <2>2, <3>1, <3>2
  <2>3. CASE i # h \/ j # x
    <3>1. arpCache'[i][j] = arpCache[i][j]
      BY <1>1, <1>2, <2>3
    <3>2. AnswerUnderway(i, j) => AnswerUnderway(i, j)'
      BY <2>1, UnderwayGrows
    <3> QED
      BY <1>1, <3>1, <3>2 DEF CauseInv, Met
  <2> QED
    BY <2>2, <2>3
<1>3. CASE UNCHANGED <<arpCache, net>>
  BY <1>1, <1>3, CellsKept DEF CellKept, AnswerUnderway, Met
<1> QED
  BY <1>2, <1>3 DEF SendDatagramToOutput

\* Every time-out, early or not, has met one setback more than those before it.
LEMMA TimeoutCause ==
    ASSUME IInv, IInv', CauseInv, NEW h \in Host, NEW x \in Host,
           outages = Outages, arpCache[h][x].timer, TooLate(h, x)
    PROVE  Met' >= Met /\ Met' >= arpCache[h][x].numRetries + 1
<1>1. /\ setbacks \in 0 .. Setbacks /\ setbacks' \in 0 .. Setbacks /\ Setbacks \in Nat
      /\ arpCache[h][x].numRetries \in Nat
  BY BoundAssumption, RetryAssumption DEF IInv, TypeOK, Entry
<1>2. CASE AnswerUnderway(h, x)
  BY <1>1, <1>2 DEF TooLate, CauseInv, Met
<1>3. CASE ~AnswerUnderway(h, x)
  BY <1>1, <1>3 DEF TooLate, CauseInv, Met
<1> QED
  BY <1>2, <1>3

LEMMA ResendCause ==
    ASSUME IInv, IInv', CauseInv, NEW h \in Host, NEW x \in Host, Resend(h, x)
    PROVE  CauseInv'
<1>1. /\ arpCache[h][x].timer /\ TooLate(h, x)
      /\ UNCHANGED <<dropped, up, outages>>
      /\ net' = net (+) Requests(h, x)
      /\ arpCache' = [arpCache EXCEPT ![h][x].numRetries = @ + 1]
      /\ arpCache \in [Host -> [Host -> Entry]]
  BY DEF Resend, ipVars, IInv, TypeOK
<1> SUFFICES ASSUME outages' = Outages
             PROVE  /\ dropped' # {} => Met' >= RetryCount
                    /\ \A i, j \in Host : arpCache'[i][j].timer =>
                          /\ i # j
                          /\ Met' >= arpCache'[i][j].numRetries
                          /\ ~AnswerUnderway(i, j)' => Met' >= arpCache'[i][j].numRetries + 1
  BY <1>1 DEF CauseInv
<1>2. /\ Met' >= Met /\ Met' >= arpCache[h][x].numRetries + 1 /\ h # x
      /\ Met \in Nat /\ Met' \in Nat /\ RetryCount \in Nat
      /\ \A i, j \in Host : arpCache[i][j].numRetries \in Nat
  BY <1>1, TimeoutCause, MetRange DEF CauseInv
<1>3. AnswerUnderway(h, x)' /\ BagToSet(net) \subseteq BagToSet(net')
  BY <1>1, <1>2, RequestUnderway
<1>4. dropped' # {} => Met' >= RetryCount
  <2>1. dropped # {} => Met >= RetryCount
    BY <1>1 DEF CauseInv
  <2> HIDE DEF Met
  <2> QED
    BY <1>1, <1>2, <2>1
<1>5. ASSUME NEW i \in Host, NEW j \in Host, arpCache'[i][j].timer
      PROVE  /\ i # j
             /\ Met' >= arpCache'[i][j].numRetries
             /\ ~AnswerUnderway(i, j)' => Met' >= arpCache'[i][j].numRetries + 1
  <2>1. CASE i = h /\ j = x
    <3>1. arpCache'[i][j].numRetries = arpCache[h][x].numRetries + 1
      BY <1>1, <2>1 DEF Entry
    <3> QED
      BY <1>2, <1>3, <2>1, <3>1
  <2>2. CASE i # h \/ j # x
    <3>1. arpCache'[i][j] = arpCache[i][j]
      BY <1>1, <2>2
    <3>2. AnswerUnderway(i, j) => AnswerUnderway(i, j)'
      BY <1>3, UnderwayGrows
    <3>3. /\ i # j /\ Met >= arpCache[i][j].numRetries
          /\ ~AnswerUnderway(i, j) => Met >= arpCache[i][j].numRetries + 1
      BY <1>1, <1>5, <3>1 DEF CauseInv
    <3> QED
      BY <1>2, <3>1, <3>2, <3>3
  <2> QED
    BY <2>1, <2>2
<1> QED
  BY <1>4, <1>5

LEMMA ResolutionFailsCause ==
    ASSUME IInv, IInv', CauseInv, NEW h \in Host, NEW x \in Host, ResolutionFails(h, x)
    PROVE  CauseInv'
<1>1. /\ arpCache[h][x].timer /\ TooLate(h, x)
      /\ arpCache[h][x].numRetries + 1 >= RetryCount
      /\ UNCHANGED <<up, outages, net>>
      /\ arpCache' = [arpCache EXCEPT ![h][x] = NoEntry]
      /\ arpCache \in [Host -> [Host -> Entry]]
  BY DEF ResolutionFails, IInv, TypeOK
<1> SUFFICES ASSUME outages' = Outages
             PROVE  /\ Met' >= RetryCount
                    /\ \A i, j \in Host : arpCache'[i][j].timer =>
                          /\ i # j
                          /\ Met' >= arpCache'[i][j].numRetries
                          /\ ~AnswerUnderway(i, j)' => Met' >= arpCache'[i][j].numRetries + 1
  BY <1>1 DEF CauseInv
<1>2. /\ Met' >= Met /\ Met' >= arpCache[h][x].numRetries + 1
      /\ Met \in Nat /\ Met' \in Nat /\ RetryCount \in Nat
      /\ \A i, j \in Host : arpCache[i][j].numRetries \in Nat
  BY <1>1, TimeoutCause, MetRange
<1>3. Met' >= RetryCount
  BY <1>1, <1>2
<1>4. ASSUME NEW i \in Host, NEW j \in Host, arpCache'[i][j].timer
      PROVE  /\ i # j
             /\ Met' >= arpCache'[i][j].numRetries
             /\ ~AnswerUnderway(i, j)' => Met' >= arpCache'[i][j].numRetries + 1
  <2>1. arpCache'[i][j] = arpCache[i][j]
    BY <1>1, <1>4 DEF NoEntry
  <2>2. AnswerUnderway(i, j) <=> AnswerUnderway(i, j)'
    BY <1>1 DEF AnswerUnderway
  <2>3. /\ i # j /\ Met >= arpCache[i][j].numRetries
        /\ ~AnswerUnderway(i, j) => Met >= arpCache[i][j].numRetries + 1
    BY <1>1, <1>4, <2>1 DEF CauseInv
  <2> QED
    BY <1>2, <2>1, <2>2, <2>3
<1> QED
  BY <1>3, <1>4

\* A message that is processed answers the resolution it is about, or is answered.
LEMMA ProcessArpPacketCause ==
    ASSUME IInv, IInv', CauseInv, NEW m, ProcessArpPacket(m)
    PROVE  CauseInv'
<1> DEFINE reply == [type |-> "reply", from |-> m.at, at |-> m.from, target |-> m.from]
           rest == BagRemove(net, m)
<1>1. /\ BagIn(m, net) /\ UNCHANGED <<up, outages, setbacks, dropped>>
      /\ net' = IF m.target = m.at /\ m.type = "request" THEN BagAdd(rest, reply) ELSE rest
      /\ IF m.target = m.at \/ arpCache[m.at][m.from].state # "none"
         THEN arpCache' = [arpCache EXCEPT ![m.at][m.from] =
                              [state |-> "valid", numRetries |-> 0, timer |-> FALSE]]
         ELSE UNCHANGED arpCache
  BY DEF ProcessArpPacket, UpdateArpCache, faultVars, ipVars
<1>2. arpCache \in [Host -> [Host -> Entry]]
  BY DEF IInv, TypeOK
<1>3. ASSUME NEW h \in Host, NEW x \in Host PROVE CellKept(h, x)
  <2>1. arpCache'[h][x].timer => arpCache'[h][x] = arpCache[h][x]
    BY <1>1, <1>2
  <2>2. ASSUME arpCache'[h][x].timer, AnswerUnderway(h, x) PROVE AnswerUnderway(h, x)'
    <3>1. PICK a \in BagToSet(net) :
              \/ a.from = x /\ a.at = h
              \/ a.from = h /\ a.at = x /\ a.type = "request" /\ a.target = x
      BY <2>2 DEF AnswerUnderway
    <3>2. CASE a # m
      <4>1. a \in BagToSet(rest)
        BY <3>2, NetContents
      <4> HIDE DEF rest, reply
      <4>2. a \in BagToSet(net')
        BY <1>1, <4>1, NetContents
      <4> QED
        BY <3>1, <4>2 DEF AnswerUnderway
    <3>3. CASE a = m /\ a.from = x /\ a.at = h
      <4>1. arpCache[h][x].state # "none"
        <5>1. arpCache[h][x].timer
          BY <2>1, <2>2
        <5> QED
          BY <5>1 DEF IInv, WaitingMeansPending
      <4>2. ~arpCache'[h][x].timer
        BY <1>1, <1>2, <3>3, <4>1
      <4> QED
        BY <2>2, <4>2
    <3>4. CASE a = m /\ a.from = h /\ a.at = x /\ a.type = "request" /\ a.target = x
      <4>1. reply.from = x /\ reply.at = h
        BY <3>4
      <4> HIDE DEF rest, reply
      <4>2. net' = BagAdd(rest, reply)
        BY <1>1, <3>4
      <4>3. reply \in BagToSet(net')
        BY <4>2, NetContents
      <4> QED
        BY <4>1, <4>3 DEF AnswerUnderway
    <3> QED
      BY <3>1, <3>2, <3>3, <3>4
  <2> QED
    BY <2>1, <2>2 DEF CellKept
<1> QED
  BY <1>1, <1>3, CellsKept DEF Met

\* A message that is lost is a setback for every resolution it could have ended.
LEMMA LostArpPacketCause ==
    ASSUME IInv, IInv', CauseInv, NEW m, LostArpPacket(m)
    PROVE  CauseInv'
<1>1. /\ UNCHANGED <<arpCache, dropped, up, outages>>
      /\ setbacks' = setbacks - 1
      /\ setbacks \in 0 .. Setbacks /\ setbacks' \in 0 .. Setbacks /\ Setbacks \in Nat
      /\ RetryCount \in Nat
      /\ \A h, x \in Host : arpCache[h][x].numRetries \in Nat
  BY BoundAssumption, RetryAssumption DEF LostArpPacket, ipVars, IInv, TypeOK, Entry
<1>2. Met' = Met + 1 /\ Met \in Nat
  BY <1>1, MetRange DEF Met
<1>3. CauseInv => (outages = Outages =>
        /\ up = Host
        /\ dropped # {} => Met >= RetryCount
        /\ \A h, x \in Host : arpCache[h][x].timer =>
               h # x /\ Met >= arpCache[h][x].numRetries)
  BY DEF CauseInv
<1> SUFFICES ASSUME outages = Outages
             PROVE  /\ up = Host
                    /\ dropped # {} => Met + 1 >= RetryCount
                    /\ \A h, x \in Host : arpCache[h][x].timer =>
                          h # x /\ Met + 1 >= arpCache[h][x].numRetries + 1
  <2>1. \A h, x \in Host : Met + 1 >= arpCache[h][x].numRetries + 1
                              => Met + 1 >= arpCache[h][x].numRetries
    BY <1>1, <1>2
  <2> HIDE DEF Met
  <2> QED
    BY <1>1, <1>2, <2>1 DEF CauseInv
<1> HIDE DEF Met
<1> QED
  BY <1>1, <1>2, <1>3

\* Without an outage nobody misses a message, and a failure has met RetryCount setbacks.
LEMMA OtherCause ==
    ASSUME IInv, IInv', CauseInv, NEW h \in Host, NEW x \in Host, NEW m,
           \/ MissedArpPacket(m) /\ m \in BagToSet(net)
           \/ Expire(h, x) \/ GoDown(h) \/ GoUp(h)
    PROVE  CauseInv'
<1>1. CASE MissedArpPacket(m) /\ m \in BagToSet(net)
  <2>1. m.at \in Host
    BY <1>1 DEF IInv, TypeOK, Message
  <2>2. outages # Outages
    BY <1>1, <2>1 DEF MissedArpPacket, CauseInv
  <2> QED
    BY <1>1, <2>2 DEF MissedArpPacket, CauseInv, faultVars
<1>2. CASE Expire(h, x)
  <2>1. /\ UNCHANGED <<dropped, up, outages, setbacks, net>>
        /\ arpCache' = [arpCache EXCEPT ![h][x].state = "expired"]
        /\ arpCache[h][x].state = "valid"
        /\ arpCache \in [Host -> [Host -> Entry]]
    BY <1>2 DEF Expire, ipVars, faultVars, IInv, TypeOK
  <2>2. ~arpCache[h][x].timer /\ arpCache'[h][x].timer = arpCache[h][x].timer
    BY <2>1 DEF IInv, WaitingMeansPending, Entry
  <2>3. \A i, j \in Host : i # h \/ j # x => arpCache'[i][j] = arpCache[i][j]
    BY <2>1
  <2> QED
    BY <2>1, <2>2, <2>3, CellsKept DEF CellKept, AnswerUnderway, Met
<1>3. CASE GoDown(h)
  <2>1. outages' # Outages
    BY <1>3, BoundAssumption DEF GoDown, IInv, TypeOK
  <2> QED
    BY <2>1 DEF CauseInv
<1>4. CASE GoUp(h)
  BY <1>4 DEF GoUp, CauseInv
<1> QED
  BY <1>1, <1>2, <1>3, <1>4

LEMMA InitCause == Init => CauseInv
  BY DEF Init, CauseInv, NoEntry

LEMMA NextCause == IInv /\ IInv' /\ CauseInv /\ [Next]_vars => CauseInv'
<1> SUFFICES ASSUME IInv, IInv', CauseInv, [Next]_vars PROVE CauseInv'
  OBVIOUS
<1>1. CASE UNCHANGED vars
  BY <1>1, CellsKept DEF vars, ipVars, faultVars, CellKept, AnswerUnderway, Met
<1>2. ASSUME NEW h \in Host, NEW x \in Host, SendDatagramToOutput(h, x) PROVE CauseInv'
  BY <1>2, SendDatagramToOutputCause
<1>3. ASSUME NEW h \in Host, NEW x \in Host, Times(h, x) PROVE CauseInv'
  BY <1>3, ResendCause, ResolutionFailsCause DEF Times
<1>4. ASSUME NEW h \in Host, NEW x \in Host, Expire(h, x) \/ GoDown(h) \/ GoUp(h) PROVE CauseInv'
  BY <1>4, OtherCause
<1>5. ASSUME NEW m \in BagToSet(net), ProcessArpPacket(m) \/ LostArpPacket(m) PROVE CauseInv'
  BY <1>5, ProcessArpPacketCause, LostArpPacketCause
<1>6. ASSUME NEW m \in BagToSet(net), MissedArpPacket(m) PROVE CauseInv'
  <2>1. m.at \in Host
    BY DEF IInv, TypeOK, Message
  <2> QED
    BY <1>6, <2>1, OtherCause
<1> QED
  BY <1>1, <1>2, <1>3, <1>4, <1>5, <1>6 DEF Next, Arrives

\* A resolution fails for a cause: without an outage, a packet is dropped only after
\* RetryCount ARP packets were lost or late, whatever resolutions cross and whichever
\* messages are shared between them.
THEOREM FailuresHaveCausesTheorem == Spec => []FailuresHaveCauses
<1>1. Init => IInv /\ CauseInv
  BY InitInv, InitCause
<1>2. IInv /\ CauseInv /\ [Next]_vars => IInv' /\ CauseInv'
  BY NextInv, NextCause
<1>3. CauseInv => FailuresHaveCauses
  BY DEF CauseInv, FailuresHaveCauses, Met
<1> QED
  BY <1>1, <1>2, <1>3, PTL DEF Spec
=============================================================================
