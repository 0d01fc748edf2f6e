------------------------------ MODULE HopProofs ------------------------------
(***************************************************************************)
(* CsmaCaMac implements Hop: for every set of stations and every traffic,  *)
(* each step of the stations is a step of the promise or leaves it as it   *)
(* is, as long as acknowledgements are used.                               *)
(***************************************************************************)
EXTENDS CsmaCaMacProofs, SequenceTheorems

\* The frames of a MAC s that are not settled, as Pending has them.
Frames(s) == (IF s.cur = NoFrame THEN << >> ELSE << s.cur >>) \o s.queue

Distinct(q) == \A i, j \in 1 .. Len(q) : q[i] = q[j] => i = j

\* The frames that are not settled, of all stations: pending of Hop.
Queues == [n \in Node |-> Pending(n)]

Foremost(f, q) == q # << >> /\ Head(q) = f
Absent(f, q) == \A i \in 1 .. Len(q) : q[i] # f

\* A station holds each frame once, and only what it has accepted.
Held ==
    \A n \in Node :
        /\ Distinct(Queues[n])
        /\ \A i \in 1 .. Len(Queues[n]) : Queues[n][i] \in accepted

\* A data frame in the air is the first of its sender, or settled: a broadcast is settled
\* when its sender is done, before it has arrived everywhere.
Carried ==
    \A n, m \in Node :
        Air(n, m) /\ signal[n] \in Flow =>
            /\ signal[n] \in accepted
            /\ Foremost(signal[n], Queues[n]) \/ Absent(signal[n], Queues[n])

\* Nobody waits for the acknowledgement of a broadcast.
NoBroadcastWaits == \A n \in Node : mac[n].fsm = "WAITACK" => mac[n].cur.to # All

HopInv == Held /\ Carried /\ NoBroadcastWaits

-----------------------------------------------------------------------------
\* What the transitions of the state machine do to the frames

\* The frames of a MAC that has a current one, and of one that has none.
LEMMA FramesOfCurrent ==
    ASSUME NEW s \in Mac
    PROVE  /\ Frames(s) \in Seq(Flow)
           /\ s.cur = NoFrame => Frames(s) = s.queue
           /\ s.cur # NoFrame =>
                 /\ s.cur \in Flow
                 /\ Frames(s) # << >> /\ Head(Frames(s)) = s.cur /\ Tail(Frames(s)) = s.queue
<1>1. s.queue \in Seq(Flow) /\ s.cur \in Flow \cup {NoFrame}
  BY DEF Mac
<1>2. CASE s.cur = NoFrame
  <2>1. Frames(s) = << >> \o s.queue
    BY <1>2 DEF Frames
  <2> QED
    BY <1>1, <1>2, <2>1, ConcatEmptySeq
<1>3. CASE s.cur # NoFrame
  <2> DEFINE q == << s.cur >> \o s.queue
  <2>1. Frames(s) = q /\ << s.cur >> \in Seq(Flow) /\ s.cur \in Flow
    BY <1>1, <1>3 DEF Frames
  <2>2. /\ q \in Seq(Flow) /\ Len(q) = 1 + Len(s.queue)
        /\ q[1] = s.cur /\ \A i \in 1 .. Len(s.queue) : q[i + 1] = s.queue[i]
    BY <1>1, <2>1, ConcatProperties
  <2> HIDE DEF q
  <2>3. q # << >> /\ Head(q) = s.cur
    BY <1>1, <2>2
  <2>4. /\ Tail(q) \in Seq(Flow) /\ Len(Tail(q)) = Len(s.queue)
        /\ \A i \in 1 .. Len(Tail(q)) : Tail(q)[i] = s.queue[i]
    BY <1>1, <2>2, <2>3, HeadTailProperties
  <2>5. Tail(q) = s.queue
    BY <1>1, <2>4, SeqEqual
  <2> QED
    BY <1>3, <2>1, <2>2, <2>3, <2>5
<1> QED
  BY <1>2, <1>3

\* t is s in another state, with what it has to send.
Keeps(t, s) == t \in Mac /\ Frames(t) = Frames(s) /\ (t.fsm = "WAITACK" => t = s)

\* t has the current frame and the queue of s.
Alike(t, s) == t \in Mac /\ t.cur = s.cur /\ t.queue = s.queue

LEMMA AlikeFrames ==
    ASSUME NEW s, NEW t, Alike(t, s)
    PROVE  Frames(t) = Frames(s)
BY DEF Alike, Frames

LEMMA StartAlike ==
    ASSUME NEW s \in Mac, NEW x
    PROVE  Alike(Start(s, x), s) /\ Start(s, x).fsm # "WAITACK"
<1>1. \A y \in Timer : With(s, y) \in Mac /\ With(s, y).cur = s.cur /\ With(s, y).queue = s.queue
  BY WithType, WithFields
<1>2. ASSUME NEW w \in Mac, w.cur = s.cur, w.queue = s.queue
      PROVE  /\ Alike([w EXCEPT !.fsm = "DEFER"], s)
             /\ Alike([w EXCEPT !.fsm = "WAITDIFS"], s)
             /\ Alike([w EXCEPT !.fsm = "BACKOFF", !.backoff = TRUE], s)
  BY <1>2 DEF Alike, Mac, State
<1>3. Alike(Start(s, x), s)
  BY <1>1, <1>2 DEF Start, EnterBackoff, Timer
<1> QED
  BY <1>3, StartLeaves

LEMMA ToIdleFrames ==
    ASSUME NEW s \in Mac, NEW x
    PROVE  Keeps(ToIdle(s, x), s)
<1> DEFINE t == ToIdle(s, x)
<1> SUFFICES Keeps(t, s)
  OBVIOUS
<1>1. t.fsm # "WAITACK"
  BY ToIdleLeaves
<1>2. CASE x = "RECEIVING" \/ (s.cur = NoFrame /\ s.queue = << >>)
  <2>1. Alike([s EXCEPT !.fsm = "RECEIVE"], s) /\ Alike([s EXCEPT !.fsm = "IDLE"], s)
    BY DEF Alike, Mac, State
  <2>2. Alike(t, s)
    BY <1>2, <2>1 DEF ToIdle
  <2> HIDE DEF t
  <2> QED
    BY <1>1, <2>2, AlikeFrames DEF Keeps, Alike
<1>3. CASE x # "RECEIVING" /\ s.cur # NoFrame
  <2>1. t = Start(s, x)
    BY <1>3 DEF ToIdle
  <2>2. Alike(t, s)
    BY <2>1, StartAlike
  <2> HIDE DEF t
  <2> QED
    BY <1>1, <2>2, AlikeFrames DEF Keeps, Alike
<1>4. CASE x # "RECEIVING" /\ s.cur = NoFrame /\ s.queue # << >>
  <2> DEFINE u == [s EXCEPT !.cur = Head(s.queue), !.queue = Tail(s.queue)]
  <2>1. s.queue \in Seq(Flow) /\ Head(s.queue) \in Flow /\ Tail(s.queue) \in Seq(Flow)
    BY <1>4 DEF Mac
  <2>2. u \in Mac /\ u.cur = Head(s.queue) /\ u.queue = Tail(s.queue)
    BY <2>1 DEF Mac
  <2>3. t = Start(u, x)
    BY <1>4 DEF ToIdle
  <2> HIDE DEF u
  <2>4. Alike(t, u)
    BY <2>2, <2>3, StartAlike
  <2>5. Frames(t) = Frames(u) /\ t \in Mac
    BY <2>4, AlikeFrames DEF Alike
  <2>6. Frames(u) = s.queue
    <3>1. u.cur # NoFrame
      BY <2>1, <2>2, FrameAssumption
    <3>2. Frames(u) \in Seq(Flow) /\ Frames(u) # << >> /\ Head(Frames(u)) = Head(s.queue)
            /\ Tail(Frames(u)) = Tail(s.queue)
      BY <2>2, <3>1, FramesOfCurrent
    <3>3. Len(Frames(u)) = Len(s.queue)
            /\ \A i \in 1 .. Len(s.queue) : Frames(u)[i] = s.queue[i]
      <4>1. /\ Len(Tail(Frames(u))) = Len(Frames(u)) - 1 /\ Len(Tail(s.queue)) = Len(s.queue) - 1
            /\ Len(Frames(u)) \in Nat \ {0} /\ Len(s.queue) \in Nat \ {0}
        BY <1>4, <2>1, <3>2, HeadTailProperties, EmptySeq
      <4>2. /\ \A i \in 1 .. Len(Frames(u)) - 1 : Tail(Frames(u))[i] = Frames(u)[i + 1]
            /\ \A i \in 1 .. Len(s.queue) - 1 : Tail(s.queue)[i] = s.queue[i + 1]
        BY <1>4, <2>1, <3>2, <4>1, HeadTailProperties
      <4>3. Frames(u)[1] = s.queue[1]
        BY <2>1, <3>2, <4>1
      <4>4. Len(Frames(u)) = Len(s.queue)
        BY <3>2, <4>1
      <4>5. ASSUME NEW i \in 1 .. Len(s.queue), i # 1
            PROVE  Frames(u)[i] = s.queue[i]
        <5>1. i - 1 \in 1 .. Len(s.queue) - 1 /\ (i - 1) + 1 = i
          BY <4>1, <4>5
        <5> QED
          BY <3>2, <4>2, <4>4, <5>1
      <4> QED
        BY <4>3, <4>4, <4>5
    <3> QED
      BY <2>1, <3>2, <3>3, SeqEqual
  <2>7. Frames(s) = s.queue
    BY <1>4, FramesOfCurrent
  <2> HIDE DEF t
  <2> QED
    BY <1>1, <2>5, <2>6, <2>7 DEF Keeps
<1> QED
  BY <1>2, <1>3, <1>4

LEMMA ChangeFrames ==
    ASSUME NEW s \in Mac, NEW x, NEW y
    PROVE  Keeps(MediumStateChange(s, x), s) /\ Keeps(Signalled(s, y, x), s)
<1>1. Keeps(s, s)
  BY DEF Keeps
<1>2. Keeps(Start(s, x), s)
  BY StartAlike, AlikeFrames DEF Keeps, Alike
<1>3. ASSUME NEW f \in {"RECEIVE", "DEFER"}
      PROVE  Keeps([s EXCEPT !.fsm = f, !.timers = @ \ {"endDifs", "endBackoff"}], s)
  <2> DEFINE t == [s EXCEPT !.fsm = f, !.timers = @ \ {"endDifs", "endBackoff"}]
  <2> SUFFICES Keeps(t, s)
    OBVIOUS
  <2>1. Alike(t, s) /\ t.fsm = f
    BY DEF Alike, Mac, State, Timer
  <2> HIDE DEF t
  <2> QED
    BY <2>1, AlikeFrames DEF Keeps, Alike
<1>4. Keeps(MediumStateChange(s, x), s)
  BY <1>1, <1>2, <1>3 DEF MediumStateChange
<1> QED
  BY <1>1, <1>4 DEF Signalled
-----------------------------------------------------------------------------
\* What a step does to the frames of all stations

LEMMA QueuesType ==
    ASSUME TypeOK
    PROVE  Queues \in [Node -> Seq(Flow)] /\ \A n \in Node : Queues[n] = Frames(mac[n])
<1>1. \A n \in Node : mac[n] \in Mac /\ Pending(n) = Frames(mac[n])
  BY DEF TypeOK, Pending, Frames
<1> QED
  BY <1>1, FramesOfCurrent DEF Queues

\* One MAC changes.
LEMMA MacQueues ==
    ASSUME TypeOK, NEW n \in Node, NEW t, mac' = [mac EXCEPT ![n] = t]
    PROVE  Queues' = [Queues EXCEPT ![n] = Frames(t)]
<1>1. \A k \in Node : mac'[k] = IF k = n THEN t ELSE mac[k]
  BY DEF TypeOK
<1>2. Queues' = [k \in Node |-> Frames(mac'[k])]
  BY DEF Queues, Pending, Frames
<1>3. Queues = [k \in Node |-> Frames(mac[k])]
  BY DEF Queues, Pending, Frames
<1> QED
  BY <1>1, <1>2, <1>3

LEMMA MacWaits ==
    ASSUME TypeOK, NoBroadcastWaits, NEW n \in Node, NEW t, mac' = [mac EXCEPT ![n] = t],
           t.fsm = "WAITACK" => t.cur.to # All
    PROVE  NoBroadcastWaits'
BY DEF TypeOK, NoBroadcastWaits

\* Nothing is added to what is in the air.
Fading == signal' = signal /\ \A n, m \in Node : Air(n, m)' => Air(n, m)

LEMMA QuietQueues ==
    ASSUME Held, Carried, Queues' = Queues, accepted' = accepted, Fading
    PROVE  Held' /\ Carried'
BY DEF Held, Carried, Fading

LEMMA DropQueues ==
    ASSUME TypeOK, Held, Carried, NEW n \in Node, Queues[n] # << >>,
           Queues' = [Queues EXCEPT ![n] = Tail(Queues[n])], accepted' = accepted, Fading
    PROVE  Held' /\ Carried'
<1> DEFINE q == Queues[n]
           r == Tail(q)
<1>1. Queues \in [Node -> Seq(Flow)] /\ q \in Seq(Flow) /\ q # << >>
  BY QueuesType
<1>2. /\ Len(q) \in Nat \ {0} /\ r \in Seq(Flow) /\ Len(r) = Len(q) - 1
      /\ \A i \in 1 .. Len(r) : r[i] = q[i + 1]
  BY <1>1, EmptySeq, HeadTailProperties
<1>3. Head(q) = q[1]
  BY <1>1
<1>4. Queues'[n] = r /\ \A k \in Node \ {n} : Queues'[k] = Queues[k]
  BY <1>1
<1>5. Distinct(q) /\ \A i \in 1 .. Len(q) : q[i] \in accepted
  BY DEF Held
<1> HIDE DEF r, q
<1>6. \A i \in 1 .. Len(r) : i + 1 \in 1 .. Len(q) /\ i + 1 # 1
  BY <1>2
<1>7. Distinct(r) /\ \A i \in 1 .. Len(r) : r[i] \in accepted
  BY <1>2, <1>5, <1>6, SMTT(30) DEF Distinct
<1>8. Held'
  <2> SUFFICES ASSUME NEW k \in Node
               PROVE  /\ Distinct(Queues'[k])
                      /\ \A i \in 1 .. Len(Queues'[k]) : Queues'[k][i] \in accepted'
    BY DEF Held
  <2>1. CASE k = n
    <3>1. Queues'[k] = r /\ accepted' = accepted
      BY <1>4, <2>1
    <3> QED
      BY <1>7, <3>1
  <2>2. CASE k # n
    <3>1. Queues'[k] = Queues[k]
      BY <1>4, <2>2
    <3> QED
      BY <3>1 DEF Held
  <2> QED
    BY <2>1, <2>2
<1>9. ASSUME NEW f, Foremost(f, q) \/ Absent(f, q)
      PROVE  Absent(f, r)
  <2>1. CASE Foremost(f, q)
    BY <1>2, <1>3, <1>5, <1>6, <2>1 DEF Foremost, Absent, Distinct
  <2>2. CASE Absent(f, q)
    BY <1>2, <1>6, <2>2 DEF Absent
  <2> QED
    BY <1>9, <2>1, <2>2
<1>10. Carried'
  BY <1>4, <1>9 DEF Carried, Fading, q
<1> QED
  BY <1>8, <1>10

LEMMA AppendQueues ==
    ASSUME TypeOK, Held, Carried, NEW n \in Node, NEW f \in Flow \ accepted,
           Queues' = [Queues EXCEPT ![n] = Append(Queues[n], f)],
           accepted' = accepted \cup {f}, Fading
    PROVE  Held' /\ Carried'
<1> DEFINE q == Queues[n]
           r == Append(q, f)
<1>1. Queues \in [Node -> Seq(Flow)] /\ q \in Seq(Flow)
  BY QueuesType
<1>2. /\ Len(q) \in Nat /\ r \in Seq(Flow) /\ Len(r) = Len(q) + 1 /\ r[Len(q) + 1] = f
      /\ \A i \in 1 .. Len(q) : r[i] = q[i]
  BY <1>1
<1>3. q # << >> => r # << >> /\ Head(r) = Head(q)
  BY <1>1, <1>2, EmptySeq
<1>4. Queues'[n] = r /\ \A k \in Node \ {n} : Queues'[k] = Queues[k]
  BY <1>1
<1>5. Distinct(q) /\ \A i \in 1 .. Len(q) : q[i] \in accepted
  BY DEF Held
<1> HIDE DEF r, q
<1>6. \A i \in 1 .. Len(r) : i \in 1 .. Len(q) \/ i = Len(q) + 1
  BY <1>2
<1>7. Distinct(r) /\ \A i \in 1 .. Len(r) : r[i] \in accepted'
  BY <1>2, <1>5, <1>6 DEF Distinct
<1>8. Held'
  <2> SUFFICES ASSUME NEW k \in Node
               PROVE  /\ Distinct(Queues'[k])
                      /\ \A i \in 1 .. Len(Queues'[k]) : Queues'[k][i] \in accepted'
    BY DEF Held
  <2>1. CASE k = n
    BY <1>4, <1>7, <2>1
  <2>2. CASE k # n
    <3>1. Queues'[k] = Queues[k]
      BY <1>4, <2>2
    <3> QED
      BY <3>1 DEF Held
  <2> QED
    BY <2>1, <2>2
<1>9. ASSUME NEW g \in accepted, Foremost(g, q) \/ Absent(g, q)
      PROVE  Foremost(g, r) \/ Absent(g, r)
  <2>1. CASE Foremost(g, q)
    BY <1>3, <2>1 DEF Foremost
  <2>2. CASE Absent(g, q)
    BY <1>2, <1>6, <2>2 DEF Absent
  <2> QED
    BY <1>9, <2>1, <2>2
<1>10. Carried'
  BY <1>4, <1>9 DEF Carried, Fading, q
<1> QED
  BY <1>8, <1>10

\* A transmission begins: of the first frame, or of an acknowledgement.
LEMMA TransmitQueues ==
    ASSUME TypeOK, Held, Carried, NEW n \in Node, NEW f, Transmit(n, f),
           f \in Flow => Foremost(f, Queues[n]),
           Queues' = Queues, accepted' = accepted
    PROVE  Held' /\ Carried'
<1>1. Held'
  BY DEF Held
<1>2. /\ signal'[n] = f /\ \A k \in Node \ {n} : signal'[k] = signal[k]
      /\ \A k, m \in Node : k # n => (Air(k, m)' => Air(k, m))
  BY DEF Transmit, TypeOK, Air
<1>3. f \in Flow => f \in accepted
  <2>1. Queues[n] \in Seq(Flow)
    BY QueuesType
  <2>2. Queues[n] # << >> => Len(Queues[n]) \in Nat \ {0} /\ Head(Queues[n]) = Queues[n][1]
    BY <2>1, EmptySeq
  <2> QED
    BY <2>2 DEF Held, Foremost
<1>4. Carried'
  BY <1>2, <1>3 DEF Carried
<1> QED
  BY <1>1, <1>4
-----------------------------------------------------------------------------
\* Steps, by what they do to the frames

LEMMA QuietHop ==
    ASSUME TypeOK, HopInv, NEW n \in Node, NEW t, mac' = [mac EXCEPT ![n] = t],
           Frames(t) = Frames(mac[n]), t.fsm = "WAITACK" => t.cur.to # All,
           Fading, accepted' = accepted
    PROVE  HopInv' /\ Queues' = Queues
<1>1. Queues' = Queues
  <2>1. Queues' = [Queues EXCEPT ![n] = Queues[n]]
    BY MacQueues, QueuesType
  <2> QED
    BY <2>1, QueuesType
<1>2. NoBroadcastWaits'
  BY MacWaits DEF HopInv
<1> QED
  BY <1>1, <1>2, QuietQueues DEF HopInv

LEMMA TransmitHop ==
    ASSUME TypeOK, HopInv, NEW n \in Node, NEW t, mac' = [mac EXCEPT ![n] = t],
           Frames(t) = Frames(mac[n]), t.fsm # "WAITACK",
           NEW f, Transmit(n, f), f \in Flow => Foremost(f, Queues[n]), accepted' = accepted
    PROVE  HopInv' /\ Queues' = Queues
<1>1. Queues' = Queues
  <2>1. Queues' = [Queues EXCEPT ![n] = Queues[n]]
    BY MacQueues, QueuesType
  <2> QED
    BY <2>1, QueuesType
<1>2. NoBroadcastWaits'
  BY MacWaits DEF HopInv
<1> QED
  BY <1>1, <1>2, TransmitQueues DEF HopInv

\* n is done with its current frame.
LEMMA DropHop ==
    ASSUME TypeOK, HopInv, NEW n \in Node, NEW t, mac' = [mac EXCEPT ![n] = t],
           mac[n].cur # NoFrame, Frames(t) = mac[n].queue, t.fsm # "WAITACK",
           Fading, accepted' = accepted
    PROVE  /\ HopInv'
           /\ mac[n].cur \in Flow /\ Foremost(mac[n].cur, Queues[n])
           /\ Queues' = [Queues EXCEPT ![n] = Tail(Queues[n])]
<1>1. mac[n] \in Mac
  BY DEF TypeOK
<1>2. mac[n].cur \in Flow /\ Foremost(mac[n].cur, Queues[n]) /\ Tail(Queues[n]) = mac[n].queue
  BY <1>1, FramesOfCurrent, QueuesType DEF Foremost
<1>3. Queues' = [Queues EXCEPT ![n] = Tail(Queues[n])]
  BY <1>2, MacQueues
<1>4. NoBroadcastWaits'
  BY MacWaits DEF HopInv
<1>5. Held' /\ Carried'
  BY <1>2, <1>3, DropQueues DEF HopInv, Foremost
<1> QED
  BY <1>2, <1>3, <1>4, <1>5 DEF HopInv

LEMMA SilentFades ==
    ASSUME UNCHANGED <<signal, coming, heard>>
    PROVE  Fading
BY DEF Fading, Air

LEMMA StartFades ==
    ASSUME TypeOK, NEW n \in Node, NEW m \in Node, SignalStarts(n, m)
    PROVE  Fading
BY DEF TypeOK, SignalStarts, Fading, Air

LEMMA EndFades ==
    ASSUME TypeOK, NEW n \in Node, NEW m \in Node, SignalEnds(n, m)
    PROVE  Fading
BY DEF TypeOK, SignalEnds, Fading, Air

\* Changes of a MAC that leave its frames alone.
LEMMA EditAlike ==
    ASSUME NEW s \in Mac
    PROVE  /\ Alike(EnterBackoff(Without(s, "endDifs")), s)
           /\ EnterBackoff(Without(s, "endDifs")).fsm = "BACKOFF"
           /\ Alike([Without(s, "endBackoff") EXCEPT !.fsm = "TRANSMIT", !.backoff = FALSE], s)
           /\ Alike([With(s, "endAckTimeout") EXCEPT !.fsm = "WAITACK"], s)
           /\ Alike([Without(s, "endSifs") EXCEPT !.toAck = NoNode], s)
<1>1. \A w \in Mac : \A x \in Timer :
         /\ With(w, x) \in Mac /\ With(w, x).cur = w.cur /\ With(w, x).queue = w.queue
         /\ Without(w, x) \in Mac /\ Without(w, x).cur = w.cur /\ Without(w, x).queue = w.queue
  BY WithType, WithFields
<1>2. {"endDifs", "endBackoff", "endAckTimeout", "endSifs"} \subseteq Timer
  BY DEF Timer
<1>3. ASSUME NEW w \in Mac, w.cur = s.cur, w.queue = s.queue
      PROVE  /\ Alike([w EXCEPT !.fsm = "BACKOFF", !.backoff = TRUE], s)
             /\ [w EXCEPT !.fsm = "BACKOFF", !.backoff = TRUE].fsm = "BACKOFF"
             /\ Alike([w EXCEPT !.fsm = "TRANSMIT", !.backoff = FALSE], s)
             /\ Alike([w EXCEPT !.fsm = "WAITACK"], s)
             /\ Alike([w EXCEPT !.toAck = NoNode], s)
  BY <1>3 DEF Alike, Mac, State
<1>4. /\ Alike(EnterBackoff(Without(s, "endDifs")), s)
      /\ EnterBackoff(Without(s, "endDifs")).fsm = "BACKOFF"
  BY <1>1, <1>2, <1>3 DEF EnterBackoff
<1> QED
  BY <1>1, <1>2, <1>3, <1>4

LEMMA FinishedFrames ==
    ASSUME NEW s \in Mac
    PROVE  Finished(s) \in Mac /\ Frames(Finished(s)) = s.queue
<1> DEFINE w == Without(s, "endAckTimeout")
           t == [w EXCEPT !.cur = NoFrame, !.backoff = FALSE, !.retry = 0]
<1>1. w \in Mac /\ w.queue = s.queue
  BY WithType, WithFields DEF Timer
<1>2. Finished(s) = t
  BY DEF Finished
<1> HIDE DEF w
<1>3. 0 \in 0 .. RetryLimit
  BY LimitAssumption
<1>4. t \in Mac /\ t.cur = NoFrame /\ t.queue = s.queue
  BY <1>1, <1>3 DEF Mac
<1> HIDE DEF t
<1> QED
  BY <1>2, <1>4, FramesOfCurrent

LEMMA RetriedAlike ==
    ASSUME NEW s \in Mac, s.retry # RetryLimit
    PROVE  Alike(Retried(s), s)
<1> DEFINE w == Without(s, "endAckTimeout")
           t == [w EXCEPT !.retry = w.retry + 1, !.backoff = TRUE]
<1>1. w \in Mac /\ w.queue = s.queue /\ w.cur = s.cur /\ w.retry = s.retry
  BY WithType, WithFields DEF Timer
<1>2. Retried(s) = t
  BY DEF Retried
<1> HIDE DEF w
<1>3. w.retry + 1 \in 0 .. RetryLimit
  BY <1>1, LimitAssumption DEF Mac
<1>4. t \in Mac /\ t.cur = s.cur /\ t.queue = s.queue
  BY <1>1, <1>3 DEF Mac
<1> HIDE DEF t
<1> QED
  BY <1>2, <1>4 DEF Alike
-----------------------------------------------------------------------------
\* Each action keeps the invariant and is a step of Hop, or none

Unnoticed == HopInv' /\ UNCHANGED <<Queues, accepted, delivered, acked, broken>>

LEMMA EndDifsHop ==
    ASSUME IInv, HopInv, NEW n \in Node, EndDifs(n)
    PROVE  Unnoticed
<1> DEFINE t == EnterBackoff(Without(mac[n], "endDifs"))
<1>1. TypeOK /\ mac[n] \in Mac
  BY DEF IInv, TypeOK
<1>2. Alike(t, mac[n]) /\ t.fsm = "BACKOFF"
  BY <1>1, EditAlike
<1>3. mac' = [mac EXCEPT ![n] = t] /\ UNCHANGED netVars /\ UNCHANGED <<signal, coming, heard>>
  BY DEF EndDifs, radioVars
<1> HIDE DEF t
<1> QED
  BY <1>1, <1>2, <1>3, AlikeFrames, SilentFades, QuietHop DEF Unnoticed, netVars

LEMMA EndBackoffHop ==
    ASSUME IInv, HopInv, NEW n \in Node, EndBackoff(n)
    PROVE  Unnoticed
<1> DEFINE t == [Without(mac[n], "endBackoff") EXCEPT !.fsm = "TRANSMIT", !.backoff = FALSE]
<1>1. TypeOK /\ mac[n] \in Mac
  BY DEF IInv, TypeOK
<1>2. Alike(t, mac[n])
  BY <1>1, EditAlike
<1>3. t.fsm = "TRANSMIT"
  <2>1. Without(mac[n], "endBackoff") \in Mac
    BY <1>1, WithType DEF Timer
  <2> QED
    BY <2>1 DEF Mac
<1>4. mac[n].cur # NoFrame
  <2>1. mac[n].fsm = "BACKOFF"
    BY DEF IInv, StationInv, Fits, Timed, EndBackoff
  <2> QED
    BY <2>1 DEF IInv, StationInv, Fits
<1>5. Foremost(mac[n].cur, Queues[n])
  BY <1>1, <1>4, FramesOfCurrent, QueuesType DEF Foremost
<1>6. mac' = [mac EXCEPT ![n] = t] /\ UNCHANGED netVars /\ Transmit(n, mac[n].cur)
  BY DEF EndBackoff
<1> HIDE DEF t
<1> QED
  BY <1>1, <1>2, <1>3, <1>5, <1>6, AlikeFrames, TransmitHop DEF Unnoticed, netVars

LEMMA EndSifsHop ==
    ASSUME IInv, HopInv, NEW n \in Node, EndSifs(n)
    PROVE  Unnoticed
<1> DEFINE s == [Without(mac[n], "endSifs") EXCEPT !.toAck = NoNode]
           t == ToIdle(s, "UNDEFINED")
           f == [type |-> "ACK", to |-> mac[n].toAck]
<1>1. TypeOK /\ mac[n] \in Mac
  BY DEF IInv, TypeOK
<1>2. s \in Mac /\ Frames(s) = Frames(mac[n])
  BY <1>1, EditAlike, AlikeFrames DEF Alike
<1>3. mac' = [mac EXCEPT ![n] = t] /\ UNCHANGED netVars /\ Transmit(n, f)
  BY DEF EndSifs
<1>4. f \notin Flow
  BY FlowAssumption
<1> HIDE DEF s, f
<1>5. Frames(t) = Frames(s) /\ t.fsm # "WAITACK"
  BY <1>2, ToIdleFrames, ToIdleLeaves DEF Keeps
<1> HIDE DEF t
<1> QED
  BY <1>1, <1>2, <1>3, <1>4, <1>5, TransmitHop DEF Unnoticed, netVars

LEMMA RetryTransmissionHop ==
    ASSUME IInv, HopInv, NEW n \in Node, RetryTransmission(n)
    PROVE  Unnoticed
<1> DEFINE s == Retried(mac[n])
           t == ToIdle(s, ReceptionState(n))
<1>1. TypeOK /\ mac[n] \in Mac /\ mac[n].retry # RetryLimit
  BY DEF IInv, TypeOK, RetryTransmission
<1>2. s \in Mac /\ Frames(s) = Frames(mac[n])
  BY <1>1, RetriedAlike, AlikeFrames DEF Alike
<1>3. mac' = [mac EXCEPT ![n] = t] /\ UNCHANGED netVars /\ UNCHANGED <<signal, coming, heard>>
  BY DEF RetryTransmission, radioVars
<1> HIDE DEF s
<1>4. Frames(t) = Frames(s) /\ t.fsm # "WAITACK"
  BY <1>2, ToIdleFrames, ToIdleLeaves DEF Keeps
<1> HIDE DEF t
<1> QED
  BY <1>1, <1>2, <1>3, <1>4, SilentFades, QuietHop DEF Unnoticed, netVars

LEMMA TransmitUnicastHop ==
    ASSUME IInv, HopInv, NEW n \in Node, TransmitUnicast(n)
    PROVE  Unnoticed
<1> DEFINE t == [With(mac[n], "endAckTimeout") EXCEPT !.fsm = "WAITACK"]
<1>1. TypeOK /\ mac[n] \in Mac
  BY DEF IInv, TypeOK
<1>2. Alike(t, mac[n])
  BY <1>1, EditAlike
<1>3. /\ mac' = [mac EXCEPT ![n] = t] /\ UNCHANGED netVars /\ UNCHANGED <<signal, coming, heard>>
      /\ mac[n].cur.to # All
  BY DEF TransmitUnicast, EndTransmission, IsBroadcast, netVars
<1> HIDE DEF t
<1> QED
  BY <1>1, <1>2, <1>3, AlikeFrames, SilentFades, QuietHop DEF Unnoticed, netVars, Alike

\* The state machine is told of the medium, and nothing else happens to it.
LEMMA ToldHop ==
    ASSUME IInv, HopInv, NEW n \in Node, NEW t, mac' = [mac EXCEPT ![n] = t],
           Keeps(t, mac[n]), Fading, UNCHANGED netVars
    PROVE  Unnoticed
<1>1. t.fsm = "WAITACK" => t.cur.to # All
  BY DEF Keeps, HopInv, NoBroadcastWaits
<1> QED
  BY <1>1, QuietHop DEF IInv, Keeps, Unnoticed, netVars

LEMMA AckTransmittedHop ==
    ASSUME IInv, HopInv, NEW n \in Node, AckTransmitted(n)
    PROVE  Unnoticed
<1> DEFINE t == BackInReceiverMode(n, mac[n])
<1>1. mac[n] \in Mac
  BY DEF IInv, TypeOK
<1>2. Keeps(t, mac[n])
  BY <1>1, ChangeFrames DEF BackInReceiverMode
<1>3. mac' = [mac EXCEPT ![n] = t] /\ UNCHANGED netVars /\ UNCHANGED <<signal, coming, heard>>
  BY DEF AckTransmitted, EndTransmission
<1> HIDE DEF t
<1> QED
  BY <1>2, <1>3, SilentFades, ToldHop

LEMMA SignalStartsHop ==
    ASSUME IInv, HopInv, NEW n \in Node, NEW m \in Node, SignalStarts(n, m)
    PROVE  Unnoticed
<1> DEFINE t == Signalled(mac[m], ReceptionState(m), Reception(mode[m], heard'[m], rx'[m]))
<1>1. mac[m] \in Mac
  BY DEF IInv, TypeOK
<1>2. Keeps(t, mac[m])
  BY <1>1, ChangeFrames
<1>3. mac' = [mac EXCEPT ![m] = t] /\ UNCHANGED netVars
  BY DEF SignalStarts, netVars
<1> HIDE DEF t
<1> QED
  BY <1>2, <1>3, StartFades, ToldHop DEF IInv

LEMMA EndUnusedHop ==
    ASSUME IInv, HopInv, NEW n \in Node, NEW m \in Node, EndUnused(n, m)
    PROVE  Unnoticed
<1>1. mac[m] \in Mac
  BY DEF IInv, TypeOK
<1>2. Keeps(Informed(m), mac[m])
  BY <1>1, ChangeFrames DEF Informed
<1>3. mac' = [mac EXCEPT ![m] = Informed(m)] /\ UNCHANGED netVars /\ SignalEnds(n, m)
  BY DEF EndUnused
<1> QED
  BY <1>2, <1>3, EndFades, ToldHop DEF IInv

LEMMA ReceiveNothingHop ==
    ASSUME IInv, HopInv, NEW n \in Node, NEW m \in Node, ReceiveNothing(n, m)
    PROVE  Unnoticed
<1> DEFINE s == Informed(m)
           t == ToIdle(s, AfterEnd(m))
<1>1. TypeOK /\ mac[m] \in Mac
  BY DEF IInv, TypeOK
<1>2. s \in Mac /\ Frames(s) = Frames(mac[m])
  BY <1>1, ChangeFrames DEF Informed, Keeps
<1>3. mac' = [mac EXCEPT ![m] = t] /\ UNCHANGED netVars /\ SignalEnds(n, m)
  BY DEF ReceiveNothing
<1> HIDE DEF s
<1>4. Frames(t) = Frames(s) /\ t.fsm # "WAITACK"
  BY <1>2, ToIdleFrames, ToIdleLeaves DEF Keeps
<1> HIDE DEF t
<1> QED
  BY <1>1, <1>2, <1>3, <1>4, EndFades, QuietHop DEF Unnoticed, netVars

LEMMA ConcatAppended ==
    ASSUME NEW S, NEW p \in Seq(S), NEW q \in Seq(S), NEW e \in S
    PROVE  p \o Append(q, e) = Append(p \o q, e)
<1>1. p \o q \in Seq(S) /\ << e >> \in Seq(S)
  BY ConcatProperties
<1>2. Append(q, e) = q \o << e >> /\ Append(p \o q, e) = (p \o q) \o << e >>
  BY <1>1, AppendIsConcat
<1>3. p \o (q \o << e >>) = (p \o q) \o << e >>
  BY <1>1, ConcatAssociative
<1> QED
  BY <1>2, <1>3

\* handleUpperPacket: the frame is the last of its station.
LEMMA UpperPacketHop ==
    ASSUME IInv, HopInv, NEW f \in Flow, UpperPacket(f)
    PROVE  HopInv' /\ Promise!Accept(f)
<1> DEFINE n == f.from
           s == mac[n]
           m == [s EXCEPT !.queue = Append(s.queue, f)]
           u == [m EXCEPT !.cur = Head(m.queue), !.queue = Tail(m.queue)]
           t == IF m.fsm = "IDLE" THEN Start(u, ReceptionState(n)) ELSE m
<1>1. TypeOK /\ n \in Node /\ s = mac[n] /\ s \in Mac /\ Fits(n, s, mode[n], heard[n], rx[n])
  BY FlowAssumption DEF IInv, TypeOK, StationInv
<1>2. /\ f \notin accepted /\ accepted' = accepted \cup {f}
      /\ mac' = [mac EXCEPT ![n] = t]
      /\ UNCHANGED <<radioVars, delivered, acked, broken>>
  BY DEF UpperPacket
<1>3. s.queue \in Seq(Flow) /\ Append(s.queue, f) \in Seq(Flow) /\ s.cur \in Flow \cup {NoFrame}
  <2>1. s.queue \in Seq(Flow) /\ s.cur \in Flow \cup {NoFrame}
    BY <1>1 DEF Mac
  <2> QED
    BY <2>1, AppendProperties
<1> HIDE DEF s
<1>4. m \in Mac /\ m.fsm = s.fsm /\ m.cur = s.cur /\ m.queue = Append(s.queue, f)
  BY <1>1, <1>3 DEF Mac
<1> HIDE DEF m
<1>5. Frames(t) = Append(Frames(s), f) /\ (t.fsm = "WAITACK" => t.cur = s.cur /\ s.fsm = "WAITACK")
  <2>1. CASE s.fsm = "IDLE"
    <3>1. s.cur = NoFrame /\ s.queue = << >>
      BY <1>1, <2>1 DEF Fits
    <3>2. m.queue = << f >>
      BY <1>4, <3>1
    <3>3. Head(m.queue) = f /\ Tail(m.queue) = << >>
      BY <3>2
    <3>4. u \in Mac /\ u.cur = f /\ u.queue = << >>
      <4>1. Head(m.queue) \in Flow /\ Tail(m.queue) \in Seq(Flow)
        BY <3>3, EmptySeq
      <4> QED
        BY <1>4, <3>3, <4>1 DEF Mac
    <3> HIDE DEF u
    <3>5. Alike(t, u) /\ t.fsm # "WAITACK"
      BY <1>4, <2>1, <3>4, StartAlike
    <3>6. Frames(t) = << f >> \o << >>
      <4>1. Frames(t) = Frames(u)
        BY <3>5, AlikeFrames
      <4>2. f # NoFrame
        BY FrameAssumption
      <4> QED
        BY <3>4, <4>1, <4>2 DEF Frames
    <3>7. Frames(s) = << >>
      BY <1>1, <3>1, FramesOfCurrent
    <3> QED
      BY <3>5, <3>6, <3>7
  <2>2. CASE s.fsm # "IDLE"
    <3> DEFINE p == IF s.cur = NoFrame THEN << >> ELSE << s.cur >>
    <3>1. t = m /\ p \in Seq(Flow) /\ << f >> \in Seq(Flow)
      BY <1>3, <1>4, <2>2
    <3>2. Frames(t) = p \o Append(s.queue, f) /\ Frames(s) = p \o s.queue
      BY <1>4, <3>1 DEF Frames
    <3> HIDE DEF p
    <3>3. p \o Append(s.queue, f) = Append(p \o s.queue, f)
      BY <1>3, <3>1, ConcatAppended
    <3> QED
      BY <1>4, <3>1, <3>2, <3>3
  <2> QED
    BY <2>1, <2>2
<1> HIDE DEF t
<1>6. Queues' = [Queues EXCEPT ![n] = Append(Queues[n], f)]
  BY <1>1, <1>2, <1>5, MacQueues, QueuesType, ZenonT(40)
<1>7. Fading
  BY <1>2, SilentFades DEF radioVars
<1>8. NoBroadcastWaits'
  <2>1. t.fsm = "WAITACK" => t.cur.to # All
    BY <1>1, <1>5 DEF HopInv, NoBroadcastWaits
  <2> QED
    BY <1>1, <1>2, <2>1, MacWaits DEF HopInv
<1>9. HopInv'
  BY <1>1, <1>2, <1>6, <1>7, <1>8, AppendQueues DEF HopInv
<1>10. Promise!Accept(f)
  BY <1>2, <1>6 DEF Promise!Accept, Queues
<1> QED
  BY <1>9, <1>10

\* giveUpCurrentTransmission
LEMMA GiveUpTransmissionHop ==
    ASSUME IInv, HopInv, NEW n \in Node, GiveUpTransmission(n)
    PROVE  HopInv' /\ \E f \in Flow : Promise!Break(f)
<1> DEFINE s == Finished(mac[n])
           t == ToIdle(s, ReceptionState(n))
           f == mac[n].cur
<1>1. TypeOK /\ mac[n] \in Mac /\ Fits(n, mac[n], mode[n], heard[n], rx[n])
  BY DEF IInv, TypeOK, StationInv
<1>2. mac[n].fsm = "WAITACK"
  BY <1>1 DEF GiveUpTransmission, AckTimesOut, Fits, Timed
<1>3. f # NoFrame /\ f.to # All /\ f.from = n
  <2>1. f # NoFrame /\ f \in FlowOf(n) \cup {NoFrame}
    BY <1>1, <1>2 DEF Fits, Own
  <2> QED
    BY <1>2, <2>1 DEF HopInv, NoBroadcastWaits, FlowOf
<1>4. s \in Mac /\ Frames(s) = mac[n].queue
  BY <1>1, FinishedFrames
<1>5. /\ mac' = [mac EXCEPT ![n] = t] /\ broken' = broken \cup {f}
      /\ UNCHANGED <<accepted, delivered, acked>> /\ UNCHANGED <<signal, coming, heard>>
  BY DEF GiveUpTransmission, radioVars
<1> HIDE DEF s
<1>6. Frames(t) = mac[n].queue /\ t.fsm # "WAITACK"
  BY <1>4, ToIdleFrames, ToIdleLeaves DEF Keeps
<1> HIDE DEF t
<1>7. HopInv' /\ f \in Flow /\ Foremost(f, Queues[n])
        /\ Queues' = [Queues EXCEPT ![n] = Tail(Queues[n])]
  BY <1>1, <1>3, <1>5, <1>6, SilentFades, DropHop
<1> HIDE DEF f
<1>8. Promise!Break(f)
  BY <1>3, <1>5, <1>7 DEF Promise!Break, Promise!First, Promise!Drop, Foremost, Queues
<1> QED
  BY <1>7, <1>8

\* Receive-Ack: what is acknowledged is what n waits for, and has arrived (AckInv).
LEMMA ReceiveAckHop ==
    ASSUME IInv, HopInv, NEW n \in Node, NEW m \in Node, ReceiveAck(n, m)
    PROVE  HopInv' /\ \E f \in Flow : Promise!Acknowledge(f)
<1> DEFINE i == Informed(m)
           s == Finished(i)
           t == ToIdle(s, AfterEnd(m))
           f == mac[m].cur
<1>1. TypeOK /\ mac[m] \in Mac /\ Fits(m, mac[m], mode[m], heard[m], rx[m])
  BY DEF IInv, TypeOK, StationInv
<1>2. mac[m].fsm = "WAITACK" /\ n \in heard[m] /\ signal[n] = AckTo(m)
  BY DEF ReceiveAck, SignalEnds, Believes, AckTo
<1>3. f # NoFrame /\ f.from = m
  BY <1>1, <1>2 DEF Fits, Own, FlowOf
<1>4. f.to = n /\ <<f, n>> \in delivered
  BY <1>2 DEF IInv, AckInv, Answered, Air
<1>5. i = mac[m]
  BY <1>1, <1>2, SignalledKeeps DEF Informed
<1>6. s \in Mac /\ Frames(s) = mac[m].queue
  BY <1>1, <1>5, FinishedFrames
<1>7. /\ mac' = [mac EXCEPT ![m] = t] /\ acked' = acked \cup {f}
      /\ UNCHANGED <<accepted, delivered, broken>> /\ SignalEnds(n, m)
  BY DEF ReceiveAck
<1> HIDE DEF s
<1>8. Frames(t) = mac[m].queue /\ t.fsm # "WAITACK"
  BY <1>6, ToIdleFrames, ToIdleLeaves DEF Keeps
<1> HIDE DEF t
<1>9. HopInv' /\ f \in Flow /\ Foremost(f, Queues[m])
        /\ Queues' = [Queues EXCEPT ![m] = Tail(Queues[m])]
  BY <1>1, <1>3, <1>7, <1>8, EndFades, DropHop
<1> HIDE DEF f
<1>10. Promise!Acknowledge(f)
  BY <1>3, <1>4, <1>7, <1>9
     DEF Promise!Acknowledge, Promise!First, Promise!Drop, Foremost, Queues
<1> QED
  BY <1>9, <1>10

\* Transmit-Broadcast: nobody answers, the sender is done.
LEMMA TransmitUnacknowledgedHop ==
    ASSUME IInv, HopInv, UseAck, NEW n \in Node, TransmitUnacknowledged(n)
    PROVE  HopInv' /\ \E f \in Flow : Promise!BroadcastSent(f)
<1> DEFINE s == Finished(mac[n])
           u == ToIdle(s, "UNDEFINED")
           t == BackInReceiverMode(n, u)
           f == mac[n].cur
<1>1. TypeOK /\ mac[n] \in Mac /\ Fits(n, mac[n], mode[n], heard[n], rx[n])
  BY DEF IInv, TypeOK, StationInv
<1>2. mac[n].fsm = "TRANSMIT" /\ f.to = All
  BY DEF TransmitUnacknowledged, IsBroadcast
<1>3. f # NoFrame /\ f.from = n
  BY <1>1, <1>2 DEF Fits, Own, FlowOf
<1>4. s \in Mac /\ Frames(s) = mac[n].queue
  BY <1>1, FinishedFrames
<1>5. /\ mac' = [mac EXCEPT ![n] = t] /\ UNCHANGED <<signal, coming, heard>>
      /\ UNCHANGED <<accepted, delivered, acked, broken>>
  BY DEF TransmitUnacknowledged, EndTransmission, netVars
<1> HIDE DEF s
<1>6. u \in Mac /\ Frames(u) = mac[n].queue /\ u.fsm # "WAITACK"
  BY <1>4, ToIdleFrames, ToIdleLeaves DEF Keeps
<1> HIDE DEF u
<1>7. Frames(t) = mac[n].queue /\ t.fsm # "WAITACK"
  BY <1>6, ChangeFrames DEF Keeps, BackInReceiverMode
<1> HIDE DEF t
<1>8. HopInv' /\ f \in Flow /\ Foremost(f, Queues[n])
        /\ Queues' = [Queues EXCEPT ![n] = Tail(Queues[n])]
  BY <1>1, <1>3, <1>5, <1>7, SilentFades, DropHop
<1> HIDE DEF f
<1>9. Promise!BroadcastSent(f)
  BY <1>2, <1>3, <1>5, <1>8
     DEF Promise!BroadcastSent, Promise!First, Promise!Drop, Foremost, Queues
<1> QED
  BY <1>8, <1>9

\* Receive-Broadcast and Receive-Unicast-Use-Ack: the sender of a unicast frame answers for
\* it still (DataInv), a broadcast is the first of its sender or settled (Carried).
LEMMA ReceiveDataHop ==
    ASSUME IInv, HopInv, UseAck, NEW n \in Node, NEW m \in Node, ReceiveData(n, m)
    PROVE  HopInv' /\ \E f \in Flow : Promise!Arrive(f, m)
<1> DEFINE f == signal[n]
           i == Informed(m)
           w == [With(i, "endSifs") EXCEPT !.fsm = "WAITSIFS", !.toAck = f.from]
           u == ToIdle(i, AfterEnd(m))
           t == IF UseAck /\ ~IsBroadcast(f) THEN w ELSE u
<1>1. TypeOK /\ mac[m] \in Mac /\ mac[n] \in Mac
  BY DEF IInv, TypeOK
<1>2. SignalEnds(n, m) /\ Air(n, m) /\ f.type = "DATA" /\ f.to \in {m, All}
  BY DEF ReceiveData, ForUs, SignalEnds, Air
<1>3. f \in Flow /\ f.from = n
  <2>1. f \in FlowOf(n) \cup Ack
    BY <1>2 DEF IInv, SignalInv
  <2>2. f \notin Ack
    BY <1>2 DEF Ack
  <2> QED
    BY <2>1, <2>2 DEF FlowOf
<1>4. /\ mac' = [mac EXCEPT ![m] = t] /\ delivered' = delivered \cup {<<f, m>>}
      /\ UNCHANGED <<accepted, acked, broken>>
  BY DEF ReceiveData
<1>5. i \in Mac /\ Frames(i) = Frames(mac[m])
  BY <1>1, ChangeFrames DEF Informed, Keeps
<1>6. Foremost(f, Queues[n]) \/ (f.to = All /\ f \in accepted /\ Absent(f, Queues[n]))
  <2>1. CASE f.to = All
    BY <1>2, <1>3, <2>1 DEF HopInv, Carried
  <2>2. CASE f.to = m /\ f.to # All
    <3>1. mac[n].cur = f
      BY <1>2, <1>3, <2>2 DEF IInv, DataInv
    <3>2. f # NoFrame
      BY <1>3, FrameAssumption
    <3> QED
      BY <1>1, <3>1, <3>2, FramesOfCurrent, QueuesType DEF Foremost
  <2> QED
    BY <1>2, <2>1, <2>2
<1> HIDE DEF i, f
<1>7. Frames(w) = Frames(i) /\ w.fsm = "WAITSIFS"
  <2>1. With(i, "endSifs") \in Mac /\ With(i, "endSifs").cur = i.cur
          /\ With(i, "endSifs").queue = i.queue
    BY <1>5, WithType, WithFields DEF Timer
  <2>2. w.cur = i.cur /\ w.queue = i.queue /\ w.fsm = "WAITSIFS"
    BY <2>1 DEF Mac
  <2> HIDE DEF w
  <2> QED
    BY <2>2 DEF Frames
<1>8. Frames(u) = Frames(i) /\ u.fsm # "WAITACK"
  BY <1>5, ToIdleFrames, ToIdleLeaves DEF Keeps
<1> HIDE DEF w, u
<1>9. Frames(t) = Frames(mac[m]) /\ t.fsm # "WAITACK"
  BY <1>5, <1>7, <1>8
<1> HIDE DEF t
<1>10. HopInv' /\ Queues' = Queues
  BY <1>1, <1>2, <1>4, <1>9, EndFades, QuietHop
<1>11. Promise!Arrive(f, m)
  BY <1>2, <1>3, <1>4, <1>6, <1>10
     DEF Promise!Arrive, Promise!First, Promise!Settled, Foremost, Absent, Queues
<1> QED
  BY <1>3, <1>10, <1>11

-----------------------------------------------------------------------------
LEMMA InitHop == Init => HopInv /\ Promise!Init
<1> SUFFICES ASSUME Init PROVE HopInv /\ Promise!Init
  OBVIOUS
<1>1. Queues = [n \in Node |-> << >>]
  <2>1. \A n \in Node : Pending(n) = << >>
    BY DEF Init, Pending
  <2> QED
    BY <2>1 DEF Queues
<1>2. Held /\ Carried
  BY <1>1 DEF Init, Held, Carried, Distinct, Air
<1>3. NoBroadcastWaits
  BY DEF Init, NoBroadcastWaits
<1>4. Promise!Init
  BY <1>1 DEF Init, Promise!Init, Queues
<1> QED
  BY <1>2, <1>3, <1>4 DEF HopInv

LEMMA NextHop ==
    ASSUME UseAck, IInv, HopInv, [Next]_vars
    PROVE  HopInv' /\ [Promise!Next]_Promise!vars
<1>1. Unnoticed => HopInv' /\ UNCHANGED Promise!vars
  BY DEF Unnoticed, Promise!vars, Queues
<1>2. CASE UNCHANGED vars
  <2>1. Queues' = Queues /\ Fading
    BY <1>2 DEF vars, radioVars, Queues, Pending, Fading, Air
  <2>2. NoBroadcastWaits'
    BY <1>2 DEF HopInv, NoBroadcastWaits, vars
  <2>3. Unnoticed
    BY <1>2, <2>1, <2>2, QuietQueues DEF HopInv, Unnoticed, vars, netVars
  <2> QED
    BY <1>1, <2>3
<1>3. ASSUME NEW f \in Flow, UpperPacket(f)
      PROVE  HopInv' /\ Promise!Next
  BY <1>3, UpperPacketHop DEF Promise!Next
<1>4. ASSUME NEW n \in Node, MacStep(n)
      PROVE  HopInv' /\ [Promise!Next]_Promise!vars
  <2>1. CASE EndDifs(n) \/ EndBackoff(n) \/ EndSifs(n) \/ RetryTransmission(n)
               \/ TransmitUnicast(n) \/ AckTransmitted(n)
    BY <1>1, <2>1, EndDifsHop, EndBackoffHop, EndSifsHop, RetryTransmissionHop,
       TransmitUnicastHop, AckTransmittedHop
  <2>2. CASE GiveUpTransmission(n)
    BY <2>2, GiveUpTransmissionHop DEF Promise!Next
  <2>3. CASE TransmitUnacknowledged(n)
    BY <2>3, TransmitUnacknowledgedHop DEF Promise!Next
  <2> QED
    BY <1>4, <2>1, <2>2, <2>3 DEF MacStep
<1>5. ASSUME NEW n \in Node, NEW m \in Node, SignalStep(n, m)
      PROVE  HopInv' /\ [Promise!Next]_Promise!vars
  <2>1. CASE SignalStarts(n, m) \/ EndUnused(n, m) \/ ReceiveNothing(n, m)
    BY <1>1, <2>1, SignalStartsHop, EndUnusedHop, ReceiveNothingHop
  <2>2. CASE ReceiveAck(n, m)
    BY <2>2, ReceiveAckHop DEF Promise!Next
  <2>3. CASE ReceiveData(n, m)
    BY <2>3, ReceiveDataHop DEF Promise!Next
  <2> QED
    BY <1>5, <2>1, <2>2, <2>3 DEF SignalStep, Receives
<1> QED
  BY <1>2, <1>3, <1>4, <1>5 DEF Next

\* Stations that use acknowledgements keep the promise of Hop, whoever hears whom, whatever
\* collides and however often frames are sent again: frames arrive in order and while
\* their sender answers for them, what is acknowledged has arrived.
THEOREM HopImplemented == UseAck => (Spec => HopSpec)
<1> SUFFICES ASSUME UseAck PROVE Spec => HopSpec
  OBVIOUS
<1>1. Init => HopInv /\ Promise!Init
  BY InitHop
<1>2. IInv /\ HopInv /\ [Next]_vars => HopInv' /\ [Promise!Next]_Promise!vars
  BY NextHop
<1> QED
  BY <1>1, <1>2, Invariance, PTL DEF Spec, HopSpec, Promise!Spec
=============================================================================
