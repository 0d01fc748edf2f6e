-------------------------- MODULE CsmaCaMacProofs --------------------------
(***************************************************************************)
(* Theorems about CsmaCaMac, for every set of stations, every reachability *)
(* and every set of frames: type correctness, that no state machine is     *)
(* left waiting for nothing, and that an acknowledgement means delivery.   *)
(***************************************************************************)
EXTENDS CsmaCaMac, TLAPS

\* The frames that station n may send, and the MAC of n.
FlowOf(n) == {f \in Flow : f.from = n}

Own(n, s) ==
    /\ s \in Mac
    /\ s.cur \in FlowOf(n) \cup {NoFrame}
    /\ s.queue \in Seq(FlowOf(n))

\* A radio with mode o, the signals h and receiving r.
Receiver(o, h, r) ==
    /\ o \in {"RX", "TX"}
    /\ h \in SUBSET Node
    /\ r \in h \cup {NoNode}
    /\ o = "TX" => r = NoNode

\* The timers of a state.
Timed(s) ==
    /\ "endDifs" \in s.timers <=> s.fsm = "WAITDIFS"
    /\ "endBackoff" \in s.timers <=> s.fsm = "BACKOFF"
    /\ "endAckTimeout" \in s.timers <=> s.fsm = "WAITACK"
    /\ "endSifs" \in s.timers <=> s.fsm = "WAITSIFS"

\* The state machine s of n fits its radio.
Fits(n, s, o, h, r) ==
    /\ Own(n, s)
    /\ Timed(s)
    /\ Receiver(o, h, r)
    /\ s.fsm = "TRANSMIT" => o = "TX"
    /\ o = "TX" => s.fsm \in {"TRANSMIT", "IDLE", "DEFER"}
    /\ s.fsm = "IDLE" => s.cur = NoFrame /\ s.queue = << >>
    /\ s.fsm \in {"DEFER", "WAITDIFS", "BACKOFF", "TRANSMIT", "WAITACK"} => s.cur # NoFrame
    /\ r # NoNode => s.fsm \in {"RECEIVE", "WAITACK", "WAITSIFS"}
    /\ s.fsm = "RECEIVE" => r # NoNode
    /\ s.fsm \in {"WAITDIFS", "BACKOFF"} => o = "RX" /\ h = {}
    /\ s.fsm = "DEFER" => o = "TX" \/ h # {}
    /\ s.fsm = "WAITSIFS" <=> s.toAck # NoNode
    /\ s.fsm \in {"WAITACK", "WAITSIFS"} => UseAck

StationInv == \A n \in Node : Fits(n, mac[n], mode[n], heard[n], rx[n])

\* Somewhere between the transmitter of n and the end of its signal at m.
Air(n, m) == <<n, m>> \in coming \/ n \in heard[m]

SignalInv ==
    /\ \A n, m \in Node : <<n, m>> \in coming => n \notin heard[m]
    /\ \A n, m \in Node : Air(n, m) => signal[n] \in FlowOf(n) \cup Ack

\* While a unicast frame is in the air where it is for, its sender answers for it.
DataInv ==
    \A n, m \in Node :
        UseAck /\ Air(n, m) /\ signal[n] \in Flow /\ signal[n].to = m =>
            mac[n].fsm \in {"TRANSMIT", "WAITACK"} /\ mac[n].cur = signal[n]

AckTo(n) == [type |-> "ACK", to |-> n]

\* m owes an acknowledgement to n, or its acknowledgement is in the air.
Owed(m, n) == mac[m].toAck = n
Answered(m, n) == Air(m, n) /\ signal[m] = AckTo(n)

\* From the delivery of a frame to the end of its acknowledgement the sender waits,
\* for this frame; and there is one answer at a time.
AckInv ==
    \A n, m \in Node :
        /\ Owed(m, n) \/ Answered(m, n) =>
              /\ mac[n].fsm = "WAITACK"
              /\ mac[n].cur.to = m
              /\ <<mac[n].cur, m>> \in delivered
              /\ ~Air(n, m)
        /\ ~(Owed(m, n) /\ Answered(m, n))

IInv == TypeOK /\ StationInv /\ SignalInv /\ DataInv /\ AckInv /\ AckMeansDelivered

-----------------------------------------------------------------------------
\* The transitions of the state machine

\* t is s in another state, with other timers.
Has(t, s, fsm, timers) ==
    /\ t \in Mac
    /\ t.fsm = fsm /\ t.timers = timers
    /\ t.cur = s.cur /\ t.queue = s.queue /\ t.toAck = s.toAck

LEMMA WithType ==
    ASSUME NEW s \in Mac, NEW x \in Timer
    PROVE  With(s, x) \in Mac /\ Without(s, x) \in Mac
  BY DEF With, Without, Mac

LEMMA WithFields ==
    ASSUME NEW s \in Mac, NEW x \in Timer
    PROVE  /\ With(s, x).timers = s.timers \cup {x}
           /\ Without(s, x).timers = s.timers \ {x}
           /\ \A t \in {With(s, x), Without(s, x)} :
                 t.fsm = s.fsm /\ t.cur = s.cur /\ t.queue = s.queue /\ t.toAck = s.toAck
                 /\ t.retry = s.retry
  BY DEF With, Without, Mac

\* The states entered with a timer, by a MAC that has none.
LEMMA WithHas ==
    ASSUME NEW s \in Mac, s.timers = {}
    PROVE  /\ Has([With(s, "endDifs") EXCEPT !.fsm = "WAITDIFS"], s, "WAITDIFS", {"endDifs"})
           /\ Has(EnterBackoff(s), s, "BACKOFF", {"endBackoff"})
           /\ Has([With(s, "endAckTimeout") EXCEPT !.fsm = "WAITACK"], s, "WAITACK",
                  {"endAckTimeout"})
<1>1. ASSUME NEW x \in Timer, NEW f \in State
      PROVE  Has([With(s, x) EXCEPT !.fsm = f], s, f, {x})
  <2>1. With(s, x) \in Mac /\ With(s, x).timers = {x} /\ With(s, x).cur = s.cur
          /\ With(s, x).queue = s.queue /\ With(s, x).toAck = s.toAck
    BY WithType, WithFields
  <2> QED
    BY <2>1 DEF Has, Mac
<1>2. Has(EnterBackoff(s), s, "BACKOFF", {"endBackoff"})
  <2> DEFINE w == With(s, "endBackoff")
             t == [w EXCEPT !.fsm = "BACKOFF", !.backoff = TRUE]
  <2>1. w \in Mac /\ w.timers = {"endBackoff"} /\ w.cur = s.cur
          /\ w.queue = s.queue /\ w.toAck = s.toAck
    BY WithType, WithFields DEF Timer
  <2> HIDE DEF w
  <2>2. t \in Mac
    BY <2>1 DEF Mac, State
  <2>3. t.fsm = "BACKOFF" /\ t.timers = w.timers /\ t.cur = w.cur /\ t.queue = w.queue
          /\ t.toAck = w.toAck
    BY <2>1 DEF Mac
  <2> USE DEF w
  <2>4. EnterBackoff(s) = t
    BY DEF EnterBackoff
  <2> HIDE DEF t, w
  <2> QED
    BY <2>1, <2>2, <2>3, <2>4 DEF Has
<1> QED
  BY <1>1, <1>2 DEF Timer, State

LEMMA StartKeeps ==
    ASSUME NEW s \in Mac, NEW x
    PROVE  Start(s, x).toAck = s.toAck
<1>1. CASE x # "IDLE"
  BY <1>1 DEF Start, Mac
<1>2. CASE x = "IDLE" /\ UseAck
  <2>1. Start(s, x) = [With(s, "endDifs") EXCEPT !.fsm = "WAITDIFS"]
    BY <1>2 DEF Start
  <2>2. With(s, "endDifs") \in Mac /\ With(s, "endDifs").toAck = s.toAck
    BY WithType, WithFields DEF Timer
  <2> QED
    BY <2>1, <2>2 DEF Mac
<1>3. CASE x = "IDLE" /\ ~UseAck
  <2>1. Start(s, x) = [With(s, "endBackoff") EXCEPT !.fsm = "BACKOFF", !.backoff = TRUE]
    BY <1>3 DEF Start, EnterBackoff
  <2>2. With(s, "endBackoff") \in Mac /\ With(s, "endBackoff").toAck = s.toAck
    BY WithType, WithFields DEF Timer
  <2> QED
    BY <2>1, <2>2 DEF Mac
<1> QED
  BY <1>1, <1>2, <1>3

\* A timer is added to a MAC that has none.
LEMMA StartFits ==
    ASSUME NEW n \in Node, NEW s, NEW o, NEW h,
           Own(n, s), Receiver(o, h, NoNode),
           s.timers = {}, s.toAck = NoNode, s.cur # NoFrame
    PROVE  Fits(n, Start(s, Reception(o, h, NoNode)), o, h, NoNode)
<1> DEFINE t == Start(s, Reception(o, h, NoNode))
<1> SUFFICES Fits(n, t, o, h, NoNode)
  OBVIOUS
<1>0. s \in Mac
  BY DEF Own
<1>1. CASE o # "RX" \/ h # {}
  <2>1. t = [s EXCEPT !.fsm = "DEFER"]
    BY <1>1 DEF Start, Reception
  <2> QED
    BY <2>1, <1>1 DEF Fits, Own, Timed, Receiver, Mac, State, Timer
<1>2. CASE o = "RX" /\ h = {} /\ UseAck
  <2>1. t = [With(s, "endDifs") EXCEPT !.fsm = "WAITDIFS"]
    BY <1>2 DEF Start, Reception
  <2>2. Has(t, s, "WAITDIFS", {"endDifs"})
    BY <2>1, <1>0, WithHas
  <2> HIDE DEF t
  <2> QED
    BY <2>2, <1>2 DEF Fits, Own, Timed, Receiver, Has
<1>3. CASE o = "RX" /\ h = {} /\ ~UseAck
  <2>1. t = EnterBackoff(s)
    BY <1>3 DEF Start, Reception
  <2>2. Has(t, s, "BACKOFF", {"endBackoff"})
    BY <2>1, <1>0, WithHas
  <2> HIDE DEF t
  <2> QED
    BY <2>2, <1>3 DEF Fits, Own, Timed, Receiver, Has
<1> QED
  BY <1>1, <1>2, <1>3

\* The state machine goes on from IDLE to a state that fits the radio.
LEMMA ToIdleFits ==
    ASSUME NEW n \in Node, NEW s, NEW o, NEW h, NEW r,
           Own(n, s), Receiver(o, h, r),
           s.timers = {}, s.toAck = NoNode
    PROVE  Fits(n, ToIdle(s, Reception(o, h, r)), o, h, r)
<1>1. CASE r # NoNode
  <2>1. ToIdle(s, Reception(o, h, r)) = [s EXCEPT !.fsm = "RECEIVE"]
    BY <1>1 DEF ToIdle, Reception, Receiver
  <2> QED
    BY <2>1, <1>1 DEF Fits, Own, Timed, Receiver, Mac, State, Timer
<1>2. CASE r = NoNode /\ s.cur # NoFrame
  BY <1>2, StartFits DEF ToIdle, Reception
<1>3. CASE r = NoNode /\ s.cur = NoFrame /\ s.queue # << >>
  <2> DEFINE t == [s EXCEPT !.cur = Head(s.queue), !.queue = Tail(s.queue)]
  <2>1. Head(s.queue) \in FlowOf(n) /\ Tail(s.queue) \in Seq(FlowOf(n))
    BY <1>3 DEF Own
  <2>2. Tail(s.queue) \in Seq(Flow)
    BY <1>3 DEF Own, Mac
  <2>3. Own(n, t) /\ t.timers = {} /\ t.toAck = NoNode
    BY <2>1, <2>2 DEF Own, Mac, FlowOf
  <2>4. t.cur # NoFrame
    BY <2>1, FrameAssumption DEF Own, Mac, FlowOf
  <2>5. ToIdle(s, Reception(o, h, r)) = Start(t, Reception(o, h, NoNode))
    BY <1>3 DEF ToIdle, Reception
  <2> QED
    BY <2>3, <2>4, <2>5, <1>3, StartFits
<1>4. CASE r = NoNode /\ s.cur = NoFrame /\ s.queue = << >>
  <2>1. ToIdle(s, Reception(o, h, r)) = [s EXCEPT !.fsm = "IDLE"]
    BY <1>4 DEF ToIdle, Reception
  <2> QED
    BY <2>1, <1>4 DEF Fits, Own, Timed, Receiver, Mac, State, Timer
<1> QED
  BY <1>1, <1>2, <1>3, <1>4

\* The radio's reception state changes while the state machine runs, except that the
\* reception RECEIVE is about does not end.
LEMMA SignalledFits ==
    ASSUME NEW n \in Node, NEW s, NEW o, NEW h, NEW r, NEW h2, NEW r2,
           Fits(n, s, o, h, r), Receiver(o, h2, r2),
           s.fsm = "RECEIVE" => r2 # NoNode
    PROVE  Fits(n, Signalled(s, Reception(o, h, r), Reception(o, h2, r2)), o, h2, r2)
<1> DEFINE t == Signalled(s, Reception(o, h, r), Reception(o, h2, r2))
<1>0. Own(n, s) /\ s \in Mac /\ s.fsm \in State /\ Timed(s) /\ Receiver(o, h, r)
  BY DEF Fits, Own, Mac
<1>1. CASE /\ \/ s.fsm \in {"TRANSMIT", "WAITACK", "RECEIVE", "WAITSIFS"}
              \/ s.fsm = "IDLE" /\ r2 = NoNode
           /\ t = s
  BY <1>0, <1>1 DEF Fits, Receiver
<1>2. CASE r2 # NoNode /\ s.fsm \in {"IDLE", "DEFER", "WAITDIFS", "BACKOFF"}
  <2>1. r = NoNode /\ o = "RX"
    BY <1>2 DEF Fits, Receiver
  <2>2. t = [s EXCEPT !.fsm = "RECEIVE", !.timers = s.timers \ {"endDifs", "endBackoff"}]
    BY <2>1, <1>2 DEF Signalled, MediumStateChange, Reception
  <2>3. t \in Mac /\ t.fsm = "RECEIVE" /\ t.timers = s.timers \ {"endDifs", "endBackoff"}
          /\ t.cur = s.cur /\ t.queue = s.queue /\ t.toAck = s.toAck
    BY <2>2, <1>0, ZenonT(40) DEF Mac, State, Timer
  <2> QED
    BY <2>1, <2>3, <1>0, <1>2 DEF Fits, Own, Timed, Receiver
<1>3. CASE r2 = NoNode /\ s.fsm \in {"WAITDIFS", "BACKOFF"}
  <2>1. r = NoNode /\ o = "RX" /\ h = {}
    BY <1>3 DEF Fits
  <2>2. CASE h2 = {}
    BY <2>1, <2>2, <1>3 DEF Signalled, Reception
  <2>3. CASE h2 # {}
    <3>1. t = [s EXCEPT !.fsm = "DEFER", !.timers = s.timers \ {"endDifs", "endBackoff"}]
      BY <2>1, <2>3, <1>3 DEF Signalled, MediumStateChange, Reception
    <3>2. t \in Mac /\ t.fsm = "DEFER" /\ t.timers = s.timers \ {"endDifs", "endBackoff"}
            /\ t.cur = s.cur /\ t.queue = s.queue /\ t.toAck = s.toAck
      BY <3>1, <1>0, ZenonT(40) DEF Mac, State, Timer
    <3> QED
      BY <2>1, <2>3, <3>2, <1>0, <1>3 DEF Fits, Own, Timed, Receiver
  <2> QED
    BY <2>2, <2>3
<1>4. CASE r2 = NoNode /\ s.fsm = "DEFER"
  <2>1. r = NoNode /\ (o = "TX" \/ h # {}) /\ s.toAck = NoNode /\ s.cur # NoFrame
    BY <1>4 DEF Fits
  <2>2. CASE o = "TX" \/ h2 # {}
    BY <2>1, <2>2, <1>0, <1>4 DEF Signalled, Reception, Fits, Receiver
  <2>3. CASE o = "RX" /\ h2 = {}
    <3>1. t = Start(s, Reception(o, h2, NoNode))
      BY <2>1, <2>3, <1>4 DEF Signalled, MediumStateChange, Reception
    <3>2. s.timers = {}
      BY <1>0, <1>4 DEF Timed, Mac, Timer
    <3> QED
      BY <2>1, <3>1, <3>2, <1>0, <1>4, StartFits
  <2> QED
    BY <2>2, <2>3 DEF Receiver
<1>5. s.fsm \in {"TRANSMIT", "WAITACK", "RECEIVE", "WAITSIFS"} => t = s
  BY DEF Signalled, MediumStateChange
<1>6. s.fsm = "IDLE" /\ r2 = NoNode => t = s
  BY DEF Signalled, MediumStateChange, Reception
<1> QED
  BY <1>0, <1>1, <1>2, <1>3, <1>4, <1>5, <1>6 DEF State

\* A state machine that has a frame in the air, or receives, is not disturbed.
LEMMA SignalledKeeps ==
    ASSUME NEW s \in Mac, NEW x, NEW y
    PROVE  /\ s.fsm \in {"TRANSMIT", "WAITACK", "RECEIVE", "WAITSIFS"} => Signalled(s, x, y) = s
           /\ Signalled(s, x, y).toAck = s.toAck
<1>1. s.fsm \in {"TRANSMIT", "WAITACK", "RECEIVE", "WAITSIFS"} => Signalled(s, x, y) = s
  BY DEF Signalled, MediumStateChange
<1>2. Signalled(s, x, y).toAck = s.toAck
  <2>1. Start(s, y).toAck = s.toAck
    BY StartKeeps
  <2> QED
    BY <2>1 DEF Signalled, MediumStateChange, Mac
<1> QED
  BY <1>1, <1>2

\* The radio is back in receiver mode after a transmission.
LEMMA BackFits ==
    ASSUME NEW n \in Node, NEW s, NEW h,
           Fits(n, s, "TX", h, NoNode), s.fsm # "TRANSMIT"
    PROVE  /\ Fits(n, MediumStateChange(s, Reception("RX", h, NoNode)), "RX", h, NoNode)
           /\ MediumStateChange(s, Reception("RX", h, NoNode)).toAck = s.toAck
<1> DEFINE t == MediumStateChange(s, Reception("RX", h, NoNode))
<1>0. Own(n, s) /\ s \in Mac /\ s.fsm \in {"IDLE", "DEFER"} /\ Timed(s)
        /\ Receiver("TX", h, NoNode)
  BY DEF Fits, Own
<1>1. Receiver("RX", h, NoNode)
  BY <1>0 DEF Receiver
<1>2. CASE s.fsm = "DEFER" /\ h = {}
  <2>1. t = Start(s, Reception("RX", h, NoNode))
    BY <1>2 DEF MediumStateChange, Reception
  <2>2. s.timers = {} /\ s.toAck = NoNode /\ s.cur # NoFrame
    BY <1>0, <1>2 DEF Timed, Mac, Timer, Fits
  <2>3. t.toAck = s.toAck
    BY <2>1, <1>0, StartKeeps
  <2> QED
    BY <2>1, <2>2, <2>3, <1>0, <1>1, StartFits
<1>3. CASE s.fsm = "IDLE" \/ h # {}
  <2>1. t = s
    BY <1>0, <1>3 DEF MediumStateChange, Reception
  <2> QED
    BY <2>1, <1>0, <1>1, <1>3 DEF Fits
<1> QED
  BY <1>0, <1>2, <1>3

-----------------------------------------------------------------------------
\* Steps of one station

\* The MAC of n becomes t and no other station notices.
LEMMA StationStep ==
    ASSUME TypeOK, StationInv, NEW n \in Node, NEW t,
           mac' = [mac EXCEPT ![n] = t],
           \A k \in Node \ {n} :
               mode'[k] = mode[k] /\ heard'[k] = heard[k] /\ rx'[k] = rx[k],
           Fits(n, t, mode'[n], heard'[n], rx'[n])
    PROVE  mac' \in [Node -> Mac] /\ StationInv'
<1>1. mac' \in [Node -> Mac]
  <2>1. t \in Mac
    BY DEF Fits, Own
  <2> QED
    BY <2>1 DEF TypeOK
<1>2. ASSUME NEW k \in Node
      PROVE  Fits(k, mac'[k], mode'[k], heard'[k], rx'[k])
  <2>1. CASE k = n
    BY <2>1 DEF TypeOK
  <2>2. CASE k # n
    BY <2>2 DEF TypeOK, StationInv
  <2> QED
    BY <2>1, <2>2
<1> QED
  BY <1>1, <1>2 DEF StationInv

\* Nothing new is in the air and the MAC of n becomes t, which goes on answering for its
\* frame unless nothing depends on it.
LEMMA AnswersStep ==
    ASSUME TypeOK, DataInv, AckInv, NEW n \in Node, NEW t,
           mac' = [mac EXCEPT ![n] = t],
           t.toAck = mac[n].toAck,
           signal' = signal, delivered \subseteq delivered',
           \A i, j \in Node : Air(i, j)' => Air(i, j),
           mac[n].fsm \in {"TRANSMIT", "WAITACK"} =>
               \/ t.fsm \in {"TRANSMIT", "WAITACK"} /\ t.cur = mac[n].cur
               \/ \A j \in Node : UseAck /\ Air(n, j)' /\ signal[n] \in Flow
                                    => signal[n].to # j,
           mac[n].fsm = "WAITACK" =>
               \/ t.fsm = "WAITACK" /\ t.cur = mac[n].cur
               \/ \A j \in Node : ~Owed(j, n) /\ ~Answered(j, n)'
    PROVE  DataInv' /\ AckInv'
<1>1. mac'[n] = t /\ \A k \in Node \ {n} : mac'[k] = mac[k]
  BY DEF TypeOK
<1>2. \A i, j \in Node : Owed(i, j)' <=> Owed(i, j)
  BY <1>1 DEF Owed
<1>3. \A i, j \in Node : Answered(i, j)' => Answered(i, j)
  BY DEF Answered
<1>4. DataInv'
  <2> SUFFICES ASSUME NEW i \in Node, NEW j \in Node,
                      UseAck, Air(i, j)', signal[i] \in Flow, signal[i].to = j
               PROVE  mac'[i].fsm \in {"TRANSMIT", "WAITACK"} /\ mac'[i].cur = signal[i]
    BY DEF DataInv
  <2>1. mac[i].fsm \in {"TRANSMIT", "WAITACK"} /\ mac[i].cur = signal[i]
    BY DEF DataInv
  <2>2. CASE i = n
    BY <1>1, <2>1, <2>2
  <2>3. CASE i # n
    BY <1>1, <2>1, <2>3
  <2> QED
    BY <2>2, <2>3
<1>5. AckInv'
  <2> SUFFICES ASSUME NEW i \in Node, NEW j \in Node
               PROVE  /\ Owed(j, i)' \/ Answered(j, i)' =>
                            /\ mac'[i].fsm = "WAITACK"
                            /\ mac'[i].cur.to = j
                            /\ <<mac'[i].cur, j>> \in delivered'
                            /\ ~Air(i, j)'
                      /\ ~(Owed(j, i)' /\ Answered(j, i)')
    BY DEF AckInv
  <2>1. ~(Owed(j, i)' /\ Answered(j, i)')
    BY <1>2, <1>3 DEF AckInv
  <2>2. ASSUME Owed(j, i)' \/ Answered(j, i)'
        PROVE  /\ mac'[i].fsm = "WAITACK"
               /\ mac'[i].cur.to = j
               /\ <<mac'[i].cur, j>> \in delivered'
               /\ ~Air(i, j)'
    <3>1. /\ mac[i].fsm = "WAITACK"
          /\ mac[i].cur.to = j
          /\ <<mac[i].cur, j>> \in delivered
          /\ ~Air(i, j)
      BY <1>2, <1>3, <2>2 DEF AckInv
    <3>2. mac'[i].fsm = "WAITACK" /\ mac'[i].cur = mac[i].cur
      BY <1>1, <1>2, <2>2, <3>1
    <3> QED
      BY <3>1, <3>2
  <2> QED
    BY <2>1, <2>2
<1> QED
  BY <1>4, <1>5

\* What the network layer hands over, and the timers that send nothing, leave the radio
\* alone.
LEMMA QuietStep ==
    ASSUME IInv, NEW n \in Node, NEW t,
           mac' = [mac EXCEPT ![n] = t], UNCHANGED <<radioVars, delivered>>,
           Fits(n, t, mode[n], heard[n], rx[n]),
           t.toAck = mac[n].toAck,
           \/ mac[n].fsm \notin {"TRANSMIT", "WAITACK"}
           \/ t.fsm = mac[n].fsm /\ t.cur = mac[n].cur
           \/ ~AnswerUnderway(n)
    PROVE  mac' \in [Node -> Mac] /\ StationInv' /\ SignalInv' /\ DataInv' /\ AckInv'
<1> USE DEF IInv, radioVars
<1>1. mac' \in [Node -> Mac] /\ StationInv'
  BY StationStep
<1>2. SignalInv'
  BY DEF SignalInv, Air
<1>3. \A i, j \in Node : Air(i, j)' => Air(i, j)
  BY DEF Air
<1>4. ~AnswerUnderway(n) => \A j \in Node : ~Air(n, j)' /\ ~Owed(j, n) /\ ~Answered(j, n)'
  BY DEF AnswerUnderway, Air, Owed, Answered, AckTo
<1>5. DataInv' /\ AckInv'
  BY <1>3, <1>4, AnswersStep
<1> QED
  BY <1>1, <1>2, <1>5

LEMMA UpperPacketStep ==
    ASSUME IInv, NEW f \in Flow, UpperPacket(f)
    PROVE  IInv'
<1> DEFINE n == f.from
           m == [mac[n] EXCEPT !.queue = Append(mac[n].queue, f)]
           s == [m EXCEPT !.cur = Head(m.queue), !.queue = Tail(m.queue)]
           t == IF m.fsm = "IDLE" THEN Start(s, ReceptionState(n)) ELSE m
<1>1. n \in Node /\ f \in FlowOf(n) /\ f # NoFrame
  BY FlowAssumption, FrameAssumption DEF FlowOf
<1>2. mac' = [mac EXCEPT ![n] = t]
  BY DEF UpperPacket
<1>3. /\ m = [mac[n] EXCEPT !.queue = Append(mac[n].queue, f)]
      /\ s = [m EXCEPT !.cur = Head(m.queue), !.queue = Tail(m.queue)]
      /\ t = IF m.fsm = "IDLE" THEN Start(s, ReceptionState(n)) ELSE m
  OBVIOUS
<1>4. UNCHANGED <<radioVars, delivered, acked, broken>> /\ accepted' = accepted \cup {f}
  BY DEF UpperPacket
<1> HIDE DEF t, s, m, n
<1>5. Fits(n, mac[n], mode[n], heard[n], rx[n]) /\ Own(n, mac[n]) /\ mac[n] \in Mac
  BY <1>1 DEF IInv, StationInv, Fits, Own
<1>6. m \in Mac /\ m.queue = Append(mac[n].queue, f) /\ m.cur = mac[n].cur
        /\ m.fsm = mac[n].fsm /\ m.timers = mac[n].timers /\ m.toAck = mac[n].toAck
  <2>1. Append(mac[n].queue, f) \in Seq(Flow)
    BY <1>5 DEF Mac
  <2> QED
    BY <1>3, <1>5, <2>1 DEF Mac
<1>7. Own(n, m)
  BY <1>1, <1>5, <1>6 DEF Own
<1>8. ASSUME mac[n].fsm = "IDLE"
      PROVE  Fits(n, t, mode[n], heard[n], rx[n]) /\ t.toAck = mac[n].toAck
  <2>1. mac[n].queue = << >> /\ mac[n].timers = {} /\ mac[n].toAck = NoNode
    BY <1>5, <1>8 DEF Fits, Timed, Mac, Timer
  <2>2. m.queue = << f >>
    BY <2>1, <1>6
  <2>3. Head(m.queue) = f /\ Tail(m.queue) = << >>
    BY <2>2
  <2>4. s \in Mac
    <3>1. m.queue \in Seq(Flow) /\ m.queue # << >>
      BY <2>2, <1>6 DEF Mac
    <3>2. Head(m.queue) \in Flow /\ Tail(m.queue) \in Seq(Flow)
      BY <3>1
    <3> QED
      BY <1>3, <1>6, <3>2 DEF Mac
  <2>5. s.cur = f /\ s.queue = << >> /\ s.timers = {} /\ s.toAck = NoNode
    BY <1>3, <1>6, <2>1, <2>3 DEF Mac
  <2>6. Own(n, s)
    BY <2>4, <2>5, <1>1 DEF Own
  <2>7. rx[n] = NoNode /\ Receiver(mode[n], heard[n], rx[n])
    BY <1>5, <1>8 DEF Fits
  <2>8. t = Start(s, Reception(mode[n], heard[n], NoNode))
    BY <2>7, <1>3, <1>6, <1>8 DEF ReceptionState
  <2>9. Fits(n, t, mode[n], heard[n], rx[n])
    BY <1>1, <2>5, <2>6, <2>7, <2>8, StartFits
  <2>10. t.toAck = mac[n].toAck
    BY <2>1, <2>4, <2>5, <2>8, StartKeeps
  <2> QED
    BY <2>9, <2>10
<1>9. ASSUME mac[n].fsm # "IDLE"
      PROVE  Fits(n, t, mode[n], heard[n], rx[n]) /\ t.toAck = mac[n].toAck
  <2>1. t = m
    BY <1>3, <1>6, <1>9
  <2>2. Fits(n, m, mode[n], heard[n], rx[n])
    BY <1>5, <1>6, <1>7, <1>9 DEF Fits, Timed
  <2> QED
    BY <1>6, <2>1, <2>2
<1>10. mac[n].fsm \in {"TRANSMIT", "WAITACK"} => t.fsm = mac[n].fsm /\ t.cur = mac[n].cur
  BY <1>3, <1>6
<1>11. mac' \in [Node -> Mac] /\ StationInv' /\ SignalInv' /\ DataInv' /\ AckInv'
  BY <1>1, <1>2, <1>4, <1>8, <1>9, <1>10, QuietStep
<1>12. TypeOK' /\ AckMeansDelivered'
  BY <1>4, <1>11 DEF IInv, TypeOK, AckMeansDelivered, radioVars
<1> QED
  BY <1>11, <1>12 DEF IInv

LEMMA EndDifsStep ==
    ASSUME IInv, NEW n \in Node, EndDifs(n)
    PROVE  IInv'
<1> DEFINE s == Without(mac[n], "endDifs")
           t == EnterBackoff(s)
<1>1. Fits(n, mac[n], mode[n], heard[n], rx[n]) /\ Own(n, mac[n]) /\ mac[n] \in Mac
  BY DEF IInv, StationInv, Fits, Own
<1>2. mac[n].fsm = "WAITDIFS" /\ mac[n].timers = {"endDifs"} /\ mac[n].toAck = NoNode
  BY <1>1 DEF EndDifs, Fits, Timed, Mac, Timer
<1>3. s \in Mac /\ s.timers = {} /\ s.cur = mac[n].cur /\ s.queue = mac[n].queue
        /\ s.toAck = mac[n].toAck
  BY <1>1, <1>2, WithType, WithFields DEF Timer
<1>4. mac' = [mac EXCEPT ![n] = t]
  BY DEF EndDifs
<1>5. Has(t, s, "BACKOFF", {"endBackoff"})
  BY <1>3, WithHas
<1>6. UNCHANGED <<radioVars, delivered>>
  BY DEF EndDifs, netVars
<1> HIDE DEF t, s
<1>7. Fits(n, t, mode[n], heard[n], rx[n])
  BY <1>1, <1>2, <1>3, <1>5 DEF Fits, Own, Timed, Has
<1>8. mac' \in [Node -> Mac] /\ StationInv' /\ SignalInv' /\ DataInv' /\ AckInv'
  <2>1. t.toAck = mac[n].toAck
    BY <1>3, <1>5 DEF Has
  <2> QED
    BY <1>2, <1>4, <1>6, <1>7, <2>1, QuietStep
<1>9. TypeOK' /\ AckMeansDelivered'
  BY <1>8 DEF EndDifs, IInv, TypeOK, AckMeansDelivered, radioVars, netVars
<1> QED
  BY <1>8, <1>9 DEF IInv

LEMMA ToIdleKeeps ==
    ASSUME NEW s \in Mac, NEW x
    PROVE  ToIdle(s, x).toAck = s.toAck
<1>1. CASE x # "RECEIVING" /\ s.cur = NoFrame /\ s.queue # << >>
  <2> DEFINE t == [s EXCEPT !.cur = Head(s.queue), !.queue = Tail(s.queue)]
  <2>1. Head(s.queue) \in Flow /\ Tail(s.queue) \in Seq(Flow)
    BY <1>1 DEF Mac
  <2>2. t \in Mac /\ t.toAck = s.toAck
    BY <2>1 DEF Mac
  <2>3. ToIdle(s, x) = Start(t, x)
    BY <1>1 DEF ToIdle
  <2> QED
    BY <2>2, <2>3, StartKeeps
<1>2. CASE x # "RECEIVING" /\ s.cur # NoFrame
  BY <1>2, StartKeeps DEF ToIdle
<1>3. CASE x = "RECEIVING" \/ (s.cur = NoFrame /\ s.queue = << >>)
  BY <1>3, StartKeeps DEF ToIdle, Mac
<1> QED
  BY <1>1, <1>2, <1>3

LEMMA StartLeaves ==
    ASSUME NEW s \in Mac, NEW x
    PROVE  Start(s, x).fsm \in {"DEFER", "WAITDIFS", "BACKOFF"}
<1>1. With(s, "endDifs") \in Mac /\ With(s, "endBackoff") \in Mac
  BY WithType DEF Timer
<1> QED
  BY <1>1 DEF Start, EnterBackoff, Mac

LEMMA ToIdleLeaves ==
    ASSUME NEW s \in Mac, NEW x
    PROVE  ToIdle(s, x).fsm \in {"IDLE", "RECEIVE", "DEFER", "WAITDIFS", "BACKOFF"}
<1>1. CASE x # "RECEIVING" /\ s.cur = NoFrame /\ s.queue # << >>
  <2> DEFINE t == [s EXCEPT !.cur = Head(s.queue), !.queue = Tail(s.queue)]
  <2>1. Head(s.queue) \in Flow /\ Tail(s.queue) \in Seq(Flow)
    BY <1>1 DEF Mac
  <2>2. t \in Mac
    BY <2>1 DEF Mac
  <2>3. ToIdle(s, x) = Start(t, x)
    BY <1>1 DEF ToIdle
  <2> QED
    BY <2>2, <2>3, StartLeaves
<1>2. CASE x # "RECEIVING" /\ s.cur # NoFrame
  BY <1>2, StartLeaves DEF ToIdle
<1>3. CASE x = "RECEIVING" \/ (s.cur = NoFrame /\ s.queue = << >>)
  BY <1>3, StartLeaves DEF ToIdle, Mac
<1> QED
  BY <1>1, <1>2, <1>3

\* t is s without the timer of WAITACK and with what it has to send.
Rid(n, t, s) ==
    Own(n, t) /\ t.timers = s.timers \ {"endAckTimeout"} /\ t.toAck = s.toAck

LEMMA FinishedRid ==
    ASSUME NEW n, NEW s, Own(n, s)
    PROVE  Rid(n, Finished(s), s)
<1> DEFINE w == Without(s, "endAckTimeout")
           t == [w EXCEPT !.cur = NoFrame, !.backoff = FALSE, !.retry = 0]
<1>1. s \in Mac
  BY DEF Own
<1>2. w \in Mac /\ w.timers = s.timers \ {"endAckTimeout"} /\ w.queue = s.queue
        /\ w.toAck = s.toAck
  BY <1>1, WithType, WithFields DEF Timer
<1>3. Finished(s) = t
  BY DEF Finished
<1> HIDE DEF w
<1>4. t \in Mac
  <2>1. 0 \in 0 .. RetryLimit
    BY LimitAssumption
  <2> QED
    BY <1>2, <2>1 DEF Mac
<1>5. t.cur = NoFrame /\ t.queue = w.queue /\ t.timers = w.timers /\ t.toAck = w.toAck
  BY <1>2 DEF Mac
<1> HIDE DEF t
<1> QED
  BY <1>2, <1>3, <1>4, <1>5 DEF Rid, Own

LEMMA RetriedRid ==
    ASSUME NEW n, NEW s, Own(n, s), s.retry # RetryLimit
    PROVE  Rid(n, Retried(s), s)
<1> DEFINE w == Without(s, "endAckTimeout")
           t == [w EXCEPT !.retry = w.retry + 1, !.backoff = TRUE]
<1>1. s \in Mac
  BY DEF Own
<1>2. w \in Mac /\ w.timers = s.timers \ {"endAckTimeout"} /\ w.queue = s.queue
        /\ w.cur = s.cur /\ w.toAck = s.toAck /\ w.retry = s.retry
  BY <1>1, WithType, WithFields DEF Timer
<1>3. Retried(s) = t
  BY DEF Retried
<1> HIDE DEF w
<1>4. w.retry + 1 \in 0 .. RetryLimit
  BY <1>2, LimitAssumption DEF Mac
<1>5. t \in Mac
  BY <1>2, <1>4 DEF Mac
<1>6. t.cur = w.cur /\ t.queue = w.queue /\ t.timers = w.timers /\ t.toAck = w.toAck
  BY <1>2 DEF Mac
<1> HIDE DEF t
<1> QED
  BY <1>2, <1>3, <1>5, <1>6 DEF Rid, Own

\* The acknowledgement did not come: what both answers to it have in common.
LEMMA TimeoutStep ==
    ASSUME IInv, NEW n \in Node, AckTimesOut(n), NEW s,
           Rid(n, s, mac[n]),
           mac' = [mac EXCEPT ![n] = ToIdle(s, ReceptionState(n))],
           UNCHANGED <<radioVars, accepted, delivered, acked>>,
           broken' \subseteq broken \cup {mac[n].cur}
    PROVE  IInv'
<1> DEFINE t == ToIdle(s, ReceptionState(n))
<1>1. Fits(n, mac[n], mode[n], heard[n], rx[n]) /\ Own(n, mac[n]) /\ mac[n] \in Mac
  BY DEF IInv, StationInv, Fits, Own
<1>2. mac[n].fsm = "WAITACK" /\ mac[n].timers = {"endAckTimeout"} /\ mac[n].toAck = NoNode
        /\ mac[n].cur \in Flow /\ ~AnswerUnderway(n)
  BY <1>1 DEF AckTimesOut, Fits, Timed, Mac, Timer
<1>3. Own(n, s) /\ s \in Mac /\ s.timers = {} /\ s.toAck = NoNode
  BY <1>2 DEF Rid, Own
<1>4. Fits(n, t, mode[n], heard[n], rx[n])
  BY <1>1, <1>3, ToIdleFits DEF ReceptionState, Fits
<1>5. t.toAck = mac[n].toAck
  BY <1>2, <1>3, ToIdleKeeps
<1>6. mac' = [mac EXCEPT ![n] = t]
  OBVIOUS
<1> HIDE DEF t
<1>7. mac' \in [Node -> Mac] /\ StationInv' /\ SignalInv' /\ DataInv' /\ AckInv'
  BY <1>2, <1>4, <1>5, <1>6, QuietStep
<1>8. TypeOK' /\ AckMeansDelivered'
  BY <1>2, <1>7 DEF IInv, TypeOK, AckMeansDelivered, radioVars
<1> QED
  BY <1>7, <1>8 DEF IInv

LEMMA GiveUpTransmissionStep ==
    ASSUME IInv, NEW n \in Node, GiveUpTransmission(n)
    PROVE  IInv'
<1>1. Rid(n, Finished(mac[n]), mac[n])
  BY FinishedRid DEF IInv, StationInv, Fits
<1>2. /\ AckTimesOut(n)
      /\ mac' = [mac EXCEPT ![n] = ToIdle(Finished(mac[n]), ReceptionState(n))]
      /\ UNCHANGED <<radioVars, accepted, delivered, acked>>
      /\ broken' \subseteq broken \cup {mac[n].cur}
  BY DEF GiveUpTransmission
<1> QED
  BY <1>1, <1>2, TimeoutStep

LEMMA RetryTransmissionStep ==
    ASSUME IInv, NEW n \in Node, RetryTransmission(n)
    PROVE  IInv'
<1>1. Rid(n, Retried(mac[n]), mac[n])
  BY RetriedRid DEF IInv, StationInv, Fits, RetryTransmission
<1>2. /\ AckTimesOut(n)
      /\ mac' = [mac EXCEPT ![n] = ToIdle(Retried(mac[n]), ReceptionState(n))]
      /\ UNCHANGED <<radioVars, accepted, delivered, acked>>
      /\ broken' \subseteq broken \cup {mac[n].cur}
  BY DEF RetryTransmission, netVars
<1> QED
  BY <1>1, <1>2, TimeoutStep

-----------------------------------------------------------------------------
\* Steps of the radio

\* A transmission of n is over.
LEMMA EndedStep ==
    ASSUME IInv, NEW n \in Node, EndTransmission(n), NEW t,
           mac' = [mac EXCEPT ![n] = t],
           Fits(n, t, "RX", heard[n], NoNode),
           t.toAck = mac[n].toAck,
           mac[n].fsm = "TRANSMIT" =>
               \/ t.fsm = "WAITACK" /\ t.cur = mac[n].cur
               \/ IsBroadcast(mac[n].cur) \/ ~UseAck
    PROVE  IInv'
<1>1. Fits(n, mac[n], mode[n], heard[n], rx[n]) /\ mode[n] = "TX"
  BY DEF IInv, StationInv, EndTransmission
<1>2. rx[n] = NoNode /\ mac[n].fsm # "WAITACK"
  BY <1>1 DEF Fits, Receiver
<1>3. /\ mode' = [mode EXCEPT ![n] = "RX"]
      /\ UNCHANGED <<signal, coming, heard, rx, spoiled, noise, netVars>>
  BY DEF EndTransmission
<1>4. mode'[n] = "RX" /\ \A k \in Node \ {n} : mode'[k] = mode[k]
  BY <1>3 DEF IInv, TypeOK
<1>5. mac' \in [Node -> Mac] /\ StationInv'
  BY <1>2, <1>3, <1>4, StationStep DEF IInv
<1>6. SignalInv'
  BY <1>3 DEF IInv, SignalInv, Air
<1>7. DataInv' /\ AckInv'
  <2>1. \A i, j \in Node : Air(i, j)' => Air(i, j)
    BY <1>3 DEF Air
  <2>2. signal' = signal /\ delivered \subseteq delivered'
    BY <1>3 DEF netVars
  <2>3. ASSUME mac[n].fsm = "TRANSMIT", IsBroadcast(mac[n].cur), NEW j \in Node,
               UseAck, Air(n, j)', signal[n] \in Flow
        PROVE  signal[n].to # j
    BY <2>1, <2>3, NodeAssumption DEF IInv, DataInv, IsBroadcast
  <2> QED
    BY <1>2, <2>1, <2>2, <2>3, AnswersStep DEF IInv
<1>8. TypeOK' /\ AckMeansDelivered'
  BY <1>3, <1>5 DEF IInv, TypeOK, AckMeansDelivered, netVars
<1> QED
  BY <1>5, <1>6, <1>7, <1>8 DEF IInv

LEMMA TransmitUnacknowledgedStep ==
    ASSUME IInv, NEW n \in Node, TransmitUnacknowledged(n)
    PROVE  IInv'
<1> DEFINE s == ToIdle(Finished(mac[n]), "UNDEFINED")
           t == BackInReceiverMode(n, s)
<1>1. Fits(n, mac[n], mode[n], heard[n], rx[n]) /\ Own(n, mac[n]) /\ mac[n] \in Mac
  BY DEF IInv, StationInv, Fits, Own
<1>2. EndTransmission(n) /\ mac[n].fsm = "TRANSMIT" /\ mode[n] = "TX"
        /\ (IsBroadcast(mac[n].cur) \/ ~UseAck)
  BY DEF TransmitUnacknowledged, EndTransmission
<1>3. mac[n].timers = {} /\ mac[n].toAck = NoNode /\ rx[n] = NoNode
        /\ Receiver("TX", heard[n], NoNode)
  BY <1>1, <1>2 DEF Fits, Timed, Mac, Timer, Receiver
<1>4. Rid(n, Finished(mac[n]), mac[n])
  BY <1>1, FinishedRid
<1>5. Own(n, Finished(mac[n])) /\ Finished(mac[n]) \in Mac
        /\ Finished(mac[n]).timers = {} /\ Finished(mac[n]).toAck = NoNode
  BY <1>3, <1>4 DEF Rid, Own
<1>6. s = ToIdle(Finished(mac[n]), Reception("TX", heard[n], NoNode))
  BY DEF Reception
<1>7. mac' = [mac EXCEPT ![n] = t]
  BY DEF TransmitUnacknowledged
<1>8. s.toAck = NoNode
  BY <1>5, ToIdleKeeps
<1>9. t = MediumStateChange(s, Reception("RX", heard[n], NoNode))
  BY DEF BackInReceiverMode
<1> HIDE DEF s, t
<1>10. Fits(n, s, "TX", heard[n], NoNode)
  BY <1>3, <1>5, <1>6, ToIdleFits
<1>11. s.fsm # "TRANSMIT"
  <2>1. Reception("TX", heard[n], NoNode) = "UNDEFINED"
    BY DEF Reception
  <2> QED
    BY <1>5, <1>6, <2>1, ToIdleLeaves
<1>12. Fits(n, t, "RX", heard[n], NoNode) /\ t.toAck = NoNode
  BY <1>8, <1>9, <1>10, <1>11, BackFits
<1> QED
  BY <1>2, <1>3, <1>7, <1>12, EndedStep

LEMMA TransmitUnicastStep ==
    ASSUME IInv, NEW n \in Node, TransmitUnicast(n)
    PROVE  IInv'
<1> DEFINE t == [With(mac[n], "endAckTimeout") EXCEPT !.fsm = "WAITACK"]
<1>1. Fits(n, mac[n], mode[n], heard[n], rx[n]) /\ Own(n, mac[n]) /\ mac[n] \in Mac
  BY DEF IInv, StationInv, Fits, Own
<1>2. EndTransmission(n) /\ mac[n].fsm = "TRANSMIT" /\ mode[n] = "TX" /\ UseAck
  BY DEF TransmitUnicast, EndTransmission
<1>3. mac[n].timers = {} /\ mac[n].toAck = NoNode /\ mac[n].cur # NoFrame
        /\ Receiver("TX", heard[n], NoNode)
  BY <1>1, <1>2 DEF Fits, Timed, Mac, Timer, Receiver
<1>4. mac' = [mac EXCEPT ![n] = t]
  BY DEF TransmitUnicast
<1>5. Has(t, mac[n], "WAITACK", {"endAckTimeout"})
  BY <1>1, <1>3, WithHas
<1> HIDE DEF t
<1>6. Fits(n, t, "RX", heard[n], NoNode)
  BY <1>1, <1>2, <1>3, <1>5 DEF Fits, Own, Timed, Has, Receiver
<1>7. t.fsm = "WAITACK" /\ t.cur = mac[n].cur /\ t.toAck = mac[n].toAck
  BY <1>5 DEF Has
<1> QED
  BY <1>2, <1>4, <1>6, <1>7, EndedStep

LEMMA AckTransmittedStep ==
    ASSUME IInv, NEW n \in Node, AckTransmitted(n)
    PROVE  IInv'
<1> DEFINE t == BackInReceiverMode(n, mac[n])
<1>1. Fits(n, mac[n], mode[n], heard[n], rx[n])
  BY DEF IInv, StationInv
<1>2. EndTransmission(n) /\ mac[n].fsm # "TRANSMIT" /\ mode[n] = "TX"
  BY DEF AckTransmitted, EndTransmission
<1>3. rx[n] = NoNode
  BY <1>1, <1>2 DEF Fits, Receiver
<1>4. mac' = [mac EXCEPT ![n] = t]
  BY DEF AckTransmitted
<1>5. t = MediumStateChange(mac[n], Reception("RX", heard[n], NoNode))
  BY DEF BackInReceiverMode
<1> HIDE DEF t
<1>6. Fits(n, t, "RX", heard[n], NoNode) /\ t.toAck = mac[n].toAck
  BY <1>1, <1>2, <1>3, <1>5, BackFits
<1> QED
  BY <1>2, <1>4, <1>6, EndedStep

LEMMA SignalStartsStep ==
    ASSUME IInv, NEW n \in Node, NEW m \in Node, SignalStarts(n, m)
    PROVE  IInv'
<1> DEFINE attempted == mode[m] = "RX" /\ rx[m] = NoNode
           h == heard[m] \cup {n}
           r == IF attempted THEN n ELSE rx[m]
           t == Signalled(mac[m], ReceptionState(m), Reception(mode[m], h, r))
<1>1. Fits(m, mac[m], mode[m], heard[m], rx[m]) /\ mac[m] \in Mac
        /\ Receiver(mode[m], heard[m], rx[m])
  BY DEF IInv, StationInv, Fits, Own
<1>2. /\ <<n, m>> \in coming /\ coming' = coming \ {<<n, m>>}
      /\ heard' = [heard EXCEPT ![m] = h]
      /\ rx' = [rx EXCEPT ![m] = r]
      /\ UNCHANGED <<mode, signal, netVars>>
  BY DEF SignalStarts, IInv, TypeOK
<1>3. heard'[m] = h /\ rx'[m] = r
        /\ \A k \in Node \ {m} : heard'[k] = heard[k] /\ rx'[k] = rx[k]
  BY <1>2 DEF IInv, TypeOK
<1>4. mac' = [mac EXCEPT ![m] = t]
  BY <1>3 DEF SignalStarts
<1>5. Receiver(mode[m], h, r) /\ (mac[m].fsm = "RECEIVE" => r # NoNode)
  BY <1>1, NodeAssumption DEF Receiver, Fits
<1>6. Fits(m, t, mode[m], h, r)
  BY <1>1, <1>5, SignalledFits DEF ReceptionState
<1>7. /\ mac[m].fsm \in {"TRANSMIT", "WAITACK"} => t = mac[m]
      /\ t.toAck = mac[m].toAck
  BY <1>1, SignalledKeeps
<1>8. h \in SUBSET Node /\ r \in Node \cup {NoNode}
  BY <1>5 DEF Receiver
<1> HIDE DEF t, h, r, attempted
<1>9. mac' \in [Node -> Mac] /\ StationInv'
  BY <1>2, <1>3, <1>4, <1>6, StationStep DEF IInv
<1>10. \A i, j \in Node : Air(i, j)' <=> Air(i, j)
  <2> USE DEF h
  <2> QED
    BY <1>2, <1>3 DEF Air
<1>11. SignalInv'
  <2>1. \A i, j \in Node : <<i, j>> \in coming' => i \notin heard'[j]
    <3> USE DEF h
    <3> QED
      BY <1>2, <1>3 DEF IInv, SignalInv
  <2> QED
    BY <1>2, <1>10, <2>1 DEF IInv, SignalInv
<1>12. DataInv' /\ AckInv'
  BY <1>2, <1>4, <1>7, <1>10, AnswersStep DEF IInv, netVars
<1>13. spoiled' \in [Node -> BOOLEAN] /\ noise' \in 0 .. Noise
  <2>1. (mode[m] = "RX" /\ rx[m] = NoNode) \in BOOLEAN
    OBVIOUS
  <2>2. noise > 0 => noise - 1 \in 0 .. Noise
    BY LimitAssumption DEF IInv, TypeOK
  <2> QED
    BY <2>1, <2>2 DEF SignalStarts, IInv, TypeOK
<1>14. TypeOK' /\ AckMeansDelivered'
  BY <1>2, <1>8, <1>9, <1>13 DEF IInv, TypeOK, AckMeansDelivered, netVars
<1> QED
  BY <1>9, <1>11, <1>12, <1>14 DEF IInv

-----------------------------------------------------------------------------
\* The end of a signal

\* The signals at m and what m receives when the signal of n is over.
RestHeard(n, m) == heard[m] \ {n}
RestRx(n, m) == IF rx[m] = n THEN NoNode ELSE rx[m]

LEMMA SignalEndsRadio ==
    ASSUME IInv, NEW n \in Node, NEW m \in Node, SignalEnds(n, m)
    PROVE  /\ n \in heard[m] /\ mode[n] # "TX"
           /\ heard'[m] = RestHeard(n, m) /\ rx'[m] = RestRx(n, m)
           /\ \A k \in Node \ {m} : heard'[k] = heard[k] /\ rx'[k] = rx[k]
           /\ UNCHANGED <<mode, signal, coming, spoiled, noise>>
           /\ Receiver(mode[m], RestHeard(n, m), RestRx(n, m))
           /\ heard' \in [Node -> SUBSET Node] /\ rx' \in [Node -> Node \cup {NoNode}]
           /\ AfterEnd(m) = Reception(mode[m], RestHeard(n, m), RestRx(n, m))
           /\ \A i, j \in Node : Air(i, j)' <=> Air(i, j) /\ ~(i = n /\ j = m)
           /\ SignalInv'
<1>1. /\ n \in heard[m] /\ mode[n] # "TX"
      /\ heard'[m] = RestHeard(n, m) /\ rx'[m] = RestRx(n, m)
      /\ \A k \in Node \ {m} : heard'[k] = heard[k] /\ rx'[k] = rx[k]
      /\ UNCHANGED <<mode, signal, coming, spoiled, noise>>
  BY DEF SignalEnds, RestHeard, RestRx, IInv, TypeOK
<1>2. Receiver(mode[m], RestHeard(n, m), RestRx(n, m))
  BY DEF IInv, StationInv, Fits, Receiver, RestHeard, RestRx
<1>3. heard' \in [Node -> SUBSET Node] /\ rx' \in [Node -> Node \cup {NoNode}]
  BY DEF SignalEnds, IInv, TypeOK
<1>4. AfterEnd(m) = Reception(mode[m], RestHeard(n, m), RestRx(n, m))
  BY <1>1 DEF AfterEnd
<1>5. \A i, j \in Node : Air(i, j)' <=> Air(i, j) /\ ~(i = n /\ j = m)
  BY <1>1 DEF Air, RestHeard, IInv, SignalInv
<1>6. SignalInv'
  BY <1>1, <1>5 DEF IInv, SignalInv, RestHeard
<1> QED
  BY <1>1, <1>2, <1>3, <1>4, <1>5, <1>6

\* What it takes for such a step to keep the invariant when m's obligation to
\* acknowledge stays the same.
LEMMA EndsStep ==
    ASSUME IInv, NEW n \in Node, NEW m \in Node, SignalEnds(n, m), NEW t,
           mac' = [mac EXCEPT ![m] = t],
           Fits(m, t, mode[m], RestHeard(n, m), RestRx(n, m)),
           t.toAck = mac[m].toAck,
           \/ mac[m].fsm \notin {"TRANSMIT", "WAITACK"}
           \/ t.fsm = mac[m].fsm /\ t.cur = mac[m].cur
           \/ Answered(n, m),
           delivered \subseteq delivered', delivered' \subseteq Flow \X Node,
           UNCHANGED <<accepted, broken>>, acked' \subseteq Flow, AckMeansDelivered'
    PROVE  IInv'
<1>1. mac' \in [Node -> Mac] /\ StationInv'
  <2>1. mode' = mode /\ heard'[m] = RestHeard(n, m) /\ rx'[m] = RestRx(n, m)
          /\ \A k \in Node \ {m} : heard'[k] = heard[k] /\ rx'[k] = rx[k]
    BY SignalEndsRadio
  <2>2. Fits(m, t, mode'[m], heard'[m], rx'[m])
    BY <2>1
  <2> QED
    BY <2>1, <2>2, StationStep DEF IInv
<1>2. SignalInv' /\ \A i, j \in Node : Air(i, j)' => Air(i, j)
  BY SignalEndsRadio
<1>3. ASSUME Answered(n, m)
      PROVE  \A j \in Node : /\ UseAck /\ Air(m, j)' /\ signal[m] \in Flow => signal[m].to # j
                             /\ ~Owed(j, m) /\ ~Answered(j, m)'
  <2>1. mac[m].cur.to = n /\ ~Air(m, n) /\ ~Owed(n, m)
    BY <1>3 DEF IInv, AckInv
  <2>2. ~Answered(n, m)'
    BY SignalEndsRadio DEF Answered
  <2>3. \A j \in Node \ {n} : ~Owed(j, m) /\ ~Answered(j, m)
    BY <2>1 DEF IInv, AckInv
  <2>4. \A j \in Node : Answered(j, m)' => Answered(j, m)
    BY SignalEndsRadio DEF Answered
  <2>5. ASSUME NEW j \in Node, UseAck, Air(m, j)', signal[m] \in Flow
        PROVE  signal[m].to # j
    BY <1>2, <2>1, <2>5 DEF IInv, DataInv
  <2> QED
    BY <2>1, <2>2, <2>3, <2>4, <2>5
<1>4. DataInv' /\ AckInv'
  BY <1>2, <1>3, SignalEndsRadio, AnswersStep DEF IInv
<1>5. TypeOK'
  BY <1>1, SignalEndsRadio DEF IInv, TypeOK
<1> QED
  BY <1>1, <1>2, <1>4, <1>5 DEF IInv

LEMMA EndUnusedStep ==
    ASSUME IInv, NEW n \in Node, NEW m \in Node, EndUnused(n, m)
    PROVE  IInv'
<1> DEFINE t == Signalled(mac[m], ReceptionState(m), AfterEnd(m))
<1>1. Fits(m, mac[m], mode[m], heard[m], rx[m]) /\ mac[m] \in Mac
  BY DEF IInv, StationInv, Fits, Own
<1>2. SignalEnds(n, m) /\ (mac[m].fsm = "RECEIVE" => rx[m] # n) /\ UNCHANGED netVars
  BY DEF EndUnused
<1>3. mac' = [mac EXCEPT ![m] = t]
  BY DEF EndUnused, Informed
<1>4. mac[m].fsm = "RECEIVE" => RestRx(n, m) # NoNode
  BY <1>1, <1>2 DEF Fits, RestRx
<1>5. Fits(m, t, mode[m], RestHeard(n, m), RestRx(n, m))
  BY <1>1, <1>2, <1>4, SignalEndsRadio, SignalledFits DEF ReceptionState
<1>6. /\ mac[m].fsm \in {"TRANSMIT", "WAITACK"} => t = mac[m]
      /\ t.toAck = mac[m].toAck
  BY <1>1, SignalledKeeps
<1> HIDE DEF t
<1>7. /\ delivered \subseteq delivered' /\ delivered' \subseteq Flow \X Node
      /\ UNCHANGED <<accepted, broken>> /\ acked' \subseteq Flow /\ AckMeansDelivered'
  BY <1>2 DEF IInv, TypeOK, AckMeansDelivered, netVars
<1> QED
  BY <1>2, <1>3, <1>5, <1>6, <1>7, EndsStep

LEMMA ReceiveAckStep ==
    ASSUME IInv, NEW n \in Node, NEW m \in Node, ReceiveAck(n, m)
    PROVE  IInv'
<1> DEFINE t == ToIdle(Finished(Informed(m)), AfterEnd(m))
<1>1. Fits(m, mac[m], mode[m], heard[m], rx[m]) /\ Own(m, mac[m]) /\ mac[m] \in Mac
  BY DEF IInv, StationInv, Fits, Own
<1>2. /\ SignalEnds(n, m) /\ mac[m].fsm = "WAITACK" /\ signal[n] = AckTo(m)
      /\ UNCHANGED <<accepted, delivered, broken>> /\ acked' = acked \cup {mac[m].cur}
  BY DEF ReceiveAck, Believes, AckTo
<1>3. mac' = [mac EXCEPT ![m] = t]
  BY DEF ReceiveAck
<1>4. Informed(m) = mac[m]
  BY <1>1, <1>2, SignalledKeeps DEF Informed
<1>5. mac[m].timers = {"endAckTimeout"} /\ mac[m].toAck = NoNode /\ mac[m].cur \in Flow
  BY <1>1, <1>2 DEF Fits, Timed, Mac, Timer
<1>6. Rid(m, Finished(mac[m]), mac[m])
  BY <1>1, FinishedRid
<1>7. Own(m, Finished(mac[m])) /\ Finished(mac[m]) \in Mac
        /\ Finished(mac[m]).timers = {} /\ Finished(mac[m]).toAck = NoNode
  BY <1>5, <1>6 DEF Rid, Own
<1>8. t = ToIdle(Finished(mac[m]), Reception(mode[m], RestHeard(n, m), RestRx(n, m)))
  BY <1>2, <1>4, SignalEndsRadio
<1> HIDE DEF t
<1>9. Fits(m, t, mode[m], RestHeard(n, m), RestRx(n, m))
  BY <1>2, <1>7, <1>8, SignalEndsRadio, ToIdleFits
<1>10. t.toAck = mac[m].toAck
  BY <1>5, <1>7, <1>8, ToIdleKeeps
<1>11. Answered(n, m)
  BY <1>2, SignalEndsRadio DEF Answered, Air
<1>12. mac[m].cur.to = n /\ <<mac[m].cur, n>> \in delivered
  BY <1>11 DEF IInv, AckInv
<1>13. /\ delivered \subseteq delivered' /\ delivered' \subseteq Flow \X Node
       /\ UNCHANGED <<accepted, broken>> /\ acked' \subseteq Flow /\ AckMeansDelivered'
  BY <1>2, <1>5, <1>12 DEF IInv, TypeOK, AckMeansDelivered
<1> QED
  BY <1>2, <1>3, <1>9, <1>10, <1>11, <1>13, EndsStep

\* What is received is over and the state machine goes on from RECEIVE to IDLE.
LEMMA ReceivedToIdle ==
    ASSUME IInv, NEW n \in Node, NEW m \in Node, SignalEnds(n, m), mac[m].fsm = "RECEIVE"
    PROVE  /\ Informed(m) = mac[m]
           /\ mac[m].timers = {} /\ mac[m].toAck = NoNode
           /\ Fits(m, ToIdle(mac[m], AfterEnd(m)), mode[m], RestHeard(n, m), RestRx(n, m))
           /\ ToIdle(mac[m], AfterEnd(m)).toAck = mac[m].toAck
<1>1. Fits(m, mac[m], mode[m], heard[m], rx[m]) /\ Own(m, mac[m]) /\ mac[m] \in Mac
  BY DEF IInv, StationInv, Fits, Own
<1>2. Informed(m) = mac[m]
  BY <1>1, SignalledKeeps DEF Informed
<1>3. mac[m].timers = {} /\ mac[m].toAck = NoNode
  BY <1>1 DEF Fits, Timed, Mac, Timer
<1>4. Fits(m, ToIdle(mac[m], AfterEnd(m)), mode[m], RestHeard(n, m), RestRx(n, m))
  BY <1>1, <1>3, SignalEndsRadio, ToIdleFits
<1> QED
  BY <1>1, <1>2, <1>3, <1>4, ToIdleKeeps

LEMMA ReceiveNothingStep ==
    ASSUME IInv, NEW n \in Node, NEW m \in Node, ReceiveNothing(n, m)
    PROVE  IInv'
<1> DEFINE t == ToIdle(mac[m], AfterEnd(m))
<1>1. SignalEnds(n, m) /\ mac[m].fsm = "RECEIVE" /\ UNCHANGED netVars
  BY DEF ReceiveNothing
<1>2. mac' = [mac EXCEPT ![m] = ToIdle(Informed(m), AfterEnd(m))]
  BY DEF ReceiveNothing
<1>3. mac' = [mac EXCEPT ![m] = t]
  BY <1>1, <1>2, ReceivedToIdle
<1>4. Fits(m, t, mode[m], RestHeard(n, m), RestRx(n, m)) /\ t.toAck = mac[m].toAck
  BY <1>1, ReceivedToIdle
<1> HIDE DEF t
<1>5. /\ delivered \subseteq delivered' /\ delivered' \subseteq Flow \X Node
      /\ UNCHANGED <<accepted, broken>> /\ acked' \subseteq Flow /\ AckMeansDelivered'
  BY <1>1 DEF IInv, TypeOK, AckMeansDelivered, netVars
<1> QED
  BY <1>1, <1>3, <1>4, <1>5, EndsStep

\* The receiver owes an acknowledgement from now on, to a sender that waits.
LEMMA ReceiveDataStep ==
    ASSUME IInv, NEW n \in Node, NEW m \in Node, ReceiveData(n, m)
    PROVE  IInv'
<1> DEFINE f == signal[n]
<1>1. /\ SignalEnds(n, m) /\ mac[m].fsm = "RECEIVE" /\ ForUs(f, m)
      /\ UNCHANGED <<accepted, acked, broken>>
      /\ delivered' = delivered \cup {<<f, m>>}
  BY DEF ReceiveData
<1>2. Informed(m) = mac[m] /\ mac[m].timers = {} /\ mac[m].toAck = NoNode
  BY <1>1, ReceivedToIdle
<1>3. n \in heard[m] /\ mode[n] # "TX"
  BY <1>1, SignalEndsRadio
<1>4. f \in FlowOf(n)
  BY <1>1, <1>3 DEF IInv, SignalInv, Air, ForUs, Ack
<1>5. f \in Flow /\ f.from = n /\ f.to \in {m, All}
  BY <1>1, <1>4 DEF FlowOf, ForUs
<1>6. /\ delivered \subseteq delivered' /\ delivered' \subseteq Flow \X Node
      /\ acked' \subseteq Flow /\ AckMeansDelivered'
  BY <1>1, <1>5 DEF IInv, TypeOK, AckMeansDelivered
<1>7. CASE IsBroadcast(f) \/ ~UseAck
  <2> DEFINE t == ToIdle(mac[m], AfterEnd(m))
  <2>1. mac' = [mac EXCEPT ![m] = t]
    BY <1>2, <1>7 DEF ReceiveData
  <2>2. Fits(m, t, mode[m], RestHeard(n, m), RestRx(n, m)) /\ t.toAck = mac[m].toAck
    BY <1>1, ReceivedToIdle
  <2> HIDE DEF t, f
  <2> QED
    BY <1>1, <1>6, <2>1, <2>2, EndsStep
<1>8. CASE ~IsBroadcast(f) /\ UseAck
  <2> DEFINE w == With(mac[m], "endSifs")
             t == [w EXCEPT !.fsm = "WAITSIFS", !.toAck = f.from]
  <2>1. mac' = [mac EXCEPT ![m] = t]
    BY <1>2, <1>8 DEF ReceiveData
  <2>2. w \in Mac /\ w.timers = {"endSifs"} /\ w.cur = mac[m].cur
          /\ w.queue = mac[m].queue
    <3>1. Fits(m, mac[m], mode[m], heard[m], rx[m]) /\ mac[m] \in Mac
      BY DEF IInv, StationInv, Fits, Own
    <3> QED
      BY <1>2, <3>1, WithType, WithFields DEF Timer
  <2>3. t = [w EXCEPT !.fsm = "WAITSIFS", !.toAck = n]
    BY <1>5
  <2> HIDE DEF w, t, f
  <2>4. t \in Mac
    BY <2>2, <2>3 DEF Mac, State
  <2>5. t.fsm = "WAITSIFS" /\ t.toAck = n /\ t.timers = w.timers /\ t.cur = w.cur
          /\ t.queue = w.queue
    BY <2>2, <2>3 DEF Mac
  <2>6. Fits(m, mac[m], mode[m], heard[m], rx[m])
    BY DEF IInv, StationInv
  <2>7. Receiver(mode[m], RestHeard(n, m), RestRx(n, m)) /\ mode[m] # "TX"
    BY <1>1, <2>6, SignalEndsRadio DEF Fits
  <2>8. Fits(m, t, mode[m], RestHeard(n, m), RestRx(n, m))
    BY <1>8, <2>2, <2>4, <2>5, <2>6, <2>7, NodeAssumption DEF Fits, Own, Timed
  <2>9. mac' \in [Node -> Mac] /\ StationInv'
    <3>1. mode' = mode /\ heard'[m] = RestHeard(n, m) /\ rx'[m] = RestRx(n, m)
            /\ \A k \in Node \ {m} : heard'[k] = heard[k] /\ rx'[k] = rx[k]
      BY <1>1, SignalEndsRadio
    <3>2. Fits(m, t, mode'[m], heard'[m], rx'[m])
      BY <2>8, <3>1
    <3> QED
      BY <2>1, <3>1, <3>2, StationStep DEF IInv
  <2>10. SignalInv' /\ signal' = signal
           /\ \A i, j \in Node : Air(i, j)' <=> Air(i, j) /\ ~(i = n /\ j = m)
    BY <1>1, SignalEndsRadio
  <2>11. mac'[m] = t /\ \A k \in Node \ {m} : mac'[k] = mac[k]
    BY <2>1 DEF IInv, TypeOK
  <2>12. f.to = m
    BY <1>5, <1>8 DEF IsBroadcast
  <2>13. mac[n].fsm = "WAITACK" /\ mac[n].cur = f /\ n # m
    <3>1. Air(n, m)
      BY <1>3 DEF Air
    <3>2. mac[n].fsm \in {"TRANSMIT", "WAITACK"} /\ mac[n].cur = f
      BY <1>5, <1>8, <2>12, <3>1 DEF IInv, DataInv, f
    <3>3. mac[n].fsm # "TRANSMIT"
      BY <1>3 DEF IInv, StationInv, Fits
    <3> QED
      BY <1>1, <3>2, <3>3
  <2>14. DataInv'
    BY <1>1, <2>10, <2>11 DEF IInv, DataInv
  <2>15. AckInv'
    <3> SUFFICES ASSUME NEW i \in Node, NEW j \in Node
                 PROVE  /\ Owed(j, i)' \/ Answered(j, i)' =>
                              /\ mac'[i].fsm = "WAITACK"
                              /\ mac'[i].cur.to = j
                              /\ <<mac'[i].cur, j>> \in delivered'
                              /\ ~Air(i, j)'
                        /\ ~(Owed(j, i)' /\ Answered(j, i)')
      BY DEF AckInv
    <3>1. Answered(j, i)' => Answered(j, i)
      BY <2>10 DEF Answered
    <3>2. CASE i = n /\ j = m
      <4>1. ~Answered(m, n)
        BY <1>3 DEF IInv, AckInv, Air
      <4> QED
        BY <1>1, <2>10, <2>11, <2>12, <2>13, <3>1, <3>2, <4>1
    <3>3. CASE ~(i = n /\ j = m)
      <4>1. Owed(j, i)' => Owed(j, i) /\ j # m
        BY <2>5, <2>11, <3>3 DEF Owed
      <4>2. Owed(j, i)' \/ Answered(j, i)' =>
              /\ mac[i].fsm = "WAITACK"
              /\ mac[i].cur.to = j
              /\ <<mac[i].cur, j>> \in delivered
              /\ ~Air(i, j)
        BY <3>1, <4>1 DEF IInv, AckInv
      <4>3. mac[i].fsm = "WAITACK" => mac'[i] = mac[i]
        BY <1>1, <2>11
      <4> QED
        BY <1>1, <2>10, <3>1, <4>1, <4>2, <4>3 DEF IInv, AckInv
    <3> QED
      BY <3>2, <3>3
  <2>16. TypeOK'
    BY <1>1, <1>6, <2>9, SignalEndsRadio DEF IInv, TypeOK
  <2> QED
    BY <1>6, <2>9, <2>10, <2>14, <2>15, <2>16 DEF IInv
<1> QED
  BY <1>7, <1>8

-----------------------------------------------------------------------------
\* The start of a signal

LEMMA TransmitRadio ==
    ASSUME IInv, NEW n \in Node, NEW x \in FlowOf(n) \cup Ack, Transmit(n, x)
    PROVE  /\ \A j \in Node : ~Air(n, j)
           /\ mode'[n] = "TX" /\ heard' = heard /\ rx'[n] = NoNode
           /\ \A k \in Node \ {n} : mode'[k] = mode[k] /\ rx'[k] = rx[k]
           /\ signal'[n] = x /\ \A k \in Node \ {n} : signal'[k] = signal[k]
           /\ \A i, j \in Node : i # n => (Air(i, j)' <=> Air(i, j))
           /\ mode' \in [Node -> {"RX", "TX", "OFF"}]
           /\ signal' \in [Node -> Flow \cup Ack \cup {NoFrame}]
           /\ coming' \subseteq Link
           /\ rx' \in [Node -> Node \cup {NoNode}]
           /\ UNCHANGED <<spoiled, noise>>
           /\ SignalInv'
<1>1. \A j \in Node : <<n, j>> \notin coming /\ n \notin heard[j]
  BY DEF Transmit
<1>2. /\ mode'[n] = "TX" /\ heard' = heard /\ rx'[n] = NoNode
      /\ \A k \in Node \ {n} : mode'[k] = mode[k] /\ rx'[k] = rx[k]
      /\ signal'[n] = x /\ \A k \in Node \ {n} : signal'[k] = signal[k]
      /\ mode' \in [Node -> {"RX", "TX", "OFF"}]
      /\ rx' \in [Node -> Node \cup {NoNode}]
      /\ UNCHANGED <<spoiled, noise>>
  BY DEF Transmit, IInv, TypeOK
<1>3. signal' \in [Node -> Flow \cup Ack \cup {NoFrame}]
  BY DEF Transmit, IInv, TypeOK, FlowOf
<1>4. coming' = coming \cup {l \in Link : l[1] = n}
  BY DEF Transmit
<1>5. coming' \subseteq Link
  BY <1>4 DEF IInv, TypeOK
<1>6. \A i, j \in Node : i # n => (Air(i, j)' <=> Air(i, j))
  BY <1>2, <1>4 DEF Air
<1>7. \A i, j \in Node : <<i, j>> \in coming' => i \notin heard'[j]
  <2> SUFFICES ASSUME NEW i \in Node, NEW j \in Node, <<i, j>> \in coming'
               PROVE  i \notin heard[j]
    BY <1>2
  <2>1. CASE i = n
    BY <1>1, <2>1
  <2>2. CASE i # n
    BY <1>4, <2>2 DEF IInv, SignalInv
  <2> QED
    BY <2>1, <2>2
<1>8. SignalInv'
  <2>1. ASSUME NEW i \in Node, NEW j \in Node, Air(i, j)'
        PROVE  signal'[i] \in FlowOf(i) \cup Ack
    <3>1. CASE i = n
      BY <1>2, <3>1
    <3>2. CASE i # n
      BY <1>2, <1>6, <2>1, <3>2 DEF IInv, SignalInv
    <3> QED
      BY <3>1, <3>2
  <2> QED
    BY <1>7, <2>1 DEF SignalInv
<1>9. \A j \in Node : ~Air(n, j)
  BY <1>1 DEF Air
<1> QED
  BY <1>2, <1>3, <1>5, <1>6, <1>8, <1>9

LEMMA EndBackoffStep ==
    ASSUME IInv, NEW n \in Node, EndBackoff(n)
    PROVE  IInv'
<1> DEFINE f == mac[n].cur
           w == Without(mac[n], "endBackoff")
           t == [w EXCEPT !.fsm = "TRANSMIT", !.backoff = FALSE]
<1>1. Fits(n, mac[n], mode[n], heard[n], rx[n]) /\ Own(n, mac[n]) /\ mac[n] \in Mac
  BY DEF IInv, StationInv, Fits, Own
<1>2. mac[n].fsm = "BACKOFF" /\ mac[n].timers = {"endBackoff"} /\ mac[n].toAck = NoNode
        /\ f \in FlowOf(n) /\ heard[n] = {} /\ f \in Flow
  BY <1>1 DEF EndBackoff, Fits, Own, Timed, Mac, Timer, FlowOf
<1>3. w \in Mac /\ w.timers = {} /\ w.cur = f /\ w.queue = mac[n].queue
        /\ w.toAck = NoNode
  BY <1>1, <1>2, WithType, WithFields DEF Timer
<1>4. mac' = [mac EXCEPT ![n] = t] /\ Transmit(n, f) /\ UNCHANGED netVars
  BY DEF EndBackoff
<1> HIDE DEF w
<1>5. t \in Mac
  BY <1>3 DEF Mac, State
<1>6. t.fsm = "TRANSMIT" /\ t.timers = {} /\ t.cur = f /\ t.queue = mac[n].queue
        /\ t.toAck = NoNode
  BY <1>3 DEF Mac
<1> HIDE DEF t
<1>7. Fits(n, t, "TX", heard[n], NoNode)
  <2>1. Receiver("TX", heard[n], NoNode)
    BY <1>1 DEF Fits, Receiver
  <2>2. Own(n, t) /\ Timed(t) /\ t.cur # NoFrame
    BY <1>1, <1>2, <1>5, <1>6, FrameAssumption DEF Own, Timed
  <2> QED
    BY <1>6, <2>1, <2>2 DEF Fits
<1>8. mac' \in [Node -> Mac] /\ StationInv'
  <2>1. mode'[n] = "TX" /\ heard' = heard /\ rx'[n] = NoNode
          /\ \A k \in Node \ {n} : mode'[k] = mode[k] /\ rx'[k] = rx[k]
    BY <1>2, <1>4, TransmitRadio
  <2>2. Fits(n, t, mode'[n], heard'[n], rx'[n])
    BY <1>7, <2>1
  <2> QED
    BY <1>4, <2>1, <2>2, StationStep DEF IInv
<1>9. mac'[n] = t /\ \A k \in Node \ {n} : mac'[k] = mac[k]
  BY <1>4 DEF IInv, TypeOK
<1>10. /\ \A i, j \in Node : i # n => (Air(i, j)' <=> Air(i, j))
       /\ signal'[n] = f /\ \A k \in Node \ {n} : signal'[k] = signal[k]
       /\ SignalInv'
  BY <1>2, <1>4, TransmitRadio
<1>11. DataInv'
  <2> SUFFICES ASSUME NEW i \in Node, NEW j \in Node,
                      UseAck, Air(i, j)', signal'[i] \in Flow, signal'[i].to = j
               PROVE  mac'[i].fsm \in {"TRANSMIT", "WAITACK"} /\ mac'[i].cur = signal'[i]
    BY DEF DataInv
  <2>1. CASE i = n
    BY <1>6, <1>9, <1>10, <2>1
  <2>2. CASE i # n
    BY <1>9, <1>10, <2>2 DEF IInv, DataInv
  <2> QED
    BY <2>1, <2>2
<1>12. AckInv'
  <2> SUFFICES ASSUME NEW i \in Node, NEW j \in Node
               PROVE  /\ Owed(j, i)' \/ Answered(j, i)' =>
                            /\ mac'[i].fsm = "WAITACK"
                            /\ mac'[i].cur.to = j
                            /\ <<mac'[i].cur, j>> \in delivered'
                            /\ ~Air(i, j)'
                      /\ ~(Owed(j, i)' /\ Answered(j, i)')
    BY DEF AckInv
  <2>1. Owed(j, i)' => Owed(j, i)
    BY <1>2, <1>6, <1>9 DEF Owed
  <2>2. f # AckTo(i)
    BY <1>2, FlowAssumption DEF AckTo
  <2>3. Answered(j, i)' => Answered(j, i)
    BY <1>10, <2>2 DEF Answered
  <2>4. CASE i = n
    <3>1. ~Owed(j, i) /\ ~Answered(j, i)
      BY <1>2, <2>4 DEF IInv, AckInv
    <3> QED
      BY <2>1, <2>3, <3>1
  <2>5. CASE i # n
    BY <1>4, <1>9, <1>10, <2>1, <2>3, <2>5 DEF IInv, AckInv, netVars
  <2> QED
    BY <2>4, <2>5
<1>13. TypeOK' /\ AckMeansDelivered'
  BY <1>2, <1>4, <1>8, TransmitRadio DEF IInv, TypeOK, AckMeansDelivered, netVars
<1> QED
  BY <1>8, <1>10, <1>11, <1>12, <1>13 DEF IInv

LEMMA EndSifsStep ==
    ASSUME IInv, NEW n \in Node, EndSifs(n)
    PROVE  IInv'
<1> DEFINE k == mac[n].toAck
           w == Without(mac[n], "endSifs")
           s == [w EXCEPT !.toAck = NoNode]
           t == ToIdle(s, "UNDEFINED")
<1>1. Fits(n, mac[n], mode[n], heard[n], rx[n]) /\ Own(n, mac[n]) /\ mac[n] \in Mac
  BY DEF IInv, StationInv, Fits, Own
<1>2. mac[n].fsm = "WAITSIFS" /\ mac[n].timers = {"endSifs"} /\ k \in Node
  BY <1>1 DEF EndSifs, Fits, Timed, Mac, Timer
<1>3. w \in Mac /\ w.timers = {} /\ w.cur = mac[n].cur /\ w.queue = mac[n].queue
  BY <1>1, <1>2, WithType, WithFields DEF Timer
<1>4. mac' = [mac EXCEPT ![n] = t] /\ Transmit(n, AckTo(k)) /\ UNCHANGED netVars
  BY DEF EndSifs, AckTo
<1>5. t = ToIdle(s, Reception("TX", heard[n], NoNode))
  BY DEF Reception
<1> HIDE DEF w, t
<1>6. s \in Mac
  BY <1>3 DEF Mac
<1>7. s.timers = {} /\ s.cur = mac[n].cur /\ s.queue = mac[n].queue /\ s.toAck = NoNode
  BY <1>3 DEF Mac
<1> HIDE DEF s
<1>8. Fits(n, t, "TX", heard[n], NoNode)
  <2>1. Receiver("TX", heard[n], NoNode)
    BY <1>1 DEF Fits, Receiver
  <2>2. Own(n, s)
    BY <1>1, <1>6, <1>7 DEF Own
  <2> QED
    BY <1>5, <1>7, <2>1, <2>2, ToIdleFits
<1>9. t.toAck = NoNode
  BY <1>5, <1>6, <1>7, ToIdleKeeps
<1>10. AckTo(k) \in Ack
  BY <1>2 DEF AckTo, Ack
<1> HIDE DEF k
<1>11. mac' \in [Node -> Mac] /\ StationInv'
  <2>1. mode'[n] = "TX" /\ heard' = heard /\ rx'[n] = NoNode
          /\ \A i \in Node \ {n} : mode'[i] = mode[i] /\ rx'[i] = rx[i]
    BY <1>4, <1>10, TransmitRadio
  <2>2. Fits(n, t, mode'[n], heard'[n], rx'[n])
    BY <1>8, <2>1
  <2> QED
    BY <1>4, <2>1, <2>2, StationStep DEF IInv
<1>12. mac'[n] = t /\ \A i \in Node \ {n} : mac'[i] = mac[i]
  BY <1>4 DEF IInv, TypeOK
<1>13. /\ \A j \in Node : ~Air(n, j)
       /\ \A i, j \in Node : i # n => (Air(i, j)' <=> Air(i, j))
       /\ signal'[n] = AckTo(k) /\ \A i \in Node \ {n} : signal'[i] = signal[i]
       /\ SignalInv'
  BY <1>4, <1>10, TransmitRadio
<1>14. DataInv'
  <2> SUFFICES ASSUME NEW i \in Node, NEW j \in Node,
                      UseAck, Air(i, j)', signal'[i] \in Flow, signal'[i].to = j
               PROVE  mac'[i].fsm \in {"TRANSMIT", "WAITACK"} /\ mac'[i].cur = signal'[i]
    BY DEF DataInv
  <2>1. CASE i = n
    BY <1>13, <2>1, FlowAssumption DEF AckTo
  <2>2. CASE i # n
    BY <1>12, <1>13, <2>2 DEF IInv, DataInv
  <2> QED
    BY <2>1, <2>2
<1>15. AckInv'
  <2> SUFFICES ASSUME NEW i \in Node, NEW j \in Node
               PROVE  /\ Owed(j, i)' \/ Answered(j, i)' =>
                            /\ mac'[i].fsm = "WAITACK"
                            /\ mac'[i].cur.to = j
                            /\ <<mac'[i].cur, j>> \in delivered'
                            /\ ~Air(i, j)'
                      /\ ~(Owed(j, i)' /\ Answered(j, i)')
    BY DEF AckInv
  <2>1. CASE j = n
    <3>1. ~Owed(j, i)'
      BY <1>9, <1>12, <2>1, NodeAssumption DEF Owed
    <3>2. Answered(j, i)' => i = k
      BY <1>13, <2>1 DEF Answered, AckTo
    <3>3. Owed(n, k)
      BY DEF Owed, k
    <3>4. /\ mac[k].fsm = "WAITACK" /\ mac[k].cur.to = n
          /\ <<mac[k].cur, n>> \in delivered /\ ~Air(k, n)
      BY <1>2, <3>3 DEF IInv, AckInv
    <3>5. k # n
      BY <1>2, <3>4
    <3> QED
      BY <1>2, <1>4, <1>12, <1>13, <2>1, <3>1, <3>2, <3>4, <3>5 DEF netVars
  <2>2. CASE j # n
    <3>1. (Owed(j, i)' <=> Owed(j, i)) /\ (Answered(j, i)' <=> Answered(j, i))
      BY <1>12, <1>13, <2>2 DEF Owed, Answered
    <3>2. /\ Owed(j, i) \/ Answered(j, i) =>
                 /\ mac[i].fsm = "WAITACK"
                 /\ mac[i].cur.to = j
                 /\ <<mac[i].cur, j>> \in delivered
                 /\ ~Air(i, j)
          /\ ~(Owed(j, i) /\ Answered(j, i))
      BY DEF IInv, AckInv
    <3> QED
      BY <1>2, <1>4, <1>12, <1>13, <3>1, <3>2 DEF netVars
  <2> QED
    BY <2>1, <2>2
<1>16. TypeOK' /\ AckMeansDelivered'
  BY <1>4, <1>10, <1>11, TransmitRadio DEF IInv, TypeOK, AckMeansDelivered, netVars
<1> QED
  BY <1>11, <1>13, <1>14, <1>15, <1>16 DEF IInv

-----------------------------------------------------------------------------
LEMMA InitInv == Init => IInv
<1> SUFFICES ASSUME Init PROVE IInv
  OBVIOUS
<1> DEFINE s == [fsm |-> "IDLE", cur |-> NoFrame, queue |-> << >>, backoff |-> FALSE,
                 retry |-> 0, timers |-> {}, toAck |-> NoNode]
<1>1. s \in Mac
  BY LimitAssumption DEF Mac, State
<1>2. s.fsm = "IDLE" /\ s.cur = NoFrame /\ s.queue = << >> /\ s.timers = {}
        /\ s.toAck = NoNode
  OBVIOUS
<1>3. mac = [n \in Node |-> s]
  BY DEF Init
<1> HIDE DEF s
<1>4. TypeOK
  <2>1. mac \in [Node -> Mac] /\ Noise \in 0 .. Noise /\ {} \subseteq Link
    BY <1>1, <1>3, LimitAssumption
  <2> QED
    BY <2>1 DEF Init, TypeOK
<1>5. StationInv
  <2> SUFFICES ASSUME NEW n \in Node
               PROVE  Fits(n, mac[n], mode[n], heard[n], rx[n])
    BY DEF StationInv
  <2>1. mac[n] = s /\ mode[n] = "RX" /\ heard[n] = {} /\ rx[n] = NoNode
    BY <1>3 DEF Init
  <2>2. Own(n, s)
    BY <1>1, <1>2 DEF Own
  <2> QED
    BY <1>2, <2>1, <2>2 DEF Fits, Timed, Receiver
<1>6. \A i, j \in Node : ~Air(i, j) /\ ~Owed(i, j)
  BY <1>2, <1>3, NodeAssumption DEF Init, Air, Owed
<1>7. SignalInv /\ DataInv /\ AckInv
  BY <1>6 DEF Init, SignalInv, DataInv, AckInv, Answered, Air
<1>8. AckMeansDelivered
  BY DEF Init, AckMeansDelivered
<1> QED
  BY <1>4, <1>5, <1>7, <1>8 DEF IInv

LEMMA NextInv == IInv /\ [Next]_vars => IInv'
<1> SUFFICES ASSUME IInv, [Next]_vars PROVE IInv'
  OBVIOUS
<1>1. CASE UNCHANGED vars
  BY <1>1 DEF vars, radioVars, netVars, IInv, TypeOK, StationInv, SignalInv, DataInv, AckInv,
              AckMeansDelivered, Air, Owed, Answered
<1>2. ASSUME NEW f \in Flow, UpperPacket(f) PROVE IInv'
  BY <1>2, UpperPacketStep
<1>3. ASSUME NEW n \in Node, MacStep(n) PROVE IInv'
  BY <1>3, EndDifsStep, EndBackoffStep, EndSifsStep, GiveUpTransmissionStep,
     RetryTransmissionStep, TransmitUnacknowledgedStep, TransmitUnicastStep,
     AckTransmittedStep DEF MacStep
<1>4. ASSUME NEW n \in Node, NEW m \in Node, SignalStep(n, m) PROVE IInv'
  BY <1>4, SignalStartsStep, EndUnusedStep, ReceiveAckStep, ReceiveNothingStep,
     ReceiveDataStep DEF SignalStep, Receives
<1> QED
  BY <1>1, <1>2, <1>3, <1>4 DEF Next

\* The inductive invariant: each state machine fits its radio, a unicast frame in the air
\* has a sender that answers for it, and one that waits owns every answer to it.
THEOREM Invariance == Spec => []IInv
<1>1. IInv /\ [Next]_vars => IInv'
  BY NextInv
<1> QED
  BY <1>1, InitInv, PTL DEF Spec

\* Every variable of MAC and radio keeps its type: no retry beyond the limit, no current
\* frame handed up that is not there.
THEOREM TypeCorrect == Spec => []TypeOK
<1>1. IInv => TypeOK
  BY DEF IInv
<1> QED
  BY <1>1, Invariance, PTL

\* The state machine never waits for an event that nothing brings: whatever state it is in,
\* its timer runs, or its radio is busy with what ends the state (handleWithFsm).
THEOREM NeverStuckTheorem == Spec => []NeverStuck
<1>1. IInv => NeverStuck
  <2> SUFFICES ASSUME IInv, NEW n \in Node PROVE Awaited(n)
    BY DEF NeverStuck
  <2>1. Fits(n, mac[n], mode[n], heard[n], rx[n]) /\ mac[n] \in Mac
    BY DEF IInv, StationInv, Fits, Own
  <2>2. mac[n].timers \subseteq Timer /\ mac[n].fsm \in State
    BY <2>1 DEF Mac
  <2>3. mac[n].fsm = "DEFER" => ReceptionState(n) \in {"UNDEFINED", "BUSY"}
    BY <2>1 DEF Fits, ReceptionState, Reception
  <2> QED
    BY <2>1, <2>2, <2>3 DEF Awaited, Fits, Timed, Timer, State
<1> QED
  BY <1>1, Invariance, PTL

\* A frame that counts as acknowledged was delivered to the station it was for
\* (sendAckFrame, Receive-Ack), however signals overlap and whatever noise there is.
THEOREM AckMeansDeliveredTheorem == Spec => []AckMeansDelivered
<1>1. IInv => AckMeansDelivered
  BY DEF IInv
<1> QED
  BY <1>1, Invariance, PTL
=============================================================================
