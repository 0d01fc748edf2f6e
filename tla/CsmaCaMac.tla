------------------------------ MODULE CsmaCaMac ------------------------------
(***************************************************************************)
(* Stations that share a wireless medium: inetmanet's CsmaCaMac on top of  *)
(* its packet-level Radio (CsmaCaMac.cc, Radio.cc).  This is a link layer  *)
(* with the acknowledgements and the link-break signal that Aodv relies    *)
(* on.                                                                     *)
(*                                                                         *)
(* A step is one event of the simulator with every call it makes: what the *)
(* radio signals to the MAC inside the event, and the second run of the    *)
(* state machine that handleWithFsm adds when it ends in IDLE.  Time is    *)
(* abstracted; what the model keeps of it is said where it is assumed.     *)
(***************************************************************************)
EXTENDS Naturals, Sequences, FiniteSets

CONSTANTS Node, NoNode,
          All,          \* the broadcast address
          NoFrame,
          Link,         \* pairs <<n, m>>: a signal of n reaches m
          Flow,         \* the frames the network layers hand over
          RetryLimit, UseAck,
          Noise         \* how many signals may be disturbed without a collision

ASSUME NodeAssumption == NoNode \notin Node /\ All \notin Node
ASSUME LinkAssumption == Link \subseteq Node \X Node /\ \A n \in Node : <<n, n>> \notin Link
ASSUME FlowAssumption ==
    \A f \in Flow : /\ f.type = "DATA"
                    /\ f.from \in Node
                    /\ f.to \in (Node \cup {All}) \ {f.from}
ASSUME FrameAssumption == NoFrame \notin Flow
ASSUME LimitAssumption == RetryLimit \in Nat /\ Noise \in Nat
ASSUME SwitchAssumption == UseAck \in BOOLEAN

VARIABLES
    mac,         \* the MAC of each station
    mode,        \* the mode of its radio: "RX", "TX" (while it transmits), "OFF"
    signal,      \* the frame it transmitted last
    coming,      \* pairs <<n, m>>: n's signal has not reached m yet
    heard,       \* heard[m]: the stations whose signals are at m
    rx,          \* the station whose signal the radio is receiving
    spoiled,     \* that signal was disturbed
    noise,       \* disturbances left
    accepted, delivered, acked, broken   \* what the network layers see

radioVars == <<mode, signal, coming, heard, rx, spoiled, noise>>
netVars == <<accepted, delivered, acked, broken>>
vars == <<mac, radioVars, netVars>>

State == {"IDLE", "DEFER", "WAITDIFS", "BACKOFF", "TRANSMIT", "WAITACK", "RECEIVE",
          "WAITSIFS"}
Timer == {"endDifs", "endBackoff", "endAckTimeout", "endSifs"}

\* An acknowledgement names its receiver, and neither its sender nor what it is for.
Ack == [type : {"ACK"}, to : Node]

\* backoff: backoffPeriod is valid; toAck: the station the frame came from that
\* endSifs carries.
Mac == [fsm : State, cur : Flow \cup {NoFrame}, queue : Seq(Flow), backoff : BOOLEAN,
        retry : 0 .. RetryLimit, timers : SUBSET Timer, toAck : Node \cup {NoNode}]

TypeOK ==
    /\ mac \in [Node -> Mac]
    /\ mode \in [Node -> {"RX", "TX", "OFF"}]
    /\ signal \in [Node -> Flow \cup Ack \cup {NoFrame}]
    /\ coming \subseteq Link
    /\ heard \in [Node -> SUBSET Node]
    /\ rx \in [Node -> Node \cup {NoNode}]
    /\ spoiled \in [Node -> BOOLEAN]
    /\ noise \in 0 .. Noise
    /\ accepted \subseteq Flow
    /\ delivered \subseteq Flow \X Node
    /\ acked \subseteq Flow
    /\ broken \subseteq Flow

Init ==
    /\ mac = [n \in Node |-> [fsm |-> "IDLE", cur |-> NoFrame, queue |-> << >>,
                 backoff |-> FALSE, retry |-> 0, timers |-> {}, toAck |-> NoNode]]
    /\ mode = [n \in Node |-> "RX"]
    /\ signal = [n \in Node |-> NoFrame]
    /\ coming = {}
    /\ heard = [n \in Node |-> {}]
    /\ rx = [n \in Node |-> NoNode]
    /\ spoiled = [n \in Node |-> FALSE]
    /\ noise = Noise
    /\ accepted = {}
    /\ delivered = {}
    /\ acked = {}
    /\ broken = {}

-----------------------------------------------------------------------------
\* Radio

\* Radio::updateTransceiverState for the reception state.
Reception(m, signals, receiving) ==
    IF m # "RX" THEN "UNDEFINED"
    ELSE IF receiving # NoNode THEN "RECEIVING"
    ELSE IF signals # {} THEN "BUSY" ELSE "IDLE"

ReceptionState(n) == Reception(mode[n], heard[n], rx[n])

\* sendDown to a radio that was put in transmitter mode: a reception is aborted.
\* The signal is on its way to everyone in range.  Propagation takes less time than
\* any gap between two transmissions of one station.
Transmit(n, frame) ==
    /\ \A m \in Node : <<n, m>> \notin coming /\ n \notin heard[m]
    /\ mode' = [mode EXCEPT ![n] = "TX"]
    /\ signal' = [signal EXCEPT ![n] = frame]
    /\ coming' = coming \cup {l \in Link : l[1] = n}
    /\ rx' = [rx EXCEPT ![n] = NoNode]
    /\ UNCHANGED <<heard, spoiled, noise>>

-----------------------------------------------------------------------------
\* The state machine.  These operators give the state of a MAC after a transition.

IsBroadcast(f) == f.to = All

With(m, timer) == [m EXCEPT !.timers = @ \cup {timer}]
Without(m, timer) == [m EXCEPT !.timers = @ \ {timer}]

\* scheduleBackoffTimer: the period that is left, or a new one.
EnterBackoff(m) ==
    [With(m, "endBackoff") EXCEPT !.fsm = "BACKOFF", !.backoff = TRUE]

\* A frame to send, in IDLE, or in DEFER when the medium has become free.
Start(m, reception) ==
    IF reception # "IDLE" THEN [m EXCEPT !.fsm = "DEFER"]
    ELSE IF UseAck THEN [With(m, "endDifs") EXCEPT !.fsm = "WAITDIFS"]
    ELSE EnterBackoff(m)

\* Mutant: a reception in progress is not looked for.
ToIdleDeaf(m, reception) ==
    IF m.cur # NoFrame THEN Start(m, reception)
    ELSE IF m.queue # << >>
    THEN Start([m EXCEPT !.cur = Head(m.queue), !.queue = Tail(m.queue)], reception)
    ELSE [m EXCEPT !.fsm = "IDLE"]

\* Mutant: the queue is looked at when the next frame comes from above.
ToIdleLazy(m, reception) ==
    IF reception = "RECEIVING" THEN [m EXCEPT !.fsm = "RECEIVE"]
    ELSE IF m.cur # NoFrame THEN Start(m, reception)
    ELSE [m EXCEPT !.fsm = "IDLE"]

\* What handleWithFsm does after a transition to IDLE.
ToIdle(m, reception) ==
    IF reception = "RECEIVING" THEN [m EXCEPT !.fsm = "RECEIVE"]
    ELSE IF m.cur # NoFrame THEN Start(m, reception)
    ELSE IF m.queue # << >>
    THEN Start([m EXCEPT !.cur = Head(m.queue), !.queue = Tail(m.queue)], reception)
    ELSE [m EXCEPT !.fsm = "IDLE"]

\* mediumStateChange: the radio's reception state is another one than before.
MediumStateChange(m, reception) ==
    CASE reception = "RECEIVING" /\ m.fsm \in {"IDLE", "DEFER", "WAITDIFS", "BACKOFF"} ->
            [m EXCEPT !.fsm = "RECEIVE", !.timers = @ \ {"endDifs", "endBackoff"}]
      [] reception \notin {"RECEIVING", "IDLE"} /\ m.fsm \in {"WAITDIFS", "BACKOFF"} ->
            [m EXCEPT !.fsm = "DEFER", !.timers = @ \ {"endDifs", "endBackoff"}]
      [] reception = "IDLE" /\ m.fsm = "DEFER" -> Start(m, reception)
      [] OTHER -> m

Signalled(m, before, after) == IF before = after THEN m ELSE MediumStateChange(m, after)

\* finishCurrentTransmission, with the timer of WAITACK cancelled or run out.
Finished(m) ==
    [Without(m, "endAckTimeout") EXCEPT !.cur = NoFrame, !.backoff = FALSE, !.retry = 0]

\* retryCurrentTransmission: the next back-off is a new one.
Retried(m) == [Without(m, "endAckTimeout") EXCEPT !.retry = @ + 1, !.backoff = TRUE]

-----------------------------------------------------------------------------
\* Frames from the network layer

\* handleUpperPacket
UpperPacket(f) ==
    LET n == f.from
        m == [mac[n] EXCEPT !.queue = Append(@, f)]
    IN /\ f \in Flow \ accepted
       /\ accepted' = accepted \cup {f}
       /\ mac' = [mac EXCEPT ![n] =
                    IF m.fsm = "IDLE"
                    THEN Start([m EXCEPT !.cur = Head(m.queue), !.queue = Tail(m.queue)],
                               ReceptionState(n))
                    ELSE m]
       /\ UNCHANGED <<radioVars, delivered, acked, broken>>

-----------------------------------------------------------------------------
\* Timers

EndDifs(n) ==
    /\ "endDifs" \in mac[n].timers
    /\ mac' = [mac EXCEPT ![n] = EnterBackoff(Without(@, "endDifs"))]
    /\ UNCHANGED <<radioVars, netVars>>

\* Start-Transmit: sendDataFrame.
EndBackoff(n) ==
    /\ "endBackoff" \in mac[n].timers
    /\ mac' = [mac EXCEPT ![n] =
                 [Without(@, "endBackoff") EXCEPT !.fsm = "TRANSMIT", !.backoff = FALSE]]
    /\ Transmit(n, mac[n].cur)
    /\ UNCHANGED netVars

\* sendAckFrame, in transmitter mode before the state machine is in IDLE.
EndSifs(n) ==
    /\ "endSifs" \in mac[n].timers
    /\ mac' = [mac EXCEPT ![n] =
                 ToIdle([Without(@, "endSifs") EXCEPT !.toAck = NoNode], "UNDEFINED")]
    /\ Transmit(n, [type |-> "ACK", to |-> mac[n].toAck])
    /\ UNCHANGED netVars

\* ackTimeout is measured from the end of the data frame and includes the gap, the
\* acknowledgement and twice the propagation: it outlasts an answer in the making.
AnswerUnderway(n) ==
    \E m \in Node : \/ n \in heard[m] \/ <<n, m>> \in coming
                    \/ mac[m].toAck = n
                    \/ /\ <<m, n>> \in coming \/ m \in heard[n]
                       /\ signal[m] = [type |-> "ACK", to |-> n]

AckTimesOut(n) == "endAckTimeout" \in mac[n].timers /\ ~AnswerUnderway(n)

GiveUpTransmission(n) ==
    /\ AckTimesOut(n)
    /\ mac[n].retry = RetryLimit
    /\ broken' = broken \cup {mac[n].cur}
    /\ mac' = [mac EXCEPT ![n] = ToIdle(Finished(@), ReceptionState(n))]
    /\ UNCHANGED <<radioVars, accepted, delivered, acked>>

\* Mutant: the retry limit is not looked at.
RetryAlways(n) ==
    /\ AckTimesOut(n)
    /\ mac' = [mac EXCEPT ![n] = ToIdle(Retried(@), ReceptionState(n))]
    /\ UNCHANGED <<radioVars, netVars>>

\* Mutant: the frame goes to the end of the queue.
RetryLater(n) ==
    /\ AckTimesOut(n)
    /\ mac[n].retry # RetryLimit
    /\ mac' = [mac EXCEPT ![n] =
                 ToIdle([Retried(@) EXCEPT !.cur = NoFrame,
                                           !.queue = Append(@, mac[n].cur)],
                        ReceptionState(n))]
    /\ UNCHANGED <<radioVars, netVars>>

RetryTransmission(n) ==
    /\ AckTimesOut(n)
    /\ mac[n].retry # RetryLimit
    /\ mac' = [mac EXCEPT ![n] = ToIdle(Retried(@), ReceptionState(n))]
    /\ UNCHANGED <<radioVars, netVars>>

-----------------------------------------------------------------------------
\* Signals

\* Radio::startReception at m: the signal of n is received if the radio listens and
\* receives nothing else.  What is received may be spoiled by a signal that overlaps,
\* or by noise.
SignalStarts(n, m) ==
    LET attempted == mode[m] = "RX" /\ rx[m] = NoNode
    IN /\ <<n, m>> \in coming
       /\ coming' = coming \ {<<n, m>>}
       /\ heard' = [heard EXCEPT ![m] = @ \cup {n}]
       /\ rx' = IF attempted THEN [rx EXCEPT ![m] = n] ELSE rx
       /\ \/ /\ spoiled' = [spoiled EXCEPT ![m] = @ /\ ~attempted]
             /\ UNCHANGED noise
          \/ /\ mode[m] = "RX" /\ heard[m] # {}
             /\ spoiled' = [spoiled EXCEPT ![m] = TRUE]
             /\ UNCHANGED noise
          \/ /\ attempted /\ noise > 0
             /\ spoiled' = [spoiled EXCEPT ![m] = TRUE]
             /\ noise' = noise - 1
       /\ mac' = [mac EXCEPT ![m] = Signalled(@, ReceptionState(m),
                                        Reception(mode[m], heard'[m], rx'[m]))]
       /\ UNCHANGED <<mode, signal, netVars>>

\* Radio::endReception at m of the signal of n, which has left n's transmitter.
SignalEnds(n, m) ==
    /\ n \in heard[m]
    /\ mode[n] # "TX"
    /\ heard' = [heard EXCEPT ![m] = @ \ {n}]
    /\ rx' = [rx EXCEPT ![m] = IF @ = n THEN NoNode ELSE @]
    /\ UNCHANGED <<mode, signal, coming, spoiled, noise>>

AfterEnd(m) == Reception(mode[m], heard'[m], rx'[m])

\* The MAC learns that the medium changed before it gets the frame.
Informed(m) == Signalled(mac[m], ReceptionState(m), AfterEnd(m))

\* A frame the state machine has no use for: none was received, or the MAC waits for
\* an acknowledgement or for the gap before one, whatever the frame is.
EndUnused(n, m) ==
    /\ SignalEnds(n, m)
    /\ rx[m] = n =>
          \/ mac[m].fsm \notin {"RECEIVE", "WAITACK"}
          \/ mac[m].fsm = "WAITACK" /\ (spoiled[m] \/ signal[n] # [type |-> "ACK", to |-> m])
    /\ mac' = [mac EXCEPT ![m] = Informed(m)]
    /\ UNCHANGED netVars

\* Mutant: any acknowledgement counts.
BelievesAny(n, m) == ~spoiled[m] /\ signal[n].type = "ACK"

\* isFcsOk, isForUs and isAck
Believes(n, m) == ~spoiled[m] /\ signal[n] = [type |-> "ACK", to |-> m]

ReceiveAck(n, m) ==
    /\ SignalEnds(n, m)
    /\ rx[m] = n
    /\ mac[m].fsm = "WAITACK"
    /\ Believes(n, m)
    /\ acked' = acked \cup {mac[m].cur}
    /\ mac' = [mac EXCEPT ![m] = ToIdle(Finished(Informed(m)), AfterEnd(m))]
    /\ UNCHANGED <<accepted, delivered, broken>>

ForUs(f, m) == f.type = "DATA" /\ f.to \in {m, All}

\* Receive-Bit-Error, Receive-Unexpected-Ack, Receive-Unicast-Not-For-Us
ReceiveNothing(n, m) ==
    /\ SignalEnds(n, m)
    /\ rx[m] = n
    /\ mac[m].fsm = "RECEIVE"
    /\ spoiled[m] \/ ~ForUs(signal[n], m)
    /\ mac' = [mac EXCEPT ![m] = ToIdle(Informed(m), AfterEnd(m))]
    /\ UNCHANGED netVars

\* Receive-Broadcast, Receive-Unicast-No-Ack, Receive-Unicast-Use-Ack
ReceiveData(n, m) ==
    /\ SignalEnds(n, m)
    /\ rx[m] = n
    /\ mac[m].fsm = "RECEIVE"
    /\ ~spoiled[m]
    /\ ForUs(signal[n], m)
    /\ delivered' = delivered \cup {<<signal[n], m>>}
    /\ mac' = [mac EXCEPT ![m] =
                 IF UseAck /\ ~IsBroadcast(signal[n])
                 THEN [With(Informed(m), "endSifs") EXCEPT !.fsm = "WAITSIFS",
                                                           !.toAck = signal[n].from]
                 ELSE ToIdle(Informed(m), AfterEnd(m))]
    /\ UNCHANGED <<accepted, acked, broken>>

\* The radio ends its transmission: endData, then the radio is put in receiver mode,
\* which tells the MAC what the medium is like.  Every signal has arrived by then.
EndTransmission(n) ==
    /\ mode[n] = "TX"
    /\ \A m \in Node : <<n, m>> \notin coming
    /\ mode' = [mode EXCEPT ![n] = "RX"]
    /\ UNCHANGED <<signal, coming, heard, rx, spoiled, noise, netVars>>

BackInReceiverMode(n, m) == MediumStateChange(m, Reception("RX", heard[n], NoNode))

\* Transmit-Broadcast, Transmit-Unicast-No-Ack
TransmitUnacknowledged(n) ==
    /\ EndTransmission(n)
    /\ mac[n].fsm = "TRANSMIT"
    /\ IsBroadcast(mac[n].cur) \/ ~UseAck
    /\ mac' = [mac EXCEPT ![n] =
                 BackInReceiverMode(n, ToIdle(Finished(@), "UNDEFINED"))]

\* Transmit-Unicast-Use-Ack
TransmitUnicast(n) ==
    /\ EndTransmission(n)
    /\ mac[n].fsm = "TRANSMIT"
    /\ ~IsBroadcast(mac[n].cur) /\ UseAck
    /\ mac' = [mac EXCEPT ![n] = [With(@, "endAckTimeout") EXCEPT !.fsm = "WAITACK"]]

\* An acknowledgement was transmitted: the state machine has gone on meanwhile.
AckTransmitted(n) ==
    /\ EndTransmission(n)
    /\ mac[n].fsm # "TRANSMIT"
    /\ mac' = [mac EXCEPT ![n] = BackInReceiverMode(n, @)]

-----------------------------------------------------------------------------
MacStep(n) ==
    \/ EndDifs(n)
    \/ EndBackoff(n)
    \/ EndSifs(n)
    \/ GiveUpTransmission(n)
    \/ RetryTransmission(n)
    \/ TransmitUnacknowledged(n)
    \/ TransmitUnicast(n)
    \/ AckTransmitted(n)

Receives(n, m) ==
    \/ EndUnused(n, m)
    \/ ReceiveAck(n, m)
    \/ ReceiveNothing(n, m)
    \/ ReceiveData(n, m)

SignalStep(n, m) == SignalStarts(n, m) \/ Receives(n, m)

Next ==
    \/ \E f \in Flow : UpperPacket(f)
    \/ \E n \in Node : MacStep(n)
    \/ \E n, m \in Node : SignalStep(n, m)

Spec == Init /\ [][Next]_vars

\* The simulator runs every event it has scheduled: timers and signals.  Nothing
\* makes the network layer send.
Fairness ==
    /\ \A n \in Node : WF_vars(MacStep(n))
    /\ \A n, m \in Node : WF_vars(SignalStep(n, m))

FairSpec == Spec /\ Fairness

-----------------------------------------------------------------------------
\* Safety

\* Whatever state a MAC is in, the event that takes it out is on its way: the timer
\* of the state and no other, a transmission or a reception of the radio, or a medium
\* that is not free (handleWithFsm together with what Radio signals to it).
Awaited(n) ==
    LET m == mac[n]
    IN CASE m.fsm = "IDLE" -> m.cur = NoFrame /\ m.queue = << >>
         [] m.fsm = "DEFER" -> ReceptionState(n) \in {"UNDEFINED", "BUSY"}
         [] m.fsm = "WAITDIFS" -> m.timers = {"endDifs"}
         [] m.fsm = "BACKOFF" -> m.timers = {"endBackoff"}
         [] m.fsm = "TRANSMIT" -> mode[n] = "TX"
         [] m.fsm = "WAITACK" -> m.timers = {"endAckTimeout"}
         [] m.fsm = "RECEIVE" -> rx[n] # NoNode
         [] m.fsm = "WAITSIFS" -> m.timers = {"endSifs"}
NeverStuck == \A n \in Node : Awaited(n)

\* A frame that counts as acknowledged did reach the station it was for, although an
\* acknowledgement says neither what it acknowledges nor who sent it
\* (sendAckFrame, Receive-Ack).
AckMeansDelivered == \A f \in acked : <<f, f.to>> \in delivered

\* Every unicast frame that was accepted is acknowledged in the end or reported
\* broken (giveUpCurrentTransmission), whoever else transmits.
EveryFrameSettled ==
    \A f \in {g \in Flow : g.to # All} : f \in accepted ~> f \in acked \cup broken
-----------------------------------------------------------------------------
\* Refinement

\* The frames of a station that are not settled: the current one and the queue.
Pending(n) ==
    (IF mac[n].cur = NoFrame THEN << >> ELSE << mac[n].cur >>) \o mac[n].queue

Promise == INSTANCE Hop WITH pending <- [n \in Node |-> Pending(n)]

\* The stations keep what a hop promises: frames arrive in the order in which they were
\* accepted, and only while their sender still answers for them; what is acknowledged
\* has arrived.  All that although there are no sequence numbers to tell one frame
\* from another.  (For stations that use acknowledgements.)
HopSpec == Promise!Spec
=============================================================================
