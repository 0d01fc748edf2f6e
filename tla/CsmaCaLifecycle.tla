-------------------------- MODULE CsmaCaLifecycle --------------------------
(***************************************************************************)
(* CsmaCaMac with stations that are shut down or crash, and start again    *)
(* (handleStopOperation and handleCrashOperation of CsmaCaMac,             *)
(* MacProtocolBase and Radio; OperationalMixinImpl.h).  In both operations *)
(* the MAC goes first and the radio after it, in one event.                *)
(***************************************************************************)
EXTENDS CsmaCaMac

CONSTANT Outages      \* how often a station goes down

VARIABLES
    up,          \* the stations that are up
    outages,
    failed       \* an assertion or a runtime error has ended the simulation

lifeVars == <<up, outages, failed>>

LifeInit == Init /\ up = Node /\ outages = Outages /\ failed = FALSE

\* What the MAC forgets: the frames, the back-off and the retries.  The state machine
\* and its timers stay as they are.
Forgotten(m) == [m EXCEPT !.cur = NoFrame, !.queue = << >>, !.backoff = FALSE, !.retry = 0]

\* The radio is put in receiver mode when it aborts a transmission, gives up what it
\* receives, and goes off; each change runs the state machine of the MAC that is down.
Silenced(n, m) ==
    LET aborted == IF mode[n] = "TX" THEN BackInReceiverMode(n, m)
                   ELSE Signalled(m, ReceptionState(n), Reception("RX", heard[n], NoNode))
    IN MediumStateChange(aborted, "UNDEFINED")

\* endData in TRANSMIT asks for a current frame that is gone (getCurrentTransmission);
\* leaving BACKOFF takes time from a period that is invalid (decreaseBackoffPeriod).
FailsToStop(n) == mac[n].fsm \in {"TRANSMIT", "BACKOFF"}

GoDown(n) ==
    /\ n \in up /\ outages > 0
    /\ up' = up \ {n}
    /\ outages' = outages - 1
    /\ failed' = FailsToStop(n)
    /\ mac' = [mac EXCEPT ![n] = Silenced(n, Forgotten(@))]
    /\ mode' = [mode EXCEPT ![n] = "OFF"]
    /\ rx' = [rx EXCEPT ![n] = NoNode]
    /\ UNCHANGED <<signal, coming, heard, spoiled, noise, netVars>>

\* handleStartOperation: the radio starts in its initial mode, which is "off", and
\* nothing puts it in receiver mode (CsmaCaMac does so when the module is created).
GoUp(n) ==
    /\ n \notin up
    /\ up' = up \cup {n}
    /\ UNCHANGED <<vars, outages, failed>>

\* A timer that was left fires in a MAC that is down (handleMessageWhenDown), or finds
\* no current frame once the MAC is up again.
StaleTimer(n) ==
    /\ mac[n].timers # {}
    /\ n \notin up \/ (mac[n].cur = NoFrame /\ "endAckTimeout" \in mac[n].timers)
    /\ failed' = TRUE
    /\ UNCHANGED <<vars, up, outages>>

LifeNext ==
    /\ ~failed
    /\ \/ /\ \/ \E f \in Flow : f.from \in up /\ UpperPacket(f)
             \/ \E n \in up : MacStep(n) /\ ~("endAckTimeout" \in mac[n].timers
                                              /\ mac[n].cur = NoFrame)
             \/ \E n, m \in Node : SignalStep(n, m)
          /\ UNCHANGED lifeVars
       \/ \E n \in Node : GoDown(n) \/ GoUp(n) \/ StaleTimer(n)

LifeSpec == LifeInit /\ [][LifeNext]_<<vars, lifeVars>>

\* Stations go down and come up at any moment without an error, as "while down, network
\* interfaces, and components in general, ignore (discard) messages sent to them" and
\* MACs "reset their state associated with the current transmission(s)"
\* (ch-lifecycle.rst), and as the assertions of CsmaCaMac.cc demand.
NoRuntimeError == ~failed
=============================================================================
