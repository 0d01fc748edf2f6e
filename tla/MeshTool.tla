------------------------------ MODULE MeshTool ------------------------------
(***************************************************************************)
(* Neighbour discovery of the rover mesh: one program that calls           *)
(* meshTool.meshHello (src/Network/Python/TOC-Mesh.py) up to MaxRounds     *)
(* times, and the stations that answer its multicast HELLO the way         *)
(* src/Network/Python/sampleMultiCastClient.py does.                       *)
(*                                                                         *)
(* Names, addresses and ports of a reply are abstracted to the station     *)
(* that sent it.  UDP may lose a HELLO or a reply and delays both at will; *)
(* a reply that arrives after the socket was closed is gone, because the   *)
(* next call opens a socket on another port.                               *)
(***************************************************************************)
EXTENDS Naturals, FiniteSets

CONSTANTS Station,     \* the stations that run the responder loop
          Width,       \* w: the columns of neighborArray
          MaxRounds,   \* bound: how often the program calls meshHello
          Nobody       \* the 0 neighborArray is initialised with

ASSUME WidthAssumption == Width \in Nat \ {0}
ASSUME RoundsAssumption == MaxRounds \in Nat
ASSUME NobodyAssumption == Nobody \notin Station

VARIABLES phase,            \* where the program is in meshHello
          neighborArray,    \* a column is the reply stored in its three rows
          neighborCounter,  \* the next free column, shared by all calls
          hello,            \* stations the current HELLO is on its way to
          reply,            \* stations whose reply to it is on its way back
          round,            \* calls of meshHello so far
          answered          \* answered[s]: replies station s has sent

vars == <<phase, neighborArray, neighborCounter, hello, reply, round, answered>>

Column == 0 .. Width - 1

TypeOK ==
    /\ phase \in {"idle", "waiting", "raised"}
    /\ neighborArray \in [Column -> Station \cup {Nobody}]
    /\ neighborCounter \in 0 .. Width
    /\ hello \subseteq Station
    /\ reply \subseteq Station
    /\ round \in 0 .. MaxRounds
    /\ answered \in [Station -> 0 .. MaxRounds]

Init ==
    /\ phase = "idle"
    /\ neighborArray = [c \in Column |-> Nobody]
    /\ neighborCounter = 0
    /\ hello = {}
    /\ reply = {}
    /\ round = 0
    /\ answered = [s \in Station |-> 0]

\* meshHello up to its receive loop: the HELLO goes to the multicast group.
MeshHello ==
    /\ phase = "idle"
    /\ round < MaxRounds
    /\ phase' = "waiting"
    /\ round' = round + 1
    /\ hello' = Station
    /\ reply' = {}
    /\ UNCHANGED <<neighborArray, neighborCounter, answered>>

\* The responder loop: one reply for every HELLO received.
Respond(s) ==
    /\ s \in hello
    /\ hello' = hello \ {s}
    /\ reply' = IF phase = "waiting" THEN reply \cup {s} ELSE reply
    /\ answered' = [answered EXCEPT ![s] = @ + 1]
    /\ UNCHANGED <<phase, neighborArray, neighborCounter, round>>

LoseHello(s) ==
    /\ s \in hello
    /\ hello' = hello \ {s}
    /\ UNCHANGED <<phase, neighborArray, neighborCounter, reply, round, answered>>

LoseReply(s) ==
    /\ s \in reply
    /\ reply' = reply \ {s}
    /\ UNCHANGED <<phase, neighborArray, neighborCounter, hello, round, answered>>

\* Mutant: the last column is mistaken for one more than there is.
AddHostPastEnd(s) ==
    /\ phase = "waiting"
    /\ s \in reply
    /\ neighborCounter <= Width
    /\ neighborArray' = [c \in Column |-> IF c = neighborCounter THEN s ELSE neighborArray[c]]
    /\ neighborCounter' = neighborCounter + 1
    /\ reply' = reply \ {s}
    /\ UNCHANGED <<phase, hello, round, answered>>

\* Mutant: the reply is read and stays in the socket.
AddHostPeek(s) ==
    /\ phase = "waiting"
    /\ s \in reply
    /\ neighborCounter < Width
    /\ neighborArray' = [neighborArray EXCEPT ![neighborCounter] = s]
    /\ neighborCounter' = neighborCounter + 1
    /\ UNCHANGED <<phase, hello, reply, round, answered>>

\* Mutant: the counter is not counted up.
AddHostUncounted(s) ==
    /\ phase = "waiting"
    /\ s \in reply
    /\ neighborCounter < Width
    /\ neighborArray' = [neighborArray EXCEPT ![neighborCounter] = s]
    /\ reply' = reply \ {s}
    /\ UNCHANGED <<phase, neighborCounter, hello, round, answered>>

\* addHost with a column left: the reply is appended, known station or not.
AddHost(s) ==
    /\ phase = "waiting"
    /\ s \in reply
    /\ neighborCounter < Width
    /\ neighborArray' = [neighborArray EXCEPT ![neighborCounter] = s]
    /\ neighborCounter' = neighborCounter + 1
    /\ reply' = reply \ {s}
    /\ UNCHANGED <<phase, hello, round, answered>>

\* addHost with no column left: the first store raises IndexError, which
\* leaves meshHello through its finally clause and ends the program.
AddHostRaises(s) ==
    /\ phase = "waiting"
    /\ s \in reply
    /\ neighborCounter = Width
    /\ phase' = "raised"
    /\ reply' = {}
    /\ UNCHANGED <<neighborArray, neighborCounter, hello, round, answered>>

\* Mutant: the time-out does not leave the loop.
TimedOutStays ==
    /\ phase = "waiting"
    /\ UNCHANGED vars

\* socket.timeout: nothing arrived for the time-out; the table is displayed
\* and the socket closed.
TimedOut ==
    /\ phase = "waiting"
    /\ phase' = "idle"
    /\ reply' = {}
    /\ UNCHANGED <<neighborArray, neighborCounter, hello, round, answered>>

Next ==
    \/ MeshHello
    \/ TimedOut
    \/ \E s \in Station :
          Respond(s) \/ LoseHello(s) \/ LoseReply(s) \/ AddHost(s) \/ AddHostRaises(s)

\* recvfrom returns a reply that is there, and times out when none comes any
\* more; nothing is assumed of the stations or of the network.
Fairness ==
    /\ WF_vars(reply = {} /\ TimedOut)
    /\ \A s \in Station : WF_vars(AddHost(s) \/ AddHostRaises(s))

Spec == Init /\ [][Next]_vars /\ Fairness

-----------------------------------------------------------------------------
Rows(s) == {c \in Column : neighborArray[c] = s}

\* The table never lists a station more often than the station has answered:
\* across calls that share the class-level array, lost packets and late
\* replies, no row is invented and no reply is stored twice (addHost, the
\* receive loop of meshHello).
OneRowPerReply ==
    \A s \in Station :
       Cardinality(Rows(s)) + (IF s \in reply THEN 1 ELSE 0) <= answered[s]

\* What displayHosts prints is exactly the filled part of the table: the shared
\* counter and the array never disagree, also after a call that raised.
CounterMatchesTable ==
    {c \in Column : neighborArray[c] # Nobody} = {c \in Column : c < neighborCounter}

\* A call of meshHello ends, with the time-out or with an exception, although
\* every reply re-arms the time-out (the while loop of meshHello).
HelloEnds == phase = "waiting" ~> phase # "waiting"

\* "Look for responses from all recipients" (the comment on the receive loop):
\* no reply makes the program stop looking.
LooksForAllResponses == phase # "raised"
=============================================================================
