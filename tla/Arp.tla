--------------------------------- MODULE Arp ---------------------------------
(***************************************************************************)
(* Address resolution: the Arp modules of hosts on one broadcast link and  *)
(* the packets that wait for them in Ipv4 (Arp.cc; pendingPackets in       *)
(* Ipv4.cc).  Arp reports to Ipv4 by signals, which are procedure calls.   *)
(*                                                                         *)
(* Each host has one interface, one IPv4 address and a MAC address that    *)
(* does not change; so a host stands for its addresses, and proxy ARP,     *)
(* which needs a second interface, has no part in it.                      *)
(***************************************************************************)
EXTENDS Naturals, Sequences, Bags, BagsExt

CONSTANTS Host,
          Flow,         \* pairs <<h, x>>: h sends packets whose next hop is x
          Packets,      \* how many of each
          RetryCount,
          Setbacks,     \* how many ARP packets may be lost or too late
          Outages       \* how often a host may stop or crash

ASSUME FlowAssumption == Flow \subseteq Host \X Host /\ \A h \in Host : <<h, h>> \notin Flow
ASSUME BoundAssumption == Packets \in [Flow -> Nat] /\ Setbacks \in Nat /\ Outages \in Nat
ASSUME RetryAssumption == RetryCount \in Nat \ {0}

VARIABLES
    arpCache,       \* Arp: arpCache[h][x]
    pendingPackets, \* Ipv4: the packets of h that wait for the address of x
    sent,           \* those that were handed to the interface
    dropped,        \* the pairs <<h, x>> for which packets were dropped
    handed,         \* how many packets h was given for x
    net,            \* the ARP packets on the link
    up,
    setbacks, outages

ipVars == <<pendingPackets, sent, dropped, handed>>
faultVars == <<up, setbacks, outages>>
vars == <<arpCache, ipVars, net, faultVars>>

\* expired: older than cacheTimeout; timer: a self message of the entry is scheduled.
Entry == [state : {"none", "pending", "valid", "expired"}, numRetries : 0 .. (RetryCount - 1),
          timer : BOOLEAN]

NoEntry == [state |-> "none", numRetries |-> 0, timer |-> FALSE]

Message == [type : {"request", "reply"}, from : Host, at : Host, target : Host]

TypeOK ==
    /\ arpCache \in [Host -> [Host -> Entry]]
    /\ pendingPackets \in [Host -> [Host -> Seq(Nat)]]
    /\ sent \in [Host -> [Host -> Seq(Nat)]]
    /\ dropped \subseteq Host \X Host
    /\ handed \in [Host -> [Host -> Nat]]
    /\ BagToSet(net) \subseteq Message
    /\ up \subseteq Host
    /\ setbacks \in 0 .. Setbacks
    /\ outages \in 0 .. Outages

Init ==
    /\ arpCache = [h \in Host |-> [x \in Host |-> NoEntry]]
    /\ pendingPackets = [h \in Host |-> [x \in Host |-> << >>]]
    /\ sent = [h \in Host |-> [x \in Host |-> << >>]]
    /\ dropped = {}
    /\ handed = [h \in Host |-> [x \in Host |-> 0]]
    /\ net = EmptyBag
    /\ up = Host
    /\ setbacks = Setbacks
    /\ outages = Outages

-----------------------------------------------------------------------------
\* sendArpRequest: a broadcast, one copy for each of the others.
Requests(h, x) ==
    SetToBag({[type |-> "request", from |-> h, at |-> r, target |-> x] : r \in Host \ {h}})

\* initiateArpResolution
Initiated == [state |-> "pending", numRetries |-> 0, timer |-> TRUE]

\* Ipv4::sendDatagramToOutput with Arp::resolveL3Address: a packet of h for x.
SendDatagramToOutput(h, x) ==
    LET packet == handed[h][x] + 1
        entry == arpCache[h][x]
    IN /\ h \in up
       /\ <<h, x>> \in Flow
       /\ packet <= Packets[<<h, x>>]
       /\ handed' = [handed EXCEPT ![h][x] = packet]
       /\ \/ /\ entry.state \in {"none", "expired"}
             /\ arpCache' = [arpCache EXCEPT ![h][x] = Initiated]
             /\ net' = net (+) Requests(h, x)
             /\ pendingPackets' = [pendingPackets EXCEPT ![h][x] = Append(@, packet)]
             /\ UNCHANGED sent
          \/ /\ entry.state = "pending"
             /\ pendingPackets' = [pendingPackets EXCEPT ![h][x] = Append(@, packet)]
             /\ UNCHANGED <<arpCache, net, sent>>
          \/ /\ entry.state = "valid"
             /\ sent' = [sent EXCEPT ![h][x] = Append(@, packet)]
             /\ UNCHANGED <<arpCache, net, pendingPackets>>
       /\ UNCHANGED <<dropped, faultVars>>

\* An ARP packet on its way that could end h's resolution of x.
AnswerUnderway(h, x) ==
    \E m \in BagToSet(net) :
        \/ m.from = x /\ m.at = h
        \/ m.from = h /\ m.at = x /\ m.type = "request" /\ m.target = x

\* A retryTimeout that runs out under way costs a setback: the answer is late.
TooLate(h, x) ==
    IF AnswerUnderway(h, x) THEN setbacks > 0 /\ setbacks' = setbacks - 1
    ELSE UNCHANGED setbacks

\* Mutant: the number of attempts has no limit.
ResendAlways(h, x) ==
    /\ arpCache[h][x].timer
    /\ TooLate(h, x)
    /\ arpCache' = [arpCache EXCEPT ![h][x].numRetries = @ + 1]
    /\ net' = net (+) Requests(h, x)
    /\ UNCHANGED <<ipVars, up, outages>>

\* Mutant: the timer is not scheduled again.
ResendOnce(h, x) ==
    LET entry == arpCache[h][x]
    IN /\ entry.timer
       /\ TooLate(h, x)
       /\ entry.numRetries + 1 < RetryCount
       /\ arpCache' = [arpCache EXCEPT ![h][x].numRetries = @ + 1, ![h][x].timer = FALSE]
       /\ net' = net (+) Requests(h, x)
       /\ UNCHANGED <<ipVars, up, outages>>

\* requestTimedOut
Resend(h, x) ==
    LET entry == arpCache[h][x]
    IN /\ entry.timer
       /\ TooLate(h, x)
       /\ entry.numRetries + 1 < RetryCount
       /\ arpCache' = [arpCache EXCEPT ![h][x].numRetries = @ + 1]
       /\ net' = net (+) Requests(h, x)
       /\ UNCHANGED <<ipVars, up, outages>>

\* Mutant: the first attempt is not counted.
FailsEarly(h, x) ==
    LET entry == arpCache[h][x]
    IN /\ entry.timer
       /\ TooLate(h, x)
       /\ entry.numRetries + 2 >= RetryCount
       /\ arpCache' = [arpCache EXCEPT ![h][x] = NoEntry]
       /\ pendingPackets' = [pendingPackets EXCEPT ![h][x] = << >>]
       /\ dropped' = IF pendingPackets[h][x] = << >> THEN dropped
                     ELSE dropped \cup {<<h, x>>}
       /\ UNCHANGED <<sent, handed, net, up, outages>>

\* ... and arpResolutionTimedOut in Ipv4, which drops what waited.
ResolutionFails(h, x) ==
    LET entry == arpCache[h][x]
    IN /\ entry.timer
       /\ TooLate(h, x)
       /\ entry.numRetries + 1 >= RetryCount
       /\ arpCache' = [arpCache EXCEPT ![h][x] = NoEntry]
       /\ pendingPackets' = [pendingPackets EXCEPT ![h][x] = << >>]
       /\ dropped' = IF pendingPackets[h][x] = << >> THEN dropped
                     ELSE dropped \cup {<<h, x>>}
       /\ UNCHANGED <<sent, handed, net, up, outages>>

-----------------------------------------------------------------------------
\* Mutant: Ipv4 is not told.
UpdateArpCacheQuietly(r, x) ==
    /\ arpCache' = [arpCache EXCEPT ![r][x] =
                       [state |-> "valid", numRetries |-> 0, timer |-> FALSE]]
    /\ UNCHANGED ipVars

\* updateArpCache for what r knows of x, and arpResolutionCompleted in Ipv4, which
\* sends what waited.
UpdateArpCache(r, x) ==
    /\ arpCache' = [arpCache EXCEPT ![r][x] =
                       [state |-> "valid", numRetries |-> 0, timer |-> FALSE]]
    /\ sent' = [sent EXCEPT ![r][x] = @ \o pendingPackets[r][x]]
    /\ pendingPackets' = [pendingPackets EXCEPT ![r][x] = << >>]
    /\ UNCHANGED <<dropped, handed>>

\* processArpPacket.  A host that is not the target updates an entry that it has.
ProcessArpPacket(m) ==
    LET reply == [type |-> "reply", from |-> m.at, at |-> m.from, target |-> m.from]
        rest == BagRemove(net, m)
    IN /\ BagIn(m, net)
       /\ m.at \in up
       /\ IF m.target = m.at \/ arpCache[m.at][m.from].state # "none"
          THEN UpdateArpCache(m.at, m.from)
          ELSE UNCHANGED <<arpCache, ipVars>>
       /\ net' = IF m.target = m.at /\ m.type = "request" THEN BagAdd(rest, reply) ELSE rest
       /\ UNCHANGED faultVars

\* A radio that is off receives nothing.
MissedArpPacket(m) ==
    /\ BagIn(m, net)
    /\ m.at \notin up
    /\ net' = BagRemove(net, m)
    /\ UNCHANGED <<arpCache, ipVars, faultVars>>

LostArpPacket(m) ==
    /\ BagIn(m, net)
    /\ setbacks > 0
    /\ setbacks' = setbacks - 1
    /\ net' = BagRemove(net, m)
    /\ UNCHANGED <<arpCache, ipVars, up, outages>>

-----------------------------------------------------------------------------
\* cacheTimeout has passed since lastUpdate.
Expire(h, x) ==
    /\ arpCache[h][x].state = "valid"
    /\ arpCache' = [arpCache EXCEPT ![h][x].state = "expired"]
    /\ UNCHANGED <<ipVars, net, faultVars>>

\* Mutant: only Arp is flushed.
GoDownHalf(h) ==
    /\ h \in up /\ outages > 0
    /\ up' = up \ {h}
    /\ outages' = outages - 1
    /\ arpCache' = [arpCache EXCEPT ![h] = [x \in Host |-> NoEntry]]
    /\ UNCHANGED <<ipVars, net, setbacks>>

\* Arp::flush and Ipv4::flush, in one event when the host stops or crashes.
GoDown(h) ==
    /\ h \in up /\ outages > 0
    /\ up' = up \ {h}
    /\ outages' = outages - 1
    /\ arpCache' = [arpCache EXCEPT ![h] = [x \in Host |-> NoEntry]]
    /\ pendingPackets' = [pendingPackets EXCEPT ![h] = [x \in Host |-> << >>]]
    /\ UNCHANGED <<sent, dropped, handed, net, setbacks>>

\* handleStartOperation asserts that the cache is empty.
GoUp(h) ==
    /\ h \notin up
    /\ up' = up \cup {h}
    /\ UNCHANGED <<arpCache, ipVars, net, setbacks, outages>>

-----------------------------------------------------------------------------
Times(h, x) == Resend(h, x) \/ ResolutionFails(h, x)

Arrives(m) == ProcessArpPacket(m) \/ MissedArpPacket(m)

Next ==
    \/ \E h, x \in Host : SendDatagramToOutput(h, x) \/ Times(h, x) \/ Expire(h, x)
    \/ \E m \in BagToSet(net) : Arrives(m) \/ LostArpPacket(m)
    \/ \E h \in Host : GoDown(h) \/ GoUp(h)

Spec == Init /\ [][Next]_vars

\* The simulator runs the timers, and each interface hands up what is on the link.
Fairness ==
    /\ \A f \in Flow : WF_vars(Times(f[1], f[2]))
    /\ \A r \in Host : WF_vars(\E m \in BagToSet(net) : m.at = r /\ Arrives(m))

FairSpec == Spec /\ Fairness

-----------------------------------------------------------------------------
\* Safety

\* Packets wait only while a resolution is in progress and its timer runs, in a host that
\* is up: two modules agree on what waits for what (ASSERT2 in
\* Ipv4::sendDatagramToOutput, the signals, both flushes, ASSERT in
\* Arp::handleStartOperation).
WaitingMeansPending ==
    \A h, x \in Host :
        /\ arpCache[h][x].timer <=> arpCache[h][x].state = "pending"
        /\ pendingPackets[h][x] # << >> => arpCache[h][x].state = "pending"
        /\ h \notin up => arpCache[h][x] = NoEntry

\* Packets for a next hop leave in the order in which they were handed over, those that
\* waited and those that did not, whatever becomes of the resolutions between them.
InOrder ==
    \A h, x \in Host :
        LET all == sent[h][x] \o pendingPackets[h][x]
        IN \A i, j \in 1 .. Len(all) : i < j => all[i] < all[j]

\* A resolution that fails has met RetryCount setbacks, or a host that went down: with
\* fewer lost or late ARP packets no packet is dropped (requestTimedOut).
FailuresHaveCauses ==
    dropped # {} => outages # Outages \/ Setbacks - setbacks >= RetryCount

\* Whatever waits is sent in the end, or dropped with a report.
NothingWaitsForever ==
    \A f \in Flow : pendingPackets[f[1]][f[2]] # << >> ~> pendingPackets[f[1]][f[2]] = << >>
=============================================================================
