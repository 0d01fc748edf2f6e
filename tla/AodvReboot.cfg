\* A router restarts at any moment, with Hello messages, gratuitous replies and the
\* once-a-second counters.
SPECIFICATION Spec
CONSTANTS
    Node = {a, b, c}
    a = a
    b = b
    c = c
    NoNode = none
    All = all
    Link <- Line
    Flow <- TwoInARow
    Budget <- RebootAndHello
    TtlStart = 2
    TtlIncrement = 1
    TtlThreshold = 2
    NetDiameter = 2
    RreqRetries = 1
    RreqRatelimit = 5
    RerrRatelimit = 5
    DestinationOnly = FALSE
    AskGratuitousRREP = TRUE
    UseHelloMessages = TRUE
    Prompt = TRUE
INVARIANTS NextHopAdjacent HopCountSound NoRrepAckSent
CHECK_DEADLOCK FALSE
