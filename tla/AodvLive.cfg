\* Two discoveries that cross on a line, one frame or acknowledgement lost; only
\* destinations answer requests.
SPECIFICATION FairSpec
CONSTANTS
    Node = {a, b, c}
    a = a
    b = b
    c = c
    NoNode = none
    All = all
    Link <- Line
    Flow <- TwoFlows
    Budget <- OneLoss
    TtlStart = 1
    TtlIncrement = 1
    TtlThreshold = 2
    NetDiameter = 2
    RreqRetries = 1
    RreqRatelimit = 10
    RerrRatelimit = 5
    DestinationOnly = TRUE
    AskGratuitousRREP = FALSE
    UseHelloMessages = FALSE
    Prompt = TRUE
INVARIANTS SeqNotAhead
PROPERTIES Delivery DatagramsLeaveQueue
CHECK_DEADLOCK FALSE
