\* Two ways to the destination, a link that fails, a lifetime that runs out.
SPECIFICATION Spec
CONSTANTS
    Node = {a, b, c}
    a = a
    b = b
    c = c
    NoNode = none
    All = all
    Link <- Triangle
    Flow <- OneFlow
    Budget <- DownAndExpunge
    TtlStart = 2
    TtlIncrement = 1
    TtlThreshold = 2
    NetDiameter = 2
    RreqRetries = 1
    RreqRatelimit = 5
    RerrRatelimit = 5
    DestinationOnly = FALSE
    AskGratuitousRREP = FALSE
    UseHelloMessages = FALSE
    Prompt = TRUE
INVARIANTS RreqIdsFresh SeqNotAhead NextHopKnows
PROPERTIES RerrTruthful
CHECK_DEADLOCK FALSE
