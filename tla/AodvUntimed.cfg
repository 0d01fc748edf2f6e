\* The expanding ring when timers fire in the middle of an exchange.
SPECIFICATION Spec
CONSTANTS
    Node = {a, b, c}
    a = a
    b = b
    c = c
    NoNode = none
    All = all
    Link <- Line
    Flow <- OneFlow
    Budget <- NoDisturbance
    TtlStart = 1
    TtlIncrement = 1
    TtlThreshold = 3
    NetDiameter = 3
    RreqRetries = 1
    RreqRatelimit = 5
    RerrRatelimit = 5
    DestinationOnly = FALSE
    AskGratuitousRREP = FALSE
    UseHelloMessages = FALSE
    Prompt = FALSE
INVARIANTS TypeOK RreqIdUnique QueuedMeansSearching RetriesBounded
CHECK_DEADLOCK FALSE
