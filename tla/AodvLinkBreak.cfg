\* A broken link whose routes stay active.
SPECIFICATION Spec
CONSTANTS
    Node = {a, b, c}
    a = a
    b = b
    c = c
    NoNode = none
    All = all
    Link <- Line
    Flow <- TwoInARow
    Budget <- DownAndExpungeTwice
    TtlStart = 2
    TtlIncrement = 1
    TtlThreshold = 2
    NetDiameter = 2
    RreqRetries = 1
    RreqRatelimit = 5
    RerrRatelimit = 5
    DestinationOnly = FALSE
    AskGratuitousRREP = FALSE
    UseHelloMessages = FALSE
    Prompt = TRUE
PROPERTIES LinkBreakCleans
CHECK_DEADLOCK FALSE
