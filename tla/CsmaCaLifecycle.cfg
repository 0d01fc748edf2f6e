\* A station goes down while it sends or receives.
SPECIFICATION LifeSpec
CONSTANTS
    Node = {a, b}
    a = a
    b = b
    NoNode = none
    All = all
    NoFrame = noframe
    Link <- Pair
    Flow <- OneFrame
    RetryLimit = 1
    UseAck = TRUE
    Noise = 0
    Outages = 1
INVARIANTS NoRuntimeError
CHECK_DEADLOCK FALSE
