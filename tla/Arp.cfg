\* Two hosts resolve addresses, and overhear each other, on a link that loses packets.
SPECIFICATION FairSpec
CONSTANTS
    Host = {a, b, c}
    a = a
    b = b
    c = c
    Flow <- Overheard
    Packets <- TwoAndOne
    RetryCount = 2
    Setbacks = 2
    Outages = 1
INVARIANTS TypeOK WaitingMeansPending InOrder FailuresHaveCauses
PROPERTIES NothingWaitsForever
CHECK_DEADLOCK FALSE
