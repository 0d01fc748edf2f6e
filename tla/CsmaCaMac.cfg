\* Two stations that do not hear each other send to the one between them, one of them a
\* broadcast as well.
SPECIFICATION FairSpec
CONSTANTS
    Node = {a, b, c}
    a = a
    b = b
    c = c
    NoNode = none
    All = all
    NoFrame = noframe
    Link <- Line
    Flow <- HiddenStations
    RetryLimit = 1
    UseAck = TRUE
    Noise = 1
INVARIANTS TypeOK NeverStuck AckMeansDelivered
PROPERTIES EveryFrameSettled HopSpec
CHECK_DEADLOCK FALSE
