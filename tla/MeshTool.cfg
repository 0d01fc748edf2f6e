\* Three stations, three calls: nine replies for four columns.
SPECIFICATION Spec
CONSTANTS
    Station = {s1, s2, s3}
    Nobody = nobody
    Width = 4
    MaxRounds = 3
INVARIANTS TypeOK OneRowPerReply CounterMatchesTable
PROPERTIES HelloEnds
CHECK_DEADLOCK FALSE
