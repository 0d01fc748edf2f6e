\* The fifth reply finds the table full.
SPECIFICATION Spec
CONSTANTS
    Station = {s1, s2, s3, s4, s5}
    Nobody = nobody
    Width = 4
    MaxRounds = 1
INVARIANTS LooksForAllResponses
CHECK_DEADLOCK FALSE
