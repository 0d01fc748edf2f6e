\* OLSR: routers meet, lose a link, flood their TCs.
SPECIFICATION FairSpec
CONSTANTS
    Node = {a, b, c, d}
    a = a
    b = b
    c = c
    d = d
    Willingness <- MCWillingness
    Start <- Networks
INVARIANTS TypeOK NeighborsHaveLinks SymIsMutual AnsnNamesSelectors CalmRoutes
PROPERTIES FloodSpec Converges
