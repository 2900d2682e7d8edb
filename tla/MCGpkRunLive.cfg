CONSTANTS
    n1 = n1
    n2 = n2
    n3 = n3
    Node <- MCNode
    Leader = n1
    P = 5
    Degree = 1
    Poly <- MCPoly
    SeedDraws <- MCSeedDraws
    SeedPool = {1, 2, 3}
    Faulty = {}
    MaxLoss = 0
    MaxDup = 0

SPECIFICATION FairSpec
\* Every behaviour ends with all contexts Done or Failed.
CHECK_DEADLOCK FALSE

PROPERTY RunCompletes
