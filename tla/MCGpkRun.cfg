CONSTANTS
    n1 = n1
    n2 = n2
    n3 = n3
    Node <- MCNode
    Leader = n1
    P = 5
    Degree = 1
    Poly <- MCPoly
    SeedDraws <- MCSeedDraws
    SeedPool = {1, 2, 3}
    Faulty = {n3}
    MaxLoss = 1
    MaxDup = 1

SPECIFICATION Spec
\* Every behaviour ends with all contexts Done or Failed.
CHECK_DEADLOCK FALSE

INVARIANT TypeOK
INVARIANT SharesReconstructSecret
