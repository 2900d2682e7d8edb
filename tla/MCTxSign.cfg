\* ECDSA transaction signing in the schnorr copy, at most one faulty follower.
CONSTANTS
    n1 = n1
    n2 = n2
    n3 = n3
    Node <- MCNode
    Leader = n1
    X <- MCX
    P = 5
    Degree = 1
    KeyPoly <- MCKeyPoly
    APoly <- MCAPoly
    RPoly <- MCRPoly
    CPoly <- MCCPoly
    H = 2
    PX <- MCPX
    MaxFaulty = 1
    MaxDup = 1

SPECIFICATION Spec
\* A run ends once every participant has finished or failed.
CHECK_DEADLOCK FALSE

INVARIANT TypeOK
INVARIANT HonestRunSigns
INVARIANT HonestRunNeverStuck
