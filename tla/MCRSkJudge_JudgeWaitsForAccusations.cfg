CONSTANTS
    N = 3
    Leader = 0
    P = 5
    Poly <- MCPoly
    X <- MCX
    Cheater = {1}
    Liar = {2}

SPECIFICATION Spec
\* The judge step ends the run: every behaviour stops once it finished.
CHECK_DEADLOCK FALSE

INVARIANT JudgeWaitsForAccusations
