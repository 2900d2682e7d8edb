CONSTANTS
    NP = 3
    IntnSample = {0, 1, 16777213}
    WireValues = {0, 1, 16777214, 16777215, 16777216}

SPECIFICATION Spec
\* Both loops end: the leader's once every peer has a seed, the follower's
\* once it has admitted or refused the list.
CHECK_DEADLOCK FALSE

INVARIANT TypeOK
INVARIANT ConformingListAdmitted
INVARIANT AdmittedSeedsDistinct
PROPERTY DrawRefinesAssignment
