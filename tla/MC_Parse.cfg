\* Every part of the grammar, and heaps that run out.
SPECIFICATION Spec
CONSTANTS
    Ample = 1000
    Inputs <- MCInputs
    HdrWords = 3
    NodeWords = 3
    MaxDepth = 2
INVARIANTS
    ParseTypeOK
    ErrorsReach
    TreeIsText
    OperatorsGroup
    BracketsPair
    UnreachKeepsRuns
PROPERTY
    EndsOrStarves
\* A parse that has returned stops.
CHECK_DEADLOCK FALSE
