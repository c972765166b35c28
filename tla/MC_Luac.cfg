\* The driver with its plug-ins and its output buffer.
SPECIFICATION Spec
CONSTANTS
    p = p
    q = q
    Libs = {p, q}
    Max = 3
    MaxVisits = 2
    Cap = 3
    Plugins <- MCPlugins
    PutSizes <- MCPutSizes
    MaxSent = 7
INVARIANTS
    VisitorsTornDown
    HandlesClosed
    AllVisited
    DumpInOrder
    ZeroMeansWhole
CHECK_DEADLOCK FALSE
