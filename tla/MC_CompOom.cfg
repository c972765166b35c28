\* The statement compiler: an arena that runs out.
SPECIFICATION Spec
CONSTANTS
    Names <- OneName
    MaxLocals = 256
    MaxBreaks = 1
    MaxLabels = 64
    MaxEnds = 64
    U8 = 256
    Env = Env
    Done = Done
    Kinds <- FailingKinds
    CondExps <- OneName
    ExpLists <- Loads
    NameLists <- JustX
    Labels = {}
    ParamLists <- NoExps
    Varargs = {FALSE}
    Attrs = {"close"}
    HeapLimits = {"tight", "full"}
    MaxStats = 4
    MaxFuncs = 3
    MaxDepth = 5
    x = x
    y = y
INVARIANTS
    TypeOK
    JumpsInside
    CodeIsWhole
CHECK_DEADLOCK FALSE
