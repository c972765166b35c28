\* The statement compiler: names, captures and nested functions.
SPECIFICATION Spec
CONSTANTS
    Names <- TwoNames
    MaxLocals = 3
    MaxBreaks = 2
    MaxLabels = 64
    MaxEnds = 64
    U8 = 3
    Env = Env
    Done = Done
    Kinds <- Scoping
    CondExps <- ConstCond
    ExpLists <- Reads
    NameLists <- EachAlone
    Labels = {}
    ParamLists <- XOrNone
    Varargs = {FALSE}
    Attrs = {"none"}
    HeapLimits = {"short"}
    MaxStats = 5
    MaxFuncs = 3
    MaxDepth = 4
    x = x
    y = y
INVARIANTS
    UpvalsDenote
CHECK_DEADLOCK FALSE
