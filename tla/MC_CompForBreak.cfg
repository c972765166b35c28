\* The statement compiler: break in a numeric for.
SPECIFICATION Spec
CONSTANTS
    Names <- TwoNames
    MaxLocals = 256
    MaxBreaks = 64
    MaxLabels = 64
    MaxEnds = 64
    U8 = 256
    Env = Env
    Done = Done
    Kinds <- ForBreak
    CondExps <- ConstCond
    ExpLists <- Ranges
    NameLists <- EachAlone
    Labels = {}
    ParamLists <- NoExps
    Varargs = {FALSE}
    Attrs = {"none"}
    HeapLimits = {}
    MaxStats = 4
    MaxFuncs = 1
    MaxDepth = 5
    x = x
    y = y
INVARIANTS
    BranchesLand
CHECK_DEADLOCK FALSE
