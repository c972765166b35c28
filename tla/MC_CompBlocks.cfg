\* The statement compiler: blocks, loops, jumps and locals.
SPECIFICATION Spec
CONSTANTS
    Names <- OneName
    MaxLocals = 8
    MaxBreaks = 7
    MaxLabels = 64
    MaxEnds = 64
    U8 = 8
    Env = Env
    Done = Done
    Kinds <- Blocks
    CondExps <- ConstCond
    ExpLists <- CallOrTwo
    NameLists <- OneOrThree
    Labels = {"a"}
    ParamLists <- NoExps
    Varargs = {FALSE}
    Attrs = {"const"}
    HeapLimits = {}
    MaxStats = 4
    MaxFuncs = 1
    MaxDepth = 5
    x = x
    y = y
INVARIANTS
    BranchesLand
    GotosReachLabel
    LocalsKept
CHECK_DEADLOCK FALSE
