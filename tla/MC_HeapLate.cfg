\* The arena as mccomp_proto uses it: static areas after managed objects.
SPECIFICATION Spec
CONSTANTS
    BfrCap = 8
    HdrSize = 2
    U64 = 256
    Lens <- MCLens
    Values <- MCValues
    Zero = 0
    MaxObjs = 3
    LateStatic = TRUE
INVARIANT
    EndsMeetAtMost
CHECK_DEADLOCK FALSE
