\* The arena as luac_init uses it: static areas first, then managed objects.
SPECIFICATION Spec
CONSTANTS
    BfrCap = 8
    HdrSize = 1
    U64 = 256
    Lens <- MCLens
    Values <- MCValues
    Zero = 0
    MaxObjs = 4
    LateStatic = FALSE
INVARIANTS
    TypeOK
    ObjectsDisjoint
    HeadersIntact
    EndsMeetAtMost
    ManagedCapCounts
PROPERTY
    ImplementsStore
CHECK_DEADLOCK FALSE
