\* Expressions: what their code computes.
SPECIFICATION ExpSpec
CONSTANTS
    OpRange = 64
    U8 = 32
    Locals <- MCLocals
    ConstLocals = {"k"}
    Upvals <- MCUpvals
    FieldsPerFlush = 2
    Group = 4
    MaxShortLen = 2
    Programs <- MCPrograms
INVARIANTS CodeComputes ErrorsShow RegistersCounted ChunkReadsBack
CHECK_DEADLOCK FALSE
