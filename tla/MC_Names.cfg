\* A pool that is used up before the table is full.
SPECIFICATION Spec
CONSTANTS
    a = a
    b = b
    c = c
    d = d
    g = g
    seven = seven
    eight = eight
    Words <- MCWords
    Ints <- MCInts
    Hash <- MCHash
    Size <- MCSize
    EntryCap = 4
    BfrCap = 7
    KHash <- MCKHash
    ConstInit = 2
    IndexInit = 4
INVARIANTS
    StrTypeOK
    NamesAreOne
    WordsFound
    RoomLeft
    ConstsFound
PROPERTY
    Answered
