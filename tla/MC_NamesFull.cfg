\* A table that fills up before its pool does.
SPECIFICATION Spec
CONSTANTS
    a = a
    b = b
    c = c
    d = d
    g = g
    seven = seven
    eight = eight
    Words <- MCWords
    Ints <- MCInts
    Hash <- MCHash
    Size <- MCSize
    EntryCap = 2
    BfrCap = 11
    KHash <- MCKHash
    ConstInit = 2
    IndexInit = 4
PROPERTY
    Answered
