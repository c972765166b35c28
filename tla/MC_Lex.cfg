SPECIFICATION LexSpec
CONSTANTS
    Char <- MCChar
    Nul = "nul"
    Scripts <- MCScripts
    Digits = {"1"}
    Letters = {"a", "e", "i", "f", "_"}
    Spaces <- MCSpaces
    Reserved <- MCReserved
    IdLen = 4
    MaxTokens = 3
    MinStr = 1
    MaxStr = 5
INVARIANTS LexTypeOK PiecesAreTokens ZeroMeansAll
PROPERTIES LikeInMemory LexEnds
CHECK_DEADLOCK FALSE
