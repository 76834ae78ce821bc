\* Values of every type in every position, over every route
CONSTANTS
    Values <- MCValues
    NonFinite = {"NaN", "Infinity", "-Infinity"}
    Base64 <- BytesText
    Rank <- MCRank
SPECIFICATION Spec
INVARIANTS
    TypeOK
    Lossless
    NeverMisread
    DoublesAreKeys
CHECK_DEADLOCK FALSE
