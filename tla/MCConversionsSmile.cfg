\* A value below the top of a Smile document
CONSTANTS
    Values <- MCValues
    NonFinite = {"NaN", "Infinity", "-Infinity"}
    Base64 <- BytesText
    Rank <- MCRank
SPECIFICATION Spec
INVARIANT
    SmileLossless
CHECK_DEADLOCK FALSE
