\* The required query parameter that a request leaves out.
SPECIFICATION Spec
CONSTANTS
    Texts <- MCTexts
    Malformed <- MCMalformed
    NonAscii <- MCNonAscii
    Control <- MCControl
    Oversized <- MCOversized
    Unwritable <- MCUnwritable
    UriBytes <- MCUriBytes
    MaxUri <- MCMaxUri
    Display <- MCDisplay
    None = None
    Endpoints <- MCEndpoints
    MaxPairs = 2
INVARIANTS
    NeverPanics
CHECK_DEADLOCK FALSE
