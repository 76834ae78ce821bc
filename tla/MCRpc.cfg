\* Generated and foreign peers; a finished call stops.
SPECIFICATION FairSpec
CONSTANTS
    Texts <- MCTexts
    Malformed <- MCMalformed
    NonAscii <- MCNonAscii
    Control <- MCControl
    Oversized <- MCOversized
    Unwritable <- MCUnwritable
    UriBytes <- MCUriBytes
    MaxUri <- MCMaxUri
    Display <- MCDisplay
    None = None
    Endpoints <- MCEndpoints
    MaxPairs = 2
INVARIANTS
    TypeOK
    OnlyKnownFailures
    HandlerSeesTheRequest
    SafeParamsTruthful
    AnswerIsTheResponse
PROPERTIES
    RemoteIsLocal
    CallAnswered
CHECK_DEADLOCK FALSE
