\* Objects and unions, read by the server and then by the client.
SPECIFICATION Spec
CONSTANTS
    Types <- MCTypes
    Roots <- MCRoots
    Leaves <- MCLeaves
    Documents <- MCDocuments
    Anything <- MCAnything
    Values <- MCValues
    Height <- MCHeight
    Depth <- MCDepth
INVARIANTS
    TypeOK
    RoundTrip
    ModesAgree
    UnknownFieldIsThere
    ReadsAsMeant
CHECK_DEADLOCK FALSE
