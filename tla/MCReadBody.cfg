\* read_body and async_read_body against the plain reader.
SPECIFICATION FairSpec
CONSTANTS
    Byte <- MCByte
    Chunks <- MCChunks
    Limits <- MCLimits
    NoLimit = NoLimit
    MaxBytes <- MCMaxBytes
INVARIANTS
    TypeOK
    WithinLimit
PROPERTIES
    ReaderImplemented
    EndlessRefused
CHECK_DEADLOCK FALSE
