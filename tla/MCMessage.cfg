SPECIFICATION Spec
CONSTANTS
    MaxLabel = 63
    NilSize = 256
    MaxCompressionOffset = 16384
    MaxPointers = 10
    HashSize = 2
    ParseIP <- MCParseIP
    Suites <- MCSuites
INVARIANTS
    EverythingPacks
    ArrivesAsSent
    CutIsSeen
    BufferDoesNotMatter
    ServedAsStored
