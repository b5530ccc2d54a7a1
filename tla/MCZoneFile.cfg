CONSTANTS
    Lexicon <- MCLexicon
    Zones <- MCZones
    Capacity = 2
    ZoneCapacity = 2
    MaxTok = 8
    MaxServers = 3
SPECIFICATION Spec
INVARIANTS
    ReadsAsWritten
    ErrorEndsTheZone
