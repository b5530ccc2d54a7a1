CONSTANTS
    Lexicon <- MCLexicon
    Zones <- MCTexts
    Capacity = 2
    ZoneCapacity = 2
    MaxTok = 8
    MaxServers = 3
SPECIFICATION Spec
PROPERTIES
    GoroutinesEnd
