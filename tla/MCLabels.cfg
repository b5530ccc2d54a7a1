SPECIFICATION Spec
CONSTANTS
    MaxLabel = 3
    NilSize = 12
    MaxCompressionOffset = 64
    MaxPointers = 10
    Alphabet <- MCAlphabet
    MaxLength = 7
    MaxOther = 3
INVARIANTS RoundTrip CountsAgree SubDomainByLabels
