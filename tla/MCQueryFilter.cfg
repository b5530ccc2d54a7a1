SPECIFICATION Spec
CONSTANTS
    a = a
    b = b
    A = A
    B = B
    dot = dot
    TypeA = TypeA
    TypeAAAA = TypeAAAA
    Chars <- MCChars
    DOT = dot
    Lower <- MCLower
    Types = {TypeA, TypeAAAA}
    EMPTY = EMPTY
    OptionLists <- MCOptionLists
    Queries <- MCQueries
INVARIANTS
    TypeOK
    DecisionIsRule
    AgreesWithLabels
