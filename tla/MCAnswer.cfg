SPECIFICATION Spec
CONSTANTS
    A = A
    TXT = TXT
    Cname = Cname
    Types <- MCTypes
    CNAME = Cname
    ANY = ANY
    UNKNOWN = UNKNOWN
    MaxRecords = 2
    LookupMayPanic = TRUE
INVARIANTS
    TypeOK
    NothingLost
    NothingInvented
    NoSendOnClosed
PROPERTIES
    QuestionReturns
    NoGoroutineLeaks
    ImplementsAnswering
