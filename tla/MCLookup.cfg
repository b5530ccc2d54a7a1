SPECIFICATION Spec
CONSTANTS
    b = b
    www = www
    WWW = WWW
    net = net
    Star = Star
    Empty = Empty
    A = A
    Cname = Cname
    Soa = Soa
    v1 = v1
    v2 = v2
    bad = bad
    Labels <- MCLabels
    STAR = Star
    EMPTY = Empty
    Lower <- MCLower
    Types <- MCTypes
    CNAME = Cname
    SOA = Soa
    ANY = ANY
    UNKNOWN = UNKNOWN
    Values <- MCValues
    Invalid = {bad}
    ETCDERROR = ETCDERROR
    Queries <- MCQueries
    Contents <- MCContents
    MaxWrites = 1
    MaxFailures = 1
INVARIANTS
    TypeOK
    ServfailIffWrong
    ClosestAuthority
PROPERTIES
    ImplementsResolution
    EveryQueryIsAnswered
