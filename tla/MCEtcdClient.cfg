SPECIFICATION Spec
CONSTANTS
    m1 = m1
    m2 = m2
    m3 = m3
    r1 = r1
    r2 = r2
    BOGUS = BOGUS
    TORN = TORN
    Machines <- MCMachines
    Configured <- MCConfigured
    Bodies <- MCBodies
    Requests <- MCTwo
    Healthy <- MCNone
    Failing <- MCFirst
    Hanging <- MCThird
    Redirects <- MCThird
INVARIANTS
    TypeOK
    RetriesAreBounded
    LoneFailureTriesAll
    LeaderIsListed
PROPERTIES
    EveryRequestEnds
