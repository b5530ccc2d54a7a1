SPECIFICATION Spec
CONSTANTS
    c1 = c1
    c2 = c2
    d1 = d1
    Conns <- MCConns
    Datagrams <- MCDatagrams
    Scripts <- MCScripts
    Stalled <- MCStalled
    MaxQueries = 1
    LookupMayPanic = TRUE
    Interruptible = TRUE
INVARIANTS
    TypeOK
    CountersAddUp
PROPERTIES
    
    EveryMessageIsHandled
    ImplementsService
