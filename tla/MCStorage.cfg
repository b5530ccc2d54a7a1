SPECIFICATION Spec
CONSTANTS
    key = key
    bar = bar
    bar1 = bar1
    sub = sub
    x = x
    v1 = v1
    v2 = v2
    v3 = v3
    Trees <- MCTrees
    Ttls = {60, 300, 600}
    INVALID = INVALID
    DefaultTtl = 0
    MaxWrites = 2
    MaxFailures = 1
INVARIANTS
    EveryValueOnce
    OwnTtlWhenPaired
    SingleTtlIsItsOwn
