SPECIFICATION MCSpec
CONSTANTS
    t1 = t1
    t2 = t2
    t3 = t3
    n1 = n1
    n2 = n2
    n3 = n3
    u1 = u1
    u2 = u2
    Threads = {t1, t2, t3}
    Nodes <- MCNodes
    Uris <- MCUris
    NodeUri <- MCNodeUri
    UnknownNodes = {ghost}
    HungUris = {u1}
    MaxGen = 2
    NONE = NONE
INVARIANTS
    PoolSafe
PROPERTIES
    RaceOnlyWhileWarming
    ImplementsNodeLock
    HealthyNodeServed
