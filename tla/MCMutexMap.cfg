CONSTANTS
    t1 = t1
    t2 = t2
    t3 = t3
    k1 = k1
    k2 = k2
    x1 = x1
    x2 = x2
    x3 = x3
    NoThread = NoThread
    NoMutex = NoMutex
    Threads = {t1, t2, t3}
    Keys = {k1, k2}
    Mutexes = {x1, x2, x3}
SPECIFICATION FairSpec
INVARIANTS
    Exclusion
PROPERTIES
    ImplementsKeyedLock
    EverybodyServed
