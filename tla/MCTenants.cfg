CONSTANTS
    n1 = n1
    n2 = n2
    n3 = n3
    a1 = a1
    r1 = r1
    g1 = g1
    NoName = NoName
    NoBill = NoBill
    Initial = 2
    MaxTenants = 4
    Names = {n1, n2, n3}
    InitialName <- MCInitialName
    Numbers = {1}
    InitialComps <- MCInitialComps
    Yen <- MCYen
    PageSize = 1
    Adders = {a1}
    Requests = {r1}
    Pagers = {g1}
    MaxInits = 1
    MaxRestarts = 1
    MaxFaults = 1
SPECIFICATION Spec
INVARIANTS
    TypeOK
    ViewersAtHome
    UsableTenants
    BilledInFull
    PagesTile
