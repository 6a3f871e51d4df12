CONSTANTS
    p1 = p1
    p2 = p2
    p3 = p3
    s1 = s1
    r1 = r1
    b1 = b1
    a1 = a1
    Enrolled = {p1}
    Newcomers = {p2, p3}
    Strangers = {s1}
    Lookups = {r1}
    Banners = {b1}
    Adders = {a1}
    MaxRestarts = 1
    MaxFaults = 1
SPECIFICATION Spec
INVARIANTS
    TypeOK
    TurnedAway
    ToldTrue
    NewcomersBarred
    
