CONSTANTS
    p1 = p1
    p2 = p2
    v1 = v1
    v2 = v2
    o1 = o1
    o2 = o2
    u1 = u1
    u2 = u2
    None = None
    Players = {p1, p2}
    Viewers = {v1}
    PlayerOf <- OneViewer
    Organizers = {o1}
    Uploads = {u1}
    Scored <- OneFile
    MaxTime = 2
    MaxQueue = 1
    MaxRestarts = 0
    MaxFaults = 0
SPECIFICATION Spec
PROPERTIES
    ScoresFrozen
