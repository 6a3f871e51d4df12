CONSTANTS
    p1 = p1
    p2 = p2
    v1 = v1
    v2 = v2
    o1 = o1
    o2 = o2
    u1 = u1
    u2 = u2
    None = None
    Players = {p1}
    Viewers = {v1}
    PlayerOf <- OneViewer
    Organizers = {o1}
    Uploads = {}
    Scored <- NoFiles
    MaxTime = 2
    MaxQueue = 2
    MaxRestarts = 1
    MaxFaults = 1
SPECIFICATION Spec
INVARIANTS
    VisitsReported
    FinishedIsBilled
PROPERTIES
    FinishAnswered
    VisitStored
