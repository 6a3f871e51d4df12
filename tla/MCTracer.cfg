CONSTANTS
    r1 = r1
    s1 = s1
    s2 = s2
    s3 = s3
    None = None
    Metrics = {r1, s1, s2, s3}
    Log <- MCLog
    Path <- MCPath
    Query <- MCQuery
    Duration <- MCDuration
    MaxStarts = 2
    MaxFaults = 1
SPECIFICATION Spec
INVARIANTS
    TypeOK
    NothingLost
    RowsAddUp
    ShortestAndLongest
    SectionsAgree
CHECK_DEADLOCK FALSE
