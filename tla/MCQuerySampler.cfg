CONSTANTS
    s1 = s1
    s2 = s2
    s3 = s3
    s4 = s4
    None = None
    Statements = {s1, s2, s3, s4}
    Skipped = {}
    Alias <- MCAlias
    Text <- MCText
    Capacity = 1
    MaxStarts = 2
    MaxFaults = 1
SPECIFICATION Spec
INVARIANTS
    TypeOK
    SampledOnce
    SampledKept
CHECK_DEADLOCK FALSE
