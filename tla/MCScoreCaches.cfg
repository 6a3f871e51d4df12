CONSTANTS
    p1 = p1
    p2 = p2
    o1 = o1
    o2 = o2
    w1 = w1
    Absent = Absent
    Players = {p1, p2}
    Organizers = {o1, o2}
    Visitors = {w1}
    Sheets <- MCSheets
    MaxRestarts = 1
    MaxFaults = 1
SPECIFICATION Spec
SYMMETRY Symmetric
INVARIANTS
    RankingShowsLast
    ListsShowLast
PROPERTIES
    RankingMovesForward
