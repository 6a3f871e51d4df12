CONSTANTS
    p1 = p1
    p2 = p2
    g = g
    c1 = c1
    c2 = c2
    Players = {p1, p2, g}
    Guests = {g}
    Competitions = {c1, c2}
    CreatedAt <- OneByOne
    Files <- MCFiles
    Absent = Absent
    PageSize = 1
    MaxRestarts = 0
SPECIFICATION Spec
INVARIANTS
    ScoresListed
