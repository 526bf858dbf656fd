CONSTANTS
    d1 = d1
    d2 = d2
    j1 = j1
    j2 = j2
    l1 = l1
    m1 = m1
    r1 = r1
    s1 = s1
    w1 = w1
    RoomIds = {r1}
    Joins = {j1, j2}
    Leaves = {l1}
    Creates = {}
    Deletes = {d1, d2}
    Writers = {}
    Owners = {}
    Drains = {s1}
    Recovery = recovery
    Workers = {m1}
    Spares = {}
    Mortal = {}
    MaxRooms = 1
    AllowAdHoc = TRUE
    Timeouts = TRUE
    Doubtful = {d1, d2}
    Seed = seed
    None = none
SPECIFICATION Spec
SYMMETRY Symmetry
INVARIANTS
    NothingLeaks
    DrainIsFinal
    NobodyStranded
