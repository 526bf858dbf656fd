CONSTANTS
    j1 = j1
    m1 = m1
    m2 = m2
    r1 = r1
    RoomIds = {r1}
    Joins = {j1}
    Leaves = {}
    Creates = {}
    Deletes = {}
    Writers = {}
    Owners = {}
    Drains = {}
    Recovery = recovery
    Workers = {m1, m2}
    Spares = {m2}
    Mortal = {m1}
    MaxRooms = 1
    AllowAdHoc = TRUE
    Timeouts = FALSE
    Doubtful = {}
    Seed = seed
    None = none
SPECIFICATION Spec
SYMMETRY Symmetry
INVARIANTS
    RecoveryIsComplete
