CONSTANTS
    d1 = d1
    j1 = j1
    j2 = j2
    m1 = m1
    m2 = m2
    r1 = r1
    RoomIds = {r1}
    Joins = {j1, j2}
    Leaves = {}
    Creates = {}
    Deletes = {d1}
    Writers = {}
    Owners = {}
    Drains = {}
    Recovery = recovery
    Workers = {m1, m2}
    Spares = {m2}
    Mortal = {m1, m2}
    MaxRooms = 1
    AllowAdHoc = TRUE
    Timeouts = FALSE
    Doubtful = {}
    Seed = seed
    None = none
SPECIFICATION FairSpec
PROPERTIES
    EveryRequestEnds
    DeathsAreHandled
    RecoverySparesOthers
