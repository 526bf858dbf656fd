CONSTANTS
    c1 = c1
    d1 = d1
    j1 = j1
    j2 = j2
    m1 = m1
    o1 = o1
    r1 = r1
    r2 = r2
    RoomIds = {r1, r2}
    Joins = {j1, j2}
    Leaves = {}
    Creates = {c1}
    Deletes = {d1}
    Writers = {}
    Owners = {o1}
    Drains = {}
    Recovery = recovery
    Workers = {m1}
    Spares = {}
    Mortal = {}
    MaxRooms = 1
    AllowAdHoc = TRUE
    Timeouts = FALSE
    Doubtful = {c1, d1, o1}
    Seed = seed
    None = none
SPECIFICATION Spec
SYMMETRY Symmetry
INVARIANTS
    PolicyCoherent
    OwnerPolicyIsPublished
    CapacityRespected
