CONSTANTS
    o1 = o1
    o2 = o2
    Members = {1, 2}
    Sessions <- Staying
    Offers <- Equipment
    Ops = {o1, o2}
    Policies <- Choices
    Roles = {0}
    FirstPolicy <- Open
    FirstRole <- Users
    Cohort <- OneAddress
    Ceiling = 2
    ProducerCap = 2
    None = none
SPECIFICATION Spec
CHECK_DEADLOCK FALSE
SYMMETRY Symmetry
INVARIANTS
    WithinLimit
    RecordsArePermitted
    NothingUnseen
