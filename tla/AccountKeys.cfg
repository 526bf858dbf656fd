CONSTANTS
    r1 = r1
    r2 = r2
    r3 = r3
    r4 = r4
    s1 = s1
    s2 = s2
    k1 = k1
    Requests = {r1, r2, r3, r4}
    Sids = {s1, s2}
    Seeds = {s1}
    Keys = {k1}
    First = first
    MaxKeys = 2
    MaxChallenges = 2
    MaxVersion = 2
    None = none
SPECIFICATION Spec
CHECK_DEADLOCK FALSE
SYMMETRY Symmetry
INVARIANTS
    SignInMethodRemains
    KeyLimit
    SingleUse
    SessionsDieWithTheirKey
PROPERTIES
    ReplacementHasBackup
    NoStaleAuthority
