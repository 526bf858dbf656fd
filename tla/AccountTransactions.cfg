CONSTANTS
    s1 = s1
    f1 = f1
    f2 = f2
    l1 = l1
    v1 = v1
    o1 = o1
    p1 = p1
    Seeds = {s1}
    SignIns = {l1}
    Refreshes = {f1, f2}
    Logouts = {o1}
    Revokers = {v1}
    Changers = {p1}
    MaxSessions = 1
    Grace = 1
    Slide = 2
    Absolute = 3
    MaxTime = 3
    None = none
SPECIFICATION Spec
CHECK_DEADLOCK FALSE
SYMMETRY Symmetry
INVARIANTS
    OneSuccessor
    LogoutIsFinal
PROPERTIES
    ImplementsAuthority
    OnlyTheLiveRevoke
