CONSTANTS
    r1 = r1
    s1 = s1
    Rooms = {r1}
    Sockets = {s1}
    Guests = {s1}
    Accounts = {}
    Watched = {}
    MaxRetained = 1
    MaxVersion = 0
    Drain = FALSE
    None = none
SPECIFICATION Spec
INVARIANT
    AdmittedIsUnblocked
