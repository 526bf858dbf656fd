CONSTANTS
    s1 = s1
    c1 = c1
    i1 = i1
    i2 = i2
    u1 = u1
    u2 = u2
    Sids = {s1}
    Seeds = {}
    Streams = {c1}
    Issues = {i1, i2}
    Redeems = {u1, u2}
    MaxStreams = 1
    MaxTickets = 1
    Queue = 1
    MaxVersion = 1
    Drain = TRUE
    None = none
SPECIFICATION FairSpec
CHECK_DEADLOCK FALSE
INVARIANTS
    TicketsAdmitOnce
PROPERTIES
    SilentOnceTold
    RevokedStreamsClose
