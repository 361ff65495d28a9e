CONSTANTS
    r1 = r1
    r2 = r2
    r3 = r3
    f1 = f1
    f2 = f2
    f3 = f3
    t1 = t1
    t2 = t2
    u1 = u1
    u2 = u2
    i1 = i1
    i2 = i2
    i3 = i3
    Requests = {r1, r2, r3}
    Fields = {f1, f2, f3}
    Tokens = {t1, t2}
    Users = {u1, u2}
    None = None
    Items = {i1, i2, i3}
    TTL = 2
    Capacity = 1
    Deadline = 1
    PAGE_SIZE = 2
    MAX_PAGES = 2
    SizeTTL = 2
    MAX_RESPONSE = 2
    Budget = 7
    MaxTime = 4
    MaxOthers = 1
    MaxLost = 1
SPECIFICATION MCSpec
INVARIANTS ReadsSound IdentityFresh
PROPERTIES EditsHonest ListsWhole RequestEnds
CHECK_DEADLOCK FALSE
