SPECIFICATION MCSpec
CONSTANTS
    None = None
    b1 = b1
    b2 = b2
    s1 = s1
    s2 = s2
    s3 = s3
    c1 = c1
    c2 = c2
    l1 = l1
    l2 = l2
    i1 = i1
    i2 = i2
    Contexts <- MCContexts
    Jobs <- MCJobs
    Branches <- MCBranches
    Shas <- MCShas
    Labels <- MCLabels
    Ids <- MCIds
    PAGE = 1
    STATUSES = 1
    MAX_PAGES = 4
    MaxOthers = 2
INVARIANTS
    WritesOnce
    ChecksTruthful
    VerdictsAgree
    OneReading
PROPERTY
    CheckoutKeeps
CHECK_DEADLOCK FALSE
