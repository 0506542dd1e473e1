CONSTANTS
    u1 = u1
    u2 = u2
    m1 = m1
    r1 = r1
    r2 = r2
    r3 = r3
    Users <- TwoUsers
    Models <- OneModel
    Limited <- OneUser
    Limit = 1
    MAX_PENDING_KEYS = 2
    Deletable <- OneUser
    Requests <- ThreeRequests
    MaxDay = 1
    MaxFaults = 1
SPECIFICATION UsageFairSpec
INVARIANTS
    Conservation
    NeverOvercounts
PROPERTIES
    PersistedIfNoneDeleted
CHECK_DEADLOCK FALSE
