CONSTANTS
    u1 = u1
    u2 = u2
    m1 = m1
    r1 = r1
    r2 = r2
    r3 = r3
    Users <- TwoUsers
    Models <- OneModel
    Limited <- OneUser
    Limit = 1
    MAX_PENDING_KEYS = 2
    Deletable <- OneUser
    Requests <- TwoRequests
    MaxDay = 0
    MaxFaults = 0
SPECIFICATION UsageFairSpec
PROPERTIES
    UsageIsPersisted
CHECK_DEADLOCK FALSE
