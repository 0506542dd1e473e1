CONSTANTS
    u1 = u1
    u2 = u2
    u3 = u3
    u4 = u4
    u5 = u5
    n1 = n1
    n2 = n2
    n3 = n3
    k1 = k1
    k2 = k2
    m1 = m1
    m2 = m2
    Ids = {u1, u2, u3, u4, u5}
    Names = {n1, n2, n3}
    Founders <- FoundersDef
    Keys = {k1, k2}
    Issued <- IssuedDef
    Models = {m1, m2}
    Catalogs = {{m1}, {m1, m2}}
    Release = {m1}
    MaxCalls = 2
    MaxReqs = 2
    MaxClock = 2
    MaxFaults = 1
SPECIFICATION AccessFairSpec
INVARIANTS
    AccessTypeOK
    NewestStampKept
    AdminKept
    BuiltinNamesReserved
PROPERTIES
    StampsArrive
    CallsReturn
CHECK_DEADLOCK FALSE
