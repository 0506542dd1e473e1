CONSTANTS
    a1 = a1
    a2 = a2
    a3 = a3
    h1 = h1
    h2 = h2
    n1 = n1
    good = good
    bad = bad
    six = six
    none = none
    Names <- ThreeNames
    IPs <- SomeIPs
    V4 = {good, bad}
    Blocked = {bad}
    Mapped <- FourAnd
    Agents <- ThreeAgents
    Conf <- Settings
    Unnamed = none
    MaxRows = 3
    MaxFaults = 1
    MaxRemoved = 1
    Moving = {h1}
    Policies <- SomePolicies
    Answers <- SomeAnswers
    Usual <- Resolved
SPECIFICATION RgFairSpec
INVARIANTS
    RgTypeOK
    AloneNeverConflicts
    ConnectsWhereAllowed
PROPERTIES
    TakesOverOwnRow
    TokenLostKnowingly
    Registers
CHECK_DEADLOCK FALSE
