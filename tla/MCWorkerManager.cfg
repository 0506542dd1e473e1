CONSTANTS
    a = a
    b = b
    Instances <- TwoInstances
    Ports <- OnePort
    Followers <- Nobody
    Gated <- Nobody
    MaxGen = 2
    MaxFaults = 2
SPECIFICATION WMSpec
INVARIANTS
    StartingIsProbed
    CommandsHaveRunner
    ReportedGenIsReal
    WMInv
SYMMETRY Interchange
