CONSTANTS
    a = a
    b = b
    Instances <- TwoInstances
    Ports <- OnePort
    Followers <- OnlyB
    Gated <- OnlyA
    MaxGen = 1
    MaxFaults = 1
SPECIFICATION WMFairSpec
PROPERTIES
    StartingResolves
    CommandsAreApplied
