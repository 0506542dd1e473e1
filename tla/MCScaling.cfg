CONSTANTS
    c1 = c1
    c2 = c2
    Hosts <- FourHosts
    Slots <- FiveGpus
    Supported <- FiveGpus
    Addressed <- WithAddress
    Need = 2
    InstancePorts <- Ports
    RendezvousPorts <- RvPorts
    MaxInst = 4
    MaxUnits = 3
    MaxReplicas = 3
    GroupSizes = {2}
    MaxBroken = 1
    Calls <- TwoCalls
    MaxCalls = 2
    Capacity <- Memory
    Histograms <- SomeHistograms
    UpSets <- AllOrOne
    ManualHosts <- Second
SPECIFICATION ScalingSpec
INVARIANTS
    ScalingTypeOK
    PlacementSound
PROPERTIES
    ScaleReaches
    ServingStopsLast
    GroupsStayWhole
    CountInWindow
SYMMETRY Interchange
CHECK_DEADLOCK FALSE
