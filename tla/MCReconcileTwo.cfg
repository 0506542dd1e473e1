CONSTANTS
    a = a
    b = b
    c1 = c1
    c2 = c2
    Instances <- TwoInstances
    Ports <- OnePort
    Followers <- Nobody
    Gated <- Nobody
    Clients <- OneClient
    SerialApi = TRUE
    MaxGen = 3
    MaxFaults = 0
SPECIFICATION CompetingSpec
INVARIANTS
    PortsUnique
PROPERTIES
    Converges
