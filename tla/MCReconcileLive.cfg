CONSTANTS
    a = a
    b = b
    c1 = c1
    c2 = c2
    Instances <- OneInstance
    Ports <- OnePort
    Followers <- Nobody
    Gated <- Nobody
    Clients <- TwoClients
    SerialApi = FALSE
    MaxGen = 2
    MaxFaults = 1
SPECIFICATION FairSpec
PROPERTIES
    Converges
    DeletedIsCleaned
