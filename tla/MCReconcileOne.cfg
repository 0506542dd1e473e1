CONSTANTS
    a = a
    b = b
    c1 = c1
    c2 = c2
    Instances <- OneInstance
    Ports <- OnePort
    Followers <- Nobody
    Gated <- Nobody
    Clients <- OneClient
    SerialApi = TRUE
    MaxGen = 3
    MaxFaults = 2
SPECIFICATION Spec
INVARIANTS
    RestsInAgreement
    WorkerNotAhead
PROPERTIES
    NoRestartStorm
    DetachedStaysDetached
    WMSpec
