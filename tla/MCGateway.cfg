CONSTANTS
    a = a
    b = b
    r1 = r1
    r2 = r2
    p1 = p1
    Replicas <- TwoReplicas
    Requests <- TwoRequests
    Prompts <- OnePrompt
SPECIFICATION GWFairSpec
INVARIANTS
    SlotsExact
    AccountedOnce
    SpreadEvenly
PROPERTIES
    ImplementsSlotPool
