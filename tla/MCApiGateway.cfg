SPECIFICATION Spec
CONSTANTS
    g1 = g1  g2 = g2
    k1 = k1  k2 = k2
    None = None
    Gateways <- TwoGateways
    Keys <- MCKeys
    MaxSends = 4
    MaxFaults = 2
INVARIANTS
    TypeOK
    ExecutionsBounded
    RepliesAgree
    ErrorsNotExecuted
PROPERTIES
    SettledForEver
CHECK_DEADLOCK FALSE
