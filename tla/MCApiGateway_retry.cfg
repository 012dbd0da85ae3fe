SPECIFICATION Spec
CONSTANTS
    g1 = g1  g2 = g2
    k1 = k1  k2 = k2
    None = None
    Gateways <- OneGateway
    Keys <- MCKeys
    MaxSends = 4
    MaxFaults = 1
INVARIANTS
    ExecutedOnce
CHECK_DEADLOCK FALSE
