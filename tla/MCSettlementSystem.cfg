SPECIFICATION Spec
CONSTANTS
    s1 = s1
    t1 = t1
    k1 = k1
    w1 = w1
    g1 = g1
    pay1 = pay1  pay2 = pay2
    None = None
    Workers <- MCWorkers
    Settlements <- MCSettlements
    Transactions <- MCTransactions
    Keys <- MCKeys
    MaxClock = 4
    Gateways <- MCGateways
    NumNodes = 3
    QuorumThreshold = 2
    Payloads <- MCPayloads
INVARIANTS
    SignedOverOnePayload
PROPERTIES
    SettlementHolds
    SigningHolds
