SPECIFICATION FairSpec
CONSTANTS
    s1 = s1
    g1 = g1  g2 = g2
    pay1 = pay1  pay2 = pay2
    None = None
    NumNodes = 3
    QuorumThreshold = 2
    Gateways <- TwoGateways
    Settlements <- MCSettlements
    Payloads <- MCPayloads
INVARIANTS
    TypeOK
    StoredQuorumAgrees
    SignedReplyIsStored
    OneSharePerSigner
    NoWaitCycle
PROPERTIES
    CallTerminates
    ImplementsSignatureRecord
