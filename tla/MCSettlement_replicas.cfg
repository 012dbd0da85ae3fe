SPECIFICATION Spec
CONSTANTS
    s1 = s1  s2 = s2
    t1 = t1  t2 = t2
    k1 = k1  k2 = k2
    w1 = w1  w2 = w2
    sig1 = sig1  sig2 = sig2
    share = share
    None = None
    Workers <- TwoWorkers
    Settlements <- OneSettlement
    Transactions <- OneTransaction
    Keys <- OneKey
    Signers <- MCSigners
    Shares <- MCShares
    MaxClock = 6
INVARIANTS
    SignedNeedsQuorum
    NoSkippedStage
    StatusReplyConsistent
