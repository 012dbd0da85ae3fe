----------------------------- MODULE MCSettlement -----------------------------
(* Instances of Settlement for TLC.                                        *)
EXTENDS Settlement, TLC

CONSTANTS s1, s2, t1, t2, k1, k2, w1, w2, sig1, sig2, share

OneWorker == {w1}
TwoWorkers == {w1, w2}
MCSettlements == {s1, s2}
OneSettlement == {s1}
MCTransactions == {t1, t2}
OneTransaction == {t1}
MCKeys == {k1, k2}
OneKey == {k1}
MCSigners == {sig1, sig2}
MCShares == {share}

(* Ids, keys and signers are interchangeable.                              *)
Symmetry ==
    Permutations(MCSettlements) \cup Permutations(MCTransactions)
        \cup Permutations(MCKeys) \cup Permutations(MCSigners)
===============================================================================
