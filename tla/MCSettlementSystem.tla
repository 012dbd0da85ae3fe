-------------------------- MODULE MCSettlementSystem --------------------------
(* An instance of SettlementSystem for TLC: the deployment of              *)
(* docker-compose.yml, with one settlement and two request bodies.         *)
EXTENDS SettlementSystem

CONSTANTS s1, t1, k1, w1, g1, pay1, pay2

MCWorkers == {w1}
MCGateways == {g1}
MCSettlements == {s1}
MCTransactions == {t1}
MCKeys == {k1}
MCPayloads == {pay1, pay2}
===============================================================================
