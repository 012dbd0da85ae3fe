------------------------------- MODULE MCSigning -------------------------------
(* Instances of Signing for TLC: 2-of-3 signing as in docker-compose.yml.  *)
EXTENDS Signing

CONSTANTS s1, g1, g2, pay1, pay2

OneGateway == {g1}
TwoGateways == {g1, g2}
MCSettlements == {s1}
MCPayloads == {pay1, pay2}
===============================================================================
