----------------------------- MODULE MCApiGateway -----------------------------
(* Instances of ApiGateway for TLC.                                        *)
EXTENDS ApiGateway

CONSTANTS g1, g2, k1, k2

OneGateway == {g1}
TwoGateways == {g1, g2}
MCKeys == {k1, k2}
===============================================================================
