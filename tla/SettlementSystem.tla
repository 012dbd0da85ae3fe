--------------------------- MODULE SettlementSystem ---------------------------
(***************************************************************************)
(* settlement-service and signing-gateway on the database they share: the  *)
(* gateway reads the settlements (the foreign key of its rows) and writes  *)
(* the signatures, the service reads the signatures and writes the rest.   *)
(***************************************************************************)
EXTENDS Naturals, FiniteSets

CONSTANTS
    Workers, Settlements, Transactions, Keys, MaxClock,
    Gateways, NumNodes, QuorumThreshold, Payloads, None

(* The gateway's QUORUM_THRESHOLD and the 2 that is written into the view  *)
(* mpc_quorum_status are configured separately; the system needs this.     *)
ASSUME ThresholdsAgree == QuorumThreshold >= 2
ASSUME ConstantsAssumption ==
    /\ MaxClock \in Nat /\ None \notin Settlements
    /\ NumNodes \in Nat /\ QuorumThreshold \in 1 .. NumNodes

VARIABLES
    transactions, settlements, events, requests, clock,   \* the service's
    signatures,                                           \* shared
    calls                                                 \* the gateway's

settlementVars == <<transactions, settlements, events, requests, clock>>
vars == <<transactions, settlements, events, requests, clock, signatures, calls>>

Settle == INSTANCE Settlement WITH
    Signers <- 1 .. NumNodes,
    Shares <- Payloads

Sign == INSTANCE Signing WITH
    registered <- {row.id : row \in settlements}

-------------------------------------------------------------------------------
Init ==
    /\ Settle!Init
    /\ calls = [g \in Gateways |-> Sign!NoCall]

SettlementMoves == (\E w \in Workers : Settle!WorkerStep(w)) /\ UNCHANGED calls

SigningMoves ==
    /\ UNCHANGED settlementVars
    /\ \E g \in Gateways : Sign!GatewayStep(g)

Next == SettlementMoves \/ SigningMoves

Spec == Init /\ [][Next]_vars

-------------------------------------------------------------------------------
(* A settlement is SIGNED, or past it, only if two different signers have  *)
(* stored shares of one and the same payload, although the service counts  *)
(* rows without looking at what they sign (view mpc_quorum_status) and the *)
(* gateway stores shares of different calls beside each other.             *)
SignedOverOnePayload ==
    \A e \in events : e.status \in Settle!SignedStates =>
        \E payload \in Payloads :
            \E m, n \in Sign!Nodes :
                /\ m # n
                /\ Sign!Row(e.sid, m, payload) \in signatures
                /\ Sign!Row(e.sid, n, payload) \in signatures

(* Beside the gateway, the service does what Settlement says of it: all it *)
(* meets are signatures that are added.                                    *)
SettlementHolds == Settle!Spec

(* Beside the service, the gateway does what Signing says of it.           *)
SigningHolds == Sign!Spec

===============================================================================
