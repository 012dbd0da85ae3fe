-------------------------- MODULE SettlementLifecycle --------------------------
(***************************************************************************)
(* What settlement-service promises: every settlement is in one state,     *)
(* moves along the state machine only, one legal step at a time, and is    *)
(* signed only after a quorum of signers has signed it.                    *)
(***************************************************************************)
EXTENDS SettlementStatus

CONSTANTS Settlements, NoStatus

VARIABLES
    status,     \* the state of each settlement, NoStatus before it exists
    approved    \* the settlements a quorum of signers has signed

vars == <<status, approved>>

Init ==
    /\ status = [s \in Settlements |-> NoStatus]
    /\ approved = {}

Create(s) ==
    /\ status[s] = NoStatus
    /\ status' = [status EXCEPT ![s] = "PENDING"]
    /\ UNCHANGED approved

Approve(more) ==
    /\ approved' = approved \cup more
    /\ UNCHANGED status

Move(s, target) ==
    /\ ValidateTransition(status[s], target)
    /\ target = "SIGNED" => s \in approved
    /\ status' = [status EXCEPT ![s] = target]
    /\ UNCHANGED approved

Next ==
    \/ \E s \in Settlements : Create(s)
    \/ \E more \in SUBSET Settlements : Approve(more)
    \/ \E s \in Settlements, target \in AllStates : Move(s, target)

Spec == Init /\ [][Next]_vars

===============================================================================
