--------------------------- MODULE SettlementStatus ---------------------------
(***************************************************************************)
(* The settlement state machine, which the repository writes down twice:   *)
(* as a Python table (src/shared/state_machine.py) and as the condition of *)
(* a database trigger (src/db/init/001-schema.sql).  Only the trigger is   *)
(* consulted when a settlement moves.                                      *)
(***************************************************************************)

AllStates ==
    {"PENDING", "APPROVED", "SIGNED", "BROADCASTED", "CONFIRMED", "FAILED"}

TerminalStates == {"CONFIRMED", "FAILED"}

ValidTransitions ==
    [PENDING     |-> {"APPROVED", "FAILED"},
     APPROVED    |-> {"SIGNED", "FAILED"},
     SIGNED      |-> {"BROADCASTED", "FAILED"},
     BROADCASTED |-> {"CONFIRMED", "FAILED"}]

(* TRUE where validate_transition returns, FALSE where it raises.          *)
ValidateTransition(current, target) ==
    /\ current \notin TerminalStates
    /\ current \in DOMAIN ValidTransitions
    /\ target \in ValidTransitions[current]

(* The trigger's verdict on a new row of a settlement that has events.     *)
TriggerAllows(current, new) ==
    /\ current \notin {"CONFIRMED", "FAILED"}
    /\ \/ current = "PENDING"     /\ new \in {"APPROVED", "FAILED"}
       \/ current = "APPROVED"    /\ new \in {"SIGNED", "FAILED"}
       \/ current = "SIGNED"      /\ new \in {"BROADCASTED", "FAILED"}
       \/ current = "BROADCASTED" /\ new \in {"CONFIRMED", "FAILED"}

(* The states a settlement only reaches through SIGNED.                    *)
SignedStates == {"SIGNED", "BROADCASTED", "CONFIRMED"}

===============================================================================
