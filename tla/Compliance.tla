------------------------------ MODULE Compliance ------------------------------
(***************************************************************************)
(* compliance-engine: POST /screen decides about one entity, by one type   *)
(* of screening, and stores the decision with its audit row.               *)
(***************************************************************************)
EXTENDS AuditTrail

CONSTANTS
    Screenings,   \* screening ids (fresh)
    Entities,     \* entity ids, as clients spell them
    Upper,        \* str.upper of each
    Sanctioned,   \* SANCTIONED_ENTITIES, in capitals
    Pep,          \* PEP_ENTITIES, in capitals
    HashRisky     \* the spellings whose sha256 begins with 00

VARIABLE screenings   \* rows of compliance_screenings

(* What the table accepts; a request of another type is decided, and then  *)
(* refused by the CHECK.                                                   *)
ScreeningTypes == {"KYC", "AML", "SANCTIONS", "PEP", "FULL"}

ScreeningRow ==
    [id : Screenings, entity : Entities, type : ScreeningTypes,
     is_cleared : BOOLEAN]

(* Slip: the entity is looked up as the client spells it.                  *)
ClearedAsSpelled(entity, type) ==
    CASE type \in {"SANCTIONS", "FULL"} -> entity \notin Sanctioned
      [] type = "PEP" -> entity \notin Pep
      [] type = "AML" -> entity \notin HashRisky
      [] OTHER -> entity \notin Sanctioned /\ entity \notin Pep

(* is_cleared.  The lists are in capitals; the hash is of the id itself.   *)
Cleared(entity, type) ==
    CASE type \in {"SANCTIONS", "FULL"} -> Upper[entity] \notin Sanctioned
      [] type = "PEP" -> Upper[entity] \notin Pep
      [] type = "AML" -> entity \notin HashRisky
      [] OTHER -> Upper[entity] \notin Sanctioned \cup Pep

ComplianceInit == screenings = {}

(* One transaction; a request that fails leaves nothing of it.             *)
Screen(id, entity, type) ==
    /\ \A row \in screenings : row.id # id
    /\ screenings' = screenings \cup
           {[id |-> id, entity |-> entity, type |-> type,
             is_cleared |-> Cleared(entity, type)]}
    /\ Audit("compliance.screen", id)

ComplianceNext ==
    \E id \in Screenings, entity \in Entities, type \in ScreeningTypes :
        Screen(id, entity, type)

(* Decisions about one entity agree, however the clients spelled it and    *)
(* whenever they asked: one type of screening says the same each time, and *)
(* an entity that KYC clears is cleared by the lists KYC stands for.  AML  *)
(* is left out: it hashes the spelling.                                    *)
ScreeningsAgree ==
    \A one, other \in screenings :
        /\ Upper[one.entity] = Upper[other.entity]
        /\ one.type # "AML"
        /\ \/ one.type = other.type
           \/ one.type = "KYC" /\ other.type # "AML"
        /\ one.is_cleared
        => other.is_cleared

===============================================================================
