------------------------------ MODULE BackOffice ------------------------------
(***************************************************************************)
(* ledger-service, compliance-engine and reconciliation on the database    *)
(* they share, and the events settlement-service commits to it.            *)
(***************************************************************************)
EXTENDS Reconciliation, Compliance

CONSTANT MaxRequests   \* bound: postings and screenings

vars ==
    <<journal, audits, screenings, histories, runs, mismatches, work, faults>>

Requests == Audited("journal.create") \cup Audited("compliance.screen")

Init ==
    /\ audits = {}
    /\ LedgerInit
    /\ ComplianceInit
    /\ ReconciliationInit

LedgerStep ==
    /\ Cardinality(Requests) < MaxRequests
    /\ LedgerNext
    /\ UNCHANGED <<screenings, histories, reconcilerVars>>

ComplianceStep ==
    /\ Cardinality(Requests) < MaxRequests
    /\ ComplianceNext
    /\ UNCHANGED <<journal, histories, reconcilerVars>>

SettlementStep ==
    /\ \E s \in Settlements, status \in AllStates : AppendEvent(s, status)
    /\ UNCHANGED screenings

ReconciliationStep ==
    /\ ReconcilerStep
    /\ UNCHANGED screenings

Next ==
    \/ LedgerStep
    \/ ComplianceStep
    \/ SettlementStep
    \/ ReconciliationStep

Spec == Init /\ [][Next]_vars

-------------------------------------------------------------------------------
(* Properties                                                              *)

(* The type of every variable; a run in hand is the last one started.      *)
TypeOK ==
    /\ journal \subseteq Row
    /\ screenings \subseteq ScreeningRow
    /\ audits \subseteq
           [action : {"journal.create", "compliance.screen",
                      "reconciliation.complete"},
            resource : Journals \cup Screenings \cup (1 .. MaxRuns)]
    /\ histories \in [Settlements -> Seq(AllStates)]
    /\ runs \in Seq(RunRow)
    /\ Len(runs) <= MaxRuns
    /\ mismatches \subseteq RecordedRow
    /\ work \in [stage : Stages, found : SUBSET Mismatch,
                 replayed : SUBSET Row, viewed : SUBSET Row,
                 counted : SUBSET Row]
    /\ faults \in 0 .. MaxFaults
    /\ work.stage # "idle" => runs # <<>>

(* The audit trail accounts for everything the three services have         *)
(* committed and for nothing else: the journals, the screenings, and the   *)
(* runs that were completed, which those left RUNNING or marked ERROR are  *)
(* not, even when some of their mismatches are stored.                     *)
AuditTrailComplete ==
    /\ Audited("journal.create") = {row.journal : row \in journal}
    /\ Audited("compliance.screen") = {row.id : row \in screenings}
    /\ Audited("reconciliation.complete") =
           {r \in DOMAIN runs : runs[r].status \in {"PASSED", "FAILED"}}

===============================================================================
