------------------------------ MODULE AuditTrail ------------------------------
(***************************************************************************)
(* The append-only table audit_events, to which every service adds a row   *)
(* in the transaction the row is about.                                    *)
(***************************************************************************)

VARIABLE audits   \* rows of audit_events

AuditRow(action, resource) == [action |-> action, resource |-> resource]

Audit(action, resource) == audits' = audits \cup {AuditRow(action, resource)}

(* The resources that have a row with this action.                         *)
Audited(action) ==
    {row.resource : row \in {a \in audits : a.action = action}}

===============================================================================
