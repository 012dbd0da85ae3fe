---------------------------- MODULE SignatureRecord ----------------------------
(***************************************************************************)
(* What signing-gateway promises: a signing call happens at once or not at *)
(* all.  It has a quorum of signers, it adds the shares that are missing   *)
(* to the record of its settlement and changes no other, and only then     *)
(* SIGNED is answered.  Inserts, locks, rollbacks and what other gateways  *)
(* do in between cannot be seen.                                           *)
(***************************************************************************)
CONSTANTS
    Gateways,
    Quorums,       \* the sets of signers that are enough
    Settlements,
    Payloads,
    None           \* no settlement

VARIABLES
    existing,   \* settlements that exist
    record,     \* the stored shares
    signed      \* the SIGNED answers that gateways have still to give

vars == <<existing, record, signed>>

Share(sid, n, payload) == [sid |-> sid, signer |-> n, share |-> payload]

Missing(sid, signers) ==
    {n \in signers : ~ \E row \in record : row.sid = sid /\ row.signer = n}

Init == existing = {} /\ record = {} /\ signed = {}

Register(more) ==
    /\ existing' = existing \cup more
    /\ UNCHANGED <<record, signed>>

(* A call without a settlement stores nothing.                             *)
Sign(g, sid, payload, signers) ==
    /\ \A answer \in signed : answer.gateway # g
    /\ IF sid = None
       THEN UNCHANGED record
       ELSE /\ sid \in existing
            /\ record' = record \cup
                   {Share(sid, n, payload) : n \in Missing(sid, signers)}
    /\ signed' = signed \cup {[gateway |-> g, sid |-> sid, signers |-> signers]}
    /\ UNCHANGED existing

Answer(g) ==
    /\ signed' = {answer \in signed : answer.gateway # g}
    /\ UNCHANGED <<existing, record>>

Next ==
    \/ \E more \in SUBSET Settlements : Register(more)
    \/ \E g \in Gateways, sid \in Settlements \cup {None},
          payload \in Payloads, signers \in Quorums :
          Sign(g, sid, payload, signers)
    \/ \E g \in Gateways : Answer(g)

Spec == Init /\ [][Next]_vars

===============================================================================
