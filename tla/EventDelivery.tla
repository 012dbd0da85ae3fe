----------------------------- MODULE EventDelivery -----------------------------
(***************************************************************************)
(* What the event path promises: an event is only sent after it was        *)
(* committed, only marked after it was sent or given up, once, together    *)
(* with its dead letter, and only audited after it was sent, a bounded     *)
(* number of times.  Nothing of this is ever taken back.                   *)
(***************************************************************************)
EXTENDS Naturals

CONSTANTS Events, Limit

VARIABLES
    accepted,   \* events that were committed to the outbox
    sent,       \* events Kafka has
    marked,     \* events the publisher is done with
    dead,       \* events that were given up
    audits      \* number of audit rows of each event

vars == <<accepted, sent, marked, dead, audits>>

Init ==
    /\ accepted = {} /\ sent = {} /\ marked = {} /\ dead = {}
    /\ audits = [e \in Events |-> 0]

Accept(e) ==
    /\ e \notin accepted
    /\ accepted' = accepted \cup {e}
    /\ UNCHANGED <<sent, marked, dead, audits>>

(* An event is sent as often as it takes, even after it was given up.      *)
Send(e) ==
    /\ e \in accepted
    /\ sent' = sent \cup {e}
    /\ UNCHANGED <<accepted, marked, dead, audits>>

Mark(batch, lost) ==
    /\ batch \subseteq accepted \ marked
    /\ lost \subseteq batch
    /\ batch \ lost \subseteq sent
    /\ marked' = marked \cup batch
    /\ dead' = dead \cup lost
    /\ UNCHANGED <<accepted, sent, audits>>

Audit(e) ==
    /\ e \in sent
    /\ audits[e] < Limit
    /\ audits' = [audits EXCEPT ![e] = @ + 1]
    /\ UNCHANGED <<accepted, sent, marked, dead>>

Next ==
    \/ \E e \in Events : Accept(e) \/ Send(e) \/ Audit(e)
    \/ \E batch, lost \in SUBSET Events : Mark(batch, lost)

Spec == Init /\ [][Next]_vars

===============================================================================
