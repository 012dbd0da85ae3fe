----------------------------- MODULE EventPipeline -----------------------------
(***************************************************************************)
(* The event path: outbox rows, outbox-publisher, Kafka, event-consumer.   *)
(* The two services share nothing but the topics.                          *)
(***************************************************************************)
EXTENDS Naturals, Sequences, FiniteSets

CONSTANTS
    Events, Topics, TopicOf, Publishers, BatchSize, MaxRetries,
    Members, MaxFaults, MaxFailures

ASSUME EventsAssumption == Events \subseteq Nat
ASSUME TopicAssumption == TopicOf \in [Events -> Topics]
ASSUME BatchAssumption == BatchSize \in Nat \ {0}
ASSUME MembersAssumption == IsFiniteSet(Members)
ASSUME BoundAssumption ==
    MaxFaults \in Nat /\ MaxFailures \in Nat /\ MaxRetries \in Nat

VARIABLES
    outbox, published, dlq, polls, buffered, faults,
    log,
    owner, position, committed, handling, fenced, processed, audits, failed,
    failures

Publisher == INSTANCE OutboxPublisher
Consumer == INSTANCE EventConsumer

publisherVars == <<outbox, published, dlq, polls, buffered, faults>>
consumerVars ==
    <<owner, position, committed, handling, fenced, processed, audits, failed,
      failures>>
vars == <<publisherVars, log, consumerVars>>

Init == Publisher!Init /\ Consumer!Init

(* One of the two services takes a step of its own.                        *)
PublisherMoves == Publisher!Next /\ UNCHANGED consumerVars
ConsumerMoves == Consumer!ConsumerStep /\ UNCHANGED publisherVars

Next == PublisherMoves \/ ConsumerMoves

Spec == Init /\ [][Next]_vars

FairSpec == Spec /\ Publisher!Fairness /\ Consumer!Fairness

-------------------------------------------------------------------------------
(* Properties: those of the parts, and of the whole path.                  *)

(* Both parts are well typed.                                              *)
TypeOK == Publisher!TypeOK /\ Consumer!TypeOK

(* See OutboxPublisher: nothing is marked published without a trace.       *)
NoSilentLoss == Publisher!NoSilentLoss

(* See OutboxPublisher: without failures nothing is sent twice.            *)
NoFaultNoDuplicate == Publisher!NoFaultNoDuplicate

(* See OutboxPublisher: retries before the dead letter queue.              *)
DeadLettersExhaustedRetries == Publisher!DeadLettersExhaustedRetries

(* See EventConsumer: no member audits an event twice, whatever the        *)
(* publishers and Kafka repeat.                                            *)
AuditsBounded == Consumer!AuditsBounded

(* See EventConsumer: the offsets hide no event without an error.          *)
CommittedUnlessFailed == Consumer!CommittedUnlessFailed

(* See EventConsumer: at-least-once delivery.                              *)
CommittedIsProcessed == Consumer!CommittedIsProcessed

(* See OutboxPublisher: no row stays unpublished.                          *)
EventuallyMarked == Publisher!EventuallyMarked

(* Every committed outbox row ends up audited, in the dead letter queue or *)
(* in the consumer's error log, through any bounded number of crashes,     *)
(* timeouts and lost acknowledgements.                                     *)
EventuallyAccountedFor ==
    \A e \in Events :
        e \in outbox ~>
            \/ e \in processed
            \/ \E row \in dlq : row.event = e
            \/ e \in failed

InKafka ==
    {e \in Events : \E t \in Topics : \E i \in DOMAIN log[t] : log[t][i] = e}

(* The path implements EventDelivery, whose events are sent when some      *)
(* topic has them and audited at most once by each member of the group.    *)
Delivery == INSTANCE EventDelivery WITH
    accepted <- outbox,
    sent <- InKafka,
    marked <- published,
    dead <- {row.event : row \in dlq},
    Limit <- Cardinality(Members)

(* Whatever fails, the path only does what EventDelivery allows: an event  *)
(* is marked once and with its dead letter, by whichever publisher, and    *)
(* what reaches the audit trail was committed and sent before.             *)
ImplementsDelivery == Delivery!Spec

===============================================================================
