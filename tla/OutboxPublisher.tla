---------------------------- MODULE OutboxPublisher ----------------------------
(***************************************************************************)
(* outbox-publisher: moves committed outbox rows to Kafka.                 *)
(*                                                                         *)
(* A publisher polls a batch of unpublished rows, which it locks, sends    *)
(* them one by one and marks each as published, or as published AND dead   *)
(* lettered when sending fails; all marks of a batch are committed in one  *)
(* database transaction after the last send.  Kafka keeps what it was sent *)
(* whether or not that transaction commits.                                *)
(*                                                                         *)
(* An event is a number, and the order of the numbers is the order of the  *)
(* rows' created_at.                                                       *)
(***************************************************************************)
EXTENDS Naturals, Sequences, FiniteSets

CONSTANTS
    Events,        \* ids of the outbox rows, in the order of created_at
    Topics,
    TopicOf,       \* the topic of each event
    Publishers,    \* instances of outbox-publisher
    BatchSize,     \* BATCH_SIZE
    MaxRetries,    \* MAX_RETRIES
    MaxFaults      \* bound: failures of Kafka, the database and publishers

VARIABLES
    outbox,      \* committed rows of outbox_events
    published,   \* those with published_at set
    dlq,         \* rows of dead_letter_queue
    log,         \* what Kafka has accepted, by topic
    polls,       \* the open batch of each publisher
    buffered,    \* records given up on that the Kafka client still holds
    faults       \* failures so far

vars == <<outbox, published, dlq, log, polls, buffered, faults>>

DeadLetter == [event : Events, retry_count : Nat]

(* `todo' are the locked rows still to be sent; `marked' and `dead' are    *)
(* the uncommitted updates and dead letters of the batch.                  *)
Poll ==
    [todo : SUBSET Events, marked : SUBSET Events, dead : SUBSET Events]

NoPoll == [todo |-> {}, marked |-> {}, dead |-> {}]

-------------------------------------------------------------------------------
Locked(p) == polls[p].todo \cup polls[p].marked

Idle(p) == polls[p] = NoPoll

(* The row the loop over the batch is at.                                  *)
NextOf(p, e) ==
    /\ e \in polls[p].todo
    /\ \A f \in polls[p].todo : e <= f

SendTo(t, e) == [log EXCEPT ![t] = Append(@, e)]

(* The dead letter of e: its retry_count is the literal 1.                 *)
Letter(e) == [event |-> e, retry_count |-> 1]

Fault ==
    /\ faults < MaxFaults
    /\ faults' = faults + 1

Init ==
    /\ outbox = {}
    /\ published = {}
    /\ dlq = {}
    /\ log = [t \in Topics |-> <<>>]
    /\ polls = [p \in Publishers |-> NoPoll]
    /\ buffered = {}
    /\ faults = 0

(* A service commits a business change together with its outbox row;       *)
(* commits need not come in the order of created_at.                       *)
WriteOutbox(e) ==
    /\ e \notin outbox
    /\ outbox' = outbox \cup {e}
    /\ UNCHANGED <<published, dlq, log, polls, buffered, faults>>

(* Slip: FOR UPDATE SKIP LOCKED is missing.                                *)
PollWithoutLocks(p, batch) ==
    LET candidates == outbox \ published
    IN  /\ Idle(p)
        /\ batch \subseteq candidates /\ batch # {}
        /\ Cardinality(batch) <= BatchSize
        /\ Cardinality(batch) < BatchSize => batch = candidates
        /\ \A e \in batch, f \in candidates \ batch : e < f
        /\ polls' = [polls EXCEPT ![p] = [NoPoll EXCEPT !.todo = batch]]
        /\ UNCHANGED <<outbox, published, dlq, log, buffered, faults>>

(* Slip: rows wait until there is a full batch of them.                    *)
PollFullBatch(p, batch) ==
    LET candidates ==
            (outbox \ published) \ UNION {Locked(q) : q \in Publishers}
    IN  /\ Idle(p)
        /\ batch \subseteq candidates
        /\ Cardinality(batch) = BatchSize
        /\ \A e \in batch, f \in candidates \ batch : e < f
        /\ polls' = [polls EXCEPT ![p] = [NoPoll EXCEPT !.todo = batch]]
        /\ UNCHANGED <<outbox, published, dlq, log, buffered, faults>>

(* SELECT ... WHERE published_at IS NULL ORDER BY created_at LIMIT n FOR   *)
(* UPDATE SKIP LOCKED.                                                     *)
PollBatch(p, batch) ==
    LET candidates ==
            (outbox \ published) \ UNION {Locked(q) : q \in Publishers}
    IN  /\ Idle(p)
        /\ batch \subseteq candidates /\ batch # {}
        /\ Cardinality(batch) <= BatchSize
        /\ Cardinality(batch) < BatchSize => batch = candidates
        /\ \A e \in batch, f \in candidates \ batch : e < f
        /\ polls' = [polls EXCEPT ![p] = [NoPoll EXCEPT !.todo = batch]]
        /\ UNCHANGED <<outbox, published, dlq, log, buffered, faults>>

(* Kafka acknowledges e within the 10 seconds the publisher waits.         *)
PublishAcked(p, e) ==
    /\ NextOf(p, e)
    /\ log' = SendTo(TopicOf[e], e)
    /\ polls' = [polls EXCEPT ![p].todo = @ \ {e}, ![p].marked = @ \cup {e}]
    /\ UNCHANGED <<outbox, published, dlq, buffered, faults>>

(* The acknowledgement was lost and the client sent e again by itself      *)
(* (retries=3, and the producer is not an idempotent one).                 *)
PublishTwice(p, e) ==
    /\ NextOf(p, e)
    /\ Fault
    /\ log' = [log EXCEPT ![TopicOf[e]] = @ \o <<e, e>>]
    /\ polls' = [polls EXCEPT ![p].todo = @ \ {e}, ![p].marked = @ \cup {e}]
    /\ UNCHANGED <<outbox, published, dlq, buffered>>

(* Slip: the event is marked and no dead letter is written.                *)
ForgetEvent(p, e) ==
    /\ NextOf(p, e)
    /\ Fault
    /\ polls' = [polls EXCEPT ![p].todo = @ \ {e}, ![p].marked = @ \cup {e}]
    /\ UNCHANGED <<outbox, published, dlq, log, buffered>>

(* Sending fails: move_to_dlq inserts the dead letter and marks the row.   *)
PublishRefused(p, e) ==
    /\ NextOf(p, e)
    /\ Fault
    /\ polls' = [polls EXCEPT ![p].todo = @ \ {e}, ![p].marked = @ \cup {e},
                              ![p].dead = @ \cup {e}]
    /\ UNCHANGED <<outbox, published, dlq, log, buffered>>

(* The wait times out: the same, but the client still holds the record.    *)
PublishTimedOut(p, e) ==
    /\ NextOf(p, e)
    /\ Fault
    /\ polls' = [polls EXCEPT ![p].todo = @ \ {e}, ![p].marked = @ \cup {e},
                              ![p].dead = @ \cup {e}]
    /\ buffered' = buffered \cup {e}
    /\ UNCHANGED <<outbox, published, dlq, log>>

(* The client delivers a record nobody waits for any more ...              *)
DeliverLate(e) ==
    /\ e \in buffered
    /\ log' = SendTo(TopicOf[e], e)
    /\ buffered' = buffered \ {e}
    /\ UNCHANGED <<outbox, published, dlq, polls, faults>>

(* ... or gives it up, or dies with it.                                    *)
DropLate(e) ==
    /\ e \in buffered
    /\ buffered' = buffered \ {e}
    /\ UNCHANGED <<outbox, published, dlq, log, polls, faults>>

CommitBatch(p) ==
    /\ polls[p].todo = {}
    /\ ~ Idle(p)
    /\ published' = published \cup polls[p].marked
    /\ dlq' = dlq \cup {Letter(e) : e \in polls[p].dead}
    /\ polls' = [polls EXCEPT ![p] = NoPoll]
    /\ UNCHANGED <<outbox, log, buffered, faults>>

(* A database statement or the commit fails, or the process dies: every    *)
(* mark of the batch is rolled back, what was sent stays sent.             *)
AbortBatch(p) ==
    /\ ~ Idle(p)
    /\ Fault
    /\ polls' = [polls EXCEPT ![p] = NoPoll]
    /\ UNCHANGED <<outbox, published, dlq, log, buffered>>

Publish(p) ==
    \/ \E batch \in SUBSET Events : PollBatch(p, batch)
    \/ \E e \in Events : PublishAcked(p, e)
    \/ CommitBatch(p)

Next ==
    \/ \E e \in Events : WriteOutbox(e)
    \/ \E p \in Publishers : Publish(p)
    \/ \E p \in Publishers, e \in Events :
          \/ PublishTwice(p, e)
          \/ PublishRefused(p, e)
          \/ PublishTimedOut(p, e)
    \/ \E e \in Events : DeliverLate(e) \/ DropLate(e)
    \/ \E p \in Publishers : AbortBatch(p)

Spec == Init /\ [][Next]_vars

(* main polls for ever, and every send ends within its 10 seconds.         *)
Fairness == \A p \in Publishers : WF_vars(Publish(p))

-------------------------------------------------------------------------------
(* Properties                                                              *)

Sent(e) == \E i \in DOMAIN log[TopicOf[e]] : log[TopicOf[e]][i] = e

(* The rows and the batches have the shape the code gives them.            *)
TypeOK ==
    /\ outbox \subseteq Events
    /\ published \subseteq outbox
    /\ dlq \subseteq DeadLetter
    /\ log \in [Topics -> Seq(Events)]
    /\ polls \in [Publishers -> Poll]
    /\ buffered \subseteq Events
    /\ faults \in 0 .. MaxFaults

(* A row that is marked as published was accepted by Kafka or is in the    *)
(* dead letter queue, although sending is not part of the transaction that *)
(* marks it (publisher.py:107-130).                                        *)
NoSilentLoss ==
    \A e \in published : Sent(e) \/ \E row \in dlq : row.event = e

(* Whatever the number of publishers, as long as nothing fails every event *)
(* is sent at most once and none is dead lettered: two open batches never  *)
(* share a row (publisher.py:68-69, SKIP LOCKED).                          *)
NoFaultNoDuplicate ==
    faults = 0 =>
        /\ dlq = {}
        /\ \A t \in Topics : \A i, j \in DOMAIN log[t] :
              log[t][i] = log[t][j] => i = j

(* An event is dead lettered only after MaxRetries attempts                *)
(* (publisher.py:4-6, README.md:160).                                      *)
DeadLettersExhaustedRetries ==
    \A row \in dlq : row.retry_count >= MaxRetries

(* An event that is committed to the outbox does not stay unpublished.     *)
EventuallyMarked ==
    \A e \in Events : e \in outbox ~> e \in published

===============================================================================
