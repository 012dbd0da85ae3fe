----------------------------- MODULE EventConsumer -----------------------------
(***************************************************************************)
(* event-consumer: the members of its consumer group.  A topic has one     *)
(* partition, and Kafka's range assignor gives the first partition of all  *)
(* topics to one member, the owner; the others wait.                       *)
(*                                                                         *)
(* For each message a member checks processed_events, inserts the audit    *)
(* row and the processed mark in one database transaction, and commits its *)
(* positions in ALL topics to Kafka.  When handling a message raises,  *)
(* it logs the error and goes on with the next message.                    *)
(***************************************************************************)
EXTENDS Naturals, Sequences, FiniteSets

CONSTANTS
    Events,
    Topics,
    Members,       \* processes of the consumer group
    MaxFailures    \* bound: failures of the database, Kafka and the members

VARIABLES
    log,         \* the topics in Kafka, written by outbox-publisher
    owner,       \* the member the topics are assigned to
    position,    \* how many messages of a topic the owner has been given
    committed,   \* the offsets of the group
    handling,    \* the message each member is handling
    fenced,      \* members at work on a message of an assignment that is over
    processed,   \* rows of processed_events, for this group
    audits,      \* number of "event.consumed" audit rows of each event
    failed,      \* events whose handling raised, as the error log tells
    failures     \* failures so far

group == <<owner, position, committed, fenced>>
consumerVars == <<group, handling, processed, audits, failed, failures>>
vars == <<log, consumerVars>>

(* A message is looked up in processed_events, recorded unless it is there *)
(* (process_event), and then acknowledged (commit).                        *)
Stages == {"none", "handle", "checked", "acknowledge"}
Nothing == [stage |-> "none", events |-> {}]
Handling == [stage : Stages, events : SUBSET Events]

-------------------------------------------------------------------------------
Busy(m) == handling[m].stage # "none"

Failure ==
    /\ failures < MaxFailures
    /\ failures' = failures + 1

Init ==
    /\ log = [t \in Topics |-> <<>>]
    /\ owner \in Members
    /\ position = [t \in Topics |-> 0]
    /\ committed = [t \in Topics |-> 0]
    /\ handling = [m \in Members |-> Nothing]
    /\ fenced = {}
    /\ processed = {}
    /\ audits = [e \in Events |-> 0]
    /\ failed = {}
    /\ failures = 0

(* The iterator returns the next message of some topic and moves its        *)
(* position past it, before it is handled.                                 *)
Fetch(m, t) ==
    /\ ~ Busy(m)
    /\ owner = m
    /\ position[t] < Len(log[t])
    /\ position' = [position EXCEPT ![t] = @ + 1]
    /\ handling' = [handling EXCEPT ![m] =
                      [stage |-> "handle", events |-> {log[t][position'[t]]}]]
    /\ UNCHANGED <<log, owner, committed, fenced, processed, audits, failed,
                   failures>>

(* Slip: the processed mark is not looked at.                              *)
LookUpNothing(m) ==
    /\ handling[m].stage = "handle"
    /\ handling' = [handling EXCEPT ![m].stage = "checked"]
    /\ UNCHANGED <<log, group, processed, audits, failed, failures>>

(* is_already_processed: an event with a processed mark is skipped.        *)
LookUp(m) ==
    /\ handling[m].stage = "handle"
    /\ handling' = [handling EXCEPT ![m].stage =
                      IF handling[m].events \subseteq processed
                      THEN "acknowledge"
                      ELSE "checked"]
    /\ UNCHANGED <<log, group, processed, audits, failed, failures>>

(* The audit row and the mark in one transaction; a mark another member    *)
(* has set meanwhile is no conflict (ON CONFLICT DO NOTHING).              *)
Record(m) ==
    /\ handling[m].stage = "checked"
    /\ audits' = [e \in Events |->
                     audits[e] + IF e \in handling[m].events THEN 1 ELSE 0]
    /\ processed' = processed \cup handling[m].events
    /\ handling' = [handling EXCEPT ![m].stage = "acknowledge"]
    /\ UNCHANGED <<log, group, failed, failures>>

(* Slip: the offset after the next message is committed.                   *)
CommitNextOffsets(m) ==
    /\ handling[m].stage = "acknowledge"
    /\ m \notin fenced
    /\ committed' = [t \in Topics |-> position[t] + 1]
    /\ handling' = [handling EXCEPT ![m] = Nothing]
    /\ UNCHANGED <<log, owner, position, fenced, processed, audits, failed,
                   failures>>

(* consumer.commit() without arguments: the positions of all topics.       *)
CommitOffsets(m) ==
    /\ handling[m].stage = "acknowledge"
    /\ m \notin fenced
    /\ committed' = position
    /\ handling' = [handling EXCEPT ![m] = Nothing]
    /\ UNCHANGED <<log, owner, position, fenced, processed, audits, failed,
                   failures>>

(* Kafka refuses the offsets of an assignment that is over: an error is    *)
(* logged, and the member comes back to the group with the next poll.      *)
CommitRefused(m) ==
    /\ handling[m].stage = "acknowledge"
    /\ m \in fenced
    /\ fenced' = fenced \ {m}
    /\ handling' = [handling EXCEPT ![m] = Nothing]
    /\ UNCHANGED <<log, owner, position, committed, processed, audits, failed,
                   failures>>

(* process_event or commit raises: rolled back, logged, and the loop goes  *)
(* on behind the message.                                                  *)
HandlingFails(m) ==
    /\ Busy(m)
    /\ Failure
    /\ failed' = IF handling[m].stage = "acknowledge"
                 THEN failed
                 ELSE failed \cup handling[m].events
    /\ handling' = [handling EXCEPT ![m] = Nothing]
    /\ fenced' = fenced \ {m}
    /\ UNCHANGED <<log, owner, position, committed, processed, audits>>

(* Slip: the new consumer starts at the end (auto_offset_reset="latest").  *)
RestartAtEnd(m) ==
    /\ Failure
    /\ handling' = [handling EXCEPT ![m] = Nothing]
    /\ position' = [t \in Topics |-> Len(log[t])]
    /\ fenced' = {n \in Members \ {m} : Busy(n)}
    /\ owner' \in Members \ fenced'
    /\ UNCHANGED <<log, committed, processed, audits, failed>>

(* A member dies and comes back, or its loop fails (the iterator, or no    *)
(* database connection for a message) and makes a new consumer.  The group *)
(* is rebalanced: the topics go to a member that is not at work, which     *)
(* starts at the committed offsets; a member that is at work for longer    *)
(* than Kafka waits is no part of it.  With a member that had nothing in   *)
(* hand it is any other rebalance, of a group one joins or leaves.         *)
Restart(m) ==
    /\ Failure
    /\ handling' = [handling EXCEPT ![m] = Nothing]
    /\ position' = committed
    /\ fenced' = {n \in Members \ {m} : Busy(n)}
    /\ owner' \in Members \ fenced'
    /\ UNCHANGED <<log, committed, processed, audits, failed>>

Consume(m) ==
    \/ \E t \in Topics : Fetch(m, t)
    \/ LookUp(m)
    \/ Record(m)
    \/ CommitOffsets(m)
    \/ CommitRefused(m)

ConsumerStep ==
    \E m \in Members : Consume(m) \/ HandlingFails(m) \/ Restart(m)

(* Kafka accepts further messages.                                         *)
Grow ==
    /\ \A t \in Topics : \E more \in Seq(Events) : log'[t] = log[t] \o more
    /\ UNCHANGED consumerVars

Next == ConsumerStep \/ Grow

Spec == Init /\ [][Next]_vars

(* The loop in main never stops.                                           *)
Fairness == \A m \in Members : WF_vars(Consume(m))

-------------------------------------------------------------------------------
(* Properties                                                              *)

(* The state of the group has the shape the code gives it, and it reads    *)
(* and commits within the log.                                             *)
TypeOK ==
    /\ owner \in Members
    /\ handling \in [Members -> Handling]
    /\ fenced \subseteq Members
    /\ processed \subseteq Events
    /\ audits \in [Events -> Nat]
    /\ failed \subseteq Events
    /\ failures \in 0 .. MaxFailures
    /\ \A t \in Topics :
          /\ position[t] \in 0 .. Len(log[t])
          /\ committed[t] \in 0 .. Len(log[t])

(* Duplicate Kafka events are skipped (README.md:219), up to the members   *)
(* that have passed the check together: however often an event is sent or  *)
(* delivered it is audited exactly when it is marked as processed, and by  *)
(* no member twice.  One member audits it once.                            *)
AuditsBounded ==
    \A e \in Events :
        /\ audits[e] > 0 <=> e \in processed
        /\ audits[e] <= Cardinality(Members)

(* What the group's offsets are past was processed, or an error was logged *)
(* for it: a restart or a redelivery loses nothing by itself.              *)
CommittedUnlessFailed ==
    \A t \in Topics : \A i \in 1 .. committed[t] :
        log[t][i] \in processed \cup failed

(* At-least-once delivery (README.md:163): the offsets are only moved past *)
(* events that were processed.  A failure followed by a success on any     *)
(* topic refutes it.                                                       *)
CommittedIsProcessed ==
    \A t \in Topics : \A i \in 1 .. committed[t] : log[t][i] \in processed

===============================================================================
