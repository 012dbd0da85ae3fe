-------------------------- MODULE EventPipelineProofs --------------------------
(***************************************************************************)
(* Theorems about the event path, for any events, topics, publishers,      *)
(* members, batch size and number of failures.                             *)
(***************************************************************************)
EXTENDS EventPipeline, FiniteSetTheorems, TLAPS

-------------------------------------------------------------------------------
(* The publisher                                                           *)

(* The rows a batch holds are committed, unpublished and held by no other  *)
(* batch; a row that is marked was sent or is to be dead lettered.         *)
BatchInv ==
    \A p \in Publishers :
        /\ Publisher!Locked(p) \subseteq outbox \ published
        /\ polls[p].todo \cap polls[p].marked = {}
        /\ polls[p].dead \subseteq polls[p].marked
        /\ \A q \in Publishers \ {p} :
              Publisher!Locked(p) \cap Publisher!Locked(q) = {}

MarkedInv ==
    \A p \in Publishers : \A e \in polls[p].marked :
        Publisher!Sent(e) \/ e \in polls[p].dead

Marked == UNION {polls[p].marked : p \in Publishers}

(* Without failures nothing is given up, and what is in Kafka is marked.   *)
CleanInv ==
    faults = 0 =>
        /\ dlq = {}
        /\ buffered = {}
        /\ \A p \in Publishers : polls[p].dead = {}
        /\ \A t \in Topics : \A i \in DOMAIN log[t] :
              log[t][i] \in published \cup Marked
        /\ \A t \in Topics : \A i, j \in DOMAIN log[t] :
              log[t][i] = log[t][j] => i = j

PublisherInv ==
    /\ Publisher!TypeOK
    /\ BatchInv
    /\ MarkedInv
    /\ NoSilentLoss
    /\ CleanInv

(* The topics only grow at their ends.                                     *)
LogGrows ==
    /\ log' \in [Topics -> Seq(Events)]
    /\ \A t \in Topics :
          /\ Len(log[t]) <= Len(log'[t])
          /\ \A i \in 1 .. Len(log[t]) : log'[t][i] = log[t][i]

LEMMA SentStays ==
    ASSUME log \in [Topics -> Seq(Events)], LogGrows,
           NEW e \in Events, Publisher!Sent(e)
    PROVE  Publisher!Sent(e)'
<1>1. TopicOf[e] \in Topics
  BY TopicAssumption
<1>2. PICK i \in DOMAIN log[TopicOf[e]] : log[TopicOf[e]][i] = e
  BY DEF Publisher!Sent
<1>3. i \in 1 .. Len(log[TopicOf[e]])
  BY <1>1, <1>2
<1>4. i \in DOMAIN log'[TopicOf[e]] /\ log'[TopicOf[e]][i] = e
  BY <1>1, <1>2, <1>3 DEF LogGrows
<1> QED BY <1>4 DEF Publisher!Sent

(* Appending a message.                                                    *)
LEMMA SendGrows ==
    ASSUME log \in [Topics -> Seq(Events)], NEW e \in Events,
           log' = Publisher!SendTo(TopicOf[e], e)
    PROVE  /\ LogGrows
           /\ Publisher!Sent(e)'
           /\ log'[TopicOf[e]] = Append(log[TopicOf[e]], e)
           /\ \A t \in Topics \ {TopicOf[e]} : log'[t] = log[t]
<1>1. TopicOf[e] \in Topics
  BY TopicAssumption
<1>2. log' = [log EXCEPT ![TopicOf[e]] = Append(@, e)]
  BY DEF Publisher!SendTo
<1>3. /\ log'[TopicOf[e]] = Append(log[TopicOf[e]], e)
      /\ \A t \in Topics \ {TopicOf[e]} : log'[t] = log[t]
      /\ log' \in [Topics -> Seq(Events)]
  <2> DEFINE new == Append(log[TopicOf[e]], e)
  <2>1. new \in Seq(Events) /\ log' = [log EXCEPT ![TopicOf[e]] = new]
    BY <1>1, <1>2
  <2> HIDE DEF new
  <2>2. /\ log'[TopicOf[e]] = new
        /\ \A t \in Topics \ {TopicOf[e]} : log'[t] = log[t]
        /\ log' \in [Topics -> Seq(Events)]
    BY <1>1, <2>1
  <2> QED BY <2>2 DEF new
<1>4. LogGrows
  <2>1. log[TopicOf[e]] \in Seq(Events)
    BY <1>1
  <2>2. /\ Len(log'[TopicOf[e]]) = Len(log[TopicOf[e]]) + 1
        /\ \A i \in 1 .. Len(log[TopicOf[e]]) :
              log'[TopicOf[e]][i] = log[TopicOf[e]][i]
    BY <1>3, <2>1
  <2>3. ASSUME NEW t \in Topics
        PROVE  /\ Len(log[t]) <= Len(log'[t])
               /\ \A i \in 1 .. Len(log[t]) : log'[t][i] = log[t][i]
    <3>1. Len(log[t]) \in Nat
      OBVIOUS
    <3>2. CASE t = TopicOf[e]
      <4>1. Len(log[t]) <= Len(log'[t])
        BY <2>2, <3>1, <3>2
      <4> QED BY <2>2, <3>2, <4>1
    <3>3. CASE t # TopicOf[e]
      <4>1. log'[t] = log[t]
        BY <1>3, <3>3
      <4> QED BY <3>1, <4>1
    <3> QED BY <3>2, <3>3
  <2> QED BY <1>3, <2>3 DEF LogGrows
<1>5. /\ Len(log'[TopicOf[e]]) \in DOMAIN log'[TopicOf[e]]
      /\ log'[TopicOf[e]][Len(log'[TopicOf[e]])] = e
  BY <1>1, <1>3
<1>6. Publisher!Sent(e)'
  BY <1>5 DEF Publisher!Sent
<1> QED BY <1>3, <1>4, <1>6

LEMMA SendTwiceGrows ==
    ASSUME log \in [Topics -> Seq(Events)], NEW e \in Events,
           log' = [log EXCEPT ![TopicOf[e]] = @ \o <<e, e>>]
    PROVE  LogGrows /\ Publisher!Sent(e)'
<1>1. TopicOf[e] \in Topics
  BY TopicAssumption
<1>2. /\ log'[TopicOf[e]] = log[TopicOf[e]] \o <<e, e>>
      /\ \A t \in Topics \ {TopicOf[e]} : log'[t] = log[t]
  BY <1>1
<1>3. <<e, e>> \in Seq(Events) /\ Len(<<e, e>>) = 2 /\ <<e, e>>[1] = e
  OBVIOUS
<1>4. log' \in [Topics -> Seq(Events)]
  BY <1>1, <1>3
<1>5. /\ Len(log'[TopicOf[e]]) = Len(log[TopicOf[e]]) + 2
      /\ \A i \in 1 .. Len(log[TopicOf[e]]) :
            log'[TopicOf[e]][i] = log[TopicOf[e]][i]
      /\ log'[TopicOf[e]][Len(log[TopicOf[e]]) + 1] = e
  BY <1>1, <1>2, <1>3
<1>6. LogGrows
  BY <1>1, <1>2, <1>4, <1>5 DEF LogGrows
<1>7. Len(log[TopicOf[e]]) + 1 \in DOMAIN log'[TopicOf[e]]
  BY <1>1, <1>4, <1>5
<1> QED BY <1>5, <1>6, <1>7 DEF Publisher!Sent

(* What a step of the publisher is.                                        *)
PublisherStep ==
    \/ \E e \in Events : Publisher!WriteOutbox(e)
    \/ \E p \in Publishers : \E batch \in SUBSET Events :
          Publisher!PollBatch(p, batch)
    \/ \E p \in Publishers, e \in Events :
          \/ Publisher!PublishAcked(p, e)
          \/ Publisher!PublishTwice(p, e)
          \/ Publisher!PublishRefused(p, e)
          \/ Publisher!PublishTimedOut(p, e)
    \/ \E e \in Events : Publisher!DeliverLate(e) \/ Publisher!DropLate(e)
    \/ \E p \in Publishers : Publisher!CommitBatch(p) \/ Publisher!AbortBatch(p)

LEMMA PublisherMovesStep == PublisherMoves => PublisherStep
  BY DEF PublisherMoves, Publisher!Next, Publisher!Publish, PublisherStep

LEMMA PublisherGrowsLog ==
    ASSUME log \in [Topics -> Seq(Events)], PublisherStep
    PROVE  LogGrows
<1>1. CASE UNCHANGED log
  BY <1>1 DEF LogGrows
<1>2. CASE \E e \in Events : log' = Publisher!SendTo(TopicOf[e], e)
  BY <1>2, SendGrows
<1>3. CASE \E e \in Events :
              log' = [log EXCEPT ![TopicOf[e]] = @ \o <<e, e>>]
  BY <1>3, SendTwiceGrows
<1> QED BY <1>1, <1>2, <1>3
        DEF PublisherStep, Publisher!WriteOutbox, Publisher!PollBatch,
            Publisher!PublishAcked, Publisher!PublishTwice,
            Publisher!PublishRefused, Publisher!PublishTimedOut,
            Publisher!DeliverLate, Publisher!DropLate, Publisher!CommitBatch,
            Publisher!AbortBatch

LEMMA BatchStep ==
    ASSUME Publisher!TypeOK, BatchInv, PublisherStep
    PROVE  BatchInv'
<1> USE DEF BatchInv, Publisher!Locked, Publisher!TypeOK, Publisher!Poll
<1>1. CASE \E e \in Events : Publisher!WriteOutbox(e)
  BY <1>1 DEF Publisher!WriteOutbox
<1>2. ASSUME NEW p \in Publishers, NEW batch \in SUBSET Events,
             Publisher!PollBatch(p, batch)
      PROVE  BatchInv'
  <2>1. /\ polls' = [polls EXCEPT ![p] = [Publisher!NoPoll EXCEPT !.todo = batch]]
        /\ batch \subseteq outbox \ published
        /\ \A q \in Publishers :
              batch \cap (polls[q].todo \cup polls[q].marked) = {}
        /\ outbox' = outbox /\ published' = published
    BY <1>2 DEF Publisher!PollBatch
  <2>2. /\ polls'[p].todo = batch /\ polls'[p].marked = {}
        /\ polls'[p].dead = {}
        /\ \A q \in Publishers \ {p} : polls'[q] = polls[q]
    BY <2>1 DEF Publisher!NoPoll
  <2> QED BY <2>1, <2>2
<1>3. ASSUME NEW p \in Publishers, NEW e \in Events, e \in polls[p].todo,
             UNCHANGED <<outbox, published>>,
             polls'[p].todo = polls[p].todo \ {e},
             polls'[p].marked = polls[p].marked \cup {e},
             polls'[p].dead \subseteq polls[p].dead \cup {e},
             \A q \in Publishers \ {p} : polls'[q] = polls[q]
      PROVE  BatchInv'
  BY <1>3
<1>4. ASSUME NEW p \in Publishers, NEW e \in Events,
             \/ Publisher!PublishAcked(p, e)
             \/ Publisher!PublishTwice(p, e)
             \/ Publisher!PublishRefused(p, e)
             \/ Publisher!PublishTimedOut(p, e)
      PROVE  BatchInv'
  <2>1. /\ e \in polls[p].todo
        /\ UNCHANGED <<outbox, published>>
    BY <1>4 DEF Publisher!PublishAcked, Publisher!PublishTwice,
                Publisher!PublishRefused, Publisher!PublishTimedOut,
                Publisher!NextOf
  <2>2. /\ polls'[p].todo = polls[p].todo \ {e}
        /\ polls'[p].marked = polls[p].marked \cup {e}
        /\ polls'[p].dead \subseteq polls[p].dead \cup {e}
        /\ \A q \in Publishers \ {p} : polls'[q] = polls[q]
    BY <1>4 DEF Publisher!PublishAcked, Publisher!PublishTwice,
                Publisher!PublishRefused, Publisher!PublishTimedOut
  <2> QED BY <1>3, <2>1, <2>2
<1>5. ASSUME NEW p \in Publishers,
             Publisher!CommitBatch(p) \/ Publisher!AbortBatch(p)
      PROVE  BatchInv'
  <2>1. /\ polls' = [polls EXCEPT ![p] = Publisher!NoPoll]
        /\ outbox' = outbox
        /\ published' \subseteq published \cup polls[p].marked
    BY <1>5 DEF Publisher!CommitBatch, Publisher!AbortBatch
  <2>2. /\ polls'[p].todo = {} /\ polls'[p].marked = {}
        /\ polls'[p].dead = {}
        /\ \A q \in Publishers \ {p} : polls'[q] = polls[q]
    BY <2>1 DEF Publisher!NoPoll
  <2> QED BY <2>1, <2>2
<1>6. CASE \E e \in Events : Publisher!DeliverLate(e) \/ Publisher!DropLate(e)
  BY <1>6 DEF Publisher!DeliverLate, Publisher!DropLate
<1> QED BY <1>1, <1>2, <1>4, <1>5, <1>6 DEF PublisherStep

LEMMA PublisherTypeStep ==
    ASSUME Publisher!TypeOK, BatchInv, PublisherStep
    PROVE  Publisher!TypeOK'
<1> USE DEF Publisher!TypeOK
<1>1. log' \in [Topics -> Seq(Events)]
  BY PublisherGrowsLog DEF LogGrows
<1>2. faults' \in 0 .. MaxFaults
  <2>1. faults' = faults \/ Publisher!Fault
    BY DEF PublisherStep, Publisher!WriteOutbox, Publisher!PollBatch,
           Publisher!PublishAcked, Publisher!PublishTwice,
           Publisher!PublishRefused, Publisher!PublishTimedOut,
           Publisher!DeliverLate, Publisher!DropLate, Publisher!CommitBatch,
           Publisher!AbortBatch
  <2> QED BY <2>1, BoundAssumption DEF Publisher!Fault
<1>3. CASE \E e \in Events :
              \/ Publisher!WriteOutbox(e)
              \/ Publisher!DeliverLate(e)
              \/ Publisher!DropLate(e)
  BY <1>1, <1>2, <1>3
     DEF Publisher!WriteOutbox, Publisher!DeliverLate, Publisher!DropLate
<1>4. ASSUME NEW p \in Publishers, NEW batch \in SUBSET Events,
             Publisher!PollBatch(p, batch)
      PROVE  Publisher!TypeOK'
  <2>1. [Publisher!NoPoll EXCEPT !.todo = batch] \in Publisher!Poll
    BY DEF Publisher!NoPoll, Publisher!Poll
  <2> QED BY <1>1, <1>2, <1>4, <2>1 DEF Publisher!PollBatch
<1>5. ASSUME NEW p \in Publishers, NEW e \in Events,
             \/ Publisher!PublishAcked(p, e)
             \/ Publisher!PublishTwice(p, e)
             \/ Publisher!PublishRefused(p, e)
             \/ Publisher!PublishTimedOut(p, e)
      PROVE  Publisher!TypeOK'
  <2>1. polls' \in [Publishers -> Publisher!Poll]
    <3> DEFINE sent(dead) == [todo |-> polls[p].todo \ {e},
                              marked |-> polls[p].marked \cup {e},
                              dead |-> dead]
    <3>1. /\ polls[p] \in Publisher!Poll
          /\ \A dead \in SUBSET Events : sent(dead) \in Publisher!Poll
      BY DEF Publisher!Poll
    <3>2. /\ polls[p].dead \in SUBSET Events
          /\ polls[p].dead \cup {e} \in SUBSET Events
      BY <3>1 DEF Publisher!Poll
    <3>3. \/ polls' = [polls EXCEPT ![p] = sent(polls[p].dead)]
          \/ polls' = [polls EXCEPT ![p] = sent(polls[p].dead \cup {e})]
      BY <1>5, <3>1 DEF Publisher!PublishAcked, Publisher!PublishTwice,
                  Publisher!PublishRefused, Publisher!PublishTimedOut,
                  Publisher!Poll
    <3> HIDE DEF sent
    <3> QED BY <3>1, <3>2, <3>3
  <2>2. UNCHANGED <<outbox, published, dlq>> /\ buffered' \subseteq Events
    BY <1>5 DEF Publisher!PublishAcked, Publisher!PublishTwice,
                Publisher!PublishRefused, Publisher!PublishTimedOut
  <2> QED BY <1>1, <1>2, <2>1, <2>2
<1>6. ASSUME NEW p \in Publishers,
             Publisher!CommitBatch(p) \/ Publisher!AbortBatch(p)
      PROVE  Publisher!TypeOK'
  <2>1. polls' \in [Publishers -> Publisher!Poll]
    BY <1>6 DEF Publisher!CommitBatch, Publisher!AbortBatch,
                Publisher!NoPoll, Publisher!Poll
  <2>2. published' \subseteq outbox' /\ outbox' \subseteq Events
    BY <1>6 DEF Publisher!CommitBatch, Publisher!AbortBatch, BatchInv,
                Publisher!Locked
  <2>3. polls[p].dead \subseteq Events
    BY DEF Publisher!Poll
  <2>4. dlq' \subseteq Publisher!DeadLetter /\ buffered' = buffered
    BY <1>6, <2>3 DEF Publisher!CommitBatch, Publisher!AbortBatch,
                Publisher!DeadLetter, Publisher!Letter
  <2> QED BY <1>1, <1>2, <2>1, <2>2, <2>4
<1> QED BY <1>3, <1>4, <1>5, <1>6 DEF PublisherStep

(* A row leaves the batch sent or with a dead letter.                      *)
LEMMA MarkedStep ==
    ASSUME Publisher!TypeOK, MarkedInv, PublisherStep
    PROVE  MarkedInv'
<1> USE DEF MarkedInv, Publisher!TypeOK, Publisher!Poll
<1>1. LogGrows
  BY PublisherGrowsLog
<1>2. \A e \in Events : Publisher!Sent(e) => Publisher!Sent(e)'
  BY <1>1, SentStays
<1>3. \A p \in Publishers : polls[p].marked \subseteq Events
  OBVIOUS
<1>4. CASE \E e \in Events :
              \/ Publisher!WriteOutbox(e)
              \/ Publisher!DeliverLate(e)
              \/ Publisher!DropLate(e)
  <2>1. polls' = polls
    BY <1>4 DEF Publisher!WriteOutbox, Publisher!DeliverLate,
                Publisher!DropLate
  <2> QED BY <1>2, <1>3, <2>1
<1>5. ASSUME NEW p \in Publishers,
             polls'[p].marked = {},
             \A q \in Publishers \ {p} : polls'[q] = polls[q]
      PROVE  MarkedInv'
  BY <1>2, <1>3, <1>5
<1>6. ASSUME NEW p \in Publishers, NEW batch \in SUBSET Events,
             Publisher!PollBatch(p, batch)
      PROVE  MarkedInv'
  <2>1. /\ polls'[p].marked = {}
        /\ \A q \in Publishers \ {p} : polls'[q] = polls[q]
    BY <1>6 DEF Publisher!PollBatch, Publisher!NoPoll
  <2> QED BY <1>5, <2>1
<1>7. ASSUME NEW p \in Publishers,
             Publisher!CommitBatch(p) \/ Publisher!AbortBatch(p)
      PROVE  MarkedInv'
  <2>1. /\ polls'[p].marked = {}
        /\ \A q \in Publishers \ {p} : polls'[q] = polls[q]
    BY <1>7 DEF Publisher!CommitBatch, Publisher!AbortBatch, Publisher!NoPoll
  <2> QED BY <1>5, <2>1
<1>8. ASSUME NEW p \in Publishers, NEW e \in Events,
             \/ Publisher!PublishAcked(p, e)
             \/ Publisher!PublishTwice(p, e)
             \/ Publisher!PublishRefused(p, e)
             \/ Publisher!PublishTimedOut(p, e)
      PROVE  MarkedInv'
  <2>1. /\ polls'[p].marked = polls[p].marked \cup {e}
        /\ polls[p].dead \subseteq polls'[p].dead
        /\ \A q \in Publishers \ {p} : polls'[q] = polls[q]
    BY <1>8 DEF Publisher!PublishAcked, Publisher!PublishTwice,
                Publisher!PublishRefused, Publisher!PublishTimedOut
  <2>2. Publisher!Sent(e)' \/ e \in polls'[p].dead
    <3>1. CASE Publisher!PublishAcked(p, e)
      BY <3>1, SendGrows DEF Publisher!PublishAcked
    <3>2. CASE Publisher!PublishTwice(p, e)
      BY <3>2, SendTwiceGrows DEF Publisher!PublishTwice
    <3>3. CASE Publisher!PublishRefused(p, e) \/ Publisher!PublishTimedOut(p, e)
      BY <3>3 DEF Publisher!PublishRefused, Publisher!PublishTimedOut
    <3> QED BY <1>8, <3>1, <3>2, <3>3
  <2>3. \A f \in polls'[p].marked :
            Publisher!Sent(f)' \/ f \in polls'[p].dead
    BY <1>2, <1>3, <2>1, <2>2
  <2> QED BY <1>2, <1>3, <2>1, <2>3
<1> QED BY <1>4, <1>6, <1>7, <1>8 DEF PublisherStep

LEMMA LossStep ==
    ASSUME Publisher!TypeOK, MarkedInv, NoSilentLoss, PublisherStep
    PROVE  NoSilentLoss'
<1> USE DEF NoSilentLoss, Publisher!NoSilentLoss, Publisher!TypeOK
<1>1. \A e \in Events : Publisher!Sent(e) => Publisher!Sent(e)'
  BY PublisherGrowsLog, SentStays
<1>2. CASE \E p \in Publishers : Publisher!CommitBatch(p)
  <2>1. PICK p \in Publishers : Publisher!CommitBatch(p)
    BY <1>2
  <2>2. /\ published' = published \cup polls[p].marked
        /\ dlq' = dlq \cup {Publisher!Letter(e) : e \in polls[p].dead}
        /\ log' = log
    BY <2>1 DEF Publisher!CommitBatch
  <2>3. \A e \in polls[p].dead : \E row \in dlq' : row.event = e
    <3> TAKE e \in polls[p].dead
    <3>1. Publisher!Letter(e) \in dlq'
      BY <2>2
    <3>2. Publisher!Letter(e).event = e
      BY DEF Publisher!Letter
    <3> QED BY <3>1, <3>2
  <2>4. \A e \in polls[p].marked : Publisher!Sent(e) \/ e \in polls[p].dead
    BY DEF MarkedInv
  <2>5. \A e \in polls[p].marked : e \in Events
    BY DEF Publisher!Poll
  <2> QED BY <1>1, <2>2, <2>3, <2>4, <2>5
<1>3. CASE UNCHANGED <<published, dlq>>
  BY <1>1, <1>3
<1> QED BY <1>2, <1>3
        DEF PublisherStep, Publisher!WriteOutbox, Publisher!PollBatch,
            Publisher!PublishAcked, Publisher!PublishTwice,
            Publisher!PublishRefused, Publisher!PublishTimedOut,
            Publisher!DeliverLate, Publisher!DropLate, Publisher!AbortBatch

LEMMA CleanStep ==
    ASSUME Publisher!TypeOK, BatchInv, CleanInv, PublisherStep
    PROVE  CleanInv'
<1> USE DEF Publisher!TypeOK, Publisher!Poll
<1> SUFFICES ASSUME faults' = 0
             PROVE  /\ dlq' = {}
                    /\ buffered' = {}
                    /\ \A p \in Publishers : polls'[p].dead = {}
                    /\ \A t \in Topics : \A i \in DOMAIN log'[t] :
                          log'[t][i] \in published' \cup Marked'
                    /\ \A t \in Topics : \A i, j \in DOMAIN log'[t] :
                          log'[t][i] = log'[t][j] => i = j
  BY DEF CleanInv
<1>1. ~ Publisher!Fault
  BY BoundAssumption DEF Publisher!Fault
<1>2. /\ \/ \E e \in Events :
              \/ Publisher!WriteOutbox(e)
              \/ Publisher!DeliverLate(e)
              \/ Publisher!DropLate(e)
         \/ \E p \in Publishers, batch \in SUBSET Events :
               Publisher!PollBatch(p, batch)
         \/ \E p \in Publishers, e \in Events : Publisher!PublishAcked(p, e)
         \/ \E p \in Publishers : Publisher!CommitBatch(p)
      /\ faults = 0
  BY <1>1 DEF PublisherStep, Publisher!WriteOutbox, Publisher!PollBatch,
              Publisher!PublishAcked, Publisher!PublishTwice,
              Publisher!PublishRefused, Publisher!PublishTimedOut,
              Publisher!DeliverLate, Publisher!DropLate,
              Publisher!CommitBatch, Publisher!AbortBatch
<1>3. /\ dlq = {} /\ buffered = {}
      /\ \A p \in Publishers : polls[p].dead = {}
      /\ \A t \in Topics : \A i \in DOMAIN log[t] :
            log[t][i] \in published \cup Marked
      /\ \A t \in Topics : \A i, j \in DOMAIN log[t] :
            log[t][i] = log[t][j] => i = j
  BY <1>2 DEF CleanInv
<1>4. CASE \E e \in Events :
              \/ Publisher!WriteOutbox(e)
              \/ Publisher!DeliverLate(e)
              \/ Publisher!DropLate(e)
  BY <1>3, <1>4 DEF Publisher!WriteOutbox, Publisher!DeliverLate,
                    Publisher!DropLate, Marked
<1>5. CASE \E p \in Publishers, batch \in SUBSET Events :
              Publisher!PollBatch(p, batch)
  <2>1. PICK p \in Publishers, batch \in SUBSET Events :
            Publisher!PollBatch(p, batch)
    BY <1>5
  <2>2. /\ polls[p].marked = {}
        /\ polls' = [polls EXCEPT ![p] =
                        [Publisher!NoPoll EXCEPT !.todo = batch]]
        /\ UNCHANGED <<published, dlq, log, buffered>>
    BY <2>1 DEF Publisher!PollBatch, Publisher!Idle, Publisher!NoPoll
  <2>3. /\ polls'[p].marked = {} /\ polls'[p].dead = {}
        /\ \A q \in Publishers \ {p} : polls'[q] = polls[q]
    BY <2>2 DEF Publisher!NoPoll
  <2>4. Marked' = Marked
    BY <2>2, <2>3 DEF Marked
  <2> QED BY <1>3, <2>2, <2>3, <2>4
<1>6. CASE \E p \in Publishers : Publisher!CommitBatch(p)
  <2>1. PICK p \in Publishers : Publisher!CommitBatch(p)
    BY <1>6
  <2>2. /\ polls' = [polls EXCEPT ![p] = Publisher!NoPoll]
        /\ published' = published \cup polls[p].marked
        /\ dlq' = dlq \cup {Publisher!Letter(e) : e \in polls[p].dead}
        /\ UNCHANGED <<log, buffered>>
    BY <2>1 DEF Publisher!CommitBatch
  <2>3. /\ polls'[p].dead = {}
        /\ \A q \in Publishers \ {p} : polls'[q] = polls[q]
    BY <2>2 DEF Publisher!NoPoll
  <2>4. published \cup Marked \subseteq published' \cup Marked'
    BY <2>2, <2>3 DEF Marked
  <2>5. dlq' = {}
    BY <1>3, <2>2
  <2> QED BY <1>3, <2>2, <2>3, <2>4, <2>5
<1>7. CASE \E p \in Publishers, e \in Events : Publisher!PublishAcked(p, e)
  <2>1. PICK p \in Publishers, e \in Events : Publisher!PublishAcked(p, e)
    BY <1>7
  <2>2. /\ e \in polls[p].todo
        /\ log' = Publisher!SendTo(TopicOf[e], e)
        /\ UNCHANGED <<published, dlq, buffered>>
    BY <2>1 DEF Publisher!PublishAcked, Publisher!NextOf
  <2>3. /\ polls'[p].marked = polls[p].marked \cup {e}
        /\ polls'[p].dead = polls[p].dead
        /\ \A q \in Publishers \ {p} : polls'[q] = polls[q]
    BY <2>1 DEF Publisher!PublishAcked
  <2>4. Marked' = Marked \cup {e}
    BY <2>3 DEF Marked
  <2>5. e \notin published \cup Marked
    BY <2>2 DEF BatchInv, Publisher!Locked, Marked
  <2>6. /\ log'[TopicOf[e]] = Append(log[TopicOf[e]], e)
        /\ \A t \in Topics \ {TopicOf[e]} : log'[t] = log[t]
    BY <2>2, SendGrows
  <2>7. /\ log[TopicOf[e]] \in Seq(Events) /\ TopicOf[e] \in Topics
        /\ \A i \in DOMAIN log[TopicOf[e]] : log[TopicOf[e]][i] # e
    BY <1>3, <2>5, TopicAssumption
  <2>8. /\ \A i \in DOMAIN log'[TopicOf[e]] :
              log'[TopicOf[e]][i] \in published \cup Marked \cup {e}
        /\ \A i, j \in DOMAIN log'[TopicOf[e]] :
              log'[TopicOf[e]][i] = log'[TopicOf[e]][j] => i = j
    BY <1>3, <2>6, <2>7
  <2>9. \A t \in Topics :
            /\ \A i \in DOMAIN log'[t] : log'[t][i] \in published' \cup Marked'
            /\ \A i, j \in DOMAIN log'[t] : log'[t][i] = log'[t][j] => i = j
    <3> TAKE t \in Topics
    <3>1. CASE t = TopicOf[e]
      BY <2>2, <2>4, <2>8, <3>1
    <3>2. CASE t # TopicOf[e]
      <4>1. log'[t] = log[t]
        BY <2>6, <3>2
      <4> QED BY <1>3, <2>2, <2>4, <4>1
    <3> QED BY <3>1, <3>2
  <2> QED BY <1>3, <2>2, <2>3, <2>9
<1> QED BY <1>2, <1>4, <1>5, <1>6, <1>7

LEMMA PublisherInit == Init => PublisherInv
  BY BoundAssumption
     DEF Init, Publisher!Init, PublisherInv, Publisher!TypeOK, BatchInv,
         MarkedInv, NoSilentLoss, Publisher!NoSilentLoss, CleanInv, Marked,
         Publisher!Locked, Publisher!NoPoll, Publisher!Poll

(* The consumer leaves the publisher and the topics alone.                 *)
LEMMA PublisherAlone ==
    ASSUME PublisherInv, UNCHANGED <<publisherVars, log>>
    PROVE  PublisherInv'
  BY DEF PublisherInv, publisherVars, Publisher!TypeOK, BatchInv, MarkedInv,
         NoSilentLoss, Publisher!NoSilentLoss, CleanInv, Marked,
         Publisher!Locked, Publisher!Sent

-------------------------------------------------------------------------------
(* The consumer group                                                      *)

LogType == log \in [Topics -> Seq(Events)]

(* Who is at work and on what.  A member that is at work is the owner,     *)
(* unless its assignment is over.                                          *)
MemberInv(m) ==
    /\ ~ Consumer!Busy(m) => handling[m].events = {}
    /\ Consumer!Busy(m) => \E e \in Events : handling[m].events = {e}
    /\ Consumer!Busy(m) /\ m \notin fenced => m = owner
    /\ handling[m].stage = "acknowledge" =>
           handling[m].events \subseteq processed

GroupInv ==
    /\ Consumer!TypeOK
    /\ position \in [Topics -> Nat]
    /\ committed \in [Topics -> Nat]
    /\ \A m \in Members : MemberInv(m)

(* What the owner was given is accounted for or in its hands.              *)
GivenInv ==
    \A t \in Topics : \A i \in 1 .. position[t] :
        log[t][i] \in processed \cup failed \cup handling[owner].events

(* The members that will audit e, having found no mark of it.              *)
AboutToRecord(e) ==
    {m \in Members : handling[m].stage = "checked" /\ e \in handling[m].events}

(* The audit rows of an event and those to come are by different members.  *)
AuditInv ==
    \A e \in Events :
        /\ audits[e] > 0 <=> e \in processed
        /\ e \in processed =>
               audits[e] + Cardinality(AboutToRecord(e)) <= Cardinality(Members)

LEMMA RestartMember ==
    ASSUME NEW m \in Members, GroupInv, Consumer!Restart(m)
    PROVE  /\ handling' = [handling EXCEPT ![m] = Consumer!Nothing]
           /\ handling'[m].stage = "none" /\ handling'[m].events = {}
           /\ \A n \in Members \ {m} : handling'[n] = handling[n]
           /\ handling' \in [Members -> Consumer!Handling]
           /\ fenced' = {n \in Members \ {m} : Consumer!Busy(n)}
           /\ owner' \in Members \ fenced'
           /\ position' = committed
           /\ UNCHANGED <<log, committed, processed, audits, failed>>
  BY DEF Consumer!Restart, GroupInv, Consumer!TypeOK, Consumer!Nothing,
         Consumer!Handling, Consumer!Stages

LEMMA FailuresStep ==
    ASSUME GroupInv, Consumer!ConsumerStep
    PROVE  failures' \in 0 .. MaxFailures
<1>1. failures' = failures \/ Consumer!Failure
  BY DEF Consumer!ConsumerStep, Consumer!Consume, Consumer!Fetch,
         Consumer!LookUp, Consumer!Record, Consumer!CommitOffsets,
         Consumer!CommitRefused, Consumer!HandlingFails, Consumer!Restart
<1> QED BY <1>1, BoundAssumption DEF Consumer!Failure, GroupInv, Consumer!TypeOK

(* A step of another member leaves what is known of this one.              *)
LEMMA OtherMember ==
    ASSUME NEW n \in Members, MemberInv(n), handling'[n] = handling[n],
           owner' = owner, processed \subseteq processed',
           n \in fenced => n \in fenced'
    PROVE  MemberInv(n)'
  BY DEF MemberInv, Consumer!Busy

LEMMA GroupStep ==
    ASSUME LogType, GroupInv, Consumer!ConsumerStep
    PROVE  GroupInv'
<1> USE DEF GroupInv
<1>1. failures' \in 0 .. MaxFailures
  BY FailuresStep
<1>2. ASSUME NEW m \in Members, NEW t \in Topics, Consumer!Fetch(m, t)
      PROVE  GroupInv'
  <2>1. /\ position[t] < Len(log[t]) /\ Len(log[t]) \in Nat
        /\ position[t] \in Nat /\ owner = m
        /\ position' = [position EXCEPT ![t] = @ + 1]
        /\ handling' = [handling EXCEPT ![m] =
               [stage |-> "handle", events |-> {log[t][position'[t]]}]]
        /\ UNCHANGED <<log, owner, committed, fenced, processed, audits,
                       failed>>
    BY <1>2 DEF Consumer!Fetch, LogType
  <2>2. /\ position'[t] = position[t] + 1
        /\ position'[t] \in 1 .. Len(log[t])
        /\ \A u \in Topics \ {t} : position'[u] = position[u]
        /\ position' \in [Topics -> Nat]
    BY <2>1
  <2>3. log[t][position'[t]] \in Events
    BY <2>2 DEF LogType
  <2>4. /\ handling'[m].stage = "handle"
        /\ handling'[m].events = {log[t][position'[t]]}
        /\ \A n \in Members \ {m} : handling'[n] = handling[n]
        /\ handling' \in [Members -> Consumer!Handling]
    BY <2>1, <2>3 DEF Consumer!TypeOK, Consumer!Handling, Consumer!Stages
  <2>5. MemberInv(m)'
    BY <2>1, <2>3, <2>4 DEF MemberInv, Consumer!Busy
  <2>6. \A n \in Members \ {m} : MemberInv(n)'
    BY <2>1, <2>4, OtherMember
  <2>7. \A u \in Topics : position'[u] \in 0 .. Len(log'[u])
    BY <2>1, <2>2 DEF Consumer!TypeOK
  <2>8. Consumer!TypeOK'
    BY <1>1, <2>1, <2>4, <2>7 DEF Consumer!TypeOK
  <2> QED BY <2>1, <2>2, <2>5, <2>6, <2>8
<1>3. ASSUME NEW m \in Members, Consumer!LookUp(m)
      PROVE  GroupInv'
  <2>1. /\ handling[m].stage = "handle"
        /\ handling'[m].stage = IF handling[m].events \subseteq processed
                                THEN "acknowledge" ELSE "checked"
        /\ handling'[m].events = handling[m].events
        /\ \A n \in Members \ {m} : handling'[n] = handling[n]
        /\ handling' \in [Members -> Consumer!Handling]
        /\ UNCHANGED <<log, owner, position, committed, fenced, processed,
                       audits, failed>>
    BY <1>3 DEF Consumer!LookUp, Consumer!group, Consumer!TypeOK,
                Consumer!Handling, Consumer!Stages
  <2>2. MemberInv(m)'
    BY <2>1 DEF MemberInv, Consumer!Busy
  <2>3. \A n \in Members \ {m} : MemberInv(n)'
    BY <2>1, OtherMember
  <2>4. Consumer!TypeOK'
    BY <1>1, <2>1 DEF Consumer!TypeOK
  <2> QED BY <2>1, <2>2, <2>3, <2>4
<1>4. ASSUME NEW m \in Members, Consumer!Record(m)
      PROVE  GroupInv'
  <2>1. /\ handling[m].stage = "checked"
        /\ handling'[m].stage = "acknowledge"
        /\ handling'[m].events = handling[m].events
        /\ \A n \in Members \ {m} : handling'[n] = handling[n]
        /\ handling' \in [Members -> Consumer!Handling]
        /\ handling[m].events \subseteq Events
        /\ processed' = processed \cup handling[m].events
        /\ UNCHANGED <<log, owner, position, committed, fenced, failed>>
    BY <1>4 DEF Consumer!Record, Consumer!group, Consumer!TypeOK,
                Consumer!Handling, Consumer!Stages
  <2>2. audits' \in [Events -> Nat]
    BY <1>4 DEF Consumer!Record, Consumer!TypeOK
  <2>3. MemberInv(m)'
    BY <2>1 DEF MemberInv, Consumer!Busy
  <2>4. \A n \in Members \ {m} : MemberInv(n)'
    BY <2>1, OtherMember
  <2>5. Consumer!TypeOK'
    BY <1>1, <2>1, <2>2 DEF Consumer!TypeOK
  <2> QED BY <2>1, <2>3, <2>4, <2>5
<1>5. ASSUME NEW m \in Members, Consumer!CommitOffsets(m)
      PROVE  GroupInv'
  <2>1. /\ handling'[m].stage = "none" /\ handling'[m].events = {}
        /\ \A n \in Members \ {m} : handling'[n] = handling[n]
        /\ handling' \in [Members -> Consumer!Handling]
        /\ committed' = position
        /\ UNCHANGED <<log, owner, position, fenced, processed, audits,
                       failed>>
    BY <1>5 DEF Consumer!CommitOffsets, Consumer!Nothing, Consumer!TypeOK,
                Consumer!Handling, Consumer!Stages
  <2>2. MemberInv(m)'
    BY <2>1 DEF MemberInv, Consumer!Busy
  <2>3. \A n \in Members \ {m} : MemberInv(n)'
    BY <2>1, OtherMember
  <2>4. Consumer!TypeOK'
    BY <1>1, <2>1 DEF Consumer!TypeOK
  <2> QED BY <2>1, <2>2, <2>3, <2>4
<1>6. ASSUME NEW m \in Members,
             Consumer!CommitRefused(m) \/ Consumer!HandlingFails(m)
      PROVE  GroupInv'
  <2>1. /\ handling' = [handling EXCEPT ![m] = Consumer!Nothing]
        /\ fenced' = fenced \ {m}
        /\ UNCHANGED <<log, owner, position, committed, processed, audits>>
    BY <1>6 DEF Consumer!CommitRefused, Consumer!HandlingFails
  <2>2. failed' \subseteq failed \cup handling[m].events
    BY <1>6 DEF Consumer!CommitRefused, Consumer!HandlingFails
  <2>3. /\ handling'[m].stage = "none" /\ handling'[m].events = {}
        /\ \A n \in Members \ {m} : handling'[n] = handling[n]
        /\ handling' \in [Members -> Consumer!Handling]
        /\ handling[m].events \subseteq Events
    BY <2>1 DEF Consumer!Nothing, Consumer!TypeOK, Consumer!Handling,
                Consumer!Stages
  <2>4. MemberInv(m)'
    BY <2>3 DEF MemberInv, Consumer!Busy
  <2>5. \A n \in Members \ {m} : MemberInv(n)'
    BY <2>1, <2>3, OtherMember
  <2>6. Consumer!TypeOK'
    BY <1>1, <2>1, <2>2, <2>3 DEF Consumer!TypeOK
  <2> QED BY <2>1, <2>4, <2>5, <2>6
<1>7. ASSUME NEW m \in Members, Consumer!Restart(m)
      PROVE  GroupInv'
  <2>1. Consumer!TypeOK'
    BY <1>1, <1>7, RestartMember DEF Consumer!TypeOK
  <2>2. \A n \in Members : MemberInv(n)'
    BY <1>7, RestartMember DEF MemberInv, Consumer!Busy
  <2> QED BY <1>7, <2>1, <2>2, RestartMember
<1> QED BY <1>2, <1>3, <1>4, <1>5, <1>6, <1>7
        DEF Consumer!ConsumerStep, Consumer!Consume

(* What the owner was given stays accounted for until its offsets are      *)
(* committed, so that what they are past was processed or has failed.      *)
GivenAndCommitted == GivenInv /\ CommittedUnlessFailed

LEMMA GivenStep ==
    ASSUME LogType, GroupInv, GivenAndCommitted, Consumer!ConsumerStep
    PROVE  GivenAndCommitted'
<1> USE DEF GivenAndCommitted, GivenInv, CommittedUnlessFailed,
            Consumer!CommittedUnlessFailed
<1>1. /\ handling \in [Members -> Consumer!Handling] /\ owner \in Members
      /\ position \in [Topics -> Nat] /\ committed \in [Topics -> Nat]
      /\ \A m \in Members : MemberInv(m)
  BY DEF GroupInv, Consumer!TypeOK
<1>2. ASSUME NEW m \in Members, NEW t \in Topics, Consumer!Fetch(m, t)
      PROVE  GivenAndCommitted'
  <2>1. /\ owner = m /\ handling[m].events = {}
        /\ position' = [position EXCEPT ![t] = @ + 1]
        /\ handling' = [handling EXCEPT ![m] =
               [stage |-> "handle", events |-> {log[t][position'[t]]}]]
        /\ UNCHANGED <<log, owner, committed, processed, failed>>
    BY <1>1, <1>2 DEF Consumer!Fetch, MemberInv
  <2>2. /\ position'[t] = position[t] + 1
        /\ \A u \in Topics \ {t} : position'[u] = position[u]
        /\ handling'[owner].events = {log[t][position'[t]]}
    BY <1>1, <2>1
  <2>3. \A i \in 1 .. position'[t] :
            i \in 1 .. position[t] \/ i = position'[t]
    BY <1>1, <2>2
  <2>4. \A u \in Topics : \A i \in 1 .. position[u] :
            log[u][i] \in processed \cup failed
    BY <2>1
  <2> QED BY <2>1, <2>2, <2>3, <2>4
<1>3. ASSUME NEW m \in Members, Consumer!LookUp(m) \/ Consumer!Record(m)
      PROVE  GivenAndCommitted'
  <2>1. /\ \A n \in Members : handling'[n].events = handling[n].events
        /\ processed \subseteq processed'
        /\ UNCHANGED <<log, owner, position, committed, failed>>
    BY <1>1, <1>3 DEF Consumer!LookUp, Consumer!Record, Consumer!group,
                      Consumer!Handling
  <2> QED BY <1>1, <2>1
<1>4. ASSUME NEW m \in Members,
             handling' = [handling EXCEPT ![m] = Consumer!Nothing],
             handling[m].events \subseteq processed \cup failed',
             failed \subseteq failed',
             UNCHANGED <<log, owner, position, processed>>
      PROVE  GivenInv'
  <2>1. \A n \in Members \ {m} : handling'[n] = handling[n]
    BY <1>1, <1>4
  <2> QED BY <1>1, <1>4, <2>1
<1>5. ASSUME NEW m \in Members, Consumer!CommitOffsets(m)
      PROVE  GivenAndCommitted'
  <2>1. /\ owner = m /\ handling[m].events \subseteq processed
    BY <1>1, <1>5 DEF Consumer!CommitOffsets, MemberInv, Consumer!Busy
  <2>2. /\ handling' = [handling EXCEPT ![m] = Consumer!Nothing]
        /\ committed' = position
        /\ UNCHANGED <<log, owner, position, processed, failed>>
    BY <1>5 DEF Consumer!CommitOffsets
  <2>3. CommittedUnlessFailed'
    BY <2>1, <2>2
  <2> QED BY <1>4, <2>1, <2>2, <2>3
<1>6. ASSUME NEW m \in Members,
             Consumer!CommitRefused(m) \/ Consumer!HandlingFails(m)
      PROVE  GivenAndCommitted'
  <2>1. handling[m].stage = "acknowledge" =>
            handling[m].events \subseteq processed
    BY <1>1 DEF MemberInv
  <2>2. /\ handling' = [handling EXCEPT ![m] = Consumer!Nothing]
        /\ handling[m].events \subseteq processed \cup failed'
        /\ failed \subseteq failed'
        /\ UNCHANGED <<log, owner, position, committed, processed>>
    BY <1>6, <2>1 DEF Consumer!CommitRefused, Consumer!HandlingFails
  <2> QED BY <1>4, <2>2
<1>7. ASSUME NEW m \in Members, Consumer!Restart(m)
      PROVE  GivenAndCommitted'
  BY <1>7, RestartMember
<1> QED BY <1>2, <1>3, <1>5, <1>6, <1>7
        DEF Consumer!ConsumerStep, Consumer!Consume

(* An event is audited by the members that looked it up before it was      *)
(* marked, and by each of them once.                                       *)
LEMMA AuditStep ==
    ASSUME GroupInv, AuditInv, Consumer!ConsumerStep
    PROVE  AuditInv'
<1> USE DEF AuditInv
<1>1. /\ handling \in [Members -> Consumer!Handling]
      /\ audits \in [Events -> Nat] /\ processed \subseteq Events
      /\ \A m \in Members : MemberInv(m)
  BY DEF GroupInv, Consumer!TypeOK
<1>2. /\ IsFiniteSet(Members) /\ Cardinality(Members) \in Nat
      /\ \A e \in Events :
            /\ IsFiniteSet(AboutToRecord(e))
            /\ Cardinality(AboutToRecord(e)) \in Nat
            /\ Cardinality(AboutToRecord(e)) <= Cardinality(Members)
  BY MembersAssumption, FS_Subset, FS_CardinalityType DEF AboutToRecord
<1>3. ASSUME UNCHANGED <<processed, audits>>,
             \A e \in processed : AboutToRecord(e)' \subseteq AboutToRecord(e)
      PROVE  AuditInv'
  <2> SUFFICES ASSUME NEW e \in Events, e \in processed
               PROVE  audits[e] + Cardinality(AboutToRecord(e)')
                          <= Cardinality(Members)
    BY <1>3
  <2>1. AboutToRecord(e)' \subseteq AboutToRecord(e)
    BY <1>3
  <2>2. /\ Cardinality(AboutToRecord(e)') \in Nat
        /\ Cardinality(AboutToRecord(e)') <= Cardinality(AboutToRecord(e))
    BY <1>2, <2>1, FS_Subset, FS_CardinalityType
  <2>3. audits[e] + Cardinality(AboutToRecord(e)) <= Cardinality(Members)
    OBVIOUS
  <2>4. audits[e] \in Nat
    BY <1>1
  <2> QED BY <1>2, <2>2, <2>3, <2>4
<1>4. ASSUME NEW m \in Members, Consumer!LookUp(m)
      PROVE  AuditInv'
  <2>1. /\ handling'[m].stage = IF handling[m].events \subseteq processed
                                THEN "acknowledge" ELSE "checked"
        /\ handling'[m].events = handling[m].events
        /\ \A n \in Members \ {m} : handling'[n] = handling[n]
        /\ UNCHANGED <<processed, audits>>
        /\ Consumer!Busy(m)
    BY <1>1, <1>4 DEF Consumer!LookUp, Consumer!Handling, Consumer!Busy
  <2>2. PICK f \in Events : handling[m].events = {f}
    BY <1>1, <2>1 DEF MemberInv
  <2>3. \A e \in processed : AboutToRecord(e)' \subseteq AboutToRecord(e)
    BY <2>1, <2>2 DEF AboutToRecord
  <2> QED BY <1>3, <2>1, <2>3
<1>5. ASSUME NEW m \in Members, Consumer!Record(m)
      PROVE  AuditInv'
  <2>1. /\ handling[m].stage = "checked"
        /\ handling'[m].stage = "acknowledge"
        /\ \A n \in Members \ {m} : handling'[n] = handling[n]
        /\ processed' = processed \cup handling[m].events
        /\ \A e \in Events : audits'[e] =
               audits[e] + IF e \in handling[m].events THEN 1 ELSE 0
    BY <1>1, <1>5 DEF Consumer!Record, Consumer!Handling
  <2>2. \A e \in Events : AboutToRecord(e)' = AboutToRecord(e) \ {m}
    BY <2>1 DEF AboutToRecord
  <2> SUFFICES ASSUME NEW e \in Events
               PROVE  /\ audits'[e] > 0 <=> e \in processed'
                      /\ e \in processed' =>
                            audits'[e] + Cardinality(AboutToRecord(e)')
                                <= Cardinality(Members)
    OBVIOUS
  <2>3. audits[e] \in Nat
    BY <1>1
  <2>4. CASE e \in handling[m].events
    <3>1. m \in AboutToRecord(e)
      BY <2>1, <2>4 DEF AboutToRecord
    <3>2. Cardinality(AboutToRecord(e)') = Cardinality(AboutToRecord(e)) - 1
      BY <1>2, <2>2, <3>1, FS_RemoveElement
    <3>3. audits'[e] = audits[e] + 1 /\ e \in processed'
      BY <2>1, <2>4
    <3>4. audits[e] + Cardinality(AboutToRecord(e)) <= Cardinality(Members)
      <4>1. CASE e \in processed
        BY <4>1
      <4>2. CASE e \notin processed
        BY <1>2, <2>3, <4>2
      <4> QED BY <4>1, <4>2
    <3> QED BY <1>2, <2>3, <3>2, <3>3, <3>4
  <2>5. CASE e \notin handling[m].events
    <3>1. /\ audits'[e] = audits[e]
          /\ e \in processed' <=> e \in processed
      BY <2>1, <2>3, <2>5
    <3>2. AboutToRecord(e)' = AboutToRecord(e)
      BY <2>2, <2>5 DEF AboutToRecord
    <3> QED BY <3>1, <3>2
  <2> QED BY <2>4, <2>5
<1>6. ASSUME NEW m \in Members, NEW now \in Consumer!Handling,
             now.stage # "checked",
             handling' = [handling EXCEPT ![m] = now],
             UNCHANGED <<processed, audits>>
      PROVE  AuditInv'
  <2>1. \A e \in processed : AboutToRecord(e)' \subseteq AboutToRecord(e)
    BY <1>1, <1>6 DEF AboutToRecord
  <2> QED BY <1>3, <1>6, <2>1
<1>7. Consumer!Nothing \in Consumer!Handling
      /\ Consumer!Nothing.stage # "checked"
  BY DEF Consumer!Nothing, Consumer!Handling, Consumer!Stages
<1>8. ASSUME NEW m \in Members, NEW t \in Topics, Consumer!Fetch(m, t)
      PROVE  AuditInv'
  <2>1. /\ UNCHANGED <<processed, audits>>
        /\ handling'[m].stage # "checked"
        /\ \A n \in Members \ {m} : handling'[n] = handling[n]
    BY <1>1, <1>8 DEF Consumer!Fetch
  <2>2. \A e \in processed : AboutToRecord(e)' \subseteq AboutToRecord(e)
    BY <2>1 DEF AboutToRecord
  <2> QED BY <1>3, <2>1, <2>2
<1>9. ASSUME NEW m \in Members,
             \/ Consumer!CommitOffsets(m)
             \/ Consumer!CommitRefused(m)
             \/ Consumer!HandlingFails(m)
             \/ Consumer!Restart(m)
      PROVE  AuditInv'
  <2>1. /\ handling' = [handling EXCEPT ![m] = Consumer!Nothing]
        /\ UNCHANGED <<processed, audits>>
    BY <1>9 DEF Consumer!CommitOffsets, Consumer!CommitRefused,
                Consumer!HandlingFails, Consumer!Restart
  <2> QED BY <1>6, <1>7, <2>1
<1> QED BY <1>4, <1>5, <1>8, <1>9 DEF Consumer!ConsumerStep, Consumer!Consume

ConsumerInv ==
    /\ LogType
    /\ GroupInv
    /\ GivenAndCommitted
    /\ AuditInv

LEMMA ConsumerInit == Init => ConsumerInv
<1> SUFFICES ASSUME Init PROVE ConsumerInv
  OBVIOUS
<1> USE DEF Init, Consumer!Init, Consumer!Nothing
<1>1. LogType
  BY DEF LogType
<1>2. GroupInv
  BY BoundAssumption
     DEF GroupInv, Consumer!TypeOK, Consumer!Handling, Consumer!Stages,
         MemberInv, Consumer!Busy
<1>3. GivenAndCommitted
  BY DEF GivenAndCommitted, GivenInv, CommittedUnlessFailed,
         Consumer!CommittedUnlessFailed
<1>4. AuditInv
  BY DEF AuditInv
<1> QED BY <1>1, <1>2, <1>3, <1>4 DEF ConsumerInv

(* Longer topics change nothing for the group.                             *)
LEMMA ConsumerAlone ==
    ASSUME ConsumerInv, LogGrows, UNCHANGED consumerVars
    PROVE  ConsumerInv'
<1> USE DEF ConsumerInv, LogGrows, consumerVars
<1>1. LogType'
  BY DEF LogType
<1>2. \A t \in Topics :
          /\ Len(log[t]) \in Nat /\ Len(log'[t]) \in Nat
          /\ position[t] \in 0 .. Len(log[t])
          /\ committed[t] \in 0 .. Len(log[t])
  BY DEF LogType, GroupInv, Consumer!TypeOK
<1>3. GroupInv'
  <2>1. \A t \in Topics :
            /\ position'[t] \in 0 .. Len(log'[t])
            /\ committed'[t] \in 0 .. Len(log'[t])
    BY <1>2
  <2>2. \A m \in Members : MemberInv(m)'
    BY DEF GroupInv, MemberInv, Consumer!Busy
  <2> QED BY <2>1, <2>2 DEF GroupInv, Consumer!TypeOK
<1>4. GivenAndCommitted'
  <2>1. \A t \in Topics : \A i \in 1 .. position[t] : log'[t][i] = log[t][i]
    BY <1>2
  <2>2. \A t \in Topics : \A i \in 1 .. committed[t] : log'[t][i] = log[t][i]
    BY <1>2
  <2> QED BY <2>1, <2>2
          DEF GivenAndCommitted, GivenInv, CommittedUnlessFailed,
              Consumer!CommittedUnlessFailed
<1>5. AuditInv'
  BY DEF AuditInv, AboutToRecord
<1> QED BY <1>1, <1>3, <1>4, <1>5

-------------------------------------------------------------------------------
(* The whole path                                                          *)

PipelineInv == PublisherInv /\ ConsumerInv

LEMMA PipelineStep == PipelineInv /\ [Next]_vars => PipelineInv'
<1> SUFFICES ASSUME PipelineInv, [Next]_vars PROVE PipelineInv'
  OBVIOUS
<1> USE DEF PipelineInv
<1>1. LogType /\ log \in [Topics -> Seq(Events)]
  BY DEF ConsumerInv, LogType
<1>2. CASE PublisherMoves
  <2>1. PublisherStep /\ UNCHANGED consumerVars
    BY <1>2, PublisherMovesStep DEF PublisherMoves
  <2>2. PublisherInv'
    BY <2>1, BatchStep, PublisherTypeStep, MarkedStep, LossStep, CleanStep
       DEF PublisherInv
  <2>3. ConsumerInv'
    BY <1>1, <2>1, PublisherGrowsLog, ConsumerAlone
  <2> QED BY <2>2, <2>3
<1>3. CASE ConsumerMoves
  <2>1. Consumer!ConsumerStep /\ UNCHANGED <<publisherVars, log>>
    BY <1>3 DEF ConsumerMoves, Consumer!ConsumerStep, Consumer!Consume,
                Consumer!Fetch, Consumer!LookUp, Consumer!Record,
                Consumer!CommitOffsets, Consumer!CommitRefused,
                Consumer!HandlingFails, Consumer!Restart
  <2>2. PublisherInv'
    BY <2>1, PublisherAlone
  <2>3. ConsumerInv'
    BY <1>1, <2>1, GroupStep, GivenStep, AuditStep DEF ConsumerInv, LogType
  <2> QED BY <2>2, <2>3
<1>4. CASE UNCHANGED vars
  <2>1. UNCHANGED <<publisherVars, log>> /\ UNCHANGED consumerVars
    BY <1>4 DEF vars
  <2>2. LogGrows
    BY <1>1, <2>1 DEF LogGrows
  <2> QED BY <2>1, <2>2, PublisherAlone, ConsumerAlone
<1> QED BY <1>2, <1>3, <1>4 DEF Next

LEMMA PipelineInvariant == Spec => []PipelineInv
<1>1. Init => PipelineInv
  BY PublisherInit, ConsumerInit DEF PipelineInv
<1> QED BY <1>1, PipelineStep, PTL DEF Spec

(* Outbox rows, batches and the group's offsets stay well formed: the      *)
(* offsets never run past the log.                                         *)
THEOREM TypeCorrect == Spec => []TypeOK
<1>1. PipelineInv => TypeOK
  BY DEF PipelineInv, PublisherInv, ConsumerInv, GroupInv, TypeOK
<1> QED BY <1>1, PipelineInvariant, PTL

(* A row marked as published is in Kafka or in the dead letter queue,      *)
(* through any number of crashes, refusals, timeouts and late deliveries.  *)
THEOREM NothingIsLostSilently == Spec => []NoSilentLoss
<1>1. PipelineInv => NoSilentLoss
  BY DEF PipelineInv, PublisherInv
<1> QED BY <1>1, PipelineInvariant, PTL

(* Any number of publishers share the outbox: as long as nothing fails,    *)
(* each event is in Kafka at most once.                                    *)
THEOREM NothingIsSentTwice == Spec => []NoFaultNoDuplicate
<1>1. PipelineInv => NoFaultNoDuplicate
  BY DEF PipelineInv, PublisherInv, CleanInv, NoFaultNoDuplicate,
         Publisher!NoFaultNoDuplicate
<1> QED BY <1>1, PipelineInvariant, PTL

(* Whatever is redelivered, to whichever member, the offsets of the group  *)
(* hide no event that was neither processed nor logged as failed.          *)
THEOREM OffsetsHideNothing == Spec => []CommittedUnlessFailed
<1>1. PipelineInv => CommittedUnlessFailed
  BY DEF PipelineInv, ConsumerInv, GivenAndCommitted
<1> QED BY <1>1, PipelineInvariant, PTL

(* An event is audited when it is marked as processed, and at most once    *)
(* by each member of the group.                                            *)
THEOREM AuditsAreBounded == Spec => []AuditsBounded
<1>1. PipelineInv => AuditsBounded
  <2> SUFFICES ASSUME PipelineInv, NEW e \in Events
               PROVE  /\ audits[e] > 0 <=> e \in processed
                      /\ audits[e] <= Cardinality(Members)
    BY DEF AuditsBounded, Consumer!AuditsBounded, Cardinality,
           Consumer!Cardinality
  <2>1. /\ audits[e] > 0 <=> e \in processed
        /\ e \in processed =>
              audits[e] + Cardinality(AboutToRecord(e)) <= Cardinality(Members)
        /\ audits[e] \in Nat
    BY DEF PipelineInv, ConsumerInv, AuditInv, GroupInv, Consumer!TypeOK
  <2>2. /\ Cardinality(Members) \in Nat
        /\ Cardinality(AboutToRecord(e)) \in Nat
    BY MembersAssumption, FS_Subset, FS_CardinalityType DEF AboutToRecord
  <2> QED BY <2>1, <2>2
<1> QED BY <1>1, PipelineInvariant, PTL

-------------------------------------------------------------------------------
(* The path implements EventDelivery                                       *)

(* What Kafka may still be given late was committed, and what members have *)
(* in hand came from Kafka.                                                *)
DeliveryInv ==
    /\ buffered \subseteq outbox
    /\ \A m \in Members : handling[m].events \subseteq InKafka

LEMMA KafkaKeeps ==
    ASSUME log \in [Topics -> Seq(Events)], LogGrows
    PROVE  InKafka \subseteq InKafka'
<1> SUFFICES ASSUME NEW e \in InKafka PROVE e \in InKafka'
  OBVIOUS
<1>0. PICK t \in Topics : \E i \in DOMAIN log[t] : log[t][i] = e
  BY DEF InKafka
<1>1. PICK i \in DOMAIN log[t] : log[t][i] = e
  BY <1>0
<1>2. i \in 1 .. Len(log[t]) /\ log'[t] \in Seq(Events) /\ log[t] \in Seq(Events)
  BY <1>1 DEF LogGrows
<1>3. i \in DOMAIN log'[t] /\ log'[t][i] = e
  BY <1>1, <1>2 DEF LogGrows
<1> QED BY <1>3 DEF InKafka

LEMMA SentIsInKafka ==
    ASSUME NEW e \in Events, Publisher!Sent(e)
    PROVE  e \in InKafka
  BY TopicAssumption DEF Publisher!Sent, InKafka

(* A message adds its event to Kafka, and no other.                        *)
LEMMA SendAdds ==
    ASSUME log \in [Topics -> Seq(Events)], NEW e \in Events,
           \/ log' = Publisher!SendTo(TopicOf[e], e)
           \/ log' = [log EXCEPT ![TopicOf[e]] = @ \o <<e, e>>]
    PROVE  InKafka' = InKafka \cup {e}
<1>1. TopicOf[e] \in Topics
  BY TopicAssumption
<1>2. LogGrows /\ Publisher!Sent(e)'
  BY SendGrows, SendTwiceGrows
<1>3. InKafka \subseteq InKafka'
  BY <1>2, KafkaKeeps
<1>4. e \in InKafka'
  BY <1>1, <1>2 DEF Publisher!Sent, InKafka
<1>5. ASSUME NEW f \in InKafka', f # e
      PROVE  f \in InKafka
  <2>0. PICK t \in Topics : \E i \in DOMAIN log'[t] : log'[t][i] = f
    BY <1>5 DEF InKafka
  <2>1. PICK i \in DOMAIN log'[t] : log'[t][i] = f
    BY <2>0
  <2>2. log[t] \in Seq(Events) /\ <<e, e>> \in Seq(Events) /\ <<e>> \in Seq(Events)
    OBVIOUS
  <2>3. \/ log'[t] = log[t]
        \/ log'[t] = Append(log[t], e)
        \/ log'[t] = log[t] \o <<e, e>>
    BY <1>1 DEF Publisher!SendTo
  <2>4. i \in DOMAIN log[t] /\ log[t][i] = f
    <3>1. CASE log'[t] = log[t]
      BY <2>1, <3>1
    <3>2. CASE log'[t] = Append(log[t], e)
      BY <1>5, <2>1, <2>2, <3>2
    <3>3. CASE log'[t] = log[t] \o <<e, e>>
      <4>1. /\ i \in 1 .. Len(log[t]) + 2
            /\ i > Len(log[t]) => log'[t][i] = e
            /\ i <= Len(log[t]) => log'[t][i] = log[t][i]
        BY <2>1, <2>2, <3>3
      <4> QED BY <1>5, <2>1, <2>2, <4>1
    <3> QED BY <2>3, <3>1, <3>2, <3>3
  <2> QED BY <2>4 DEF InKafka
<1> QED BY <1>3, <1>4, <1>5

LEMMA DeliveryInvStep ==
    PipelineInv /\ DeliveryInv /\ [Next]_vars => DeliveryInv'
<1> SUFFICES ASSUME PipelineInv, DeliveryInv, [Next]_vars PROVE DeliveryInv'
  OBVIOUS
<1>1. /\ log \in [Topics -> Seq(Events)]
      /\ \A p \in Publishers : polls[p].todo \subseteq outbox
  BY DEF PipelineInv, ConsumerInv, LogType, PublisherInv, BatchInv, Publisher!Locked
<1>2. CASE PublisherMoves
  <2>1. PublisherStep /\ UNCHANGED consumerVars
    BY <1>2, PublisherMovesStep DEF PublisherMoves
  <2>2. InKafka \subseteq InKafka'
    BY <1>1, <2>1, PublisherGrowsLog, KafkaKeeps
  <2>3. buffered' \subseteq outbox'
    <3>1. ASSUME NEW p \in Publishers, NEW e \in Events,
                 Publisher!PublishTimedOut(p, e)
          PROVE  buffered' \subseteq outbox'
      BY <1>1, <3>1
         DEF DeliveryInv, Publisher!PublishTimedOut, Publisher!NextOf
    <3>2. CASE buffered' \subseteq buffered /\ outbox \subseteq outbox'
      BY <3>2 DEF DeliveryInv
    <3> QED
      BY <2>1, <3>1, <3>2
         DEF PublisherStep, Publisher!WriteOutbox, Publisher!PollBatch,
             Publisher!PublishAcked, Publisher!PublishTwice,
             Publisher!PublishRefused, Publisher!DeliverLate,
             Publisher!DropLate, Publisher!CommitBatch, Publisher!AbortBatch
  <2> QED BY <2>1, <2>2, <2>3 DEF DeliveryInv, consumerVars
<1>3. CASE ConsumerMoves
  <2>1. Consumer!ConsumerStep /\ UNCHANGED publisherVars
    BY <1>3 DEF ConsumerMoves
  <2>2. log' = log
    BY <2>1 DEF Consumer!ConsumerStep, Consumer!Consume, Consumer!Fetch,
                Consumer!LookUp, Consumer!Record, Consumer!CommitOffsets,
                Consumer!CommitRefused, Consumer!HandlingFails, Consumer!Restart
  <2>3. InKafka' = InKafka
    BY <2>2 DEF InKafka
  <2>4. /\ handling \in [Members -> Consumer!Handling]
        /\ \A t \in Topics : position[t] \in Nat /\ position \in [Topics -> Nat]
    BY DEF PipelineInv, ConsumerInv, GroupInv, Consumer!TypeOK
  <2>5. ASSUME NEW m \in Members, NEW t \in Topics, Consumer!Fetch(m, t)
        PROVE  \A n \in Members : handling'[n].events \subseteq InKafka
    <3>1. /\ position[t] + 1 \in DOMAIN log[t]
          /\ log[t][position[t] + 1] \in Events
      BY <1>1, <2>4, <2>5 DEF Consumer!Fetch
    <3>2. position'[t] = position[t] + 1
      BY <2>4, <2>5 DEF Consumer!Fetch
    <3>3. log[t][position'[t]] \in InKafka
      BY <3>1, <3>2 DEF InKafka
    <3> QED BY <2>4, <2>5, <3>3 DEF Consumer!Fetch, DeliveryInv
  <2>6. ASSUME NEW m \in Members, Consumer!LookUp(m) \/ Consumer!Record(m)
        PROVE  \A n \in Members : handling'[n].events = handling[n].events
    BY <2>4, <2>6 DEF Consumer!LookUp, Consumer!Record, Consumer!Handling
  <2>7. ASSUME NEW m \in Members,
               \/ Consumer!CommitOffsets(m)
               \/ Consumer!CommitRefused(m)
               \/ Consumer!HandlingFails(m)
               \/ Consumer!Restart(m)
        PROVE  \A n \in Members : handling'[n].events \subseteq handling[n].events
    BY <2>4, <2>7
       DEF Consumer!CommitOffsets, Consumer!CommitRefused,
           Consumer!HandlingFails, Consumer!Restart, Consumer!Nothing
  <2>8. \A n \in Members : handling'[n].events \subseteq InKafka
    BY <2>1, <2>5, <2>6, <2>7
       DEF Consumer!ConsumerStep, Consumer!Consume, DeliveryInv
  <2> QED BY <2>1, <2>3, <2>8 DEF DeliveryInv, publisherVars
<1>4. CASE UNCHANGED vars
  BY <1>4 DEF vars, publisherVars, consumerVars, DeliveryInv, InKafka
<1> QED BY <1>2, <1>3, <1>4 DEF Next

(* What the publisher does is accepting, sending or marking events.        *)
LEMMA PublisherDelivers ==
    ASSUME PipelineInv, DeliveryInv, PublisherStep, UNCHANGED audits
    PROVE  [Delivery!Next]_(Delivery!vars)
<1> DEFINE given == {row.event : row \in dlq}
<1>1. /\ log \in [Topics -> Seq(Events)] /\ published \subseteq outbox
      /\ outbox \subseteq Events /\ buffered \subseteq outbox
      /\ polls \in [Publishers -> Publisher!Poll]
      /\ BatchInv /\ MarkedInv
  BY DEF PipelineInv, PublisherInv, ConsumerInv, LogType, Publisher!TypeOK,
         DeliveryInv
<1>2. ASSUME UNCHANGED <<outbox, published, dlq, log>>
      PROVE  UNCHANGED Delivery!vars
  BY <1>2 DEF Delivery!vars, InKafka
<1>3. ASSUME NEW e \in Events, Publisher!WriteOutbox(e)
      PROVE  Delivery!Accept(e)
  BY <1>3 DEF Publisher!WriteOutbox, Delivery!Accept, InKafka
<1>4. ASSUME NEW e \in Events, e \in outbox, UNCHANGED <<outbox, published, dlq>>,
             InKafka' = InKafka \cup {e}
      PROVE  Delivery!Send(e)
  BY <1>4 DEF Delivery!Send
<1>5. ASSUME NEW p \in Publishers, NEW e \in Events,
             Publisher!PublishAcked(p, e) \/ Publisher!PublishTwice(p, e)
      PROVE  Delivery!Send(e)
  <2>1. e \in outbox
    BY <1>1, <1>5 DEF Publisher!PublishAcked, Publisher!PublishTwice,
                      Publisher!NextOf, BatchInv, Publisher!Locked
  <2>2. InKafka' = InKafka \cup {e}
    BY <1>1, <1>5, SendAdds DEF Publisher!PublishAcked, Publisher!PublishTwice
  <2>3. UNCHANGED <<outbox, published, dlq>>
    BY <1>5 DEF Publisher!PublishAcked, Publisher!PublishTwice
  <2> QED BY <1>4, <2>1, <2>2, <2>3
<1>6. ASSUME NEW e \in Events, Publisher!DeliverLate(e)
      PROVE  Delivery!Send(e)
  <2>1. InKafka' = InKafka \cup {e}
    BY <1>1, <1>6, SendAdds DEF Publisher!DeliverLate
  <2> QED BY <1>1, <1>4, <1>6, <2>1 DEF Publisher!DeliverLate
<1>7. ASSUME NEW p \in Publishers, Publisher!CommitBatch(p)
      PROVE  \E batch, lost \in SUBSET Events : Delivery!Mark(batch, lost)
  <2>1. PICK batch \in SUBSET Events, lost \in SUBSET Events :
            batch = polls[p].marked /\ lost = polls[p].dead
    BY <1>1 DEF Publisher!Poll
  <2>2. batch \subseteq outbox \ published /\ lost \subseteq batch
    BY <1>1, <2>1 DEF BatchInv, Publisher!Locked
  <2>3. batch \ lost \subseteq InKafka
    BY <1>1, <2>1, SentIsInKafka DEF MarkedInv
  <2>4. given' = given \cup lost
    <3>1. dlq' = dlq \cup {Publisher!Letter(e) : e \in lost}
      BY <1>7, <2>1 DEF Publisher!CommitBatch
    <3>2. \A e : Publisher!Letter(e).event = e
      BY DEF Publisher!Letter
    <3> QED BY <3>1, <3>2
  <2>5. /\ published' = published \cup batch
        /\ UNCHANGED <<outbox, log>>
    BY <1>7, <2>1 DEF Publisher!CommitBatch
  <2>6. InKafka' = InKafka
    BY <2>5 DEF InKafka
  <2>7. Delivery!Mark(batch, lost)
    BY <2>2, <2>3, <2>4, <2>5, <2>6 DEF Delivery!Mark
  <2> QED BY <2>7
<1>8. \/ UNCHANGED <<outbox, published, dlq, log>>
      \/ \E e \in Events : Publisher!WriteOutbox(e) \/ Publisher!DeliverLate(e)
      \/ \E p \in Publishers, e \in Events :
            Publisher!PublishAcked(p, e) \/ Publisher!PublishTwice(p, e)
      \/ \E p \in Publishers : Publisher!CommitBatch(p)
  BY DEF PublisherStep, Publisher!PollBatch, Publisher!PublishRefused,
         Publisher!PublishTimedOut, Publisher!DropLate, Publisher!AbortBatch
<1> QED BY <1>2, <1>3, <1>5, <1>6, <1>7, <1>8 DEF Delivery!Next

(* What the group does is auditing events, and few enough of them.         *)
LEMMA GroupAudits ==
    ASSUME PipelineInv, DeliveryInv, Consumer!ConsumerStep,
           UNCHANGED publisherVars
    PROVE  [Delivery!Next]_(Delivery!vars)
<1>1. /\ audits \in [Events -> Nat] /\ AuditInv
      /\ \A m \in Members : MemberInv(m)
      /\ handling \in [Members -> Consumer!Handling]
  BY DEF PipelineInv, ConsumerInv, GroupInv, Consumer!TypeOK
<1>2. log' = log
  BY DEF Consumer!ConsumerStep, Consumer!Consume, Consumer!Fetch,
         Consumer!LookUp, Consumer!Record, Consumer!CommitOffsets,
         Consumer!CommitRefused, Consumer!HandlingFails, Consumer!Restart
<1>3. InKafka' = InKafka /\ UNCHANGED <<outbox, published, dlq>>
  BY <1>2 DEF InKafka, publisherVars
<1>4. CASE UNCHANGED audits
  BY <1>3, <1>4 DEF Delivery!vars
<1>5. ASSUME NEW m \in Members, Consumer!Record(m)
      PROVE  \E e \in Events : Delivery!Audit(e)
  <2>1. PICK e \in Events : handling[m].events = {e}
    BY <1>1, <1>5 DEF MemberInv, Consumer!Busy, Consumer!Record
  <2>2. e \in InKafka
    BY <2>1 DEF DeliveryInv
  <2>3. audits' = [audits EXCEPT ![e] = @ + 1]
    <3>1. \A f : f \in handling[m].events <=> f = e
      BY <2>1
    <3>2. audits' = [f \in Events |->
                        audits[f] + IF f \in handling[m].events THEN 1 ELSE 0]
      BY <1>5 DEF Consumer!Record
    <3>3. \A f \in Events :
              audits'[f] = IF f = e THEN audits[f] + 1 ELSE audits[f]
      BY <1>1, <3>1, <3>2
    <3>4. audits' \in [Events -> Nat]
      <4>1. \A f \in Events : audits[f] + (IF f \in handling[m].events THEN 1 ELSE 0) \in Nat
        BY <1>1
      <4> QED BY <3>2, <4>1
    <3> QED BY <1>1, <3>3, <3>4
  <2>4. audits[e] < Cardinality(Members)
    <3>1. m \in AboutToRecord(e)
      BY <1>5, <2>1 DEF AboutToRecord, Consumer!Record
    <3>2. /\ IsFiniteSet(AboutToRecord(e)) /\ AboutToRecord(e) \subseteq Members
          /\ Cardinality(Members) \in Nat
      BY MembersAssumption, FS_Subset, FS_CardinalityType DEF AboutToRecord
    <3>3. /\ Cardinality(AboutToRecord(e)) \in Nat
          /\ Cardinality(AboutToRecord(e)) <= Cardinality(Members)
      BY <3>2, MembersAssumption, FS_Subset, FS_CardinalityType
    <3>4. Cardinality(AboutToRecord(e)) # 0
      BY <3>1, <3>2, FS_EmptySet
    <3>5. /\ audits[e] > 0 => audits[e] + Cardinality(AboutToRecord(e))
                                  <= Cardinality(Members)
          /\ audits[e] \in Nat
      BY <1>1 DEF AuditInv
    <3> QED BY <3>2, <3>3, <3>4, <3>5
  <2>5. Delivery!Audit(e)
    BY <1>3, <2>2, <2>3, <2>4 DEF Delivery!Audit
  <2> QED BY <2>5
<1>6. UNCHANGED audits \/ \E m \in Members : Consumer!Record(m)
  BY DEF Consumer!ConsumerStep, Consumer!Consume, Consumer!Fetch,
         Consumer!LookUp, Consumer!CommitOffsets, Consumer!CommitRefused,
         Consumer!HandlingFails, Consumer!Restart
<1> QED BY <1>4, <1>5, <1>6 DEF Delivery!Next

(* Publishers, Kafka and the group together only do what EventDelivery     *)
(* allows, for any number of each and any failures.                        *)
THEOREM PathImplementsDelivery == Spec => ImplementsDelivery
<1>1. Init => DeliveryInv /\ Delivery!Init
  BY DEF Init, Publisher!Init, Consumer!Init, Consumer!Nothing, DeliveryInv,
         Delivery!Init, InKafka
<1>2. PipelineInv /\ DeliveryInv /\ [Next]_vars
          => [Delivery!Next]_(Delivery!vars)
  <2> SUFFICES ASSUME PipelineInv, DeliveryInv, [Next]_vars
               PROVE  [Delivery!Next]_(Delivery!vars)
    OBVIOUS
  <2>1. CASE PublisherMoves
    BY <2>1, PublisherMovesStep, PublisherDelivers
       DEF PublisherMoves, consumerVars
  <2>2. CASE ConsumerMoves
    BY <2>2, GroupAudits DEF ConsumerMoves
  <2>3. CASE UNCHANGED vars
    BY <2>3 DEF vars, publisherVars, consumerVars, Delivery!vars, InKafka
  <2> QED BY <2>1, <2>2, <2>3 DEF Next
<1> QED
  BY <1>1, <1>2, PipelineInvariant, DeliveryInvStep, PTL
     DEF Spec, ImplementsDelivery, Delivery!Spec

===============================================================================
