# Verification of the permissioned settlement engine

TLA+ models of the services under `src/`, model-checked with TLC and, where
the results must hold for every size, proved with TLAPS. Paths below are
relative to `src/`. The first part says what is modelled and what is shown; the
inventory and the plan for the rest are at the end.

## The system

Small Python services share one PostgreSQL database (`db/init/001-schema.sql`)
and one Kafka broker. Every service but the publisher, the consumer and the
reconciler is a single threaded `HTTPServer`; `docker-compose.yml` starts one of
each, and three MPC nodes.

```
client -> api-gateway -> settlement-service --+
                      -> signing-gateway -> mpc-node x3
                      -> ledger-service       |          reads: reconciliation
                      -> compliance-engine    v
                                         PostgreSQL
                                              | outbox_events
                                       outbox-publisher -> Kafka -> event-consumer
```

The services never call each other about a settlement. They meet in the tables:
settlement-service writes settlements, their events and the outbox rows;
signing-gateway writes `mpc_signatures`, whose foreign key needs the settlement
and whose count settlement-service reads before SIGNED; the publisher moves
outbox rows to Kafka; the consumer deduplicates with `processed_events`.
Tables are append only (`deny_mutation`), so the state of a settlement is its
youngest event and a trigger checks each new one against it. ledger-service posts
journals, reconciliation reads them, the settlement events and the balances
derived from them, and every service adds its row to `audit_events`.

## Modules

| Module | Models | Kind |
|---|---|---|
| `SettlementStatus` | the state machine as the Python table and as the trigger writes it | operators |
| `Settlement` | settlement-service and its tables | state machine |
| `SettlementLifecycle` | what the service promises | abstract specification |
| `Signing` | signing-gateway and the MPC nodes | state machine |
| `SignatureRecord` | what a signing call promises | abstract specification |
| `SettlementSystem` | settlement-service and signing-gateway on one database | composition |
| `OutboxPublisher` | outbox-publisher and its Kafka client | state machine |
| `EventConsumer` | event-consumer, the members of its group | state machine |
| `EventPipeline` | publisher, topics, consumer | composition |
| `EventDelivery` | what the event path promises | abstract specification |
| `ApiGateway` | POST requests with an idempotency key at api-gateway | state machine |
| `AuditTrail` | the table `audit_events` | state |
| `Ledger` | ledger-service, the balance trigger and the view | state machine |
| `AccountRegister` | what the ledger promises of balances | abstract specification |
| `Reconciliation` | a reconciliation run over the ledger | state machine |
| `Compliance` | compliance-engine | state machine |
| `BackOffice` | the last three, and settlement events, on one database | composition |
| `*Proofs` | the theorems about a module or a component | proofs |
| `MC*` | finite instances for TLC | |

Some definitions are marked *Slip*. They are the neighbouring definition with a
plausible mistake in it. No specification uses them; substituting one for the
definition it stands beside must break a property, which shows that the
property depends on that piece of the code.

### Settlement

A worker is an instance of the service; it handles one request at a time
(`requests[w]`). PostgreSQL runs each request as one READ COMMITTED
transaction, so a step of the model is a statement, the commit, or the
rollback; rows become visible at the commit.

| Action | Code (`services/settlement-service/settlement.py`) |
|---|---|
| `CreateSettlement` | `create_settlement` with its commit, 37-161 |
| `BeginTransition` | `do_POST` opens the transaction, 360-372; `NOW()`, hence `created_at`, is fixed |
| `CheckQuorum` | the quorum query, 175-189; without quorum `Rollback` |
| `InsertEvent` | the INSERT and the trigger (`001-schema.sql` 300-337) |
| `Commit`, `Rollback` | 373, 376; `Rollback` is also a crash or a lost connection |
| `ReadStatus`, `ReadQuorum`, `Answer` | the two statements of `get_settlement_status`, 264-288 |
| `AppendSignatures` | signing-gateway as seen from here: it may add any rows the schema accepts |

`CreateSettlement` is one step because nothing of it can be seen earlier: the
settlement id is a fresh uuid, and two creations with one key or one
transaction id wait for one another in a unique index. A row of `events` stands
for the settlement event and the outbox and audit rows of the same transaction.
A transition may ask for any status at any time. `clock` numbers database
transactions in the order they begin; two transactions that begin at the same
microsecond are not modelled.

### Signing

`calls[g]` is the request gateway `g` has in hand. It asks the nodes one after
the other (`AskNode`, with or without an answer), then replies FAILED
(`ReplyFailed`) or inserts the shares one by one (`InsertShare`) and commits
(`CommitShares`). An insert does nothing when a row of that signer is
committed and waits while another open transaction holds one. `RejectShares` is
the foreign key violation of an unknown settlement, `Abort` a lost connection or
a crash. Nodes keep no state: a partial signature is a function of node and
payload hash (`mpc-node/node.py` 28-36), so a share is named by what it signs.
The module assumes a working node answers with the id it is registered under.

`SignatureRecord` has no inserts, locks or rollbacks: a call happens at once,
adds the shares its signers lack and is answered, or never happened. The
mapping: `record` is the committed rows, `signed` the gateways at the stage of
that name, and the signers of an answer are the partials in hand.

### SettlementSystem

`INSTANCE`s of the two modules that share `signatures`; the gateway's
`registered` is the set of ids in `settlements`. It assumes `QUORUM_THRESHOLD >= 2`
(`ThresholdsAgree`): the gateway reads it from the environment while the view
`mpc_quorum_status` has a literal 2.

### OutboxPublisher, EventConsumer, EventPipeline

A publisher locks a batch (`PollBatch`, SKIP LOCKED), sends row by row and
commits all marks at the end (`CommitBatch`). A send is acknowledged, refused,
acknowledged after the client repeated it, or times out while the client still
holds the record, which may then arrive later (`DeliverLate`) or never
(`DropLate`). The model lets a late record be overtaken by younger ones of its
topic: more orders than one partition has, none of them excluded by a topic with
several. `AbortBatch` is a failed statement, a failed commit or a crash.

| Consumer action | Code (`services/event-consumer/consumer.py`) |
|---|---|
| `Fetch` | the iterator returns a message and moves the position past it, 145 |
| `LookUp` | `is_already_processed`, 66-76 |
| `Record` | the audit row, the processed mark and the commit, 102-125 |
| `CommitOffsets` | `consumer.commit()`: the positions of all topics, 151 |
| `CommitRefused` | the same of a member whose assignment is over, 151-158 |
| `HandlingFails` | the inner `except`, which goes on with the next message, 152-158 |
| `Restart` | a crash, the outer `except`, or any other rebalance, 160-168 |

`Members` are processes of one consumer group. A topic is modelled with one
partition; Kafka's range assignor gives the first partition of every topic to the
same member, so one member, `owner`, has all of them. A rebalance starts the
next owner at the committed offsets while the old one may still be at work on a
message (`fenced`), past its check of `processed_events`: its database
transaction goes through, its offsets are refused. A rebalance moves the topics
to a member that is idle, since a busy one joins the group only when it polls.

`EventDelivery` has no batches, members or offsets: events are accepted, sent,
marked with their dead letters and audited up to `Limit` times. The mapping:
`accepted` is the outbox, `sent` what any topic has, `marked` the published rows,
`dead` the dead letters' events, `Limit` the number of members.

### Ledger, Compliance, AuditTrail, Reconciliation, BackOffice

`Ledger` keeps the rows of `journal_entries`. `Post` is `POST /journal`: both legs,
the audit row and the commit, at which the deferred trigger
`check_journal_balance` compares the sums; no reader sees anything earlier.
Balances are computed as the view `account_balances` does, debit minus credit or
the reverse by the normal balance of the code. `NUMERIC` has a value `NaN`, and
`Decimal("NaN")` passes `amount > 0`, the trigger (`NaN = NaN`) and the CHECK; in
Python it differs from itself. `Amounts` may hold it, and sums and comparisons
are what each side makes of it.

`AccountRegister` has no journal: it keeps a balance for each account and code,
and a transfer changes two of them in one step. The mapping: `balance[key]` is
the sum that the view computes over the journal each time it is read.

| Action | Code (`services/reconciliation/reconciler.py`) |
|---|---|
| `StartRun` | the INSERT of the run with its own commit, 53-63 |
| `SumJournals` | check 1, one query |
| `Replay`, `CompareWithView` | check 2, two queries with two snapshots |
| `CountNegative` | check 3, in the view as it is by then |
| `CheckHistories` | check 4: the first event of each settlement is PENDING |
| `Complete` | mismatches, result, audit row and commit |
| `DatabaseFails` | a statement fails: the handler's UPDATE fails in the aborted transaction too |
| `PythonFails` | any other exception: the handler commits ERROR and what was inserted so far |

Between any two of them `BackOffice` lets ledger-service post, compliance-engine
screen and settlement-service add events that its trigger accepts
(`AppendEvent`). `Screen` decides by type and list, stores the row and its audit
row in one transaction. `replayed`, `viewed` and `counted` are the rows each
query read; the code has only the balances made of them.

### ApiGateway

`calls[g]` goes from `received` to `missed` (the lookup found nothing), `waiting`
(a backend has the request), `answered` and `stored`; each is a place where
another gateway, a crash or a retry may come in between (`gateway.py` 235-264).
The backends of this module are what the POST handlers of the four services have
in common: they commit and reply, or roll back and reply with an error; each
serves one request at a time and goes on with one whose caller has left
(`orphans`). An error is replied only after a rollback: when a commit fails
because the connection is lost, so does the ROLLBACK after it, and no reply
comes. `LoseCall` is a crash of the gateway or an exception that leaves
`do_POST`; a response that takes longer than 30 seconds is one, since
`proxy_request` catches `URLError` only and the timeout of a response is not one.
A connection that is refused is an `URLError`, becomes a 502 and is stored like
any reply (`BackendUnreachable`). Refusals are not told apart by their text.

## What the runs show

| Run | Instance | Shows |
|---|---|---|
| `settlement_single` | 1 worker, 2 settlements, 2 parent ids, 2 keys | `LinearHistory`, `TerminalIsFinal`, `NoOrphans`; implements `SettlementLifecycle` |
| `settlement_replicas` | 2 workers, 1 settlement | what survives a race: `NoSkippedStage`, `SignedNeedsQuorum`, `StatusReplyConsistent` |
| `settlement_race` | 2 workers | *violated:* `TerminalIsFinal` |
| `signing` | 2 gateways, 3 nodes, threshold 2, 2 payloads | `StoredQuorumAgrees`, `SignedReplyIsStored`, `OneSharePerSigner`, `NoWaitCycle`, `CallTerminates`; implements `SignatureRecord` |
| `signing_retry` | 1 gateway | *violated:* `ReplySharesStored` |
| `settlement_system` | 1 worker, 1 gateway, 3 nodes, 2 payloads | `SignedOverOnePayload`, and that each part still satisfies its own specification |
| `event_pipeline` | 2 publishers, 2 members, 2 events, 2 topics, 1 fault + 2 failures | `NoSilentLoss`, `NoFaultNoDuplicate`, `AuditsBounded`, `CommittedUnlessFailed`, `EventuallyMarked`, `EventuallyAccountedFor`; implements `EventDelivery` |
| `api_gateway` | 2 gateways, 2 keys, 4 requests, 2 faults | `ExecutionsBounded`, `ErrorsNotExecuted`, `RepliesAgree`, `SettledForEver` |
| `back_office` | 2 journals, 2 accounts with 2 codes, amounts 1 and NaN, 1 settlement, 2 screenings of 3 spellings, 2 runs, 1 fault | `TrialBalance`, `RunsAccountedFor`, `ReportsComplete`, `AlarmsExplained`, `PassedMeansNoNegative`, `AuditTrailComplete`, `ScreeningsAgree`; implements `AccountRegister` |
| `api_gateway_retry` | 1 gateway, 1 fault | *violated:* `ExecutedOnce` |
| `dlq_retries` | 1 publisher | *violated:* `DeadLettersExhaustedRetries` |
| `consumer_at_least_once` | 1 publisher | *violated:* `CommittedIsProcessed` |

The five violated properties state what the repository's README or a docstring
says, and the code does otherwise:

- **Concurrent transitions.** The trigger reads committed rows and takes no
  lock. Two overlapping transactions can add FAILED and APPROVED to the same
  settlement although "Terminal states (CONFIRMED, FAILED) block all further
  transitions" (README 195). The single instance of `docker-compose.yml` does
  not show it; a second writer does.
- **Retried signing.** A second `/sign` with another body keeps the first
  call's shares (ON CONFLICT DO NOTHING) and still replies SIGNED, although
  "Each partial signature [is] persisted" (README 201). api-gateway adds a fresh
  `request_id` to each body, so a plain retry is such a body.
- **Duplicate API calls.** A call that is lost between its execution and the
  INSERT into `idempotency_keys` is executed again by the client's duplicate,
  although "duplicate API calls return cached responses" (README 218); one
  gateway and one fault suffice. `ExecutionsBounded` says how far it can go.
- **Dead letters.** One failed send moves an event to the queue; the publisher
  documents `MAX_RETRIES` attempts (`publisher.py` 4-6, README 160).
- **At-least-once consumption.** The message after a failed one commits the
  offsets past both (`consumer.py` 150-158, README 163).

Further disagreements, which the modelled state shows but no run of its own:

- The README promises four checks (169-174). Check 1 does not count the legs; the
  code that writes them always writes two. Check 2 raises false alarms, the ones
  `AlarmsExplained` names. Check 3 looks at asset accounts only and says nothing
  of what is posted later (`PassedMeansNoNegative`). Check 4 looks at the first
  event only; the trigger guards the others.
- A database error leaves a run RUNNING for ever: the handler that writes ERROR
  works in the aborted transaction (`reconciler.py` 277). `RunsAccountedFor`
  counts both, one for each failure.
- "Duplicate Kafka events are skipped" (README 219) up to one audit row for each
  member that had passed the check (`AuditsBounded`).
- The screening type FULL, the default, looks at the sanctions list only
  (`compliance.py` 54), README 145 names four. AML hashes the id as the client
  spells it, the lists compare it in capitals; `ScreeningsAgree` leaves AML out.

### Bounds

- `MaxClock` bounds the database transactions that write. A whole life of a
  settlement (creation and four transitions) is five, so 6 allows it with one
  more request in competition, or two settlements started in turn; 4 in the
  composition reaches SIGNED with a competitor.
- Two workers, gateways, publishers or members suffice for every pairwise race;
  the theorems cover any number.
- 2-of-3 signing is the deployed configuration; two payloads make the difference
  between a repeated and a changed request.
- `MaxFaults` and `MaxFailures` bound faults, not behaviours between them. Two
  failures of the group let a second rebalance hit the repair of the first, and
  with one fault of a publisher an event is in Kafka twice when they do. The
  theorems cover any number.
- In `back_office` one run can stop and the next one start (`MaxRuns` 2,
  `MaxFaults` 1); two requests let a posting come before and one between the
  queries of a run, so that a balance goes below zero, moves and comes back.
  `MaxEvents` 2 is a settlement's first event and one that the trigger checked.
    Two journals of amount 1 under an asset and a liability code make every sign
  of a balance; the theorems cover every amount.
- Two events and `BatchSize` 2 let a batch be full, partly failed and shared out
  between publishers.
- `MaxSends` 4 is two requests more than the gateways of `api_gateway` can have
  in hand; with two faults a key can be executed the four times
  `ExecutionsBounded` allows.

`CHECK_DEADLOCK FALSE` is set for the pipeline, which has nothing left to do once
its finite set of events is delivered, and for `ApiGateway`, which stops when the
`MaxSends` requests are answered, and for `BackOffice`, whose runs and requests
are bounded. Symmetry (ids, keys, signers, journals, accounts, screenings) is
used in `settlement_single` and `back_office`, which check no liveness.

### Fairness

`Signing!FairSpec`: strong fairness of the steps by which a gateway advances its
call. Every request to a node ends by an answer or after 10 seconds
(`gateway.py` 50) and every statement ends or raises. Strong rather than weak
because an INSERT that waits for another transaction's row is enabled only
between that gateway's transactions; PostgreSQL wakes the waiter when the
transaction it waits for ends. Starting and aborting calls are not fair.

`EventPipeline!FairSpec`: weak fairness of polling, sending and committing at
each publisher (`main` polls for ever, `publisher.py` 188-196) and of every step
of a member's loop: fetching, looking up, recording and committing offsets
(`consumer.py` 145-158).
Neither faults nor outbox writes are fair. Together with the bounds this says
that failures are eventually over, without which nothing can be promised.

## What is proved

For all values of the constants, under the named assumptions of the modules
(`MaxClock` a natural number, `None` not a settlement, threshold between 1 and
the number of nodes):

- `SettlementProofs`: `TriggerMatchesTable` (the two state machines are the same
  relation), `TypeCorrect`, `QuorumBeforeSigned`, `RepliesConsistent`. The last
  two rest on `QuorumInv`: what a worker has checked remains true because
  signatures are only added, and a request past the check, a row written but not
  committed and a status read for a reply all carry two signers with them.
- `SettlementHistoryProofs`: `NoStageSkipped` and `NothingOrphaned` for any
  number of concurrent workers. `HistoryInv` adds that what the trigger accepted
  and is not committed yet still has the predecessor the trigger saw: rows are
  never taken away, so a stale check is still good for these two. With one
  worker (`OneInstance`), `LinearInv` adds that an open request is younger than
  every row and was checked against the row that is still the current one;
  `HistoryIsLinear` and `TerminalStatesAreFinal` follow. `settlement_race` shows
  that the assumption is needed. `ServiceImplementsLifecycle`, also with one
  worker: the view `settlement_current_status` takes only legal steps, and to
  SIGNED only with two signers.
- `SigningProofs`: `SigningTypeCorrect`, `StoredSharesAgree`, `SignersSignOnce`,
  `SignedRepliesStored`, any number of gateways and nodes. The argument of
  `StoredSharesAgree`: a transaction that committed fewer shares than it had
  partials skipped one because a share was already committed, so somebody
  committed a full quorum before; the first to commit commits all of its own.
  `CallsOK` is the strengthening that says so of open transactions.
  `GatewaysNeverDeadlock`: every gateway inserts in the order of the nodes
  (`InOrder`), so of gateways that all wait for one another the one whose next
  signer comes last would wait for a later one. `SigningIsAtomic`: the commit is
  the moment at which a call happens, since what its open rows do not add was
  stored before (`CommitAddsMissing`), and the other steps stutter.
- `SettlementSystemProofs`: each part of the composition still satisfies its own
  specification (`SigningComposes`, `SettlementComposes`), by a step simulation:
  a step of the gateway adds signatures, which the service knows as
  `AppendSignatures`; a step of the service adds settlements, which the gateway
  knows as registrations. `SignedTogether` then combines the theorems of the
  parts: SIGNED needs two rows, and rows of a settlement hold a quorum over one
  payload. It needs `ThresholdsAgree`. `PartsKeepTheirPromises` carries the
  theorems of the parts over to the system, and `OneServiceIsLinear` those about
  one settlement-service, with any number of gateways beside it.
- `ApiGatewayProofs`: `GatewayTypeCorrect`, `SettledKeysStay`,
  `ExecutionsAreBounded`, `ErrorsAreNoExecutions` and `RepliesAreFew`, any
  number of gateways and faults. `StoredFirst`: a key that was answered has a
  stored reply, so every later lookup finds one. `BoundInv`: an execution that
  is not stored yet is in the hands of a gateway or was lost by a fault; once a
  reply is stored, only the gateways that missed it can execute again, and one
  that had an error instead does not, so that a reply that is an error lowers
  the bound by one. `AgreeInv`: the replies given, the stored one and the
  gateways that hold another are together no more than the gateways.
- `EventPipelineProofs`: `TypeCorrect`, `NothingIsLostSilently`,
  `NothingIsSentTwice`, `OffsetsHideNothing`, `AuditsAreBounded` and
  `PathImplementsDelivery`, any number of publishers, members, events, topics
  and failures. `PublisherInv`: the batches in hand are disjoint and unmarked,
  and each row a publisher is done with is in Kafka or dead lettered; without a
  fault what is in Kafka is marked or held by one publisher, and it is there
  once. `ConsumerInv`: each position the owner has passed is processed, failed,
  or the message in its hands, and the audits of a processed event and the
  members that are past the check of it are together no more than the members.
  `DeliveryInv` adds that what members hold is in Kafka.
- `LedgerProofs`: what a sum over rows is. The library's sum is a recursion over
  the subsets of a set; since the rows are finite there is a smallest
  counterexample among them (`SmallestSubset`), which gives that the recursion
  has one solution and that any row may be taken out of the sum first
  (`SumWithout`). So one more row adds its amount to the balance of its key
  (`BalanceWithOneMore`), and to the two sides of the books by the sign that is
  normal for it (`DifferenceWithOneMore`).
- `BackOfficeProofs`: `TypeCorrect`, `BooksBalance`, `LedgerImplementsRegister`,
  `RunsAreAccountedFor`, `ReportsAreComplete`, `AlarmsAreExplained`,
  `PassedRunsSawNoNegative`, `AuditTrailIsComplete` and `ScreeningsDoAgree`, any
  number of accounts, journals, runs and failures. `EvenInv`: as long as no row
  is `NaN`, the balances of the debit-normal and of the credit-normal keys add
  up to the same, whatever codes the legs were posted to. `RegisterWithOneMore`,
  with `NaN` and without: a leg changes the balance of its key and no other, so
  a journal is a transfer. `ReportsInv`: the run in hand is RUNNING, and
  mismatches belong to runs that exist. `AlarmInv`: every committed journal
  balances, every history begins in PENDING, and what the run in hand has found
  so far is explained by the rows its queries read, with every negative asset
  among them.

The assumptions are finiteness of the gateways, of the members of the group and
of the tables (`GatewaysAssumption`, `MembersAssumption`, `TablesAssumption`),
the bounds being natural numbers, amounts being integers or `NaN`
(`AmountsAssumption`), and those above.

Only model-checked: the liveness properties `CallTerminates`, `EventuallyMarked`
and `EventuallyAccountedFor`. They need fairness and ENABLED, which are out of
reach of the prover. `GatewaysNeverDeadlock` is the part of `CallTerminates` that
is about states and is proved.

## Inventory

State, operations and correctness of each component, and how far it is covered.

| Component | State and operations | Hard part | Correct when | Covered |
|---|---|---|---|---|
| settlement-service | tables of settlements; create, transition, status | statements of concurrent transactions | above | yes |
| signing-gateway, mpc-node | `mpc_signatures`; `/sign` | failed nodes, retries, shared rows | above | yes |
| outbox-publisher | `published_at`, dead letters; poll | Kafka outside the transaction | above | yes |
| event-consumer | offsets, `processed_events`; consume | redelivery, failures, rebalances, offsets | above | yes |
| api-gateway | `idempotency_keys`; authenticate, proxy | check, forward and store are separate; late backends | above | yes |
| ledger-service | `journal_entries`; post, balance | deferred balance trigger | the books balance for every reader | yes |
| reconciliation | runs and mismatches; four checks | reads in several snapshots; error handling in an aborted transaction | alarms have a cause, runs and reports agree | yes |
| compliance-engine | `compliance_screenings`; screen | spellings and types of one entity | decisions about one entity agree | yes |
| audit trail | `audit_events`; one INSERT per commit | runs that stop half way | it has what was committed and no more | yes |
| transaction status history | a table and a trigger | nobody writes it | | no |
| `shared/` helpers | none | only the state machine has a counterpart at run time | | state machine |
| demo, tests, deployment | | scripts and configuration | | no |

`PROJECT.json` lists the hazards line by line, with the properties that cover
them.

## Not modelled

- `shared/` but for the state machine: no service imports it; the services carry
  their own copies of the statements. The RBAC tables have no reader: keys and
  routes are constants of api-gateway, whose authentication, authorisation and
  routing keep no state.
- `transaction_status_history` with its trigger: no code writes or reads it. The
  rows of `mpc_key_shares` are seed data; a share refers to one by its signer.
- The dead letter queue has no reader: its retry columns never change.
- `GET` requests, balances and status pages but for `get_settlement_status`: one
  query without effect.
- `scripts/demo.py`, the unit tests of pure helpers and the deployment, from
  which the instances take their sizes.
- Several partitions per topic, clocks that go backwards, a broker that loses
  acknowledged records (`acks=all`), and two transactions that begin at the same
  microsecond.

## Plan

1. The four components on one database with the event path: settlement requests
   that enter by api-gateway, are executed by settlement-service and leave by the
   outbox, so that `ExecutionsBounded` bounds the events of a key.
2. `EventConsumer` with two partitions per topic, two owners.
3. Equal `created_at` values in `Settlement`, and the order the view gives them.
