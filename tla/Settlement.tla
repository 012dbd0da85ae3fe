------------------------------ MODULE Settlement ------------------------------
(***************************************************************************)
(* settlement-service over its PostgreSQL tables.                          *)
(*                                                                         *)
(* A worker is one instance of the (single threaded) service and has at    *)
(* most one request in hand.  Every request runs in its own READ COMMITTED *)
(* transaction: a statement sees the rows committed when it starts, and    *)
(* NOW(), the default of created_at, is the time at which the transaction  *)
(* began.  Rows that are not committed yet live in `requests'.             *)
(*                                                                         *)
(* A row of `events' stands for the settlement_events row and the outbox   *)
(* and audit rows that are always written in the same transaction.         *)
(***************************************************************************)
EXTENDS SettlementStatus, Naturals, FiniteSets

CONSTANTS
    Workers,        \* instances of settlement-service
    Settlements,    \* settlement ids (fresh uuids)
    Transactions,   \* ids of parent transactions
    Keys,           \* idempotency keys
    Signers,        \* MPC signers
    Shares,         \* what a stored signature share may be
    None,           \* no settlement
    MaxClock        \* bound: number of database transactions that write events

ASSUME ClockAssumption == MaxClock \in Nat
ASSUME NoneAssumption == None \notin Settlements

VARIABLES
    transactions,   \* rows of table transactions
    settlements,    \* rows of table settlements
    events,         \* rows of table settlement_events
    signatures,     \* rows of table mpc_signatures, written by signing-gateway
    requests,       \* the request each worker has in hand
    clock           \* start time of the youngest transaction

tables == <<transactions, settlements, events>>
vars == <<transactions, settlements, events, signatures, requests, clock>>

TransactionRow == [id : Transactions, key : Keys]
SettlementRow  == [id : Settlements, tx : Transactions]
EventRow       == [sid : Settlements, status : AllStates, at : 0 .. MaxClock]
SignatureRow   == [sid : Settlements, signer : Signers, share : Shares]

(* The stages of a transition are begun, checked and written; those of a   *)
(* status query are counting and answered.                                 *)
Stages == {"idle", "begun", "checked", "written", "counting", "answered"}

Request ==
    [stage : Stages, sid : Settlements \cup {None}, status : AllStates,
     at : 0 .. MaxClock, quorum : BOOLEAN]

Idle ==
    [stage |-> "idle", sid |-> None, status |-> "PENDING", at |-> 0,
     quorum |-> FALSE]

Transition(s, target, at) ==
    [stage |-> "begun", sid |-> s, status |-> target, at |-> at,
     quorum |-> FALSE]

Query(s, status) ==
    [stage |-> "counting", sid |-> s, status |-> status, at |-> 0,
     quorum |-> FALSE]

-------------------------------------------------------------------------------
(* What the views and the trigger read.                                    *)

Created(s) == \E row \in settlements : row.id = s

(* e is the row ORDER BY created_at DESC LIMIT 1 returns for its settlement *)
IsCurrent(e) ==
    /\ e \in events
    /\ \A f \in events : f.sid = e.sid => f.at <= e.at

(* Slip: one signature is a quorum.                                        *)
AnySignature(s) == Cardinality({row \in signatures : row.sid = s}) >= 1

(* View mpc_quorum_status: COUNT(ms.id) >= 2.                              *)
QuorumReached(s) ==
    Cardinality({row \in signatures : row.sid = s}) >= 2

(* Slips the properties must notice: the trigger's query without ORDER BY  *)
(* and LIMIT, so that any row of the history is taken for the current one; *)
(* and a trigger that only protects the terminal states.                   *)
InsertAcceptedOnAnyRow(s, new) ==
    /\ Created(s)
    /\ \E e \in events : e.sid = s /\ TriggerAllows(e.status, new)

InsertAcceptedUnlessTerminal(s, new) ==
    /\ Created(s)
    /\ new # "PENDING"
    /\ \A e \in events :
          e.sid = s /\ IsCurrent(e) => e.status \notin TerminalStates

(* Trigger enforce_settlement_status_transition, and the foreign key.      *)
InsertAccepted(s, new) ==
    /\ Created(s)
    /\ \/ /\ \A e \in events : e.sid # s
          /\ new = "PENDING"
       \/ \E e \in events :
             /\ e.sid = s
             /\ IsCurrent(e)
             /\ TriggerAllows(e.status, new)

-------------------------------------------------------------------------------
Init ==
    /\ transactions = {}
    /\ settlements = {}
    /\ events = {}
    /\ signatures = {}
    /\ requests = [w \in Workers |-> Idle]
    /\ clock = 0

(* Slips: the id of the parent row is taken from the INSERT's result, which *)
(* is empty when the key was known; and no foreign key on the parent.      *)
CreateSettlementWithoutId(w, s, t, k) ==
    LET keyTaken == \E row \in transactions : row.key = k
    IN  /\ requests[w].stage = "idle"
        /\ clock < MaxClock
        /\ ~ Created(s)
        /\ transactions' = IF keyTaken
                           THEN transactions
                           ELSE transactions \cup {[id |-> t, key |-> k]}
        /\ settlements' = settlements \cup
                             {[id |-> s, tx |-> IF keyTaken THEN None ELSE t]}
        /\ events' = events \cup
                        {[sid |-> s, status |-> "PENDING", at |-> clock + 1]}
        /\ clock' = clock + 1
        /\ UNCHANGED <<signatures, requests>>

CreateSettlementAnyParent(w, s, t, k) ==
    /\ requests[w].stage = "idle"
    /\ clock < MaxClock
    /\ ~ Created(s)
    /\ IF \E row \in transactions : row.key = k
       THEN UNCHANGED transactions
       ELSE transactions' = transactions \cup {[id |-> t, key |-> k]}
    /\ settlements' = settlements \cup {[id |-> s, tx |-> t]}
    /\ events' = events \cup
                    {[sid |-> s, status |-> "PENDING", at |-> clock + 1]}
    /\ clock' = clock + 1
    /\ UNCHANGED <<signatures, requests>>

(* POST /settlement.  The parent transaction is inserted ON CONFLICT       *)
(* (idempotency_key) DO NOTHING: with a fresh key a used id violates the   *)
(* primary key, and with a used key the foreign key of the settlement is   *)
(* only satisfied when the id exists.  Nothing of the request is visible   *)
(* before it commits (the settlement id is a fresh uuid), and the unique   *)
(* indexes make concurrent creations wait for one another, so it is one    *)
(* step.                                                                   *)
CreateSettlement(w, s, t, k) ==
    LET keyTaken == \E row \in transactions : row.key = k
        idTaken  == \E row \in transactions : row.id = t
    IN  /\ requests[w].stage = "idle"
        /\ clock < MaxClock
        /\ ~ Created(s)
        /\ keyTaken <=> idTaken
        /\ transactions' = IF keyTaken
                           THEN transactions
                           ELSE transactions \cup {[id |-> t, key |-> k]}
        /\ settlements' = settlements \cup {[id |-> s, tx |-> t]}
        /\ events' = events \cup
                        {[sid |-> s, status |-> "PENDING", at |-> clock + 1]}
        /\ clock' = clock + 1
        /\ UNCHANGED <<signatures, requests>>

(* POST /settlement/<s>/transition: the connection opens its transaction,  *)
(* which fixes created_at of the row to come.  Any status may be asked for.*)
BeginTransition(w, s, target) ==
    /\ requests[w].stage = "idle"
    /\ clock < MaxClock
    /\ clock' = clock + 1
    /\ requests' = [requests EXCEPT ![w] = Transition(s, target, clock + 1)]
    /\ UNCHANGED <<tables, signatures>>

(* Slip: the quorum is not looked at.                                      *)
CheckNothing(w) ==
    /\ requests[w].stage = "begun"
    /\ requests[w].status = "SIGNED"
    /\ requests' = [requests EXCEPT ![w].stage = "checked"]
    /\ UNCHANGED <<tables, signatures, clock>>

(* The quorum query, only made on the way to SIGNED; without quorum the    *)
(* request fails (Rollback).                                               *)
CheckQuorum(w) ==
    /\ requests[w].stage = "begun"
    /\ requests[w].status = "SIGNED"
    /\ QuorumReached(requests[w].sid)
    /\ requests' = [requests EXCEPT ![w].stage = "checked"]
    /\ UNCHANGED <<tables, signatures, clock>>

(* The INSERT with its trigger; a row it rejects fails the request.        *)
InsertEvent(w) ==
    /\ requests[w].stage =
           IF requests[w].status = "SIGNED" THEN "checked" ELSE "begun"
    /\ InsertAccepted(requests[w].sid, requests[w].status)
    /\ requests' = [requests EXCEPT ![w].stage = "written"]
    /\ UNCHANGED <<tables, signatures, clock>>

(* Slip: failing a settlement clears its signatures away.                  *)
CommitAndPurge(w) ==
    /\ requests[w].stage = "written"
    /\ events' = events \cup {[sid    |-> requests[w].sid,
                               status |-> requests[w].status,
                               at     |-> requests[w].at]}
    /\ signatures' = IF requests[w].status = "FAILED"
                     THEN {row \in signatures : row.sid # requests[w].sid}
                     ELSE signatures
    /\ requests' = [requests EXCEPT ![w] = Idle]
    /\ UNCHANGED <<transactions, settlements, clock>>

Commit(w) ==
    /\ requests[w].stage = "written"
    /\ events' = events \cup {[sid    |-> requests[w].sid,
                               status |-> requests[w].status,
                               at     |-> requests[w].at]}
    /\ requests' = [requests EXCEPT ![w] = Idle]
    /\ UNCHANGED <<transactions, settlements, signatures, clock>>

(* conn.rollback() after an exception (no quorum, a rejected row, a lost   *)
(* connection), or the process dies: PostgreSQL forgets the transaction.   *)
Rollback(w) ==
    /\ requests[w].stage \in {"begun", "checked", "written", "counting"}
    /\ requests' = [requests EXCEPT ![w] = Idle]
    /\ UNCHANGED <<tables, signatures, clock>>

(* GET /settlement/<s>: the current status, in one statement ...           *)
ReadStatus(w, s) ==
    /\ requests[w].stage = "idle"
    /\ \E e \in events :
          /\ e.sid = s
          /\ IsCurrent(e)
          /\ requests' = [requests EXCEPT ![w] = Query(s, e.status)]
    /\ UNCHANGED <<tables, signatures, clock>>

(* ... and the signatures, in the next one.                                *)
ReadQuorum(w) ==
    /\ requests[w].stage = "counting"
    /\ \E reached \in BOOLEAN :
          /\ reached <=> QuorumReached(requests[w].sid)
          /\ requests' = [requests EXCEPT ![w].stage = "answered",
                                          ![w].quorum = reached]
    /\ UNCHANGED <<tables, signatures, clock>>

Answer(w) ==
    /\ requests[w].stage = "answered"
    /\ requests' = [requests EXCEPT ![w] = Idle]
    /\ UNCHANGED <<tables, signatures, clock>>

(* Table mpc_signatures keeps its rows (deny_mutation), has one row per    *)
(* settlement and signer (UNIQUE) and refers to settlements.               *)
SignaturesUnique(rows) ==
    \A r1, r2 \in rows :
        r1.sid = r2.sid /\ r1.signer = r2.signer => r1 = r2

(* Slip: a new signing replaces the stored shares.                         *)
ReplaceSignatures(new) ==
    /\ \A row \in new : Created(row.sid)
    /\ SignaturesUnique(new)
    /\ signatures' = new
    /\ UNCHANGED <<tables, requests, clock>>

(* signing-gateway commits (finitely many) rows of its own.                *)
AppendSignatures(new) ==
    /\ IsFiniteSet(new)
    /\ \A row \in new : Created(row.sid)
    /\ SignaturesUnique(signatures \cup new)
    /\ signatures' = signatures \cup new
    /\ UNCHANGED <<tables, requests, clock>>

WorkerStep(w) ==
    \/ \E s \in Settlements, t \in Transactions, k \in Keys :
          CreateSettlement(w, s, t, k)
    \/ \E s \in Settlements, target \in AllStates :
          BeginTransition(w, s, target)
    \/ CheckQuorum(w)
    \/ InsertEvent(w)
    \/ Commit(w)
    \/ Rollback(w)
    \/ \E s \in Settlements : ReadStatus(w, s)
    \/ ReadQuorum(w)
    \/ Answer(w)

Next ==
    \/ \E w \in Workers : WorkerStep(w)
    \/ \E new \in SUBSET SignatureRow : AppendSignatures(new)

Spec == Init /\ [][Next]_vars

-------------------------------------------------------------------------------
(* Properties                                                              *)

(* Every row and request has the shape the schema and the code give it,    *)
(* and a request that is being handled names a settlement.                 *)
TypeOK ==
    /\ transactions \subseteq TransactionRow
    /\ settlements \subseteq SettlementRow
    /\ events \subseteq EventRow
    /\ signatures \subseteq SignatureRow
    /\ requests \in [Workers -> Request]
    /\ \A w \in Workers :
          requests[w].stage # "idle" => requests[w].sid \in Settlements
    /\ clock \in 0 .. MaxClock

(* Two different signers have a stored share for s.                        *)
TwoSigners(s) ==
    \E r1, r2 \in signatures :
        r1.sid = s /\ r2.sid = s /\ r1.signer # r2.signer

(* A settlement is SIGNED, or past it, only if two different signers have  *)
(* a stored share for it, although the quorum is checked in an earlier     *)
(* statement than the one that inserts the row, and the row is committed   *)
(* later still (settlement.py:175-189 and 192-210).                        *)
SignedNeedsQuorum ==
    \A e \in events : e.status \in SignedStates => TwoSigners(e.sid)

(* No stage is skipped: a settlement that was ever in a state was also in  *)
(* one that validate_transition lets it be reached from, however many      *)
(* writers there are (trigger enforce_settlement_status_transition).       *)
NoSkippedStage ==
    \A e \in events : e.status # "PENDING" =>
        \E f \in events : f.sid = e.sid /\ ValidateTransition(f.status, e.status)

(* A settlement has its parent transaction and its history from the moment *)
(* it can be seen, and history belongs to a settlement: create_settlement  *)
(* writes the three tables together and tolerates a key already used.      *)
NoOrphans ==
    /\ \A row \in settlements :
          /\ \E parent \in transactions : parent.id = row.tx
          /\ \E e \in events : e.sid = row.id /\ e.status = "PENDING"
    /\ \A e \in events : Created(e.sid)
    /\ \A r1, r2 \in transactions : r1.id = r2.id \/ r1.key = r2.key => r1 = r2

(* A status query never shows a signed settlement without its quorum,      *)
(* although it reads the two in two statements: it reads the status first  *)
(* (settlement.py:264-288).                                                *)
StatusReplyConsistent ==
    \A w \in Workers :
        requests[w].stage = "answered" /\ requests[w].status \in SignedStates
            => requests[w].quorum

(* f is the next row of e's settlement after e.                            *)
Follows(e, f) ==
    /\ e.sid = f.sid
    /\ e.at < f.at
    /\ \A g \in events : ~ (g.sid = e.sid /\ e.at < g.at /\ g.at < f.at)

(* With one worker, the rows of a settlement in the order of created_at    *)
(* are one walk through the state machine, with no two rows tied.          *)
LinearHistory ==
    \A e, f \in events :
        /\ e.sid = f.sid /\ e.at = f.at => e = f
        /\ Follows(e, f) => ValidateTransition(e.status, f.status)

(* Nothing is added to the history of a settlement that is CONFIRMED or    *)
(* FAILED (README.md:195).  It holds for one worker and fails for two.     *)
TerminalIsFinal ==
    [][\A e \in events : e.status \in TerminalStates =>
           \A f \in events' \ events : f.sid # e.sid]_vars

-------------------------------------------------------------------------------
(* The lifecycle a single worker implements: the status is the one view    *)
(* settlement_current_status shows.                                        *)

NoStatus == "NONE"

CurrentRows(s) == {e \in events : e.sid = s /\ IsCurrent(e)}

StatusOf(s) ==
    IF CurrentRows(s) = {} THEN NoStatus
                           ELSE (CHOOSE e \in CurrentRows(s) : TRUE).status

Lifecycle == INSTANCE SettlementLifecycle WITH
    status <- [s \in Settlements |-> StatusOf(s)],
    approved <- {s \in Settlements : TwoSigners(s)}

(* With one worker, the service implements the abstract lifecycle: what a  *)
(* reader sees as the current status only ever takes legal steps.          *)
ImplementsLifecycle == Lifecycle!Spec

===============================================================================
