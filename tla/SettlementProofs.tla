--------------------------- MODULE SettlementProofs ---------------------------
(***************************************************************************)
(* Theorems about settlement-service, for any number of settlements,       *)
(* transactions, keys, signers, shares and workers unless one worker is    *)
(* asked for.                                                              *)
(***************************************************************************)
EXTENDS Settlement, FiniteSetTheorems, TLAPS

(* The database trigger and validate_transition are the same table.        *)
THEOREM TriggerMatchesTable ==
    \A current, target \in AllStates :
        TriggerAllows(current, target) <=> ValidateTransition(current, target)
  BY DEF AllStates, TriggerAllows, ValidateTransition, ValidTransitions,
         TerminalStates

-------------------------------------------------------------------------------
(* Facts about the parts                                                   *)

(* The values `requests' is given.                                         *)
LEMMA IdleRequest == Idle \in Request /\ Idle.stage = "idle"
  BY ClockAssumption DEF Idle, Request, Stages, AllStates

LEMMA TransitionRequest ==
    ASSUME NEW s \in Settlements, NEW target \in AllStates,
           NEW at \in 0 .. MaxClock
    PROVE  /\ Transition(s, target, at) \in Request
           /\ Transition(s, target, at).sid = s
           /\ Transition(s, target, at).stage = "begun"
           /\ Transition(s, target, at).at = at
  BY DEF Transition, Request, Stages

LEMMA QueryRequest ==
    ASSUME NEW s \in Settlements, NEW status \in AllStates
    PROVE  /\ Query(s, status) \in Request
           /\ Query(s, status).sid = s
           /\ Query(s, status).stage = "counting"
           /\ Query(s, status).status = status
  BY ClockAssumption DEF Query, Request, Stages

(* A set with two elements by Cardinality has two different elements.      *)
LEMMA TwoElements ==
    ASSUME NEW S, Cardinality(S) >= 2
    PROVE  \E x, y \in S : x # y
<1> SUFFICES ASSUME \A x, y \in S : x = y PROVE FALSE
  OBVIOUS
<1>1. CASE S = {}
  BY <1>1, FS_EmptySet
<1>2. CASE S # {}
  <2>1. PICK x : x \in S
    BY <1>2
  <2>2. S = {x}
    BY <2>1
  <2>3. Cardinality(S) = 1
    BY <2>2, FS_Singleton
  <2> QED BY <2>3
<1> QED BY <1>1, <1>2

(* The view's count of rows is a count of signers, because a signer has at *)
(* most one row for a settlement (UNIQUE (settlement_id, signer_id)).      *)
LEMMA QuorumMeansTwoSigners ==
    ASSUME NEW s, QuorumReached(s), SignaturesUnique(signatures)
    PROVE  TwoSigners(s)
<1>1. PICK r1, r2 \in {row \in signatures : row.sid = s} : r1 # r2
  BY TwoElements DEF QuorumReached
<1> QED BY <1>1 DEF TwoSigners, SignaturesUnique

-------------------------------------------------------------------------------
(* Type correctness                                                        *)
LEMMA TypeStep == TypeOK /\ [Next]_vars => TypeOK'
<1> SUFFICES ASSUME TypeOK, [Next]_vars PROVE TypeOK'
  OBVIOUS
<1> USE DEF TypeOK
<1>1. ASSUME NEW w \in Workers, NEW s \in Settlements,
             NEW t \in Transactions, NEW k \in Keys,
             CreateSettlement(w, s, t, k)
      PROVE  TypeOK'
  <2>1. clock + 1 \in 0 .. MaxClock
    BY <1>1, ClockAssumption DEF CreateSettlement
  <2>2. [sid |-> s, status |-> "PENDING", at |-> clock + 1] \in EventRow
    BY <2>1 DEF EventRow, AllStates
  <2>3. [id |-> t, key |-> k] \in TransactionRow
        /\ [id |-> s, tx |-> t] \in SettlementRow
    BY DEF TransactionRow, SettlementRow
  <2> QED BY <1>1, <2>1, <2>2, <2>3 DEF CreateSettlement
<1>2. ASSUME NEW w \in Workers, NEW s \in Settlements,
             NEW target \in AllStates, BeginTransition(w, s, target)
      PROVE  TypeOK'
  <2>1. clock + 1 \in 0 .. MaxClock
    BY <1>2, ClockAssumption DEF BeginTransition
  <2> QED BY <1>2, <2>1, TransitionRequest DEF BeginTransition, tables
<1>3. ASSUME NEW w \in Workers, CheckQuorum(w) PROVE TypeOK'
  BY <1>3 DEF CheckQuorum, tables, Request, Stages
<1>4. ASSUME NEW w \in Workers, InsertEvent(w) PROVE TypeOK'
  BY <1>4 DEF InsertEvent, tables, Request, Stages
<1>5. ASSUME NEW w \in Workers, Commit(w) PROVE TypeOK'
  <2>1. [sid    |-> requests[w].sid,
         status |-> requests[w].status,
         at     |-> requests[w].at] \in EventRow
    BY <1>5 DEF Commit, Request, EventRow
  <2> QED BY <1>5, <2>1, IdleRequest DEF Commit
<1>6. ASSUME NEW w \in Workers, Rollback(w) PROVE TypeOK'
  BY <1>6, IdleRequest DEF Rollback, tables
<1>7. ASSUME NEW w \in Workers, NEW s \in Settlements, ReadStatus(w, s)
      PROVE  TypeOK'
  <2>1. PICK e \in events :
            requests' = [requests EXCEPT ![w] = Query(s, e.status)]
    BY <1>7 DEF ReadStatus
  <2>2. e.status \in AllStates
    BY DEF EventRow
  <2>3. Query(s, e.status) \in Request /\ Query(s, e.status).sid = s
    BY <2>2, QueryRequest
  <2>4. UNCHANGED <<tables, signatures, clock>>
    BY <1>7 DEF ReadStatus
  <2> QED BY <2>1, <2>3, <2>4 DEF tables
<1>8. ASSUME NEW w \in Workers, ReadQuorum(w) PROVE TypeOK'
  <2>1. PICK reached \in BOOLEAN :
            requests' = [requests EXCEPT ![w].stage = "answered",
                                         ![w].quorum = reached]
    BY <1>8 DEF ReadQuorum
  <2>2. /\ requests' \in [Workers -> Request]
        /\ \A v \in Workers : requests'[v].sid = requests[v].sid
    BY <2>1 DEF Request, Stages
  <2>3. UNCHANGED <<tables, signatures, clock>> /\ requests[w].stage # "idle"
    BY <1>8 DEF ReadQuorum
  <2>4. \A v \in Workers \ {w} : requests'[v] = requests[v]
    BY <2>1
  <2> QED BY <2>2, <2>3, <2>4 DEF tables
<1>9. ASSUME NEW w \in Workers, Answer(w) PROVE TypeOK'
  BY <1>9, IdleRequest DEF Answer, tables
<1>10. ASSUME NEW new \in SUBSET SignatureRow, AppendSignatures(new)
       PROVE  TypeOK'
  BY <1>10 DEF AppendSignatures, tables
<1>11. CASE UNCHANGED vars
  BY <1>11 DEF vars
<1> QED
  BY <1>1, <1>2, <1>3, <1>4, <1>5, <1>6, <1>7, <1>8, <1>9, <1>10, <1>11
     DEF Next, WorkerStep
(* Every row and request has the shape the schema and the code give it,    *)
(* for any number of workers.                                              *)
THEOREM TypeCorrect == Spec => []TypeOK
<1>1. Init => TypeOK
  BY IdleRequest, ClockAssumption DEF Init, TypeOK
<1> QED BY <1>1, TypeStep, PTL DEF Spec

-------------------------------------------------------------------------------
(* The quorum                                                              *)

(* What a request knows of the signatures: a checked or written transition *)
(* to SIGNED and beyond, and a query that has seen such a status, have a   *)
(* quorum behind them, and an answered query has shown it.                 *)
RequestsKnowQuorum ==
    \A w \in Workers :
        /\ requests[w].stage = "checked" => requests[w].status = "SIGNED"
        /\ /\ requests[w].stage \in {"checked", "written", "counting"}
           /\ requests[w].status \in SignedStates
           => TwoSigners(requests[w].sid)
        /\ /\ requests[w].stage = "answered"
           /\ requests[w].status \in SignedStates
           => requests[w].quorum

(* SignedNeedsQuorum alone is not inductive: a row is committed some steps *)
(* after the check, so the requests on their way must carry the quorum     *)
(* too, and the count only means two signers while the rows are unique.    *)
QuorumInv ==
    /\ TypeOK
    /\ IsFiniteSet(signatures)
    /\ SignaturesUnique(signatures)
    /\ SignedNeedsQuorum
    /\ RequestsKnowQuorum

(* Two signers make a quorum, as there are finitely many rows.             *)
LEMMA TwoSignersMakeQuorum ==
    ASSUME NEW s, TwoSigners(s), IsFiniteSet(signatures)
    PROVE  QuorumReached(s)
<1> DEFINE rows == {row \in signatures : row.sid = s}
<1>1. PICK r1, r2 \in rows : r1 # r2
  BY DEF TwoSigners
<1>2. IsFiniteSet(rows)
  BY FS_Subset
<1>3. Cardinality({r1} \cup {r2}) = 2
  <2>1. IsFiniteSet({r1}) /\ Cardinality({r1}) = 1
    BY FS_Singleton
  <2>2. r2 \notin {r1}
    BY <1>1
  <2>3. Cardinality({r1} \cup {r2}) = Cardinality({r1}) + 1
    BY <2>1, <2>2, FS_AddElement
  <2> QED BY <2>1, <2>3
<1>4. Cardinality({r1} \cup {r2}) <= Cardinality(rows)
  <2>1. {r1} \cup {r2} \in SUBSET rows
    OBVIOUS
  <2> QED BY <1>2, <2>1, FS_Subset
<1>5. Cardinality(rows) \in Nat
  BY <1>2, FS_CardinalityType
<1> QED BY <1>3, <1>4, <1>5 DEF QuorumReached

(* Rows are only added to mpc_signatures.                                  *)
LEMMA SignaturesGrow ==
    ASSUME [Next]_vars
    PROVE  signatures \subseteq signatures'
<1>1. ASSUME NEW w \in Workers, WorkerStep(w) PROVE signatures' = signatures
  BY <1>1 DEF WorkerStep, CreateSettlement, BeginTransition, CheckQuorum,
     InsertEvent, Commit, Rollback, ReadStatus, ReadQuorum, Answer
<1>2. ASSUME NEW new \in SUBSET SignatureRow, AppendSignatures(new)
      PROVE  signatures \subseteq signatures'
  BY <1>2 DEF AppendSignatures
<1> QED BY <1>1, <1>2 DEF Next, vars

LEMMA TwoSignersForEver ==
    ASSUME NEW s, TwoSigners(s), signatures \subseteq signatures'
    PROVE  TwoSigners(s)'
  BY DEF TwoSigners

(* A row the trigger accepts past SIGNED follows a row that is SIGNED or   *)
(* past it.                                                                *)
LEMMA AcceptedPastSigned ==
    ASSUME NEW s, NEW new \in SignedStates \ {"SIGNED"}, InsertAccepted(s, new)
    PROVE  \E e \in events : e.sid = s /\ e.status \in SignedStates
  BY DEF InsertAccepted, TriggerAllows, SignedStates

LEMMA QuorumInit == Init => QuorumInv
<1> SUFFICES ASSUME Init PROVE QuorumInv
  OBVIOUS
<1>1. TypeOK
  BY IdleRequest, ClockAssumption DEF Init, TypeOK
<1>2. IsFiniteSet(signatures) /\ SignaturesUnique(signatures)
  BY FS_EmptySet DEF Init, SignaturesUnique
<1>3. SignedNeedsQuorum
  BY DEF Init, SignedNeedsQuorum
<1>4. RequestsKnowQuorum
  BY IdleRequest DEF Init, RequestsKnowQuorum
<1> QED BY <1>1, <1>2, <1>3, <1>4 DEF QuorumInv

LEMMA QuorumStep == QuorumInv /\ [Next]_vars => QuorumInv'
<1> SUFFICES ASSUME QuorumInv, [Next]_vars PROVE QuorumInv'
  OBVIOUS
<1> DEFINE RowsOK == IsFiniteSet(signatures) /\ SignaturesUnique(signatures)
           Goal == RowsOK /\ SignedNeedsQuorum /\ RequestsKnowQuorum
<1>1. TypeOK /\ TypeOK' /\ Goal
  BY TypeStep DEF QuorumInv
<1>2. \A s : TwoSigners(s) => TwoSigners(s)'
  BY SignaturesGrow, TwoSignersForEver
<1>3. ASSUME UNCHANGED signatures PROVE RowsOK'
  BY <1>1, <1>3 DEF SignaturesUnique
<1>4. ASSUME UNCHANGED events PROVE SignedNeedsQuorum'
  BY <1>1, <1>2, <1>4 DEF SignedNeedsQuorum
<1>5. ASSUME NEW w \in Workers, requests' = [requests EXCEPT ![w] = Idle]
      PROVE  RequestsKnowQuorum'
  BY <1>1, <1>2, <1>5, IdleRequest DEF RequestsKnowQuorum, TypeOK
<1>6. ASSUME UNCHANGED requests PROVE RequestsKnowQuorum'
  BY <1>1, <1>2, <1>6 DEF RequestsKnowQuorum
<1> HIDE DEF RowsOK
<1>7. ASSUME NEW w \in Workers, NEW s \in Settlements,
             NEW t \in Transactions, NEW k \in Keys,
             CreateSettlement(w, s, t, k)
      PROVE  Goal'
  <2>1. SignedNeedsQuorum'
    BY <1>1, <1>2, <1>7 DEF CreateSettlement, SignedNeedsQuorum, SignedStates
  <2> QED BY <1>3, <1>6, <1>7, <2>1 DEF CreateSettlement
<1>8. ASSUME NEW w \in Workers, NEW s \in Settlements,
             NEW target \in AllStates, BeginTransition(w, s, target)
      PROVE  Goal'
  <2>1. RequestsKnowQuorum'
    <3>1. clock + 1 \in 0 .. MaxClock
      BY <1>1, <1>8, ClockAssumption DEF BeginTransition, TypeOK
    <3> QED BY <1>1, <1>2, <1>8, <3>1, TransitionRequest
            DEF BeginTransition, RequestsKnowQuorum, TypeOK
  <2> QED BY <1>3, <1>4, <1>8, <2>1 DEF BeginTransition, tables
<1>9. ASSUME NEW w \in Workers, CheckQuorum(w) PROVE Goal'
  <2>1. TwoSigners(requests[w].sid)
    BY <1>1, <1>9, QuorumMeansTwoSigners DEF CheckQuorum, RowsOK
  <2>2. RequestsKnowQuorum'
    BY <1>1, <1>2, <1>9, <2>1
       DEF CheckQuorum, RequestsKnowQuorum, TypeOK, Request
  <2> QED BY <1>3, <1>4, <1>9, <2>2 DEF CheckQuorum, tables
<1>10. ASSUME NEW w \in Workers, InsertEvent(w) PROVE Goal'
  <2>1. requests[w].status \in SignedStates => TwoSigners(requests[w].sid)
    <3>1. CASE requests[w].status = "SIGNED"
      BY <1>1, <1>10, <3>1 DEF InsertEvent, RequestsKnowQuorum, SignedStates
    <3>2. CASE requests[w].status \in SignedStates \ {"SIGNED"}
      BY <1>1, <1>10, <3>2, AcceptedPastSigned
         DEF InsertEvent, SignedNeedsQuorum
    <3> QED BY <3>1, <3>2
  <2>2. RequestsKnowQuorum'
    BY <1>1, <1>2, <1>10, <2>1
       DEF InsertEvent, RequestsKnowQuorum, TypeOK, Request
  <2> QED BY <1>3, <1>4, <1>10, <2>2 DEF InsertEvent, tables
<1>11. ASSUME NEW w \in Workers, Commit(w) PROVE Goal'
  <2>1. SignedNeedsQuorum'
    BY <1>1, <1>2, <1>11 DEF Commit, SignedNeedsQuorum, RequestsKnowQuorum
  <2> QED BY <1>3, <1>5, <1>11, <2>1 DEF Commit
<1>12. ASSUME NEW w \in Workers, Rollback(w) PROVE Goal'
  BY <1>3, <1>4, <1>5, <1>12 DEF Rollback, tables
<1>13. ASSUME NEW w \in Workers, NEW s \in Settlements, ReadStatus(w, s)
       PROVE  Goal'
  <2>1. PICK e \in events :
            e.sid = s /\ requests' = [requests EXCEPT ![w] = Query(s, e.status)]
    BY <1>13 DEF ReadStatus
  <2>2. e.status \in AllStates
    BY <1>1 DEF TypeOK, EventRow
  <2>3. e.status \in SignedStates => TwoSigners(s)
    BY <1>1, <2>1 DEF SignedNeedsQuorum
  <2>4. RequestsKnowQuorum'
    <3> DEFINE q == Query(s, e.status)
    <3>1. q.sid = s /\ q.stage = "counting" /\ q.status = e.status
      BY <2>2, QueryRequest
    <3> HIDE DEF q
    <3>2. requests' = [requests EXCEPT ![w] = q]
      BY <2>1 DEF q
    <3> QED BY <1>1, <1>2, <2>3, <3>1, <3>2 DEF RequestsKnowQuorum, TypeOK
  <2>5. UNCHANGED <<tables, signatures, clock>>
    BY <1>13 DEF ReadStatus
  <2> QED BY <1>3, <1>4, <2>4, <2>5 DEF tables
<1>14. ASSUME NEW w \in Workers, ReadQuorum(w) PROVE Goal'
  <2>1. PICK reached \in BOOLEAN :
            /\ reached <=> QuorumReached(requests[w].sid)
            /\ requests' = [requests EXCEPT ![w].stage = "answered",
                                            ![w].quorum = reached]
    BY <1>14 DEF ReadQuorum
  <2>2. requests[w].status \in SignedStates => reached
    BY <1>1, <1>14, <2>1, TwoSignersMakeQuorum
       DEF ReadQuorum, RequestsKnowQuorum, RowsOK
  <2>3. /\ requests'[w].stage = "answered"
        /\ requests'[w].status = requests[w].status
        /\ requests'[w].quorum = reached
        /\ \A v \in Workers \ {w} : requests'[v] = requests[v]
    BY <1>1, <2>1 DEF TypeOK, Request
  <2>4. RequestsKnowQuorum'
    BY <1>1, <1>2, <2>2, <2>3 DEF RequestsKnowQuorum
  <2>5. UNCHANGED <<tables, signatures, clock>>
    BY <1>14 DEF ReadQuorum
  <2> QED BY <1>3, <1>4, <2>4, <2>5 DEF tables
<1>15. ASSUME NEW w \in Workers, Answer(w) PROVE Goal'
  BY <1>3, <1>4, <1>5, <1>15 DEF Answer, tables
<1>16. ASSUME NEW new \in SUBSET SignatureRow, AppendSignatures(new)
       PROVE  Goal'
  <2>1. RowsOK'
    BY <1>1, <1>16, FS_Union DEF AppendSignatures, RowsOK
  <2> QED BY <1>4, <1>6, <1>16, <2>1 DEF AppendSignatures, tables
<1>17. ASSUME UNCHANGED vars PROVE Goal'
  BY <1>3, <1>4, <1>6, <1>17 DEF vars
<1> HIDE DEF Goal
<1>18. Goal'
  BY <1>7, <1>8, <1>9, <1>10, <1>11, <1>12, <1>13, <1>14, <1>15, <1>16, <1>17
     DEF Next, WorkerStep
<1> QED BY <1>1, <1>18 DEF Goal, QuorumInv, RowsOK

(* A settlement is SIGNED, or past it, only with two signers behind it,    *)
(* for any number of workers, settlements and signers.                     *)
THEOREM QuorumBeforeSigned == Spec => []SignedNeedsQuorum
<1>1. QuorumInv => SignedNeedsQuorum
  BY DEF QuorumInv
<1> QED BY <1>1, QuorumInit, QuorumStep, PTL DEF Spec

(* A status query never shows a signed settlement without its quorum.      *)
THEOREM RepliesConsistent == Spec => []StatusReplyConsistent
<1>1. QuorumInv => StatusReplyConsistent
  BY DEF QuorumInv, RequestsKnowQuorum, StatusReplyConsistent
<1> QED BY <1>1, QuorumInit, QuorumStep, PTL DEF Spec

===============================================================================
