------------------------ MODULE SettlementSystemProofs ------------------------
(***************************************************************************)
(* settlement-service and signing-gateway side by side, for any number of  *)
(* workers, gateways, nodes, settlements and payloads: each does what its  *)
(* own specification says of it, so that what is proved of each alone      *)
(* holds of the two together.                                              *)
(***************************************************************************)
EXTENDS SettlementSystem, FiniteSetTheorems, TLAPS

(* The theorems about the two parts, on the state of the system.           *)
SettleP == INSTANCE SettlementHistoryProofs WITH
    Signers <- 1 .. NumNodes,
    Shares <- Payloads

SignP == INSTANCE SigningProofs WITH
    registered <- {row.id : row \in settlements}

(* A gateway has rows in its open transaction only for a settlement that   *)
(* exists: the foreign key let the INSERT through.                         *)
OpenRowsReferTo ==
    \A g \in Gateways :
        calls[g].written # {} => \E row \in settlements : row.id = calls[g].sid

-------------------------------------------------------------------------------
(* The system's actions are those the theorems are about                   *)

LEMMA SameGateway ==
    ASSUME NEW g
    PROVE  Sign!GatewayStep(g) <=> SignP!GatewayStep(g)
  BY DEF Sign!GatewayStep, SignP!GatewayStep, Sign!Progress, SignP!Progress,
         Sign!Nodes, SignP!Nodes, Sign!NoCall, SignP!NoCall,
         Sign!NewCall, SignP!NewCall, Sign!Row, SignP!Row,
         Sign!PartialSignature, SignP!PartialSignature,
         Sign!HasShare, SignP!HasShare, Sign!OpenRows, SignP!OpenRows,
         Sign!NextPartial, SignP!NextPartial, Sign!StartSign, SignP!StartSign,
         Sign!AskNode, SignP!AskNode, Sign!ReplyFailed, SignP!ReplyFailed,
         Sign!Combine, SignP!Combine, Sign!InsertShare, SignP!InsertShare,
         Sign!CommitShares, SignP!CommitShares,
         Sign!RejectShares, SignP!RejectShares,
         Sign!ReplySigned, SignP!ReplySigned, Sign!Abort, SignP!Abort,
         Sign!Cardinality, SignP!Cardinality,
         Sign!IsFiniteSet, SignP!IsFiniteSet

LEMMA SameSigning ==
    /\ Sign!Init <=> SignP!Init
    /\ [Sign!Next]_Sign!vars <=> [SignP!Next]_SignP!vars
<1>1. Sign!Init <=> SignP!Init
  BY DEF Sign!Init, SignP!Init, Sign!NoCall, SignP!NoCall
<1>2. \A more : Sign!Register(more) <=> SignP!Register(more)
  BY DEF Sign!Register, SignP!Register
<1> QED
  BY <1>1, <1>2, SameGateway DEF Sign!Next, SignP!Next, Sign!vars, SignP!vars

LEMMA SameTables ==
    /\ \A s : Settle!Created(s) <=> SettleP!Created(s)
    /\ \A s : Settle!QuorumReached(s) <=> SettleP!QuorumReached(s)
    /\ \A e : Settle!IsCurrent(e) <=> SettleP!IsCurrent(e)
    /\ \A s, new : Settle!InsertAccepted(s, new) <=> SettleP!InsertAccepted(s, new)
    /\ Settle!AllStates = SettleP!AllStates
    /\ Settle!SignedStates = SettleP!SignedStates
    /\ Settle!Idle = SettleP!Idle
    /\ \A s, target, at :
          Settle!Transition(s, target, at) = SettleP!Transition(s, target, at)
    /\ \A s, status : Settle!Query(s, status) = SettleP!Query(s, status)
    /\ Settle!tables = SettleP!tables /\ Settle!vars = SettleP!vars
  BY DEF Settle!Created, SettleP!Created, Settle!QuorumReached,
         SettleP!QuorumReached, Settle!IsCurrent, SettleP!IsCurrent,
         Settle!InsertAccepted, SettleP!InsertAccepted,
         Settle!TriggerAllows, SettleP!TriggerAllows,
         Settle!AllStates, SettleP!AllStates,
         Settle!SignedStates, SettleP!SignedStates,
         Settle!Idle, SettleP!Idle, Settle!Transition, SettleP!Transition,
         Settle!Query, SettleP!Query, Settle!tables, SettleP!tables,
         Settle!vars, SettleP!vars, Settle!Cardinality, SettleP!Cardinality,
         Settle!IsFiniteSet, SettleP!IsFiniteSet

LEMMA SameWorker ==
    ASSUME NEW w
    PROVE  Settle!WorkerStep(w) <=> SettleP!WorkerStep(w)
  BY SameTables
     DEF Settle!WorkerStep, SettleP!WorkerStep,
         Settle!CreateSettlement, SettleP!CreateSettlement,
         Settle!BeginTransition, SettleP!BeginTransition,
         Settle!CheckQuorum, SettleP!CheckQuorum,
         Settle!InsertEvent, SettleP!InsertEvent,
         Settle!Commit, SettleP!Commit, Settle!Rollback, SettleP!Rollback,
         Settle!ReadStatus, SettleP!ReadStatus,
         Settle!ReadQuorum, SettleP!ReadQuorum,
         Settle!Answer, SettleP!Answer, Settle!tables, SettleP!tables

LEMMA SameSettling ==
    /\ Settle!Init <=> SettleP!Init
    /\ [Settle!Next]_Settle!vars <=> [SettleP!Next]_SettleP!vars
    /\ Settle!SignedStates = SettleP!SignedStates
<1>1. Settle!Init <=> SettleP!Init
  BY SameTables DEF Settle!Init, SettleP!Init
<1>2. \A new : Settle!AppendSignatures(new) <=> SettleP!AppendSignatures(new)
  BY SameTables
     DEF Settle!AppendSignatures, SettleP!AppendSignatures,
         Settle!SignaturesUnique, SettleP!SignaturesUnique,
         Settle!tables, SettleP!tables, Settle!IsFiniteSet, SettleP!IsFiniteSet
<1>3. Settle!SignatureRow = SettleP!SignatureRow
  BY DEF Settle!SignatureRow, SettleP!SignatureRow
<1>4. Settle!Next <=> SettleP!Next
  BY <1>2, <1>3, SameWorker DEF Settle!Next, SettleP!Next
<1>5. Settle!vars' = SettleP!vars'
  BY DEF Settle!vars, SettleP!vars
<1> QED BY <1>1, <1>4, <1>5, SameTables

-------------------------------------------------------------------------------
(* What the service's steps are to the gateway                             *)

LEMMA IdsGrow ==
    ASSUME NEW R, NEW s, NEW t
    PROVE  {row.id : row \in R \cup {[id |-> s, tx |-> t]}}
               = {row.id : row \in R} \cup {s}
<1> DEFINE new == [id |-> s, tx |-> t]
<1>1. new.id = s
  OBVIOUS
<1> HIDE DEF new
<1>2. {row.id : row \in R \cup {new}} = {row.id : row \in R} \cup {s}
  BY <1>1
<1> QED BY <1>2 DEF new

LEMMA ServiceRegisters ==
    ASSUME SettlementMoves
    PROVE  [Sign!Next]_Sign!vars
<1>1. PICK w \in Workers : Settle!WorkerStep(w)
  BY DEF SettlementMoves
<1>2. UNCHANGED <<calls, signatures>>
  BY <1>1
     DEF SettlementMoves, Settle!WorkerStep, Settle!CreateSettlement,
         Settle!BeginTransition, Settle!CheckQuorum, Settle!InsertEvent,
         Settle!Commit, Settle!Rollback, Settle!ReadStatus, Settle!ReadQuorum,
         Settle!Answer
<1>3. CASE \E s \in Settlements, t \in Transactions, k \in Keys :
               Settle!CreateSettlement(w, s, t, k)
  <2>1. PICK s \in Settlements, t \in Transactions :
            settlements' = settlements \cup {[id |-> s, tx |-> t]}
    BY <1>3 DEF Settle!CreateSettlement
  <2>2. {row.id : row \in settlements}' = {row.id : row \in settlements} \cup {s}
    BY <2>1, IdsGrow
  <2>3. {s} \in SUBSET Settlements
    OBVIOUS
  <2>4. Sign!Register({s})
    BY <1>2, <2>2 DEF Sign!Register
  <2> QED BY <2>3, <2>4 DEF Sign!Next
<1>4. CASE UNCHANGED settlements
  BY <1>2, <1>4 DEF Sign!vars
<1> QED
  BY <1>1, <1>3, <1>4
     DEF Settle!WorkerStep, Settle!BeginTransition, Settle!CheckQuorum,
         Settle!InsertEvent, Settle!Commit, Settle!Rollback,
         Settle!ReadStatus, Settle!ReadQuorum, Settle!Answer, Settle!tables

LEMMA GatewayMaps == [Next]_vars => [Sign!Next]_Sign!vars
<1>1. SigningMoves => Sign!Next
  BY DEF SigningMoves, Sign!Next
<1>2. UNCHANGED vars => UNCHANGED Sign!vars
  BY DEF vars, Sign!vars
<1> QED BY <1>1, <1>2, ServiceRegisters DEF Next

(* Beside the service, the gateway does what Signing says of it.           *)
THEOREM SigningComposes == Spec => SigningHolds
<1>1. Init => Sign!Init
  BY DEF Init, Settle!Init, Sign!Init
<1> QED BY <1>1, GatewayMaps, PTL DEF Spec, SigningHolds, Sign!Spec

(* Hence its invariant holds in the system.                                *)
LEMMA SigningInvariant == Spec => []SignP!SigningInv
<1>1. Init => SignP!SigningInv
  <2>1. SignP!Init => SignP!SigningInv
    BY SignP!SigningInit, ConstantsAssumption
  <2>2. Init => Sign!Init
    BY DEF Init, Settle!Init, Sign!Init
  <2> QED BY <2>1, <2>2, SameSigning
<1>2. SignP!SigningInv /\ [Next]_vars => SignP!SigningInv'
  <2>1. SignP!SigningInv /\ [SignP!Next]_SignP!vars => SignP!SigningInv'
    BY SignP!SigningStep, ConstantsAssumption
  <2> QED BY <2>1, GatewayMaps, SameSigning
<1> QED BY <1>1, <1>2, PTL DEF Spec

-------------------------------------------------------------------------------
(* What the gateway's steps are to the service                             *)

LEMMA OpenRowsStep ==
    SignP!SigningInv /\ OpenRowsReferTo /\ [Next]_vars => OpenRowsReferTo'
<1> SUFFICES ASSUME SignP!SigningInv, OpenRowsReferTo, [Next]_vars,
                    NEW h \in Gateways, calls'[h].written # {}
             PROVE  \E row \in settlements' : row.id = calls'[h].sid
  BY DEF OpenRowsReferTo
<1>1. calls \in [Gateways -> SignP!Call]
  BY DEF SignP!SigningInv, SignP!TypeOK
<1>2. CASE SettlementMoves
  <2>1. PICK w \in Workers : Settle!WorkerStep(w)
    BY <1>2 DEF SettlementMoves
  <2>2. settlements \subseteq settlements' /\ calls' = calls
    BY <1>2, <2>1
       DEF SettlementMoves, Settle!WorkerStep, Settle!CreateSettlement,
           Settle!BeginTransition, Settle!CheckQuorum, Settle!InsertEvent,
           Settle!Commit, Settle!Rollback, Settle!ReadStatus,
           Settle!ReadQuorum, Settle!Answer, Settle!tables
  <2> QED BY <2>2 DEF OpenRowsReferTo
<1>3. CASE UNCHANGED vars
  BY <1>3 DEF vars, OpenRowsReferTo
<1>4. ASSUME SigningMoves
      PROVE  \E row \in settlements' : row.id = calls'[h].sid
  <2>1. PICK g \in Gateways : SignP!GatewayStep(g)
    BY <1>4, SameGateway DEF SigningMoves
  <2>2. settlements' = settlements
    BY <1>4 DEF SigningMoves, settlementVars
  <2>3. calls[g].written # {} => \E row \in settlements : row.id = calls[g].sid
    BY DEF OpenRowsReferTo
  <2>4. CASE h # g
    <3>1. calls'[h] = calls[h]
      BY <1>1, <2>1, <2>4
         DEF SignP!GatewayStep, SignP!Progress, SignP!StartSign, SignP!AskNode,
             SignP!ReplyFailed, SignP!Combine, SignP!InsertShare,
             SignP!CommitShares, SignP!RejectShares, SignP!ReplySigned,
             SignP!Abort
    <3> QED BY <2>2, <3>1 DEF OpenRowsReferTo
  <2>5. CASE h = g /\ \E n \in SignP!Nodes : SignP!InsertShare(g, n)
    <3>1. /\ calls[g].sid \in {row.id : row \in settlements}
          /\ calls'[g].sid = calls[g].sid
      BY <1>1, <2>5 DEF SignP!InsertShare, SignP!Call
    <3> QED BY <2>2, <2>5, <3>1
  <2>6. CASE h = g /\ ~ \E n \in SignP!Nodes : SignP!InsertShare(g, n)
    <3>1. \/ calls'[g].written = {}
          \/ calls'[g].written = calls[g].written /\ calls'[g].sid = calls[g].sid
      BY <1>1, <2>1, <2>6
         DEF SignP!GatewayStep, SignP!Progress, SignP!StartSign, SignP!AskNode,
             SignP!ReplyFailed, SignP!Combine, SignP!CommitShares,
             SignP!RejectShares, SignP!ReplySigned, SignP!Abort,
             SignP!NewCall, SignP!NoCall, SignP!Call
    <3> QED BY <2>2, <2>3, <2>6, <3>1
  <2> QED BY <2>4, <2>5, <2>6
<1> QED BY <1>2, <1>3, <1>4 DEF Next

LEMMA NodesFinite == ASSUME NEW S, S \subseteq 1 .. NumNodes PROVE IsFiniteSet(S)
<1>1. IsFiniteSet(1 .. NumNodes)
  BY ConstantsAssumption, FS_Interval
<1> QED BY <1>1, FS_Subset

(* Rows of an open transaction are finitely many rows of the table.        *)
LEMMA OpenRowsFinite ==
    ASSUME SignP!SigningInv, NEW g \in Gateways
    PROVE  IsFiniteSet(SignP!OpenRows(g))
<1> DEFINE f == [n \in calls[g].written |->
                     SignP!Row(calls[g].sid, n, calls[g].payload)]
<1>1. calls[g].written \subseteq 1 .. NumNodes
  BY DEF SignP!SigningInv, SignP!TypeOK, SignP!Call, SignP!Nodes
<1>2. IsFiniteSet(calls[g].written)
  BY <1>1, NodesFinite
<1>3. f \in Surjection(calls[g].written, SignP!OpenRows(g))
  BY DEF Surjection, SignP!OpenRows
<1> QED BY <1>2, <1>3, FS_Surjection

LEMMA GatewayAppends ==
    ASSUME SignP!SigningInv, OpenRowsReferTo, SigningMoves
    PROVE  [Settle!Next]_Settle!vars
<1>1. PICK g \in Gateways : SignP!GatewayStep(g)
  BY SameGateway DEF SigningMoves
<1>2. UNCHANGED <<transactions, settlements, events, requests, clock>>
  BY DEF SigningMoves, settlementVars
<1>3. CASE SignP!CommitShares(g)
  <2> DEFINE new == SignP!OpenRows(g)
  <2>1. signatures' = signatures \cup new /\ calls[g].stage = "persisting"
    BY <1>3 DEF SignP!CommitShares
  <2>2. \A row \in new : \E n \in 1 .. NumNodes :
            row = SignP!Row(calls[g].sid, n, calls[g].payload)
    BY DEF SignP!OpenRows, SignP!SigningInv, SignP!TypeOK, SignP!Call, SignP!Nodes
  <2>3. calls[g].sid \in Settlements /\ calls[g].payload \in Payloads
    BY <2>1 DEF SignP!SigningInv, SignP!CallsOK
  <2>4. new \in SUBSET Settle!SignatureRow
    BY <2>2, <2>3 DEF SignP!Row, SignP!PartialSignature, Settle!SignatureRow
  <2>5. \A row \in new : Settle!Created(row.sid)
    <3>1. new # {} => calls[g].written # {}
      BY DEF SignP!OpenRows
    <3>2. \A row \in new : row.sid = calls[g].sid
      BY <2>2 DEF SignP!Row
    <3> QED BY <3>1, <3>2 DEF OpenRowsReferTo, Settle!Created
  <2>6. Settle!SignaturesUnique(signatures \cup new)
    BY DEF SignP!SigningInv, SignP!OneSharePerSigner, Settle!SignaturesUnique
  <2>7. IsFiniteSet(new)
    BY OpenRowsFinite
  <2> HIDE DEF new
  <2>8. Settle!AppendSignatures(new)
    BY <1>2, <2>1, <2>5, <2>6, <2>7
       DEF Settle!AppendSignatures, Settle!tables, Settle!IsFiniteSet, IsFiniteSet
  <2> QED BY <2>4, <2>8 DEF Settle!Next
<1>4. CASE UNCHANGED signatures
  BY <1>2, <1>4 DEF Settle!vars
<1> QED
  BY <1>1, <1>3, <1>4
     DEF SignP!GatewayStep, SignP!Progress, SignP!StartSign, SignP!AskNode,
         SignP!ReplyFailed, SignP!Combine, SignP!InsertShare,
         SignP!RejectShares, SignP!ReplySigned, SignP!Abort

(* Beside the gateway, the service does what Settlement says of it.        *)
THEOREM SettlementComposes == Spec => SettlementHolds
<1>1. Init => Settle!Init /\ OpenRowsReferTo
  BY DEF Init, OpenRowsReferTo, Sign!NoCall
<1>2. SignP!SigningInv /\ OpenRowsReferTo /\ [Next]_vars
          => [Settle!Next]_Settle!vars
  <2>1. SettlementMoves => Settle!Next
    BY DEF SettlementMoves, Settle!Next
  <2>2. UNCHANGED vars => UNCHANGED Settle!vars
    BY DEF vars, Settle!vars
  <2> QED BY <2>1, <2>2, GatewayAppends DEF Next
<1> QED
  BY <1>1, <1>2, SigningInvariant, OpenRowsStep, PTL
     DEF Spec, SettlementHolds, Settle!Spec

-------------------------------------------------------------------------------
(* What the two guarantee together                                         *)

LEMMA TwoElements ==
    ASSUME NEW S, Cardinality(S) >= 2
    PROVE  \E x, y \in S : x # y
<1> SUFFICES ASSUME \A x, y \in S : x = y PROVE FALSE
  OBVIOUS
<1>1. CASE S = {}
  BY <1>1, FS_EmptySet
<1>2. CASE S # {}
  <2>1. PICK x : x \in S
    BY <1>2
  <2>2. S = {x}
    BY <2>1
  <2>3. Cardinality(S) = 1
    BY <2>2, FS_Singleton
  <2> QED BY <2>3
<1> QED BY <1>1, <1>2

(* The service's count of rows and the gateway's quorum over one payload   *)
(* add up, if the two thresholds are configured alike.                     *)
LEMMA QuorumOverOnePayload ==
    SettleP!SignedNeedsQuorum /\ SignP!SigningInv => SignedOverOnePayload
<1> SUFFICES ASSUME SettleP!SignedNeedsQuorum, SignP!SigningInv,
                    NEW e \in events, e.status \in Settle!SignedStates
             PROVE  \E payload \in Payloads :
                        \E m, n \in Sign!Nodes :
                            /\ m # n
                            /\ Sign!Row(e.sid, m, payload) \in signatures
                            /\ Sign!Row(e.sid, n, payload) \in signatures
  BY DEF SignedOverOnePayload
<1>1. PICK row \in signatures : row.sid = e.sid
  BY SameTables DEF SettleP!SignedNeedsQuorum, SettleP!TwoSigners
<1>2. PICK payload \in Payloads :
          SignP!Cardinality({n \in SignP!Nodes :
              SignP!Row(row.sid, n, payload) \in signatures}) >= QuorumThreshold
  BY DEF SignP!SigningInv, SignP!StoredQuorumAgrees
<1> DEFINE S == {n \in SignP!Nodes : SignP!Row(row.sid, n, payload) \in signatures}
<1>3. Cardinality(S) >= QuorumThreshold
  BY <1>2 DEF SignP!Cardinality, Cardinality, SignP!IsFiniteSet, IsFiniteSet
<1>4. Cardinality(S) \in Nat
  <2>1. S \subseteq 1 .. NumNodes
    BY DEF SignP!Nodes
  <2> QED BY <2>1, NodesFinite, FS_CardinalityType
<1>5. Cardinality(S) >= 2
  BY <1>3, <1>4, ThresholdsAgree, ConstantsAssumption
<1>6. PICK m, n \in S : m # n
  BY <1>5, TwoElements
<1> QED
  BY <1>1, <1>6
     DEF Sign!Nodes, SignP!Nodes, Sign!Row, SignP!Row,
         Sign!PartialSignature, SignP!PartialSignature

(* The parts' specifications, as their theorems name them.                 *)
LEMMA PartsHold == Spec => SettleP!Spec /\ SignP!Spec
<1>1. SettlementHolds => SettleP!Spec
  BY SameSettling, PTL DEF SettlementHolds, Settle!Spec, SettleP!Spec
<1>2. SigningHolds => SignP!Spec
  BY SameSigning, PTL DEF SigningHolds, Sign!Spec, SignP!Spec
<1> QED BY <1>1, <1>2, SettlementComposes, SigningComposes, PTL

(* A settlement is SIGNED only with two shares of one payload, for any     *)
(* number of workers, gateways, nodes and request bodies.                  *)
THEOREM SignedTogether == Spec => []SignedOverOnePayload
<1>1. SettleP!Spec => []SettleP!SignedNeedsQuorum
  BY SettleP!QuorumBeforeSigned, ConstantsAssumption
<1> QED BY <1>1, PartsHold, SigningInvariant, QuorumOverOnePayload, PTL

(* What is proved of each part alone holds of the system: no settlement    *)
(* skips a stage or is without its rows, no two gateways wait for each     *)
(* other, a signed reply is stored, and a call stores its shares at once.  *)
THEOREM PartsKeepTheirPromises ==
    Spec => /\ []SettleP!NoSkippedStage
            /\ []SettleP!NoOrphans
            /\ []SettleP!StatusReplyConsistent
            /\ []SignP!NoWaitCycle
            /\ []SignP!SignedReplyIsStored
            /\ SignP!ImplementsSignatureRecord
<1>1. SettleP!Spec => /\ []SettleP!NoSkippedStage
                      /\ []SettleP!NoOrphans
                      /\ []SettleP!StatusReplyConsistent
  BY SettleP!NoStageSkipped, SettleP!NothingOrphaned,
     SettleP!RepliesConsistent, ConstantsAssumption
<1>2. SignP!Spec => /\ []SignP!NoWaitCycle
                    /\ []SignP!SignedReplyIsStored
                    /\ SignP!ImplementsSignatureRecord
  BY SignP!GatewaysNeverDeadlock, SignP!SignedRepliesStored,
     SignP!SigningIsAtomic, ConstantsAssumption
<1> QED BY <1>1, <1>2, PartsHold, PTL

(* With one settlement-service, as deployed, and any number of gateways    *)
(* beside it, every history is one legal walk to a final state, as the     *)
(* abstract lifecycle says.                                                *)
THEOREM OneServiceIsLinear ==
    ASSUME SettleP!OneInstance
    PROVE  Spec => /\ []SettleP!LinearHistory
                   /\ SettleP!TerminalIsFinal
                   /\ SettleP!ImplementsLifecycle
<1>1. SettleP!Spec => []SettleP!LinearHistory
  BY SettleP!HistoryIsLinear, ConstantsAssumption
<1>2. SettleP!Spec => SettleP!TerminalIsFinal
  BY SettleP!TerminalStatesAreFinal, ConstantsAssumption
<1>3. SettleP!Spec => SettleP!ImplementsLifecycle
  BY SettleP!ServiceImplementsLifecycle, ConstantsAssumption
<1> QED BY <1>1, <1>2, <1>3, PartsHold, PTL

===============================================================================
