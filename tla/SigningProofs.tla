----------------------------- MODULE SigningProofs -----------------------------
(***************************************************************************)
(* Theorems about signing-gateway, for any number of gateways, nodes,      *)
(* settlements and payloads and any threshold.                             *)
(***************************************************************************)
EXTENDS Signing, FiniteSetTheorems, TLAPS

(* What a call knows of its own transaction and of the stored rows: a      *)
(* partial it tried is in its open rows or was stored by someone else.     *)
CallsOK ==
    \A g \in Gateways :
        /\ calls[g].written \subseteq calls[g].tried
        /\ calls[g].tried \subseteq calls[g].partials
        /\ calls[g].stage \in {"idle", "asking"} =>
              calls[g].tried = {} /\ calls[g].written = {}
        /\ calls[g].stage = "signed" => calls[g].written = {}
        /\ calls[g].stage # "idle" => calls[g].payload \in Payloads
        /\ calls[g].stage = "persisting" =>
              /\ calls[g].sid \in Settlements
              /\ Cardinality(calls[g].partials) >= QuorumThreshold
              /\ \A n \in calls[g].tried \ calls[g].written :
                    HasShare(calls[g].sid, n)

(* StoredQuorumAgrees is kept because the first transaction to commit a    *)
(* row of a settlement commits all its partials: had one been left out,    *)
(* somebody would have committed before.                                   *)
SigningInv ==
    /\ TypeOK
    /\ CallsOK
    /\ OneSharePerSigner
    /\ StoredQuorumAgrees
    /\ SignedReplyIsStored

-------------------------------------------------------------------------------
LEMMA NoCallFields ==
    /\ NoCall \in Call
    /\ NoCall.stage = "idle" /\ NoCall.tried = {} /\ NoCall.written = {}
    /\ NoCall.partials = {}
  BY NodesAssumption DEF NoCall, Call, Stages

LEMMA RowFields ==
    ASSUME NEW sid, NEW n, NEW payload
    PROVE  /\ Row(sid, n, payload).sid = sid
           /\ Row(sid, n, payload).signer = n
           /\ Row(sid, n, payload).share = payload
  BY DEF Row, PartialSignature

LEMMA RowType ==
    ASSUME NEW sid \in Settlements, NEW n \in Nodes, NEW payload \in Payloads
    PROVE  Row(sid, n, payload) \in SignatureRow
  BY DEF Row, PartialSignature, SignatureRow

LEMMA NodesFinite == ASSUME NEW S, S \subseteq Nodes PROVE IsFiniteSet(S)
<1>1. IsFiniteSet(1 .. NumNodes)
  BY NodesAssumption, FS_Interval
<1> QED BY <1>1, FS_Subset DEF Nodes

(* The nodes whose share for a payload is among the rows.                  *)
LEMMA ShareholdersGrow ==
    ASSUME NEW sid, NEW payload, NEW A, NEW B, A \subseteq B,
           Cardinality({n \in Nodes : Row(sid, n, payload) \in A})
               >= QuorumThreshold
    PROVE  Cardinality({n \in Nodes : Row(sid, n, payload) \in B})
               >= QuorumThreshold
<1> DEFINE SA == {n \in Nodes : Row(sid, n, payload) \in A}
           SB == {n \in Nodes : Row(sid, n, payload) \in B}
<1>1. SA \in SUBSET SB /\ IsFiniteSet(SB) /\ IsFiniteSet(SA)
  BY NodesFinite
<1>2. Cardinality(SA) <= Cardinality(SB)
  BY <1>1, FS_Subset
<1>3. Cardinality(SA) \in Nat /\ Cardinality(SB) \in Nat
  BY <1>1, FS_CardinalityType
<1> QED BY <1>2, <1>3, ThresholdAssumption, NodesAssumption

LEMMA HasShareForEver ==
    ASSUME NEW sid, NEW n, HasShare(sid, n), signatures \subseteq signatures'
    PROVE  HasShare(sid, n)'
  BY DEF HasShare

-------------------------------------------------------------------------------
LEMMA SigningInit == Init => SigningInv
<1> SUFFICES ASSUME Init PROVE SigningInv
  OBVIOUS
<1>1. TypeOK /\ CallsOK
  BY NoCallFields DEF Init, TypeOK, CallsOK
<1>2. \A g \in Gateways : OpenRows(g) = {}
  BY NoCallFields DEF Init, OpenRows
<1>3. OneSharePerSigner
  BY <1>2 DEF Init, OneSharePerSigner
<1>4. StoredQuorumAgrees /\ SignedReplyIsStored
  BY NoCallFields DEF Init, StoredQuorumAgrees, SignedReplyIsStored
<1> QED BY <1>1, <1>3, <1>4 DEF SigningInv

(* A step of g that stores nothing and leaves its open rows as they are,   *)
(* or drops them.                                                          *)
LEMMA QuietStep ==
    ASSUME SigningInv, NEW g \in Gateways, NEW new \in Call,
           calls' = [calls EXCEPT ![g] = new],
           UNCHANGED signatures, registered' \subseteq Settlements,
           new.tried = {}, new.written = {},
           new.stage \notin {"persisting", "idle"} => new.payload \in Payloads,
           \/ new.stage \in {"idle", "asking"}
           \/ /\ new.stage = "persisting"
              /\ new.sid \in Settlements /\ new.payload \in Payloads
              /\ Cardinality(new.partials) >= QuorumThreshold
           \/ new.stage = "signed" /\ new.sid = None
    PROVE  SigningInv'
<1>1. /\ calls'[g] = new /\ \A h \in Gateways \ {g} : calls'[h] = calls[h]
      /\ calls' \in [Gateways -> Call]
  BY DEF SigningInv, TypeOK
<1>2. TypeOK'
  BY <1>1 DEF SigningInv, TypeOK
<1>3. CallsOK'
  BY <1>1 DEF SigningInv, CallsOK, HasShare
<1>4. OneSharePerSigner'
  <2>1. OpenRows(g)' = {}
    BY <1>1 DEF OpenRows
  <2>2. \A h \in Gateways \ {g} : OpenRows(h)' = OpenRows(h)
    BY <1>1 DEF OpenRows
  <2>3. UNION {OpenRows(h)' : h \in Gateways}
            \subseteq UNION {OpenRows(h) : h \in Gateways}
    BY <2>1, <2>2
  <2> QED BY <2>3 DEF SigningInv, OneSharePerSigner
<1>5. StoredQuorumAgrees'
  BY DEF SigningInv, StoredQuorumAgrees
<1>6. SignedReplyIsStored'
  BY <1>1 DEF SigningInv, SignedReplyIsStored, HasShare
<1> QED BY <1>2, <1>3, <1>4, <1>5, <1>6 DEF SigningInv

LEMMA InsertStep ==
    ASSUME SigningInv, NEW g \in Gateways, NEW n \in Nodes, InsertShare(g, n)
    PROVE  SigningInv'
<1> DEFINE c == calls[g]
           taken == HasShare(c.sid, n)
<1>1. /\ c.stage = "persisting" /\ n \in c.partials \ c.tried
      /\ UNCHANGED <<registered, signatures>>
      /\ \A h \in Gateways \ {g} : \A row \in OpenRows(h) :
            ~ (row.sid = c.sid /\ row.signer = n)
  BY DEF InsertShare, NextPartial
<1>2. /\ calls' \in [Gateways -> Call]
      /\ \A h \in Gateways \ {g} : calls'[h] = calls[h]
      /\ calls'[g].stage = c.stage /\ calls'[g].sid = c.sid
      /\ calls'[g].payload = c.payload /\ calls'[g].partials = c.partials
      /\ calls'[g].tried = c.tried \cup {n}
      /\ calls'[g].written = IF taken THEN c.written ELSE c.written \cup {n}
  BY DEF InsertShare, SigningInv, TypeOK, Call
<1>3. TypeOK'
  BY <1>1, <1>2 DEF SigningInv, TypeOK
<1>4. CallsOK'
  BY <1>1, <1>2 DEF SigningInv, CallsOK, HasShare
<1>5. OneSharePerSigner'
  <2> DEFINE new == Row(c.sid, n, c.payload)
             rows == signatures \cup UNION {OpenRows(h) : h \in Gateways}
  <2>1. \A h \in Gateways \ {g} : OpenRows(h)' = OpenRows(h)
    BY <1>2 DEF OpenRows
  <2>2. OpenRows(g)' = IF taken THEN OpenRows(g) ELSE OpenRows(g) \cup {new}
    BY <1>2 DEF OpenRows
  <2>3. CASE taken
    <3>1. rows' = rows
      BY <1>1, <2>1, <2>2, <2>3
    <3> QED BY <3>1 DEF SigningInv, OneSharePerSigner
  <2>4. CASE ~ taken
    <3>1. ASSUME NEW row \in OpenRows(g) PROVE row.signer # n
      <4>1. PICK m \in c.written : row = Row(c.sid, m, c.payload)
        BY DEF OpenRows
      <4>2. m # n
        BY <1>1, <4>1 DEF SigningInv, CallsOK
      <4> QED BY <4>1, <4>2, RowFields
    <3>2. \A row \in rows : ~ (row.sid = c.sid /\ row.signer = n)
      BY <1>1, <2>4, <3>1 DEF HasShare
    <3>3. new.sid = c.sid /\ new.signer = n
      BY RowFields
    <3> HIDE DEF new
    <3>4. rows' \subseteq rows \cup {new}
      BY <1>1, <2>1, <2>2, <2>4
    <3>5. \A r1, r2 \in rows :
              r1.sid = r2.sid /\ r1.signer = r2.signer => r1 = r2
      BY DEF SigningInv, OneSharePerSigner
    <3> HIDE DEF rows
    <3>6. \A r1, r2 \in rows' :
              r1.sid = r2.sid /\ r1.signer = r2.signer => r1 = r2
      BY <3>2, <3>3, <3>4, <3>5
    <3> QED BY <3>6 DEF OneSharePerSigner, rows
  <2> QED BY <2>3, <2>4
<1>6. StoredQuorumAgrees'
  BY <1>1 DEF SigningInv, StoredQuorumAgrees
<1>7. SignedReplyIsStored'
  BY <1>1, <1>2 DEF SigningInv, SignedReplyIsStored, HasShare
<1> QED BY <1>3, <1>4, <1>5, <1>6, <1>7 DEF SigningInv

LEMMA CommitStep ==
    ASSUME SigningInv, NEW g \in Gateways, CommitShares(g)
    PROVE  SigningInv'
<1> DEFINE c == calls[g]
<1>1. /\ c.stage = "persisting" /\ c.tried = c.partials
      /\ signatures' = signatures \cup OpenRows(g) /\ UNCHANGED registered
  BY DEF CommitShares
<1>2. /\ c.sid \in Settlements /\ c.payload \in Payloads
      /\ c.partials \subseteq Nodes /\ c.written \subseteq c.partials
      /\ Cardinality(c.partials) >= QuorumThreshold
      /\ \A n \in c.partials \ c.written : HasShare(c.sid, n)
  BY <1>1 DEF SigningInv, CallsOK, TypeOK, Call
<1>3. /\ calls' \in [Gateways -> Call]
      /\ \A h \in Gateways \ {g} : calls'[h] = calls[h]
      /\ calls'[g].stage = "signed" /\ calls'[g].sid = c.sid
      /\ calls'[g].payload = c.payload /\ calls'[g].partials = c.partials
      /\ calls'[g].tried = c.tried /\ calls'[g].written = {}
  BY DEF CommitShares, SigningInv, TypeOK, Call, Stages
<1>4. /\ \A row \in OpenRows(g) : \E n \in c.written :
             row = Row(c.sid, n, c.payload)
      /\ \A n \in c.written : Row(c.sid, n, c.payload) \in OpenRows(g)
  BY DEF OpenRows
<1>5. OpenRows(g) \subseteq SignatureRow
  BY <1>2, <1>4, RowType
<1>6. TypeOK'
  BY <1>1, <1>3, <1>5 DEF SigningInv, TypeOK
<1>7. CallsOK'
  BY <1>1, <1>2, <1>3, HasShareForEver DEF SigningInv, CallsOK
<1>8. OneSharePerSigner'
  <2>1. OpenRows(g)' = {}
    BY <1>3 DEF OpenRows
  <2>2. \A h \in Gateways \ {g} : OpenRows(h)' = OpenRows(h)
    BY <1>3 DEF OpenRows
  <2>3. (signatures \cup UNION {OpenRows(h) : h \in Gateways})'
            \subseteq signatures \cup UNION {OpenRows(h) : h \in Gateways}
    BY <1>1, <2>1, <2>2
  <2> QED BY <2>3 DEF SigningInv, OneSharePerSigner
<1>9. \A n \in c.partials : \E row \in signatures' :
          row.sid = c.sid /\ row.signer = n
  <2> SUFFICES ASSUME NEW n \in c.partials
               PROVE  \E row \in signatures' : row.sid = c.sid /\ row.signer = n
    OBVIOUS
  <2>1. CASE n \in c.written
    <3>1. Row(c.sid, n, c.payload) \in signatures'
      BY <1>1, <1>4, <2>1
    <3> QED BY <3>1, RowFields
  <2>2. CASE n \notin c.written
    BY <1>1, <1>2, <2>2 DEF HasShare
  <2> QED BY <2>1, <2>2
<1>10. SignedReplyIsStored'
  <2>1. \A n \in calls'[g].partials : \E row \in signatures' :
            row.sid = calls'[g].sid /\ row.signer = n
    BY <1>3, <1>9
  <2>2. ASSUME NEW h \in Gateways \ {g}, calls[h].stage = "signed",
               calls[h].sid # None, NEW n \in calls[h].partials
        PROVE  \E row \in signatures' : row.sid = calls[h].sid /\ row.signer = n
    BY <1>1, <2>2 DEF SigningInv, SignedReplyIsStored, HasShare
  <2> QED BY <1>3, <2>1, <2>2 DEF SignedReplyIsStored, HasShare
<1>11. StoredQuorumAgrees'
  <2>1. ASSUME NEW row \in signatures
        PROVE  \E payload \in Payloads :
                   Cardinality({n \in Nodes :
                                  Row(row.sid, n, payload) \in signatures'})
                       >= QuorumThreshold
    <3>1. PICK payload \in Payloads :
              Cardinality({n \in Nodes : Row(row.sid, n, payload) \in signatures})
                  >= QuorumThreshold
      BY DEF SigningInv, StoredQuorumAgrees
    <3>2. signatures \subseteq signatures'
      BY <1>1
    <3>3. Cardinality({n \in Nodes : Row(row.sid, n, payload) \in signatures'})
              >= QuorumThreshold
      BY <3>1, <3>2, ShareholdersGrow
    <3> QED BY <3>3
  <2>2. ASSUME NEW row \in OpenRows(g)
        PROVE  \E payload \in Payloads :
                   Cardinality({n \in Nodes :
                                  Row(row.sid, n, payload) \in signatures'})
                       >= QuorumThreshold
    <3>1. row.sid = c.sid
      BY <1>4, RowFields
    <3>2. CASE \E n \in c.partials : n \notin c.written
      <4>1. PICK other \in signatures : other.sid = c.sid
        BY <1>2, <3>2 DEF HasShare
      <4> QED BY <2>1, <3>1, <4>1
    <3>3. CASE c.written = c.partials
      <4> DEFINE stored == {n \in Nodes :
                              Row(c.sid, n, c.payload) \in signatures'}
      <4>1. c.partials \in SUBSET stored
        BY <1>1, <1>2, <1>4, <3>3
      <4>2. IsFiniteSet(stored) /\ IsFiniteSet(c.partials)
        BY <1>2, NodesFinite
      <4>3. Cardinality(c.partials) <= Cardinality(stored)
        BY <4>1, <4>2, FS_Subset
      <4>4. Cardinality(c.partials) \in Nat /\ Cardinality(stored) \in Nat
        BY <4>2, FS_CardinalityType
      <4>5. Cardinality(stored) >= QuorumThreshold
        BY <1>2, <4>3, <4>4, ThresholdAssumption, NodesAssumption
      <4> QED BY <1>2, <3>1, <4>5
    <3> QED BY <1>2, <3>2, <3>3
  <2> QED BY <1>1, <2>1, <2>2 DEF StoredQuorumAgrees
<1> QED BY <1>6, <1>7, <1>8, <1>10, <1>11 DEF SigningInv

LEMMA SigningStep == SigningInv /\ [Next]_vars => SigningInv'
<1> SUFFICES ASSUME SigningInv, [Next]_vars PROVE SigningInv'
  OBVIOUS
<1>1. /\ registered \subseteq Settlements
      /\ \A g \in Gateways : calls[g] \in Call
  BY DEF SigningInv, TypeOK
<1>2. ASSUME NEW g \in Gateways, NEW sid \in Settlements \cup {None},
             NEW payload \in Payloads, StartSign(g, sid, payload)
      PROVE  SigningInv'
  <2> DEFINE new == NewCall(sid, payload)
  <2>1. /\ new \in Call /\ new.stage = "asking" /\ new.payload = payload
        /\ new.tried = {} /\ new.written = {}
    BY NodesAssumption DEF NewCall, Call, Stages
  <2>2. calls' = [calls EXCEPT ![g] = new] /\ UNCHANGED <<registered, signatures>>
    BY <1>2 DEF StartSign
  <2> HIDE DEF new
  <2> QED BY <1>1, <2>1, <2>2, QuietStep
<1>3. ASSUME NEW g \in Gateways, NEW answers \in BOOLEAN, AskNode(g, answers)
      PROVE  SigningInv'
  <2> DEFINE new == calls'[g]
             answered == IF answers
                         THEN calls[g].partials \cup {calls[g].asked + 1}
                         ELSE calls[g].partials
  <2>1. /\ calls[g].stage = "asking" /\ calls[g].asked < NumNodes
        /\ UNCHANGED <<registered, signatures>>
        /\ calls[g].tried = {} /\ calls[g].written = {}
        /\ calls[g].payload \in Payloads
    BY <1>3 DEF AskNode, SigningInv, CallsOK
  <2>2. answered \subseteq Nodes /\ calls[g].asked + 1 \in 0 .. NumNodes
    BY <1>1, <2>1, NodesAssumption DEF Call, Nodes
  <2> HIDE DEF answered
  <2>3. calls' = [calls EXCEPT ![g] = [calls[g] EXCEPT !.asked = @ + 1,
                                                       !.partials = answered]]
    BY <1>1, <1>3 DEF AskNode, answered, SigningInv, TypeOK
  <2>4. /\ new = [calls[g] EXCEPT !.asked = @ + 1, !.partials = answered]
        /\ calls' = [calls EXCEPT ![g] = new]
    BY <2>3 DEF SigningInv, TypeOK
  <2>5. /\ new.stage = "asking" /\ new.tried = {} /\ new.written = {}
        /\ new.payload = calls[g].payload /\ new \in Call
    BY <1>1, <2>1, <2>2, <2>4 DEF Call
  <2> HIDE DEF new
  <2> QED BY <1>1, <2>1, <2>4, <2>5, QuietStep
<1>4. ASSUME NEW g \in Gateways, Combine(g) PROVE SigningInv'
  <2> DEFINE new == calls'[g]
  <2>1. /\ calls[g].stage = "asking"
        /\ Cardinality(calls[g].partials) >= QuorumThreshold
        /\ UNCHANGED <<registered, signatures>>
        /\ calls[g].tried = {} /\ calls[g].written = {}
        /\ calls[g].payload \in Payloads
        /\ calls[g].sid \in Settlements \cup {None}
    BY <1>1, <1>4 DEF Combine, SigningInv, CallsOK, Call
  <2>2. /\ new.stage = IF calls[g].sid = None THEN "signed" ELSE "persisting"
        /\ new.sid = calls[g].sid /\ new.payload = calls[g].payload
        /\ new.partials = calls[g].partials
        /\ new.tried = {} /\ new.written = {}
        /\ new \in Call
        /\ calls' = [calls EXCEPT ![g] = new]
    BY <1>1, <1>4, <2>1 DEF Combine, SigningInv, TypeOK, Call, Stages
  <2> HIDE DEF new
  <2>3. CASE calls[g].sid = None
    BY <1>1, <2>1, <2>2, <2>3, QuietStep
  <2>4. CASE calls[g].sid # None
    BY <1>1, <2>1, <2>2, <2>4, QuietStep
  <2> QED BY <2>3, <2>4
<1>5. ASSUME NEW g \in Gateways, calls' = [calls EXCEPT ![g] = NoCall],
             UNCHANGED <<registered, signatures>>
      PROVE  SigningInv'
  BY <1>1, <1>5, NoCallFields, QuietStep
<1>6. ASSUME NEW more \in SUBSET Settlements, Register(more)
      PROVE  SigningInv'
  BY <1>1, <1>6 DEF Register, SigningInv, TypeOK, CallsOK, OneSharePerSigner,
     StoredQuorumAgrees, SignedReplyIsStored, OpenRows, HasShare
<1>7. ASSUME UNCHANGED vars PROVE SigningInv'
  BY <1>7 DEF vars, SigningInv, TypeOK, CallsOK, OneSharePerSigner,
     StoredQuorumAgrees, SignedReplyIsStored, OpenRows, HasShare
<1>8. ASSUME NEW g \in Gateways,
             ReplyFailed(g) \/ RejectShares(g) \/ ReplySigned(g) \/ Abort(g)
      PROVE  SigningInv'
  BY <1>5, <1>8 DEF ReplyFailed, RejectShares, ReplySigned, Abort
<1> QED
  BY <1>2, <1>3, <1>4, <1>6, <1>7, <1>8, InsertStep, CommitStep
     DEF Next, GatewayStep, Progress

(* Rows and calls have the shape the code and the schema give them.        *)
THEOREM SigningTypeCorrect == Spec => []TypeOK
<1>1. SigningInv => TypeOK
  BY DEF SigningInv
<1> QED BY <1>1, SigningInit, SigningStep, PTL DEF Spec

(* If any share of a settlement is stored, a quorum of them signs one      *)
(* payload, for any number of gateways, nodes and concurrent calls.        *)
THEOREM StoredSharesAgree == Spec => []StoredQuorumAgrees
<1>1. SigningInv => StoredQuorumAgrees
  BY DEF SigningInv
<1> QED BY <1>1, SigningInit, SigningStep, PTL DEF Spec

(* A signer has one share for a settlement, open rows included.            *)
THEOREM SignersSignOnce == Spec => []OneSharePerSigner
<1>1. SigningInv => OneSharePerSigner
  BY DEF SigningInv
<1> QED BY <1>1, SigningInit, SigningStep, PTL DEF Spec

(* Every signer the gateway reports has a stored share.                    *)
THEOREM SignedRepliesStored == Spec => []SignedReplyIsStored
<1>1. SigningInv => SignedReplyIsStored
  BY DEF SigningInv
<1> QED BY <1>1, SigningInit, SigningStep, PTL DEF Spec

-------------------------------------------------------------------------------
(* No gateway waits in a cycle                                             *)

(* The gateway goes through its partials in one order, and what it could   *)
(* insert belongs to a settlement that exists.                             *)
InOrder ==
    \A g \in Gateways :
        /\ \A m \in calls[g].tried :
              \A n \in calls[g].partials \ calls[g].tried : m < n
        /\ calls[g].stage = "persisting" /\ calls[g].tried # {} =>
              calls[g].sid \in registered

OrderInv == SigningInv /\ InOrder

LEMMA OrderInit == Init => OrderInv
  BY SigningInit, NoCallFields DEF Init, OrderInv, InOrder

(* A call of g that has tried nothing, or everything, disturbs no order.   *)
LEMMA OrderUndisturbed ==
    ASSUME OrderInv, NEW g \in Gateways,
           \A h \in Gateways \ {g} : calls'[h] = calls[h],
           registered \subseteq registered',
           \/ calls'[g].tried = {}
           \/ calls'[g].stage # "persisting" /\ calls'[g].tried = calls'[g].partials
    PROVE  InOrder'
  BY DEF OrderInv, InOrder

LEMMA OrderStep == OrderInv /\ [Next]_vars => OrderInv'
<1> SUFFICES ASSUME OrderInv, [Next]_vars PROVE InOrder'
  BY SigningStep DEF OrderInv
<1>1. /\ \A g \in Gateways : calls[g] \in Call
      /\ DOMAIN calls = Gateways
      /\ \A g \in Gateways : calls[g].stage = "asking" => calls[g].tried = {}
  BY DEF OrderInv, SigningInv, TypeOK, CallsOK
<1>2. ASSUME NEW g \in Gateways, NEW n \in Nodes, InsertShare(g, n)
      PROVE  InOrder'
  <2> DEFINE c == calls[g]
  <2>1. /\ n \in c.partials \ c.tried
        /\ \A m \in c.partials \ c.tried : n <= m
        /\ c.sid \in registered /\ registered' = registered
    BY <1>2 DEF InsertShare, NextPartial
  <2>2. /\ \A h \in Gateways \ {g} : calls'[h] = calls[h]
        /\ calls'[g].sid = c.sid /\ calls'[g].partials = c.partials
        /\ calls'[g].tried = c.tried \cup {n}
    BY <1>1, <1>2 DEF InsertShare, Call
  <2>3. c.partials \subseteq Int /\ c.tried \subseteq Int
    BY <1>1, NodesAssumption DEF Call, Nodes
  <2>4. ASSUME NEW m \in c.tried \cup {n},
               NEW k \in c.partials \ (c.tried \cup {n})
        PROVE  m < k
    <3>1. m \in Int /\ k \in Int /\ n \in Int /\ n <= k /\ n # k
      BY <2>1, <2>3, <2>4
    <3>2. m = n \/ m < k
      BY DEF OrderInv, InOrder
    <3> QED BY <3>1, <3>2
  <2> QED BY <2>1, <2>2, <2>4 DEF OrderInv, InOrder
<1>3. ASSUME NEW g \in Gateways, CommitShares(g) PROVE InOrder'
  <2>1. /\ \A h \in Gateways \ {g} : calls'[h] = calls[h]
        /\ calls'[g].stage = "signed" /\ calls'[g].tried = calls'[g].partials
        /\ registered' = registered
    BY <1>1, <1>3 DEF CommitShares, Call
  <2> QED BY <2>1, OrderUndisturbed
<1>4. ASSUME NEW g \in Gateways, NEW answers \in BOOLEAN,
             AskNode(g, answers) \/ Combine(g)
      PROVE  InOrder'
  <2>1. /\ \A h \in Gateways \ {g} : calls'[h] = calls[h]
        /\ calls'[g].tried = {} /\ registered' = registered
    BY <1>1, <1>4 DEF AskNode, Combine, Call
  <2> QED BY <2>1, OrderUndisturbed
<1>5. ASSUME NEW g \in Gateways, NEW new, new.tried = {},
             calls' = [calls EXCEPT ![g] = new], registered' = registered
      PROVE  InOrder'
  <2>1. /\ \A h \in Gateways \ {g} : calls'[h] = calls[h]
        /\ calls'[g].tried = {} /\ registered' = registered
    BY <1>1, <1>5
  <2> QED BY <2>1, OrderUndisturbed
<1>6. ASSUME NEW g \in Gateways, GatewayStep(g) PROVE InOrder'
  <2>1. NoCall.tried = {}
    BY NoCallFields
  <2>2. \A sid, payload : NewCall(sid, payload).tried = {}
    BY DEF NewCall
  <2> QED BY <1>2, <1>3, <1>4, <1>5, <1>6, <2>1, <2>2
          DEF GatewayStep, Progress, StartSign, ReplyFailed, RejectShares,
              ReplySigned, Abort
<1>7. ASSUME registered \subseteq registered', UNCHANGED calls PROVE InOrder'
  BY <1>7 DEF OrderInv, InOrder
<1> QED BY <1>6, <1>7 DEF Next, Register, vars

(* A non-empty set of subsets of a finite set has a smallest member.       *)
LEMMA SmallestSubset ==
    ASSUME NEW S, IsFiniteSet(S), NEW B, B \in SUBSET SUBSET S, B # {}
    PROVE  \E T \in B : \A U \in B : U \subseteq T => U = T
<1>1. IsWellFoundedOn(StrictSubsetOrdering(S), FiniteSubsetsOf(S))
  BY FS_StrictSubsetOrderingWellFounded
<1>2. B \subseteq FiniteSubsetsOf(S)
  BY FS_FiniteSubsetsOfFinite
<1>3. PICK T \in B : \A U \in B : ~ (<<U, T>> \in StrictSubsetOrdering(S))
  BY <1>1, <1>2, WFMin
<1>4. \A U \in B : U \subseteq T => U = T
  BY <1>3 DEF StrictSubsetOrdering
<1> QED BY <1>4

(* One of the nodes of a set comes last: the one with the smallest set of  *)
(* nodes after it.                                                         *)
LEMMA LastNode ==
    ASSUME NEW S \in SUBSET Nodes, S # {}
    PROVE  \E n \in S : \A m \in S : m <= n
<1> DEFINE B == {T \in SUBSET S : \E n \in S : \A m \in S : m \in T <=> n < m}
<1>0. IsFiniteSet(S)
  BY NodesFinite
<1>1. S \subseteq Int
  <2>1. S \subseteq Nodes /\ Nodes \subseteq Int
    BY NodesAssumption DEF Nodes
  <2> QED BY <2>1
<1>2. B \in SUBSET SUBSET S
  OBVIOUS
<1>3. \A n \in S : {m \in S : n < m} \in B
  OBVIOUS
<1>4. \E T \in B : \A U \in B : U \subseteq T => U = T
  <2>1. B # {}
    BY <1>3
  <2> HIDE DEF B
  <2> QED BY <1>0, <1>2, <2>1, SmallestSubset
<1>5. PICK T \in B : \A U \in B : U \subseteq T => U = T
  BY <1>4
<1>6. PICK n \in S : \A m \in S : m \in T <=> n < m
  OBVIOUS
<1>7. ASSUME NEW m \in S PROVE m <= n
  <2> DEFINE U == {k \in S : m < k}
  <2> SUFFICES ASSUME n < m PROVE FALSE
    BY <1>1
  <2>1. m \in T /\ m \notin U
    BY <1>1, <1>6
  <2>2. U \subseteq T
    <3>1. \A k \in S : m < k => n < k
      BY <1>1
    <3> QED BY <1>6, <3>1
  <2>3. U \in B
    BY <1>3
  <2> HIDE DEF U, B
  <2> QED BY <1>5, <2>1, <2>2, <2>3
<1> QED BY <1>7

(* If every gateway of a set waited for another of the set, the one whose  *)
(* next signer is the last would wait for a row of that signer: whoever    *)
(* holds it waits for a later one.                                         *)
LEMMA OrderMeansNoCycle == OrderInv => NoWaitCycle
<1> SUFFICES ASSUME OrderInv, NEW group \in (SUBSET Gateways) \ {{}}
             PROVE  \E g \in group : \A h \in group : ~ WaitsFor(g, h)
  BY DEF NoWaitCycle
<1> SUFFICES ASSUME \A g \in group : \E h \in group : WaitsFor(g, h)
             PROVE  FALSE
  OBVIOUS
<1> DEFINE Nexts == {n \in Nodes : \E g \in group : NextPartial(g, n)}
<1>1. \A g \in Gateways :
          /\ calls[g].partials \subseteq Nodes
          /\ calls[g].written \subseteq calls[g].tried
  BY DEF OrderInv, SigningInv, TypeOK, CallsOK, Call
<1>2. ASSUME NEW g \in group
      PROVE  \E n \in Nodes, h \in group :
                 NextPartial(g, n) /\ n \in calls[h].written
  <2>1. PICK h \in group : WaitsFor(g, h)
    OBVIOUS
  <2>2. PICK n \in calls[h].written : NextPartial(g, n)
    BY <2>1 DEF WaitsFor
  <2>3. n \in Nodes
    BY <1>1, <2>2 DEF NextPartial
  <2> QED BY <2>2, <2>3
<1>3. Nexts \in SUBSET Nodes /\ Nexts # {}
  BY <1>2
<1>4. PICK last \in Nexts : \A m \in Nexts : m <= last
  <2> HIDE DEF Nexts
  <2> QED BY <1>3, LastNode
<1>5. PICK g \in group : NextPartial(g, last)
  OBVIOUS
<1>6. PICK h \in group : last \in calls[h].written
  <2>1. PICK n \in Nodes, k \in group :
            NextPartial(g, n) /\ n \in calls[k].written
    BY <1>2
  <2>2. n <= last /\ last <= n /\ n \in Int /\ last \in Int
    BY <1>5, <2>1, NodesAssumption DEF NextPartial, Nodes
  <2> QED BY <2>1, <2>2
<1>7. PICK later \in Nodes : NextPartial(h, later)
  BY <1>2
<1>8. last < later
  BY <1>1, <1>6, <1>7 DEF OrderInv, InOrder, NextPartial
<1>9. later <= last
  BY <1>4, <1>7
<1> QED BY <1>8, <1>9, NodesAssumption DEF Nodes

(* Gateways that store shares of one settlement at the same time never     *)
(* deadlock, for any number of gateways and nodes.                         *)
THEOREM GatewaysNeverDeadlock == Spec => []NoWaitCycle
  BY OrderInit, OrderStep, OrderMeansNoCycle, PTL DEF Spec

-------------------------------------------------------------------------------
(* Refinement                                                              *)

SignedAnswers ==
    {[gateway |-> g, sid |-> calls[g].sid, signers |-> calls[g].partials] :
        g \in {h \in Gateways : calls[h].stage = "signed"}}

LEMMA InitImplements == Init => Record!Init
  BY NoCallFields DEF Init, Record!Init

(* The commit is the one moment at which a call takes effect: the partials *)
(* that are not in its open rows were stored before, and an open row of a  *)
(* signer that has a stored share is that share.                           *)
LEMMA CommitAddsMissing ==
    ASSUME OrderInv, NEW g \in Gateways, CommitShares(g)
    PROVE  signatures' = signatures \cup
               {Record!Share(calls[g].sid, n, calls[g].payload) :
                   n \in Record!Missing(calls[g].sid, calls[g].partials)}
<1> DEFINE c == calls[g]
           missing == Record!Missing(c.sid, c.partials)
           added == {Record!Share(c.sid, n, c.payload) : n \in missing}
<1>1. /\ signatures' = signatures \cup OpenRows(g)
      /\ c.written \subseteq c.partials
      /\ \A n \in c.partials \ c.written : HasShare(c.sid, n)
  BY DEF CommitShares, OrderInv, SigningInv, CallsOK
<1>2. \A n : Record!Share(c.sid, n, c.payload) = Row(c.sid, n, c.payload)
  BY DEF Record!Share, Row, PartialSignature
<1>3. \A n : n \in missing <=> n \in c.partials /\ ~ HasShare(c.sid, n)
  BY DEF Record!Missing, HasShare
<1>4. added \subseteq OpenRows(g)
  BY <1>1, <1>2, <1>3 DEF OpenRows
<1>5. ASSUME NEW row \in OpenRows(g) PROVE row \in signatures \cup added
  <2>1. PICK n \in c.written : row = Row(c.sid, n, c.payload)
    BY DEF OpenRows
  <2>2. CASE HasShare(c.sid, n)
    <3>1. PICK other \in signatures : other.sid = c.sid /\ other.signer = n
      BY <2>2 DEF HasShare
    <3>2. row.sid = c.sid /\ row.signer = n
      BY <2>1, RowFields
    <3>3. row = other
      BY <3>1, <3>2 DEF OrderInv, SigningInv, OneSharePerSigner
    <3> QED BY <3>1, <3>3
  <2>3. CASE ~ HasShare(c.sid, n)
    BY <1>1, <1>2, <1>3, <2>1, <2>3
  <2> QED BY <2>2, <2>3
<1> HIDE DEF added
<1>6. signatures \cup OpenRows(g) = signatures \cup added
  BY <1>4, <1>5
<1> QED BY <1>1, <1>6 DEF added

LEMMA StepImplements ==
    ASSUME OrderInv, [Next]_vars PROVE [Record!Next]_(Record!vars)
<1>1. /\ \A g \in Gateways : calls[g] \in Call
      /\ calls \in [Gateways -> Call]
  BY DEF OrderInv, SigningInv, TypeOK
<1>2. ASSUME NEW g \in Gateways, calls[g].stage # "signed",
             \A h \in Gateways \ {g} : calls'[h] = calls[h],
             calls'[g].stage # "signed"
      PROVE  SignedAnswers' = SignedAnswers
  BY <1>2 DEF SignedAnswers
<1>3. ASSUME NEW g \in Gateways, calls[g].stage # "signed",
             \A h \in Gateways \ {g} : calls'[h] = calls[h],
             calls'[g].stage = "signed"
      PROVE  /\ \A answer \in SignedAnswers : answer.gateway # g
             /\ SignedAnswers' = SignedAnswers \cup
                    {[gateway |-> g, sid |-> calls'[g].sid,
                      signers |-> calls'[g].partials]}
  BY <1>3 DEF SignedAnswers
<1>4. ASSUME NEW g \in Gateways, UNCHANGED <<registered, signatures>>,
             calls[g].stage # "signed",
             \A h \in Gateways \ {g} : calls'[h] = calls[h],
             calls'[g].stage # "signed"
      PROVE  UNCHANGED Record!vars
  BY <1>2, <1>4 DEF Record!vars, SignedAnswers
<1>5. ASSUME NEW g \in Gateways, CommitShares(g) PROVE Record!Next
  <2> DEFINE c == calls[g]
  <2>1. /\ c.stage = "persisting" /\ c.tried = c.partials
        /\ calls'[g].stage = "signed" /\ calls'[g].sid = c.sid
        /\ calls'[g].partials = c.partials
        /\ \A h \in Gateways \ {g} : calls'[h] = calls[h]
        /\ registered' = registered
    BY <1>1, <1>5 DEF CommitShares, Call
  <2>2. /\ c.sid \in Settlements /\ c.payload \in Payloads
        /\ c.partials \in SUBSET Nodes
        /\ Cardinality(c.partials) >= QuorumThreshold
    BY <1>1, <2>1 DEF OrderInv, SigningInv, CallsOK, Call
  <2>3. c.partials # {}
    BY <2>2, FS_EmptySet, ThresholdAssumption, NodesAssumption
  <2>4. c.sid \in registered
    BY <2>1, <2>3 DEF OrderInv, InOrder
  <2>5. signatures' = signatures \cup
            {Record!Share(c.sid, n, c.payload) :
                n \in Record!Missing(c.sid, c.partials)}
    BY <1>5, CommitAddsMissing
  <2>6. /\ \A answer \in SignedAnswers : answer.gateway # g
        /\ SignedAnswers' = SignedAnswers \cup
               {[gateway |-> g, sid |-> c.sid, signers |-> c.partials]}
    BY <1>3, <2>1
  <2>7. c.sid # None
    BY <2>2, NoneAssumption
  <2>8. PICK sid \in Settlements, payload \in Payloads,
             signers \in {S \in SUBSET Nodes : Cardinality(S) >= QuorumThreshold} :
            sid = c.sid /\ payload = c.payload /\ signers = c.partials
    BY <2>2
  <2>9. Record!Sign(g, sid, payload, signers)
    BY <2>1, <2>4, <2>5, <2>6, <2>7, <2>8 DEF Record!Sign, SignedAnswers
  <2> QED BY <2>9 DEF Record!Next
<1>6. ASSUME NEW g \in Gateways, Combine(g), calls[g].sid = None
      PROVE  Record!Next
  <2> DEFINE c == calls[g]
  <2>1. /\ c.stage = "asking" /\ Cardinality(c.partials) >= QuorumThreshold
        /\ calls'[g].stage = "signed" /\ calls'[g].sid = None
        /\ calls'[g].partials = c.partials
        /\ \A h \in Gateways \ {g} : calls'[h] = calls[h]
        /\ UNCHANGED <<registered, signatures>>
    BY <1>1, <1>6 DEF Combine, Call
  <2>2. c.payload \in Payloads /\ c.partials \in SUBSET Nodes
    BY <1>1, <2>1 DEF OrderInv, SigningInv, CallsOK, Call
  <2>3. /\ \A answer \in SignedAnswers : answer.gateway # g
        /\ SignedAnswers' = SignedAnswers \cup
               {[gateway |-> g, sid |-> None, signers |-> c.partials]}
    BY <1>3, <2>1
  <2>4. PICK payload \in Payloads,
             signers \in {S \in SUBSET Nodes : Cardinality(S) >= QuorumThreshold} :
            payload = c.payload /\ signers = c.partials
    BY <2>1, <2>2
  <2>5. Record!Sign(g, None, payload, signers)
    BY <2>1, <2>3, <2>4 DEF Record!Sign, SignedAnswers
  <2> QED BY <2>5 DEF Record!Next
<1>7. ASSUME NEW g \in Gateways, ReplySigned(g) PROVE Record!Next
  <2>1. /\ calls'[g].stage # "signed"
        /\ \A h \in Gateways \ {g} : calls'[h] = calls[h]
        /\ UNCHANGED <<registered, signatures>>
    BY <1>1, <1>7, NoCallFields DEF ReplySigned
  <2>2. SignedAnswers' = {answer \in SignedAnswers : answer.gateway # g}
    BY <2>1 DEF SignedAnswers
  <2> QED BY <2>1, <2>2 DEF Record!Next, Record!Answer, SignedAnswers
<1>8. ASSUME NEW g \in Gateways, NEW new \in Call, new.stage # "signed",
             calls[g].stage # "signed",
             calls' = [calls EXCEPT ![g] = new],
             UNCHANGED <<registered, signatures>>
      PROVE  UNCHANGED Record!vars
  BY <1>1, <1>4, <1>8
<1>9. ASSUME NEW g \in Gateways,
             \/ \E answers \in BOOLEAN : AskNode(g, answers)
             \/ \E n \in Nodes : InsertShare(g, n)
             \/ Combine(g) /\ calls[g].sid # None
      PROVE  UNCHANGED Record!vars
  <2>1. /\ calls[g].stage # "signed" /\ calls'[g].stage # "signed"
        /\ \A h \in Gateways \ {g} : calls'[h] = calls[h]
        /\ UNCHANGED <<registered, signatures>>
    BY <1>1, <1>9 DEF AskNode, InsertShare, Combine, Call
  <2> QED BY <1>4, <2>1
<1>10. ASSUME NEW g \in Gateways, NEW sid, NEW payload,
              StartSign(g, sid, payload)
       PROVE  UNCHANGED Record!vars
  <2>1. /\ calls[g].stage # "signed" /\ calls'[g].stage # "signed"
        /\ \A h \in Gateways \ {g} : calls'[h] = calls[h]
        /\ UNCHANGED <<registered, signatures>>
    BY <1>1, <1>10 DEF StartSign, NewCall
  <2> QED BY <1>4, <2>1
<1>11. ASSUME NEW g \in Gateways,
              ReplyFailed(g) \/ RejectShares(g) \/ Abort(g)
       PROVE  UNCHANGED Record!vars
  BY <1>8, <1>11, NoCallFields DEF ReplyFailed, RejectShares, Abort
<1>12. ASSUME NEW more \in SUBSET Settlements, Register(more)
       PROVE  Record!Next
  <2>1. SignedAnswers' = SignedAnswers
    BY <1>12 DEF Register, SignedAnswers
  <2> QED BY <1>12, <2>1 DEF Register, Record!Next, Record!Register, SignedAnswers
<1>13. ASSUME UNCHANGED vars PROVE UNCHANGED Record!vars
  BY <1>13 DEF vars, Record!vars
<1> QED
  BY <1>5, <1>6, <1>7, <1>9, <1>10, <1>11, <1>12, <1>13
     DEF Next, GatewayStep, Progress

(* A signing call takes effect at once or not at all, for any number of    *)
(* gateways, nodes, settlements and payloads and any threshold.            *)
THEOREM SigningIsAtomic == Spec => ImplementsSignatureRecord
<1>1. Init => OrderInv /\ Record!Init
  BY OrderInit, InitImplements
<1>2. OrderInv /\ [Next]_vars => [Record!Next]_(Record!vars)
  BY StepImplements
<1> QED
  BY <1>1, <1>2, OrderStep, PTL DEF Spec, ImplementsSignatureRecord, Record!Spec

===============================================================================
