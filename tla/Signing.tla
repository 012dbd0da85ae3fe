-------------------------------- MODULE Signing --------------------------------
(***************************************************************************)
(* signing-gateway and the MPC nodes it asks.                              *)
(*                                                                         *)
(* A gateway handles one POST /sign at a time: it asks the nodes one after *)
(* the other, gives up below its threshold, and otherwise inserts the      *)
(* partial signatures in ONE database transaction before it replies.  A    *)
(* node is stateless and its partial signature is a function of the node   *)
(* and the payload hash, so a stored share is named by its signer and the  *)
(* payload it signs.                                                       *)
(***************************************************************************)
EXTENDS Naturals, FiniteSets

CONSTANTS
    Gateways,         \* instances of signing-gateway
    NumNodes,         \* length of MPC_NODES
    QuorumThreshold,  \* QUORUM_THRESHOLD
    Settlements,
    Payloads,         \* hashes of request bodies
    None              \* no settlement id in the request body; no payload

ASSUME NodesAssumption == NumNodes \in Nat
ASSUME ThresholdAssumption == QuorumThreshold \in 1 .. NumNodes
ASSUME NoneAssumption == None \notin Settlements

VARIABLES
    registered,   \* settlements that exist; settlement-service adds them
    signatures,   \* committed rows of mpc_signatures
    calls         \* the request each gateway has in hand

vars == <<registered, signatures, calls>>

Nodes == 1 .. NumNodes

SignatureRow == [sid : Settlements, signer : Nodes, share : Payloads]

Stages == {"idle", "asking", "persisting", "signed"}

(* `asked' counts the nodes asked so far and `partials' are those that     *)
(* answered; `tried' are the partials whose INSERT was executed and        *)
(* `written' those of them whose row the open transaction holds.           *)
Call ==
    [stage : Stages, sid : Settlements \cup {None}, payload : Payloads \cup {None},
     asked : 0 .. NumNodes, partials : SUBSET Nodes,
     tried : SUBSET Nodes, written : SUBSET Nodes]

NoCall ==
    [stage |-> "idle", sid |-> None, payload |-> None, asked |-> 0,
     partials |-> {}, tried |-> {}, written |-> {}]

NewCall(sid, payload) ==
    [stage |-> "asking", sid |-> sid, payload |-> payload, asked |-> 0,
     partials |-> {}, tried |-> {}, written |-> {}]

-------------------------------------------------------------------------------
(* compute_partial_signature: the share of node n for a payload.           *)
PartialSignature(n, payload) == [signer |-> n, share |-> payload]

(* The row that stores it.                                                 *)
Row(sid, n, payload) ==
    [sid    |-> sid,
     signer |-> PartialSignature(n, payload).signer,
     share  |-> PartialSignature(n, payload).share]

HasShare(sid, n) == \E row \in signatures : row.sid = sid /\ row.signer = n

(* Rows of the open transaction of g.                                      *)
OpenRows(g) ==
    {Row(calls[g].sid, n, calls[g].payload) : n \in calls[g].written}

(* Slip: the partials are inserted in whatever order they arrived.         *)
AnyPartial(g, n) == n \in calls[g].partials \ calls[g].tried

(* The next partial to insert; the loop follows the order of MPC_NODES.    *)
NextPartial(g, n) ==
    /\ n \in calls[g].partials \ calls[g].tried
    /\ \A m \in calls[g].partials \ calls[g].tried : n <= m

-------------------------------------------------------------------------------
Init ==
    /\ registered = {}
    /\ signatures = {}
    /\ calls = [g \in Gateways |-> NoCall]

(* POST /sign.  Neither the existence of the settlement nor its state is   *)
(* looked at.                                                              *)
StartSign(g, sid, payload) ==
    /\ calls[g].stage = "idle"
    /\ calls' = [calls EXCEPT ![g] = NewCall(sid, payload)]
    /\ UNCHANGED <<registered, signatures>>

(* Slip: one node too many.                                                *)
AskOneTooMany(g, answers) ==
    /\ calls[g].stage = "asking"
    /\ calls[g].asked <= NumNodes
    /\ calls' = [calls EXCEPT
           ![g].asked = @ + 1,
           ![g].partials = IF answers THEN @ \cup {calls[g].asked + 1} ELSE @]
    /\ UNCHANGED <<registered, signatures>>

(* The next node answers, or its request fails or times out.               *)
AskNode(g, answers) ==
    /\ calls[g].stage = "asking"
    /\ calls[g].asked < NumNodes
    /\ calls' = [calls EXCEPT
           ![g].asked = @ + 1,
           ![g].partials = IF answers THEN @ \cup {calls[g].asked + 1} ELSE @]
    /\ UNCHANGED <<registered, signatures>>

(* Every node was asked and too few answered: FAILED, nothing is stored.   *)
ReplyFailed(g) ==
    /\ calls[g].stage = "asking"
    /\ calls[g].asked = NumNodes
    /\ Cardinality(calls[g].partials) < QuorumThreshold
    /\ calls' = [calls EXCEPT ![g] = NoCall]
    /\ UNCHANGED <<registered, signatures>>

(* Enough answered; without a settlement id there is nothing to store.     *)
Combine(g) ==
    /\ calls[g].stage = "asking"
    /\ calls[g].asked = NumNodes
    /\ Cardinality(calls[g].partials) >= QuorumThreshold
    /\ calls' = [calls EXCEPT ![g].stage =
           IF calls[g].sid = None THEN "signed" ELSE "persisting"]
    /\ UNCHANGED <<registered, signatures>>

(* Slips: every INSERT commits on its own; no ON CONFLICT and no UNIQUE.   *)
InsertShareAutocommit(g, n) ==
    /\ calls[g].stage = "persisting"
    /\ NextPartial(g, n)
    /\ calls[g].sid \in registered
    /\ signatures' = IF HasShare(calls[g].sid, n)
                     THEN signatures
                     ELSE signatures \cup {Row(calls[g].sid, n, calls[g].payload)}
    /\ calls' = [calls EXCEPT ![g].tried = @ \cup {n}]
    /\ UNCHANGED registered

InsertShareAlways(g, n) ==
    /\ calls[g].stage = "persisting"
    /\ NextPartial(g, n)
    /\ calls[g].sid \in registered
    /\ calls' = [calls EXCEPT ![g].tried = @ \cup {n}, ![g].written = @ \cup {n}]
    /\ UNCHANGED <<registered, signatures>>

(* INSERT ... ON CONFLICT DO NOTHING of the next partial.  A committed row *)
(* of the same signer makes it do nothing, the uncommitted row of another  *)
(* transaction makes it wait.                                             *)
InsertShare(g, n) ==
    /\ calls[g].stage = "persisting"
    /\ NextPartial(g, n)
    /\ calls[g].sid \in registered
    /\ \A h \in Gateways \ {g} : \A row \in OpenRows(h) :
          ~ (row.sid = calls[g].sid /\ row.signer = n)
    /\ calls' = [calls EXCEPT
           ![g].tried = @ \cup {n},
           ![g].written = IF HasShare(calls[g].sid, n) THEN @ ELSE @ \cup {n}]
    /\ UNCHANGED <<registered, signatures>>

CommitShares(g) ==
    /\ calls[g].stage = "persisting"
    /\ calls[g].tried = calls[g].partials
    /\ signatures' = signatures \cup OpenRows(g)
    /\ calls' = [calls EXCEPT ![g].stage = "signed", ![g].written = {}]
    /\ UNCHANGED registered

ReplySigned(g) ==
    /\ calls[g].stage = "signed"
    /\ calls' = [calls EXCEPT ![g] = NoCall]
    /\ UNCHANGED <<registered, signatures>>

(* Slip: the exception is logged and not raised again.                     *)
IgnoreRejectedShares(g) ==
    /\ calls[g].stage = "persisting"
    /\ calls[g].sid \notin registered
    /\ calls' = [calls EXCEPT ![g].stage = "signed"]
    /\ UNCHANGED <<registered, signatures>>

(* A settlement that does not exist fails the INSERT: the transaction is   *)
(* rolled back, the exception re-raised, and do_POST does not catch it.    *)
RejectShares(g) ==
    /\ calls[g].stage = "persisting"
    /\ calls[g].sid \notin registered
    /\ calls' = [calls EXCEPT ![g] = NoCall]
    /\ UNCHANGED <<registered, signatures>>

(* The database connection breaks or the process dies: no reply and        *)
(* nothing stored.                                                         *)
Abort(g) ==
    /\ calls[g].stage \in {"asking", "persisting"}
    /\ calls' = [calls EXCEPT ![g] = NoCall]
    /\ UNCHANGED <<registered, signatures>>

(* settlement-service creates settlements.                                 *)
Register(more) ==
    /\ registered' = registered \cup more
    /\ UNCHANGED <<signatures, calls>>

Progress(g) ==
    \/ \E answers \in BOOLEAN : AskNode(g, answers)
    \/ ReplyFailed(g)
    \/ Combine(g)
    \/ \E n \in Nodes : InsertShare(g, n)
    \/ CommitShares(g)
    \/ RejectShares(g)
    \/ ReplySigned(g)

GatewayStep(g) ==
    \/ \E sid \in Settlements \cup {None}, payload \in Payloads :
          StartSign(g, sid, payload)
    \/ Progress(g)
    \/ Abort(g)

Next ==
    \/ \E g \in Gateways : GatewayStep(g)
    \/ \E more \in SUBSET Settlements : Register(more)

Spec == Init /\ [][Next]_vars

(* A gateway keeps executing the request it has: every node request ends   *)
(* by an answer, an error or the 10 second timeout, and a database         *)
(* statement ends or raises.  Strong fairness is only needed for an INSERT *)
(* that waits for the row of another gateway: PostgreSQL wakes it when the *)
(* transaction it waits for ends, long before the other gateway can have   *)
(* asked every node again and inserted a row for the next call.            *)
FairSpec == Spec /\ \A g \in Gateways : SF_vars(Progress(g))

-------------------------------------------------------------------------------
(* Properties                                                              *)

(* Rows and calls have the shape the code and the schema give them.        *)
TypeOK ==
    /\ registered \subseteq Settlements
    /\ signatures \subseteq SignatureRow
    /\ calls \in [Gateways -> Call]

(* If any share of a settlement is stored, then a full quorum of them      *)
(* signs one and the same payload: the shares of a call become visible     *)
(* together, and later calls, for the same or another payload, can only    *)
(* add to them (gateway.py:75-125, UNIQUE (settlement_id, signer_id)).     *)
StoredQuorumAgrees ==
    \A row \in signatures : \E payload \in Payloads :
        Cardinality({n \in Nodes : Row(row.sid, n, payload) \in signatures})
            >= QuorumThreshold

(* When the gateway is about to report SIGNED for a settlement, every      *)
(* signer it reports has a stored share for that settlement, whichever     *)
(* call stored it.                                                         *)
SignedReplyIsStored ==
    \A g \in Gateways :
        calls[g].stage = "signed" /\ calls[g].sid # None =>
            \A n \in calls[g].partials : HasShare(calls[g].sid, n)

(* Each partial signature is persisted (README.md:201): the shares of a    *)
(* SIGNED reply are the stored ones.  A second call with another body      *)
(* refutes it: ON CONFLICT DO NOTHING keeps the first call's shares.       *)
ReplySharesStored ==
    \A g \in Gateways :
        calls[g].stage = "signed" /\ calls[g].sid # None =>
            \A n \in calls[g].partials :
                Row(calls[g].sid, n, calls[g].payload) \in signatures

(* One share per settlement and signer, at any number of gateways: a row   *)
(* that is being committed never meets a committed one.                    *)
OneSharePerSigner ==
    \A r1, r2 \in signatures \cup UNION {OpenRows(g) : g \in Gateways} :
        r1.sid = r2.sid /\ r1.signer = r2.signer => r1 = r2

(* The INSERT that g has to execute next waits for an open row of h.       *)
WaitsFor(g, h) ==
    /\ calls[g].stage = "persisting"
    /\ \E n \in calls[h].written :
          g # h /\ NextPartial(g, n) /\ calls[h].sid = calls[g].sid

(* No deadlock, which PostgreSQL would break by failing a call that had    *)
(* its quorum: in whichever set of gateways, one waits for no other of the *)
(* set.  It is kept by an order nobody states as a rule: every gateway     *)
(* inserts in the order of MPC_NODES (gateway.py:91, 152-162).             *)
NoWaitCycle ==
    \A group \in (SUBSET Gateways) \ {{}} :
        \E g \in group : \A h \in group : ~ WaitsFor(g, h)

(* Every signing request ends: nodes that do not answer do not hold it up, *)
(* and gateways never wait for one another in a cycle.                     *)
CallTerminates ==
    \A g \in Gateways : calls[g].stage # "idle" ~> calls[g].stage = "idle"

-------------------------------------------------------------------------------
(* What a client sees: the stored shares and the answers that are due.     *)

Record == INSTANCE SignatureRecord WITH
    Quorums <- {S \in SUBSET Nodes : Cardinality(S) >= QuorumThreshold},
    existing <- registered,
    record <- signatures,
    signed <- {[gateway |-> g, sid |-> calls[g].sid,
                signers |-> calls[g].partials] :
                  g \in {h \in Gateways : calls[h].stage = "signed"}}

(* A call takes effect at one moment, its commit, however its requests,    *)
(* inserts and waits interleave with those of other gateways, and one that *)
(* fails has no effect at all.                                             *)
ImplementsSignatureRecord == Record!Spec

===============================================================================
