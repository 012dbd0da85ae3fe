--------------------------- MODULE ApiGatewayProofs ---------------------------
(***************************************************************************)
(* Theorems about api-gateway, for any number of gateways, keys, requests  *)
(* and faults.                                                             *)
(***************************************************************************)
EXTENDS ApiGateway, FiniteSetTheorems, TLAPS

(* A reply is stored before it is given.                                   *)
StoredFirst ==
    /\ \A k \in Keys : replies[k] # {} => stored[k] # NoReply
    /\ \A g \in Gateways :
          calls[g].stage = "stored" /\ calls[g].key # None =>
              stored[calls[g].key] # NoReply
    /\ \A g \in Gateways :
          calls[g].stage \in {"answered", "stored"} => calls[g].reply \in Reply

GatewayInv == TypeOK /\ StoredFirst

-------------------------------------------------------------------------------
LEMMA InHandFields ==
    ASSUME NEW stage \in Stages, NEW k \in Request,
           NEW reply \in Reply \cup {NoReply}
    PROVE  /\ InHand(stage, k, reply) \in Call
           /\ InHand(stage, k, reply).stage = stage
           /\ InHand(stage, k, reply).key = k
           /\ InHand(stage, k, reply).reply = reply
  BY DEF InHand, Call

LEMMA ReplyKinds ==
    /\ NoReply \notin Reply
    /\ Refused \in Reply /\ Unavailable \in Reply
    /\ \A run \in Nat : Done(run) \in Reply
  BY DEF NoReply, Refused, Unavailable, Done, Reply

LEMMA NoCallFields ==
    /\ NoCall \in Call /\ NoCall.stage = "idle" /\ NoCall.key = None
    /\ NoCall.reply = NoReply
<1>1. "idle" \in Stages /\ None \in Request /\ NoReply \in Reply \cup {NoReply}
  BY DEF Stages, Request
<1> QED BY <1>1, InHandFields DEF NoCall

LEMMA GatewayInit == Init => GatewayInv
<1> SUFFICES ASSUME Init PROVE GatewayInv
  OBVIOUS
<1>1. TypeOK
  BY NoCallFields, BoundAssumption DEF Init, TypeOK
<1>2. StoredFirst
  BY NoCallFields DEF Init, StoredFirst, Request
<1> QED BY <1>1, <1>2 DEF GatewayInv

(* A step that gives g another call and leaves the tables alone.           *)
LEMMA CallStep ==
    ASSUME GatewayInv, NEW g \in Gateways, NEW stage \in Stages,
           NEW k \in Request, NEW reply \in Reply \cup {NoReply},
           calls' = [calls EXCEPT ![g] = InHand(stage, k, reply)],
           stage # "stored", stage = "answered" => reply \in Reply,
           UNCHANGED <<stored, replies>>,
           executions' \in [Request -> Nat], orphans' \in [Request -> Nat],
           sends' \in 0 .. MaxSends, faults' \in 0 .. MaxFaults
    PROVE  GatewayInv'
<1>1. /\ calls' \in [Gateways -> Call]
      /\ calls'[g].stage = stage /\ calls'[g].reply = reply
      /\ \A h \in Gateways \ {g} : calls'[h] = calls[h]
  BY InHandFields DEF GatewayInv, TypeOK
<1>2. TypeOK'
  BY <1>1 DEF GatewayInv, TypeOK
<1>3. StoredFirst'
  BY <1>1 DEF GatewayInv, StoredFirst
<1> QED BY <1>2, <1>3 DEF GatewayInv

(* A step that gives a reply, which is stored if there is a key.           *)
LEMMA ReplyStep ==
    ASSUME GatewayInv, NEW g \in Gateways, NEW reply \in Reply,
           calls[g].key # None => stored[calls[g].key] # NoReply,
           GiveReply(g, reply),
           UNCHANGED <<stored, executions, orphans, sends, faults>>
    PROVE  GatewayInv'
<1>1. calls[g].key \in Request
  BY DEF GatewayInv, TypeOK, Call
<1>2. /\ calls' \in [Gateways -> Call]
      /\ calls'[g] = NoCall /\ \A h \in Gateways \ {g} : calls'[h] = calls[h]
      /\ replies' \in [Request -> SUBSET Reply]
      /\ \A k \in Request \ {calls[g].key} : replies'[k] = replies[k]
  BY <1>1, NoCallFields DEF GiveReply, GatewayInv, TypeOK
<1>3. TypeOK'
  BY <1>2 DEF GatewayInv, TypeOK
<1>4. \A k \in Keys : k \in Request /\ k # None
  BY NoneAssumption DEF Request
<1>5. StoredFirst'
  BY <1>2, <1>4, NoCallFields DEF GatewayInv, StoredFirst
<1> QED BY <1>3, <1>5 DEF GatewayInv

LEMMA StoreStep ==
    ASSUME GatewayInv, NEW g \in Gateways, Store(g)
    PROVE  GatewayInv'
<1> DEFINE k == calls[g].key
<1>1. k \in Request /\ calls[g].reply \in Reply /\ "stored" \in Stages
  BY DEF Store, GatewayInv, StoredFirst, TypeOK, Call, Stages
<1>2. /\ stored' \in [Keys -> Reply \cup {NoReply}]
      /\ \A i \in Keys : stored[i] # NoReply => stored'[i] # NoReply
      /\ k # None => stored'[k] # NoReply
  <2>1. CASE k # None /\ stored[k] = NoReply
    <3>1. stored' = [stored EXCEPT ![k] = calls[g].reply]
      BY <2>1 DEF Store
    <3> QED BY <1>1, <2>1, <3>1, ReplyKinds DEF GatewayInv, TypeOK, Request
  <2>2. CASE ~ (k # None /\ stored[k] = NoReply)
    <3>1. stored' = stored
      BY <2>2 DEF Store
    <3> QED BY <2>2, <3>1 DEF GatewayInv, TypeOK
  <2> QED BY <2>1, <2>2
<1>3. /\ calls' \in [Gateways -> Call]
      /\ calls'[g].key = k /\ calls'[g].reply = calls[g].reply
      /\ \A h \in Gateways \ {g} : calls'[h] = calls[h]
  BY <1>1, InHandFields DEF Store, MoveTo, GatewayInv, TypeOK
<1>4. UNCHANGED <<executions, orphans, replies, sends, faults>>
  BY DEF Store
<1>5. TypeOK'
  BY <1>2, <1>3, <1>4 DEF GatewayInv, TypeOK
<1>6. \A h \in Gateways : calls[h].key \in Request
  BY DEF GatewayInv, TypeOK, Call
<1>7. StoredFirst'
  BY <1>1, <1>2, <1>3, <1>4, <1>6 DEF GatewayInv, StoredFirst, Request
<1> QED BY <1>5, <1>7 DEF GatewayInv

LEMMA OrphanStep ==
    ASSUME GatewayInv, NEW k \in Request, ExecuteOrphan(k) \/ DropOrphan(k)
    PROVE  GatewayInv'
<1>1. /\ orphans[k] \in Nat /\ orphans[k] > 0 /\ executions[k] \in Nat
      /\ UNCHANGED <<stored, calls, replies, sends, faults>>
  BY DEF ExecuteOrphan, DropOrphan, GatewayInv, TypeOK
<1>2. orphans' = [orphans EXCEPT ![k] = @ - 1]
  BY DEF ExecuteOrphan, DropOrphan
<1>3. \/ executions' = executions
      \/ executions' = [executions EXCEPT ![k] = @ + 1]
  BY DEF ExecuteOrphan, DropOrphan
<1>4. orphans' \in [Request -> Nat] /\ executions' \in [Request -> Nat]
  BY <1>1, <1>2, <1>3 DEF GatewayInv, TypeOK
<1> QED BY <1>1, <1>4 DEF GatewayInv, TypeOK, StoredFirst

LEMMA GatewayInvStep == GatewayInv /\ [Next]_vars => GatewayInv'
<1> SUFFICES ASSUME GatewayInv, [Next]_vars PROVE GatewayInv'
  OBVIOUS
<1> USE DEF Stages
<1>1. /\ \A g \in Gateways : calls[g].key \in Request
      /\ executions \in [Request -> Nat] /\ orphans \in [Request -> Nat]
      /\ sends \in 0 .. MaxSends /\ faults \in 0 .. MaxFaults
      /\ MaxSends \in Nat /\ MaxFaults \in Nat
  BY BoundAssumption DEF GatewayInv, TypeOK, Call
<1>2. ASSUME NEW g \in Gateways, NEW k \in Request, Receive(g, k)
      PROVE  GatewayInv'
  <2>1. sends' \in 0 .. MaxSends
    BY <1>1, <1>2 DEF Receive
  <2> QED BY <1>1, <1>2, <2>1, CallStep DEF Receive
<1>3. ASSUME NEW g \in Gateways, AnswerStored(g) PROVE GatewayInv'
  <2>1. calls[g].key \in Keys /\ stored[calls[g].key] \in Reply
    BY <1>1, <1>3 DEF AnswerStored, GatewayInv, TypeOK, Request
  <2> QED BY <1>3, <2>1, ReplyStep DEF AnswerStored
<1>4. ASSUME NEW g \in Gateways, MissKey(g) \/ Forward(g) PROVE GatewayInv'
  BY <1>1, <1>4, CallStep DEF MissKey, Forward, MoveTo
<1>5. ASSUME NEW g \in Gateways, BackendUnreachable(g) \/ BackendRefuses(g)
      PROVE  GatewayInv'
  BY <1>1, <1>5, CallStep, ReplyKinds
     DEF BackendUnreachable, BackendRefuses, MoveTo
<1>6. ASSUME NEW g \in Gateways, BackendExecutes(g) PROVE GatewayInv'
  <2>1. /\ executions' \in [Request -> Nat]
        /\ Done(executions[calls[g].key] + 1) \in Reply
    BY <1>1, <1>6, ReplyKinds DEF BackendExecutes
  <2> QED BY <1>1, <1>6, <2>1, CallStep DEF BackendExecutes, MoveTo
<1>7. ASSUME NEW g \in Gateways, ReplyToClient(g) PROVE GatewayInv'
  <2>1. /\ calls[g].reply \in Reply
        /\ calls[g].key # None => stored[calls[g].key] # NoReply
    BY <1>7 DEF ReplyToClient, GatewayInv, StoredFirst
  <2> QED BY <1>7, <2>1, ReplyStep DEF ReplyToClient
<1>8. ASSUME NEW g \in Gateways, LoseCall(g) PROVE GatewayInv'
  <2>1. orphans' \in [Request -> Nat] /\ faults' \in 0 .. MaxFaults
    BY <1>1, <1>8 DEF LoseCall, Fault
  <2>2. None \in Request /\ calls' = [calls EXCEPT ![g] = InHand("idle", None, NoReply)]
    BY <1>8 DEF LoseCall, NoCall, Request
  <2>3. UNCHANGED <<stored, executions, replies, sends>>
    BY <1>8 DEF LoseCall
  <2> QED BY <1>1, <2>1, <2>2, <2>3, CallStep
<1>9. ASSUME UNCHANGED vars PROVE GatewayInv'
  BY <1>9 DEF vars, GatewayInv, TypeOK, StoredFirst
<1> QED
  BY <1>2, <1>3, <1>4, <1>5, <1>6, <1>7, <1>8, <1>9, StoreStep, OrphanStep
     DEF Next, GatewayStep

(* Tables, calls and counters have the shape the code gives them.          *)
THEOREM GatewayTypeCorrect == Spec => []TypeOK
<1>1. GatewayInv => TypeOK
  BY DEF GatewayInv
<1> QED BY <1>1, GatewayInit, GatewayInvStep, PTL DEF Spec

-------------------------------------------------------------------------------
LEMMA SettledStep ==
    ASSUME GatewayInv, [Next]_vars, NEW k \in Keys, Settled(k)
    PROVE  Settled(k)' /\ executions'[k] = executions[k]
<1>1. /\ k \in Request /\ k # None /\ stored[k] # NoReply
      /\ replies[k] # {} /\ orphans[k] = 0
      /\ replies \in [Request -> SUBSET Reply]
      /\ orphans \in [Request -> Nat] /\ executions \in [Request -> Nat]
      /\ \A g \in Gateways :
            /\ calls[g].key \in Request
            /\ calls[g].key = k => calls[g].stage \notin {"missed", "waiting"}
  BY NoneAssumption
     DEF GatewayInv, StoredFirst, Settled, TypeOK, Request, Call
<1>2. ASSUME NEW g \in Gateways, NEW stage \in Stages, NEW i \in Request,
             NEW reply \in Reply \cup {NoReply},
             calls' = [calls EXCEPT ![g] = InHand(stage, i, reply)],
             i = k => stage \notin {"missed", "waiting"}
      PROVE  \A h \in Gateways : calls'[h].key = k =>
                 calls'[h].stage \notin {"missed", "waiting"}
  <2>1. \A h \in Gateways :
            calls'[h] = IF h = g THEN InHand(stage, i, reply) ELSE calls[h]
    BY <1>2 DEF GatewayInv, TypeOK
  <2> QED BY <1>1, <1>2, <2>1, InHandFields
<1>3. ASSUME NEW g \in Gateways, NEW i \in Request, Receive(g, i)
      PROVE  Settled(k)' /\ executions'[k] = executions[k]
  <2>1. calls' = [calls EXCEPT ![g] = InHand("received", i, NoReply)]
    BY <1>3 DEF Receive
  <2>2. UNCHANGED <<executions, orphans, replies>>
    BY <1>3 DEF Receive
  <2>3. \A h \in Gateways : calls'[h].key = k =>
            calls'[h].stage \notin {"missed", "waiting"}
    BY <1>2, <2>1 DEF Stages
  <2> QED BY <1>1, <2>2, <2>3 DEF Settled
<1>4. ASSUME NEW g \in Gateways, MissKey(g)
      PROVE  Settled(k)' /\ executions'[k] = executions[k]
  <2>1. calls[g].key # k
    BY <1>1, <1>4 DEF MissKey
  <2>2. calls' = [calls EXCEPT ![g] = InHand("missed", calls[g].key, NoReply)]
    BY <1>4 DEF MissKey, MoveTo
  <2>3. UNCHANGED <<executions, orphans, replies>>
    BY <1>4 DEF MissKey
  <2>4. \A h \in Gateways : calls'[h].key = k =>
            calls'[h].stage \notin {"missed", "waiting"}
    BY <1>1, <1>2, <2>1, <2>2 DEF Stages
  <2> QED BY <1>1, <2>3, <2>4 DEF Settled
<1>5. ASSUME NEW g \in Gateways, Forward(g)
      PROVE  Settled(k)' /\ executions'[k] = executions[k]
  <2>1. calls[g].key # k
    BY <1>1, <1>5 DEF Forward
  <2>2. calls' = [calls EXCEPT ![g] = InHand("waiting", calls[g].key, NoReply)]
    BY <1>5 DEF Forward, MoveTo
  <2>3. UNCHANGED <<executions, orphans, replies>>
    BY <1>5 DEF Forward
  <2>4. \A h \in Gateways : calls'[h].key = k =>
            calls'[h].stage \notin {"missed", "waiting"}
    BY <1>1, <1>2, <2>1, <2>2 DEF Stages
  <2> QED BY <1>1, <2>3, <2>4 DEF Settled
<1>6. ASSUME NEW g \in Gateways, BackendUnreachable(g) \/ BackendRefuses(g)
      PROVE  Settled(k)' /\ executions'[k] = executions[k]
  <2>1. PICK reply \in {Unavailable, Refused} :
            calls' = [calls EXCEPT ![g] = InHand("answered", calls[g].key, reply)]
    BY <1>6 DEF BackendUnreachable, BackendRefuses, MoveTo
  <2>2. reply \in Reply
    BY ReplyKinds
  <2>3. UNCHANGED <<executions, orphans, replies>>
    BY <1>6 DEF BackendUnreachable, BackendRefuses
  <2>4. \A h \in Gateways : calls'[h].key = k =>
            calls'[h].stage \notin {"missed", "waiting"}
    BY <1>1, <1>2, <2>1, <2>2 DEF Stages
  <2> QED BY <1>1, <2>3, <2>4 DEF Settled
<1>7. ASSUME NEW g \in Gateways, BackendExecutes(g)
      PROVE  Settled(k)' /\ executions'[k] = executions[k]
  <2>1. calls[g].key # k
    BY <1>1, <1>7 DEF BackendExecutes
  <2>2. Done(executions[calls[g].key] + 1) \in Reply
    BY <1>1, ReplyKinds
  <2>3. calls' = [calls EXCEPT ![g] = InHand("answered", calls[g].key, Done(executions[calls[g].key] + 1))]
    BY <1>7 DEF BackendExecutes, MoveTo
  <2>4. UNCHANGED <<orphans, replies>> /\ executions'[k] = executions[k]
    BY <1>1, <1>7, <2>1 DEF BackendExecutes
  <2>5. \A h \in Gateways : calls'[h].key = k =>
            calls'[h].stage \notin {"missed", "waiting"}
    BY <1>1, <1>2, <2>1, <2>2, <2>3 DEF Stages
  <2> QED BY <1>1, <2>4, <2>5 DEF Settled
<1>8. ASSUME NEW g \in Gateways, Store(g)
      PROVE  Settled(k)' /\ executions'[k] = executions[k]
  <2>1. calls[g].reply \in Reply
    BY <1>8 DEF Store, GatewayInv, StoredFirst
  <2>2. calls' = [calls EXCEPT ![g] = InHand("stored", calls[g].key, calls[g].reply)]
    BY <1>8 DEF Store, MoveTo
  <2>3. UNCHANGED <<executions, orphans, replies>>
    BY <1>8 DEF Store
  <2>4. \A h \in Gateways : calls'[h].key = k =>
            calls'[h].stage \notin {"missed", "waiting"}
    BY <1>1, <1>2, <2>1, <2>2 DEF Stages
  <2> QED BY <1>1, <2>3, <2>4 DEF Settled
<1>9. ASSUME NEW g \in Gateways, AnswerStored(g) \/ ReplyToClient(g)
      PROVE  Settled(k)' /\ executions'[k] = executions[k]
  <2>1. PICK reply : GiveReply(g, reply)
    BY <1>9 DEF AnswerStored, ReplyToClient
  <2>2. None \in Request /\ calls' = [calls EXCEPT ![g] = InHand("idle", None, NoReply)]
    BY <2>1 DEF GiveReply, NoCall, Request
  <2>3. replies'[k] # {}
    BY <1>1, <2>1 DEF GiveReply
  <2>4. UNCHANGED <<executions, orphans>>
    BY <1>9 DEF AnswerStored, ReplyToClient
  <2> QED BY <1>1, <1>2, <2>2, <2>3, <2>4 DEF Settled, Stages
<1>10. ASSUME NEW g \in Gateways, LoseCall(g)
       PROVE  Settled(k)' /\ executions'[k] = executions[k]
  <2>1. None \in Request /\ calls' = [calls EXCEPT ![g] = InHand("idle", None, NoReply)]
    BY <1>10 DEF LoseCall, NoCall, Request
  <2>2. orphans'[k] = 0
    BY <1>1, <1>10 DEF LoseCall
  <2>3. UNCHANGED <<executions, replies>>
    BY <1>10 DEF LoseCall
  <2> QED BY <1>1, <1>2, <2>1, <2>2, <2>3 DEF Settled, Stages
<1>11. ASSUME NEW i \in Request, ExecuteOrphan(i) \/ DropOrphan(i)
       PROVE  Settled(k)' /\ executions'[k] = executions[k]
  <2>1. i # k
    BY <1>1, <1>11 DEF ExecuteOrphan, DropOrphan
  <2>2. orphans'[k] = orphans[k] /\ executions'[k] = executions[k]
    BY <1>1, <1>11, <2>1 DEF ExecuteOrphan, DropOrphan
  <2>3. UNCHANGED <<calls, replies>>
    BY <1>11 DEF ExecuteOrphan, DropOrphan
  <2> QED BY <1>1, <2>2, <2>3 DEF Settled
<1>12. ASSUME UNCHANGED vars
       PROVE  Settled(k)' /\ executions'[k] = executions[k]
  BY <1>12 DEF vars, Settled
<1> QED
  BY <1>3, <1>4, <1>5, <1>6, <1>7, <1>8, <1>9, <1>10, <1>11, <1>12
     DEF Next, GatewayStep

(* A settled key stays settled and is never executed again, for any number *)
(* of gateways and faults.                                                 *)
THEOREM SettledKeysStay == Spec => SettledForEver
<1>1. GatewayInv /\ [Next]_vars =>
          [\A k \in Keys : Settled(k) =>
               Settled(k)' /\ executions'[k] = executions[k]]_vars
  BY SettledStep
<1> QED BY <1>1, GatewayInit, GatewayInvStep, PTL DEF Spec, SettledForEver

-------------------------------------------------------------------------------
(* How often a key is executed                                             *)

IsError(reply) == reply.kind \in {"refused", "unavailable"}

(* The gateways that passed the lookup of k and wait for its backend, and  *)
(* those that have the answer to an execution and have not stored it.      *)
Pending(k) ==
    {g \in Gateways : calls[g].key = k /\ calls[g].stage \in {"missed", "waiting"}}

Unstored(k) ==
    {g \in Gateways :
        /\ calls[g].key = k /\ calls[g].stage = "answered"
        /\ ~ IsError(calls[g].reply)}

(* The replies of k that clients have, and the one they would be given.    *)
Given(k) == replies[k] \cup {stored[k]}

(* An error was replied for k, or will be.                                 *)
Failed(k) ==
    \/ \E reply \in Given(k) : IsError(reply)
    \/ \E g \in Gateways :
          /\ calls[g].key = k /\ calls[g].stage \in {"answered", "stored"}
          /\ IsError(calls[g].reply)

OneIfFailed(k) == IF Failed(k) THEN 1 ELSE 0

Committed(k) == executions[k] + orphans[k]

(* Until a reply is stored, an execution is in the hands of a gateway that *)
(* is about to store it, or was lost by a fault.  From then on no lookup   *)
(* fails, and only the gateways that are past it can add one each; a       *)
(* gateway that had an error instead adds none, then or ever.              *)
BoundInv ==
    \A k \in Keys :
        IF stored[k] = NoReply
        THEN Committed(k) <= faults + Cardinality(Unstored(k))
        ELSE Committed(k) + Cardinality(Pending(k)) + OneIfFailed(k)
                 <= Cardinality(Gateways) + faults

LEMMA GatewaySubsets ==
    ASSUME NEW S, S \subseteq Gateways
    PROVE  /\ IsFiniteSet(S) /\ Cardinality(S) \in Nat
           /\ Cardinality(Gateways) \in Nat
           /\ Cardinality(S) <= Cardinality(Gateways)
  BY GatewaysAssumption, FS_Subset, FS_CardinalityType

LEMMA DisjointSubsets ==
    ASSUME NEW S, NEW T, S \subseteq Gateways, T \subseteq Gateways,
           S \cap T = {}
    PROVE  Cardinality(S) + Cardinality(T) <= Cardinality(Gateways)
<1>1. /\ IsFiniteSet(S) /\ IsFiniteSet(T)
      /\ Cardinality(S) \in Nat /\ Cardinality(T) \in Nat
      /\ Cardinality(S \cup T) <= Cardinality(Gateways)
  BY GatewaySubsets
<1>2. Cardinality(S \cup T) = Cardinality(S) + Cardinality(T) - Cardinality({})
  BY <1>1, FS_Union
<1> QED BY <1>1, <1>2, FS_EmptySet

(* g has the given call in hand after the step.                            *)
Becomes(g, stage, i, reply) ==
    calls' = [calls EXCEPT ![g] = InHand(stage, i, reply)]

(* What a step of g does to the two sets.                                  *)
LEMMA CallMoves ==
    ASSUME GatewayInv, NEW g \in Gateways, NEW stage \in Stages,
           NEW i \in Request, NEW reply \in Reply \cup {NoReply},
           Becomes(g, stage, i, reply),
           NEW k \in Keys
    PROVE  /\ Pending(k)' = IF i = k /\ stage \in {"missed", "waiting"}
                            THEN Pending(k) \cup {g} ELSE Pending(k) \ {g}
           /\ Unstored(k)' = IF i = k /\ stage = "answered" /\ ~ IsError(reply)
                             THEN Unstored(k) \cup {g} ELSE Unstored(k) \ {g}
<1>1. \A h \in Gateways :
          calls'[h] = IF h = g THEN InHand(stage, i, reply) ELSE calls[h]
  BY DEF GatewayInv, TypeOK, Becomes
<1>2. /\ InHand(stage, i, reply).key = i /\ InHand(stage, i, reply).stage = stage
      /\ InHand(stage, i, reply).reply = reply
  BY InHandFields
<1> QED BY <1>1, <1>2 DEF Pending, Unstored

(* A step of g that gives no reply, and has no error for k afterwards.     *)
LEMMA FailedBefore ==
    ASSUME GatewayInv, NEW g \in Gateways, NEW stage \in Stages,
           NEW i \in Request, NEW reply \in Reply \cup {NoReply},
           Becomes(g, stage, i, reply),
           NEW k \in Keys, stored'[k] = stored[k], replies'[k] = replies[k],
           i = k /\ stage \in {"answered", "stored"} => ~ IsError(reply)
    PROVE  Failed(k)' => Failed(k)
<1>1. \A h \in Gateways :
          calls'[h] = IF h = g THEN InHand(stage, i, reply) ELSE calls[h]
  BY DEF GatewayInv, TypeOK, Becomes
<1>2. /\ InHand(stage, i, reply).key = i /\ InHand(stage, i, reply).stage = stage
      /\ InHand(stage, i, reply).reply = reply
  BY InHandFields
<1>3. Given(k)' = Given(k)
  BY DEF Given
<1> QED BY <1>1, <1>2, <1>3 DEF Failed

(* How one member more or less changes a cardinality.                      *)
LEMMA CountMoves ==
    ASSUME NEW S, S \subseteq Gateways, NEW g \in Gateways
    PROVE  /\ Cardinality(S) \in Nat
           /\ Cardinality(S \cup {g}) =
                  IF g \in S THEN Cardinality(S) ELSE Cardinality(S) + 1
           /\ Cardinality(S \ {g}) =
                  IF g \in S THEN Cardinality(S) - 1 ELSE Cardinality(S)
<1>1. IsFiniteSet(S) /\ Cardinality(S) \in Nat
  BY GatewaySubsets
<1> QED BY <1>1, FS_AddElement, FS_RemoveElement

(* How the two sizes change when g is in neither set after the step, ...   *)
LEMMA CallLeaves ==
    ASSUME GatewayInv, NEW g \in Gateways, NEW stage \in Stages,
           NEW i \in Request, NEW reply \in Reply \cup {NoReply},
           Becomes(g, stage, i, reply),
           NEW k \in Keys,
           \/ i # k \/ stage \notin {"missed", "waiting", "answered"}
           \/ stage = "answered" /\ IsError(reply)
    PROVE  /\ Cardinality(Pending(k)') =
                  IF g \in Pending(k) THEN Cardinality(Pending(k)) - 1
                                      ELSE Cardinality(Pending(k))
           /\ Cardinality(Unstored(k)') =
                  IF g \in Unstored(k) THEN Cardinality(Unstored(k)) - 1
                                      ELSE Cardinality(Unstored(k))
<1>1. Pending(k) \subseteq Gateways /\ Unstored(k) \subseteq Gateways
  BY DEF Pending, Unstored
<1>2. Cardinality(Pending(k) \ {g}) =
             IF g \in Pending(k) THEN Cardinality(Pending(k)) - 1
                                 ELSE Cardinality(Pending(k))
  BY <1>1, CountMoves
<1>3. Cardinality(Unstored(k) \ {g}) =
             IF g \in Unstored(k) THEN Cardinality(Unstored(k)) - 1
                                 ELSE Cardinality(Unstored(k))
  BY <1>1, CountMoves
<1>4. Pending(k)' = Pending(k) \ {g} /\ Unstored(k)' = Unstored(k) \ {g}
  BY CallMoves
<1> QED BY <1>2, <1>3, <1>4

(* ... when it waits for the backend of k, ...                             *)
LEMMA CallWaits ==
    ASSUME GatewayInv, NEW g \in Gateways, NEW stage \in Stages,
           NEW i \in Request, NEW reply \in Reply \cup {NoReply},
           Becomes(g, stage, i, reply),
           NEW k \in Keys,
           i = k, stage \in {"missed", "waiting"}
    PROVE  /\ Cardinality(Pending(k)') =
                  IF g \in Pending(k) THEN Cardinality(Pending(k))
                                      ELSE Cardinality(Pending(k)) + 1
           /\ Cardinality(Unstored(k)') =
                  IF g \in Unstored(k) THEN Cardinality(Unstored(k)) - 1
                                      ELSE Cardinality(Unstored(k))
<1>1. Pending(k) \subseteq Gateways /\ Unstored(k) \subseteq Gateways
  BY DEF Pending, Unstored
<1>2. Cardinality(Pending(k) \cup {g}) =
             IF g \in Pending(k) THEN Cardinality(Pending(k))
                                 ELSE Cardinality(Pending(k)) + 1
  BY <1>1, CountMoves
<1>3. Cardinality(Unstored(k) \ {g}) =
             IF g \in Unstored(k) THEN Cardinality(Unstored(k)) - 1
                                 ELSE Cardinality(Unstored(k))
  BY <1>1, CountMoves
<1>4. Pending(k)' = Pending(k) \cup {g} /\ Unstored(k)' = Unstored(k) \ {g}
  BY CallMoves
<1> QED BY <1>2, <1>3, <1>4

(* ... and when k was executed for it.                                    *)
LEMMA CallAnswered ==
    ASSUME GatewayInv, NEW g \in Gateways, NEW stage \in Stages,
           NEW i \in Request, NEW reply \in Reply \cup {NoReply},
           Becomes(g, stage, i, reply),
           NEW k \in Keys,
           i = k, stage = "answered", ~ IsError(reply)
    PROVE  /\ Cardinality(Pending(k)') =
                  IF g \in Pending(k) THEN Cardinality(Pending(k)) - 1
                                      ELSE Cardinality(Pending(k))
           /\ Cardinality(Unstored(k)') =
                  IF g \in Unstored(k) THEN Cardinality(Unstored(k))
                                      ELSE Cardinality(Unstored(k)) + 1
<1>1. Pending(k) \subseteq Gateways /\ Unstored(k) \subseteq Gateways
  BY DEF Pending, Unstored
<1>2. Cardinality(Pending(k) \ {g}) =
             IF g \in Pending(k) THEN Cardinality(Pending(k)) - 1
                                 ELSE Cardinality(Pending(k))
  BY <1>1, CountMoves
<1>3. Cardinality(Unstored(k) \cup {g}) =
             IF g \in Unstored(k) THEN Cardinality(Unstored(k))
                                 ELSE Cardinality(Unstored(k)) + 1
  BY <1>1, CountMoves
<1>4. Pending(k)' = Pending(k) \ {g} /\ Unstored(k)' = Unstored(k) \cup {g}
  BY CallMoves
<1> QED BY <1>2, <1>3, <1>4

(* Storing a reply makes nobody's error another's.                         *)
LEMMA StoringKeepsErrors ==
    ASSUME GatewayInv, NEW g \in Gateways, calls[g].stage = "answered",
           Becomes(g, "stored", calls[g].key, calls[g].reply),
           NEW k \in Keys, stored'[k] = stored[k], replies' = replies
    PROVE  Failed(k)' => Failed(k)
<1>1. /\ calls[g].key \in Request /\ calls[g].reply \in Reply \cup {NoReply}
      /\ "stored" \in Stages
  BY DEF GatewayInv, TypeOK, Call, Stages
<1>2. \A h \in Gateways \ {g} : calls'[h] = calls[h]
  BY DEF GatewayInv, TypeOK, Becomes
<1>3. calls'[g].key = calls[g].key /\ calls'[g].reply = calls[g].reply
  BY <1>1, InHandFields DEF GatewayInv, TypeOK, Becomes
<1>4. Given(k)' = Given(k)
  BY DEF Given
<1> QED BY <1>2, <1>3, <1>4 DEF Failed

(* When the first reply of k is stored, an error is in the hands of a      *)
(* gateway that had not stored it.                                         *)
LEMMA FirstErrors ==
    ASSUME GatewayInv, NEW g \in Gateways, calls[g].stage = "answered",
           Becomes(g, "stored", calls[g].key, calls[g].reply),
           NEW k \in Keys, calls[g].key = k, stored[k] = NoReply,
           stored'[k] = calls[g].reply, replies' = replies, Failed(k)'
    PROVE  \E h \in Gateways :
               /\ calls[h].key = k /\ calls[h].stage = "answered"
               /\ IsError(calls[h].reply)
<1>1. replies[k] = {} /\ k # None
  BY NoneAssumption DEF GatewayInv, StoredFirst
<1>2. /\ \A h \in Gateways \ {g} : calls'[h] = calls[h]
      /\ \A h \in Gateways : calls[h].key = k => calls[h].stage # "stored"
  BY <1>1 DEF GatewayInv, TypeOK, Becomes, StoredFirst
<1>3. \A reply \in Given(k)' : reply = calls[g].reply
  BY <1>1 DEF Given
<1>4. /\ calls[g].key \in Request /\ calls[g].reply \in Reply \cup {NoReply}
      /\ "stored" \in Stages
  BY DEF GatewayInv, TypeOK, Call, Stages
<1>5. calls'[g].reply = calls[g].reply
  BY <1>4, InHandFields DEF GatewayInv, TypeOK, Becomes
<1>6. CASE IsError(calls[g].reply)
  BY <1>6
<1>7. CASE ~ IsError(calls[g].reply)
  <2>1. PICK h \in Gateways :
            /\ calls'[h].key = k /\ calls'[h].stage \in {"answered", "stored"}
            /\ IsError(calls'[h].reply)
    BY <1>3, <1>7 DEF Failed
  <2>2. h # g
    BY <1>5, <1>7, <2>1
  <2> QED BY <1>2, <2>1, <2>2
<1> QED BY <1>6, <1>7

(* The reply that is given is the stored one or was in hand.               *)
LEMMA GivingKeepsErrors ==
    ASSUME GatewayInv, NEW g \in Gateways, AnswerStored(g) \/ ReplyToClient(g),
           NEW k \in Keys
    PROVE  Failed(k)' => Failed(k)
<1>1. PICK reply : /\ GiveReply(g, reply) /\ stored' = stored
                   /\ \/ calls[g].key # None /\ reply = stored[calls[g].key]
                      \/ calls[g].stage = "stored" /\ reply = calls[g].reply
  BY DEF AnswerStored, ReplyToClient
<1>2. /\ \A h \in Gateways \ {g} : calls'[h] = calls[h]
      /\ calls'[g].stage = "idle"
      /\ calls[g].key \in Request /\ k \in Request
  BY <1>1, NoCallFields DEF GiveReply, GatewayInv, TypeOK, Call, Request
<1>3. /\ calls[g].key = k => Given(k)' = Given(k) \cup {reply}
      /\ calls[g].key # k => Given(k)' = Given(k)
  BY <1>1, <1>2 DEF GiveReply, Given, GatewayInv, TypeOK
<1>4. calls[g].key = k /\ IsError(reply) => Failed(k)
  BY <1>1 DEF Failed, Given
<1> QED BY <1>2, <1>3, <1>4 DEF Failed

LEMMA BoundStep == GatewayInv /\ BoundInv /\ [Next]_vars => BoundInv'
<1> SUFFICES ASSUME GatewayInv, BoundInv, [Next]_vars, NEW k \in Keys
             PROVE  IF stored'[k] = NoReply
                    THEN Committed(k)' <= faults' + Cardinality(Unstored(k)')
                    ELSE Committed(k)' + Cardinality(Pending(k)') + OneIfFailed(k)'
                             <= Cardinality(Gateways) + faults'
  BY DEF BoundInv
<1> DEFINE Bounded ==
        IF stored[k] = NoReply
        THEN Committed(k) <= faults + Cardinality(Unstored(k))
        ELSE Committed(k) + Cardinality(Pending(k)) + OneIfFailed(k)
                 <= Cardinality(Gateways) + faults
<1>1. /\ Bounded /\ k \in Request /\ k # None
      /\ executions[k] \in Nat /\ orphans[k] \in Nat /\ faults \in Nat
      /\ \A i \in Request : executions[i] \in Nat /\ orphans[i] \in Nat
      /\ executions \in [Request -> Nat] /\ orphans \in [Request -> Nat]
      /\ \A g \in Gateways : calls[g].key \in Request
      /\ \A g \in Gateways : calls[g].stage \in Stages
  BY NoneAssumption, BoundAssumption
     DEF BoundInv, GatewayInv, TypeOK, Request, Call
<1>2. /\ Pending(k) \subseteq Gateways /\ Unstored(k) \subseteq Gateways
      /\ Pending(k) \cap Unstored(k) = {}
      /\ Cardinality(Pending(k)) \in Nat /\ Cardinality(Unstored(k)) \in Nat
      /\ Cardinality(Gateways) \in Nat
      /\ Cardinality(Pending(k)) + Cardinality(Unstored(k))
             <= Cardinality(Gateways)
  <2>1. /\ Pending(k) \subseteq Gateways /\ Unstored(k) \subseteq Gateways
        /\ Pending(k) \cap Unstored(k) = {}
    BY DEF Pending, Unstored
  <2> QED BY <2>1, GatewaySubsets, DisjointSubsets
<1> HIDE DEF Bounded
<1>0. /\ OneIfFailed(k) \in {0, 1} /\ OneIfFailed(k)' \in {0, 1}
      /\ (Failed(k)' => Failed(k)) => OneIfFailed(k)' <= OneIfFailed(k)
  BY DEF OneIfFailed
<1>3. ASSUME UNCHANGED <<stored, calls, faults, replies>>, Committed(k)' <= Committed(k),
             Committed(k)' \in Nat
      PROVE  Bounded'
  <2>1. OneIfFailed(k)' = OneIfFailed(k)
    BY <1>3 DEF OneIfFailed, Failed, Given
  <2>2. Pending(k)' = Pending(k) /\ Unstored(k)' = Unstored(k)
    BY <1>3 DEF Pending, Unstored
  <2>3. Committed(k) \in Nat
    BY <1>1 DEF Committed
  <2> QED BY <1>0, <1>1, <1>2, <1>3, <2>1, <2>2, <2>3 DEF Bounded
(* A step of g that neither commits nor stores.                            *)
<1>4. ASSUME NEW g \in Gateways, NEW stage \in Stages, NEW i \in Request,
             NEW reply \in Reply \cup {NoReply},
             Becomes(g, stage, i, reply),
             UNCHANGED <<stored, executions, orphans, faults>>,
             Failed(k)' => Failed(k), g \notin Unstored(k),
             stage \notin {"answered", "stored"},
             (i = k /\ stage \in {"missed", "waiting"}) =>
                 g \in Pending(k) \/ stored[k] = NoReply
      PROVE  Bounded'
  <2>1. /\ Cardinality(Unstored(k)) <= Cardinality(Unstored(k)')
        /\ Cardinality(Unstored(k)') \in Int /\ Cardinality(Pending(k)') \in Int
        /\ stored[k] # NoReply =>
              Cardinality(Pending(k)') <= Cardinality(Pending(k))
    <3>1. CASE i # k \/ stage \notin {"missed", "waiting", "answered"}
      <4>1. /\ Cardinality(Unstored(k)') = Cardinality(Unstored(k))
            /\ g \notin Pending(k) =>
                   Cardinality(Pending(k)') = Cardinality(Pending(k))
            /\ g \in Pending(k) =>
                   Cardinality(Pending(k)') = Cardinality(Pending(k)) - 1
        BY <1>4, <3>1, CallLeaves
      <4> QED BY <1>2, <4>1
    <3>2. CASE i = k /\ stage \in {"missed", "waiting"}
      BY <1>2, <1>4, <3>2, CallWaits
    <3> QED BY <1>4, <3>1, <3>2
  <2>2. Committed(k)' = Committed(k) /\ Committed(k) \in Nat
    BY <1>1, <1>4 DEF Committed
  <2> QED BY <1>0, <1>1, <1>2, <1>4, <2>1, <2>2 DEF Bounded
<1>5. ASSUME NEW g \in Gateways, NEW i \in Request, Receive(g, i)
      PROVE  Bounded'
  <2>1. /\ Becomes(g, "received", i, NoReply) /\ "received" \in Stages
        /\ g \notin Unstored(k)
        /\ UNCHANGED <<stored, executions, orphans, replies, faults>>
    BY <1>5 DEF Receive, Stages, Unstored, Becomes
  <2>2. Failed(k)' => Failed(k)
    BY <2>1, FailedBefore
  <2> QED BY <1>4, <2>1, <2>2
<1>6. ASSUME NEW g \in Gateways, MissKey(g) \/ Forward(g)
      PROVE  Bounded'
  <2>1. CASE MissKey(g)
    <3>1. /\ Becomes(g, "missed", calls[g].key, NoReply)
          /\ calls[g].key = k => stored[k] = NoReply
          /\ g \notin Unstored(k) /\ "missed" \in Stages
          /\ UNCHANGED <<stored, executions, orphans, replies, faults>>
      BY <1>1, <2>1 DEF MissKey, MoveTo, Becomes, Stages, Unstored
    <3>2. Failed(k)' => Failed(k)
      BY <1>1, <3>1, FailedBefore
    <3> QED BY <1>1, <1>4, <3>1, <3>2
  <2>2. CASE Forward(g)
    <3>1. /\ Becomes(g, "waiting", calls[g].key, NoReply)
          /\ calls[g].key = k => g \in Pending(k)
          /\ g \notin Unstored(k) /\ "waiting" \in Stages
          /\ UNCHANGED <<stored, executions, orphans, replies, faults>>
      BY <2>2 DEF Forward, MoveTo, Becomes, Stages, Unstored, Pending
    <3>2. Failed(k)' => Failed(k)
      BY <1>1, <3>1, FailedBefore
    <3> QED BY <1>1, <1>4, <3>1, <3>2
  <2> QED BY <1>6, <2>1, <2>2
<1>7. ASSUME NEW g \in Gateways, BackendUnreachable(g) \/ BackendRefuses(g)
      PROVE  Bounded'
  <2>1. PICK reply \in {Unavailable, Refused} :
            Becomes(g, "answered", calls[g].key, reply)
    BY <1>7 DEF BackendUnreachable, BackendRefuses, MoveTo, Becomes
  <2>2. /\ reply \in Reply /\ IsError(reply) /\ "answered" \in Stages
        /\ calls[g].key = k => g \in Pending(k)
        /\ g \notin Unstored(k)
        /\ UNCHANGED <<stored, executions, orphans, replies, faults>>
    BY <1>7, ReplyKinds
       DEF BackendUnreachable, BackendRefuses, IsError, Unavailable, Refused,
           Pending, Unstored, Stages
  <2>3. /\ Cardinality(Unstored(k)') = Cardinality(Unstored(k))
        /\ Cardinality(Pending(k)') =
               IF g \in Pending(k) THEN Cardinality(Pending(k)) - 1
                                   ELSE Cardinality(Pending(k))
    BY <1>1, <2>1, <2>2, CallLeaves
  <2>4. Committed(k)' = Committed(k) /\ Committed(k) \in Nat
    BY <1>1, <2>2 DEF Committed
  <2>5. CASE calls[g].key = k
    BY <1>0, <1>1, <1>2, <2>2, <2>3, <2>4, <2>5 DEF Bounded
  <2>6. CASE calls[g].key # k
    <3>1. Failed(k)' => Failed(k)
      BY <1>1, <2>1, <2>2, <2>6, FailedBefore
    <3>2. Cardinality(Pending(k)') = Cardinality(Pending(k))
      BY <2>3, <2>6 DEF Pending
    <3> QED BY <1>0, <1>1, <1>2, <2>2, <2>3, <2>4, <3>1, <3>2 DEF Bounded
  <2> QED BY <2>5, <2>6
<1>8. ASSUME NEW g \in Gateways, BackendExecutes(g)
      PROVE  Bounded'
  <2>1. /\ Becomes(g, "answered", calls[g].key, Done(executions[calls[g].key] + 1))
        /\ calls[g].stage = "waiting"
        /\ executions' = [executions EXCEPT ![calls[g].key] = @ + 1]
        /\ UNCHANGED <<stored, orphans, replies, faults>>
    BY <1>8 DEF BackendExecutes, MoveTo, Becomes
  <2>2. /\ Done(executions[calls[g].key] + 1) \in Reply /\ "answered" \in Stages
        /\ ~ IsError(Done(executions[calls[g].key] + 1))
    BY <1>1, ReplyKinds DEF Stages, IsError, Done
  <2>5. Failed(k)' => Failed(k)
    BY <1>1, <2>1, <2>2, FailedBefore
  <2>3. CASE calls[g].key = k
    <3>1. g \in Pending(k) /\ g \notin Unstored(k)
      BY <2>1, <2>3 DEF Pending, Unstored
    <3>2. /\ Cardinality(Unstored(k)') = Cardinality(Unstored(k)) + 1
          /\ Cardinality(Pending(k)') = Cardinality(Pending(k)) - 1
      BY <1>1, <2>1, <2>2, <2>3, <3>1, CallAnswered
    <3>3. Committed(k)' = Committed(k) + 1 /\ Committed(k) \in Nat
      BY <1>1, <2>1, <2>3 DEF Committed
    <3> QED BY <1>0, <1>1, <1>2, <2>1, <2>5, <3>2, <3>3 DEF Bounded
  <2>4. CASE calls[g].key # k
    <3>1. executions'[k] = executions[k] /\ g \notin Unstored(k) /\ g \notin Pending(k)
      BY <1>1, <2>1, <2>4 DEF Unstored, Pending
    <3>2. /\ Cardinality(Unstored(k)') = Cardinality(Unstored(k))
          /\ Cardinality(Pending(k)') = Cardinality(Pending(k))
      BY <1>1, <2>1, <2>2, <2>4, <3>1, CallLeaves
    <3> QED BY <1>0, <1>1, <1>2, <2>1, <2>5, <3>1, <3>2 DEF Bounded, Committed
  <2> QED BY <2>3, <2>4
<1>9. ASSUME NEW g \in Gateways, Store(g)
      PROVE  Bounded'
  <2>1. /\ calls[g].reply \in Reply /\ "stored" \in Stages
        /\ Becomes(g, "stored", calls[g].key, calls[g].reply)
        /\ calls[g].stage = "answered"
        /\ UNCHANGED <<executions, orphans, replies, faults>>
    BY <1>9 DEF Store, MoveTo, Becomes, GatewayInv, StoredFirst, Stages
  <2>2. calls[g].key \in Request /\ g \notin Pending(k)
    BY <1>1, <1>9 DEF Store, Pending
  <2>3. Cardinality(Pending(k)') = Cardinality(Pending(k))
    BY <2>1, <2>2, CallLeaves
  <2>4. Committed(k)' = Committed(k) /\ Committed(k) \in Nat
    BY <1>1, <2>1 DEF Committed
  <2>5. CASE calls[g].key = k /\ stored[k] # NoReply
    <3>1. stored'[k] = stored[k]
      BY <1>1, <1>9, <2>5 DEF Store
    <3>2. Failed(k)' => Failed(k)
      BY <2>1, <3>1, StoringKeepsErrors
    <3> QED BY <1>0, <1>1, <1>2, <2>1, <2>3, <2>4, <2>5, <3>1, <3>2 DEF Bounded
  <2>6. CASE calls[g].key = k /\ stored[k] = NoReply
    <3>1. stored'[k] = calls[g].reply /\ stored'[k] # NoReply
      BY <1>1, <1>9, <2>1, <2>6, ReplyKinds DEF Store, GatewayInv, TypeOK
    <3>2. Committed(k) <= faults + Cardinality(Unstored(k))
      BY <1>1, <2>6 DEF Bounded
    <3>3. CASE ~ Failed(k)'
      <4>1. OneIfFailed(k)' = 0
        BY <3>3 DEF OneIfFailed
      <4> QED BY <1>1, <1>2, <2>1, <2>3, <2>4, <3>1, <3>2, <4>1 DEF Bounded
    <3>4. CASE Failed(k)'
      <4>1. PICK h \in Gateways :
                /\ calls[h].key = k /\ calls[h].stage = "answered"
                /\ IsError(calls[h].reply)
        BY <1>1, <2>1, <2>6, <3>1, <3>4, FirstErrors
      <4>2. /\ h \notin Unstored(k)
            /\ Unstored(k) \cup {h} \subseteq Gateways
            /\ (Unstored(k) \cup {h}) \cap Pending(k) = {}
        BY <4>1 DEF Unstored, Pending
      <4>3. /\ Cardinality(Unstored(k) \cup {h}) = Cardinality(Unstored(k)) + 1
            /\ Cardinality(Unstored(k) \cup {h}) + Cardinality(Pending(k))
                   <= Cardinality(Gateways)
        BY <1>2, <4>2, CountMoves, DisjointSubsets
      <4> QED BY <1>0, <1>1, <1>2, <2>1, <2>3, <2>4, <3>1, <3>2, <4>3 DEF Bounded
    <3> QED BY <3>3, <3>4
  <2>7. CASE calls[g].key # k
    <3>1. stored'[k] = stored[k]
      BY <1>9, <2>7 DEF Store, GatewayInv, TypeOK
    <3>2. Cardinality(Unstored(k)') = Cardinality(Unstored(k))
      <4>1. g \notin Unstored(k)
        BY <2>7 DEF Unstored
      <4> QED BY <2>1, <2>2, <2>7, <4>1, CallLeaves
    <3>3. Failed(k)' => Failed(k)
      BY <2>1, <2>2, <2>7, <3>1, FailedBefore
    <3> QED BY <1>0, <1>1, <1>2, <2>1, <2>3, <2>4, <3>1, <3>2, <3>3 DEF Bounded
  <2> QED BY <2>5, <2>6, <2>7
<1>10. ASSUME NEW g \in Gateways, AnswerStored(g) \/ ReplyToClient(g)
       PROVE  Bounded'
  <2>1. /\ None \in Request /\ Becomes(g, "idle", None, NoReply)
        /\ g \notin Unstored(k) /\ "idle" \in Stages
        /\ UNCHANGED <<stored, executions, orphans, faults>>
    BY <1>10 DEF AnswerStored, ReplyToClient, GiveReply, NoCall, Request,
                 Becomes, Unstored, Stages
  <2>2. Failed(k)' => Failed(k)
    BY <1>10, GivingKeepsErrors
  <2> QED BY <1>1, <1>4, <2>1, <2>2
<1>11. ASSUME NEW g \in Gateways, LoseCall(g)
       PROVE  Bounded'
  <2>1. /\ None \in Request /\ Becomes(g, "idle", None, NoReply)
        /\ faults' = faults + 1 /\ "idle" \in Stages
        /\ UNCHANGED <<stored, executions, replies>>
    BY <1>11 DEF LoseCall, NoCall, Request, Fault, Stages, Becomes
  <2>2. /\ Cardinality(Pending(k)') =
               IF g \in Pending(k) THEN Cardinality(Pending(k)) - 1
                                   ELSE Cardinality(Pending(k))
        /\ Cardinality(Unstored(k)') =
               IF g \in Unstored(k) THEN Cardinality(Unstored(k)) - 1
                                    ELSE Cardinality(Unstored(k))
    BY <1>1, <2>1, CallLeaves
  <2>5. Failed(k)' => Failed(k)
    BY <2>1, FailedBefore
  <2>3. CASE calls[g].key = k /\ calls[g].stage = "waiting"
    <3>1. Committed(k)' = Committed(k) + 1 /\ Committed(k) \in Nat
      BY <1>1, <1>11, <2>1, <2>3 DEF LoseCall, Committed
    <3>2. g \in Pending(k) /\ g \notin Unstored(k)
      BY <2>3 DEF Pending, Unstored
    <3>3. /\ Cardinality(Unstored(k)') = Cardinality(Unstored(k))
          /\ Cardinality(Pending(k)') = Cardinality(Pending(k)) - 1
      BY <2>2, <3>2
    <3> QED BY <1>0, <1>1, <1>2, <2>1, <2>5, <3>1, <3>3 DEF Bounded
  <2>4. CASE ~ (calls[g].key = k /\ calls[g].stage = "waiting")
    <3>1. Committed(k)' = Committed(k) /\ Committed(k) \in Nat
      BY <1>1, <1>11, <2>1, <2>4 DEF LoseCall, Committed
    <3>2. /\ Cardinality(Unstored(k)) <= Cardinality(Unstored(k)') + 1
          /\ Cardinality(Unstored(k)') \in Int
          /\ Cardinality(Pending(k)') <= Cardinality(Pending(k))
          /\ Cardinality(Pending(k)') \in Int
      BY <1>2, <2>2
    <3> QED BY <1>0, <1>1, <1>2, <2>1, <2>5, <3>1, <3>2 DEF Bounded
  <2> QED BY <2>3, <2>4
<1>12. ASSUME NEW i \in Request, ExecuteOrphan(i) \/ DropOrphan(i)
       PROVE  Bounded'
  <2>1. /\ orphans' = [orphans EXCEPT ![i] = @ - 1] /\ orphans[i] > 0
        /\ \/ executions' = executions
           \/ executions' = [executions EXCEPT ![i] = @ + 1]
        /\ UNCHANGED <<stored, calls, faults, replies>>
    BY <1>12 DEF ExecuteOrphan, DropOrphan
  <2>2. Committed(k)' \in Nat /\ Committed(k)' <= Committed(k)
    BY <1>1, <2>1 DEF Committed
  <2> QED BY <1>3, <2>1, <2>2
<1>13. ASSUME UNCHANGED vars
       PROVE  Bounded'
  <2>1. Committed(k) \in Nat
    BY <1>1 DEF Committed
  <2> QED BY <1>3, <1>13, <2>1 DEF vars, Committed
<1>14. Bounded'
  BY <1>5, <1>6, <1>7, <1>8, <1>9, <1>10, <1>11, <1>12, <1>13
     DEF Next, GatewayStep
<1> QED BY <1>14 DEF Bounded

LEMMA BoundInit == Init => BoundInv
<1> SUFFICES ASSUME Init, NEW k \in Keys
             PROVE  /\ stored[k] = NoReply
                    /\ Committed(k) <= faults + Cardinality(Unstored(k))
  BY DEF BoundInv
<1>1. Cardinality(Unstored(k)) \in Nat
  BY GatewaySubsets DEF Unstored
<1> QED BY <1>1 DEF Init, Committed, Request

(* A key is executed at most once for each gateway and once for each       *)
(* fault, for any number of them and however often clients repeat it.      *)
THEOREM ExecutionsAreBounded == Spec => []ExecutionsBounded
<1>1. GatewayInv /\ BoundInv => ExecutionsBounded
  <2> SUFFICES ASSUME GatewayInv, BoundInv, NEW k \in Keys
               PROVE  executions[k] <= Cardinality(Gateways) + faults
    BY DEF ExecutionsBounded
  <2>1. executions[k] \in Nat /\ orphans[k] \in Nat /\ faults \in Nat
    BY BoundAssumption DEF GatewayInv, TypeOK, Request
  <2>2. /\ Cardinality(Unstored(k)) \in Nat /\ Cardinality(Pending(k)) \in Nat
        /\ Cardinality(Gateways) \in Nat
        /\ Cardinality(Unstored(k)) <= Cardinality(Gateways)
    BY GatewaySubsets DEF Unstored, Pending
  <2>3. OneIfFailed(k) \in {0, 1}
    BY DEF OneIfFailed
  <2> QED BY <2>1, <2>2, <2>3 DEF BoundInv, Committed
<1> QED BY <1>1, BoundInit, GatewayInit, GatewayInvStep, BoundStep, PTL DEF Spec

(* A key that clients were told failed is executed once less than that: an *)
(* error that is replied takes the place of an execution, for any number   *)
(* of gateways, repetitions and faults.                                    *)
THEOREM ErrorsAreNoExecutions == Spec => []ErrorsNotExecuted
<1>1. GatewayInv /\ BoundInv => ErrorsNotExecuted
  <2> SUFFICES ASSUME GatewayInv, BoundInv, NEW k \in Keys,
                      NEW reply \in replies[k], reply.kind # "done"
               PROVE  executions[k] < Cardinality(Gateways) + faults
    BY DEF ErrorsNotExecuted
  <2>1. /\ executions[k] \in Nat /\ orphans[k] \in Nat /\ faults \in Nat
        /\ reply \in Reply /\ stored[k] # NoReply
    BY BoundAssumption DEF GatewayInv, TypeOK, StoredFirst, Request
  <2>2. Failed(k)
    BY <2>1 DEF Failed, Given, IsError, Reply
  <2>3. Cardinality(Pending(k)) \in Nat /\ Cardinality(Gateways) \in Nat
    BY GatewaySubsets DEF Pending
  <2> QED BY <2>1, <2>2, <2>3 DEF BoundInv, Committed, OneIfFailed
<1> QED BY <1>1, BoundInit, GatewayInit, GatewayInvStep, BoundStep, PTL DEF Spec

-------------------------------------------------------------------------------
(* How many replies a key has                                              *)

(* The gateways that can still give another reply for k.                   *)
Differing(k) ==
    {g \in Gateways :
        /\ calls[g].key = k
        /\ \/ calls[g].stage \in {"missed", "waiting"}
           \/ /\ calls[g].stage \in {"answered", "stored"}
              /\ calls[g].reply \notin Given(k)}

(* The gateway whose reply is the stored one is not among them, and each   *)
(* of the others adds one reply.                                           *)
Agreed(k) ==
    IF stored[k] = NoReply
    THEN replies[k] = {}
    ELSE /\ IsFiniteSet(Given(k))
         /\ Cardinality(Given(k)) + Cardinality(Differing(k))
                <= Cardinality(Gateways)

AgreeInv == \A k \in Keys : Agreed(k)

(* A step after which k has the same replies and nobody else differs.      *)
LEMMA AgreedStays ==
    ASSUME NEW k \in Keys, Agreed(k), Given(k)' = Given(k),
           stored'[k] = stored[k], replies'[k] = replies[k],
           Differing(k)' \subseteq Differing(k)
    PROVE  Agreed(k)'
<1>1. Differing(k) \subseteq Gateways
  BY DEF Differing
<1>2. CASE stored[k] = NoReply
  BY <1>2 DEF Agreed
<1>3. CASE stored[k] # NoReply
  <2>1. /\ IsFiniteSet(Given(k))
        /\ Cardinality(Given(k)) + Cardinality(Differing(k))
               <= Cardinality(Gateways)
    BY <1>3 DEF Agreed
  <2>2. IsFiniteSet(Differing(k)) /\ Cardinality(Differing(k)) \in Nat
    BY <1>1, GatewaySubsets
  <2>3. /\ Cardinality(Differing(k)') \in Nat
        /\ Cardinality(Differing(k)') <= Cardinality(Differing(k))
    BY <2>2, FS_Subset, FS_CardinalityType
  <2>4. Cardinality(Given(k)) \in Nat /\ Cardinality(Gateways) \in Nat
    BY <2>1, FS_CardinalityType, GatewaysAssumption
  <2> QED BY <1>3, <2>1, <2>2, <2>3, <2>4 DEF Agreed
<1> QED BY <1>2, <1>3

(* A step of g leaves who differs alone, but for g itself.                 *)
LEMMA DiffersNext ==
    ASSUME GatewayInv, NEW g \in Gateways, NEW stage \in Stages,
           NEW i \in Request, NEW reply \in Reply \cup {NoReply},
           Becomes(g, stage, i, reply), NEW k \in Keys,
           Given(k) \subseteq Given(k)'
    PROVE  /\ Differing(k)' \subseteq Differing(k) \cup {g}
           /\ i # k => g \notin Differing(k)'
           /\ stage \notin {"missed", "waiting", "answered", "stored"} =>
                  g \notin Differing(k)'
           /\ stage \in {"answered", "stored"} /\ reply \in Given(k)' =>
                  g \notin Differing(k)'
<1>1. \A h \in Gateways :
          calls'[h] = IF h = g THEN InHand(stage, i, reply) ELSE calls[h]
  BY DEF GatewayInv, TypeOK, Becomes
<1>2. /\ InHand(stage, i, reply).key = i /\ InHand(stage, i, reply).stage = stage
      /\ InHand(stage, i, reply).reply = reply
  BY InHandFields
<1> QED BY <1>1, <1>2 DEF Differing

LEMMA AgreeStep == GatewayInv /\ AgreeInv /\ [Next]_vars => AgreeInv'
<1> SUFFICES ASSUME GatewayInv, AgreeInv, [Next]_vars, NEW k \in Keys
             PROVE  Agreed(k)'
  BY DEF AgreeInv
<1>1. /\ Agreed(k) /\ k \in Request /\ k # None /\ None \in Request
      /\ \A g \in Gateways : calls[g].key \in Request
      /\ stored \in [Keys -> Reply \cup {NoReply}]
      /\ replies \in [Request -> SUBSET Reply]
      /\ \A run \in Nat : Done(run) \in Reply
      /\ \A i \in Request : executions[i] \in Nat
  BY NoneAssumption, ReplyKinds DEF AgreeInv, GatewayInv, TypeOK, Request, Call
(* A step of g that touches neither table.                                 *)
<1>2. ASSUME NEW g \in Gateways, NEW stage \in Stages, NEW i \in Request,
             NEW reply \in Reply \cup {NoReply}, Becomes(g, stage, i, reply),
             UNCHANGED <<stored, replies>>,
             (i = k /\ stage \in {"missed", "waiting", "answered", "stored"}) =>
                 g \in Differing(k) \/ stored[k] = NoReply
      PROVE  Agreed(k)'
  <2>1. Given(k)' = Given(k)
    BY <1>2 DEF Given
  <2>2. CASE stored[k] = NoReply
    BY <1>1, <1>2, <2>2 DEF Agreed
  <2>3. CASE stored[k] # NoReply
    <3>1. Differing(k)' \subseteq Differing(k)
      BY <1>2, <2>1, <2>3, DiffersNext
    <3> QED BY <1>1, <1>2, <2>1, <3>1, AgreedStays
  <2> QED BY <2>2, <2>3
<1>3. ASSUME NEW g \in Gateways, NEW i \in Request, Receive(g, i)
      PROVE  Agreed(k)'
  <2>1. /\ Becomes(g, "received", i, NoReply) /\ "received" \in Stages
        /\ UNCHANGED <<stored, replies>>
    BY <1>3 DEF Receive, Becomes, Stages
  <2> QED BY <1>2, <2>1
<1>4. ASSUME NEW g \in Gateways, MissKey(g)
      PROVE  Agreed(k)'
  <2>1. /\ Becomes(g, "missed", calls[g].key, NoReply) /\ "missed" \in Stages
        /\ calls[g].key = k => stored[k] = NoReply
        /\ UNCHANGED <<stored, replies>>
    BY <1>1, <1>4 DEF MissKey, MoveTo, Becomes, Stages
  <2> QED BY <1>1, <1>2, <2>1
<1>5. ASSUME NEW g \in Gateways, Forward(g)
      PROVE  Agreed(k)'
  <2>1. /\ Becomes(g, "waiting", calls[g].key, NoReply) /\ "waiting" \in Stages
        /\ calls[g].stage = "missed"
        /\ UNCHANGED <<stored, replies>>
    BY <1>5 DEF Forward, MoveTo, Becomes, Stages
  <2>2. calls[g].key = k => g \in Differing(k)
    BY <2>1 DEF Differing
  <2> QED BY <1>1, <1>2, <2>1, <2>2
<1>6. ASSUME NEW g \in Gateways,
             BackendUnreachable(g) \/ BackendRefuses(g) \/ BackendExecutes(g)
      PROVE  Agreed(k)'
  <2>1. PICK reply \in Reply : Becomes(g, "answered", calls[g].key, reply)
    BY <1>1, <1>6, ReplyKinds
       DEF BackendUnreachable, BackendRefuses, BackendExecutes, MoveTo, Becomes
  <2>2. /\ calls[g].stage \in {"missed", "waiting"} /\ "answered" \in Stages
        /\ UNCHANGED <<stored, replies>>
    BY <1>6 DEF BackendUnreachable, BackendRefuses, BackendExecutes, Stages
  <2>3. calls[g].key = k => g \in Differing(k)
    BY <2>2 DEF Differing
  <2> QED BY <1>1, <1>2, <2>1, <2>2, <2>3
<1>7. ASSUME NEW g \in Gateways, Store(g)
      PROVE  Agreed(k)'
  <2>1. /\ calls[g].reply \in Reply /\ "stored" \in Stages
        /\ calls[g].stage = "answered"
        /\ Becomes(g, "stored", calls[g].key, calls[g].reply)
        /\ UNCHANGED replies
    BY <1>7 DEF Store, MoveTo, Becomes, GatewayInv, StoredFirst, Stages
  <2>2. CASE calls[g].key # k
    <3>1. stored'[k] = stored[k]
      BY <1>1, <1>7, <2>2 DEF Store
    <3>2. Given(k)' = Given(k) /\ replies'[k] = replies[k]
      BY <2>1, <3>1 DEF Given
    <3>3. g \notin Differing(k)' /\ Differing(k)' \subseteq Differing(k) \cup {g}
      BY <1>1, <2>1, <2>2, <3>2, DiffersNext
    <3> QED BY <1>1, <3>1, <3>2, <3>3, AgreedStays
  <2>3. CASE calls[g].key = k /\ stored[k] # NoReply
    <3>1. stored'[k] = stored[k]
      BY <1>1, <1>7, <2>3 DEF Store
    <3>2. Given(k)' = Given(k) /\ replies'[k] = replies[k]
      BY <2>1, <3>1 DEF Given
    <3>3. calls[g].reply \notin Given(k) => g \in Differing(k)
      BY <2>1, <2>3 DEF Differing
    <3>4. Differing(k)' \subseteq Differing(k)
      BY <1>1, <2>1, <3>2, <3>3, DiffersNext
    <3> QED BY <1>1, <3>1, <3>2, <3>4, AgreedStays
  <2>4. CASE calls[g].key = k /\ stored[k] = NoReply
    <3>1. stored'[k] = calls[g].reply /\ stored'[k] # NoReply
      BY <1>1, <1>7, <2>1, <2>4, ReplyKinds DEF Store
    <3>2. Given(k)' = {calls[g].reply}
      BY <1>1, <2>1, <2>4, <3>1 DEF Agreed, Given
    <3>3. IsFiniteSet(Given(k)') /\ Cardinality(Given(k)') = 1
      BY <3>2, FS_Singleton
    <3>4. \A h \in Gateways : calls'[h] = IF h = g THEN InHand("stored", k, calls[g].reply) ELSE calls[h]
      BY <2>1, <2>4 DEF Becomes, GatewayInv, TypeOK
    <3>5. g \notin Differing(k)'
      BY <1>1, <2>1, <3>2, <3>4, InHandFields DEF Differing
    <3>6. Differing(k)' \subseteq Gateways /\ {g} \subseteq Gateways
      BY DEF Differing
    <3>7. Cardinality({g}) + Cardinality(Differing(k)') <= Cardinality(Gateways)
      BY <3>5, <3>6, DisjointSubsets
    <3> QED BY <3>1, <3>3, <3>7, FS_Singleton DEF Agreed
  <2> QED BY <2>2, <2>3, <2>4
(* g gives a reply that k has already, or is the one that adds it.         *)
<1>8. ASSUME NEW g \in Gateways, NEW reply \in Reply, GiveReply(g, reply),
             UNCHANGED stored, calls[g].key = k => stored[k] # NoReply,
             calls[g].key = k => reply \in Given(k) \/ g \in Differing(k)
      PROVE  Agreed(k)'
  <2>1. Becomes(g, "idle", None, NoReply) /\ "idle" \in Stages
    BY <1>8 DEF GiveReply, NoCall, Becomes, Stages
  <2>2. replies'[k] = IF calls[g].key = k THEN replies[k] \cup {reply} ELSE replies[k]
    BY <1>1, <1>8 DEF GiveReply
  <2>3. Given(k)' = IF calls[g].key = k THEN Given(k) \cup {reply} ELSE Given(k)
    BY <1>8, <2>2 DEF Given
  <2>4. Differing(k)' \subseteq Differing(k) \ {g}
    BY <1>1, <2>1, <2>3, DiffersNext
  <2>5. CASE calls[g].key # k
    BY <1>1, <1>8, <2>2, <2>3, <2>4, <2>5, AgreedStays
  <2>6. CASE calls[g].key = k
    <3>1. /\ IsFiniteSet(Given(k)) /\ stored'[k] # NoReply
          /\ Cardinality(Given(k)) + Cardinality(Differing(k))
                 <= Cardinality(Gateways)
      BY <1>1, <1>8, <2>6 DEF Agreed
    <3>2. /\ IsFiniteSet(Given(k)')
          /\ Cardinality(Given(k)') = IF reply \in Given(k) THEN Cardinality(Given(k))
                                      ELSE Cardinality(Given(k)) + 1
      BY <2>3, <2>6, <3>1, FS_AddElement
    <3>3. Differing(k) \subseteq Gateways /\ IsFiniteSet(Differing(k) \ {g})
      BY GatewaySubsets DEF Differing
    <3>4. /\ Cardinality(Differing(k)) \in Nat
          /\ Cardinality(Differing(k) \ {g}) =
                 IF g \in Differing(k) THEN Cardinality(Differing(k)) - 1
                 ELSE Cardinality(Differing(k))
      BY <3>3, CountMoves
    <3>5. /\ Cardinality(Differing(k)') \in Nat
          /\ Cardinality(Differing(k)') <= Cardinality(Differing(k) \ {g})
      BY <2>4, <3>3, FS_Subset, FS_CardinalityType
    <3>6. Cardinality(Given(k)) \in Nat /\ Cardinality(Gateways) \in Nat
      BY <3>1, FS_CardinalityType, GatewaysAssumption
    <3>7. Cardinality(Given(k)') + Cardinality(Differing(k)') <= Cardinality(Gateways)
      BY <1>8, <2>6, <3>1, <3>2, <3>4, <3>5, <3>6
    <3> QED BY <3>1, <3>2, <3>7 DEF Agreed
  <2> QED BY <2>5, <2>6
<1>9. ASSUME NEW g \in Gateways, AnswerStored(g)
      PROVE  Agreed(k)'
  <2>1. /\ calls[g].key \in Keys /\ stored[calls[g].key] # NoReply
        /\ GiveReply(g, stored[calls[g].key]) /\ UNCHANGED stored
    BY <1>1, <1>9 DEF AnswerStored, Request
  <2>2. /\ stored[calls[g].key] \in Reply
        /\ calls[g].key = k => stored[calls[g].key] \in Given(k)
    BY <1>1, <2>1 DEF Given
  <2> QED BY <1>8, <2>1, <2>2
<1>10. ASSUME NEW g \in Gateways, ReplyToClient(g)
       PROVE  Agreed(k)'
  <2>1. /\ GiveReply(g, calls[g].reply) /\ UNCHANGED stored
        /\ calls[g].stage = "stored" /\ calls[g].reply \in Reply
        /\ calls[g].key = k => stored[k] # NoReply
    BY <1>1, <1>10 DEF ReplyToClient, GatewayInv, StoredFirst
  <2>2. calls[g].key = k => calls[g].reply \in Given(k) \/ g \in Differing(k)
    BY <2>1 DEF Differing
  <2> QED BY <1>8, <2>1, <2>2
<1>11. ASSUME NEW g \in Gateways, LoseCall(g)
       PROVE  Agreed(k)'
  <2>1. /\ Becomes(g, "idle", None, NoReply) /\ "idle" \in Stages
        /\ UNCHANGED <<stored, replies>>
    BY <1>11 DEF LoseCall, NoCall, Becomes, Stages
  <2> QED BY <1>1, <1>2, <2>1
<1>12. ASSUME UNCHANGED <<stored, calls, replies>>
       PROVE  Agreed(k)'
  BY <1>1, <1>12 DEF Agreed, Given, Differing
<1> QED
  BY <1>3, <1>4, <1>5, <1>6, <1>7, <1>9, <1>10, <1>11, <1>12
     DEF Next, GatewayStep, ExecuteOrphan, DropOrphan, vars

(* For any number of gateways and faults, a key has at most as many        *)
(* different replies as there are gateways.                                *)
THEOREM RepliesAreFew == Spec => []RepliesAgree
<1>1. Init => AgreeInv
  BY DEF Init, AgreeInv, Agreed, Request
<1>2. GatewayInv /\ AgreeInv => RepliesAgree
  <2> SUFFICES ASSUME GatewayInv, AgreeInv, NEW k \in Keys
               PROVE  Cardinality(replies[k]) <= Cardinality(Gateways)
    BY DEF RepliesAgree
  <2>1. Agreed(k) /\ Cardinality(Gateways) \in Nat
    BY FS_CardinalityType, GatewaysAssumption DEF AgreeInv
  <2>2. CASE stored[k] = NoReply
    BY <2>1, <2>2, FS_EmptySet DEF Agreed
  <2>3. CASE stored[k] # NoReply
    <3>1. /\ IsFiniteSet(Given(k)) /\ replies[k] \subseteq Given(k)
          /\ Cardinality(Given(k)) + Cardinality(Differing(k))
                 <= Cardinality(Gateways)
      BY <2>1, <2>3 DEF Agreed, Given
    <3>2. /\ Cardinality(replies[k]) \in Nat /\ Cardinality(Given(k)) \in Nat
          /\ Cardinality(replies[k]) <= Cardinality(Given(k))
      BY <3>1, FS_Subset, FS_CardinalityType
    <3>3. Cardinality(Differing(k)) \in Nat
      BY GatewaySubsets DEF Differing
    <3> QED BY <2>1, <3>1, <3>2, <3>3
  <2> QED BY <2>2, <2>3
<1> QED BY <1>1, <1>2, GatewayInit, GatewayInvStep, AgreeStep, PTL DEF Spec

===============================================================================
