------------------------------ MODULE ApiGateway ------------------------------
(***************************************************************************)
(* POST requests with an Idempotency-Key at api-gateway.                   *)
(*                                                                         *)
(* A gateway handles one request at a time: it looks the key up, forwards  *)
(* the request to a backend service, stores the reply under the key and    *)
(* only then replies.  The three are separate: the lookup and the INSERT   *)
(* have database transactions of their own, the backend commits its own.   *)
(*                                                                         *)
(* Nothing of a request but its key is compared, so a request is its key;  *)
(* clients send one as often as they like.  Requests that fail             *)
(* authentication or routing reach neither table nor backend and are left  *)
(* out.                                                                    *)
(***************************************************************************)
EXTENDS Naturals, FiniteSets

CONSTANTS
    Gateways,     \* instances of api-gateway
    Keys,         \* idempotency keys
    None,         \* no Idempotency-Key header
    MaxSends,     \* bound: requests that clients send
    MaxFaults     \* bound: crashes, timeouts and database errors

ASSUME NoneAssumption == None \notin Keys
ASSUME GatewaysAssumption == IsFiniteSet(Gateways)
ASSUME BoundAssumption == MaxSends \in Nat /\ MaxFaults \in Nat

VARIABLES
    stored,       \* rows of idempotency_keys: the reply of each key
    calls,        \* the request each gateway has in hand
    executions,   \* times a backend has committed a request, by key
    orphans,      \* requests a backend has and nobody waits for, by key
    replies,      \* replies clients were given, by key
    sends,
    faults

vars == <<stored, calls, executions, orphans, replies, sends, faults>>

Request == Keys \cup {None}

(* A backend executed the request, for the run-th time; or it replied with *)
(* an error code; or it could not be reached (502).                        *)
Reply == [kind : {"done", "refused", "unavailable"}, run : Nat]
Done(run) == [kind |-> "done", run |-> run]
Refused == [kind |-> "refused", run |-> 0]
Unavailable == [kind |-> "unavailable", run |-> 0]
NoReply == [kind |-> "none", run |-> 0]

Stages == {"idle", "received", "missed", "waiting", "answered", "stored"}
Call == [stage : Stages, key : Request, reply : Reply \cup {NoReply}]
InHand(stage, key, reply) == [stage |-> stage, key |-> key, reply |-> reply]
NoCall == InHand("idle", None, NoReply)

-------------------------------------------------------------------------------
Fault ==
    /\ faults < MaxFaults
    /\ faults' = faults + 1

(* g goes on with its request at another stage.                            *)
MoveTo(g, stage, reply) ==
    calls' = [calls EXCEPT ![g] = InHand(stage, calls[g].key, reply)]

GiveReply(g, reply) ==
    /\ replies' = [replies EXCEPT ![calls[g].key] = @ \cup {reply}]
    /\ calls' = [calls EXCEPT ![g] = NoCall]

Init ==
    /\ stored = [k \in Keys |-> NoReply]
    /\ calls = [g \in Gateways |-> NoCall]
    /\ executions = [k \in Request |-> 0]
    /\ orphans = [k \in Request |-> 0]
    /\ replies = [k \in Request |-> {}]
    /\ sends = 0
    /\ faults = 0

(* A client sends a request, or sends it again.                            *)
Receive(g, k) ==
    /\ calls[g].stage = "idle"
    /\ sends < MaxSends
    /\ sends' = sends + 1
    /\ calls' = [calls EXCEPT ![g] = InHand("received", k, NoReply)]
    /\ UNCHANGED <<stored, executions, orphans, replies, faults>>

(* The key is known: its stored reply is the reply.                        *)
AnswerStored(g) ==
    /\ calls[g].stage = "received"
    /\ calls[g].key # None
    /\ stored[calls[g].key] # NoReply
    /\ GiveReply(g, stored[calls[g].key])
    /\ UNCHANGED <<stored, executions, orphans, sends, faults>>

(* The key is not known, or there is none.                                 *)
MissKey(g) ==
    /\ calls[g].stage = "received"
    /\ calls[g].key # None => stored[calls[g].key] = NoReply
    /\ MoveTo(g, "missed", NoReply)
    /\ UNCHANGED <<stored, executions, orphans, replies, sends, faults>>

Forward(g) ==
    /\ calls[g].stage = "missed"
    /\ MoveTo(g, "waiting", NoReply)
    /\ UNCHANGED <<stored, executions, orphans, replies, sends, faults>>

(* The backend does not accept the connection: an URLError without a code. *)
BackendUnreachable(g) ==
    /\ calls[g].stage = "missed"
    /\ MoveTo(g, "answered", Unavailable)
    /\ UNCHANGED <<stored, executions, orphans, replies, sends, faults>>

(* The backend commits the request and replies 200 or 201.                 *)
BackendExecutes(g) ==
    /\ calls[g].stage = "waiting"
    /\ executions' = [executions EXCEPT ![calls[g].key] = @ + 1]
    /\ MoveTo(g, "answered", Done(executions[calls[g].key] + 1))
    /\ UNCHANGED <<stored, orphans, replies, sends, faults>>

(* Slip: the backend raises after its commit, and replies with the error.  *)
RefuseExecuted(g) ==
    /\ calls[g].stage = "waiting"
    /\ executions' = [executions EXCEPT ![calls[g].key] = @ + 1]
    /\ MoveTo(g, "answered", Refused)
    /\ UNCHANGED <<stored, orphans, replies, sends, faults>>

(* The backend rolls back and replies with an error, which proxy_request   *)
(* turns into a reply like any other.  When the commit itself fails, so    *)
(* does the rollback that comes before the error reply, and there is none. *)
BackendRefuses(g) ==
    /\ calls[g].stage = "waiting"
    /\ MoveTo(g, "answered", Refused)
    /\ UNCHANGED <<stored, executions, orphans, replies, sends, faults>>

(* Slip: the INSERT is never committed.                                    *)
StoreUncommitted(g) ==
    /\ calls[g].stage = "answered"
    /\ MoveTo(g, "stored", calls[g].reply)
    /\ UNCHANGED <<stored, executions, orphans, replies, sends, faults>>

(* INSERT ... ON CONFLICT (key) DO NOTHING, of whatever reply there is;    *)
(* nothing is stored without a key.                                        *)
Store(g) ==
    LET k == calls[g].key
    IN  /\ calls[g].stage = "answered"
        /\ IF k # None /\ stored[k] = NoReply
           THEN stored' = [stored EXCEPT ![k] = calls[g].reply]
           ELSE UNCHANGED stored
        /\ MoveTo(g, "stored", calls[g].reply)
        /\ UNCHANGED <<executions, orphans, replies, sends, faults>>

(* Slip: the client is answered first, and storing is forgotten.           *)
ReplyUnstored(g) ==
    /\ calls[g].stage \in {"answered", "stored"}
    /\ GiveReply(g, calls[g].reply)
    /\ UNCHANGED <<stored, executions, orphans, sends, faults>>

(* The gateway replies what its backend said, whatever is stored.          *)
ReplyToClient(g) ==
    /\ calls[g].stage = "stored"
    /\ GiveReply(g, calls[g].reply)
    /\ UNCHANGED <<stored, executions, orphans, sends, faults>>

(* The gateway dies, or an exception leaves do_POST: a database error, a   *)
(* broken connection, or no answer for 30 seconds (a TimeoutError is not   *)
(* an URLError).  A backend that has the request keeps it.                 *)
LoseCall(g) ==
    /\ calls[g].stage # "idle"
    /\ Fault
    /\ calls' = [calls EXCEPT ![g] = NoCall]
    /\ orphans' = IF calls[g].stage = "waiting"
                  THEN [orphans EXCEPT ![calls[g].key] = @ + 1]
                  ELSE orphans
    /\ UNCHANGED <<stored, executions, replies, sends>>

(* A backend commits a request nobody waits for ...                        *)
ExecuteOrphan(k) ==
    /\ orphans[k] > 0
    /\ orphans' = [orphans EXCEPT ![k] = @ - 1]
    /\ executions' = [executions EXCEPT ![k] = @ + 1]
    /\ UNCHANGED <<stored, calls, replies, sends, faults>>

(* Slip: a backend that restarts drops what it does not have.              *)
DropAnything(k) ==
    /\ orphans' = [orphans EXCEPT ![k] = @ - 1]
    /\ UNCHANGED <<stored, calls, executions, replies, sends, faults>>

(* ... or refuses it, or dies with it.                                     *)
DropOrphan(k) ==
    /\ orphans[k] > 0
    /\ orphans' = [orphans EXCEPT ![k] = @ - 1]
    /\ UNCHANGED <<stored, calls, executions, replies, sends, faults>>

GatewayStep(g) ==
    \/ \E k \in Request : Receive(g, k)
    \/ AnswerStored(g)
    \/ MissKey(g)
    \/ Forward(g)
    \/ BackendUnreachable(g)
    \/ BackendExecutes(g)
    \/ BackendRefuses(g)
    \/ Store(g)
    \/ ReplyToClient(g)
    \/ LoseCall(g)

Next ==
    \/ \E g \in Gateways : GatewayStep(g)
    \/ \E k \in Request : ExecuteOrphan(k) \/ DropOrphan(k)

Spec == Init /\ [][Next]_vars

-------------------------------------------------------------------------------
(* Properties                                                              *)

(* Tables, calls and counters have the shape the code gives them.          *)
TypeOK ==
    /\ stored \in [Keys -> Reply \cup {NoReply}]
    /\ calls \in [Gateways -> Call]
    /\ executions \in [Request -> Nat]
    /\ orphans \in [Request -> Nat]
    /\ replies \in [Request -> SUBSET Reply]
    /\ sends \in 0 .. MaxSends
    /\ faults \in 0 .. MaxFaults

(* However often a client repeats a request with a key, it is executed no  *)
(* more than once for each gateway and once more for each fault: one       *)
(* gateway and no fault execute it once (gateway.py:235-262).              *)
ExecutionsBounded ==
    \A k \in Keys : executions[k] <= Cardinality(Gateways) + faults

(* Whatever fails, clients see no more different replies for a key than    *)
(* there are gateways, because a gateway replies after it stored; with the *)
(* one gateway deployed every reply for a key is the same.                 *)
RepliesAgree ==
    \A k \in Keys : Cardinality(replies[k]) <= Cardinality(Gateways)

(* What clients are told is an error was no execution: a key for which one *)
(* was told the backend refused or could not be reached is executed, over  *)
(* all its repetitions, once less than ExecutionsBounded allows.  With one *)
(* gateway and no fault the 502 or 400 that is stored means that the       *)
(* request had no effect and never will (gateway.py:91-99 and 261-264).    *)
ErrorsNotExecuted ==
    \A k \in Keys : \A reply \in replies[k] :
        reply.kind # "done" => executions[k] < Cardinality(Gateways) + faults

(* A client has a reply for k, and no call for k is past the lookup or     *)
(* left behind at a backend.                                               *)
Settled(k) ==
    /\ replies[k] # {}
    /\ orphans[k] = 0
    /\ \A g \in Gateways :
          calls[g].key = k => calls[g].stage \notin {"missed", "waiting"}

(* A key that is settled stays settled, and is never executed again: the   *)
(* reply is stored before it is given, so that later requests with the key *)
(* find it (gateway.py:236-240 and 261-264).                               *)
SettledForEver ==
    [][\A k \in Keys : Settled(k) =>
           Settled(k)' /\ executions'[k] = executions[k]]_vars

(* Duplicate API calls return cached responses (README.md:218), so that a  *)
(* request with a key is executed once.  A call that is lost between its   *)
(* execution and the INSERT refutes it with a single gateway.              *)
ExecutedOnce == \A k \in Keys : executions[k] <= 1

===============================================================================
