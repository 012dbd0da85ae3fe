------------------------ MODULE SettlementHistoryProofs ------------------------
(***************************************************************************)
(* Theorems about the history of a settlement: for any number of workers,  *)
(* that no stage is skipped and that nothing is orphaned; for one worker,  *)
(* that the history is linear, that terminal states are final, and that    *)
(* the service implements SettlementLifecycle.                             *)
(***************************************************************************)
EXTENDS SettlementProofs

(* The status s is reached from a status the settlement sid was in.        *)
ReachedFrom(sid, s) ==
    \E f \in events : f.sid = sid /\ ValidateTransition(f.status, s)

(* What the trigger has accepted and is not committed yet.                 *)
WrittenRowsLegal ==
    \A w \in Workers : requests[w].stage = "written" =>
        /\ Created(requests[w].sid)
        /\ ReachedFrom(requests[w].sid, requests[w].status)

(* NoSkippedStage and NoOrphans with what keeps them: between the INSERT   *)
(* and the COMMIT other workers may write, but rows are never taken away,  *)
(* so what the trigger found is still there.                               *)
HistoryInv ==
    /\ TypeOK
    /\ NoSkippedStage
    /\ NoOrphans
    /\ WrittenRowsLegal

(* The statuses are those of the state machine.                            *)
LEMMA AllowedIsValid ==
    ASSUME NEW current, NEW new, TriggerAllows(current, new)
    PROVE  ValidateTransition(current, new)
  BY DEF TriggerAllows, ValidateTransition, ValidTransitions, TerminalStates

LEMMA ReachedForEver ==
    ASSUME NEW sid, NEW s, ReachedFrom(sid, s), events \subseteq events'
    PROVE  ReachedFrom(sid, s)'
  BY DEF ReachedFrom

(* A transition is never to PENDING, since a settlement has its PENDING    *)
(* row from the start.                                                     *)
LEMMA AcceptedIsReached ==
    ASSUME NoOrphans, NEW s, NEW new, InsertAccepted(s, new)
    PROVE  Created(s) /\ ReachedFrom(s, new)
<1>1. PICK row \in settlements : row.id = s
  BY DEF InsertAccepted, Created
<1>2. \E e \in events : e.sid = s
  BY <1>1 DEF NoOrphans
<1>3. PICK e \in events : e.sid = s /\ TriggerAllows(e.status, new)
  BY <1>2 DEF InsertAccepted
<1> QED BY <1>1, <1>3, AllowedIsValid DEF Created, ReachedFrom

LEMMA HistoryInit == Init => HistoryInv
<1> SUFFICES ASSUME Init PROVE HistoryInv
  OBVIOUS
<1>1. TypeOK
  BY IdleRequest, ClockAssumption DEF Init, TypeOK
<1>2. NoSkippedStage /\ NoOrphans
  BY DEF Init, NoSkippedStage, NoOrphans
<1>3. WrittenRowsLegal
  BY IdleRequest DEF Init, WrittenRowsLegal
<1> QED BY <1>1, <1>2, <1>3 DEF HistoryInv

LEMMA HistoryStep == HistoryInv /\ [Next]_vars => HistoryInv'
<1> SUFFICES ASSUME HistoryInv, [Next]_vars PROVE HistoryInv'
  OBVIOUS
<1> DEFINE Goal == NoSkippedStage /\ NoOrphans /\ WrittenRowsLegal
<1>1. TypeOK /\ TypeOK' /\ Goal
  BY TypeStep DEF HistoryInv
<1>2. ASSUME UNCHANGED tables PROVE NoSkippedStage' /\ NoOrphans'
  BY <1>1, <1>2 DEF NoSkippedStage, NoOrphans, Created, tables
<1>3. ASSUME UNCHANGED tables, UNCHANGED requests PROVE Goal'
  BY <1>1, <1>2, <1>3 DEF WrittenRowsLegal, Created, ReachedFrom, tables
<1>4. ASSUME NEW w \in Workers, UNCHANGED tables,
             \A v \in Workers \ {w} : requests'[v] = requests[v],
             requests'[w].stage # "written"
      PROVE  Goal'
  BY <1>1, <1>2, <1>4 DEF WrittenRowsLegal, Created, ReachedFrom, tables
<1>5. ASSUME NEW w \in Workers, NEW s \in Settlements,
             NEW t \in Transactions, NEW k \in Keys,
             CreateSettlement(w, s, t, k)
      PROVE  Goal'
  <2> DEFINE keyTaken == \E row \in transactions : row.key = k
             new == [sid |-> s, status |-> "PENDING", at |-> clock + 1]
             parent == [id |-> t, key |-> k]
             row0 == [id |-> s, tx |-> t]
  <2>1. /\ settlements' = settlements \cup {row0}
        /\ events' = events \cup {new}
        /\ requests' = requests
        /\ transactions' = IF keyTaken THEN transactions
                           ELSE transactions \cup {parent}
        /\ keyTaken <=> \E row \in transactions : row.id = t
    BY <1>5 DEF CreateSettlement
  <2>2. NoSkippedStage'
    BY <1>1, <2>1 DEF NoSkippedStage
  <2>3. /\ parent.id = t
        /\ row0.id = s /\ row0.tx = t
        /\ new.sid = s /\ new.status = "PENDING"
    OBVIOUS
  <2>4. \A r1, r2 \in transactions' :
            r1.id = r2.id \/ r1.key = r2.key => r1 = r2
    BY <1>1, <2>1 DEF NoOrphans
  <2> HIDE DEF new, parent, row0
  <2>5. (\E p \in transactions' : p.id = t) /\ transactions \subseteq transactions'
    <3>1. CASE keyTaken
      BY <2>1, <3>1
    <3>2. CASE ~ keyTaken
      <4>1. transactions' = transactions \cup {parent}
        BY <2>1, <3>2
      <4> QED BY <2>3, <4>1
    <3> QED BY <3>1, <3>2
  <2>6. ASSUME NEW row \in settlements'
        PROVE  /\ \E p \in transactions' : p.id = row.tx
               /\ \E e \in events' : e.sid = row.id /\ e.status = "PENDING"
    <3>1. CASE row \in settlements
      BY <1>1, <2>1, <2>5, <3>1 DEF NoOrphans
    <3>2. CASE row = row0
      BY <2>1, <2>5, <2>3, <3>2
    <3> QED BY <2>1, <3>1, <3>2
  <2>7. ASSUME NEW e \in events'
        PROVE  \E row \in settlements' : row.id = e.sid
    <3>1. CASE e \in events
      BY <1>1, <2>1, <3>1 DEF NoOrphans, Created
    <3>2. CASE e = new
      BY <2>1, <2>3, <3>2
    <3> QED BY <2>1, <3>1, <3>2
  <2>8. NoOrphans'
    BY <2>4, <2>6, <2>7 DEF NoOrphans, Created
  <2>9. WrittenRowsLegal'
    BY <1>1, <2>1, ReachedForEver DEF WrittenRowsLegal, Created, ReachedFrom
  <2> QED BY <2>2, <2>8, <2>9
<1>6. ASSUME NEW w \in Workers, NEW s \in Settlements,
             NEW target \in AllStates, BeginTransition(w, s, target)
      PROVE  Goal'
  <2>1. clock + 1 \in 0 .. MaxClock
    BY <1>1, <1>6, ClockAssumption DEF BeginTransition, TypeOK
  <2>2. Transition(s, target, clock + 1).stage = "begun"
    BY <2>1, TransitionRequest
  <2> QED BY <1>1, <1>4, <1>6, <2>2 DEF BeginTransition, TypeOK
<1>7. ASSUME NEW w \in Workers, CheckQuorum(w) PROVE Goal'
  BY <1>1, <1>4, <1>7 DEF CheckQuorum, TypeOK, Request
<1>8. ASSUME NEW w \in Workers, InsertEvent(w) PROVE Goal'
  <2>1. /\ Created(requests[w].sid)
        /\ ReachedFrom(requests[w].sid, requests[w].status)
    BY <1>1, <1>8, AcceptedIsReached DEF InsertEvent
  <2>2. WrittenRowsLegal'
    BY <1>1, <1>8, <2>1
       DEF InsertEvent, WrittenRowsLegal, Created, ReachedFrom, tables, TypeOK,
           Request
  <2> QED BY <1>2, <1>8, <2>2 DEF InsertEvent
<1>9. ASSUME NEW w \in Workers, Commit(w) PROVE Goal'
  <2> DEFINE new == [sid |-> requests[w].sid, status |-> requests[w].status,
                     at |-> requests[w].at]
  <2>1. /\ events' = events \cup {new}
        /\ requests' = [requests EXCEPT ![w] = Idle]
        /\ UNCHANGED <<transactions, settlements>>
        /\ Created(new.sid) /\ ReachedFrom(new.sid, new.status)
    BY <1>1, <1>9 DEF Commit, WrittenRowsLegal
  <2> HIDE DEF new
  <2>2. NoSkippedStage'
    BY <1>1, <2>1 DEF NoSkippedStage, ReachedFrom
  <2>3. NoOrphans'
    BY <1>1, <2>1 DEF NoOrphans, Created
  <2>4. WrittenRowsLegal'
    BY <1>1, <2>1, IdleRequest, ReachedForEver
       DEF WrittenRowsLegal, Created, TypeOK
  <2> QED BY <2>2, <2>3, <2>4
<1>10. ASSUME NEW w \in Workers, Rollback(w) PROVE Goal'
  BY <1>1, <1>4, <1>10, IdleRequest DEF Rollback, TypeOK
<1>11. ASSUME NEW w \in Workers, NEW s \in Settlements, ReadStatus(w, s)
       PROVE  Goal'
  <2>1. PICK e \in events : requests' = [requests EXCEPT ![w] = Query(s, e.status)]
    BY <1>11 DEF ReadStatus
  <2>2. Query(s, e.status).stage = "counting"
    BY <1>1, QueryRequest DEF TypeOK, EventRow
  <2>3. UNCHANGED tables
    BY <1>11 DEF ReadStatus
  <2> QED BY <1>1, <1>4, <2>1, <2>2, <2>3 DEF TypeOK
<1>12. ASSUME NEW w \in Workers, ReadQuorum(w) PROVE Goal'
  <2>1. PICK reached \in BOOLEAN :
            requests' = [requests EXCEPT ![w].stage = "answered",
                                         ![w].quorum = reached]
    BY <1>12 DEF ReadQuorum
  <2>2. /\ requests'[w].stage = "answered"
        /\ \A v \in Workers \ {w} : requests'[v] = requests[v]
    BY <1>1, <2>1 DEF TypeOK, Request
  <2>3. UNCHANGED tables
    BY <1>12 DEF ReadQuorum
  <2> QED BY <1>4, <2>2, <2>3
<1>13. ASSUME NEW w \in Workers, Answer(w) PROVE Goal'
  BY <1>1, <1>4, <1>13, IdleRequest DEF Answer, TypeOK
<1>14. ASSUME NEW new \in SUBSET SignatureRow, AppendSignatures(new)
       PROVE  Goal'
  BY <1>3, <1>14 DEF AppendSignatures
<1>15. ASSUME UNCHANGED vars PROVE Goal'
  BY <1>3, <1>15 DEF vars, tables
<1> HIDE DEF Goal
<1>16. Goal'
  BY <1>5, <1>6, <1>7, <1>8, <1>9, <1>10, <1>11, <1>12, <1>13, <1>14, <1>15
     DEF Next, WorkerStep
<1> QED BY <1>1, <1>16 DEF Goal, HistoryInv

(* No stage is skipped, whatever the number of writers.                    *)
THEOREM NoStageSkipped == Spec => []NoSkippedStage
<1>1. HistoryInv => NoSkippedStage
  BY DEF HistoryInv
<1> QED BY <1>1, HistoryInit, HistoryStep, PTL DEF Spec

(* Settlements, their parents and their histories belong together,         *)
(* whatever the number of writers.                                         *)
THEOREM NothingOrphaned == Spec => []NoOrphans
<1>1. HistoryInv => NoOrphans
  BY DEF HistoryInv
<1> QED BY <1>1, HistoryInit, HistoryStep, PTL DEF Spec

-------------------------------------------------------------------------------
(* One worker                                                              *)

(* All requests are handled by one instance of the service.                *)
OneInstance == \A v, w \in Workers : v = w

(* A request in hand is younger than every row there is, so its row will   *)
(* be the last one, and what the trigger saw as current stays current.     *)
TransitionIsLast ==
    \A w \in Workers :
        /\ requests[w].stage \in {"begun", "checked", "written"} =>
              \A e \in events : e.at < requests[w].at
        /\ requests[w].stage = "written" =>
              \E e \in events :
                 /\ e.sid = requests[w].sid
                 /\ IsCurrent(e)
                 /\ ValidateTransition(e.status, requests[w].status)

RowsBeforeNow ==
    /\ \A e \in events : e.at <= clock
    /\ \A w \in Workers : requests[w].at <= clock

(* A settlement has no row after a terminal one.                           *)
TerminalIsLast ==
    \A e, f \in events :
        e.sid = f.sid /\ e.at < f.at => e.status \notin TerminalStates

(* LinearHistory is kept because a single worker's next row is the last    *)
(* one, which depends on no transaction being open beside the worker's.    *)
LinearInv ==
    /\ HistoryInv
    /\ LinearHistory
    /\ TerminalIsLast
    /\ RowsBeforeNow
    /\ TransitionIsLast

(* Adding a row after the current one of its settlement.                   *)
LEMMA LinearExtension ==
    ASSUME TypeOK, LinearHistory, TerminalIsLast,
           NEW new \in EventRow, events' = events \cup {new},
           \A e \in events : e.at < new.at,
           \/ \A e \in events : e.sid # new.sid
           \/ \E e \in events :
                 /\ e.sid = new.sid
                 /\ IsCurrent(e)
                 /\ ValidateTransition(e.status, new.status)
    PROVE  LinearHistory' /\ TerminalIsLast'
<1>1. \A e \in events : e.at \in Nat
  BY ClockAssumption DEF TypeOK, EventRow
<1>2. new.at \in Nat
  BY ClockAssumption DEF EventRow
<1>3. ASSUME NEW e \in events', NEW f \in events', e.sid = f.sid, e.at = f.at
      PROVE  e = f
  BY <1>1, <1>2, <1>3 DEF LinearHistory
<1>4. ASSUME NEW e \in events, e.sid = new.sid
      PROVE  \E c \in events :
                /\ c.sid = new.sid /\ IsCurrent(c) /\ e.at <= c.at
                /\ ValidateTransition(c.status, new.status)
                /\ c.at = e.at => c = e
  BY <1>1, <1>4 DEF IsCurrent, LinearHistory
<1>5. ASSUME NEW e \in events', NEW f \in events', Follows(e, f)'
      PROVE  ValidateTransition(e.status, f.status)
  <2>1. e.sid = f.sid /\ e.at < f.at /\ e \in events
    BY <1>1, <1>2, <1>5 DEF Follows
  <2>2. CASE f \in events
    <3>1. Follows(e, f)
      BY <1>5, <2>1, <2>2 DEF Follows
    <3> QED BY <2>1, <2>2, <3>1 DEF LinearHistory
  <2>3. CASE f = new
    <3>1. PICK c \in events :
             /\ c.sid = new.sid /\ e.at <= c.at
             /\ ValidateTransition(c.status, new.status)
             /\ c.at = e.at => c = e
      BY <1>4, <2>1, <2>3
    <3>2. c.at < new.at /\ c \in events'
      OBVIOUS
    <3>3. ~ (e.at < c.at)
      BY <1>5, <2>1, <2>3, <3>1, <3>2 DEF Follows
    <3>4. c = e
      BY <1>1, <2>1, <3>1, <3>3
    <3> QED BY <2>3, <3>1, <3>4
  <2> QED BY <2>2, <2>3
<1>6. ASSUME NEW e \in events', NEW f \in events', e.sid = f.sid, e.at < f.at
      PROVE  e.status \notin TerminalStates
  <2>1. e \in events
    BY <1>1, <1>2, <1>6
  <2>2. CASE f \in events
    BY <1>6, <2>1, <2>2 DEF TerminalIsLast
  <2>3. CASE f = new
    <3>1. PICK c \in events :
             /\ c.sid = new.sid /\ e.at <= c.at
             /\ ValidateTransition(c.status, new.status)
             /\ c.at = e.at => c = e
      BY <1>4, <1>6, <2>1, <2>3
    <3>2. c.status \notin TerminalStates
      BY <3>1 DEF ValidateTransition
    <3>3. e.at < c.at => e.status \notin TerminalStates
      BY <1>6, <2>1, <2>3, <3>1 DEF TerminalIsLast
    <3> QED BY <1>1, <2>1, <3>1, <3>2, <3>3
  <2> QED BY <2>2, <2>3
<1>7. LinearHistory'
  BY <1>3, <1>5 DEF LinearHistory
<1> QED BY <1>6, <1>7 DEF TerminalIsLast

LEMMA LinearInit == Init => LinearInv
<1> SUFFICES ASSUME Init PROVE LinearInv
  OBVIOUS
<1>1. HistoryInv
  BY HistoryInit
<1>2. LinearHistory /\ TerminalIsLast
  BY DEF Init, LinearHistory, TerminalIsLast
<1>3. RowsBeforeNow /\ TransitionIsLast
  BY DEF Init, RowsBeforeNow, TransitionIsLast, Idle
<1> QED BY <1>1, <1>2, <1>3 DEF LinearInv

(* The row a single worker commits is the last of its settlement.          *)
LEMMA CommitExtends ==
    ASSUME LinearInv, NEW w \in Workers, Commit(w)
    PROVE  \E new \in EventRow :
              /\ events' = events \cup {new}
              /\ new.at <= clock
              /\ \A e \in events : e.at < new.at
              /\ \E e \in events :
                    /\ e.sid = new.sid
                    /\ IsCurrent(e)
                    /\ ValidateTransition(e.status, new.status)
              /\ new.sid = requests[w].sid /\ new.status = requests[w].status
<1> DEFINE new == [sid |-> requests[w].sid, status |-> requests[w].status,
                   at |-> requests[w].at]
<1>1. /\ new.sid = requests[w].sid
      /\ new.status = requests[w].status
      /\ new.at = requests[w].at
      /\ events' = events \cup {new}
      /\ requests[w].stage = "written"
  BY DEF Commit
<1>2. new \in EventRow
  BY <1>1 DEF LinearInv, HistoryInv, TypeOK, Request, EventRow
<1>3. /\ \A e \in events : e.at < requests[w].at
      /\ \E e \in events :
            /\ e.sid = requests[w].sid
            /\ IsCurrent(e)
            /\ ValidateTransition(e.status, requests[w].status)
  BY <1>1 DEF LinearInv, TransitionIsLast
<1>4. requests[w].at <= clock
  BY DEF LinearInv, RowsBeforeNow
<1> HIDE DEF new
<1>5. /\ \A e \in events : e.at < new.at
      /\ new.at <= clock
      /\ \E e \in events :
            /\ e.sid = new.sid
            /\ IsCurrent(e)
            /\ ValidateTransition(e.status, new.status)
  BY <1>1, <1>3, <1>4
<1> QED BY <1>1, <1>2, <1>5

(* The row of a new settlement is its first one, and the youngest of all.  *)
LEMMA CreateExtends ==
    ASSUME LinearInv, NEW w \in Workers, NEW s \in Settlements,
           NEW t \in Transactions, NEW k \in Keys,
           CreateSettlement(w, s, t, k)
    PROVE  \E new \in EventRow :
              /\ events' = events \cup {new}
              /\ new.at = clock + 1 /\ new.sid = s /\ new.status = "PENDING"
              /\ \A e \in events : e.at < new.at /\ e.sid # s
<1> DEFINE new == [sid |-> s, status |-> "PENDING", at |-> clock + 1]
<1>1. /\ new.at = clock + 1 /\ new.sid = s /\ new.status = "PENDING"
      /\ events' = events \cup {new}
  BY DEF CreateSettlement
<1>2. clock + 1 \in 0 .. MaxClock /\ clock \in Nat
  BY ClockAssumption DEF CreateSettlement, LinearInv, HistoryInv, TypeOK
<1>3. new \in EventRow
  BY <1>2 DEF EventRow, AllStates
<1>4. \A e \in events : e.sid # s
  BY DEF CreateSettlement, LinearInv, HistoryInv, NoOrphans
<1>5. \A e \in events : e.at \in Nat /\ e.at <= clock
  BY ClockAssumption DEF LinearInv, RowsBeforeNow, HistoryInv, TypeOK, EventRow
<1> HIDE DEF new
<1>6. \A e \in events : e.at < new.at
  BY <1>1, <1>2, <1>5
<1> QED BY <1>1, <1>3, <1>4, <1>6

LEMMA LinearStep ==
    ASSUME OneInstance, LinearInv, [Next]_vars
    PROVE  LinearInv'
<1> DEFINE Goal == LinearHistory /\ TerminalIsLast /\ RowsBeforeNow
                   /\ TransitionIsLast
<1>1. TypeOK /\ NoOrphans /\ Goal
  BY DEF LinearInv, HistoryInv
<1>2. HistoryInv' /\ TypeOK'
  BY HistoryStep DEF LinearInv, HistoryInv
<1>3. /\ clock \in Nat /\ \A e \in events : e.at \in Nat
      /\ \A w \in Workers : requests[w].at \in Nat
  BY <1>1, ClockAssumption DEF TypeOK, EventRow, Request
<1>4. ASSUME UNCHANGED events PROVE LinearHistory' /\ TerminalIsLast'
  BY <1>1, <1>4 DEF LinearHistory, Follows, TerminalIsLast
<1>5. ASSUME UNCHANGED <<events, clock, requests>> PROVE Goal'
  BY <1>1, <1>4, <1>5 DEF RowsBeforeNow, TransitionIsLast, IsCurrent
<1>6. ASSUME NEW w \in Workers, UNCHANGED <<events, clock>>,
             requests'[w].stage \notin {"begun", "checked", "written"},
             requests'[w].at <= clock
      PROVE  Goal'
  BY <1>1, <1>4, <1>6 DEF RowsBeforeNow, TransitionIsLast, OneInstance
<1>7. ASSUME NEW w \in Workers, NEW s \in Settlements,
             NEW t \in Transactions, NEW k \in Keys,
             CreateSettlement(w, s, t, k)
      PROVE  Goal'
  <2>1. PICK new \in EventRow :
            /\ events' = events \cup {new}
            /\ new.at = clock + 1 /\ new.sid = s /\ new.status = "PENDING"
            /\ \A e \in events : e.at < new.at /\ e.sid # s
    BY <1>7, CreateExtends
  <2>2. LinearHistory' /\ TerminalIsLast'
    BY <1>1, <2>1, LinearExtension
  <2>3. /\ clock' = clock + 1 /\ requests' = requests
        /\ requests[w].stage = "idle"
    BY <1>7 DEF CreateSettlement
  <2>4. RowsBeforeNow'
    BY <1>1, <1>3, <2>1, <2>3 DEF RowsBeforeNow
  <2>5. TransitionIsLast'
    BY <2>3 DEF TransitionIsLast, OneInstance
  <2> QED BY <2>2, <2>4, <2>5
<1>8. ASSUME NEW w \in Workers, NEW s \in Settlements,
             NEW target \in AllStates, BeginTransition(w, s, target)
      PROVE  Goal'
  <2> DEFINE tr == Transition(s, target, clock + 1)
  <2>1. clock + 1 \in 0 .. MaxClock
    BY <1>1, <1>8, ClockAssumption DEF BeginTransition, TypeOK
  <2>2. tr.stage = "begun" /\ tr.at = clock + 1
    BY <2>1, TransitionRequest
  <2>3. requests' = [requests EXCEPT ![w] = tr] /\ clock' = clock + 1
        /\ UNCHANGED events
    BY <1>8 DEF BeginTransition, tables
  <2> HIDE DEF tr
  <2>4. RowsBeforeNow'
    BY <1>1, <1>3, <2>2, <2>3 DEF RowsBeforeNow, TypeOK
  <2>5. TransitionIsLast'
    BY <1>1, <1>3, <2>2, <2>3
       DEF TransitionIsLast, OneInstance, RowsBeforeNow, TypeOK
  <2> QED BY <1>4, <2>3, <2>4, <2>5
<1>9. ASSUME NEW w \in Workers, CheckQuorum(w) PROVE Goal'
  <2>1. /\ requests[w].stage = "begun" /\ UNCHANGED <<events, clock>>
        /\ requests'[w].stage = "checked"
        /\ requests'[w].at = requests[w].at
    BY <1>1, <1>9 DEF CheckQuorum, tables, TypeOK, Request
  <2> QED BY <1>1, <1>4, <2>1 DEF RowsBeforeNow, TransitionIsLast, OneInstance
<1>10. ASSUME NEW w \in Workers, InsertEvent(w) PROVE Goal'
  <2>1. /\ requests[w].stage \in {"begun", "checked"}
        /\ UNCHANGED <<events, clock>>
        /\ requests'[w].stage = "written"
        /\ requests'[w].at = requests[w].at
        /\ requests'[w].sid = requests[w].sid
        /\ requests'[w].status = requests[w].status
    BY <1>1, <1>10 DEF InsertEvent, tables, TypeOK, Request
  <2>2. PICK e \in events :
            /\ e.sid = requests[w].sid
            /\ IsCurrent(e)
            /\ ValidateTransition(e.status, requests[w].status)
    <3>1. InsertAccepted(requests[w].sid, requests[w].status)
      BY <1>10 DEF InsertEvent
    <3>2. \E e \in events : e.sid = requests[w].sid
      BY <1>1, <3>1, AcceptedIsReached DEF ReachedFrom
    <3> QED BY <3>1, <3>2, AllowedIsValid DEF InsertAccepted
  <2>3. IsCurrent(e)'
    BY <2>1, <2>2 DEF IsCurrent
  <2> QED BY <1>1, <1>4, <2>1, <2>2, <2>3
          DEF RowsBeforeNow, TransitionIsLast, OneInstance
<1>11. ASSUME NEW w \in Workers, Commit(w) PROVE Goal'
  <2>1. PICK new \in EventRow :
            /\ events' = events \cup {new}
            /\ new.at <= clock
            /\ \A e \in events : e.at < new.at
            /\ \E e \in events :
                  /\ e.sid = new.sid
                  /\ IsCurrent(e)
                  /\ ValidateTransition(e.status, new.status)
    BY <1>11, CommitExtends
  <2>2. LinearHistory' /\ TerminalIsLast'
    BY <1>1, <2>1, LinearExtension
  <2>3. requests'[w] = Idle /\ clock' = clock
    BY <1>1, <1>11 DEF Commit, TypeOK
  <2>4. Idle.stage = "idle" /\ Idle.at = 0
    BY DEF Idle
  <2>5. RowsBeforeNow' /\ TransitionIsLast'
    BY <1>1, <1>3, <2>1, <2>3, <2>4
       DEF RowsBeforeNow, TransitionIsLast, OneInstance
  <2> QED BY <2>2, <2>5
<1>12. ASSUME NEW w \in Workers, requests' = [requests EXCEPT ![w] = Idle],
              UNCHANGED <<events, clock>>
       PROVE  Goal'
  <2>1. requests'[w].stage = "idle" /\ requests'[w].at = 0
    BY <1>1, <1>12 DEF TypeOK, Idle
  <2> QED BY <1>3, <1>6, <1>12, <2>1
<1>13. ASSUME NEW w \in Workers, NEW s \in Settlements, ReadStatus(w, s)
       PROVE  Goal'
  <2>1. PICK e \in events : requests' = [requests EXCEPT ![w] = Query(s, e.status)]
    BY <1>13 DEF ReadStatus
  <2>2. requests'[w].stage = "counting" /\ requests'[w].at = 0
    BY <1>1, <2>1 DEF TypeOK, Query
  <2>3. UNCHANGED <<events, clock>>
    BY <1>13 DEF ReadStatus, tables
  <2> QED BY <1>3, <1>6, <2>2, <2>3
<1>14. ASSUME NEW w \in Workers, ReadQuorum(w) PROVE Goal'
  <2>1. PICK reached \in BOOLEAN :
            requests' = [requests EXCEPT ![w].stage = "answered",
                                         ![w].quorum = reached]
    BY <1>14 DEF ReadQuorum
  <2>2. requests'[w].stage = "answered" /\ requests'[w].at = requests[w].at
    BY <1>1, <2>1 DEF TypeOK, Request
  <2>3. UNCHANGED <<events, clock>>
    BY <1>14 DEF ReadQuorum, tables
  <2>4. requests'[w].at <= clock
    BY <1>1, <2>2 DEF RowsBeforeNow
  <2> QED BY <1>6, <2>2, <2>3, <2>4
<1>15. ASSUME NEW new \in SUBSET SignatureRow, AppendSignatures(new)
       PROVE  Goal'
  BY <1>5, <1>15 DEF AppendSignatures, tables
<1>16. ASSUME UNCHANGED vars PROVE Goal'
  BY <1>5, <1>16 DEF vars
<1>17. ASSUME NEW w \in Workers, Rollback(w) \/ Answer(w) PROVE Goal'
  BY <1>12, <1>17 DEF Rollback, Answer, tables
<1> HIDE DEF Goal
<1>18. Goal'
  BY <1>7, <1>8, <1>9, <1>10, <1>11, <1>13, <1>14, <1>15, <1>16, <1>17
     DEF Next, WorkerStep
<1> QED BY <1>2, <1>18 DEF Goal, LinearInv

(* With one instance of the service, every history is one walk through the *)
(* state machine.                                                          *)
THEOREM HistoryIsLinear == ASSUME OneInstance PROVE Spec => []LinearHistory
<1>1. LinearInv => LinearHistory
  BY DEF LinearInv
<1>2. LinearInv /\ [Next]_vars => LinearInv'
  BY LinearStep
<1> QED BY <1>1, <1>2, LinearInit, PTL DEF Spec

(* With one instance of the service, nothing follows CONFIRMED or FAILED.  *)
THEOREM TerminalStatesAreFinal ==
    ASSUME OneInstance PROVE Spec => TerminalIsFinal
<1>1. LinearInv /\ [Next]_vars => LinearInv'
  BY LinearStep
<1>2. ASSUME LinearInv, [Next]_vars
      PROVE  [\A e \in events : e.status \in TerminalStates =>
                 \A f \in events' \ events : f.sid # e.sid]_vars
  <2> SUFFICES ASSUME NEW e \in events, e.status \in TerminalStates,
                      NEW f \in events' \ events
               PROVE  f.sid # e.sid
    OBVIOUS
  <2>1. CASE UNCHANGED events
    BY <2>1
  <2>2. ASSUME NEW w \in Workers, NEW s \in Settlements,
               NEW t \in Transactions, NEW k \in Keys,
               CreateSettlement(w, s, t, k)
        PROVE  f.sid # e.sid
    BY <1>2, <2>2, CreateExtends
  <2>3. ASSUME NEW w \in Workers, Commit(w) PROVE f.sid # e.sid
    <3>1. f \in events' /\ e \in events' /\ e.at < f.at
      BY <1>2, <2>3, CommitExtends
    <3>2. TerminalIsLast'
      BY <1>2, LinearStep DEF LinearInv
    <3> QED BY <3>1, <3>2 DEF TerminalIsLast
  <2>4. \/ UNCHANGED events
        \/ \E w \in Workers : Commit(w)
        \/ \E w \in Workers, s \in Settlements, t \in Transactions, k \in Keys :
              CreateSettlement(w, s, t, k)
    BY <1>2 DEF Next, WorkerStep, vars, tables, BeginTransition, CheckQuorum,
       InsertEvent, Rollback, ReadStatus, ReadQuorum, Answer, AppendSignatures
  <2> QED BY <2>1, <2>2, <2>3, <2>4
<1> QED BY <1>1, <1>2, LinearInit, PTL DEF Spec, TerminalIsFinal

-------------------------------------------------------------------------------
(* Refinement: one instance of the service implements SettlementLifecycle. *)

ShownStatus == [s \in Settlements |-> StatusOf(s)]
ShownApproved == {s \in Settlements : TwoSigners(s)}

(* The current row is unique, so the status shown is its status.           *)
LEMMA StatusOfCurrent ==
    LinearHistory /\ TypeOK =>
        \A e \in events : IsCurrent(e) => StatusOf(e.sid) = e.status
<1> SUFFICES ASSUME LinearHistory, TypeOK, NEW e \in events, IsCurrent(e)
             PROVE  StatusOf(e.sid) = e.status
  OBVIOUS
<1>1. CurrentRows(e.sid) = {e}
  <2>1. ASSUME NEW f \in CurrentRows(e.sid) PROVE f = e
    <3>1. f \in events /\ f.sid = e.sid /\ IsCurrent(f)
      BY DEF CurrentRows
    <3>2. e.at \in Nat /\ f.at \in Nat
      BY <3>1, ClockAssumption DEF TypeOK, EventRow
    <3>3. e.at = f.at
      BY <3>1, <3>2 DEF IsCurrent
    <3> QED BY <3>1, <3>3 DEF LinearHistory
  <2>2. e \in CurrentRows(e.sid)
    BY DEF CurrentRows
  <2> QED BY <2>1, <2>2
<1>2. (CHOOSE f \in CurrentRows(e.sid) : TRUE) \in CurrentRows(e.sid)
  BY <1>1
<1>3. (CHOOSE f \in CurrentRows(e.sid) : TRUE) = e
  BY <1>1, <1>2
<1> QED BY <1>1, <1>3 DEF StatusOf

(* A row younger than all others changes the status of its settlement, and *)
(* of no other one.                                                        *)
LEMMA StatusAfter ==
    ASSUME LinearInv, LinearInv', NEW new \in EventRow,
           events' = events \cup {new}, \A e \in events : e.at < new.at
    PROVE  /\ StatusOf(new.sid)' = new.status
           /\ \A s \in Settlements \ {new.sid} : StatusOf(s)' = StatusOf(s)
<1>1. /\ new.at \in Nat /\ \A e \in events : e.at \in Nat
      /\ new.sid \in Settlements
  BY ClockAssumption DEF LinearInv, HistoryInv, TypeOK, EventRow
<1>2. new \in events' /\ IsCurrent(new)'
  BY <1>1 DEF IsCurrent
<1>3. StatusOf(new.sid)' = new.status
  <2>1. LinearHistory' /\ TypeOK'
    BY DEF LinearInv, HistoryInv
  <2>2. (LinearHistory /\ TypeOK =>
            \A e \in events : IsCurrent(e) => StatusOf(e.sid) = e.status)'
    BY StatusOfCurrent, PTL
  <2> QED BY <1>2, <2>1, <2>2
<1>4. ASSUME NEW s \in Settlements \ {new.sid}
      PROVE  StatusOf(s)' = StatusOf(s)
  <2>1. CurrentRows(s)' = CurrentRows(s)
    <3>1. \A e : e \in CurrentRows(s)' <=> e \in CurrentRows(s)
      BY <1>4 DEF CurrentRows, IsCurrent
    <3> QED BY <3>1
  <2> QED BY <2>1 DEF StatusOf, NoStatus
<1> QED BY <1>3, <1>4

LEMMA InitImplements == Init => Lifecycle!Init
<1> SUFFICES ASSUME Init PROVE Lifecycle!Init
  OBVIOUS
<1>1. \A s \in Settlements : CurrentRows(s) = {} /\ ~ TwoSigners(s)
  BY DEF Init, CurrentRows, TwoSigners
<1> QED BY <1>1 DEF Lifecycle!Init, StatusOf

LEMMA StepImplements ==
    ASSUME OneInstance, LinearInv, QuorumInv, [Next]_vars
    PROVE  [Lifecycle!Next]_(Lifecycle!vars)
<1>1. LinearInv' /\ QuorumInv'
  BY LinearStep, QuorumStep
<1>2. ASSUME UNCHANGED events PROVE ShownStatus' = ShownStatus
  <2>1. ASSUME NEW s \in Settlements PROVE StatusOf(s)' = StatusOf(s)
    <3>1. CurrentRows(s)' = CurrentRows(s)
      BY <1>2 DEF CurrentRows, IsCurrent
    <3> QED BY <3>1 DEF StatusOf, NoStatus
  <2> QED BY <2>1 DEF ShownStatus
<1>3. ASSUME UNCHANGED signatures PROVE ShownApproved' = ShownApproved
  BY <1>3 DEF ShownApproved, TwoSigners
<1>4. ASSUME NEW new \in EventRow, events' = events \cup {new},
             \A e \in events : e.at < new.at
      PROVE  ShownStatus' = [ShownStatus EXCEPT ![new.sid] = new.status]
  <2>1. new.sid \in Settlements
    BY DEF EventRow
  <2>2. StatusOf(new.sid)' = new.status
        /\ \A s \in Settlements \ {new.sid} : StatusOf(s)' = StatusOf(s)
    BY <1>1, <1>4, StatusAfter
  <2> QED BY <2>1, <2>2 DEF ShownStatus
<1>5. ASSUME NEW w \in Workers, NEW s \in Settlements,
             NEW t \in Transactions, NEW k \in Keys,
             CreateSettlement(w, s, t, k)
      PROVE  Lifecycle!Create(s)
  <2>1. PICK new \in EventRow :
            /\ events' = events \cup {new}
            /\ new.at = clock + 1 /\ new.sid = s /\ new.status = "PENDING"
            /\ \A e \in events : e.at < new.at /\ e.sid # s
    BY <1>5, CreateExtends
  <2>2. CurrentRows(s) = {}
    BY <2>1 DEF CurrentRows
  <2>3. ShownStatus[s] = NoStatus
    BY <2>2 DEF StatusOf, ShownStatus
  <2>4. ShownStatus' = [ShownStatus EXCEPT ![s] = "PENDING"]
    BY <1>4, <2>1
  <2>5. ShownApproved' = ShownApproved
    BY <1>3, <1>5 DEF CreateSettlement
  <2> QED BY <2>3, <2>4, <2>5 DEF Lifecycle!Create, ShownStatus, ShownApproved
<1>6. ASSUME NEW w \in Workers, Commit(w)
      PROVE  \E s \in Settlements, target \in AllStates :
                 Lifecycle!Move(s, target)
  <2>1. PICK new \in EventRow :
            /\ events' = events \cup {new}
            /\ \A e \in events : e.at < new.at
            /\ \E e \in events :
                  /\ e.sid = new.sid
                  /\ IsCurrent(e)
                  /\ ValidateTransition(e.status, new.status)
            /\ new.sid = requests[w].sid /\ new.status = requests[w].status
    BY <1>6, CommitExtends
  <2>2. new.sid \in Settlements /\ new.status \in AllStates
    BY DEF EventRow
  <2>3. ValidateTransition(ShownStatus[new.sid], new.status)
    BY <2>1, <2>2, StatusOfCurrent DEF LinearInv, HistoryInv, ShownStatus
  <2>4. new.status = "SIGNED" => new.sid \in ShownApproved
    BY <1>6, <2>1, <2>2
       DEF Commit, QuorumInv, RequestsKnowQuorum, SignedStates, ShownApproved
  <2>5. ShownStatus' = [ShownStatus EXCEPT ![new.sid] = new.status]
    BY <1>4, <2>1
  <2>6. ShownApproved' = ShownApproved
    BY <1>3, <1>6 DEF Commit
  <2>7. Lifecycle!Move(new.sid, new.status)
    BY <2>3, <2>4, <2>5, <2>6
       DEF Lifecycle!Move, ShownStatus, ShownApproved,
           ValidateTransition, Lifecycle!ValidateTransition,
           TerminalStates, Lifecycle!TerminalStates,
           ValidTransitions, Lifecycle!ValidTransitions
  <2> QED BY <2>2, <2>7
<1>7. ASSUME NEW new \in SUBSET SignatureRow, AppendSignatures(new)
      PROVE  \E more \in SUBSET Settlements : Lifecycle!Approve(more)
  <2>1. \A s : TwoSigners(s) => TwoSigners(s)'
    BY SignaturesGrow, TwoSignersForEver
  <2>2. ShownApproved' = ShownApproved \cup ShownApproved'
        /\ ShownApproved' \in SUBSET Settlements
    BY <2>1 DEF ShownApproved
  <2>3. ShownStatus' = ShownStatus
    BY <1>2, <1>7 DEF AppendSignatures, tables
  <2>4. Lifecycle!Approve(ShownApproved')
    BY <2>2, <2>3 DEF Lifecycle!Approve, ShownStatus, ShownApproved
  <2> QED BY <2>2, <2>4
<1>8. ASSUME UNCHANGED <<events, signatures>> PROVE UNCHANGED Lifecycle!vars
  BY <1>2, <1>3, <1>8 DEF Lifecycle!vars, ShownStatus, ShownApproved
<1>9. \/ UNCHANGED <<events, signatures>>
      \/ \E w \in Workers : Commit(w)
      \/ \E w \in Workers, s \in Settlements, t \in Transactions, k \in Keys :
            CreateSettlement(w, s, t, k)
      \/ \E new \in SUBSET SignatureRow : AppendSignatures(new)
  BY DEF Next, WorkerStep, vars, tables, BeginTransition, CheckQuorum,
     InsertEvent, Rollback, ReadStatus, ReadQuorum, Answer
<1> QED
  BY <1>5, <1>6, <1>7, <1>8, <1>9 DEF Lifecycle!Next, AllStates,
     Lifecycle!AllStates

(* With one instance of the service, what readers see of the settlements   *)
(* only takes the steps of the abstract lifecycle.                         *)
THEOREM ServiceImplementsLifecycle ==
    ASSUME OneInstance PROVE Spec => ImplementsLifecycle
<1>1. LinearInv /\ QuorumInv /\ [Next]_vars => LinearInv' /\ QuorumInv'
  BY LinearStep, QuorumStep
<1>2. LinearInv /\ QuorumInv /\ [Next]_vars => [Lifecycle!Next]_(Lifecycle!vars)
  BY StepImplements
<1>3. Init => LinearInv /\ QuorumInv /\ Lifecycle!Init
  BY LinearInit, QuorumInit, InitImplements
<1> QED
  BY <1>1, <1>2, <1>3, PTL DEF Spec, ImplementsLifecycle, Lifecycle!Spec

===============================================================================
