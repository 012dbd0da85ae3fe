--------------------------- MODULE BackOfficeProofs ---------------------------
(***************************************************************************)
(* Theorems about the ledger, compliance and reconciliation services, for  *)
(* any accounts, codes, amounts, entities, lists, runs and failures.       *)
(***************************************************************************)
EXTENDS BackOffice, LedgerProofs

-------------------------------------------------------------------------------
(* Facts about the parts                                                   *)

(* What differs was posted to, or holds a NaN.                             *)
LEMMA DifferMeansMoved ==
    ASSUME NEW older, NEW newer, NEW key, Differ(older, newer, key)
    PROVE  \/ RowsOf(newer, key) # RowsOf(older, key)
           \/ HasNaN(RowsOf(newer, key))
  BY BalanceOfRows DEF Differ

LEMMA MismatchFinite == IsFiniteSet(Mismatch)
<1> DEFINE U == {Unbalanced(j) : j \in Journals}
           B == {BalanceMismatch(key) : key \in Keys}
           N == {NegativeAsset(key) : key \in Keys}
           V == {InvalidInitial(s) : s \in Settlements}
<1>1. IsFiniteSet(U)
  <2> DEFINE f == [j \in Journals |-> Unbalanced(j)]
  <2>1. f \in [Journals -> U] /\ \A u \in U : \E j \in Journals : f[j] = u
    OBVIOUS
  <2> HIDE DEF f, U
  <2> QED BY <2>1, TablesAssumption, FiniteImage
<1>2. IsFiniteSet(B)
  <2> DEFINE f == [key \in Keys |-> BalanceMismatch(key)]
  <2>1. f \in [Keys -> B] /\ \A b \in B : \E key \in Keys : f[key] = b
    OBVIOUS
  <2> HIDE DEF f, B
  <2> QED BY <2>1, KeysFinite, FiniteImage
<1>3. IsFiniteSet(N)
  <2> DEFINE f == [key \in Keys |-> NegativeAsset(key)]
  <2>1. f \in [Keys -> N] /\ \A n \in N : \E key \in Keys : f[key] = n
    OBVIOUS
  <2> HIDE DEF f, N
  <2> QED BY <2>1, KeysFinite, FiniteImage
<1>4. IsFiniteSet(V)
  <2> DEFINE f == [s \in Settlements |-> InvalidInitial(s)]
  <2>1. f \in [Settlements -> V] /\ \A v \in V : \E s \in Settlements : f[s] = v
    OBVIOUS
  <2> HIDE DEF f, V
  <2> QED BY <2>1, BoundAssumption, FiniteImage
<1>5. Mismatch = U \cup B \cup N \cup V
  BY DEF Mismatch
<1> HIDE DEF U, B, N, V
<1> QED BY <1>1, <1>2, <1>3, <1>4, <1>5, FS_Union

(* A run records as many rows as it found mismatches.                      *)
LEMMA RecordedCardinality ==
    ASSUME NEW found \in SUBSET Mismatch
    PROVE  /\ Cardinality(Recorded(found)) = Cardinality(found)
           /\ Cardinality(found) \in Nat
<1> DEFINE f == [m \in found |-> [run |-> Len(runs), mismatch |-> m]]
<1>1. IsFiniteSet(found)
  BY MismatchFinite, FS_Subset
<1>2. f \in [found -> Recorded(found)]
  BY DEF Recorded
<1>3. IsInjective(f)
  BY DEF IsInjective
<1>4. \A row \in Recorded(found) : \E m \in found : f[m] = row
  BY DEF Recorded
<1>5. f \in Bijection(found, Recorded(found))
  <2> HIDE DEF f
  <2> QED BY <1>2, <1>3, <1>4 DEF Bijection, Injection, Surjection
<1> HIDE DEF f
<1> QED BY <1>1, <1>5, FS_Bijection, FS_CardinalityType DEF ExistsBijection

(* The handler of an exception changes one field of one row.               *)
LEMMA MarkedError ==
    ASSUME runs \in Seq(RunRow), runs # <<>>,
           runs' = [runs EXCEPT ![Len(runs)].status = "ERROR"]
    PROVE  /\ runs' \in Seq(RunRow)
           /\ Len(runs') = Len(runs)
           /\ runs'[Len(runs)].status = "ERROR"
           /\ \A r \in DOMAIN runs \ {Len(runs)} : runs'[r] = runs[r]
<1> DEFINE marked == [runs[Len(runs)] EXCEPT !.status = "ERROR"]
<1>1. Len(runs) \in DOMAIN runs /\ runs[Len(runs)] \in RunRow
  OBVIOUS
<1>2. marked \in RunRow /\ marked.status = "ERROR"
  BY <1>1 DEF RunRow
<1>3. runs' = [runs EXCEPT ![Len(runs)] = marked]
  OBVIOUS
<1> HIDE DEF marked
<1> QED BY <1>1, <1>2, <1>3

-------------------------------------------------------------------------------
(* Types                                                                   *)

LEMMA IdleType ==
    Idle \in [stage : Stages, found : SUBSET Mismatch,
              replayed : SUBSET Row, viewed : SUBSET Row, counted : SUBSET Row]
  BY DEF Idle, Stages

LEMMA InitType == Init => TypeOK
  BY BoundAssumption, IdleType
     DEF Init, LedgerInit, ComplianceInit, ReconciliationInit, TypeOK, Idle

LEMMA LedgerType ==
    ASSUME TypeOK, LedgerStep
    PROVE  TypeOK'
<1>1. PICK j \in Journals, debit \in Keys, credit \in Keys, amount \in Amounts :
          Post(j, debit, credit, amount)
  BY DEF LedgerStep, LedgerNext
<1>2. journal' \subseteq Row
  BY <1>1 DEF TypeOK, Post, Leg, Row
<1>3. audits' \subseteq
          [action : {"journal.create", "compliance.screen",
                     "reconciliation.complete"},
           resource : Journals \cup Screenings \cup (1 .. MaxRuns)]
  BY <1>1 DEF TypeOK, Post, Audit, AuditRow
<1> QED BY <1>2, <1>3 DEF TypeOK, LedgerStep, reconcilerVars

LEMMA ComplianceType ==
    ASSUME TypeOK, ComplianceStep
    PROVE  TypeOK'
<1>1. PICK id \in Screenings, entity \in Entities, type \in ScreeningTypes :
          Screen(id, entity, type)
  BY DEF ComplianceStep, ComplianceNext
<1>2. Cleared(entity, type) \in BOOLEAN
  BY DEF Cleared
<1>3. screenings' \subseteq ScreeningRow
  BY <1>1, <1>2 DEF TypeOK, Screen, ScreeningRow
<1>4. audits' \subseteq
          [action : {"journal.create", "compliance.screen",
                     "reconciliation.complete"},
           resource : Journals \cup Screenings \cup (1 .. MaxRuns)]
  BY <1>1 DEF TypeOK, Screen, Audit, AuditRow
<1> QED BY <1>3, <1>4 DEF TypeOK, ComplianceStep, reconcilerVars

LEMMA SettlementType ==
    ASSUME TypeOK, SettlementStep
    PROVE  TypeOK'
<1>1. PICK s \in Settlements, status \in AllStates : AppendEvent(s, status)
  BY DEF SettlementStep
<1>2. histories' \in [Settlements -> Seq(AllStates)]
  BY <1>1 DEF TypeOK, AppendEvent
<1> QED BY <1>1, <1>2 DEF TypeOK, SettlementStep, AppendEvent, reconcilerVars

(* What every step of the reconciler leaves of the types to its own part.  *)
LEMMA ReconcilerType ==
    ASSUME TypeOK, ReconciliationStep
    PROVE  TypeOK'
<1> USE DEF TypeOK, ReconciliationStep
<1>1. CASE StartRun
  <2>1. runs' \in Seq(RunRow) /\ Len(runs') <= MaxRuns /\ runs' # <<>>
    <3>1. [status |-> "RUNNING", mismatches |-> 0] \in RunRow
      BY DEF RunRow
    <3>2. /\ runs' = Append(runs, [status |-> "RUNNING", mismatches |-> 0])
          /\ Len(runs) < MaxRuns
      BY <1>1 DEF StartRun
    <3>3. Len(runs') = Len(runs) + 1 /\ runs' \in Seq(RunRow)
      BY <3>1, <3>2
    <3> QED BY <3>2, <3>3, BoundAssumption
  <2>2. work' \in [stage : Stages, found : SUBSET Mismatch,
                   replayed : SUBSET Row, viewed : SUBSET Row,
                   counted : SUBSET Row]
    BY <1>1, IdleType DEF StartRun, Stages
  <2> QED BY <1>1, <2>1, <2>2 DEF StartRun
<1>2. CASE SumJournals
  BY <1>2 DEF SumJournals, Stages, Mismatch
<1>3. CASE Replay
  BY <1>3 DEF Replay, Stages
<1>4. CASE CompareWithView
  BY <1>4 DEF CompareWithView, Stages, Mismatch
<1>5. CASE CountNegative
  BY <1>5 DEF CountNegative, Stages, Mismatch
<1>6. CASE CheckHistories
  BY <1>6 DEF CheckHistories, Stages, Mismatch
<1>7. CASE Complete
  <2>1. runs # <<>> /\ Len(runs) \in 1 .. MaxRuns
    BY <1>7, BoundAssumption DEF Complete
  <2>2. Cardinality(work.found) \in Nat
    BY RecordedCardinality
  <2>3. runs' \in Seq(RunRow) /\ Len(runs') = Len(runs)
    BY <1>7, <2>1, <2>2 DEF Complete, RunRow
  <2>4. mismatches' \subseteq RecordedRow
    BY <1>7, <2>1 DEF Complete, Recorded, RecordedRow
  <2>5. audits' \subseteq
            [action : {"journal.create", "compliance.screen",
                       "reconciliation.complete"},
             resource : Journals \cup Screenings \cup (1 .. MaxRuns)]
    BY <1>7, <2>1 DEF Complete, Audit, AuditRow
  <2>6. work' = Idle /\ Idle.stage = "idle"
    BY <1>7 DEF Complete, Idle
  <2> QED BY <1>7, <2>3, <2>4, <2>5, <2>6, IdleType DEF Complete
<1>8. CASE DatabaseFails
  BY <1>8, IdleType, BoundAssumption DEF DatabaseFails, Fault, Idle
<1>9. CASE PythonFails
  <2>1. runs # <<>> /\ Len(runs) \in 1 .. MaxRuns
    BY <1>9, BoundAssumption DEF PythonFails
  <2>2. runs' \in Seq(RunRow) /\ Len(runs') = Len(runs)
    BY <1>9, <2>1, MarkedError DEF PythonFails
  <2>3. mismatches' \subseteq RecordedRow
    BY <1>9, <2>1 DEF PythonFails, Recorded, RecordedRow
  <2>4. work' = Idle /\ Idle.stage = "idle" /\ faults' \in 0 .. MaxFaults
    BY <1>9, BoundAssumption DEF PythonFails, Idle, Fault
  <2> QED BY <1>9, <2>2, <2>3, <2>4, IdleType DEF PythonFails
<1> QED BY <1>1, <1>2, <1>3, <1>4, <1>5, <1>6, <1>7, <1>8, <1>9
        DEF ReconcilerStep

(* Every variable keeps its type in the composition of the services.       *)
THEOREM TypeCorrect == Spec => []TypeOK
<1>1. ASSUME TypeOK, [Next]_vars
      PROVE  TypeOK'
  <2>1. CASE UNCHANGED vars
    BY <1>1, <2>1 DEF TypeOK, vars
  <2> QED BY <1>1, <2>1, LedgerType, ComplianceType, SettlementType,
             ReconcilerType DEF Next
<1> QED BY <1>1, InitType, PTL DEF Spec

-------------------------------------------------------------------------------
(* The trial balance                                                       *)

(* Only ledger-service writes to the journal.                              *)
LEMMA JournalStep == [Next]_vars => [LedgerNext]_journal
  BY DEF Next, vars, LedgerStep, ComplianceStep, SettlementStep, AppendEvent,
     ReconciliationStep, ReconcilerStep, StartRun, SumJournals, Replay,
     CompareWithView, CountNegative, CheckHistories, Complete, DatabaseFails,
     PythonFails

LEMMA EvenInvariant == Spec => []EvenInv
<1>1. Init => EvenInv
  BY EvenInit DEF Init
<1>2. EvenInv /\ [Next]_vars => EvenInv'
  BY JournalStep, EvenStep
<1> QED BY <1>1, <1>2, PTL DEF Spec

(* In every state a reader can see the books are even, for any number of   *)
(* accounts, codes and postings: legs come in pairs, and the sign rule of  *)
(* the view account_balances is that of the chart of accounts.             *)
THEOREM BooksBalance == Spec => []TrialBalance
  BY EvenInvariant, EvenMeansTrialBalance, PTL

(* Balances derived from the journal are those of a register: a posting of *)
(* a number or of NaN changes its two balances at one moment, by its       *)
(* amount and with the sign of each code, and nothing else changes any.    *)
THEOREM LedgerImplementsRegister == Spec => ImplementsRegister
<1>1. Init => Register!Init
  BY RegisterInit DEF Init
<1>2. EvenInv /\ [Next]_vars =>
          [Register!Next]_([key \in Keys |-> Balance(journal, key)])
  BY JournalStep, RegisterStep DEF Sheet
<1> QED BY <1>1, <1>2, EvenInvariant, PTL
        DEF Spec, ImplementsRegister, Register!Spec

-------------------------------------------------------------------------------
(* Runs and their reports                                                  *)

(* What a step does to the runs: nothing, or one of four things.           *)
Quiet ==
    /\ UNCHANGED <<runs, mismatches, faults>>
    /\ work'.stage = "idle" <=> work.stage = "idle"

LEMMA StepOfRuns ==
    ASSUME TypeOK, [Next]_vars
    PROVE  Quiet \/ StartRun \/ Complete \/ DatabaseFails \/ PythonFails
<1>1. CASE LedgerStep \/ ComplianceStep \/ SettlementStep \/ UNCHANGED vars
  BY <1>1 DEF LedgerStep, ComplianceStep, SettlementStep, AppendEvent,
              reconcilerVars, vars, Quiet
<1>2. CASE SumJournals \/ Replay \/ CompareWithView \/ CountNegative
             \/ CheckHistories
  BY <1>2 DEF TypeOK, SumJournals, Replay, CompareWithView, CountNegative,
              CheckHistories, Quiet
<1> QED BY <1>1, <1>2 DEF Next, ReconciliationStep, ReconcilerStep

(* A failure adds at most the run in hand to those that are not finished.  *)
LEMMA FailureAccounted ==
    ASSUME TypeOK, RunsAccountedFor, work.stage # "idle", work'.stage = "idle",
           DOMAIN runs' = DOMAIN runs,
           \A r \in DOMAIN runs \ {Len(runs)} : runs'[r] = runs[r],
           faults' = faults + 1
    PROVE  RunsAccountedFor'
<1>1. Unfinished' \subseteq Unfinished \cup {Len(runs)}
  BY DEF Unfinished, InHand
<1>2. IsFiniteSet(Unfinished)
  <2>1. Unfinished \subseteq 1 .. Len(runs) /\ Len(runs) \in Nat
    BY DEF TypeOK, Unfinished
  <2>2. IsFiniteSet(1 .. Len(runs))
    BY <2>1, FS_Interval
  <2> QED BY <2>1, <2>2, FS_Subset
<1>3. /\ IsFiniteSet(Unfinished \cup {Len(runs)})
      /\ Cardinality(Unfinished \cup {Len(runs)}) <= Cardinality(Unfinished) + 1
  <2>1. Cardinality(Unfinished) \in Nat
    BY <1>2, FS_CardinalityType
  <2> DEFINE more == Unfinished \cup {Len(runs)}
  <2>2. /\ IsFiniteSet(more)
        /\ Cardinality(more) = IF Len(runs) \in Unfinished
                               THEN Cardinality(Unfinished)
                               ELSE Cardinality(Unfinished) + 1
    BY <1>2, FS_AddElement
  <2> QED BY <2>1, <2>2
<1>4. /\ Cardinality(Unfinished') <= Cardinality(Unfinished \cup {Len(runs)})
      /\ IsFiniteSet(Unfinished')
  BY <1>1, <1>3, FS_Subset
<1>5. /\ Cardinality(Unfinished) \in Nat /\ Cardinality(Unfinished') \in Nat
      /\ Cardinality(Unfinished \cup {Len(runs)}) \in Nat
  BY <1>2, <1>3, <1>4, FS_CardinalityType
<1> QED BY <1>3, <1>4, <1>5, BoundAssumption DEF RunsAccountedFor, TypeOK

LEMMA RunsStep ==
    ASSUME TypeOK, RunsAccountedFor, [Next]_vars
    PROVE  RunsAccountedFor'
<1>1. CASE Quiet
  BY <1>1 DEF Quiet, RunsAccountedFor, Unfinished, InHand
<1>2. CASE StartRun
  <2>1. /\ work.stage = "idle" /\ work'.stage = "started" /\ faults' = faults
        /\ runs' = Append(runs, [status |-> "RUNNING", mismatches |-> 0])
    BY <1>2 DEF StartRun, Idle
  <2>2. /\ Len(runs') = Len(runs) + 1
        /\ DOMAIN runs' = (DOMAIN runs) \cup {Len(runs')}
        /\ Len(runs') \notin DOMAIN runs
        /\ \A r \in DOMAIN runs : runs'[r] = runs[r]
    BY <2>1 DEF TypeOK
  <2>3. Unfinished' = Unfinished
    BY <2>1, <2>2 DEF Unfinished, InHand
  <2> QED BY <2>1, <2>3 DEF RunsAccountedFor
<1>3. CASE Complete
  <2>1. /\ work.stage # "idle" /\ work'.stage = "idle" /\ faults' = faults
        /\ Len(runs) \in DOMAIN runs
    BY <1>3 DEF Complete, Idle, TypeOK
  <2>2. /\ DOMAIN runs' = DOMAIN runs
        /\ runs'[Len(runs)].status \in {"PASSED", "FAILED"}
        /\ \A r \in DOMAIN runs \ {Len(runs)} : runs'[r] = runs[r]
    BY <1>3, <2>1 DEF Complete, TypeOK
  <2>3. Unfinished' = Unfinished
    BY <2>1, <2>2 DEF Unfinished, InHand
  <2> QED BY <2>1, <2>3 DEF RunsAccountedFor
<1>4. CASE DatabaseFails
  BY <1>4, FailureAccounted DEF DatabaseFails, Fault, Idle
<1>5. CASE PythonFails
  <2>1. /\ work.stage # "idle" /\ work'.stage = "idle" /\ faults' = faults + 1
        /\ runs' = [runs EXCEPT ![Len(runs)].status = "ERROR"]
    BY <1>5 DEF PythonFails, Fault, Idle
  <2>2. /\ DOMAIN runs' = DOMAIN runs
        /\ \A r \in DOMAIN runs \ {Len(runs)} : runs'[r] = runs[r]
    BY <2>1
  <2> QED BY <2>1, <2>2, FailureAccounted
<1> QED BY <1>1, <1>2, <1>3, <1>4, <1>5, StepOfRuns

(* Runs are left RUNNING, or marked ERROR, only by failures, one by each.  *)
THEOREM RunsAreAccountedFor == Spec => []RunsAccountedFor
<1>1. Init => RunsAccountedFor
  <2> SUFFICES ASSUME Init PROVE RunsAccountedFor
    OBVIOUS
  <2>1. runs = <<>> /\ faults = 0
    BY DEF Init, ReconciliationInit
  <2>2. Unfinished = {}
    BY <2>1 DEF Unfinished
  <2> QED BY <2>1, <2>2, FS_EmptySet DEF RunsAccountedFor
<1> QED BY <1>1, RunsStep, TypeCorrect, PTL DEF Spec

(* Reports are complete; a run in hand is RUNNING, and no row is of a run  *)
(* still to come.                                                          *)
ReportsInv ==
    /\ ReportsComplete
    /\ work.stage # "idle" => runs[Len(runs)].status = "RUNNING"
    /\ \A row \in mismatches : row.run \in DOMAIN runs

LEMMA ReportsStep ==
    ASSUME TypeOK, ReportsInv, [Next]_vars
    PROVE  ReportsInv'
<1>1. CASE Quiet
  BY <1>1 DEF Quiet, ReportsInv, ReportsComplete, RowsOfRun
<1>2. CASE StartRun
  <2>1. /\ runs' = Append(runs, [status |-> "RUNNING", mismatches |-> 0])
        /\ mismatches' = mismatches
    BY <1>2 DEF StartRun
  <2>2. /\ Len(runs') = Len(runs) + 1
        /\ DOMAIN runs' = (DOMAIN runs) \cup {Len(runs')}
        /\ Len(runs') \notin DOMAIN runs
        /\ \A r \in DOMAIN runs : runs'[r] = runs[r]
        /\ runs'[Len(runs')].status = "RUNNING"
    BY <2>1 DEF TypeOK
  <2>3. {row \in mismatches' : row.run = Len(runs')} = {}
    BY <2>1, <2>2 DEF ReportsInv
  <2>4. \A row \in mismatches' : row.run \in DOMAIN runs'
    BY <2>1, <2>2 DEF ReportsInv
  <2>5. \A r \in DOMAIN runs :
            /\ runs'[r].status \in {"PASSED", "FAILED"} =>
                   /\ runs'[r].mismatches
                      = Cardinality({row \in mismatches' : row.run = r})
                   /\ (runs'[r].status = "PASSED")
                      <=> ({row \in mismatches' : row.run = r} = {})
            /\ runs'[r].status = "RUNNING" =>
                   {row \in mismatches' : row.run = r} = {}
    BY <2>1, <2>2 DEF ReportsInv, ReportsComplete, RowsOfRun
  <2>6. ReportsComplete'
    BY <2>2, <2>3, <2>5 DEF ReportsComplete, RowsOfRun
  <2> QED BY <2>2, <2>4, <2>6 DEF ReportsInv
<1>3. ASSUME work.stage # "idle",
             work'.stage = "idle",
             DOMAIN runs' = DOMAIN runs,
             \A r \in DOMAIN runs \ {Len(runs)} : runs'[r] = runs[r],
             NEW found \in SUBSET Mismatch,
             mismatches' = mismatches \cup Recorded(found),
             \/ /\ runs'[Len(runs)].status \in {"PASSED", "FAILED"}
                /\ runs'[Len(runs)].mismatches = Cardinality(found)
                /\ (runs'[Len(runs)].status = "PASSED") <=> (found = {})
             \/ runs'[Len(runs)].status = "RUNNING" /\ found = {}
             \/ runs'[Len(runs)].status = "ERROR"
      PROVE  ReportsInv'
  <2>1. Len(runs) \in DOMAIN runs /\ runs[Len(runs)].status = "RUNNING"
    BY <1>3 DEF TypeOK, ReportsInv
  <2>2. {row \in mismatches : row.run = Len(runs)} = {}
    BY <2>1 DEF ReportsInv, ReportsComplete, RowsOfRun
  <2>3. {row \in mismatches' : row.run = Len(runs)} = Recorded(found)
    BY <1>3, <2>2 DEF Recorded
  <2>4. \A r \in DOMAIN runs \ {Len(runs)} :
            {row \in mismatches' : row.run = r}
            = {row \in mismatches : row.run = r}
    BY <1>3 DEF Recorded
  <2>5. /\ Cardinality(Recorded(found)) = Cardinality(found)
        /\ Recorded(found) = {} <=> found = {}
    BY RecordedCardinality DEF Recorded
  <2>6. \A row \in mismatches' : row.run \in DOMAIN runs'
    BY <1>3, <2>1 DEF ReportsInv, Recorded
  <2>7. \A r \in DOMAIN runs \ {Len(runs)} :
            /\ runs'[r].status \in {"PASSED", "FAILED"} =>
                   /\ runs'[r].mismatches
                      = Cardinality({row \in mismatches' : row.run = r})
                   /\ (runs'[r].status = "PASSED")
                      <=> ({row \in mismatches' : row.run = r} = {})
            /\ runs'[r].status = "RUNNING" =>
                   {row \in mismatches' : row.run = r} = {}
    BY <1>3, <2>4 DEF ReportsInv, ReportsComplete, RowsOfRun
  <2>8. /\ runs'[Len(runs)].status \in {"PASSED", "FAILED"} =>
               /\ runs'[Len(runs)].mismatches = Cardinality(Recorded(found))
               /\ (runs'[Len(runs)].status = "PASSED")
                  <=> (Recorded(found) = {})
        /\ runs'[Len(runs)].status = "RUNNING" => Recorded(found) = {}
    BY <1>3, <2>5
  <2>9. ReportsComplete'
    <3> SUFFICES ASSUME NEW r \in DOMAIN runs
                 PROVE  /\ runs'[r].status \in {"PASSED", "FAILED"} =>
                             /\ runs'[r].mismatches = Cardinality(
                                   {row \in mismatches' : row.run = r})
                             /\ (runs'[r].status = "PASSED") <=>
                                   ({row \in mismatches' : row.run = r} = {})
                        /\ runs'[r].status = "RUNNING" =>
                               {row \in mismatches' : row.run = r} = {}
      BY <1>3 DEF ReportsComplete, RowsOfRun
    <3>1. CASE r = Len(runs)
      BY <2>3, <2>8, <3>1
    <3>2. CASE r # Len(runs)
      BY <2>7, <3>2
    <3> QED BY <3>1, <3>2
  <2> QED BY <1>3, <2>6, <2>9 DEF ReportsInv
<1>4. Recorded({}) = {} /\ Idle.stage = "idle"
  BY DEF Recorded, Idle
<1>5. CASE Complete
  <2>1. Len(runs) \in DOMAIN runs /\ work.found \in SUBSET Mismatch
    BY <1>5 DEF Complete, TypeOK
  <2>2. /\ work.stage # "idle" /\ work'.stage = "idle"
        /\ mismatches' = mismatches \cup Recorded(work.found)
        /\ runs' = [runs EXCEPT ![Len(runs)] =
                       [status |-> IF work.found = {} THEN "PASSED"
                                   ELSE "FAILED",
                        mismatches |-> Cardinality(work.found)]]
    BY <1>4, <1>5 DEF Complete
  <2>3. /\ DOMAIN runs' = DOMAIN runs
        /\ \A r \in DOMAIN runs \ {Len(runs)} : runs'[r] = runs[r]
        /\ runs'[Len(runs)].status \in {"PASSED", "FAILED"}
        /\ runs'[Len(runs)].mismatches = Cardinality(work.found)
        /\ (runs'[Len(runs)].status = "PASSED") <=> (work.found = {})
    BY <2>1, <2>2
  <2> QED BY <1>3, <2>1, <2>2, <2>3
<1>6. CASE DatabaseFails
  <2>1. /\ work.stage # "idle" /\ work'.stage = "idle" /\ runs' = runs
        /\ mismatches' = mismatches \cup Recorded({})
    BY <1>4, <1>6 DEF DatabaseFails
  <2>2. runs'[Len(runs)].status = "RUNNING"
    BY <2>1 DEF ReportsInv
  <2> QED BY <1>3, <2>1, <2>2
<1>7. CASE PythonFails
  <2>1. PICK inserted \in SUBSET work.found :
            mismatches' = mismatches \cup Recorded(inserted)
    BY <1>7 DEF PythonFails
  <2>2. /\ work.stage # "idle" /\ work'.stage = "idle"
        /\ runs' = [runs EXCEPT ![Len(runs)].status = "ERROR"]
        /\ runs # <<>> /\ runs \in Seq(RunRow)
    BY <1>4, <1>7 DEF PythonFails, TypeOK
  <2>3. /\ DOMAIN runs' = DOMAIN runs
        /\ \A r \in DOMAIN runs \ {Len(runs)} : runs'[r] = runs[r]
        /\ runs'[Len(runs)].status = "ERROR"
    BY <2>2, MarkedError
  <2>4. inserted \in SUBSET Mismatch
    BY <2>1 DEF TypeOK
  <2> QED BY <1>3, <2>1, <2>2, <2>3, <2>4
<1> QED BY <1>1, <1>2, <1>5, <1>6, <1>7, StepOfRuns

LEMMA ReportsInvariant == Spec => []ReportsInv
<1>1. Init => ReportsInv
  BY DEF Init, ReconciliationInit, Idle, ReportsInv, ReportsComplete
<1> QED BY <1>1, ReportsStep, TypeCorrect, PTL DEF Spec

(* What a run reports is what it recorded.                                 *)
THEOREM ReportsAreComplete == Spec => []ReportsComplete
<1>1. ReportsInv => ReportsComplete
  BY DEF ReportsInv
<1> QED BY <1>1, ReportsInvariant, PTL

-------------------------------------------------------------------------------
(* What a run may report                                                   *)

(* What the database never commits.                                        *)
TablesInv ==
    /\ \A j \in Journals : JournalBalances(journal, j)
    /\ \A s \in Settlements :
          histories[s] # <<>> => Head(histories[s]) = "PENDING"

(* What the run in hand has found, by what it has read.                    *)
FoundInComparison(mismatch) ==
    \E key \in Keys : /\ mismatch = BalanceMismatch(key)
                      /\ MovedMeanwhile(key)

FoundInCount(mismatch) ==
    \E key \in Keys : /\ mismatch = NegativeAsset(key)
                      /\ key.code \in Assets
                      /\ Negative(work.counted, key)

FoundInv ==
    /\ work.stage \in {"idle", "started", "summed", "replayed"} =>
           work.found = {}
    /\ work.stage = "compared" =>
           \A m \in work.found : FoundInComparison(m)
    /\ work.stage \in {"counted", "checked"} =>
           /\ \A m \in work.found : FoundInComparison(m) \/ FoundInCount(m)
           /\ \A key \in Keys :
                 (key.code \in Assets /\ Negative(work.counted, key)) =>
                     NegativeAsset(key) \in work.found

AlarmInv == TablesInv /\ FoundInv

LEMMA TablesInit == Init => TablesInv
  BY DEF Init, LedgerInit, ReconciliationInit, TablesInv, JournalBalances,
         LegsOf, Debits, Credits

LEMMA TablesStep ==
    ASSUME TypeOK, TablesInv, [Next]_vars
    PROVE  TablesInv'
<1>1. CASE LedgerStep
  <2>1. PICK j \in Journals, debit \in Keys, credit \in Keys,
              amount \in Amounts : Post(j, debit, credit, amount)
    BY <1>1 DEF LedgerStep, LedgerNext
  <2>2. JournalBalances(journal', j)
    BY <2>1 DEF Post
  <2>3. ASSUME NEW i \in Journals, i # j
        PROVE  LegsOf(journal', i) = LegsOf(journal, i)
    BY <2>1, <2>3 DEF Post, LegsOf, Leg
  <2>4. \A i \in Journals : JournalBalances(journal', i)
    BY <2>2, <2>3 DEF TablesInv, JournalBalances
  <2>5. histories' = histories
    BY <1>1 DEF LedgerStep
  <2> QED BY <2>4, <2>5 DEF TablesInv
<1>2. CASE SettlementStep
  <2>1. PICK s \in Settlements, status \in AllStates : AppendEvent(s, status)
    BY <1>2 DEF SettlementStep
  <2>2. \A t \in Settlements :
            histories'[t] # <<>> => Head(histories'[t]) = "PENDING"
    <3>1. CASE histories[s] = <<>>
      <4>1. histories'[s] = <<"PENDING">>
        BY <2>1, <3>1 DEF AppendEvent, TypeOK
      <4>2. \A t \in Settlements \ {s} : histories'[t] = histories[t]
        BY <2>1 DEF AppendEvent, TypeOK
      <4> QED BY <4>1, <4>2 DEF TablesInv
    <3>2. CASE histories[s] # <<>>
      <4>1. Head(histories'[s]) = Head(histories[s])
        BY <2>1, <3>2 DEF AppendEvent, TypeOK
      <4>2. \A t \in Settlements \ {s} : histories'[t] = histories[t]
        BY <2>1 DEF AppendEvent, TypeOK
      <4> QED BY <3>2, <4>1, <4>2 DEF TablesInv
    <3> QED BY <3>1, <3>2
  <2>3. journal' = journal
    BY <2>1 DEF AppendEvent
  <2> QED BY <2>2, <2>3 DEF TablesInv
<1>3. CASE ComplianceStep \/ ReconciliationStep \/ UNCHANGED vars
  <2>1. journal' = journal /\ histories' = histories
    BY <1>3 DEF ComplianceStep, ReconciliationStep, ReconcilerStep, StartRun,
                SumJournals, Replay, CompareWithView, CountNegative,
                CheckHistories, Complete, DatabaseFails, PythonFails, vars
  <2> QED BY <2>1 DEF TablesInv
<1> QED BY <1>1, <1>2, <1>3 DEF Next

LEMMA FoundStep ==
    ASSUME TypeOK, AlarmInv, [Next]_vars
    PROVE  FoundInv'
<1> USE DEF AlarmInv
<1>1. CASE LedgerStep \/ ComplianceStep \/ SettlementStep \/ UNCHANGED vars
  <2>1. work' = work
    BY <1>1 DEF LedgerStep, ComplianceStep, SettlementStep, AppendEvent,
                reconcilerVars, vars
  <2> QED BY <2>1 DEF FoundInv, FoundInComparison, FoundInCount, MovedMeanwhile
<1>2. CASE StartRun \/ Complete \/ DatabaseFails \/ PythonFails
  <2>1. work'.stage \in {"idle", "started"} /\ work'.found = {}
    BY <1>2 DEF StartRun, Complete, DatabaseFails, PythonFails, Idle
  <2> QED BY <2>1 DEF FoundInv
<1>3. CASE SumJournals
  <2>1. work'.stage = "summed" /\ work'.found = {}
    BY <1>3 DEF SumJournals, TypeOK, TablesInv
  <2> QED BY <2>1 DEF FoundInv
<1>4. CASE Replay
  <2>1. work'.stage = "replayed" /\ work'.found = {}
    BY <1>4 DEF Replay, TypeOK, FoundInv
  <2> QED BY <2>1 DEF FoundInv
<1>5. CASE CompareWithView
  <2>1. /\ work'.stage = "compared" /\ work'.viewed = journal
        /\ work'.replayed = work.replayed
        /\ work'.found = {BalanceMismatch(key) : key \in
                             {k \in Keys : Differ(work.replayed, journal, k)}}
    BY <1>5 DEF CompareWithView, TypeOK, FoundInv
  <2>2. \A m \in work'.found : FoundInComparison(m)'
    BY <2>1, DifferMeansMoved DEF FoundInComparison, MovedMeanwhile
  <2> QED BY <2>1, <2>2 DEF FoundInv
<1>6. CASE CountNegative
  <2>1. /\ work'.stage = "counted" /\ work'.counted = journal
        /\ work'.viewed = work.viewed /\ work'.replayed = work.replayed
        /\ work'.found = work.found \cup {NegativeAsset(key) : key \in
                             {k \in Keys : /\ k.code \in Assets
                                           /\ Negative(journal, k)}}
    BY <1>6 DEF CountNegative, TypeOK
  <2>2. \A m \in work.found : FoundInComparison(m)
    BY <1>6 DEF CountNegative, FoundInv
  <2>3. \A m \in work'.found : FoundInComparison(m)' \/ FoundInCount(m)'
    BY <2>1, <2>2 DEF FoundInComparison, FoundInCount, MovedMeanwhile
  <2>4. \A key \in Keys :
            (key.code \in Assets /\ Negative(work'.counted, key)) =>
                NegativeAsset(key) \in work'.found
    BY <2>1
  <2> QED BY <2>1, <2>3, <2>4 DEF FoundInv
<1>7. CASE CheckHistories
  <2>1. /\ work'.stage = "checked" /\ work'.found = work.found
        /\ work'.counted = work.counted /\ work'.viewed = work.viewed
        /\ work'.replayed = work.replayed /\ work.stage = "counted"
    BY <1>7 DEF CheckHistories, TypeOK, TablesInv
  <2> QED BY <2>1 DEF FoundInv, FoundInComparison, FoundInCount, MovedMeanwhile
<1> QED BY <1>1, <1>2, <1>3, <1>4, <1>5, <1>6, <1>7
        DEF Next, ReconciliationStep, ReconcilerStep

LEMMA AlarmInvariant == Spec => []AlarmInv
<1>1. Init => FoundInv
  BY DEF Init, ReconciliationInit, Idle, FoundInv
<1> QED BY <1>1, TablesInit, TablesStep, FoundStep, TypeCorrect, PTL
        DEF Spec, AlarmInv

(* A mismatch that is recorded was found by the run in hand.               *)
LEMMA NewlyRecordedFound ==
    ASSUME TypeOK, [Next]_vars, NEW m \in NewlyRecorded
    PROVE  m \in work.found /\ work.stage = "checked"
<1>1. PICK row \in mismatches' \ mismatches : row.mismatch = m
  BY DEF NewlyRecorded
<1>2. Complete \/ PythonFails
  BY <1>1, StepOfRuns DEF Quiet, StartRun, DatabaseFails
<1>3. CASE Complete
  BY <1>1, <1>3 DEF Complete, Recorded
<1>4. CASE PythonFails
  <2>1. PICK inserted \in SUBSET work.found :
            /\ work.stage # "checked" => inserted = {}
            /\ mismatches' = mismatches \cup Recorded(inserted)
    BY <1>4 DEF PythonFails
  <2> QED BY <1>1, <2>1 DEF Recorded
<1> QED BY <1>2, <1>3, <1>4

(* Every alarm has one of the causes that AlarmsExplained names.           *)
THEOREM AlarmsAreExplained == Spec => AlarmsExplained
<1>1. ASSUME TypeOK, AlarmInv, [Next]_vars
      PROVE  \A m \in NewlyRecorded : Explained(m)
  <2> TAKE m \in NewlyRecorded
  <2>1. m \in work.found /\ work.stage = "checked"
    BY <1>1, NewlyRecordedFound
  <2>2. FoundInComparison(m) \/ FoundInCount(m)
    BY <1>1, <2>1 DEF AlarmInv, FoundInv
  <2>3. CASE FoundInComparison(m)
    BY <2>3 DEF FoundInComparison, Explained
  <2>4. CASE FoundInCount(m)
    <3>1. PICK key \in Keys : /\ m = NegativeAsset(key)
                             /\ key.code \in Assets
                             /\ Negative(work.counted, key)
      BY <2>4 DEF FoundInCount
    <3>2. Negative(journal, key) \/ PostedSinceCount(key)
      BY <3>1, BalanceOfRows DEF PostedSinceCount
    <3> QED BY <3>1, <3>2 DEF Explained
  <2> QED BY <2>2, <2>3, <2>4
<1>2. (\A m \in NewlyRecorded : Explained(m)) =>
          [\A mismatch \in NewlyRecorded : Explained(mismatch)]_reconcilerVars
  OBVIOUS
<1> QED BY <1>1, <1>2, AlarmInvariant, TypeCorrect, PTL
        DEF Spec, AlarmsExplained

(* A run that passes has seen no asset account below zero, and none is but *)
(* for what was posted since.                                              *)
THEOREM PassedRunsSawNoNegative == Spec => PassedMeansNoNegative
<1>1. ASSUME TypeOK, AlarmInv, [Next]_vars
      PROVE  Passes =>
                \A key \in Keys :
                    (key.code \in Assets /\ Negative(journal, key)) =>
                        PostedSinceCount(key)
  <2> SUFFICES ASSUME Passes,
                      NEW key \in Keys, key.code \in Assets,
                      Negative(journal, key), ~ PostedSinceCount(key)
               PROVE  FALSE
    OBVIOUS
  <2>1. PICK r \in DOMAIN runs : /\ runs[r].status = "RUNNING"
                                /\ runs'[r].status = "PASSED"
    BY DEF Passes
  <2>2. Complete
    <3>1. ~ Quiet /\ ~ DatabaseFails
      BY <2>1 DEF Quiet, DatabaseFails
    <3>2. ~ StartRun
      BY <1>1, <2>1 DEF StartRun, TypeOK
    <3>3. ~ PythonFails
      <4> SUFFICES ASSUME PythonFails PROVE FALSE
        OBVIOUS
      <4>1. /\ runs \in Seq(RunRow) /\ runs # <<>>
            /\ runs' = [runs EXCEPT ![Len(runs)].status = "ERROR"]
        BY <1>1 DEF PythonFails, TypeOK
      <4> QED BY <2>1, <4>1, MarkedError
    <3> QED BY <1>1, <3>1, <3>2, <3>3, StepOfRuns
  <2>3. work.stage = "checked" /\ work.found = {}
    <3>1. /\ work.stage = "checked"
          /\ runs' = [runs EXCEPT ![Len(runs)] =
                         [status |-> IF work.found = {} THEN "PASSED"
                                     ELSE "FAILED",
                          mismatches |-> Cardinality(work.found)]]
      BY <2>2 DEF Complete
    <3> QED BY <2>1, <3>1
  <2>4. ~ Negative(work.counted, key)
    BY <1>1, <2>3 DEF AlarmInv, FoundInv
  <2> QED BY <2>4, BalanceOfRows DEF PostedSinceCount
<1>2. (Passes =>
          \A key \in Keys :
              (key.code \in Assets /\ Negative(journal, key)) =>
                  PostedSinceCount(key))
      => [Passes =>
            \A key \in Keys :
                (key.code \in Assets /\ Negative(journal, key)) =>
                    PostedSinceCount(key)]_reconcilerVars
  OBVIOUS
<1> QED BY <1>1, <1>2, AlarmInvariant, TypeCorrect, PTL
        DEF Spec, PassedMeansNoNegative

-------------------------------------------------------------------------------
(* The audit trail and the screenings                                      *)

(* A row that is added is one more resource of its action.                 *)
LEMMA AuditAdds ==
    ASSUME NEW action, NEW resource, Audit(action, resource)
    PROVE  /\ Audited(action)' = Audited(action) \cup {resource}
           /\ \A other : other # action => Audited(other)' = Audited(other)
<1> DEFINE rows(a) == {row \in audits : row.action = a}
<1>1. audits' = audits \cup {AuditRow(action, resource)}
  BY DEF Audit
<1>2. {row \in audits' : row.action = action}
      = rows(action) \cup {AuditRow(action, resource)}
  BY <1>1 DEF AuditRow
<1>3. AuditRow(action, resource).resource = resource
  BY DEF AuditRow
<1>4. Audited(action)' = Audited(action) \cup {resource}
  BY <1>2, <1>3 DEF Audited
<1>5. \A other : other # action => Audited(other)' = Audited(other)
  <2> TAKE other
  <2> SUFFICES ASSUME other # action PROVE Audited(other)' = Audited(other)
    OBVIOUS
  <2>1. {row \in audits' : row.action = other} = rows(other)
    BY <1>1 DEF AuditRow
  <2> QED BY <2>1 DEF Audited
<1> QED BY <1>4, <1>5

Journalled == {row.journal : row \in journal}
Screened == {row.id : row \in screenings}
Completed == {r \in DOMAIN runs : runs[r].status \in {"PASSED", "FAILED"}}

LEMMA AuditStep ==
    ASSUME TypeOK, ReportsInv, AuditTrailComplete, [Next]_vars
    PROVE  AuditTrailComplete'
<1> USE DEF AuditTrailComplete
<1>1. CASE LedgerStep
  <2>1. PICK j \in Journals, debit \in Keys, credit \in Keys,
              amount \in Amounts : Post(j, debit, credit, amount)
    BY <1>1 DEF LedgerStep, LedgerNext
  <2>2. /\ Audited("journal.create")' = Audited("journal.create") \cup {j}
        /\ Audited("compliance.screen")' = Audited("compliance.screen")
        /\ Audited("reconciliation.complete")'
           = Audited("reconciliation.complete")
    <3>1. Audit("journal.create", j)
      BY <2>1 DEF Post
    <3> QED BY <3>1, AuditAdds
  <2>3. Journalled' = Journalled \cup {j}
    <3> DEFINE d == Leg(j, "debit", debit, amount)
               c == Leg(j, "credit", credit, amount)
    <3>1. journal' = journal \cup {d, c}
      BY <2>1 DEF Post
    <3>2. d.journal = j /\ c.journal = j
      BY DEF Leg
    <3> HIDE DEF d, c
    <3> QED BY <3>1, <3>2 DEF Journalled
  <2>4. screenings' = screenings /\ runs' = runs
    BY <1>1 DEF LedgerStep, reconcilerVars
  <2> QED BY <2>2, <2>3, <2>4 DEF Journalled
<1>2. CASE ComplianceStep
  <2>1. PICK id \in Screenings, entity \in Entities, type \in ScreeningTypes :
            Screen(id, entity, type)
    BY <1>2 DEF ComplianceStep, ComplianceNext
  <2>2. /\ Audited("compliance.screen")'
           = Audited("compliance.screen") \cup {id}
        /\ Audited("journal.create")' = Audited("journal.create")
        /\ Audited("reconciliation.complete")'
           = Audited("reconciliation.complete")
    <3>1. Audit("compliance.screen", id)
      BY <2>1 DEF Screen
    <3> QED BY <3>1, AuditAdds
  <2>3. Screened' = Screened \cup {id}
    <3> DEFINE new == [id |-> id, entity |-> entity, type |-> type,
                       is_cleared |-> Cleared(entity, type)]
    <3>1. screenings' = screenings \cup {new}
      BY <2>1 DEF Screen
    <3>2. new.id = id
      OBVIOUS
    <3> HIDE DEF new
    <3> QED BY <3>1, <3>2 DEF Screened
  <2>4. journal' = journal /\ runs' = runs
    BY <1>2 DEF ComplianceStep, reconcilerVars
  <2> QED BY <2>2, <2>3, <2>4 DEF Screened
<1>3. CASE ReconciliationStep /\ Complete
  <2>1. /\ Len(runs) \in DOMAIN runs
        /\ runs' = [runs EXCEPT ![Len(runs)] =
                       [status |-> IF work.found = {} THEN "PASSED"
                                   ELSE "FAILED",
                        mismatches |-> Cardinality(work.found)]]
    BY <1>3 DEF Complete, TypeOK
  <2>2. Completed' = Completed \cup {Len(runs)}
    BY <2>1 DEF Completed
  <2>3. /\ Audited("reconciliation.complete")'
           = Audited("reconciliation.complete") \cup {Len(runs)}
        /\ Audited("journal.create")' = Audited("journal.create")
        /\ Audited("compliance.screen")' = Audited("compliance.screen")
    BY <1>3, AuditAdds DEF Complete
  <2>4. journal' = journal /\ screenings' = screenings
    BY <1>3 DEF Complete, ReconciliationStep
  <2> QED BY <2>2, <2>3, <2>4 DEF Completed
<1>4. CASE ReconciliationStep /\ ~ Complete
  <2>1. UNCHANGED <<journal, screenings, audits>>
    BY <1>4 DEF ReconciliationStep, ReconcilerStep, StartRun, SumJournals,
                Replay, CompareWithView, CountNegative, CheckHistories,
                DatabaseFails, PythonFails
  <2>2. Completed' = Completed
    <3>1. CASE StartRun
      <4>1. runs' = Append(runs, [status |-> "RUNNING", mismatches |-> 0])
        BY <3>1 DEF StartRun
      <4>2. /\ DOMAIN runs' = (DOMAIN runs) \cup {Len(runs')}
            /\ \A r \in DOMAIN runs : runs'[r] = runs[r]
            /\ runs'[Len(runs')].status = "RUNNING"
        BY <4>1 DEF TypeOK
      <4> QED BY <4>2 DEF Completed
    <3>2. CASE PythonFails
      <4>1. /\ runs \in Seq(RunRow) /\ runs # <<>>
            /\ runs' = [runs EXCEPT ![Len(runs)].status = "ERROR"]
            /\ runs[Len(runs)].status = "RUNNING"
        BY <3>2 DEF PythonFails, TypeOK, ReportsInv
      <4>2. /\ DOMAIN runs' = DOMAIN runs
            /\ runs'[Len(runs)].status = "ERROR"
            /\ \A r \in DOMAIN runs \ {Len(runs)} : runs'[r] = runs[r]
        BY <4>1, MarkedError
      <4> QED BY <4>1, <4>2 DEF Completed
    <3>3. CASE runs' = runs
      BY <3>3 DEF Completed
    <3> QED BY <1>4, <3>1, <3>2, <3>3
            DEF ReconciliationStep, ReconcilerStep, SumJournals, Replay,
                CompareWithView, CountNegative, CheckHistories, DatabaseFails
  <2>3. \A action : Audited(action)' = Audited(action)
    BY <2>1 DEF Audited
  <2> QED BY <2>1, <2>2, <2>3 DEF Completed
<1>5. CASE SettlementStep \/ UNCHANGED vars
  <2>1. UNCHANGED <<journal, screenings, audits, runs>>
    BY <1>5 DEF SettlementStep, AppendEvent, reconcilerVars, vars
  <2>2. \A action : Audited(action)' = Audited(action)
    BY <2>1 DEF Audited
  <2> QED BY <2>1, <2>2
<1> QED BY <1>1, <1>2, <1>3, <1>4, <1>5 DEF Next

(* Everything that was committed, and nothing else, has its audit row.     *)
THEOREM AuditTrailIsComplete == Spec => []AuditTrailComplete
<1>1. Init => AuditTrailComplete
  BY DEF Init, LedgerInit, ComplianceInit, ReconciliationInit, Audited,
         AuditTrailComplete
<1> QED BY <1>1, AuditStep, ReportsInvariant, TypeCorrect, PTL DEF Spec

(* The decision of a screening is what the lists say, and they never       *)
(* change.                                                                 *)
Decided ==
    \A row \in screenings : row.is_cleared = Cleared(row.entity, row.type)

LEMMA DecidedStep ==
    ASSUME TypeOK, Decided, [Next]_vars
    PROVE  Decided'
<1>1. CASE ComplianceStep
  BY <1>1 DEF ComplianceStep, ComplianceNext, Screen, Decided
<1>2. CASE LedgerStep \/ SettlementStep \/ ReconciliationStep
             \/ UNCHANGED vars
  BY <1>2 DEF LedgerStep, SettlementStep, ReconciliationStep, vars, Decided
<1> QED BY <1>1, <1>2 DEF Next

(* Decisions about one entity agree.                                       *)
THEOREM ScreeningsDoAgree == Spec => []ScreeningsAgree
<1>1. Init => Decided
  BY DEF Init, ComplianceInit, Decided
<1>2. TypeOK /\ Decided => ScreeningsAgree
  <2> SUFFICES ASSUME TypeOK, Decided,
                      NEW one \in screenings, NEW other \in screenings,
                      Upper[one.entity] = Upper[other.entity],
                      one.type # "AML",
                      \/ one.type = other.type
                      \/ one.type = "KYC" /\ other.type # "AML",
                      one.is_cleared
               PROVE  other.is_cleared
    BY DEF ScreeningsAgree
  <2>1. one.type \in ScreeningTypes /\ other.type \in ScreeningTypes
    BY DEF TypeOK, ScreeningRow
  <2>2. Cleared(one.entity, one.type)
    BY DEF Decided
  <2>3. Cleared(other.entity, other.type)
    BY <2>1, <2>2 DEF Cleared, ScreeningTypes
  <2> QED BY <2>3 DEF Decided
<1> QED BY <1>1, <1>2, DecidedStep, TypeCorrect, PTL DEF Spec

===============================================================================
