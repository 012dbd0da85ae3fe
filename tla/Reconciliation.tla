---------------------------- MODULE Reconciliation ----------------------------
(***************************************************************************)
(* reconciliation over the ledger it watches.                              *)
(*                                                                         *)
(* A run commits its row, makes four checks in five queries and commits    *)
(* what they found.  The transaction is READ COMMITTED: every query reads  *)
(* the journal as it is then, while ledger-service goes on posting.        *)
(***************************************************************************)
EXTENDS Ledger, SettlementStatus, Sequences

CONSTANTS
    Settlements,   \* settlement ids
    MaxEvents,     \* bound: events of a settlement
    MaxRuns,       \* bound: runs
    MaxFaults      \* bound: failures of the database and the process

ASSUME BoundAssumption ==
    IsFiniteSet(Settlements) /\ MaxRuns \in Nat /\ MaxFaults \in Nat

VARIABLES
    histories,    \* settlement_events by settlement, in order of created_at
    runs,         \* rows of reconciliation_runs, in the order they started
    mismatches,   \* rows of reconciliation_mismatches
    work,         \* the run in hand
    faults        \* failures so far

reconcilerVars == <<runs, mismatches, work, faults>>

(* A mismatch, by its type and the id of what it is about.                 *)
Unbalanced(j) == [type |-> "UNBALANCED_JOURNAL", entity |-> j]
BalanceMismatch(key) == [type |-> "BALANCE_MISMATCH", entity |-> key]
NegativeAsset(key) == [type |-> "NEGATIVE_ASSET_BALANCE", entity |-> key]
InvalidInitial(s) == [type |-> "INVALID_INITIAL_STATE", entity |-> s]

Mismatch ==
    {Unbalanced(j) : j \in Journals}
        \cup {BalanceMismatch(key) : key \in Keys}
        \cup {NegativeAsset(key) : key \in Keys}
        \cup {InvalidInitial(s) : s \in Settlements}

RunRow ==
    [status : {"RUNNING", "PASSED", "FAILED", "ERROR"}, mismatches : Nat]

RecordedRow == [run : 1 .. MaxRuns, mismatch : Mismatch]

(* `replayed', `viewed' and `counted' are the rows of the journal that the *)
(* replay, the view and the query for negative balances have read.         *)
Stages ==
    {"idle", "started", "summed", "replayed", "compared", "counted",
     "checked"}

Idle ==
    [stage |-> "idle", found |-> {}, replayed |-> {}, viewed |-> {},
     counted |-> {}]

-------------------------------------------------------------------------------
Fault ==
    /\ faults < MaxFaults
    /\ faults' = faults + 1

ReconciliationInit ==
    /\ histories = [s \in Settlements |-> <<>>]
    /\ runs = <<>>
    /\ mismatches = {}
    /\ work = Idle
    /\ faults = 0

(* Slip: the checks begin before the run has its row.                      *)
StartRunUnrecorded ==
    /\ work.stage = "idle"
    /\ Len(runs) < MaxRuns
    /\ runs' = runs
    /\ work' = [Idle EXCEPT !.stage = "started"]
    /\ UNCHANGED <<journal, audits, histories, mismatches, faults>>

(* The row of the run is committed before anything is checked.             *)
StartRun ==
    /\ work.stage = "idle"
    /\ Len(runs) < MaxRuns
    /\ runs' = Append(runs, [status |-> "RUNNING", mismatches |-> 0])
    /\ work' = [Idle EXCEPT !.stage = "started"]
    /\ UNCHANGED <<journal, audits, histories, mismatches, faults>>

(* Check 1: SUM(debit) <> SUM(credit) by journal.                          *)
SumJournals ==
    /\ work.stage = "started"
    /\ work' = [work EXCEPT
                  !.stage = "summed",
                  !.found = {Unbalanced(j) : j \in
                               {i \in Journals : ~ JournalBalances(journal, i)}}]
    /\ UNCHANGED <<journal, audits, histories, runs, mismatches, faults>>

(* Check 2 reads the journal ...                                           *)
Replay ==
    /\ work.stage = "summed"
    /\ work' = [work EXCEPT !.stage = "replayed", !.replayed = journal]
    /\ UNCHANGED <<journal, audits, histories, runs, mismatches, faults>>

(* Slip: any posting meanwhile condemns every key.                         *)
DifferAnywhere(older, newer, key) == older # newer

(* Decimal("NaN") differs from itself.                                     *)
Differ(older, newer, key) ==
    \/ HasNaN(RowsOf(newer, key))
    \/ Balance(older, key) # Balance(newer, key)

(* ... and compares it with the view, in the next query.                   *)
CompareWithView ==
    /\ work.stage = "replayed"
    /\ work' = [work EXCEPT
                  !.stage = "compared",
                  !.viewed = journal,
                  !.found = @ \cup {BalanceMismatch(key) : key \in
                        {k \in Keys : Differ(work.replayed, journal, k)}}]
    /\ UNCHANGED <<journal, audits, histories, runs, mismatches, faults>>

(* Slip: the balances of the replay are looked at again.                   *)
CountNegativeStale ==
    /\ work.stage = "compared"
    /\ work' = [work EXCEPT
                  !.stage = "counted",
                  !.counted = journal,
                  !.found = @ \cup {NegativeAsset(key) : key \in
                        {k \in Keys : /\ k.code \in Assets
                                      /\ Negative(work.replayed, k)}}]
    /\ UNCHANGED <<journal, audits, histories, runs, mismatches, faults>>

(* Check 3: negative balances of asset accounts in the view.               *)
CountNegative ==
    /\ work.stage = "compared"
    /\ work' = [work EXCEPT
                  !.stage = "counted",
                  !.counted = journal,
                  !.found = @ \cup {NegativeAsset(key) : key \in
                        {k \in Keys : /\ k.code \in Assets
                                      /\ Negative(journal, k)}}]
    /\ UNCHANGED <<journal, audits, histories, runs, mismatches, faults>>

(* Check 4: the rows without a previous one (LAG) are PENDING.             *)
CheckHistories ==
    /\ work.stage = "counted"
    /\ work' = [work EXCEPT
                  !.stage = "checked",
                  !.found = @ \cup {InvalidInitial(s) : s \in
                        {t \in Settlements : /\ histories[t] # <<>>
                                             /\ Head(histories[t]) # "PENDING"}}]
    /\ UNCHANGED <<journal, audits, histories, runs, mismatches, faults>>

Recorded(found) == {[run |-> Len(runs), mismatch |-> m] : m \in found}

(* Slip: the transaction is closed without a commit.                       *)
CompleteUncommitted ==
    /\ work.stage = "checked"
    /\ work' = Idle
    /\ UNCHANGED <<journal, audits, histories, runs, mismatches, faults>>

(* Inserts the mismatches, updates the run, which must be RUNNING still    *)
(* (guard_recon_run_update), adds the audit row and commits.               *)
Complete ==
    /\ work.stage = "checked"
    /\ runs[Len(runs)].status = "RUNNING"
    /\ runs' = [runs EXCEPT ![Len(runs)] =
                  [status |-> IF work.found = {} THEN "PASSED" ELSE "FAILED",
                   mismatches |-> Cardinality(work.found)]]
    /\ mismatches' = mismatches \cup Recorded(work.found)
    /\ Audit("reconciliation.complete", Len(runs))
    /\ work' = Idle
    /\ UNCHANGED <<journal, histories, faults>>

(* Slip: the mismatches are committed as they are found.                   *)
DatabaseFailsLate ==
    /\ work.stage # "idle"
    /\ Fault
    /\ mismatches' = mismatches \cup Recorded(work.found)
    /\ work' = Idle
    /\ UNCHANGED <<journal, audits, histories, runs>>

(* Slip: the audit row is committed apart from the run.                    *)
DatabaseFailsAudited ==
    /\ work.stage # "idle"
    /\ Fault
    /\ IF work.stage = "checked"
       THEN Audit("reconciliation.complete", Len(runs))
       ELSE UNCHANGED audits
    /\ work' = Idle
    /\ UNCHANGED <<journal, histories, runs, mismatches>>

(* A statement or the commit fails.  The handler's UPDATE fails as well,   *)
(* in the aborted transaction or on the lost connection, its exception     *)
(* ends the run, and closing the connection rolls back: the run's row      *)
(* stays RUNNING.  So it does when the process dies.                       *)
DatabaseFails ==
    /\ work.stage # "idle"
    /\ Fault
    /\ work' = Idle
    /\ UNCHANGED <<journal, audits, histories, runs, mismatches>>

(* Something else raises (reading the whole journal takes memory): the     *)
(* handler marks the run and commits, with it the mismatches inserted so   *)
(* far (of any of them: their order is not modelled), and writes no audit  *)
(* row.                                                                    *)
PythonFails ==
    /\ work.stage # "idle"
    /\ Fault
    /\ runs' = [runs EXCEPT ![Len(runs)].status = "ERROR"]
    /\ \E inserted \in SUBSET work.found :
          /\ work.stage # "checked" => inserted = {}
          /\ mismatches' = mismatches \cup Recorded(inserted)
    /\ work' = Idle
    /\ UNCHANGED <<journal, audits, histories>>

ReconcilerStep ==
    \/ StartRun
    \/ SumJournals
    \/ Replay
    \/ CompareWithView
    \/ CountNegative
    \/ CheckHistories
    \/ Complete
    \/ DatabaseFails
    \/ PythonFails

(* settlement-service commits an event its trigger accepts.                *)
AppendEvent(s, status) ==
    /\ Len(histories[s]) < MaxEvents
    /\ IF histories[s] = <<>>
       THEN status = "PENDING"
       ELSE TriggerAllows(histories[s][Len(histories[s])], status)
    /\ histories' = [histories EXCEPT ![s] = Append(@, status)]
    /\ UNCHANGED <<journal, audits, reconcilerVars>>

-------------------------------------------------------------------------------
(* Properties                                                              *)

InHand == IF work.stage = "idle" THEN {} ELSE {Len(runs)}

Unfinished ==
    {r \in DOMAIN runs \ InHand : runs[r].status \in {"RUNNING", "ERROR"}}

(* A run that is over says so, PASSED or FAILED, unless it met a failure:  *)
(* as many runs are left RUNNING or marked ERROR as there were failures,   *)
(* whatever was posted meanwhile, and the next run starts all the same.    *)
RunsAccountedFor == Cardinality(Unfinished) <= faults

RowsOfRun(r) == {row \in mismatches : row.run = r}

(* What a finished run reports is what it recorded: its count is that of   *)
(* its rows, it passed when there are none, and a run that a failure       *)
(* stopped before it was marked has left nothing of its transaction.       *)
ReportsComplete ==
    \A r \in DOMAIN runs :
        /\ runs[r].status \in {"PASSED", "FAILED"} =>
               /\ runs[r].mismatches = Cardinality(RowsOfRun(r))
               /\ (runs[r].status = "PASSED") <=> (RowsOfRun(r) = {})
        /\ runs[r].status = "RUNNING" => RowsOfRun(r) = {}

NewlyRecorded == {row.mismatch : row \in mismatches' \ mismatches}

(* Why a run may report the balance of a key: a posting to it was          *)
(* committed between the two queries, or it holds a NaN.                   *)
MovedMeanwhile(key) ==
    \/ RowsOf(work.viewed, key) # RowsOf(work.replayed, key)
    \/ HasNaN(RowsOf(work.viewed, key))

PostedSinceCount(key) == RowsOf(journal, key) # RowsOf(work.counted, key)

Explained(mismatch) ==
    \E key \in Keys :
        \/ /\ mismatch = BalanceMismatch(key)
           /\ MovedMeanwhile(key)
        \/ /\ mismatch = NegativeAsset(key)
           /\ key.code \in Assets
           /\ Negative(journal, key) \/ PostedSinceCount(key)

(* Every mismatch a run records has one of these causes: a posting between *)
(* the replay and the view, a NaN, or an asset account that is below zero  *)
(* or was posted to since.  A journal that does not balance, or a          *)
(* settlement that does not begin in PENDING, is never reported, for none  *)
(* is ever committed.                                                      *)
AlarmsExplained ==
    [][\A mismatch \in NewlyRecorded : Explained(mismatch)]_reconcilerVars

Passes == \E r \in DOMAIN runs : /\ runs[r].status = "RUNNING"
                                 /\ runs'[r].status = "PASSED"

(* A run that passes has missed an asset account that is below zero only   *)
(* when a posting to it was committed after the query that looks for them. *)
PassedMeansNoNegative ==
    [][Passes =>
         \A key \in Keys :
             (key.code \in Assets /\ Negative(journal, key)) =>
                 PostedSinceCount(key)]_reconcilerVars

===============================================================================
