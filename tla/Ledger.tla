-------------------------------- MODULE Ledger --------------------------------
(***************************************************************************)
(* ledger-service: balanced postings into the append-only table            *)
(* journal_entries, and the balances that are derived from it.             *)
(*                                                                         *)
(* There is one currency: both legs of a posting carry the posting's, and  *)
(* every sum of a balance is taken within one.                             *)
(***************************************************************************)
EXTENDS AuditTrail, Integers, FiniteSets, Functions

CONSTANTS
    Journals,      \* journal ids (fresh uuids)
    Accounts,      \* the rows of accounts
    Codes,         \* the codes of chart_of_accounts
    DebitNormal,   \* those with normal_balance = 'debit'
    Assets,        \* those with account_type = 'asset'
    Amounts,       \* amounts a client may post
    NaN            \* NUMERIC has one value that is not a number

(* A table holds finitely many rows.                                       *)
ASSUME TablesAssumption ==
    IsFiniteSet(Journals) /\ IsFiniteSet(Accounts) /\ IsFiniteSet(Codes)

(* Amounts are numbers of the smallest unit of NUMERIC(38,18).             *)
ASSUME AmountsAssumption == Amounts \ {NaN} \subseteq Int /\ NaN \notin Int

VARIABLE journal   \* rows of journal_entries

(* What a balance belongs to: GROUP BY account_id, coa_code.               *)
Keys == [account : Accounts, code : Codes]

(* A row has a debit or a credit and never both (chk_debit_xor_credit).    *)
Row ==
    [journal : Journals, side : {"debit", "credit"}, key : Keys,
     amount : Amounts]

Leg(j, side, key, amount) ==
    [journal |-> j, side |-> side, key |-> key, amount |-> amount]

-------------------------------------------------------------------------------
(* The sums PostgreSQL computes over sets of rows.                         *)

HasNaN(rows) == \E row \in rows : row.amount = NaN

Total(rows) ==
    IF HasNaN(rows) THEN NaN ELSE SumFunction([row \in rows |-> row.amount])

Debits(rows) == {row \in rows : row.side = "debit"}
Credits(rows) == {row \in rows : row.side = "credit"}
LegsOf(rows, j) == {row \in rows : row.journal = j}
RowsOf(rows, key) == {row \in rows : row.key = key}

(* Trigger check_journal_balance; two NaNs are equal to PostgreSQL.        *)
JournalBalances(rows, j) ==
    Total(Debits(LegsOf(rows, j))) = Total(Credits(LegsOf(rows, j)))

(* Slip: every balance is debit minus credit.                              *)
DebitBalance(rows, key) ==
    LET mine == RowsOf(rows, key)
    IN  IF HasNaN(mine)
        THEN NaN
        ELSE Total(Debits(mine)) - Total(Credits(mine))

(* Slip: GROUP BY coa_code only.                                           *)
BalanceOfCode(rows, key) ==
    LET all == {row \in rows : row.key.code = key.code}
    IN  IF HasNaN(all)
        THEN NaN
        ELSE IF key.code \in DebitNormal
             THEN Total(Debits(all)) - Total(Credits(all))
             ELSE Total(Credits(all)) - Total(Debits(all))

(* The balance of a key in the view account_balances.                      *)
Balance(rows, key) ==
    LET mine == RowsOf(rows, key)
    IN  IF HasNaN(mine)
        THEN NaN
        ELSE IF key.code \in DebitNormal
             THEN Total(Debits(mine)) - Total(Credits(mine))
             ELSE Total(Credits(mine)) - Total(Debits(mine))

(* NaN < 0 is false.                                                       *)
Negative(rows, key) ==
    /\ ~ HasNaN(RowsOf(rows, key))
    /\ Balance(rows, key) < 0

-------------------------------------------------------------------------------
LedgerInit == journal = {}

(* POST /journal: both legs and the audit row in one transaction, checked  *)
(* by the deferred trigger when it commits.  Nothing of it can be seen     *)
(* before, and a request that fails (an unknown account or code, an amount *)
(* the CHECK rejects, a lost connection) leaves nothing.  NaN > 0 is true. *)
Post(j, debit, credit, amount) ==
    LET legs == {Leg(j, "debit", debit, amount),
                 Leg(j, "credit", credit, amount)}
    IN  /\ LegsOf(journal, j) = {}
        /\ amount # NaN => amount > 0
        /\ JournalBalances(journal \cup legs, j)
        /\ journal' = journal \cup legs
        /\ Audit("journal.create", j)

(* The service takes the next request.                                     *)
LedgerNext ==
    \E j \in Journals, debit, credit \in Keys, amount \in Amounts :
        Post(j, debit, credit, amount)

-------------------------------------------------------------------------------
(* Properties                                                              *)

(* What the balances of some keys add up to.                               *)
TotalBalance(rows, keys) ==
    SumFunction([key \in keys |-> Balance(rows, key)])

(* Trial balance: as long as all amounts are numbers, the balances of the  *)
(* accounts with a debit normal balance add up to those of the others, in  *)
(* every state a reader can see.  It takes both legs in one transaction,   *)
(* the trigger and the sign rule of the view together.                     *)
TrialBalance ==
    ~ HasNaN(journal) =>
        TotalBalance(journal, {key \in Keys : key.code \in DebitNormal})
        = TotalBalance(journal, {key \in Keys : key.code \notin DebitNormal})

(* What a reader of account_balances sees.                                 *)
Register == INSTANCE AccountRegister WITH
    balance <- [key \in Keys |-> Balance(journal, key)]

(* A journal moves its amount between the balances of its two accounts,    *)
(* with the sign each code asks for, at one moment, and changes no other   *)
(* balance; nothing else changes any (ledger.py:83-119 with the view       *)
(* account_balances).                                                      *)
ImplementsRegister == Register!Spec

===============================================================================
