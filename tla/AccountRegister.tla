---------------------------- MODULE AccountRegister ----------------------------
(***************************************************************************)
(* What the ledger promises of balances: although they are derived from an *)
(* append-only journal whenever they are read, they are those of a         *)
(* register in which every posting is written to its two accounts, in one  *)
(* step and with the sign that is normal for each.                         *)
(***************************************************************************)
EXTENDS Integers

CONSTANTS Keys, DebitNormal, Amounts, NaN

VARIABLE balance   \* the balance of every account and code

(* NUMERIC: a sum with NaN is NaN.                                         *)
Plus(a, b) == IF a = NaN \/ b = NaN THEN NaN ELSE a + b

(* What a leg adds to the balance of its key.                              *)
Change(side, key, amount) ==
    IF amount = NaN \/ (side = "debit" <=> key.code \in DebitNormal)
    THEN amount
    ELSE 0 - amount

(* An amount is positive; the two keys may be the same.                    *)
Transfer(debit, credit, amount) ==
    LET debited == [balance EXCEPT
            ![debit] = Plus(@, Change("debit", debit, amount))]
    IN  /\ amount # NaN => amount > 0
        /\ balance' = [debited EXCEPT
               ![credit] = Plus(@, Change("credit", credit, amount))]

Init == balance = [key \in Keys |-> 0]

(* A transfer that leaves every balance as it is cannot be seen.           *)
Next ==
    /\ balance' # balance
    /\ \E debit, credit \in Keys, amount \in Amounts :
          Transfer(debit, credit, amount)

Spec == Init /\ [][Next]_balance

===============================================================================
