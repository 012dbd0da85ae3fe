----------------------------- MODULE LedgerProofs -----------------------------
(***************************************************************************)
(* Lemmas about the ledger: what a sum over a finite set is, what a row    *)
(* adds to a total and to a balance, and that a posting keeps the trial    *)
(* balance.                                                                *)
(*                                                                         *)
(* The sum of the library is a recursion over the subsets of a set.  The   *)
(* lemmas reason about it by induction over those subsets, in the form     *)
(* that the strict subset ordering of a finite set is well-founded.        *)
(***************************************************************************)
EXTENDS Ledger, FiniteSetTheorems, TLAPS

-------------------------------------------------------------------------------
(* Sums over finite sets                                                   *)

(* The first element that the fold of the library takes from s.            *)
Pick(s) == CHOOSE x \in s : TRUE

(* g is, on the subsets of S, the recursion that defines the sum of f.     *)
SumRec(g, f, S) ==
    g = [s \in SUBSET S |-> IF s = {} THEN 0 ELSE f[Pick(s)] + g[s \ {Pick(s)}]]

(* The solution the library takes.                                         *)
Recursion(f, S) == CHOOSE g : SumRec(g, f, S)

(* The library's sum is the value of that solution at S.                   *)
LEMMA SumUnfold ==
    ASSUME NEW f, NEW S
    PROVE  SumFunctionOnSet(f, S) = Recursion(f, S)[S]
  BY DEF SumFunctionOnSet, FoldFunctionOnSet, MapThenFoldSet, SumRec, Pick, Recursion

(* Induction over the subsets of a finite set, in the form of a set of     *)
(* them: if any is in B then a smallest one is.                            *)
LEMMA SmallestSubset ==
    ASSUME NEW S, IsFiniteSet(S), NEW B, B \in SUBSET SUBSET S, B # {}
    PROVE  \E T \in B : \A U \in B : U \subseteq T => U = T
<1>1. IsWellFoundedOn(StrictSubsetOrdering(S), FiniteSubsetsOf(S))
  BY FS_StrictSubsetOrderingWellFounded
<1>2. B \subseteq FiniteSubsetsOf(S)
  BY FS_FiniteSubsetsOfFinite
<1>3. PICK T \in B : \A U \in B : ~ (<<U, T>> \in StrictSubsetOrdering(S))
  BY <1>1, <1>2, WFMin
<1>4. \A U \in B : U \subseteq T => U = T
  BY <1>3 DEF StrictSubsetOrdering
<1> QED BY <1>4

(* The element taken is one of the set's.                                  *)
LEMMA PickIn == ASSUME NEW s, s # {} PROVE Pick(s) \in s
  BY DEF Pick

(* The recursion at one subset.                                            *)
LEMMA RecAt ==
    ASSUME NEW f, NEW S, NEW g, SumRec(g, f, S), NEW s \in SUBSET S
    PROVE  g[s] = IF s = {} THEN 0 ELSE f[Pick(s)] + g[s \ {Pick(s)}]
  BY Zenon DEF SumRec

(* Solutions of the recursion agree where both are defined.                *)
LEMMA RecUnique ==
    ASSUME NEW f, NEW S, IsFiniteSet(S), NEW T \in SUBSET S,
           NEW g, SumRec(g, f, S), NEW h, SumRec(h, f, T)
    PROVE  \A s \in SUBSET T : g[s] = h[s]
<1> DEFINE B == {s \in SUBSET T : g[s] # h[s]}
<1> SUFFICES ASSUME B # {} PROVE FALSE
  OBVIOUS
<1>0. B \in SUBSET SUBSET S
  OBVIOUS
<1> HIDE DEF B
<1>1. PICK s \in B : \A u \in B : u \subseteq s => u = s
  BY <1>0, SmallestSubset
<1> USE DEF B
<1>2. s # {}
  BY RecAt
<1>3. Pick(s) \in s
  BY <1>2, PickIn
<1>4. s \ {Pick(s)} \notin B /\ s \ {Pick(s)} \in SUBSET T
  BY <1>1, <1>3
<1>5. g[s \ {Pick(s)}] = h[s \ {Pick(s)}]
  BY <1>4
<1>6. g[s] = h[s]
  BY <1>2, <1>5, RecAt
<1> QED BY <1>6

(* The recursion has a solution: the CHOOSE of the library finds one.      *)
LEMMA RecExists ==
    ASSUME NEW f, NEW S, IsFiniteSet(S)
    PROVE  SumRec(Recursion(f, S), f, S)
<1> DEFINE B == {T \in SUBSET S : ~ \E g : SumRec(g, f, T)}
<1>1. SUFFICES B = {}
  BY DEF Recursion
<1>2. SUFFICES ASSUME B # {} PROVE FALSE
  OBVIOUS
<1>0. B \in SUBSET SUBSET S
  OBVIOUS
<1> HIDE DEF B
<1>3. PICK T \in B : \A u \in B : u \subseteq T => u = T
  BY <1>0, <1>2, SmallestSubset
<1> USE DEF B
<1> DEFINE Sol(s) == Recursion(f, s)
           at(s) == IF s = {} THEN 0 ELSE f[Pick(s)] + Sol(s \ {Pick(s)})[s \ {Pick(s)}]
           h == [s \in SUBSET T |-> at(s)]
<1>4. ASSUME NEW s \in SUBSET T, s # T PROVE SumRec(Sol(s), f, s)
  BY <1>3, <1>4 DEF Recursion
<1>5. ASSUME NEW s \in SUBSET T, s # T PROVE Sol(s)[s] = at(s)
  <2>1. SumRec(Sol(s), f, s)
    BY <1>4, <1>5
  <2>2. Sol(s)[s] = IF s = {} THEN 0 ELSE f[Pick(s)] + Sol(s)[s \ {Pick(s)}]
    BY <2>1, RecAt
  <2>3. CASE s # {}
    <3>1. Pick(s) \in s 
      BY <2>3, PickIn
    <3> DEFINE r == s \ {Pick(s)}
    <3>2. r \in SUBSET s /\ r \in SUBSET T /\ r # T
      BY <3>1
    <3>3. SumRec(Sol(r), f, r)
      BY <1>4, <3>2
    <3>4. IsFiniteSet(s)
      BY FS_Subset
    <3>5. \A u \in SUBSET r : Sol(s)[u] = Sol(r)[u]
      BY <2>1, <3>2, <3>3, <3>4, RecUnique
    <3>6. Sol(s)[r] = Sol(r)[r]
      BY <3>5
    <3> QED BY <2>2, <2>3, <3>6
  <2> QED BY <2>2, <2>3
<1>6. ASSUME NEW s \in SUBSET T PROVE h[s] = IF s = {} THEN 0 ELSE f[Pick(s)] + h[s \ {Pick(s)}]
  <2>1. CASE s # {}
    <3>1. Pick(s) \in s /\ s \ {Pick(s)} \in SUBSET T /\ s \ {Pick(s)} # T
      BY <2>1, PickIn
    <3>2. h[s \ {Pick(s)}] = at(s \ {Pick(s)})
      BY <3>1
    <3>3. h[s \ {Pick(s)}] = Sol(s \ {Pick(s)})[s \ {Pick(s)}]
      BY <3>1, <3>2, <1>5
    <3>4. h[s] = at(s)
      OBVIOUS
    <3> QED BY <2>1, <3>3, <3>4
  <2> QED BY <2>1
<1>7. SumRec(h, f, T)
  <2> HIDE DEF at
  <2>1. h = [s \in SUBSET T |-> h[s]]
    OBVIOUS
  <2> HIDE DEF h
  <2>2. [s \in SUBSET T |-> h[s]] = [s \in SUBSET T |-> IF s = {} THEN 0 ELSE f[Pick(s)] + h[s \ {Pick(s)}]]
    BY <1>6, Zenon
  <2> QED BY <2>1, <2>2, Zenon DEF SumRec
<1> QED BY <1>3, <1>7

(* Nothing adds up to zero.                                                *)
LEMMA SumOfNone == ASSUME NEW f PROVE SumFunctionOnSet(f, {}) = 0
<1>1. SumRec(Recursion(f, {}), f, {})
  BY RecExists, FS_EmptySet
<1>2. {} \in SUBSET {}
  OBVIOUS
<1> QED BY <1>1, <1>2, RecAt, SumUnfold

(* A sum is the value of the element taken first and the sum of the rest.  *)
LEMMA SumOfSome ==
    ASSUME NEW f, NEW S, IsFiniteSet(S), S # {}
    PROVE  /\ Pick(S) \in S
           /\ SumFunctionOnSet(f, S)
                = f[Pick(S)] + SumFunctionOnSet(f, S \ {Pick(S)})
<1> DEFINE r == S \ {Pick(S)}
<1>1. Pick(S) \in S /\ r \in SUBSET S /\ IsFiniteSet(r)
  BY PickIn, FS_Subset
<1>2. SumRec(Recursion(f, S), f, S) /\ SumRec(Recursion(f, r), f, r)
  BY <1>1, RecExists
<1>3. Recursion(f, S)[S] = f[Pick(S)] + Recursion(f, S)[r]
  BY <1>2, RecAt
<1>4. \A u \in SUBSET r : Recursion(f, S)[u] = Recursion(f, r)[u]
  BY <1>1, <1>2, RecUnique
<1>5. Recursion(f, S)[r] = Recursion(f, r)[r]
  BY <1>4
<1> QED BY <1>1, <1>3, <1>5, SumUnfold

(* A sum of integers is one.                                               *)
LEMMA SumIsInt ==
    ASSUME NEW S, IsFiniteSet(S), NEW f, \A x \in S : f[x] \in Int
    PROVE  SumFunctionOnSet(f, S) \in Int
<1> DEFINE B == {T \in SUBSET S : SumFunctionOnSet(f, T) \notin Int}
<1>0. B \in SUBSET SUBSET S
  OBVIOUS
<1>1. SUFFICES ASSUME B # {} PROVE FALSE
  OBVIOUS
<1> HIDE DEF B
<1>2. PICK T \in B : \A u \in B : u \subseteq T => u = T
  BY <1>0, <1>1, SmallestSubset
<1>3. T \in SUBSET S /\ SumFunctionOnSet(f, T) \notin Int /\ IsFiniteSet(T)
  BY FS_Subset DEF B
<1>4. T # {}
  BY <1>3, SumOfNone
<1> DEFINE r == T \ {Pick(T)}
<1>5. /\ Pick(T) \in T
      /\ SumFunctionOnSet(f, T) = f[Pick(T)] + SumFunctionOnSet(f, r)
  BY <1>3, <1>4, SumOfSome
<1>6. r \in SUBSET S /\ r # T /\ r \subseteq T
  BY <1>3, <1>5
<1>7. SumFunctionOnSet(f, r) \in Int
  BY <1>2, <1>6 DEF B
<1> QED BY <1>3, <1>5, <1>7

(* A sum depends on the values at the indices that are summed only.        *)
LEMMA SumCongruence ==
    ASSUME NEW S, IsFiniteSet(S), NEW f, NEW g, \A x \in S : f[x] = g[x]
    PROVE  SumFunctionOnSet(f, S) = SumFunctionOnSet(g, S)
<1> DEFINE B == {T \in SUBSET S : SumFunctionOnSet(f, T) # SumFunctionOnSet(g, T)}
<1>0. B \in SUBSET SUBSET S
  OBVIOUS
<1>1. SUFFICES ASSUME B # {} PROVE FALSE
  OBVIOUS
<1> HIDE DEF B
<1>2. PICK T \in B : \A u \in B : u \subseteq T => u = T
  BY <1>0, <1>1, SmallestSubset
<1>3. /\ T \in SUBSET S /\ IsFiniteSet(T)
      /\ SumFunctionOnSet(f, T) # SumFunctionOnSet(g, T)
  BY FS_Subset DEF B
<1>4. T # {}
  BY <1>3, SumOfNone
<1> DEFINE r == T \ {Pick(T)}
<1>5. /\ Pick(T) \in T
      /\ SumFunctionOnSet(f, T) = f[Pick(T)] + SumFunctionOnSet(f, r)
      /\ SumFunctionOnSet(g, T) = g[Pick(T)] + SumFunctionOnSet(g, r)
  BY <1>3, <1>4, SumOfSome
<1>6. r \in SUBSET S /\ r # T /\ r \subseteq T
  BY <1>3, <1>5
<1>7. SumFunctionOnSet(f, r) = SumFunctionOnSet(g, r)
  BY <1>2, <1>6 DEF B
<1> QED BY <1>3, <1>5, <1>7

(* Any element may be taken out first.                                     *)
LEMMA SumWithout ==
    ASSUME NEW S, IsFiniteSet(S), NEW f, \A x \in S : f[x] \in Int, NEW x \in S
    PROVE  SumFunctionOnSet(f, S) = f[x] + SumFunctionOnSet(f, S \ {x})
<1> DEFINE B == {T \in SUBSET S : \E y \in T :
                   SumFunctionOnSet(f, T) # f[y] + SumFunctionOnSet(f, T \ {y})}
<1>0. B \in SUBSET SUBSET S
  OBVIOUS
<1>1. SUFFICES ASSUME B # {} PROVE FALSE
  OBVIOUS
<1> HIDE DEF B
<1>2. PICK T \in B : \A u \in B : u \subseteq T => u = T
  BY <1>0, <1>1, SmallestSubset
<1>3. T \in SUBSET S /\ IsFiniteSet(T)
  BY FS_Subset DEF B
<1>4. PICK y \in T : SumFunctionOnSet(f, T) # f[y] + SumFunctionOnSet(f, T \ {y})
  BY DEF B
<1> DEFINE p == Pick(T)
           r == T \ {p}
<1>5. /\ p \in T
      /\ SumFunctionOnSet(f, T) = f[p] + SumFunctionOnSet(f, r)
  BY <1>3, SumOfSome
<1> HIDE DEF p
<1>6. p # y
  BY <1>4, <1>5
<1>7. r \in SUBSET S /\ r # T /\ r \subseteq T /\ y \in r
  BY <1>3, <1>5, <1>6
<1>8. SumFunctionOnSet(f, r) = f[y] + SumFunctionOnSet(f, r \ {y})
  BY <1>2, <1>7 DEF B
<1> DEFINE q == T \ {y}
<1>9. q \in SUBSET S /\ q # T /\ q \subseteq T /\ p \in q
  BY <1>3, <1>5, <1>6
<1>10. SumFunctionOnSet(f, q) = f[p] + SumFunctionOnSet(f, q \ {p})
  BY <1>2, <1>9 DEF B
<1>11. r \ {y} = q \ {p} /\ IsFiniteSet(r \ {y})
  BY <1>3, FS_Subset
<1>12. SumFunctionOnSet(f, r \ {y}) \in Int /\ f[p] \in Int /\ f[y] \in Int
  BY <1>3, <1>5, <1>11, SumIsInt
<1> DEFINE z == SumFunctionOnSet(f, r \ {y})
<1>13. SumFunctionOnSet(f, T) = f[p] + (f[y] + z)
  BY <1>5, <1>8
<1>14. SumFunctionOnSet(f, q) = f[p] + z
  BY <1>10, <1>11
<1>15. z \in Int
  BY <1>12
<1>16. SumFunctionOnSet(f, T) # f[y] + SumFunctionOnSet(f, q)
  BY <1>4
<1> HIDE DEF z, q
<1> QED BY <1>12, <1>13, <1>14, <1>15, <1>16

(* The sum of a function over its domain is an integer.                    *)
LEMMA SumFunctionIsInt ==
    ASSUME NEW f, IsFiniteSet(DOMAIN f), \A x \in DOMAIN f : f[x] \in Int
    PROVE  SumFunction(f) \in Int
  BY SumIsInt DEF SumFunction

(* One more index adds its value.                                          *)
LEMMA SumWithOneMore ==
    ASSUME NEW S, IsFiniteSet(S), NEW x, x \notin S, NEW f, NEW g,
           DOMAIN f = S, DOMAIN g = S \cup {x},
           \A y \in S : f[y] = g[y], \A y \in S \cup {x} : g[y] \in Int
    PROVE  SumFunction(g) = SumFunction(f) + g[x]
<1> DEFINE T == S \cup {x}
<1>1. IsFiniteSet(T) /\ x \in T /\ T \ {x} = S
  BY FS_AddElement
<1>2. SumFunctionOnSet(g, T) = g[x] + SumFunctionOnSet(g, S)
  BY <1>1, SumWithout
<1>3. SumFunctionOnSet(g, S) = SumFunctionOnSet(f, S)
  BY SumCongruence
<1>4. SumFunctionOnSet(g, S) \in Int /\ g[x] \in Int
  BY SumIsInt
<1> QED BY <1>2, <1>3, <1>4 DEF SumFunction

(* One value that changes changes the sum by as much.                      *)
LEMMA SumWithOneChanged ==
    ASSUME NEW S, IsFiniteSet(S), NEW x \in S, NEW f, NEW g,
           DOMAIN f = S, DOMAIN g = S,
           \A y \in S : f[y] \in Int /\ g[y] \in Int,
           \A y \in S \ {x} : f[y] = g[y]
    PROVE  SumFunction(g) = SumFunction(f) + (g[x] - f[x])
<1> DEFINE r == S \ {x}
<1>1. IsFiniteSet(r)
  BY FS_Subset
<1>2. /\ SumFunctionOnSet(f, S) = f[x] + SumFunctionOnSet(f, r)
      /\ SumFunctionOnSet(g, S) = g[x] + SumFunctionOnSet(g, r)
  BY SumWithout
<1>3. SumFunctionOnSet(f, r) = SumFunctionOnSet(g, r)
  BY <1>1, SumCongruence
<1>4. SumFunctionOnSet(f, r) \in Int
  BY <1>1, SumIsInt
<1>5. f[x] \in Int /\ g[x] \in Int
  OBVIOUS
<1> HIDE DEF r
<1> QED BY <1>2, <1>3, <1>4, <1>5 DEF SumFunction

-------------------------------------------------------------------------------
(* Accounts, codes and keys                                                *)

(* The image of a finite set is finite; one to one, it is of the same size.*)
LEMMA FiniteImage ==
    ASSUME NEW S, IsFiniteSet(S), NEW T, NEW f \in [S -> T],
           \A t \in T : \E s \in S : f[s] = t
    PROVE  IsFiniteSet(T)
<1>1. f \in Surjection(S, T)
  BY DEF Surjection
<1> QED BY <1>1, FS_Surjection

LEMMA KeysFinite == IsFiniteSet(Keys)
<1> DEFINE f == [p \in Accounts \X Codes |->
                     [account |-> p[1], code |-> p[2]]]
<1>1. IsFiniteSet(Accounts \X Codes)
  BY TablesAssumption, FS_Product
<1>2. f \in [Accounts \X Codes -> Keys]
  BY DEF Keys
<1>3. \A key \in Keys : \E p \in Accounts \X Codes : f[p] = key
  <2> TAKE key \in Keys
  <2>1. /\ <<key.account, key.code>> \in Accounts \X Codes
        /\ key = [account |-> key.account, code |-> key.code]
    BY DEF Keys
  <2> QED BY <2>1
<1> HIDE DEF f
<1> QED BY <1>1, <1>2, <1>3, FiniteImage

-------------------------------------------------------------------------------
(* Totals and balances                                                     *)

(* A balance is a function of the rows of its key.                         *)
LEMMA BalanceOfRows ==
    ASSUME NEW older, NEW newer, NEW key,
           RowsOf(older, key) = RowsOf(newer, key)
    PROVE  /\ Balance(older, key) = Balance(newer, key)
           /\ Negative(older, key) <=> Negative(newer, key)
  BY DEF Balance, Negative

(* A finite table of rows whose amounts are all numbers.                   *)
Numeric(rows) ==
    /\ IsFiniteSet(rows)
    /\ rows \subseteq Row
    /\ ~ HasNaN(rows)

LEMMA NumericSubset ==
    ASSUME NEW rows, Numeric(rows), NEW some \in SUBSET rows
    PROVE  Numeric(some)
  BY FS_Subset DEF Numeric, HasNaN

LEMMA NumericAmounts ==
    ASSUME NEW rows, Numeric(rows)
    PROVE  \A row \in rows : row.amount \in Int
  BY AmountsAssumption DEF Numeric, HasNaN, Row

LEMMA TotalIsInt ==
    ASSUME NEW rows, Numeric(rows)
    PROVE  Total(rows) \in Int
<1> DEFINE f == [row \in rows |-> row.amount]
<1>1. /\ IsFiniteSet(DOMAIN f)
      /\ \A row \in DOMAIN f : f[row] \in Int
  BY NumericAmounts DEF Numeric
<1>2. SumFunction(f) \in Int
  <2> HIDE DEF f
  <2> QED BY <1>1, SumFunctionIsInt
<1> QED BY <1>2 DEF Total, Numeric

(* A row that was not there adds its amount.                               *)
LEMMA TotalWithOneMore ==
    ASSUME NEW rows, NEW leg, leg \notin rows, Numeric(rows \cup {leg})
    PROVE  Total(rows \cup {leg}) = Total(rows) + leg.amount
<1> DEFINE f == [row \in rows |-> row.amount]
           g == [row \in rows \cup {leg} |-> row.amount]
<1>1. Numeric(rows)
  BY NumericSubset
<1>2. /\ IsFiniteSet(rows)
      /\ DOMAIN f = rows
      /\ DOMAIN g = rows \cup {leg}
      /\ \A row \in rows : f[row] = g[row]
      /\ \A row \in rows \cup {leg} : g[row] \in Int
      /\ g[leg] = leg.amount
  BY <1>1, NumericAmounts DEF Numeric
<1>3. SumFunction(g) = SumFunction(f) + g[leg]
  <2> HIDE DEF f, g
  <2> QED BY <1>2, SumWithOneMore
<1> QED BY <1>1, <1>2, <1>3 DEF Total, Numeric

(* What a row adds to the balance of its key.                              *)
Effect(leg) ==
    IF leg.side = "debit" <=> leg.key.code \in DebitNormal
    THEN leg.amount
    ELSE 0 - leg.amount

LEMMA BalanceIsInt ==
    ASSUME NEW rows, Numeric(rows), NEW key
    PROVE  Balance(rows, key) \in Int
<1> DEFINE mine == RowsOf(rows, key)
<1>1. Numeric(mine) /\ Numeric(Debits(mine)) /\ Numeric(Credits(mine))
  BY NumericSubset DEF RowsOf, Debits, Credits
<1>2. Total(Debits(mine)) \in Int /\ Total(Credits(mine)) \in Int
  BY <1>1, TotalIsInt
<1> QED BY <1>1, <1>2 DEF Balance, Numeric

LEMMA BalanceWithOneMore ==
    ASSUME NEW rows, NEW leg, leg \notin rows, Numeric(rows \cup {leg})
    PROVE  /\ Balance(rows \cup {leg}, leg.key)
                  = Balance(rows, leg.key) + Effect(leg)
           /\ \A key : key # leg.key =>
                  Balance(rows \cup {leg}, key) = Balance(rows, key)
<1> DEFINE key == leg.key
           mine == RowsOf(rows, key)
           more == RowsOf(rows \cup {leg}, key)
<1>1. Numeric(mine) /\ Numeric(Debits(mine)) /\ Numeric(Credits(mine))
  <2>1. /\ mine \in SUBSET (rows \cup {leg})
        /\ Debits(mine) \in SUBSET (rows \cup {leg})
        /\ Credits(mine) \in SUBSET (rows \cup {leg})
    BY DEF RowsOf, Debits, Credits
  <2> QED BY <2>1, NumericSubset
<1>2. Numeric(more) /\ Numeric(Debits(more)) /\ Numeric(Credits(more))
  <2>1. /\ more \in SUBSET (rows \cup {leg})
        /\ Debits(more) \in SUBSET (rows \cup {leg})
        /\ Credits(more) \in SUBSET (rows \cup {leg})
    BY DEF RowsOf, Debits, Credits
  <2> QED BY <2>1, NumericSubset
<1>3. leg \in Row /\ leg.amount \in Int
  BY NumericAmounts DEF Numeric
<1>4. Total(Debits(mine)) \in Int /\ Total(Credits(mine)) \in Int
  BY <1>1, TotalIsInt
<1>5. ASSUME leg.side = "debit"
      PROVE  /\ Total(Debits(more)) = Total(Debits(mine)) + leg.amount
             /\ Total(Credits(more)) = Total(Credits(mine))
  <2>1. /\ Debits(more) = Debits(mine) \cup {leg}
        /\ Credits(more) = Credits(mine)
    BY <1>5 DEF RowsOf, Debits, Credits
  <2>2. leg \notin Debits(mine)
    BY DEF RowsOf, Debits
  <2> HIDE DEF mine, more
  <2> QED BY <1>2, <2>1, <2>2, TotalWithOneMore
<1>6. ASSUME leg.side = "credit"
      PROVE  /\ Total(Debits(more)) = Total(Debits(mine))
             /\ Total(Credits(more)) = Total(Credits(mine)) + leg.amount
  <2>1. /\ Debits(more) = Debits(mine)
        /\ Credits(more) = Credits(mine) \cup {leg}
    BY <1>6 DEF RowsOf, Debits, Credits
  <2>2. leg \notin Credits(mine)
    BY DEF RowsOf, Credits
  <2> HIDE DEF mine, more
  <2> QED BY <1>2, <2>1, <2>2, TotalWithOneMore
<1>7. Balance(rows \cup {leg}, key) = Balance(rows, key) + Effect(leg)
  <2>1. ~ HasNaN(mine) /\ ~ HasNaN(more)
    BY <1>1, <1>2 DEF Numeric
  <2>2. leg.side \in {"debit", "credit"}
    BY <1>3 DEF Row
  <2>3. /\ Balance(rows, key) =
               IF key.code \in DebitNormal
               THEN Total(Debits(mine)) - Total(Credits(mine))
               ELSE Total(Credits(mine)) - Total(Debits(mine))
        /\ Balance(rows \cup {leg}, key) =
               IF key.code \in DebitNormal
               THEN Total(Debits(more)) - Total(Credits(more))
               ELSE Total(Credits(more)) - Total(Debits(more))
    BY <2>1 DEF Balance
  <2> HIDE DEF mine, more
  <2>4. CASE leg.side = "debit"
    BY <1>3, <1>4, <1>5, <2>3, <2>4 DEF Effect
  <2>5. CASE leg.side = "credit"
    BY <1>3, <1>4, <1>6, <2>3, <2>5 DEF Effect
  <2> QED BY <2>2, <2>4, <2>5
<1>8. ASSUME NEW other, other # leg.key
      PROVE  Balance(rows \cup {leg}, other) = Balance(rows, other)
  <2>1. RowsOf(rows \cup {leg}, other) = RowsOf(rows, other)
    BY <1>8 DEF RowsOf
  <2> QED BY <2>1, BalanceOfRows
<1> QED BY <1>7, <1>8

LEMMA TotalBalanceIsInt ==
    ASSUME NEW rows, Numeric(rows), NEW keys \in SUBSET Keys
    PROVE  TotalBalance(rows, keys) \in Int
<1> DEFINE f == [key \in keys |-> Balance(rows, key)]
<1>1. IsFiniteSet(DOMAIN f) /\ \A key \in DOMAIN f : f[key] \in Int
  BY KeysFinite, FS_Subset, BalanceIsInt
<1>2. SumFunction(f) \in Int
  <2> HIDE DEF f
  <2> QED BY <1>1, SumFunctionIsInt
<1> QED BY <1>2 DEF TotalBalance

(* What the balances of some keys add up to changes by what the row adds   *)
(* to its key, when that is one of them.                                   *)
LEMMA TotalBalanceWithOneMore ==
    ASSUME NEW rows, NEW leg, leg \notin rows, Numeric(rows \cup {leg}),
           NEW keys \in SUBSET Keys
    PROVE  /\ TotalBalance(rows, keys) \in Int
           /\ TotalBalance(rows \cup {leg}, keys) =
                  TotalBalance(rows, keys)
                      + (IF leg.key \in keys THEN Effect(leg) ELSE 0)
<1> DEFINE f == [key \in keys |-> Balance(rows, key)]
           g == [key \in keys |-> Balance(rows \cup {leg}, key)]
<1>1. Numeric(rows) /\ IsFiniteSet(keys)
  BY NumericSubset, KeysFinite, FS_Subset
<1>2. /\ DOMAIN f = keys /\ DOMAIN g = keys
      /\ \A key \in keys : f[key] \in Int /\ g[key] \in Int
      /\ \A key \in keys \ {leg.key} : f[key] = g[key]
      /\ leg.key \in keys => g[leg.key] = f[leg.key] + Effect(leg)
  BY <1>1, BalanceIsInt, BalanceWithOneMore
<1>3. leg \in Row /\ leg.amount \in Int
  BY NumericAmounts DEF Numeric
<1>4. Effect(leg) \in Int
  BY <1>3 DEF Effect
<1>5. TotalBalance(rows, keys) = SumFunction(f)
      /\ TotalBalance(rows \cup {leg}, keys) = SumFunction(g)
  BY DEF TotalBalance
<1>6. CASE leg.key \notin keys
  <2>1. f = g
    BY <1>6, BalanceWithOneMore, Zenon
  <2>2. SumFunction(f) \in Int
    <3> HIDE DEF f, g
    <3> QED BY <1>1, <1>2, SumFunctionIsInt
  <2> HIDE DEF f, g
  <2> QED BY <1>5, <1>6, <2>1, <2>2
<1>7. CASE leg.key \in keys
  <2> HIDE DEF f, g
  <2>1. SumFunction(g) = SumFunction(f) + (g[leg.key] - f[leg.key])
    BY <1>1, <1>2, <1>7, SumWithOneChanged
  <2>2. SumFunction(f) \in Int
    BY <1>1, <1>2, SumFunctionIsInt
  <2> QED BY <1>2, <1>4, <1>5, <1>7, <2>1, <2>2
<1> QED BY <1>6, <1>7

-------------------------------------------------------------------------------
(* The trial balance                                                       *)

DebitKeys == {key \in Keys : key.code \in DebitNormal}
CreditKeys == {key \in Keys : key.code \notin DebitNormal}

(* By how much the books are out.                                          *)
Difference(rows) ==
    TotalBalance(rows, DebitKeys) - TotalBalance(rows, CreditKeys)

(* A debit takes the books out by its amount, a credit by as much the      *)
(* other way, whatever account and code they are posted to.                *)
LEMMA DifferenceWithOneMore ==
    ASSUME NEW rows, NEW leg, leg \notin rows, Numeric(rows \cup {leg})
    PROVE  /\ Difference(rows) \in Int
           /\ Difference(rows \cup {leg}) =
                  Difference(rows) + (IF leg.side = "debit"
                                      THEN leg.amount
                                      ELSE 0 - leg.amount)
<1>1. leg \in Row /\ leg.amount \in Int
  BY NumericAmounts DEF Numeric
<1>2. DebitKeys \in SUBSET Keys /\ CreditKeys \in SUBSET Keys
  BY DEF DebitKeys, CreditKeys
<1>3. /\ leg.key \in DebitKeys <=> leg.key.code \in DebitNormal
      /\ leg.key \in CreditKeys <=> leg.key.code \notin DebitNormal
  BY <1>1 DEF DebitKeys, CreditKeys, Row
<1>4. /\ TotalBalance(rows, DebitKeys) \in Int
      /\ TotalBalance(rows, CreditKeys) \in Int
      /\ TotalBalance(rows \cup {leg}, DebitKeys) =
             TotalBalance(rows, DebitKeys)
                 + (IF leg.key \in DebitKeys THEN Effect(leg) ELSE 0)
      /\ TotalBalance(rows \cup {leg}, CreditKeys) =
             TotalBalance(rows, CreditKeys)
                 + (IF leg.key \in CreditKeys THEN Effect(leg) ELSE 0)
  BY <1>2, TotalBalanceWithOneMore
<1> QED BY <1>1, <1>3, <1>4 DEF Difference, Effect

(* A table without rows has no balances.                                   *)
LEMMA NoDifference == Difference({}) = 0
<1>1. Numeric({}) /\ Total({}) = 0
  <2>1. Numeric({}) /\ ~ HasNaN({})
    BY FS_EmptySet DEF Numeric, HasNaN
  <2>2. SumFunction([row \in {} |-> row.amount]) = 0
    BY SumOfNone DEF SumFunction
  <2> QED BY <2>1, <2>2 DEF Total
<1>2. ASSUME NEW keys \in SUBSET Keys PROVE TotalBalance({}, keys) = 0
  <2> DEFINE f == [key \in keys |-> Balance({}, key)]
             B == {T \in SUBSET keys : SumFunctionOnSet(f, T) # 0}
  <2>1. ASSUME NEW key \in keys PROVE f[key] = 0
    <3>1. /\ RowsOf({}, key) = {} /\ Debits({}) = {} /\ Credits({}) = {}
          /\ ~ HasNaN({})
      BY DEF RowsOf, Debits, Credits, HasNaN
    <3> QED BY <1>1, <3>1 DEF Balance
  <2>2. IsFiniteSet(keys)
    BY KeysFinite, FS_Subset
  <2>3. SumFunctionOnSet(f, keys) = 0
    <3> SUFFICES ASSUME B # {} PROVE FALSE
      OBVIOUS
    <3>1. B \in SUBSET SUBSET keys
      OBVIOUS
    <3> HIDE DEF B, f
    <3>2. PICK T \in B : \A U \in B : U \subseteq T => U = T
      BY <2>2, <3>1, SmallestSubset
    <3> DEFINE r == T \ {Pick(T)}
    <3>3. T \in SUBSET keys /\ IsFiniteSet(T) /\ T # {}
      BY <2>2, FS_Subset, SumOfNone DEF B
    <3>4. /\ Pick(T) \in T
          /\ SumFunctionOnSet(f, T) = f[Pick(T)] + SumFunctionOnSet(f, r)
      BY <3>3, SumOfSome
    <3>5. r \in SUBSET keys /\ r # T /\ r \subseteq T
      BY <3>3, <3>4
    <3>6. SumFunctionOnSet(f, r) = 0
      BY <3>2, <3>5 DEF B
    <3>7. SumFunctionOnSet(f, T) = 0
      BY <2>1, <3>3, <3>4, <3>6
    <3> QED BY <3>7 DEF B
  <2>4. TotalBalance({}, keys) = SumFunctionOnSet(f, keys)
    BY DEF TotalBalance, SumFunction
  <2> QED BY <2>3, <2>4
<1>3. DebitKeys \in SUBSET Keys /\ CreditKeys \in SUBSET Keys
  BY DEF DebitKeys, CreditKeys
<1>4. TotalBalance({}, DebitKeys) = 0 /\ TotalBalance({}, CreditKeys) = 0
  BY <1>2, <1>3
<1> QED BY <1>4 DEF Difference

(* The journal is finite, and as long as it has no NaN the books are even. *)
EvenInv ==
    /\ IsFiniteSet(journal)
    /\ journal \subseteq Row
    /\ ~ HasNaN(journal) => Difference(journal) = 0

LEMMA EvenInit == LedgerInit => EvenInv
  BY NoDifference, FS_EmptySet DEF LedgerInit, EvenInv

(* Both legs of a posting come at once: the journal id is fresh, so they   *)
(* are two new rows, of the same amount and on opposite sides.             *)
LEMMA EvenStep == EvenInv /\ [LedgerNext]_journal => EvenInv'
<1> SUFFICES ASSUME EvenInv, LedgerNext PROVE EvenInv'
  BY DEF EvenInv
<1>1. PICK j \in Journals, debit \in Keys, credit \in Keys, amount \in Amounts :
          Post(j, debit, credit, amount)
  BY DEF LedgerNext
<1> DEFINE d == Leg(j, "debit", debit, amount)
           c == Leg(j, "credit", credit, amount)
           half == journal \cup {d}
<1>2. journal' = half \cup {c}
  BY <1>1 DEF Post
<1>3. /\ d \in Row /\ d.journal = j /\ d.side = "debit" /\ d.amount = amount
      /\ c \in Row /\ c.journal = j /\ c.side = "credit" /\ c.amount = amount
  BY DEF Leg, Row
<1>4. d \notin journal /\ c \notin half
  <2>1. LegsOf(journal, j) = {}
    BY <1>1 DEF Post
  <2> QED BY <1>3, <2>1 DEF LegsOf
<1> HIDE DEF d, c
<1>5. IsFiniteSet(half) /\ IsFiniteSet(journal') /\ journal' \subseteq Row
  BY <1>2, <1>3, FS_AddElement DEF EvenInv
<1>6. ASSUME ~ HasNaN(journal)' PROVE Difference(journal)' = 0
  <2>1. /\ Numeric(half \cup {c}) /\ Numeric(half)
        /\ ~ HasNaN(journal)
    BY <1>2, <1>5, <1>6 DEF Numeric, HasNaN
  <2>2. amount \in Int
    BY <1>3, <2>1, NumericAmounts
  <2>3. /\ Difference(journal) = 0
        /\ Difference(half) = Difference(journal) + amount
    BY <1>3, <1>4, <2>1, DifferenceWithOneMore DEF EvenInv
  <2>4. Difference(half \cup {c}) = Difference(half) + (0 - amount)
    BY <1>3, <1>4, <2>1, DifferenceWithOneMore
  <2>5. Difference(journal)' = Difference(half \cup {c})
    BY <1>2 DEF Difference, TotalBalance, Balance
  <2> QED BY <2>2, <2>3, <2>4, <2>5
<1> QED BY <1>5, <1>6 DEF EvenInv

(* Even books are what the trial balance asks for.                         *)
LEMMA EvenMeansTrialBalance == EvenInv => TrialBalance
<1> SUFFICES ASSUME EvenInv, ~ HasNaN(journal)
             PROVE  TotalBalance(journal, DebitKeys)
                        = TotalBalance(journal, CreditKeys)
  BY DEF TrialBalance, DebitKeys, CreditKeys
<1>1. DebitKeys \in SUBSET Keys /\ CreditKeys \in SUBSET Keys
  BY DEF DebitKeys, CreditKeys
<1>2. /\ TotalBalance(journal, DebitKeys) \in Int
      /\ TotalBalance(journal, CreditKeys) \in Int
  BY <1>1, TotalBalanceIsInt DEF EvenInv, Numeric
<1> QED BY <1>2 DEF EvenInv, Difference

-------------------------------------------------------------------------------
(* The register                                                            *)

(* A row of any amount, NaN included, changes the balance of its key as a  *)
(* leg of a transfer does, and no other balance.                           *)
LEMMA RegisterWithOneMore ==
    ASSUME NEW rows, IsFiniteSet(rows), rows \subseteq Row,
           NEW leg \in Row, leg \notin rows
    PROVE  /\ Balance(rows \cup {leg}, leg.key) =
                  Register!Plus(Balance(rows, leg.key),
                                Register!Change(leg.side, leg.key, leg.amount))
           /\ \A key : key # leg.key =>
                  Balance(rows \cup {leg}, key) = Balance(rows, key)
<1> DEFINE key == leg.key
           mine == RowsOf(rows, key)
           change == Register!Change(leg.side, key, leg.amount)
<1>1. RowsOf(rows \cup {leg}, key) = mine \cup {leg}
  BY DEF RowsOf
<1>2. ASSUME HasNaN(mine) \/ leg.amount = NaN
      PROVE  Balance(rows \cup {leg}, key)
                 = Register!Plus(Balance(rows, key), change)
  <2>1. HasNaN(RowsOf(rows \cup {leg}, key))
    BY <1>1, <1>2 DEF HasNaN
  <2>2. Balance(rows \cup {leg}, key) = NaN
    BY <2>1 DEF Balance
  <2>3. Balance(rows, key) = NaN \/ change = NaN
    BY <1>2 DEF Balance, Register!Change
  <2> HIDE DEF change
  <2> QED BY <2>2, <2>3 DEF Register!Plus
<1>3. ASSUME ~ HasNaN(mine), leg.amount # NaN
      PROVE  Balance(rows \cup {leg}, key)
                 = Register!Plus(Balance(rows, key), change)
  <2>1. Numeric(mine \cup {leg}) /\ Numeric(mine) /\ leg \notin mine
    <3>1. IsFiniteSet(mine) /\ mine \subseteq Row /\ leg \notin mine
      BY FS_Subset DEF RowsOf
    <3> HIDE DEF mine
    <3> QED BY <1>3, <3>1, FS_AddElement DEF Numeric, HasNaN
  <2>2. Balance(mine \cup {leg}, key) = Balance(mine, key) + Effect(leg)
    <3> HIDE DEF mine
    <3> QED BY <2>1, BalanceWithOneMore
  <2>3. /\ Balance(mine, key) = Balance(rows, key)
        /\ Balance(mine \cup {leg}, key) = Balance(rows \cup {leg}, key)
    <3>1. /\ RowsOf(mine, key) = RowsOf(rows, key)
          /\ RowsOf(mine \cup {leg}, key) = RowsOf(rows \cup {leg}, key)
      BY DEF RowsOf
    <3> QED BY <3>1, BalanceOfRows
  <2>4. Balance(mine, key) \in Int
    <3> HIDE DEF mine
    <3> QED BY <2>1, BalanceIsInt
  <2>5. leg.amount \in Int
    BY <1>3, AmountsAssumption DEF Row
  <2>6. change = Effect(leg) /\ change \in Int
    BY <1>3, <2>5 DEF Effect, Register!Change
  <2>7. Balance(rows, key) # NaN /\ change # NaN
    BY <2>3, <2>4, <2>6, AmountsAssumption
  <2> HIDE DEF mine, change
  <2>8. Balance(rows \cup {leg}, key) = Balance(rows, key) + change
    BY <2>2, <2>3, <2>6
  <2> QED BY <2>7, <2>8 DEF Register!Plus
<1>4. ASSUME NEW other, other # key
      PROVE  Balance(rows \cup {leg}, other) = Balance(rows, other)
  <2>1. RowsOf(rows \cup {leg}, other) = RowsOf(rows, other)
    BY <1>4 DEF RowsOf
  <2> QED BY <2>1, BalanceOfRows
<1> QED BY <1>2, <1>3, <1>4

(* What a reader of the view account_balances sees of a journal.           *)
Sheet(rows) == [key \in Keys |-> Balance(rows, key)]

(* Before the first posting every balance is zero.                         *)
LEMMA RegisterInit == LedgerInit => Register!Init
<1> SUFFICES ASSUME LedgerInit PROVE Register!Init
  OBVIOUS
<1>1. Numeric({}) /\ Total({}) = 0
  <2>1. Numeric({}) /\ ~ HasNaN({})
    BY FS_EmptySet DEF Numeric, HasNaN
  <2>2. SumFunction([row \in {} |-> row.amount]) = 0
    BY SumOfNone DEF SumFunction
  <2> QED BY <2>1, <2>2 DEF Total
<1>2. ASSUME NEW key \in Keys PROVE Balance(journal, key) = 0
  <2>1. /\ RowsOf({}, key) = {} /\ Debits({}) = {} /\ Credits({}) = {}
        /\ ~ HasNaN({})
    BY DEF RowsOf, Debits, Credits, HasNaN
  <2> QED BY <1>1, <2>1 DEF LedgerInit, Balance
<1> QED BY <1>2, Zenon DEF Register!Init

(* A leg is written to the entry of its key.                               *)
LEMMA SheetWithOneMore ==
    ASSUME NEW rows, IsFiniteSet(rows), rows \subseteq Row,
           NEW leg \in Row, leg \notin rows
    PROVE  Sheet(rows \cup {leg}) =
               [Sheet(rows) EXCEPT ![leg.key] =
                    Register!Plus(@, Register!Change(leg.side, leg.key,
                                                     leg.amount))]
<1> DEFINE change == Register!Change(leg.side, leg.key, leg.amount)
           older == Sheet(rows)
           newer == [older EXCEPT ![leg.key] = Register!Plus(@, change)]
<1>1. leg.key \in Keys
  BY DEF Row
<1>2. /\ DOMAIN older = Keys
      /\ \A key \in Keys : older[key] = Balance(rows, key)
  BY DEF Sheet
<1>3. \A key \in Keys : newer[key] = Balance(rows \cup {leg}, key)
  <2> TAKE key \in Keys
  <2>1. CASE key = leg.key
    <3>1. newer[key] = Register!Plus(Balance(rows, leg.key), change)
      BY <1>1, <1>2, <2>1 DEF Sheet
    <3> QED BY <2>1, <3>1, RegisterWithOneMore
  <2>2. CASE key # leg.key
    <3>1. newer[key] = Balance(rows, key)
      BY <1>2, <2>2 DEF Sheet
    <3> QED BY <2>2, <3>1, RegisterWithOneMore
  <2> QED BY <2>1, <2>2
<1>4. newer = [key \in Keys |-> newer[key]]
  BY DEF Sheet
<1> HIDE DEF newer
<1>5. newer = Sheet(rows \cup {leg})
  BY <1>3, <1>4, Zenon DEF Sheet
<1> QED BY <1>5 DEF newer

(* A posting is a transfer, or leaves every balance as it is.              *)
LEMMA RegisterStep ==
    ASSUME EvenInv, [LedgerNext]_journal
    PROVE  Register!Next \/ Sheet(journal)' = Sheet(journal)
<1> SUFFICES ASSUME LedgerNext, Sheet(journal)' # Sheet(journal)
             PROVE  Register!Next
  BY DEF Sheet, Balance
<1>1. PICK j \in Journals, debit \in Keys, credit \in Keys, amount \in Amounts :
          Post(j, debit, credit, amount)
  BY DEF LedgerNext
<1> DEFINE d == Leg(j, "debit", debit, amount)
           c == Leg(j, "credit", credit, amount)
           half == journal \cup {d}
<1>2. journal' = half \cup {c} /\ (amount # NaN => amount > 0)
  BY <1>1 DEF Post
<1>3. /\ d \in Row /\ d.side = "debit" /\ d.key = debit /\ d.amount = amount
      /\ c \in Row /\ c.side = "credit" /\ c.key = credit /\ c.amount = amount
      /\ d.journal = j /\ c.journal = j
  BY DEF Leg, Row
<1>4. d \notin journal /\ c \notin half
  <2>1. LegsOf(journal, j) = {}
    BY <1>1 DEF Post
  <2> QED BY <1>3, <2>1 DEF LegsOf
<1> HIDE DEF d, c
<1>5. /\ IsFiniteSet(journal) /\ journal \subseteq Row
      /\ IsFiniteSet(half) /\ half \subseteq Row
  BY <1>3, FS_AddElement DEF EvenInv
<1>6. Sheet(half) =
          [Sheet(journal) EXCEPT ![debit] =
               Register!Plus(@, Register!Change("debit", debit, amount))]
  BY <1>3, <1>4, <1>5, SheetWithOneMore
<1>7. Sheet(half \cup {c}) =
          [Sheet(half) EXCEPT ![credit] =
               Register!Plus(@, Register!Change("credit", credit, amount))]
  <2> HIDE DEF half
  <2> QED BY <1>3, <1>4, <1>5, SheetWithOneMore
<1>8. Sheet(journal)' = Sheet(half \cup {c})
  BY <1>2 DEF Sheet, Balance
<1>9. Register!Transfer(debit, credit, amount)
  BY <1>2, <1>6, <1>7, <1>8 DEF Register!Transfer, Sheet
<1> QED BY <1>9 DEF Register!Next, Sheet

===============================================================================
