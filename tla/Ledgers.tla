------------------------------ MODULE Ledgers ------------------------------
(***************************************************************************)
(* Sums over ledgers.  A ledger is a function from accounts to amounts.    *)
(* Its total is the number of its coins, coin <<a, i>> being the i-th of   *)
(* account a: a definition by cardinality rather than by recursion, so     *)
(* that how a total changes with one entry can be proved.                  *)
(***************************************************************************)
EXTENDS Integers, FiniteSets

CoinsOf(f, a) == {a} \X (1 .. f[a])

Coins(f) == UNION {CoinsOf(f, a) : a \in DOMAIN f}

Total(f) == Cardinality(Coins(f))

\* The ledger with n more, or n less, for account a.
Credit(f, a, n) == [f EXCEPT ![a] = @ + n]
Debit(f, a, n)  == [f EXCEPT ![a] = @ - n]
=============================================================================
