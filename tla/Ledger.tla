------------------------------- MODULE Ledger -------------------------------
(***************************************************************************)
(* ERC-20 bookkeeping as the contracts use it (OpenZeppelin's ERC20): a    *)
(* ledger is a function from accounts to balances.  Each operation is all  *)
(* or nothing: a transfer or burn the balance does not cover reverts the   *)
(* whole transaction, which the guard Covers expresses.                    *)
(***************************************************************************)
EXTENDS Integers, Functions

Covers(ledger, a, x) == x <= ledger[a]

Credit(ledger, a, x) == [ledger EXCEPT ![a] = @ + x]

Debit(ledger, a, x) == [ledger EXCEPT ![a] = @ - x]

Transfer(ledger, from, to, x) == Credit(Debit(ledger, from, x), to, x)

=============================================================================
