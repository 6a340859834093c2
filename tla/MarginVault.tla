------------------------------ MODULE MarginVault ------------------------------
(***************************************************************************)
(* The margin vault of the on-chain perpetuals (perps/MarginVault.sol):    *)
(* users deposit and withdraw G$, the engine debits, credits and flushes.  *)
(* A transfer reverts when the payer does not hold the tokens.             *)
(***************************************************************************)
EXTENDS Integers, Functions, FiniteSets

CONSTANTS
    Users,
    Wealth,     \* G$ in every user's wallet at the start
    Amounts     \* the amounts users deposit and withdraw

ASSUME VaultConstants ==
    /\ IsFiniteSet(Users)
    /\ Wealth \in Nat /\ Amounts \in SUBSET (Nat \ {0})

VARIABLES
    balances,         \* user -> margin the vault owes
    totalDeposited,
    held,             \* G$ the vault holds
    wallet            \* user -> G$ outside

vaultVars == <<balances, totalDeposited, held, wallet>>

VaultInit ==
    /\ balances = [u \in Users |-> 0]
    /\ totalDeposited = 0
    /\ held = 0
    /\ wallet = [u \in Users |-> Wealth]

Deposit(u, amount) ==
    /\ wallet[u] >= amount
    /\ wallet' = [wallet EXCEPT ![u] = @ - amount]
    /\ held' = held + amount
    /\ balances' = [balances EXCEPT ![u] = @ + amount]
    /\ totalDeposited' = totalDeposited + amount

Withdraw(u, amount) ==
    /\ balances[u] >= amount
    /\ held >= amount
    /\ balances' = [balances EXCEPT ![u] = @ - amount]
    /\ totalDeposited' = totalDeposited - amount
    /\ held' = held - amount
    /\ wallet' = [wallet EXCEPT ![u] = @ + amount]

(* debit (amount < 0) and credit (amount > 0), for the engine. *)
Settle(u, amount) ==
    /\ balances' = [balances EXCEPT ![u] = @ + amount]
    /\ totalDeposited' = totalDeposited + amount

(* Mutant: the debited fee is forwarded but stays in the vault too. *)
FeeStays(amount) == UNCHANGED <<held, wallet>>

(* flushFee: what was debited as a fee leaves the vault. *)
FlushFee(amount) ==
    /\ held >= amount
    /\ held' = held - amount
    /\ UNCHANGED wallet
===============================================================================
