---------------------------- MODULE CustodyVault ----------------------------
(***************************************************************************)
(* What every fund-holding contract of the workspace promises about money. *)
(* A contract keeps one book entry per account (a deal of deal_escrow, a   *)
(* staker of staking_pool) and holds the tokens of all of them in one      *)
(* token account.  An entry changes only together with the holding, by the *)
(* same amount, and no entry is ever overdrawn.                            *)
(*                                                                         *)
(* The module is an abstract specification: DealEscrow, StakingPool and    *)
(* MvpStakingPool are shown to implement it, with  book  mapped to their   *)
(* per-account balances and  holding  to their balance in the token        *)
(* contract.                                                               *)
(***************************************************************************)
EXTENDS Integers

CONSTANTS
    Accounts,       \* the keys of the book
    Total(_)        \* the sum of a book's entries

VARIABLES book,         \* book[k]: what the contract owes account k
          holding       \* tokens the contract holds

vaultVars == <<book, holding>>

VaultInit ==
    /\ book \in [Accounts -> Nat]
    /\ holding = Total(book)

\* Entry k, and no other, moves by the amount the token account moves by.
Moves(k) ==
    /\ book' = [book EXCEPT ![k] = book'[k]]
    /\ holding' - holding = book'[k] - book[k]

\* Tokens come in for account k.
Receive(k) == Moves(k) /\ book'[k] > book[k]

\* Tokens leave on behalf of account k, which covers them.
Pay(k) == Moves(k) /\ book'[k] < book[k] /\ book'[k] >= 0

VaultNext == \E k \in Accounts : Receive(k) \/ Pay(k)

VaultSpec == VaultInit /\ [][VaultNext]_vaultVars

=============================================================================
