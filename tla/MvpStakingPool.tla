--------------------------- MODULE MvpStakingPool ---------------------------
(***************************************************************************)
(* The mvp_staking_pool contract: stakes and the rewards paid on them lie  *)
(* in one token account.  Part of a stake may be used by the company and   *)
(* then stays locked; rewards are spread through an index per staked unit. *)
(*                                                                         *)
(* The getter claimable settles the user's rewards like the entry points   *)
(* that change stakes, and needs nobody's signature.  The upgrade entry    *)
(* points are modelled in UpgradeGovernance.  Left out: events.            *)
(***************************************************************************)
EXTENDS StakeLedger

VARIABLES
    mvpToken,       \* the token contract's balances (external)
    mvpPaused, mvpTotal, globalIndex,
    mvpStaked,      \* StakedBalance by user
    usedStake,      \* UsedStake by user, zero when there is none
    userIndex, claimable,
    fundedLeft      \* history: rewards funded and not claimed

mvpRewards == <<globalIndex, fundedLeft>>
mvpStakes  == <<mvpTotal, mvpStaked, usedStake, userIndex, claimable>>
mvpVars    == <<mvpToken, mvpPaused, mvpRewards, mvpStakes>>

MvpInit ==
    /\ mvpToken = StartTokens
    /\ mvpPaused = FALSE /\ mvpTotal = 0 /\ globalIndex = 0 /\ fundedLeft = 0
    /\ mvpStaked = [u \in Users |-> 0] /\ usedStake = [u \in Users |-> 0]
    /\ userIndex = [u \in Users |-> 0] /\ claimable = [u \in Users |-> 0]

-----------------------------------------------------------------------------
\* accrue_user_rewards: what u's claimable entry is once the index is settled
\* at the stake u has before the entry point changes it.
AccruedAhead(u) == claimable[u] + Share(mvpStaked[u] + 1, globalIndex - userIndex[u])
Accrued(u) == claimable[u] + Share(mvpStaked[u], globalIndex - userIndex[u])

Settle(u, left) ==
    /\ claimable' = [claimable EXCEPT ![u] = left]
    /\ userIndex' = [userIndex EXCEPT ![u] = globalIndex]

\* get_unused_stake
Unused(u) == mvpStaked[u] - usedStake[u]

\* Bound: at most MaxStaked units are staked.
MvpStake(u, amount) ==
    /\ ~mvpPaused
    /\ mvpTotal + amount <= MaxStaked
    /\ Settle(u, Accrued(u))
    /\ mvpStaked' = [mvpStaked EXCEPT ![u] = @ + amount]
    /\ mvpTotal' = mvpTotal + amount
    /\ Covers(mvpToken, u, amount) /\ mvpToken' = Moved(mvpToken, u, Pool, amount)
    /\ UNCHANGED <<mvpPaused, mvpRewards, usedStake>>

MvpUnstake(u, amount) ==
    /\ ~mvpPaused
    /\ amount <= Unused(u)
    /\ Settle(u, Accrued(u))
    /\ mvpStaked' = [mvpStaked EXCEPT ![u] = @ - amount]
    /\ mvpTotal' = mvpTotal - amount
    /\ Covers(mvpToken, Pool, amount) /\ mvpToken' = Moved(mvpToken, Pool, u, amount)
    /\ UNCHANGED <<mvpPaused, mvpRewards, usedStake>>

\* By the admin.  No entry point turns used stake into unused again.
UtilizeStake(by, u, amount) ==
    /\ by = Admin /\ ~mvpPaused
    /\ amount <= Unused(u)
    /\ Settle(u, Accrued(u))
    /\ usedStake' = [usedStake EXCEPT ![u] = @ + amount]
    /\ UNCHANGED <<mvpToken, mvpPaused, mvpRewards, mvpTotal, mvpStaked>>

\* The index rises by the share of one staked unit, rounded down.
Increment(amount) == (amount * SCALE) \div mvpTotal

\* From the admin's own tokens, and only while somebody stakes.
MvpFundRewards(from, amount) ==
    /\ from = Admin /\ ~mvpPaused
    /\ mvpTotal > 0
    /\ Covers(mvpToken, from, amount) /\ mvpToken' = Moved(mvpToken, from, Pool, amount)
    /\ globalIndex' = globalIndex + Increment(amount)
    /\ fundedLeft' = fundedLeft + amount
    /\ UNCHANGED <<mvpPaused, mvpStakes>>

\* The getter claimable, which anybody may call, also while paused.
QueryClaimable(u) ==
    /\ Settle(u, Accrued(u))
    /\ UNCHANGED <<mvpToken, mvpPaused, mvpRewards, mvpTotal, mvpStaked, usedStake>>

\* With nothing to claim the invocation succeeds all the same, and settles.
MvpClaim(u) ==
    /\ ~mvpPaused
    /\ Settle(u, 0)
    /\ Covers(mvpToken, Pool, Accrued(u)) /\ mvpToken' = Moved(mvpToken, Pool, u, Accrued(u))
    /\ fundedLeft' = fundedLeft - Accrued(u)
    /\ UNCHANGED <<mvpPaused, globalIndex, mvpTotal, mvpStaked, usedStake>>

MvpSetPaused(by, flag) ==
    /\ by = Admin
    /\ mvpPaused' = flag
    /\ UNCHANGED <<mvpToken, mvpRewards, mvpStakes>>

MvpNext ==
    /\ \/ \E u \in Users : QueryClaimable(u) \/ MvpClaim(u)
       \/ \E u \in Users, amount \in Amounts :
            MvpStake(u, amount) \/ MvpUnstake(u, amount)
       \/ \E by \in Addresses :
            \/ \E u \in Users, amount \in Amounts : UtilizeStake(by, u, amount)
            \/ \E amount \in Amounts : MvpFundRewards(by, amount)
            \/ \E flag \in BOOLEAN : MvpSetPaused(by, flag)
    /\ UNCHANGED now

MvpSpec == now = 0 /\ MvpInit /\ [][MvpNext]_<<now, mvpVars>>

-----------------------------------------------------------------------------
\* Entries have the types the getters read, and nobody's index is ahead.
MvpTypeOK ==
    /\ mvpToken \in [Addresses \cup {Pool} -> Nat]
    /\ mvpPaused \in BOOLEAN /\ mvpTotal \in Nat /\ globalIndex \in Nat
    /\ mvpStaked \in [Users -> Nat]
    /\ \A u \in Users : usedStake[u] \in 0..mvpStaked[u]
    /\ claimable \in [Users -> Nat] /\ userIndex \in [Users -> 0..globalIndex]

\* The accounts of the token account: one per staker, one for the rewards.
MvpAccounts == Users \cup {Pool}

MvpBook == [a \in MvpAccounts |-> IF a = Pool THEN fundedLeft ELSE mvpStaked[a]]

MvpTotalOf(book) == SumFunctionOnSet(book, MvpAccounts)

MvpVault == INSTANCE CustodyVault WITH
              Accounts <- MvpAccounts, Total <- MvpTotalOf,
              book <- MvpBook, holding <- mvpToken[Pool]

\* Stakes and rewards share one token account, and neither is ever paid with
\* the other: each step is one of CustodyVault's, and a claim is covered by
\* what was funded and not claimed yet, whatever the rounding of the index.
MvpImplementsVault == MvpVault!VaultSpec
=============================================================================
