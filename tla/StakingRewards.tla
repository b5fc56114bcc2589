--------------------------- MODULE StakingRewards ---------------------------
(***************************************************************************)
(* The staking_rewards contract: rewards spread over the stakers through a *)
(* cumulative index per staked unit, scaled to an integer, with the        *)
(* remainder of each funding carried into the next one as dust.            *)
(*                                                                         *)
(* One action is one contract invocation, as in DealEscrow.  The contract  *)
(* keeps accounts only: it moves no tokens.  Its upgrade entry points are   *)
(* in RewardsUpgrade.  Left out: events and getters.                       *)
(***************************************************************************)
EXTENDS StakeLedger

UserStakeEntries == [amount : Nat, user_index : Nat, pending_amount : Nat]

VARIABLES
    rewardsAdmin, rewardsOperator, rewardsPaused,
    stakes,         \* stakes[u]: the UserStake of u, zero when there is none
    rewardIndex, rewardsStaked, pendingDust, totalFunded,
    paid,           \* history: what claims have returned to u
    fundings        \* history: number of fundings

rewardsSettings == <<rewardsAdmin, rewardsOperator, rewardsPaused>>
fundVars        == <<rewardIndex, pendingDust, totalFunded, fundings>>
rewardsVars     == <<rewardsSettings, stakes, rewardsStaked, fundVars, paid>>

RewardsInit ==
    /\ rewardsAdmin = Admin /\ rewardsOperator = None /\ rewardsPaused = FALSE
    /\ stakes = [u \in Users |-> [amount |-> 0, user_index |-> 0, pending_amount |-> 0]]
    /\ rewardIndex = 0 /\ rewardsStaked = 0 /\ pendingDust = 0 /\ totalFunded = 0
    /\ paid = [u \in Users |-> 0] /\ fundings = 0

-----------------------------------------------------------------------------
\* calc_pending: what a stake has earned since its index was last set.
CalcPending(s) == Share(s.amount, rewardIndex - s.user_index)

\* get_claimable
Claimable(u) == CalcPending(stakes[u]) + stakes[u].pending_amount

\* A stake of amount once the rewards of the old one are settled.
RestakedAhead(u, amount) == [amount |-> amount, user_index |-> rewardIndex + 1,
                             pending_amount |-> Claimable(u)]
Restaked(u, amount) == [amount |-> amount, user_index |-> rewardIndex,
                        pending_amount |-> Claimable(u)]

\* Bound: at most MaxStaked units are staked.
RewardsStake(by, u, amount) ==
    /\ ~rewardsPaused
    /\ by = u
    /\ rewardsStaked + amount <= MaxStaked
    /\ stakes' = [stakes EXCEPT ![u] = Restaked(u, @.amount + amount)]
    /\ rewardsStaked' = rewardsStaked + amount
    /\ UNCHANGED <<rewardsSettings, fundVars, paid>>

RewardsUnstake(by, u, amount) ==
    /\ ~rewardsPaused
    /\ by = u
    /\ stakes[u].amount >= amount
    /\ stakes' = [stakes EXCEPT ![u] = Restaked(u, @.amount - amount)]
    /\ rewardsStaked' = rewardsStaked - amount
    /\ UNCHANGED <<rewardsSettings, fundVars, paid>>

\* The remainder carried on: what the index increment does not commit.
CarriedUncharged(toDistribute, committed) == toDistribute
Carried(toDistribute, committed) == toDistribute - committed

\* fund_rewards and distribute_rewards share this body.  Without stakers the
\* amount is counted as funded and goes nowhere.  Bound: MaxFunded.
Distribute(amount) ==
    LET toDistribute == amount + pendingDust
        increment    == (toDistribute * SCALE) \div rewardsStaked
        committed    == (increment * rewardsStaked) \div SCALE
    IN
    /\ ~rewardsPaused
    /\ totalFunded + amount <= MaxFunded
    /\ totalFunded' = totalFunded + amount
    /\ fundings' = fundings + 1
    /\ IF rewardsStaked = 0 THEN UNCHANGED <<rewardIndex, pendingDust>>
       ELSE /\ rewardIndex' = rewardIndex + increment
            /\ pendingDust' = Carried(toDistribute, committed)
    /\ UNCHANGED <<rewardsSettings, stakes, rewardsStaked, paid>>

FundRewards(by, amount) == rewardsOperator # None /\ by = rewardsOperator /\ Distribute(amount)

DistributeRewards(by, amount) == by = rewardsAdmin /\ Distribute(amount)

\* What a claim leaves of the stake entry.
ClaimedStake(u) == [stakes[u] EXCEPT !.user_index = rewardIndex, !.pending_amount = 0]

RewardsClaim(by, u) ==
    /\ ~rewardsPaused
    /\ by = u
    /\ paid' = [paid EXCEPT ![u] = @ + Claimable(u)]
    /\ stakes' = [stakes EXCEPT ![u] = ClaimedStake(u)]
    /\ UNCHANGED <<rewardsSettings, rewardsStaked, fundVars>>

-----------------------------------------------------------------------------
\* The admin's settings.
RewardsSetAdmin(by, a) ==
    /\ by = rewardsAdmin
    /\ rewardsAdmin' = a
    /\ UNCHANGED <<rewardsOperator, rewardsPaused, stakes, rewardsStaked, fundVars, paid>>

AddOperator(by, op) ==
    /\ by = rewardsAdmin
    /\ rewardsOperator' = op
    /\ UNCHANGED <<rewardsAdmin, rewardsPaused, stakes, rewardsStaked, fundVars, paid>>

RemoveOperator(by) ==
    /\ by = rewardsAdmin
    /\ rewardsOperator' = None
    /\ UNCHANGED <<rewardsAdmin, rewardsPaused, stakes, rewardsStaked, fundVars, paid>>

RewardsSetPaused(by, flag) ==
    /\ by = rewardsAdmin
    /\ rewardsPaused' = flag
    /\ UNCHANGED <<rewardsAdmin, rewardsOperator, stakes, rewardsStaked, fundVars, paid>>

RewardsPause(by)   == RewardsSetPaused(by, TRUE)
RewardsUnpause(by) == RewardsSetPaused(by, FALSE)

RewardNext(by) ==
    \/ \E u \in Users, amount \in Amounts : RewardsStake(by, u, amount) \/ RewardsUnstake(by, u, amount)
    \/ \E u \in Users : RewardsClaim(by, u)
    \/ \E amount \in Amounts : FundRewards(by, amount) \/ DistributeRewards(by, amount)

RewardSettingNext(by) ==
    \/ \E a \in Admins : RewardsSetAdmin(by, a) \/ AddOperator(by, a)
    \/ RemoveOperator(by)
    \/ RewardsPause(by)
    \/ RewardsUnpause(by)

RewardsNext ==
    /\ \E by \in Addresses : RewardNext(by) \/ RewardSettingNext(by)
    /\ UNCHANGED now

RewardsSpec == now = 0 /\ RewardsInit /\ [][RewardsNext]_<<now, rewardsVars>>

-----------------------------------------------------------------------------
\* Entries have the types the getters read.
RewardsTypeOK ==
    /\ rewardsAdmin \in Admins /\ rewardsOperator \in Admins \cup {None} /\ rewardsPaused \in BOOLEAN
    /\ stakes \in [Users -> UserStakeEntries]
    /\ rewardIndex \in Nat /\ rewardsStaked \in Nat /\ pendingDust \in Nat
    /\ totalFunded \in Nat /\ fundings \in Nat
    /\ paid \in [Users -> Nat]
    /\ \A u \in Users : stakes[u].user_index <= rewardIndex

\* What u has got out of the contract or may still claim.
Earned(u) == paid[u] + Claimable(u)

EarnedInAll == SumOf([u \in Users |-> Earned(u)])

\* Only a funding makes anybody richer, and nothing makes anybody poorer:
\* staking, unstaking and claiming settle rewards to the unit, so that neither
\* staking late, nor splitting a stake, nor claiming twice changes what anyone
\* has earned.
RewardsFromFundingOnly ==
    [][\A u \in Users : /\ Earned(u)' >= Earned(u)
                        /\ totalFunded' = totalFunded => Earned(u)' = Earned(u)]_rewardsVars

\* Rounding favours the stakers: the carried dust has in part been distributed
\* already.  It never gives away more than one unit per funding.
OverpaidPerFunding == EarnedInAll + pendingDust <= totalFunded + fundings
=============================================================================
