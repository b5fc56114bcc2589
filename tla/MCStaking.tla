----------------------------- MODULE MCStaking -----------------------------
(***************************************************************************)
(* One instance of the four contracts that keep stakes or spread rewards   *)
(* over them, for TLC.  They do not interact: each behaviour follows one   *)
(* of them (part).                                                         *)
(***************************************************************************)
EXTENDS StakingPool, StakingRewards, MvpStakingPool, EpochRewards, TLC

CONSTANTS alice, bob, adm, op

MCUsers  == {alice, bob}
MCAdmins == {adm, op}

UserSymmetry == Permutations(MCUsers)

VARIABLE part   \* which of them is observed

StakingVars == <<now, part, poolVars, rewardsVars, mvpVars, epochVars>>

StakingInit ==
    /\ now = 0
    /\ PoolInit /\ RewardsInit /\ MvpInit /\ EpochInit
    /\ part \in {"pool", "rewards", "mvp_pool", "epochs"}

StakingNext ==
    /\ UNCHANGED part
    /\ \/ part = "pool" /\ PoolNext /\ UNCHANGED <<rewardsVars, mvpVars, epochVars>>
       \/ part = "rewards" /\ RewardsNext /\ UNCHANGED <<poolVars, mvpVars, epochVars>>
       \/ part = "mvp_pool" /\ MvpNext /\ UNCHANGED <<poolVars, rewardsVars, epochVars>>
       \/ part = "epochs" /\ EpochNext /\ UNCHANGED <<poolVars, rewardsVars, mvpVars>>

StakingSpec == StakingInit /\ [][StakingNext]_StakingVars

\* One of them alone.
RewardsAlone == part = "rewards" /\ StakingSpec
EpochsAlone  == part = "epochs" /\ StakingSpec

\* The type invariants of all of them.
StakingTypeOK ==
    /\ now \in 0..MaxTime
    /\ PoolTypeOK /\ RewardsTypeOK /\ MvpTypeOK /\ EpochTypeOK

\* staking_pool and mvp_staking_pool keep custody of the stakes, and of the
\* rewards, as CustodyVault says: StakingPool and MvpStakingPool say how.
StakesInCustody == PoolImplementsVault /\ MvpImplementsVault
=============================================================================
