-------------------------- MODULE StakeDelegation --------------------------
(***************************************************************************)
(* The stake_delegation contract: stakes, their delegation to delegatees,  *)
(* the two ways to leave a delegation (revocation, finalised in a later    *)
(* epoch, and undelegation of an amount after a cooldown), reward index    *)
(* and commission, and the two slashes: of one delegator's stake, and of a *)
(* delegatee with everybody who delegates to it.                           *)
(*                                                                         *)
(* One action is one contract invocation.  The contract moves no tokens:   *)
(* a claim returns an amount and zeroes the entry.  Left out: events,      *)
(* activated_epoch and EpochDuration, which no entry point reads.  init is *)
(* the only writer of the admin, so admin actions carry no caller.         *)
(***************************************************************************)
EXTENDS Integers, FiniteSets, FiniteSetsExt, Functions

CONSTANTS
    Users,          \* delegators
    Delegatees,
    Authorities,    \* addresses set_slashing_authority may name
    None,           \* absent storage entry
    Amounts,        \* amounts callers pass
    Rates,          \* commission rates callers pass
    FullRate,       \* 10_000 basis points
    Fundings,       \* reward amounts the admin passes
    Cooldowns,      \* cooldowns the admin passes
    SCALE,          \* scale of the reward index
    DefaultCooldown,\* 604_800 in the code
    MaxStake,       \* bound on TotalStaked
    MaxIndex,       \* bound on the reward index
    MaxEpoch,       \* bound on the epoch
    MaxTime,        \* bound on the ledger timestamp
    MaxDelegations, \* bound on the delegations in force at once
    MaxDrift,       \* bound on a delegatee's stake beyond what is delegated to it
    MaxRequests     \* bound on the requests to leave outstanding at once

ASSUME DelegationAssumption ==
    /\ IsFiniteSet(Users) /\ IsFiniteSet(Delegatees)
    /\ Amounts \subseteq Nat \ {0} /\ Fundings \subseteq Nat \ {0}
    /\ Rates \subseteq Nat /\ FullRate \in Nat \ {0} /\ SCALE \in Nat \ {0}
    /\ Cooldowns \subseteq Nat /\ DefaultCooldown \in Nat
    /\ {MaxStake, MaxIndex, MaxTime, MaxDelegations, MaxDrift, MaxRequests} \subseteq Nat
    /\ MaxEpoch \in Nat \ {0}
    /\ None \notin Authorities /\ None \notin Nat
    /\ None \notin [amount : Amounts, time : Nat]

VARIABLES
    now,            \* ledger timestamp
    epoch, paused, cooldown, authority,
    stakedBalance, totalStaked,
    delegation,     \* Delegations: amount per delegator and delegatee, 0 if not listed
    delegatorsOf,   \* the reverse index
    delegateeStake,
    revocation,     \* RevocationRequest: the epoch of the request
    undelegation,   \* PendingUndelegation: amount and time of the request
    rewardIndex, delegateeIndex, rate, pendingRewards, commissionBalance

settingVars == <<epoch, paused, cooldown, authority>>
stakeVars   == <<stakedBalance, totalStaked>>
delegVars   == <<delegation, delegatorsOf, delegateeStake>>
requestVars == <<revocation, undelegation>>
bankVars    == <<delegateeIndex, pendingRewards, commissionBalance>>
vars        == <<now, settingVars, stakeVars, delegVars, requestVars, rewardIndex, rate, bankVars>>

Init ==
    /\ now = 0 /\ epoch = 1 /\ paused = FALSE
    /\ cooldown = DefaultCooldown /\ authority = None
    /\ stakedBalance = [u \in Users |-> 0] /\ totalStaked = 0
    /\ delegation = [u \in Users |-> [v \in Delegatees |-> 0]]
    /\ delegatorsOf = [v \in Delegatees |-> {}]
    /\ delegateeStake = [v \in Delegatees |-> 0]
    /\ revocation = [u \in Users |-> [v \in Delegatees |-> None]]
    /\ undelegation = [u \in Users |-> [v \in Delegatees |-> None]]
    /\ rewardIndex = 0 /\ delegateeIndex = [v \in Delegatees |-> 0]
    /\ rate = [v \in Delegatees |-> 0]
    /\ pendingRewards = [v \in Delegatees |-> 0]
    /\ commissionBalance = [v \in Delegatees |-> 0]

AtLeastZero(n) == IF n < 0 THEN 0 ELSE n

TotalDelegated(u) == SumFunctionOnSet(delegation[u], Delegatees)

DelegateesOf(u) == {v \in Delegatees : delegation[u][v] # 0}

-----------------------------------------------------------------------------
(* Settlement: what the index earned a delegatee is split at the rate in   *)
(* force and banked, and the delegatee's index catches up.                 *)

\* What delegatee v has earned since its last settlement, and the part of it that
\* is commission.
Gross(v) == IF delegateeStake[v] > 0 /\ rewardIndex > delegateeIndex[v]
            THEN (delegateeStake[v] * (rewardIndex - delegateeIndex[v])) \div SCALE
            ELSE 0
Commission(v) == (Gross(v) * rate[v]) \div FullRate

\* Entries after the delegatees ws are settled and those in claimed paid out.
BankedRewards(ws, claimed) ==
    [v \in Delegatees |->
        IF v \in claimed THEN 0
        ELSE IF v \in ws THEN pendingRewards[v] + Gross(v) - Commission(v) ELSE pendingRewards[v]]
BankedCommission(ws, claimed) ==
    [v \in Delegatees |->
        IF v \in claimed THEN 0
        ELSE IF v \in ws THEN commissionBalance[v] + Commission(v) ELSE commissionBalance[v]]

SettleAndPay(ws, rewardsOf, commissionOf) ==
    /\ pendingRewards' = BankedRewards(ws, rewardsOf)
    /\ commissionBalance' = BankedCommission(ws, commissionOf)
    /\ delegateeIndex' = [v \in Delegatees |-> IF v \in ws THEN rewardIndex ELSE delegateeIndex[v]]

Settle(ws) == SettleAndPay(ws, {}, {})

-----------------------------------------------------------------------------
(* Staking and delegating.                                                 *)

\* Bound: at most MaxStake is staked in all.
Stake(u, amount) ==
    /\ ~paused
    /\ totalStaked + amount <= MaxStake
    /\ Settle(DelegateesOf(u))
    /\ stakedBalance' = [stakedBalance EXCEPT ![u] = @ + amount]
    /\ totalStaked' = totalStaked + amount
    /\ UNCHANGED <<now, settingVars, delegVars, requestVars, rewardIndex, rate>>

\* The stake of u that is not delegated.
FreeStake(u) == stakedBalance[u] - TotalDelegated(u)

Unstake(u, amount) ==
    /\ ~paused
    /\ stakedBalance[u] >= amount
    /\ FreeStake(u) >= amount
    /\ Settle(DelegateesOf(u))
    /\ stakedBalance' = [stakedBalance EXCEPT ![u] = @ - amount]
    /\ totalStaked' = totalStaked - amount
    /\ UNCHANGED <<now, settingVars, delegVars, requestVars, rewardIndex, rate>>

DelegatedTo(v) == MapThenSumSet(LAMBDA u : delegation[u][v], Users)

\* Bounds: at most MaxDelegations delegations, and no further delegation to a
\* delegatee whose stake has drifted too far from what is delegated to it.
Room(u, v) ==
    /\ delegation[u][v] # 0 \/ MapThenSumSet(LAMBDA w : Cardinality(DelegateesOf(w)), Users) < MaxDelegations
    /\ delegateeStake[v] - DelegatedTo(v) \in -MaxDrift .. MaxDrift

Delegate(u, v, amount) ==
    /\ ~paused
    /\ Room(u, v)
    /\ FreeStake(u) >= amount
    /\ Settle({v})
    /\ delegateeStake' = [delegateeStake EXCEPT ![v] = @ + amount]
    /\ delegation' = [delegation EXCEPT ![u][v] = @ + amount]
    /\ delegatorsOf' = IF delegation[u][v] = 0
                       THEN [delegatorsOf EXCEPT ![v] = @ \cup {u}]
                       ELSE delegatorsOf
    /\ UNCHANGED <<now, settingVars, stakeVars, requestVars, rewardIndex, rate>>

-----------------------------------------------------------------------------
(* Leaving.  The two requests of a pair are separate entries, and neither  *)
(* the other way out nor a slash removes one.                              *)

Requests(u, v) == (IF revocation[u][v] # None THEN 1 ELSE 0)
                + (IF undelegation[u][v] # None THEN 1 ELSE 0)
OutstandingRequests == MapThenSumSet(LAMBDA p : Requests(p[1], p[2]), Users \X Delegatees)

\* Bound: at most MaxRequests requests are outstanding; a new request of the same
\* kind for the same pair replaces the old one.
RoomForRequest(entry) == entry # None \/ OutstandingRequests < MaxRequests

RequestRevocation(u, v) ==
    /\ ~paused
    /\ delegation[u][v] # 0
    /\ RoomForRequest(revocation[u][v])
    /\ revocation' = [revocation EXCEPT ![u][v] = epoch]
    /\ UNCHANGED <<now, settingVars, stakeVars, delegVars, undelegation, rewardIndex, rate, bankVars>>

\* Removes whatever is delegated by now, also nothing.
FinalizeRevocation(u, v) ==
    /\ ~paused
    /\ revocation[u][v] # None
    /\ epoch > revocation[u][v]
    /\ Settle({v})
    /\ delegateeStake' = [delegateeStake EXCEPT ![v] = @ - delegation[u][v]]
    /\ delegation' = [delegation EXCEPT ![u][v] = 0]
    /\ delegatorsOf' = [delegatorsOf EXCEPT ![v] = @ \ {u}]
    /\ revocation' = [revocation EXCEPT ![u][v] = None]
    /\ UNCHANGED <<now, settingVars, stakeVars, undelegation, rewardIndex, rate>>

RequestUndelegate(u, v, amount) ==
    /\ ~paused
    /\ delegation[u][v] >= amount
    /\ RoomForRequest(undelegation[u][v])
    /\ undelegation' = [undelegation EXCEPT ![u][v] = [amount |-> amount, time |-> now]]
    /\ UNCHANGED <<now, settingVars, stakeVars, delegVars, revocation, rewardIndex, rate, bankVars>>

\* What an undelegation of amount leaves of delegation d: entries that are not
\* positive are dropped.
LeftAfterUndelegateKept(d, amount) == d - amount
LeftAfterUndelegate(d, amount) == IF d > amount THEN d - amount ELSE 0

\* The requested amount leaves the delegatee's stake if the delegation still
\* exists, even when the delegation has become smaller than that.
CompleteUndelegate(u, v) ==
    LET pending == undelegation[u][v]
        listed == delegation[u][v] # 0
        left == LeftAfterUndelegate(delegation[u][v], pending.amount)
    IN  /\ ~paused
        /\ pending # None
        /\ now - pending.time >= cooldown
        /\ Settle({v})
        /\ delegation' = [delegation EXCEPT ![u][v] = IF listed THEN left ELSE 0]
        /\ delegateeStake' = [delegateeStake EXCEPT ![v] = @ - (IF listed THEN pending.amount ELSE 0)]
        /\ delegatorsOf' = [delegatorsOf EXCEPT ![v] = IF listed /\ left = 0 THEN @ \ {u} ELSE @]
        /\ undelegation' = [undelegation EXCEPT ![u][v] = None]
        /\ UNCHANGED <<now, settingVars, stakeVars, revocation, rewardIndex, rate>>

-----------------------------------------------------------------------------
(* Slashing; neither slash looks at the pause.                             *)

\* The slashed delegatee's stake falls to newStake, and every delegator in the
\* reverse index keeps that share, rounded down.
KeptShare(u, v, newStake) ==
    IF u \in delegatorsOf[v] THEN (delegation[u][v] * newStake) \div delegateeStake[v]
                             ELSE delegation[u][v]

\* What a slash of slashAmount takes from TotalStaked, when delegators lose removed.
TakenFromTotalNominal(slashAmount, removed) == slashAmount
TakenFromTotal(slashAmount, removed) == removed

RemainingDelegators(v, kept) == {u \in delegatorsOf[v] : kept[u] # 0}

ApplyDelegateeSlash(caller, v, slashAmount) ==
    LET newStake == delegateeStake[v] - slashAmount
        kept == [u \in Users |-> KeptShare(u, v, newStake)]
        lost == [u \in Users |-> delegation[u][v] - kept[u]]
        removed == SumFunctionOnSet(lost, Users)
    IN  /\ authority # None /\ caller = authority
        /\ slashAmount <= delegateeStake[v]
        /\ Settle({v})
        /\ delegateeStake' = [delegateeStake EXCEPT ![v] = newStake]
        /\ delegation' = [u \in Users |-> [delegation[u] EXCEPT ![v] = kept[u]]]
        /\ stakedBalance' = [u \in Users |-> AtLeastZero(stakedBalance[u] - lost[u])]
        /\ delegatorsOf' = [delegatorsOf EXCEPT ![v] = RemainingDelegators(v, kept)]
        /\ totalStaked' = AtLeastZero(totalStaked - TakenFromTotal(slashAmount, removed))
        /\ UNCHANGED <<now, settingVars, requestVars, rewardIndex, rate>>

\* When the delegations of u exceed the stake left, each is cut to its share.
TrimmedNot(u, v, newBalance) == delegation[u][v]
Trimmed(u, v, newBalance) ==
    IF TotalDelegated(u) > newBalance
    THEN (delegation[u][v] * newBalance) \div TotalDelegated(u)
    ELSE delegation[u][v]

SettledOnSlashNone(u) == {}
SettledOnSlash(u) == DelegateesOf(u)

SlashStake(u, amount) ==
    LET newBalance == stakedBalance[u] - amount
        kept == [v \in Delegatees |-> Trimmed(u, v, newBalance)]
        cut(v) == delegation[u][v] - kept[v]
    IN  /\ amount <= stakedBalance[u]
        /\ Settle(SettledOnSlash(u))
        /\ stakedBalance' = [stakedBalance EXCEPT ![u] = newBalance]
        /\ totalStaked' = totalStaked - amount
        /\ delegateeStake' = [v \in Delegatees |->
                IF cut(v) > 0 THEN AtLeastZero(delegateeStake[v] - cut(v)) ELSE delegateeStake[v]]
        /\ delegation' = [delegation EXCEPT ![u] = kept]
        /\ delegatorsOf' = [v \in Delegatees |->
                IF cut(v) > 0 /\ kept[v] = 0 THEN delegatorsOf[v] \ {u} ELSE delegatorsOf[v]]
        /\ UNCHANGED <<now, settingVars, requestVars, rewardIndex, rate>>

-----------------------------------------------------------------------------
(* Rewards.                                                                *)

\* With nothing staked the funding is accepted and the index stays.
\* Bound: the index reaches at most MaxIndex.
IndexAfterFunding(amount) ==
    IF totalStaked > 0 THEN rewardIndex + (amount * SCALE) \div totalStaked ELSE rewardIndex

FundRewards(amount) ==
    /\ ~paused
    /\ IndexAfterFunding(amount) <= MaxIndex
    /\ rewardIndex' = IndexAfterFunding(amount)
    /\ UNCHANGED <<now, settingVars, stakeVars, delegVars, requestVars, rate, bankVars>>

ClaimDelegateeRewards(v) ==
    /\ ~paused
    /\ SettleAndPay({v}, {v}, {})
    /\ UNCHANGED <<now, settingVars, stakeVars, delegVars, requestVars, rewardIndex, rate>>

ClaimCommission(v) ==
    /\ ~paused
    /\ SettleAndPay({v}, {}, {v})
    /\ UNCHANGED <<now, settingVars, stakeVars, delegVars, requestVars, rewardIndex, rate>>

SetCommission(v, bps) ==
    /\ ~paused
    /\ bps <= FullRate
    /\ Settle({v})
    /\ rate' = [rate EXCEPT ![v] = bps]
    /\ UNCHANGED <<now, settingVars, stakeVars, delegVars, requestVars, rewardIndex>>

-----------------------------------------------------------------------------
(* The admin's settings, and the clock.                                    *)

\* Bound: the epoch reaches at most MaxEpoch.
AdvanceEpoch ==
    /\ ~paused
    /\ epoch < MaxEpoch
    /\ epoch' = epoch + 1
    /\ UNCHANGED <<now, paused, cooldown, authority, stakeVars, delegVars, requestVars,
                   rewardIndex, rate, bankVars>>

SetUndelegationCooldown(seconds) ==
    /\ ~paused
    /\ cooldown' = seconds
    /\ UNCHANGED <<now, epoch, paused, authority, stakeVars, delegVars, requestVars,
                   rewardIndex, rate, bankVars>>

SetSlashingAuthority(a) ==
    /\ authority' = a
    /\ UNCHANGED <<now, epoch, paused, cooldown, stakeVars, delegVars, requestVars,
                   rewardIndex, rate, bankVars>>

SetPaused(value) ==
    /\ paused' = value
    /\ UNCHANGED <<now, epoch, cooldown, authority, stakeVars, delegVars, requestVars,
                   rewardIndex, rate, bankVars>>

Tick ==
    /\ now < MaxTime
    /\ now' = now + 1
    /\ UNCHANGED <<settingVars, stakeVars, delegVars, requestVars, rewardIndex, rate, bankVars>>

UserNext ==
    \E u \in Users :
        \/ \E amount \in Amounts : Stake(u, amount) \/ Unstake(u, amount) \/ SlashStake(u, amount)
        \/ \E v \in Delegatees :
            \/ RequestRevocation(u, v) \/ FinalizeRevocation(u, v) \/ CompleteUndelegate(u, v)
            \/ \E amount \in Amounts : Delegate(u, v, amount) \/ RequestUndelegate(u, v, amount)

DelegateeNext ==
    \E v \in Delegatees :
        \/ ClaimDelegateeRewards(v) \/ ClaimCommission(v)
        \/ \E bps \in Rates : SetCommission(v, bps)
        \/ \E a \in Authorities, amount \in Amounts : ApplyDelegateeSlash(a, v, amount)

AdminNext ==
    \/ \E amount \in Fundings : FundRewards(amount)
    \/ AdvanceEpoch
    \/ \E seconds \in Cooldowns : SetUndelegationCooldown(seconds)
    \/ \E a \in Authorities : SetSlashingAuthority(a)
    \/ \E value \in BOOLEAN : SetPaused(value)

Next == Tick \/ UserNext \/ DelegateeNext \/ AdminNext

Spec == Init /\ [][Next]_vars

-----------------------------------------------------------------------------
\* Entries have the types the getters read; no listed delegation is negative.
TypeOK ==
    /\ now \in 0..MaxTime /\ epoch \in 1..MaxEpoch /\ paused \in BOOLEAN
    /\ cooldown \in Nat /\ authority \in Authorities \cup {None}
    /\ stakedBalance \in [Users -> Nat] /\ totalStaked \in Nat
    /\ delegation \in [Users -> [Delegatees -> Nat]]
    /\ delegatorsOf \in [Delegatees -> SUBSET Users]
    /\ delegateeStake \in [Delegatees -> Int]
    /\ revocation \in [Users -> [Delegatees -> 1..MaxEpoch \cup {None}]]
    /\ undelegation \in [Users -> [Delegatees -> [amount : Amounts, time : 0..MaxTime] \cup {None}]]
    /\ rewardIndex \in 0..MaxIndex /\ delegateeIndex \in [Delegatees -> 0..MaxIndex]
    /\ rate \in [Delegatees -> 0..FullRate]
    /\ pendingRewards \in [Delegatees -> Nat] /\ commissionBalance \in [Delegatees -> Nat]

\* The two summaries of the stakes are exact, through slashes whose rounding takes
\* more than their nominal amount: TotalStaked, the divisor of every funding, and
\* the reverse index, by which a slash of a delegatee reaches everybody who
\* delegates to it and nobody else.
SummariesExact ==
    /\ totalStaked = SumFunctionOnSet(stakedBalance, Users)
    /\ \A v \in Delegatees : delegatorsOf[v] = {u \in Users : delegation[u][v] # 0}

\* No interleaving of slashes and undelegations leaves a user delegating more
\* than the user has: what is free is never negative.
DelegatedCovered == \A u \in Users : TotalDelegated(u) <= stakedBalance[u]

\* What the claimable getters show for v: net rewards and commission.
ClaimableRewards(v) == pendingRewards[v] + Gross(v) - Commission(v)
ClaimableCommission(v) == commissionBalance[v] + Commission(v)

\* Only a funding or the delegatee's own claim changes what a delegatee may claim:
\* stakes that move, slashes and new rates never act on past rewards.
PastRewardsSettled ==
    [][rewardIndex' = rewardIndex =>
        \A v \in Delegatees :
            /\ ClaimableRewards(v)' # ClaimableRewards(v) => ClaimDelegateeRewards(v)
            /\ ClaimableCommission(v)' # ClaimableCommission(v) => ClaimCommission(v)]_vars

\* The comment on DelegateeStake: the total delegation stake a delegatee received.
\* An undelegation requested before the delegation shrank takes out more than is
\* left, and the rounding of a delegatee's slash leaves stake nobody delegates.
DelegateeStakeIsSum ==
    \A v \in Delegatees : delegateeStake[v] = DelegatedTo(v)
=============================================================================
