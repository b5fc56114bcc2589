---------------------------- MODULE EpochRewards ----------------------------
(***************************************************************************)
(* The epoch_rewards contract: rewards spread over the stakers through an  *)
(* index, booked per epoch; epochs are sealed one after the other once     *)
(* their time has run.                                                     *)
(*                                                                         *)
(* The contract keeps accounts only: it moves no tokens.  Left out: events *)
(* and getters.                                                            *)
(***************************************************************************)
EXTENDS StakeLedger

CONSTANTS
    Durations,      \* epoch durations callers pass
    MaxEpochs       \* bound on the epochs opened

EpochIds == 1 .. MaxEpochs

\* sealedAt is None until the epoch is sealed (end_ts, seal_ts and sealed).
EpochInfos == [start : Nat, duration : Durations, sealedAt : Nat \cup {None},
               rewards : Nat, carried : Nat, dust : Nat,
               indexAtSeal : Nat, claimableAtSeal : Nat]

ASSUME EpochAssumption ==
    /\ Durations \subseteq Nat /\ MaxEpochs \in Nat \ {0} /\ None \notin EpochInfos

VARIABLES
    epochOperator, epochPaused, currentEpoch,
    epochs,         \* Epoch by number
    startIndex,     \* EpochStartIndex by number
    epochIndex, epochTotal, epochStake, unclaimed,
    claimed         \* history: what claims have returned to each user

epochSettings == <<epochOperator, epochPaused>>
epochStakes   == <<epochTotal, epochStake, unclaimed, claimed>>
epochBooks    == <<currentEpoch, epochs, startIndex>>
epochVars     == <<epochSettings, epochStakes, epochBooks, epochIndex>>

Opened(start, duration, carried) ==
    [start |-> start, duration |-> duration, sealedAt |-> None, rewards |-> 0,
     carried |-> carried, dust |-> 0, indexAtSeal |-> 0, claimableAtSeal |-> 0]

EpochInit ==
    /\ epochOperator = None /\ epochPaused = FALSE
    /\ currentEpoch = 1 /\ epochIndex = 0 /\ epochTotal = 0
    /\ \E duration \in Durations :
         epochs = [n \in EpochIds |-> IF n = 1 THEN Opened(0, duration, 0) ELSE None]
    /\ startIndex = [n \in EpochIds |-> 0]
    /\ epochStake = [u \in Users |-> [amount |-> 0, index |-> 0]]
    /\ unclaimed = [u \in Users |-> 0] /\ claimed = [u \in Users |-> 0]

-----------------------------------------------------------------------------
\* calc_pending
LivePending(u) == Share(epochStake[u].amount, epochIndex - epochStake[u].index)

\* get_claimable
EpochClaimable(u) == LivePending(u) + unclaimed[u]

\* What a change of u's stake leaves in UnclaimedRewards.
BankedAgain(u) == EpochClaimable(u) + LivePending(u)
Banked(u) == EpochClaimable(u)

Restake(u, amount) ==
    /\ unclaimed' = [unclaimed EXCEPT ![u] = Banked(u)]
    /\ epochStake' = [epochStake EXCEPT ![u] = [amount |-> amount, index |-> epochIndex]]
    /\ epochTotal' = epochTotal + amount - epochStake[u].amount
    /\ UNCHANGED <<epochSettings, epochBooks, epochIndex, claimed>>

\* Staking and unstaking look at no pause.  Bound: MaxStaked.
EpochStakeMore(u, amount) ==
    /\ epochTotal + amount <= MaxStaked
    /\ Restake(u, epochStake[u].amount + amount)

EpochUnstake(u, amount) ==
    /\ epochStake[u].amount >= amount
    /\ Restake(u, epochStake[u].amount - amount)

ByOperatorOrAdmin(by) == by = Admin \/ (epochOperator # None /\ by = epochOperator)

EpochIncrement(amount) == (amount * SCALE) \div epochTotal

\* What of a funding the index does not hand out: all of it without stakers.
FundingDust(amount) ==
    IF epochTotal = 0 THEN amount ELSE amount - Share(epochTotal, EpochIncrement(amount))

Funded == SumFunctionOnSet([n \in 1..currentEpoch |-> epochs[n].rewards], 1..currentEpoch)

\* Bound: MaxFunded.
FundEpochRewards(by, amount) ==
    /\ ~epochPaused
    /\ ByOperatorOrAdmin(by)
    /\ Funded + amount <= MaxFunded
    /\ epochIndex' = IF epochTotal = 0 THEN epochIndex ELSE epochIndex + EpochIncrement(amount)
    /\ epochs' = [epochs EXCEPT ![currentEpoch].rewards = @ + amount,
                                ![currentEpoch].dust = @ + FundingDust(amount)]
    /\ UNCHANGED <<epochSettings, epochStakes, currentEpoch, startIndex>>

\* What a seal takes for claimable: the whole index growth of the epoch, at the
\* total staked when the epoch is sealed.
ClaimableAtSeal(n) == Share(epochTotal, epochIndex - startIndex[n])

DustAtSeal(n) == IF epochs[n].rewards >= ClaimableAtSeal(n)
                 THEN epochs[n].rewards - ClaimableAtSeal(n) ELSE 0

EpochOver(n) == now >= epochs[n].start + epochs[n].duration

\* Where the epoch after n starts.
NextStartNow(n) == now
NextStart(n) == epochs[n].start + epochs[n].duration

\* Only the current epoch can be sealed, which opens the next one where this
\* one ended, however late it is sealed.  No pause is looked at.  Bound: MaxEpochs.
SealEpoch(by, n, duration) ==
    /\ ByOperatorOrAdmin(by)
    /\ n = currentEpoch /\ n < MaxEpochs
    /\ epochs[n].sealedAt = None
    /\ EpochOver(n)
    /\ currentEpoch' = n + 1
    /\ epochs' = [epochs EXCEPT
           ![n].sealedAt = now, ![n].dust = DustAtSeal(n),
           ![n].indexAtSeal = epochIndex, ![n].claimableAtSeal = ClaimableAtSeal(n),
           ![n + 1] = Opened(NextStart(n), duration, epochs[n].carried + epochs[n].rewards)]
    /\ startIndex' = [startIndex EXCEPT ![n + 1] = epochIndex]
    /\ UNCHANGED <<epochSettings, epochStakes, epochIndex>>

\* Not before the first seal.
EpochClaim(u) ==
    /\ currentEpoch > 1
    /\ claimed' = [claimed EXCEPT ![u] = @ + EpochClaimable(u)]
    /\ epochStake' = [epochStake EXCEPT ![u].index = epochIndex]
    /\ unclaimed' = [unclaimed EXCEPT ![u] = 0]
    /\ UNCHANGED <<epochSettings, epochBooks, epochIndex, epochTotal>>

EpochSetOperator(by, op) ==
    /\ by = Admin
    /\ epochOperator' = op
    /\ UNCHANGED <<epochPaused, epochStakes, epochBooks, epochIndex>>

EpochSetPaused(by, flag) ==
    /\ by = Admin
    /\ epochPaused' = flag
    /\ UNCHANGED <<epochOperator, epochStakes, epochBooks, epochIndex>>

EpochTick == Tick /\ UNCHANGED epochVars

EpochNext ==
    \/ EpochTick
    \/ /\ \/ \E u \in Users, amount \in Amounts :
               EpochStakeMore(u, amount) \/ EpochUnstake(u, amount)
          \/ \E u \in Users : EpochClaim(u)
          \/ \E by \in Admins :
               \/ \E amount \in Amounts : FundEpochRewards(by, amount)
               \/ \E n \in EpochIds, duration \in Durations : SealEpoch(by, n, duration)
               \/ \E op \in Admins : EpochSetOperator(by, op)
               \/ \E flag \in BOOLEAN : EpochSetPaused(by, flag)
       /\ UNCHANGED now

EpochSpec == now = 0 /\ EpochInit /\ [][EpochNext]_<<now, epochVars>>

-----------------------------------------------------------------------------
\* Entries have the types the getters read, and the epochs form a chain: all
\* before the current one are sealed, none before its time, and each starts,
\* in time, index and funds carried, where the one before it ended.
EpochTypeOK ==
    /\ epochOperator \in Admins \cup {None} /\ epochPaused \in BOOLEAN
    /\ currentEpoch \in EpochIds /\ epochIndex \in Nat /\ epochTotal \in Nat
    /\ epochs \in [EpochIds -> EpochInfos \cup {None}]
    /\ unclaimed \in [Users -> Nat] /\ claimed \in [Users -> Nat]
    /\ epochStake \in [Users -> [amount : Nat, index : 0..epochIndex]]
    /\ epochTotal = SumOf([u \in Users |-> epochStake[u].amount])
    /\ \A n \in EpochIds : (epochs[n] # None) = (n <= currentEpoch)
    /\ \A n \in 1 .. currentEpoch - 1 :
         /\ epochs[n].sealedAt \in epochs[n + 1].start .. now
         /\ epochs[n + 1].start = epochs[n].start + epochs[n].duration
         /\ epochs[n + 1].carried = epochs[n].carried + epochs[n].rewards
         /\ startIndex[n + 1] = epochs[n].indexAtSeal
    /\ epochs[currentEpoch].sealedAt = None

\* Whatever stakes, unstakes, seals and claims happen between fundings, the
\* stakers never get, in claims and what they may still claim, more than the
\* epochs were funded with.
EarningsFunded ==
    SumOf([u \in Users |-> claimed[u] + EpochClaimable(u)]) <= Funded

\* The comment at the field total_claimable_at_seal: no epoch's claimable sum
\* exceeds what the epoch was funded with.
SealedWithinFunding ==
    \A n \in 1 .. currentEpoch - 1 : epochs[n].claimableAtSeal <= epochs[n].rewards
=============================================================================
