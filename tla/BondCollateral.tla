--------------------------- MODULE BondCollateral ---------------------------
(***************************************************************************)
(* The bond-collateral contract: collateral positions that back bonds and  *)
(* are liquidated at an oracle's price when they no longer do, and bonds   *)
(* of inspectors that are locked during disputes and slashed through the   *)
(* slashing module, in one invocation with its record.                     *)
(*                                                                         *)
(* Admin, guardian and upgrades are those of UpgradeGovernance; admin      *)
(* actions carry no caller.  The warning threshold only decides about an   *)
(* event: the admin always passes one above the liquidation threshold.     *)
(* Inspectors' bonds are numbers: no token moves with them.  The float     *)
(* ratio of issue_bond and withdraw_collateral may fall just short of a    *)
(* whole percent, so it accepts at most what the exact ratio here accepts  *)
(* (amounts below 2^53).  The ratio a liquidation is decided by is an      *)
(* integer cut to 32 bits: a position covered well enough has a low one.   *)
(***************************************************************************)
EXTENDS SlashingModule

CONSTANTS
    Users,          \* owners and keepers
    Funds,          \* tokens a user starts with
    Positions,      \* position ids
    MaxBond,        \* bound on the bonds of one position
    PriceScale,     \* the price of parity, 10_000_000
    Prices,         \* what the oracle answers: nothing checks its sign
    RatioModulus,   \* 2^32
    Staleness,      \* limits the admin sets
    Thresholds,     \* liquidation thresholds the admin sets, in percent
    TargetRatios,   \* health ratios the admin sets
    RewardCaps,     \* keeper reward caps the admin sets
    DefaultThreshold, DefaultTarget, DefaultCap,    \* 120, 150, 500
    Amounts,        \* amounts paid in or out
    Inspections

Holdings == [owner : Users, collateral : Nat, bond : Nat]

ASSUME BondAssumption ==
    /\ None \notin Holdings
    /\ IsFiniteSet(Positions) /\ Funds \in Nat /\ MaxBond \in Nat /\ PriceScale \in Nat \ {0}
    /\ Prices \subseteq Int /\ Staleness \subseteq Nat /\ Amounts \subseteq Nat \ {0}
    /\ RatioModulus \in Nat
    /\ Thresholds \cup {DefaultThreshold} \subseteq {t \in Nat : t >= 100 /\ t < RatioModulus}
    /\ TargetRatios \cup {DefaultTarget} \subseteq {t \in Nat : t > 100}
    /\ RewardCaps \cup {DefaultCap} \subseteq {cap \in Nat : 2 * cap <= FullBps}

VARIABLES
    position,       \* BondCollateral by position id
    totalCollateral,
    bondTokens,     \* the contract's tokens (external)
    purse,          \* the users' tokens (external)
    liquidationThreshold, targetHealthRatio, keeperRewardCap,
    oracleStaleness, \* None until an oracle feed is set
    bondPaused,
    operatorSet, slashingNamed,     \* Operator and SlashingModule are set
    inspectorBond, locks            \* by inspector

moneyVars     == <<position, totalCollateral, bondTokens, purse>>
riskVars      == <<liquidationThreshold, targetHealthRatio, keeperRewardCap, oracleStaleness>>
linkVars      == <<operatorSet, slashingNamed>>
inspectorVars == <<inspectorBond, locks>>
bondVars      == <<moneyVars, riskVars, bondPaused, linkVars, inspectorVars>>

BondInit ==
    /\ position = [p \in Positions |-> None] /\ totalCollateral = 0
    /\ bondTokens = 0 /\ purse = [u \in Users |-> Funds]
    /\ liquidationThreshold = DefaultThreshold /\ targetHealthRatio = DefaultTarget
    /\ keeperRewardCap = DefaultCap /\ oracleStaleness = None
    /\ bondPaused = FALSE /\ operatorSet = FALSE /\ slashingNamed = FALSE
    /\ inspectorBond = [i \in Inspectors |-> 0] /\ locks = [i \in Inspectors |-> {}]

OwnedBy(p, u) == position[p] # None /\ position[p].owner = u

\* At parity; without a bond every threshold is met.
Backed(collateral, bond) ==
    bond # 0 => (100 * collateral) \div bond >= liquidationThreshold

-----------------------------------------------------------------------------
DepositCollateral(u, p, amount) ==
    /\ ~bondPaused
    /\ purse[u] >= amount
    /\ position[p] = None \/ OwnedBy(p, u)
    /\ position' = [position EXCEPT ![p] =
            IF @ = None THEN [owner |-> u, collateral |-> amount, bond |-> 0]
            ELSE [@ EXCEPT !.collateral = position[p].collateral + amount]]
    /\ totalCollateral' = totalCollateral + amount
    /\ bondTokens' = bondTokens + amount
    /\ purse' = [purse EXCEPT ![u] = @ - amount]
    /\ UNCHANGED <<now, riskVars, bondPaused, linkVars, inspectorVars, slashingVars>>

IssueBond(u, p, amount) ==
    /\ ~bondPaused
    /\ OwnedBy(p, u)
    /\ position[p].bond + amount <= MaxBond
    /\ Backed(position[p].collateral, position[p].bond + amount)
    /\ position' = [position EXCEPT ![p].bond = @ + amount]
    /\ UNCHANGED <<now, totalCollateral, bondTokens, purse, riskVars, bondPaused,
                   linkVars, inspectorVars, slashingVars>>

RedeemBond(u, p, amount) ==
    /\ ~bondPaused
    /\ OwnedBy(p, u)
    /\ position[p].bond >= amount
    /\ position' = [position EXCEPT ![p].bond = @ - amount]
    /\ UNCHANGED <<now, totalCollateral, bondTokens, purse, riskVars, bondPaused,
                   linkVars, inspectorVars, slashingVars>>

WithdrawCollateral(u, p, amount) ==
    /\ ~bondPaused
    /\ OwnedBy(p, u)
    /\ position[p].collateral >= amount
    /\ Backed(position[p].collateral - amount, position[p].bond)
    /\ position' = [position EXCEPT ![p].collateral = @ - amount]
    /\ bondTokens >= amount
    /\ bondTokens' = bondTokens - amount
    /\ purse' = [purse EXCEPT ![u] = @ + amount]
    /\ totalCollateral' = totalCollateral - amount
    /\ UNCHANGED <<now, riskVars, bondPaused, linkVars, inspectorVars, slashingVars>>

\* What restores the target ratio, at least one unit, at most everything.
SeizeAmount(collateral, bond, price) ==
    LET raw == (targetHealthRatio * bond * PriceScale - 100 * collateral * price)
                    \div (price * (targetHealthRatio - 100))
    IN  IF price <= 0 THEN collateral
        ELSE Lesser(IF raw < 1 THEN 1 ELSE raw, collateral)

\* The debt retired is what the seized collateral is worth.
BondReductionRewarded(seized, bond, price) ==
    LET kept == seized - (seized * keeperRewardCap) \div FullBps
    IN  Lesser((kept * price) \div PriceScale, bond)
BondReduction(seized, bond, price) == Lesser((seized * price) \div PriceScale, bond)

\* A closed position takes all of its collateral out of the total.
TakenOutSeized(p, seized, closed) == seized
TakenOut(p, seized, closed) == IF closed THEN position[p].collateral ELSE seized

\* The oracle's answer must be fresh; without a feed the price is parity.
PriceAccepted(price, answeredAt) ==
    IF oracleStaleness = None THEN price = PriceScale
    ELSE now <= answeredAt + oracleStaleness

\* Division of i128 rounds towards 0.
Truncated(n, d) == IF n >= 0 THEN n \div d ELSE -((-n) \div d)

\* The ratio in percent, cast to u32.
HealthRatioExact(collateral, bond, price) == Truncated(collateral * price * 100, PriceScale * bond)
HealthRatio(collateral, bond, price) == HealthRatioExact(collateral, bond, price) % RatioModulus

Liquidate(k, p, price, answeredAt) ==
    LET collateral == position[p].collateral
        bond       == position[p].bond
        seized     == SeizeAmount(collateral, bond, price)
        bondLeft   == bond - BondReduction(seized, bond, price)
        closed     == seized = collateral \/ bondLeft = 0
        reward     == (seized * keeperRewardCap) \div FullBps
    IN  /\ ~bondPaused
        /\ position[p] # None
        /\ bond # 0 /\ collateral # 0
        /\ PriceAccepted(price, answeredAt)
        /\ HealthRatio(collateral, bond, price) < liquidationThreshold
        /\ position' = [position EXCEPT ![p] =
                IF closed THEN None
                ELSE [@ EXCEPT !.collateral = collateral - seized, !.bond = bondLeft]]
        /\ totalCollateral' = totalCollateral - TakenOut(p, seized, closed)
        /\ bondTokens >= reward
        /\ bondTokens' = bondTokens - reward
        /\ purse' = [purse EXCEPT ![k] = @ + reward]
        /\ UNCHANGED <<now, riskVars, bondPaused, linkVars, inspectorVars, slashingVars>>

-----------------------------------------------------------------------------
DepositBond(i, amount) ==
    /\ ~bondPaused
    /\ inspectorBond[i] + amount <= MaxBond
    /\ inspectorBond' = [inspectorBond EXCEPT ![i] = @ + amount]
    /\ UNCHANGED <<now, moneyVars, riskVars, bondPaused, linkVars, locks, slashingVars>>

UnlockedUnless(i, amount) == locks[i] = {} \/ amount < inspectorBond[i]
Unlocked(i, amount) == locks[i] = {}

WithdrawBond(i, amount) ==
    /\ ~bondPaused
    /\ Unlocked(i, amount)
    /\ amount <= inspectorBond[i]
    /\ inspectorBond' = [inspectorBond EXCEPT ![i] = @ - amount]
    /\ UNCHANGED <<now, moneyVars, riskVars, bondPaused, linkVars, locks, slashingVars>>

LockBond(i, inspection) ==
    /\ ~bondPaused /\ operatorSet
    /\ inspection \notin locks[i]
    /\ locks' = [locks EXCEPT ![i] = @ \cup {inspection}]
    /\ UNCHANGED <<now, moneyVars, riskVars, bondPaused, linkVars, inspectorBond, slashingVars>>

UnlockBond(i, inspection) ==
    /\ ~bondPaused /\ operatorSet
    /\ inspection \in locks[i]
    /\ locks' = [locks EXCEPT ![i] = @ \ {inspection}]
    /\ UNCHANGED <<now, moneyVars, riskVars, bondPaused, linkVars, inspectorBond, slashingVars>>

\* The record in the slashing module and the bond change together.
ExecuteSlash(i, amount) ==
    /\ ~bondPaused
    /\ amount <= inspectorBond[i]
    /\ slashingNamed
    /\ Slash(i, amount)
    /\ inspectorBond' = [inspectorBond EXCEPT ![i] = @ - amount]
    /\ UNCHANGED <<now, moneyVars, riskVars, bondPaused, linkVars, locks>>

-----------------------------------------------------------------------------
SetThresholds(threshold) ==
    /\ ~bondPaused
    /\ liquidationThreshold' = threshold
    /\ UNCHANGED <<now, moneyVars, targetHealthRatio, keeperRewardCap, oracleStaleness,
                   bondPaused, linkVars, inspectorVars, slashingVars>>

SetTargetHealthRatio(target) ==
    /\ ~bondPaused
    /\ targetHealthRatio' = target
    /\ UNCHANGED <<now, moneyVars, liquidationThreshold, keeperRewardCap, oracleStaleness,
                   bondPaused, linkVars, inspectorVars, slashingVars>>

SetKeeperRewardCap(cap) ==
    /\ ~bondPaused
    /\ keeperRewardCap' = cap
    /\ UNCHANGED <<now, moneyVars, liquidationThreshold, targetHealthRatio, oracleStaleness,
                   bondPaused, linkVars, inspectorVars, slashingVars>>

SetOracleFeed(staleness) ==
    /\ ~bondPaused
    /\ oracleStaleness' = staleness
    /\ UNCHANGED <<now, moneyVars, liquidationThreshold, targetHealthRatio, keeperRewardCap,
                   bondPaused, linkVars, inspectorVars, slashingVars>>

SetBondOperator ==
    /\ ~bondPaused
    /\ operatorSet' = TRUE
    /\ UNCHANGED <<now, moneyVars, riskVars, bondPaused, slashingNamed, inspectorVars, slashingVars>>

SetSlashingModule ==
    /\ ~bondPaused
    /\ slashingNamed' = TRUE
    /\ UNCHANGED <<now, moneyVars, riskVars, bondPaused, operatorSet, inspectorVars, slashingVars>>

SetBondPaused(paused) ==
    /\ bondPaused' = paused
    /\ UNCHANGED <<now, moneyVars, riskVars, linkVars, inspectorVars, slashingVars>>

BondTick == Tick /\ UNCHANGED <<bondVars, slashingVars>>

PositionNext ==
    \/ BondTick
    \/ \E paused \in BOOLEAN : SetBondPaused(paused)
    \/ \E threshold \in Thresholds : SetThresholds(threshold)
    \/ \E target \in TargetRatios : SetTargetHealthRatio(target)
    \/ \E cap \in RewardCaps : SetKeeperRewardCap(cap)
    \/ \E staleness \in Staleness : SetOracleFeed(staleness)
    \/ \E p \in Positions, u \in Users :
        \/ \E amount \in Amounts :
            \/ DepositCollateral(u, p, amount) \/ WithdrawCollateral(u, p, amount)
            \/ IssueBond(u, p, amount) \/ RedeemBond(u, p, amount)
        \/ \E price \in Prices, answeredAt \in 0..now : Liquidate(u, p, price, answeredAt)

InspectorNext ==
    \/ SetBondOperator \/ SetSlashingModule
    \/ \E paused \in BOOLEAN : SetBondPaused(paused)
    \/ \E i \in Inspectors :
        \/ \E amount \in Amounts : DepositBond(i, amount) \/ WithdrawBond(i, amount) \/ ExecuteSlash(i, amount)
        \/ \E inspection \in Inspections : LockBond(i, inspection) \/ UnlockBond(i, inspection)

BondNext ==
    \/ PositionNext
    \/ InspectorNext
    \/ SlashingNext /\ UNCHANGED bondVars

BondSpec ==
    /\ now = 0 /\ BondInit /\ SlashingInit
    /\ [][BondNext]_<<now, bondVars, slashingVars>>

-----------------------------------------------------------------------------
\* Nothing is negative, and only owners of collateral have a position.
BondTypeOK ==
    /\ position \in [Positions -> Holdings \cup {None}]
    /\ {totalCollateral, bondTokens} \subseteq Nat /\ purse \in [Users -> Nat]
    /\ {liquidationThreshold, targetHealthRatio, keeperRewardCap} \subseteq Nat
    /\ liquidationThreshold >= 100 /\ targetHealthRatio > 100 /\ 2 * keeperRewardCap <= FullBps
    /\ oracleStaleness \in Nat \cup {None}
    /\ {bondPaused, operatorSet, slashingNamed} \subseteq BOOLEAN
    /\ inspectorBond \in [Inspectors -> Nat] /\ locks \in [Inspectors -> SUBSET Inspections]

CollateralOf(p) == IF position[p] = None THEN 0 ELSE position[p].collateral

\* The total is the sum of the positions through deposits, withdrawals, partial
\* and full liquidations, and the contract has at least these tokens: keepers are
\* never paid with the collateral of the positions that stay.
CollateralBooked ==
    /\ totalCollateral = SumFunctionOnSet([p \in Positions |-> CollateralOf(p)], Positions)
    /\ totalCollateral <= bondTokens

\* A position that survives its liquidation was worth no less than its bonds, and
\* is afterwards covered no worse than before, but for the rounding of one unit of
\* bond at a price that is not whole, also when it was liquidated only because its
\* ratio was cut to 32 bits.  It says nothing of a position that is closed.
LiquidationRepairs ==
    [][\A p \in Positions, k \in Users, price \in Prices, answeredAt \in 0..now :
        LET rounding == IF price % PriceScale = 0 THEN 0 ELSE 1
        IN  Liquidate(k, p, price, answeredAt) /\ position'[p] # None =>
                /\ position[p].collateral * price >= PriceScale * position[p].bond
                /\ position'[p].collateral * position[p].bond
                        >= position[p].collateral * (position'[p].bond - rounding)]_position

\* Only positions below the threshold are liquidated: "Collateral ratio using
\* oracle-adjusted price" is what liquidate compares with it.
OnlyUnsoundLiquidated ==
    [][\A p \in Positions, k \in Users, price \in Prices, answeredAt \in 0..now :
        Liquidate(k, p, price, answeredAt) =>
            HealthRatioExact(position[p].collateral, position[p].bond, price)
                < liquidationThreshold]_position

\* A bond under dispute leaves only through slashes; each slash takes from the bond
\* what the other contract records, and only slashes are recorded.
LockedBondStays ==
    [][\A i \in Inspectors :
        LET less == inspectorBond[i] - inspectorBond'[i]
        IN  \/ slashHistory'[i] = slashHistory[i] /\ (less > 0 => locks[i] = {})
            \/ less > 0 /\ slashHistory'[i] = Append(slashHistory[i], less)]_<<inspectorBond, slashHistory>>
=============================================================================
