------------------------ MODULE AdministrationProofs ------------------------
(* Theorems about the administrative contracts: the two upgrade protocols,   *)
(* for all clients of the library, signatories, hashes and delays; slashes   *)
(* and jailings of slashing_module, for all evidence, penalties and windows; *)
(* collateral, liquidations and inspectors' bonds of bond_collateral, for    *)
(* all positions, prices and amounts; and all of these with governance,      *)
(* timelock and multisig_admin, as the runs compose them.                    *)
EXTENDS MCAdministration, GovernanceProofs

\* A proposal is dated, and is for the version after the one in force: whatever
\* raises the version clears the proposal.
UpInv ==
    /\ now \in Nat /\ version \in Nat
    /\ entry \in {Entries[c] : c \in Clients}
    /\ upAdmin \in Signatories /\ guardian \in Signatories \cup {None}
    /\ upDelay \in Nat
    /\ pendingHash # None => pendingAt \in Nat /\ pendingVersion = version + 1

\* A new contract has no proposal.
LEMMA UpInvInit == now = 0 /\ UpInit => UpInv
  BY UpgradeAssumption, UpgradeTermsAssumption DEF UpInit, UpInv

\* rent_to_own is the only client whose guardian is optional.
LEMMA GuardianOptional ==
    ASSUME UpInv, ~entry.guardianRequired
    PROVE  entry = RentToOwnUpgrades
<1>1. PICK c \in Clients : entry = Entries[c]
  BY DEF UpInv
<1>2. /\ Versioned.guardianRequired /\ Unversioned.guardianRequired
      /\ BondCollateralUpgrades.guardianRequired
  BY DEF Versioned, Unversioned, BondCollateralUpgrades
<1>3. entry \in {Versioned, Unversioned, BondCollateralUpgrades, RentToOwnUpgrades}
  BY <1>1, UpgradeAssumption DEF Entries, StakingPoolUpgrades, RentWalletUpgrades,
     DealEscrowUpgrades, MvpStakingPoolUpgrades, WhistleblowerUpgrades
<1> QED
  BY <1>2, <1>3

\* What an accepted request for a version asks for.
LEMMA SafeVersion ==
    ASSUME UpInv, NEW v, UpgradeSafe(v)
    PROVE  Requested(v) = version + 1 /\ Requested(v) \in Nat
  BY DEF UpInv, UpgradeSafe

\* What a step that raises the version must have in its favour.
Guarded ==
    /\ version' = version + 1 /\ upAdmin \in signers'
    /\ \/ pendingHash # None /\ code' = pendingHash /\ now >= pendingAt + upDelay
       \/ guardian \in signers'
       \/ entry = RentToOwnUpgrades /\ guardian = None

\* Every entry point of the core keeps the invariant, and changes code only guarded.
LEMMA UpStep == UpInv /\ [UpNext]_<<now, upVars>> => UpInv' /\ (version' # version => Guarded)
<1> SUFFICES ASSUME UpInv, [UpNext]_<<now, upVars>>
             PROVE  UpInv' /\ (version' # version => Guarded)
  OBVIOUS
<1>1. ASSUME NEW by \in SUBSET Signatories, NEW hash \in Hashes, NEW v \in 0..MaxVersion,
             ProposeUpgrade(by, hash, v)
      PROVE  UpInv' /\ version' = version
  BY <1>1, SafeVersion DEF ProposeUpgrade, UpInv, upRoles
<1>2. ASSUME NEW by \in SUBSET Signatories, NEW hash \in Hashes, NEW v \in 0..MaxVersion,
             EmergencyUpgrade(by, hash, v)
      PROVE  UpInv' /\ Guarded
  <2>1. version' = version + 1 /\ version' \in Nat
    BY <1>2, SafeVersion DEF EmergencyUpgrade
  <2>2. UpInv'
    BY <1>2, <2>1 DEF EmergencyUpgrade, PendingAfterEmergency, ClearPending, UpInv, upRoles
  <2>3. upAdmin \in signers'
    BY <1>2 DEF EmergencyUpgrade, ByAdmin
  <2>4. CASE guardian = None
    BY <1>2, <2>1, <2>2, <2>3, <2>4, GuardianOptional DEF EmergencyUpgrade, GuardianSigned, Guarded
  <2>5. CASE guardian # None
    BY <1>2, <2>1, <2>2, <2>3, <2>5 DEF EmergencyUpgrade, GuardianSigned, Guarded
  <2> QED
    BY <2>4, <2>5
<1>3. ASSUME NEW by \in SUBSET Signatories, NEW hash \in Hashes, ExecuteUpgrade(by, hash)
      PROVE  UpInv' /\ Guarded
  <2>1. /\ version' = version + 1 /\ version' \in Nat /\ pendingHash # None
        /\ pendingHash = hash /\ code' = hash
    BY <1>3 DEF ExecuteUpgrade, ExecutedVersion, UpInv
  <2>2. UpInv'
    BY <1>3, <2>1 DEF ExecuteUpgrade, ClearPending, UpInv, upRoles
  <2> QED
    BY <1>3, <2>1, <2>2 DEF ExecuteUpgrade, DelayElapsed, ByAdmin, Guarded
<1>4. ASSUME NEW by \in SUBSET Signatories, CancelUpgrade(by)
      PROVE  UpInv' /\ version' = version
  BY <1>4 DEF CancelUpgrade, UpInv, upRoles
<1>5. ASSUME NEW by \in SUBSET Signatories, NEW a \in Signatories, SetGuardian(by, a)
      PROVE  UpInv' /\ version' = version
  BY <1>5 DEF SetGuardian, UpInv, pendingUpgrade
<1>6. ASSUME NEW by \in SUBSET Signatories, NEW a \in Signatories, HandOver(by, a)
      PROVE  UpInv' /\ version' = version
  BY <1>6 DEF HandOver, UpInv, pendingUpgrade
<1>7. ASSUME NEW by \in SUBSET Signatories, NEW flag \in BOOLEAN, SetUpPaused(by, flag)
      PROVE  UpInv' /\ version' = version
  BY <1>7 DEF SetUpPaused, UpInv, pendingUpgrade, upRoles
<1>8. ASSUME NEW by \in SUBSET Signatories, NEW seconds \in UpgradeDelays,
             SetUpgradeDelay(by, seconds)
      PROVE  UpInv' /\ version' = version
  BY <1>8, UpgradeTermsAssumption DEF SetUpgradeDelay, UpInv, pendingUpgrade, upRoles
<1>9. CASE UpTick
  BY <1>9 DEF UpTick, Tick, UpInv, pendingUpgrade, upRoles
<1>10. CASE UNCHANGED <<now, upVars>>
  BY <1>10 DEF upVars, UpInv, pendingUpgrade, upRoles
<1> QED
  BY <1>1, <1>2, <1>3, <1>4, <1>5, <1>6, <1>7, <1>8, <1>9, <1>10
     DEF UpNext, UpgradeNext, ConfigNext

\* For every client of the core, every delay and every number of handovers,
\* cancellations and emergencies in between: code changes by one version at a time,
\* signed by the admin, after the delay or with the guardian (execute_upgrade,
\* emergency_upgrade).
THEOREM CodeChangesGuarded == UpSpec => CodeChangeGuarded
<1>1. UpInv /\ [UpNext]_<<now, upVars>> => UpInv'
  BY UpStep
<1>2. UpInv /\ [UpNext]_<<now, upVars>> => [version' # version => Guarded]_upVars
  BY UpStep
<1> QED
  BY <1>1, <1>2, UpInvInit, PTL DEF UpSpec, CodeChangeGuarded, Guarded

-----------------------------------------------------------------------------
(* staking_rewards *)

\* The time stored is the delay of that day after the proposal.
RuInv == ruPending # None => ruPending.executeAt = ruPending.made + ruPending.delay

\* What a step that changes the code of staking_rewards must have in its favour.
RuGuarded ==
    /\ ruAdmin \in ruSigners'
    /\ ruPending' = None
    /\ \/ ruPending # None /\ ruCode' = ruPending.hash
            /\ now >= ruPending.made + ruPending.delay
       \/ ruGuardian \in ruSigners'
       \/ ruGuardian = None

\* Every entry point of that protocol keeps the time, and changes code only guarded.
LEMMA RuStep == RuInv /\ [RuNext]_<<now, ruVars>> => RuInv' /\ (ruCode' # ruCode => RuGuarded)
<1> SUFFICES ASSUME RuInv, [RuNext]_<<now, ruVars>>
             PROVE  RuInv' /\ (ruCode' # ruCode => RuGuarded)
  OBVIOUS
<1>1. ASSUME NEW by \in SUBSET Signatories, NEW hash \in Hashes, RuPropose(by, hash)
      PROVE  RuInv' /\ ruCode' = ruCode
  BY <1>1 DEF RuPropose, RuInv, ExecutableAt
<1>2. ASSUME NEW by \in SUBSET Signatories, NEW hash \in Hashes, RuEmergency(by, hash)
      PROVE  RuInv' /\ RuGuarded
  BY <1>2 DEF RuEmergency, RuBy, RuInv, RuGuarded
<1>3. ASSUME NEW by \in SUBSET Signatories, RuExecute(by)
      PROVE  RuInv' /\ RuGuarded
  BY <1>3 DEF RuExecute, RuBy, RuInv, RuGuarded
<1>4. ASSUME NEW by \in SUBSET Signatories, RuCancel(by)
      PROVE  RuInv' /\ ruCode' = ruCode
  BY <1>4 DEF RuCancel, RuInv
<1>5. ASSUME NEW by \in SUBSET Signatories, NEW a \in Signatories,
             RuSetGuardian(by, a) \/ RuSetAdmin(by, a)
      PROVE  RuInv' /\ ruCode' = ruCode
  BY <1>5 DEF RuSetGuardian, RuSetAdmin, RuInv
<1>6. ASSUME NEW by \in SUBSET Signatories, NEW delay \in UpgradeDelays, RuSetDelay(by, delay)
      PROVE  RuInv' /\ ruCode' = ruCode
  BY <1>6 DEF RuSetDelay, RuInv
<1>7. CASE RuTick \/ UNCHANGED <<now, ruVars>>
  BY <1>7 DEF RuTick, ruVars, RuInv
<1> QED
  BY <1>1, <1>2, <1>3, <1>4, <1>5, <1>6, <1>7 DEF RuNext

\* For all delays, handovers and guardians: staking_rewards runs a proposal only
\* after the delay it was made under, and nothing pending survives a code change
\* (execute_upgrade, emergency_upgrade of staking_rewards).
THEOREM RewardsCodeChangesGuarded == RuSpec => RewardsCodeGuarded
<1>1. now = 0 /\ RuInit => RuInv
  BY DEF RuInit, RuInv
<1>2. RuInv /\ [RuNext]_<<now, ruVars>> => RuInv'
  BY RuStep
<1>3. RuInv /\ [RuNext]_<<now, ruVars>> => [ruCode' # ruCode => RuGuarded]_ruVars
  BY RuStep
<1> QED
  BY <1>1, <1>2, <1>3, PTL DEF RuSpec, RewardsCodeGuarded, RuGuarded

-----------------------------------------------------------------------------

bondAndRecord == <<inspectorBond, slashHistory>>

\* The bond an inspector has and the slashes recorded of it.
BondInv ==
    /\ inspectorBond \in [Inspectors -> Nat]
    /\ slashHistory \in [Inspectors -> Seq(Nat)]

\* Positions have nothing to do with the inspectors' bonds.
LEMMA PositionsApart == PositionNext => UNCHANGED bondAndRecord
<1> SUFFICES ASSUME PositionNext PROVE UNCHANGED bondAndRecord
  OBVIOUS
<1> USE DEF bondAndRecord, inspectorVars, slashingVars, reportVars
<1>1. ASSUME NEW p \in Positions, NEW u \in Users, NEW amount \in Amounts,
             \/ DepositCollateral(u, p, amount) \/ WithdrawCollateral(u, p, amount)
             \/ IssueBond(u, p, amount) \/ RedeemBond(u, p, amount)
      PROVE  UNCHANGED bondAndRecord
  BY <1>1 DEF DepositCollateral, WithdrawCollateral, IssueBond, RedeemBond
<1>2. ASSUME NEW p \in Positions, NEW u \in Users, NEW price \in Prices, NEW answeredAt \in 0..now,
             Liquidate(u, p, price, answeredAt)
      PROVE  UNCHANGED bondAndRecord
  BY <1>2 DEF Liquidate
<1>3. ASSUME NEW x, \/ SetThresholds(x) \/ SetTargetHealthRatio(x) \/ SetKeeperRewardCap(x)
                    \/ SetOracleFeed(x) \/ SetBondPaused(x)
      PROVE  UNCHANGED bondAndRecord
  BY <1>3 DEF SetThresholds, SetTargetHealthRatio, SetKeeperRewardCap, SetOracleFeed, SetBondPaused
<1>4. BondTick => UNCHANGED bondAndRecord
  BY DEF BondTick, bondVars
<1> QED
  BY <1>1, <1>2, <1>3, <1>4 DEF PositionNext

\* Nothing the slashing module does on its own touches the record of bonds.
LEMMA RecordApart == SlashingNext /\ UNCHANGED bondVars => UNCHANGED bondAndRecord
<1> SUFFICES ASSUME SlashingNext, UNCHANGED bondVars PROVE UNCHANGED bondAndRecord
  OBVIOUS
<1>1. UNCHANGED inspectorBond
  BY DEF bondVars, inspectorVars
<1> USE DEF reportVars
<1>2. ASSUME NEW id \in SlashIds, \/ RevealEvidence(id) \/ FinalizeSlash(id) \/ CancelSlash(id)
      PROVE  UNCHANGED slashHistory
  BY <1>2 DEF RevealEvidence, FinalizeSlash, CancelSlash
<1>3. ASSUME NEW id \in SlashIds, NEW a \in Actors, NEW bps \in Tiers, ProposeSlash(id, a, bps)
      PROVE  UNCHANGED slashHistory
  BY <1>3 DEF ProposeSlash, FileSlash
<1>4. ASSUME NEW id \in SlashIds, NEW c \in Commitments, NEW a \in Actors, NEW o \in Offences,
             SubmitEvidence(id, c, a, o)
      PROVE  UNCHANGED slashHistory
  BY <1>4 DEF SubmitEvidence, FileSlash
<1>5. ASSUME NEW a \in Actors, \/ ApproveUnjail(a) \/ Unjail(a)
                               \/ \E balance \in Balances : SetStakedBalance(a, balance)
      PROVE  UNCHANGED slashHistory
  BY <1>5 DEF ApproveUnjail, Unjail, SetStakedBalance
<1>6. ASSUME NEW x, NEW y, \/ SetSlashPaused(x) \/ SetSubmitter(x, y) \/ ConfigureTiers(x, y)
                           \/ SetChallengeWindow(x) \/ SetBondContract
      PROVE  UNCHANGED slashHistory
  BY <1>6 DEF SetSlashPaused, SetSubmitter, ConfigureTiers, SetChallengeWindow, SetBondContract
<1>7. SlashingTick => UNCHANGED slashHistory
  BY DEF SlashingTick, slashingVars
<1> QED
  BY <1>1, <1>2, <1>3, <1>4, <1>5, <1>6, <1>7 DEF SlashingNext, bondAndRecord

\* What a step may do to the bond of i.
BondFate(i) ==
    LET less == inspectorBond[i] - inspectorBond'[i]
    IN  \/ slashHistory'[i] = slashHistory[i] /\ (less > 0 => locks[i] = {})
        \/ less > 0 /\ slashHistory'[i] = Append(slashHistory[i], less)

\* Deposits, withdrawals and slashes of inspectors' bonds.
LEMMA BondMoves ==
    ASSUME BondInv, NEW i \in Inspectors, NEW amount \in Amounts,
           DepositBond(i, amount) \/ WithdrawBond(i, amount) \/ ExecuteSlash(i, amount)
    PROVE  BondInv' /\ \A j \in Inspectors : BondFate(j)
<1>1. amount \in Nat /\ amount > 0 /\ inspectorBond[i] \in Nat
  BY BondAssumption DEF BondInv
<1>2. CASE DepositBond(i, amount)
  <2>1. inspectorBond' = [inspectorBond EXCEPT ![i] = @ + amount] /\ slashHistory' = slashHistory
    BY <1>2 DEF DepositBond, slashingVars, reportVars
  <2>2. BondInv'
    BY <1>1, <2>1 DEF BondInv
  <2>3. ASSUME NEW j \in Inspectors PROVE ~(inspectorBond[j] - inspectorBond'[j] > 0)
    BY <1>1, <2>1 DEF BondInv
  <2> QED
    BY <2>1, <2>2, <2>3 DEF BondFate
<1>3. CASE WithdrawBond(i, amount)
  <2>1. /\ inspectorBond' = [inspectorBond EXCEPT ![i] = @ - amount] /\ slashHistory' = slashHistory
        /\ amount <= inspectorBond[i] /\ locks[i] = {}
    BY <1>3 DEF WithdrawBond, Unlocked, slashingVars, reportVars
  <2>2. BondInv'
    BY <1>1, <2>1 DEF BondInv
  <2>3. ASSUME NEW j \in Inspectors, j # i PROVE ~(inspectorBond[j] - inspectorBond'[j] > 0)
    BY <1>1, <2>1, <2>3 DEF BondInv
  <2> QED
    BY <2>1, <2>2, <2>3 DEF BondFate
<1>4. CASE ExecuteSlash(i, amount)
  <2>1. /\ inspectorBond' = [inspectorBond EXCEPT ![i] = @ - amount]
        /\ slashHistory' = [slashHistory EXCEPT ![i] = Append(@, amount)]
        /\ amount <= inspectorBond[i]
    BY <1>4 DEF ExecuteSlash, Slash
  <2>2. slashHistory[i] \in Seq(Nat) /\ Append(slashHistory[i], amount) \in Seq(Nat)
    BY <1>1 DEF BondInv
  <2>3. BondInv'
    BY <1>1, <2>1, <2>2 DEF BondInv
  <2>4. inspectorBond[i] - inspectorBond'[i] = amount /\ slashHistory'[i] = Append(slashHistory[i], amount)
    BY <1>1, <2>1 DEF BondInv
  <2>5. ASSUME NEW j \in Inspectors, j # i
        PROVE  slashHistory'[j] = slashHistory[j] /\ ~(inspectorBond[j] - inspectorBond'[j] > 0)
    BY <1>1, <2>1, <2>5 DEF BondInv
  <2> QED
    BY <1>1, <2>3, <2>4, <2>5 DEF BondFate
<1> QED
  BY <1>2, <1>3, <1>4

\* Steps that touch neither a bond nor a slash.
LEMMA BondStill ==
    ASSUME BondInv, UNCHANGED bondAndRecord
    PROVE  BondInv' /\ \A j \in Inspectors : BondFate(j)
<1>1. BondInv'
  BY DEF bondAndRecord, BondInv
<1>2. ASSUME NEW j \in Inspectors PROVE BondFate(j)
  <2>1. inspectorBond[j] - inspectorBond'[j] = 0 /\ slashHistory'[j] = slashHistory[j]
    BY DEF bondAndRecord, BondInv
  <2> QED
    BY <2>1 DEF BondFate
<1> QED
  BY <1>1, <1>2

\* No step takes a locked bond but a recorded slash.
LEMMA BondStep ==
    BondInv /\ [BondNext]_<<now, bondVars, slashingVars>>
        => BondInv' /\ \A j \in Inspectors : BondFate(j)
<1> SUFFICES ASSUME BondInv, [BondNext]_<<now, bondVars, slashingVars>>
             PROVE  BondInv' /\ \A j \in Inspectors : BondFate(j)
  OBVIOUS
<1>1. CASE PositionNext
  BY <1>1, PositionsApart, BondStill
<1>2. CASE SlashingNext /\ UNCHANGED bondVars
  BY <1>2, RecordApart, BondStill
<1>3. CASE UNCHANGED <<now, bondVars, slashingVars>>
  <2>1. UNCHANGED bondAndRecord
    BY <1>3 DEF bondVars, inspectorVars, slashingVars, reportVars, bondAndRecord
  <2> QED
    BY <2>1, BondStill
<1>4. CASE InspectorNext
  <2>1. ASSUME NEW i \in Inspectors, NEW inspection \in Inspections,
               LockBond(i, inspection) \/ UnlockBond(i, inspection)
        PROVE  UNCHANGED bondAndRecord
    BY <2>1 DEF LockBond, UnlockBond, slashingVars, reportVars, bondAndRecord
  <2>2. ASSUME SetBondOperator \/ SetSlashingModule \/ \E paused \in BOOLEAN : SetBondPaused(paused)
        PROVE  UNCHANGED bondAndRecord
    BY <2>2 DEF SetBondOperator, SetSlashingModule, SetBondPaused, inspectorVars, slashingVars,
       reportVars, bondAndRecord
  <2>3. \/ UNCHANGED bondAndRecord
        \/ \E i \in Inspectors, amount \in Amounts :
             DepositBond(i, amount) \/ WithdrawBond(i, amount) \/ ExecuteSlash(i, amount)
    BY <1>4, <2>1, <2>2 DEF InspectorNext
  <2> QED
    BY <2>3, BondMoves, BondStill
<1> QED
  BY <1>1, <1>2, <1>3, <1>4 DEF BondNext

\* For all inspectors, disputes and amounts: a locked bond loses money only to
\* slashes, and each slash is recorded in the other contract with exactly the
\* amount it takes (withdraw_bond, execute_slash and slashing_module's slash).
THEOREM LockedBondsStay == BondSpec => LockedBondStays
<1>1. now = 0 /\ BondInit /\ SlashingInit => BondInv
  <2>1. BondInit => inspectorBond \in [Inspectors -> Nat]
    BY DEF BondInit
  <2>2. <<>> \in Seq(Nat)
    OBVIOUS
  <2>3. SlashingInit => slashHistory \in [Inspectors -> Seq(Nat)]
    BY <2>2 DEF SlashingInit
  <2> QED
    BY <2>1, <2>3 DEF BondInv
<1>2. BondInv /\ [BondNext]_<<now, bondVars, slashingVars>> => BondInv'
  BY BondStep
<1>3. BondInv /\ [BondNext]_<<now, bondVars, slashingVars>>
        => [\A i \in Inspectors :
             LET less == inspectorBond[i] - inspectorBond'[i]
             IN  \/ slashHistory'[i] = slashHistory[i] /\ (less > 0 => locks[i] = {})
                 \/ less > 0 /\ slashHistory'[i] = Append(slashHistory[i], less)]_<<inspectorBond, slashHistory>>
  BY BondStep DEF BondFate
<1> QED
  BY <1>1, <1>2, <1>3, PTL DEF BondSpec, LockedBondStays

-----------------------------------------------------------------------------
(* slashing_module *)

\* All that a step of slashing_module may change.
SlashState == <<now, slashingVars>>

\* What the proofs rest on: the clock and the types.
SlashInv == now \in Nat /\ SlashingTypeOK

\* The lesser of two numbers is one of them, and no more than the other.
LEMMA LesserOfTwo ==
    ASSUME NEW m \in Nat, NEW n \in Nat
    PROVE  Lesser(m, n) \in Nat /\ Lesser(m, n) <= m /\ Lesser(m, n) <= n
  BY DEF Lesser

\* A penalty is a natural number, also where a tier exceeds the whole.
LEMMA SlashAmountIsNat ==
    ASSUME SlashInv, NEW a \in Actors, NEW bps \in Nat
    PROVE  SlashAmount(a, bps) \in Nat
<1> DEFINE product == stakedBalance[a] * bps
<1>1. stakedBalance[a] \in Nat
  BY DEF SlashInv, SlashingTypeOK
<1>2. product \in Nat
  BY <1>1
<1>3. product \div FullBps \in Nat
  <2> HIDE DEF product
  <2> QED
    BY <1>2, LedgerAssumption, QuotientRounds
<1> QED
  BY <1>1, <1>3, LesserOfTwo DEF SlashAmount

\* What the entry of one slash becomes, and that no other changes.
LEMMA SlashEntry ==
    ASSUME SlashInv, NEW id \in SlashIds, NEW new \in Slashes,
           pendingSlash' = [pendingSlash EXCEPT ![id] = new]
    PROVE  /\ pendingSlash'[id] = new /\ Filed(id)'
           /\ \A j \in SlashIds : j # id => pendingSlash'[j] = pendingSlash[j]
           /\ pendingSlash' \in [SlashIds -> Slashes \cup {None}]
           /\ \A j \in SlashIds : Filed(j) => Filed(j)'
<1>1. new # None
  BY SlashingAssumption
<1>2. pendingSlash \in [SlashIds -> Slashes \cup {None}]
  BY DEF SlashInv, SlashingTypeOK
<1> QED
  BY <1>1, <1>2 DEF Filed

\* A slash is filed under the next id, with a natural amount.
LEMMA FiledSlash ==
    ASSUME SlashInv, NEW id \in SlashIds, NEW a \in Actors, NEW bps \in Nat,
           NEW evidence \in Commitments \cup {None}, FileSlash(id, a, bps, evidence)
    PROVE  /\ ~Filed(id)
           /\ \E new \in Slashes : /\ pendingSlash' = [pendingSlash EXCEPT ![id] = new]
                                   /\ new.status = "Pending" /\ new.evidence = evidence
           /\ \A j \in SlashIds : Filed(j)' => \A k \in 1..j : Filed(k)'
<1> DEFINE new == [actor |-> a, amount |-> SlashAmount(a, bps), deadline |-> now + challengeWindow,
                   status |-> "Pending", evidence |-> evidence]
           taken == {j \in SlashIds : Filed(j)}
<1>1. now + challengeWindow \in Nat
  BY DEF SlashInv, SlashingTypeOK
<1>2. new \in Slashes /\ new.status = "Pending" /\ new.evidence = evidence
  BY <1>1, SlashAmountIsNat DEF Slashes
<1>3. pendingSlash' = [pendingSlash EXCEPT ![id] = new] /\ id = Cardinality(taken) + 1
  BY DEF FileSlash
<1>4. MaxSlashes \in Nat /\ taken \in SUBSET (1..MaxSlashes)
  BY SlashingAssumption DEF SlashIds
<1>5. \A p \in taken : \A q \in 1..p : q \in taken
  BY <1>4 DEF SlashInv, SlashingTypeOK, SlashIds
<1>6. Cardinality(taken) \in Nat /\ taken = 1..Cardinality(taken)
  BY <1>4, <1>5, IdsInOrder
<1>7. id \notin taken /\ \A k \in 1 .. id - 1 : k \in taken
  <2> HIDE DEF taken
  <2>1. \A k : k \in taken <=> k \in 1..Cardinality(taken)
    BY <1>6
  <2> QED
    BY <1>3, <1>6, <2>1
<1>8. ~Filed(id)
  BY <1>7
<1> HIDE DEF new
<1>9. /\ Filed(id)' /\ \A j \in SlashIds : j # id => pendingSlash'[j] = pendingSlash[j]
      /\ \A j \in SlashIds : Filed(j) => Filed(j)'
  BY <1>2, <1>3, SlashEntry
<1>10. ASSUME NEW j \in SlashIds, Filed(j)', NEW k \in 1..j PROVE Filed(k)'
  <2>1. k \in SlashIds
    BY <1>4 DEF SlashIds
  <2>2. CASE j = id
    <3>1. k = id \/ k \in 1 .. id - 1
      BY <2>2 DEF SlashIds
    <3>2. k \in taken => Filed(k)
      OBVIOUS
    <3> QED
      BY <1>7, <1>9, <2>1, <3>1, <3>2
  <2>3. CASE j # id
    <3>1. Filed(j)
      BY <1>9, <1>10, <2>3 DEF Filed
    <3> QED
      BY <1>9, <2>1, <3>1 DEF SlashInv, SlashingTypeOK
  <2> QED
    BY <2>2, <2>3
<1> QED
  BY <1>2, <1>3, <1>8, <1>10

\* Filed slashes keep the types.
LEMMA FilingTypes ==
    ASSUME SlashInv, NEW id \in SlashIds,
           \/ \E a \in Actors, bps \in Tiers : ProposeSlash(id, a, bps)
           \/ \E c \in Commitments, a \in Actors, o \in Offences : SubmitEvidence(id, c, a, o)
    PROVE  SlashInv'
<1>1. PICK a \in Actors, bps \in Nat, evidence \in Commitments \cup {None} :
        /\ FileSlash(id, a, bps, evidence)
        /\ slashRecord' \in [Commitments -> Nat \cup {None}]
  <2>1. ASSUME NEW a \in Actors, NEW bps \in Tiers, ProposeSlash(id, a, bps)
        PROVE  /\ FileSlash(id, a, Lesser(bps, maxSlashBps), None)
               /\ slashRecord' \in [Commitments -> Nat \cup {None}]
               /\ Lesser(bps, maxSlashBps) \in Nat
    BY <2>1, SlashingAssumption, LesserOfTwo DEF ProposeSlash, SlashInv, SlashingTypeOK
  <2>2. ASSUME NEW c \in Commitments, NEW a \in Actors, NEW o \in Offences, SubmitEvidence(id, c, a, o)
        PROVE  /\ FileSlash(id, a, Lesser(tierBps[o], maxSlashBps), c)
               /\ slashRecord' \in [Commitments -> Nat \cup {None}]
               /\ Lesser(tierBps[o], maxSlashBps) \in Nat
    BY <2>2, LesserOfTwo DEF SubmitEvidence, SlashInv, SlashingTypeOK
  <2> QED
    BY <2>1, <2>2
<1>2. PICK new \in Slashes : pendingSlash' = [pendingSlash EXCEPT ![id] = new]
  BY <1>1, FiledSlash
<1>3. \A j \in SlashIds : Filed(j)' => \A k \in 1..j : Filed(k)'
  BY <1>1, FiledSlash
<1>4. /\ pendingSlash' \in [SlashIds -> Slashes \cup {None}]
      /\ \A j \in SlashIds : Filed(j) => Filed(j)'
  BY <1>2, SlashEntry
<1>5. UNCHANGED <<now, slashSettings, revealed, tollVars, jailVars, reportVars>>
  BY <1>1 DEF FileSlash
<1> QED
  BY <1>1, <1>3, <1>4, <1>5
     DEF SlashInv, SlashingTypeOK, slashSettings, tollVars, jailVars, reportVars

\* A verdict on a slash keeps the types; what is taken is there.
LEMMA VerdictTypes ==
    ASSUME SlashInv, NEW id \in SlashIds, FinalizeSlash(id) \/ CancelSlash(id)
    PROVE  /\ SlashInv'
           /\ Taken(id) \in Nat /\ Taken(id) <= pendingSlash[id].amount
           /\ pendingSlash[id] \in Slashes
           /\ \E status \in {"Finalized", "Cancelled"} :
                pendingSlash' = [pendingSlash EXCEPT ![id] = [pendingSlash[id] EXCEPT !.status = status]]
<1> DEFINE a == pendingSlash[id].actor
<1>1. pendingSlash[id] \in Slashes
  BY DEF FinalizeSlash, CancelSlash, InStatus, Filed, SlashInv, SlashingTypeOK
<1>2. a \in Actors /\ pendingSlash[id].amount \in Nat /\ stakedBalance[a] \in Nat
  BY <1>1 DEF Slashes, SlashInv, SlashingTypeOK
<1>3. /\ Taken(id) \in Nat /\ Taken(id) <= pendingSlash[id].amount
      /\ Taken(id) <= stakedBalance[a]
  BY <1>2, LesserOfTwo DEF Taken
<1>4. PICK status \in {"Finalized", "Cancelled"} :
        pendingSlash' = [pendingSlash EXCEPT ![id] = [pendingSlash[id] EXCEPT !.status = status]]
  BY <1>1 DEF FinalizeSlash, CancelSlash
<1>5. [pendingSlash[id] EXCEPT !.status = status] \in Slashes
  BY <1>1 DEF Slashes
<1>6. /\ pendingSlash' \in [SlashIds -> Slashes \cup {None}]
      /\ \A j \in SlashIds : Filed(j) => Filed(j)'
      /\ \A j \in SlashIds : j # id => pendingSlash'[j] = pendingSlash[j]
  BY <1>4, <1>5, SlashEntry
<1>7. \A j \in SlashIds : Filed(j)' => Filed(j)
  BY <1>1, <1>6, SlashingAssumption DEF Filed
<1>8. \A j \in SlashIds : Filed(j)' => \A k \in 1..j : Filed(k)'
  <2>1. \A j \in SlashIds : \A k \in 1..j : k \in SlashIds
    BY SlashingAssumption DEF SlashIds
  <2> QED
    BY <1>6, <1>7, <2>1 DEF SlashInv, SlashingTypeOK
<1>9. CASE FinalizeSlash(id)
  <2>1. /\ stakedBalance' \in [Actors -> Nat] /\ slashedAmount' \in [Actors -> Nat]
    <3>1. /\ stakedBalance' = [stakedBalance EXCEPT ![a] = stakedBalance[a] - Taken(id)]
          /\ slashedAmount' = [slashedAmount EXCEPT ![a] = slashedAmount[a] + Taken(id)]
      BY <1>9 DEF FinalizeSlash
    <3>2. stakedBalance[a] - Taken(id) \in Nat /\ slashedAmount[a] + Taken(id) \in Nat
      BY <1>2, <1>3 DEF SlashInv, SlashingTypeOK
    <3> HIDE DEF a
    <3> QED
      BY <3>1, <3>2 DEF SlashInv, SlashingTypeOK
  <2>2. /\ slashCount' \in [Actors -> Nat] /\ jailed' \subseteq Actors /\ unjailApproval' \subseteq jailed'
        /\ slashRecord' \in [Commitments -> Nat \cup {None}]
    <3>1. CASE ByEvidence(id)
      <4>1. /\ slashCount' = [slashCount EXCEPT ![a] = @ + 1]
            /\ slashRecord' = [slashRecord EXCEPT ![pendingSlash[id].evidence] = Taken(id)]
            /\ jailed' = jailed \cup {a} /\ unjailApproval' = unjailApproval
        BY <1>9, <3>1 DEF FinalizeSlash
      <4> HIDE DEF a
      <4>2. slashCount' \in [Actors -> Nat]
        BY <4>1, <1>2 DEF SlashInv, SlashingTypeOK
      <4>3. slashRecord' \in [Commitments -> Nat \cup {None}]
        BY <4>1, <1>3 DEF SlashInv, SlashingTypeOK
      <4>4. jailed' \subseteq Actors /\ unjailApproval' \subseteq jailed'
        BY <4>1, <1>2 DEF SlashInv, SlashingTypeOK
      <4> QED
        BY <4>2, <4>3, <4>4
    <3>2. CASE ~ByEvidence(id)
      BY <1>9, <3>2 DEF FinalizeSlash, SlashInv, SlashingTypeOK
    <3> QED
      BY <3>1, <3>2
  <2> QED
    BY <1>3, <1>1, <1>4, <1>6, <1>8, <1>9, <2>1, <2>2
       DEF FinalizeSlash, SlashInv, SlashingTypeOK, slashSettings, reportVars
<1>10. CASE CancelSlash(id)
  <2>1. slashRecord' \in [Commitments -> Nat \cup {None}]
    BY <1>10 DEF CancelSlash, SlashInv, SlashingTypeOK
  <2> QED
    BY <1>3, <1>1, <1>4, <1>6, <1>8, <1>10, <2>1
       DEF CancelSlash, SlashInv, SlashingTypeOK, slashSettings, tollVars, jailVars, reportVars
<1> QED
  BY <1>9, <1>10

\* What changes neither a slash nor its tolls: settings, revelations, the end of a
\* jailing, and time.
Aside ==
    \/ SlashingTick \/ SetBondContract \/ UNCHANGED SlashState
    \/ \E paused \in BOOLEAN : SetSlashPaused(paused)
    \/ \E s \in Reporters, enabled \in BOOLEAN : SetSubmitter(s, enabled)
    \/ \E tiers \in [Offences -> Tiers], max \in Tiers : ConfigureTiers(tiers, max)
    \/ \E window \in Windows : SetChallengeWindow(window)
    \/ \E a \in Actors :
        \/ ApproveUnjail(a) \/ Unjail(a)
        \/ \E balance \in Balances : SetStakedBalance(a, balance)
    \/ \E id \in SlashIds : RevealEvidence(id)

\* The rest of a step: time does not go back, nothing that was proven is
\* forgotten and nobody is jailed.
Untouched ==
    /\ now' >= now /\ UNCHANGED <<pendingSlash, slashRecord, slashedAmount, slashCount>>
    /\ revealed \subseteq revealed' /\ jailed' \subseteq jailed

\* The types of everything but the slashes.
AsideTypes ==
    /\ now \in Nat
    /\ submitters \subseteq Reporters /\ slashPaused \in BOOLEAN /\ bondNamed \in BOOLEAN
    /\ tierBps \in [Offences -> Nat] /\ {maxSlashBps, challengeWindow} \subseteq Nat
    /\ stakedBalance \in [Actors -> Nat] /\ slashedAmount \in [Actors -> Nat]
    /\ slashCount \in [Actors -> Nat]
    /\ slashRecord \in [Commitments -> Nat \cup {None}]
    /\ revealed \subseteq {id \in SlashIds : Filed(id)}
    /\ unjailApproval \subseteq jailed /\ jailed \subseteq Actors
    /\ slashHistory \in [Inspectors -> Seq(Nat)]

\* These keep the types, and take nothing from anybody.
LEMMA AsideKeeps ==
    ASSUME SlashInv, Aside
    PROVE  SlashInv' /\ Untouched
<1> DEFINE Goal == AsideTypes' /\ Untouched
<1>a. AsideTypes
  BY DEF AsideTypes, SlashInv, SlashingTypeOK
<1>b. UNCHANGED pendingSlash => \A id \in SlashIds : Filed(id)' <=> Filed(id)
  BY DEF Filed
<1>c. Goal => SlashInv'
  <2>1. ASSUME Goal PROVE \A id \in SlashIds : Filed(id)' => \A j \in 1..id : Filed(j)'
    <3>1. \A id \in SlashIds : Filed(id) => \A j \in 1..id : Filed(j)
      BY DEF SlashInv, SlashingTypeOK
    <3> QED
      BY <2>1, <3>1 DEF Filed, Untouched
  <2> QED
    BY <2>1 DEF SlashInv, SlashingTypeOK, AsideTypes, Untouched
<1> USE DEF Untouched, AsideTypes, slashSettings, verdictVars, tollVars, jailVars, reportVars
<1>0. UNCHANGED SlashState => Goal
  BY <1>a, <1>b DEF SlashState, slashingVars
<1>1. SetBondContract => Goal
  BY <1>a, <1>b DEF SetBondContract
<1>11. SlashingTick => Goal
  BY <1>a, <1>b DEF SlashingTick, Tick, slashingVars
<1>2. ASSUME NEW paused \in BOOLEAN, SetSlashPaused(paused) PROVE Goal
  BY <1>a, <1>b, <1>2 DEF SetSlashPaused
<1>3. ASSUME NEW s \in Reporters, NEW enabled \in BOOLEAN, SetSubmitter(s, enabled) PROVE Goal
  BY <1>a, <1>b, <1>3 DEF SetSubmitter
<1>4. ASSUME NEW tiers \in [Offences -> Tiers], NEW max \in Tiers, ConfigureTiers(tiers, max) PROVE Goal
  <2>1. tierBps' \in [Offences -> Nat] /\ {maxSlashBps', challengeWindow'} \subseteq Nat
    BY <1>a, <1>4, SlashingAssumption DEF ConfigureTiers
  <2> QED
    BY <1>a, <1>b, <1>4, <2>1 DEF ConfigureTiers
<1>5. ASSUME NEW window \in Windows, SetChallengeWindow(window) PROVE Goal
  BY <1>a, <1>b, <1>5, SlashingAssumption DEF SetChallengeWindow
<1>6. ASSUME NEW a \in Actors, ApproveUnjail(a) PROVE Goal
  BY <1>a, <1>b, <1>6 DEF ApproveUnjail
<1>7. ASSUME NEW a \in Actors, Unjail(a) PROVE Goal
  BY <1>a, <1>b, <1>7 DEF Unjail, ApprovalUsed
<1>8. ASSUME NEW a \in Actors, NEW balance \in Balances, SetStakedBalance(a, balance) PROVE Goal
  BY <1>a, <1>b, <1>8, SlashingAssumption DEF SetStakedBalance
<1>9. ASSUME NEW id \in SlashIds, RevealEvidence(id) PROVE Goal
  BY <1>a, <1>b, <1>9 DEF RevealEvidence, InStatus
<1>10. Goal
  <2> HIDE DEF Goal
  <2> QED
    BY <1>0, <1>1, <1>11, <1>2, <1>3, <1>4, <1>5, <1>6, <1>7, <1>8, <1>9 DEF Aside
<1> QED
  BY <1>c, <1>10

\* The kinds of steps of the slashing module.
LEMMA SlashSteps ==
    ASSUME [SlashingNext]_SlashState
    PROVE  \/ Aside
           \/ \E id \in SlashIds :
                \/ FinalizeSlash(id) \/ CancelSlash(id)
                \/ \E a \in Actors, bps \in Tiers : ProposeSlash(id, a, bps)
                \/ \E c \in Commitments, a \in Actors, o \in Offences : SubmitEvidence(id, c, a, o)
  BY DEF SlashingNext, Aside

\* Every step keeps the types.
LEMMA SlashTypes == SlashInv /\ [SlashingNext]_SlashState => SlashInv'
  BY SlashSteps, AsideKeeps, VerdictTypes, FilingTypes

\* A new module has no slashes.
LEMMA SlashInvInit == now = 0 /\ SlashingInit => SlashInv
<1> SUFFICES ASSUME now = 0, SlashingInit PROVE SlashInv
  OBVIOUS
<1>1. \A id \in SlashIds : ~Filed(id)
  BY DEF SlashingInit, Filed
<1>2. slashHistory \in [Inspectors -> Seq(Nat)]
  <2>1. <<>> \in Seq(Nat)
    OBVIOUS
  <2> QED
    BY <2>1 DEF SlashingInit
<1> QED
  BY <1>1, <1>2, SlashingAssumption, LedgerAssumption DEF SlashInv, SlashingTypeOK, SlashingInit

\* The stored entries of the slashing module are well typed and ids are handed out
\* in order, for all actors, penalties and windows; nobody who is free holds an
\* approval that would end the next jailing in advance.
THEOREM SlashingTypeCorrect == SlashingSpec => []SlashingTypeOK
<1>1. SlashInv => SlashingTypeOK
  BY DEF SlashInv
<1> QED
  BY <1>1, SlashInvInit, SlashTypes, PTL DEF SlashingSpec, SlashState

\* The sets of slashes are finite, and the amounts are natural.
LEMMA SlashSets ==
    ASSUME SlashInv
    PROVE  /\ \A T \in SUBSET SlashIds : IsFiniteSet(T)
           /\ \A id \in SlashIds : AmountOf(id) \in Nat
<1>1. IsFiniteSet(SlashIds)
  BY SlashingAssumption, FS_Interval DEF SlashIds
<1>2. \A T \in SUBSET SlashIds : IsFiniteSet(T)
  BY <1>1, FS_Subset
<1>3. \A id \in SlashIds : Filed(id) => pendingSlash[id] \in Slashes
  BY DEF SlashInv, SlashingTypeOK, Filed
<1>4. \A id \in SlashIds : AmountOf(id) \in Nat
  BY <1>3 DEF AmountOf, Slashes
<1> QED
  BY <1>2, <1>4

\* The three parts of SlashesJustified, the first without its cardinality.
Backing(c) ==
    /\ slashRecord[c] = None => Standing(c) = {}
    /\ slashRecord[c] # None => \E id : Standing(c) = {id}

\* The second: a finalized slash is due, and covered by its evidence.
Fair(id) ==
    InStatus(id, "Finalized") =>
        /\ now >= pendingSlash[id].deadline
        /\ ByEvidence(id) =>
            /\ id \in revealed
            /\ slashRecord[pendingSlash[id].evidence] <= pendingSlash[id].amount

\* What the final slashes of an address add up to.
FinalSum(a) == SumFunctionOnSet([id \in SlashIds |-> AmountOf(id)], FinalSlashes(a))

\* The third: what is counted against an address was proven.
Tolls(a) ==
    /\ slashCount[a] = Cardinality(Proven(a))
    /\ a \in jailed => Proven(a) # {}
    /\ slashedAmount[a] <= FinalSum(a)

\* The three together.
SlashDetails ==
    /\ \A c \in Commitments : Backing(c)
    /\ \A id \in SlashIds : Fair(id)
    /\ \A a \in Actors : Tolls(a)

\* A count of one is a set of one.
LEMMA JustifiedParts == SlashInv => (SlashesJustified <=> SlashDetails)
<1> SUFFICES ASSUME SlashInv PROVE SlashesJustified <=> SlashDetails
  OBVIOUS
<1>1. ASSUME NEW c \in Commitments
      PROVE  Backing(c) <=> Cardinality(Standing(c)) = IF slashRecord[c] = None THEN 0 ELSE 1
  <2>1. IsFiniteSet(Standing(c))
    BY SlashSets DEF Standing
  <2>2. /\ Cardinality(Standing(c)) = 0 <=> Standing(c) = {}
        /\ Cardinality(Standing(c)) = 1 <=> \E id : Standing(c) = {id}
    BY <2>1, FS_EmptySet, FS_Singleton
  <2> QED
    BY <2>2 DEF Backing
<1> QED
  BY <1>1 DEF SlashesJustified, Fair, Tolls, FinalSum, SlashDetails

\* The sum over the final slashes stays when they and their amounts do.
LEMMA FinalSumStays ==
    ASSUME SlashInv, SlashInv', NEW a \in Actors, FinalSlashes(a)' = FinalSlashes(a),
           \A id \in FinalSlashes(a) : AmountOf(id)' = AmountOf(id)
    PROVE  FinalSum(a)' = FinalSum(a)
<1> DEFINE S == FinalSlashes(a)
           f == [id \in SlashIds |-> AmountOf(id)]
           g == [id \in SlashIds |-> AmountOf(id)']
<1>1. IsFiniteSet(S)
  BY SlashSets DEF FinalSlashes
<1>2. \A id \in S : f[id] \in Int /\ f[id] = g[id]
  BY SlashSets DEF FinalSlashes
<1>3. FinalSum(a) = SumFunctionOnSet(f, S) /\ FinalSum(a)' = SumFunctionOnSet(g, S)
  BY DEF FinalSum
<1> HIDE DEF S, f, g
<1> QED
  BY <1>1, <1>2, <1>3, SumAgrees

\* What is untouched stays justified.
LEMMA AsideJustified ==
    ASSUME SlashInv, SlashInv', SlashDetails, Untouched
    PROVE  SlashDetails'
<1>1. \A id \in SlashIds : AmountOf(id)' = AmountOf(id) /\ (Filed(id)' <=> Filed(id))
  BY DEF Untouched, AmountOf, Filed
<1>2. ASSUME NEW c \in Commitments PROVE Backing(c)'
  <2>1. Standing(c)' = Standing(c) /\ slashRecord'[c] = slashRecord[c]
    BY DEF Untouched, Standing, Filed, InStatus
  <2> QED
    BY <2>1 DEF SlashDetails, Backing
<1>3. ASSUME NEW id \in SlashIds, InStatus(id, "Finalized")
      PROVE  Fair(id)'
  <2>1. pendingSlash[id] \in Slashes
    BY <1>3 DEF InStatus, Filed, SlashInv, SlashingTypeOK
  <2>2. pendingSlash[id].deadline \in Nat /\ now \in Nat /\ now' \in Nat
    BY <2>1 DEF Slashes, SlashInv
  <2>3. now >= pendingSlash[id].deadline /\ now' >= now
    BY <1>3 DEF SlashDetails, Fair, Untouched
  <2> QED
    BY <1>3, <2>2, <2>3 DEF SlashDetails, Fair, Untouched, InStatus, Filed, ByEvidence
<1>4. ASSUME NEW a \in Actors PROVE Tolls(a)'
  <2>1. FinalSlashes(a)' = FinalSlashes(a) /\ Proven(a)' = Proven(a)
    BY DEF Untouched, FinalSlashes, Proven, InStatus, Filed, ByEvidence
  <2>2. FinalSum(a)' = FinalSum(a)
    BY <1>1, <2>1, FinalSumStays DEF FinalSlashes
  <2> QED
    BY <2>1, <2>2 DEF SlashDetails, Tolls, Untouched
<1>5. \A id \in SlashIds : Fair(id)'
  BY <1>3 DEF Fair, Untouched, InStatus, Filed
<1> QED
  BY <1>2, <1>4, <1>5 DEF SlashDetails

\* How one entry decides about the sets.
LEMMA SlashEntrySets ==
    ASSUME SlashInv, NEW id \in SlashIds, NEW new \in Slashes,
           pendingSlash' = [pendingSlash EXCEPT ![id] = new]
    PROVE  /\ \A j \in SlashIds, a \in Actors :
                j \in FinalSlashes(a)' <=> IF j = id THEN new.status = "Finalized" /\ new.actor = a
                                           ELSE j \in FinalSlashes(a)
           /\ \A j \in SlashIds, a \in Actors :
                j \in Proven(a)' <=> IF j = id THEN /\ new.status = "Finalized" /\ new.actor = a
                                                    /\ new.evidence # None
                                     ELSE j \in Proven(a)
           /\ \A j \in SlashIds, c \in Commitments :
                j \in Standing(c)' <=> IF j = id THEN new.evidence = c /\ new.status # "Cancelled"
                                       ELSE j \in Standing(c)
           /\ \A j \in SlashIds : AmountOf(j)' = IF j = id THEN new.amount ELSE AmountOf(j)
<1>1. /\ pendingSlash'[id] = new /\ Filed(id)'
      /\ \A j \in SlashIds : j # id => pendingSlash'[j] = pendingSlash[j]
  BY SlashEntry
<1>2. \A j \in SlashIds : j # id => (Filed(j)' <=> Filed(j))
  BY <1>1 DEF Filed
<1>3. \A j \in SlashIds, a \in Actors :
        j \in FinalSlashes(a)' <=> IF j = id THEN new.status = "Finalized" /\ new.actor = a
                                   ELSE j \in FinalSlashes(a)
  BY <1>1, <1>2 DEF FinalSlashes, InStatus
<1>4. \A j \in SlashIds : ByEvidence(j)' <=> IF j = id THEN new.evidence # None ELSE ByEvidence(j)
  BY <1>1 DEF ByEvidence
<1>5. \A j \in SlashIds, a \in Actors :
        j \in Proven(a)' <=> IF j = id THEN /\ new.status = "Finalized" /\ new.actor = a
                                            /\ new.evidence # None
                             ELSE j \in Proven(a)
  BY <1>3, <1>4 DEF Proven
<1>6. \A j \in SlashIds, c \in Commitments :
        j \in Standing(c)' <=> IF j = id THEN new.evidence = c /\ new.status # "Cancelled"
                               ELSE j \in Standing(c)
  BY <1>1, <1>2 DEF Standing, InStatus
<1>7. \A j \in SlashIds : AmountOf(j)' = IF j = id THEN new.amount ELSE AmountOf(j)
  BY <1>1, <1>2 DEF AmountOf
<1> QED
  BY <1>3, <1>5, <1>6, <1>7

\* What a piece of evidence stands behind is known by its record, one slash at most.
LEMMA OneStanding ==
    ASSUME SlashInv, SlashDetails, NEW id \in SlashIds, Filed(id), ByEvidence(id),
           ~InStatus(id, "Cancelled")
    PROVE  LET c == pendingSlash[id].evidence
           IN  /\ c \in Commitments /\ slashRecord[c] # None /\ slashRecord[c] \in Nat
               /\ Standing(c) = {id}
<1> DEFINE c == pendingSlash[id].evidence
<1>1. c \in Commitments
  BY DEF Filed, ByEvidence, Slashes, SlashInv, SlashingTypeOK
<1>2. id \in Standing(c)
  BY DEF Standing
<1>3. Backing(c)
  BY <1>1 DEF SlashDetails
<1> QED
  BY <1>1, <1>2, <1>3 DEF Backing, SlashInv, SlashingTypeOK

\* A new slash takes no evidence that stands behind another.
LEMMA FilingJustified ==
    ASSUME SlashInv, SlashInv', SlashDetails, NEW id \in SlashIds,
           \/ \E a \in Actors, bps \in Tiers : ProposeSlash(id, a, bps)
           \/ \E c \in Commitments, a \in Actors, o \in Offences : SubmitEvidence(id, c, a, o)
    PROVE  SlashDetails'
<1>1. PICK evidence \in Commitments \cup {None} :
        /\ \E a \in Actors, bps \in Nat : FileSlash(id, a, bps, evidence)
        /\ IF evidence = None THEN slashRecord' = slashRecord
           ELSE slashRecord[evidence] = None /\ slashRecord' = [slashRecord EXCEPT ![evidence] = 0]
  <2>1. ASSUME NEW a \in Actors, NEW bps \in Tiers, ProposeSlash(id, a, bps)
        PROVE  /\ FileSlash(id, a, Lesser(bps, maxSlashBps), None) /\ slashRecord' = slashRecord
               /\ Lesser(bps, maxSlashBps) \in Nat
    BY <2>1, SlashingAssumption, LesserOfTwo DEF ProposeSlash, SlashInv, SlashingTypeOK
  <2>2. ASSUME NEW c \in Commitments, NEW a \in Actors, NEW o \in Offences, SubmitEvidence(id, c, a, o)
        PROVE  /\ FileSlash(id, a, Lesser(tierBps[o], maxSlashBps), c) /\ c # None
               /\ slashRecord[c] = None /\ slashRecord' = [slashRecord EXCEPT ![c] = 0]
               /\ Lesser(tierBps[o], maxSlashBps) \in Nat
    BY <2>2, LesserOfTwo, SlashingAssumption DEF SubmitEvidence, Unused, SlashInv, SlashingTypeOK
  <2> QED
    BY <2>1, <2>2
<1>2. /\ ~Filed(id)
      /\ \E new \in Slashes : /\ pendingSlash' = [pendingSlash EXCEPT ![id] = new]
                              /\ new.status = "Pending" /\ new.evidence = evidence
  BY <1>1, FiledSlash
<1>3. UNCHANGED <<now, revealed, slashedAmount, slashCount, jailed>>
  BY <1>1 DEF FileSlash, tollVars, jailVars
<1>4. PICK new \in Slashes : /\ pendingSlash' = [pendingSlash EXCEPT ![id] = new]
                             /\ new.status = "Pending" /\ new.evidence = evidence
  BY <1>2
<1>5. /\ \A j \in SlashIds : j # id => pendingSlash'[j] = pendingSlash[j]
      /\ pendingSlash'[id] = new
  BY <1>4, SlashEntry
<1>6. ASSUME NEW c \in Commitments PROVE Backing(c)'
  <2>1. \A j \in SlashIds : j \in Standing(c)' <=> IF j = id THEN new.evidence = c /\ new.status # "Cancelled"
                                                  ELSE j \in Standing(c)
    BY <1>4, SlashEntrySets
  <2>2. id \notin Standing(c)
    BY <1>2 DEF Standing
  <2>3. Standing(c) \subseteq SlashIds /\ Standing(c)' \subseteq SlashIds
    BY DEF Standing
  <2>4. Backing(c)
    BY DEF SlashDetails
  <2>5. CASE evidence = c
    <3>1. slashRecord[c] = None /\ slashRecord' = [slashRecord EXCEPT ![c] = 0]
      BY <1>1, <2>5, SlashingAssumption
    <3>2. slashRecord'[c] # None
      BY <3>1, SlashingAssumption DEF SlashInv, SlashingTypeOK
    <3>3. Standing(c) = {}
      BY <2>4, <3>1 DEF Backing
    <3>4. Standing(c)' = {id}
      BY <1>4, <2>1, <2>3, <2>5, <3>3
    <3> QED
      BY <3>2, <3>4 DEF Backing
  <2>6. CASE evidence # c
    <3>1. slashRecord'[c] = slashRecord[c]
      BY <1>1, <2>6 DEF SlashInv, SlashingTypeOK
    <3>2. Standing(c)' = Standing(c)
      BY <1>4, <2>1, <2>2, <2>3, <2>6
    <3> QED
      BY <2>4, <3>1, <3>2 DEF Backing
  <2> QED
    BY <2>5, <2>6
<1>7. ASSUME NEW j \in SlashIds, InStatus(j, "Finalized")' PROVE Fair(j)'
  <2>1. j # id /\ pendingSlash'[j] = pendingSlash[j] /\ InStatus(j, "Finalized")
    BY <1>4, <1>5, <1>7 DEF InStatus, Filed
  <2>2. Fair(j)
    BY DEF SlashDetails
  <2>3. ASSUME ByEvidence(j)
        PROVE  slashRecord'[pendingSlash[j].evidence] = slashRecord[pendingSlash[j].evidence]
    <3> DEFINE c == pendingSlash[j].evidence
    <3>1. c \in Commitments /\ slashRecord[c] # None
      BY <2>1, <2>3, OneStanding DEF InStatus
    <3>2. slashRecord \in [Commitments -> Nat \cup {None}]
      BY DEF SlashInv, SlashingTypeOK
    <3> HIDE DEF c
    <3>3. evidence = None => slashRecord'[c] = slashRecord[c]
      BY <1>1
    <3>4. evidence # None => slashRecord'[c] = slashRecord[c]
      BY <1>1, <3>1, <3>2
    <3>5. slashRecord'[c] = slashRecord[c]
      BY <3>3, <3>4
    <3> QED
      BY <3>5 DEF c
  <2> QED
    BY <1>3, <2>1, <2>2, <2>3 DEF Fair, ByEvidence
<1>8. ASSUME NEW b \in Actors PROVE Tolls(b)'
  <2>1. /\ \A j \in SlashIds : j \in FinalSlashes(b)' <=> j \in FinalSlashes(b)
        /\ \A j \in SlashIds : j \in Proven(b)' <=> j \in Proven(b)
        /\ id \notin FinalSlashes(b)
    <3>1. id \notin FinalSlashes(b) /\ id \notin Proven(b)
      BY <1>2 DEF FinalSlashes, Proven, InStatus
    <3> QED
      BY <1>4, <3>1, SlashEntrySets
  <2>2. FinalSlashes(b)' = FinalSlashes(b) /\ Proven(b)' = Proven(b)
    BY <2>1 DEF FinalSlashes, Proven
  <2>3. \A j \in FinalSlashes(b) : AmountOf(j)' = AmountOf(j)
    BY <1>4, <2>1, SlashEntrySets DEF FinalSlashes
  <2>4. FinalSum(b)' = FinalSum(b)
    BY <2>2, <2>3, FinalSumStays
  <2> QED
    BY <1>3, <2>2, <2>4 DEF SlashDetails, Tolls
<1>9. \A j \in SlashIds : Fair(j)'
  BY <1>7 DEF Fair
<1> QED
  BY <1>6, <1>8, <1>9 DEF SlashDetails

\* A slash is made final: one more in the count, the sum and the jail.
LEMMA FinalJustified ==
    ASSUME SlashInv, SlashInv', SlashDetails, NEW id \in SlashIds, FinalizeSlash(id)
    PROVE  SlashDetails'
<1> DEFINE old == pendingSlash[id]
           new == [pendingSlash[id] EXCEPT !.status = "Finalized"]
           a == pendingSlash[id].actor
<1>1. /\ old \in Slashes /\ Taken(id) \in Nat /\ Taken(id) <= old.amount
  BY VerdictTypes
<1>2. /\ new \in Slashes /\ new.status = "Finalized" /\ new.actor = a /\ new.amount = old.amount
      /\ new.evidence = old.evidence /\ new.deadline = old.deadline
      /\ a \in Actors /\ old.amount \in Nat
  BY <1>1 DEF Slashes
<1>3. /\ Filed(id) /\ old.status = "Pending" /\ now >= old.deadline
      /\ ByEvidence(id) => id \in revealed
      /\ pendingSlash' = [pendingSlash EXCEPT ![id] = new]
      /\ UNCHANGED <<now, revealed>>
      /\ slashedAmount' = [slashedAmount EXCEPT ![a] = slashedAmount[a] + Taken(id)]
  BY DEF FinalizeSlash, InStatus
<1>4. /\ ByEvidence(id) => /\ slashCount' = [slashCount EXCEPT ![a] = slashCount[a] + 1]
                           /\ slashRecord' = [slashRecord EXCEPT ![old.evidence] = Taken(id)]
                           /\ jailed' = jailed \cup {a}
      /\ ~ByEvidence(id) => UNCHANGED <<slashCount, slashRecord, jailed>>
  BY DEF FinalizeSlash
<1>5. /\ pendingSlash'[id] = new /\ Filed(id)'
      /\ \A j \in SlashIds : j # id => pendingSlash'[j] = pendingSlash[j]
  BY <1>2, <1>3, SlashEntry
<1>6. ByEvidence(id) => /\ old.evidence \in Commitments /\ slashRecord[old.evidence] # None
                        /\ Standing(old.evidence) = {id}
  BY <1>3, OneStanding DEF InStatus
<1>7. ByEvidence(id) <=> old.evidence # None
  BY DEF ByEvidence
<1>8. slashRecord \in [Commitments -> Nat \cup {None}]
  BY DEF SlashInv, SlashingTypeOK
<1> HIDE DEF old, new, a
<1>9. ASSUME NEW c \in Commitments PROVE Backing(c)'
  <2>1. \A j \in SlashIds : j \in Standing(c)' <=> IF j = id THEN new.evidence = c /\ new.status # "Cancelled"
                                                  ELSE j \in Standing(c)
    BY <1>2, <1>3, SlashEntrySets
  <2>2. id \in Standing(c) <=> old.evidence = c
    BY <1>3 DEF Standing, InStatus, old
  <2>3. Standing(c) \subseteq SlashIds /\ Standing(c)' \subseteq SlashIds
    BY DEF Standing
  <2>4. Standing(c)' = Standing(c)
    BY <1>2, <2>1, <2>2, <2>3
  <2>5. slashRecord'[c] = None <=> slashRecord[c] = None
    <3>1. CASE ByEvidence(id)
      BY <1>1, <1>4, <1>6, <1>8, <3>1, SlashingAssumption
    <3>2. CASE ~ByEvidence(id)
      BY <1>4, <3>2
    <3> QED
      BY <3>1, <3>2
  <2>6. Backing(c)
    BY DEF SlashDetails
  <2> QED
    BY <2>4, <2>5, <2>6 DEF Backing
<1>10. ASSUME NEW j \in SlashIds PROVE Fair(j)'
  <2>1. CASE j = id
    <3>1. ByEvidence(id)' <=> ByEvidence(id)
      BY <1>2, <1>5, <1>7 DEF ByEvidence
    <3>2. ByEvidence(id) => slashRecord'[old.evidence] = Taken(id)
      BY <1>4, <1>6, <1>8
    <3> QED
      BY <1>1, <1>2, <1>3, <1>5, <2>1, <3>1, <3>2 DEF Fair
  <2>2. CASE j # id
    <3>1. Fair(j) /\ pendingSlash'[j] = pendingSlash[j]
      BY <1>5, <2>2 DEF SlashDetails
    <3>2. ASSUME InStatus(j, "Finalized"), ByEvidence(j)
          PROVE  slashRecord'[pendingSlash[j].evidence] = slashRecord[pendingSlash[j].evidence]
      <4> DEFINE c == pendingSlash[j].evidence
      <4>1. c \in Commitments /\ Standing(c) = {j}
        BY <3>2, OneStanding DEF InStatus
      <4> HIDE DEF c
      <4>2. ByEvidence(id) => c # old.evidence
        BY <1>6, <2>2, <4>1
      <4>3. slashRecord'[c] = slashRecord[c]
        BY <1>4, <1>8, <4>1, <4>2
      <4> QED
        BY <4>3 DEF c
    <3> QED
      BY <1>3, <3>1, <3>2 DEF Fair, ByEvidence, InStatus, Filed
  <2> QED
    BY <2>1, <2>2
<1>11. ASSUME NEW b \in Actors PROVE Tolls(b)'
  <2>1. /\ \A j \in SlashIds : j \in FinalSlashes(b)' <=> (j = id /\ a = b) \/ (j # id /\ j \in FinalSlashes(b))
        /\ \A j \in SlashIds : j \in Proven(b)' <=>
            (j = id /\ a = b /\ old.evidence # None) \/ (j # id /\ j \in Proven(b))
        /\ \A j \in SlashIds : AmountOf(j)' = AmountOf(j)
    <3>1. AmountOf(id) = old.amount
      BY <1>3 DEF AmountOf, old
    <3>2. \A j \in SlashIds : j \in FinalSlashes(b)' <=>
            IF j = id THEN new.status = "Finalized" /\ new.actor = b ELSE j \in FinalSlashes(b)
      BY <1>2, <1>3, SlashEntrySets
    <3>3. \A j \in SlashIds : j \in Proven(b)' <=>
            IF j = id THEN new.status = "Finalized" /\ new.actor = b /\ new.evidence # None
            ELSE j \in Proven(b)
      BY <1>2, <1>3, SlashEntrySets
    <3>4. \A j \in SlashIds : AmountOf(j)' = IF j = id THEN new.amount ELSE AmountOf(j)
      BY <1>2, <1>3, SlashEntrySets
    <3>5. new.status = "Finalized" /\ new.actor = a /\ new.evidence = old.evidence
      BY <1>2
    <3>6. \A j \in SlashIds : AmountOf(j)' = AmountOf(j)
      BY <1>2, <3>1, <3>4
    <3>7. \A j \in SlashIds : j \in FinalSlashes(b)' <=> (j = id /\ a = b) \/ (j # id /\ j \in FinalSlashes(b))
      BY <3>2, <3>5
    <3>8. \A j \in SlashIds : j \in Proven(b)' <=>
            (j = id /\ a = b /\ old.evidence # None) \/ (j # id /\ j \in Proven(b))
      BY <3>3, <3>5
    <3> QED
      BY <3>6, <3>7, <3>8
  <2>2. /\ id \notin FinalSlashes(b) /\ id \notin Proven(b)
        /\ FinalSlashes(b) \subseteq SlashIds /\ Proven(b) \subseteq SlashIds
        /\ FinalSlashes(b)' \subseteq SlashIds /\ Proven(b)' \subseteq SlashIds
    BY <1>3 DEF FinalSlashes, Proven, InStatus, old
  <2>3. /\ slashCount[b] = Cardinality(Proven(b))
        /\ b \in jailed => Proven(b) # {}
        /\ slashedAmount[b] <= FinalSum(b)
    BY DEF SlashDetails, Tolls
  <2>4. CASE a # b
    <3>1. FinalSlashes(b)' = FinalSlashes(b) /\ Proven(b)' = Proven(b)
      BY <2>1, <2>2, <2>4
    <3>2. FinalSum(b)' = FinalSum(b)
      BY <2>1, <2>2, <3>1, FinalSumStays
    <3>3. slashCount'[b] = slashCount[b] /\ (b \in jailed' <=> b \in jailed) /\ slashedAmount'[b] = slashedAmount[b]
      BY <1>3, <1>4, <2>4 DEF SlashInv, SlashingTypeOK
    <3> QED
      BY <2>3, <3>1, <3>2, <3>3 DEF Tolls
  <2>5. CASE a = b
    <3> DEFINE S == FinalSlashes(b)
               f == [j \in SlashIds |-> AmountOf(j)]
               g == [j \in SlashIds |-> AmountOf(j)']
    <3>1. FinalSlashes(b)' = S \cup {id}
      BY <2>1, <2>2, <2>5
    <3>2. Proven(b)' = IF ByEvidence(id) THEN Proven(b) \cup {id} ELSE Proven(b)
      <4>1. CASE ByEvidence(id)
        <5>1. \A j \in SlashIds : j \in Proven(b)' <=> j = id \/ j \in Proven(b)
          BY <1>7, <2>1, <2>5, <4>1
        <5> QED
          BY <2>2, <4>1, <5>1
      <4>2. CASE ~ByEvidence(id)
        <5>1. \A j \in SlashIds : j \in Proven(b)' <=> j \in Proven(b)
          BY <1>7, <2>1, <2>2, <4>2
        <5> QED
          BY <2>2, <4>2, <5>1
      <4> QED
        BY <4>1, <4>2
    <3>3. IsFiniteSet(S) /\ IsFiniteSet(S \cup {id}) /\ IsFiniteSet(Proven(b))
      BY <2>2, SlashSets
    <3>4. \A j \in S \cup {id} : f[j] \in Int /\ f[j] = g[j]
      BY <2>1, <2>2, SlashSets
    <3>5. /\ FinalSum(b) = SumFunctionOnSet(f, S)
          /\ FinalSum(b)' = SumFunctionOnSet(g, S \cup {id})
      BY <3>1 DEF FinalSum
    <3>6. f[id] = old.amount /\ id \notin S
      BY <1>3, <2>2 DEF AmountOf, old
    <3>7. FinalSum(b)' = FinalSum(b) + old.amount /\ FinalSum(b) \in Int
      <4> HIDE DEF S, f, g
      <4>1. SumFunctionOnSet(f, S \cup {id}) = SumFunctionOnSet(g, S \cup {id})
        BY <3>3, <3>4, SumAgrees
      <4>2. \A j \in S \cup {id} : f[j] \in Int
        BY <3>4
      <4>3. SumFunctionOnSet(f, S \cup {id}) = SumFunctionOnSet(f, S) + f[id]
        BY <3>3, <3>6, <4>2, SumWithOneMore
      <4>4. SumFunctionOnSet(f, S) \in Int
        BY <3>3, <4>2, SumIsInt
      <4> QED
        BY <3>5, <3>6, <4>1, <4>3, <4>4
    <3>8. slashedAmount'[b] = slashedAmount[b] + Taken(id) /\ slashedAmount[b] \in Nat
      BY <1>3, <2>5 DEF SlashInv, SlashingTypeOK
    <3>9. slashedAmount'[b] <= FinalSum(b)'
      BY <1>1, <1>2, <2>3, <3>7, <3>8
    <3>10. CASE ByEvidence(id)
      <4>1. slashCount'[b] = slashCount[b] + 1
        BY <1>4, <2>5, <3>10 DEF SlashInv, SlashingTypeOK
      <4>2. Cardinality(Proven(b) \cup {id}) = Cardinality(Proven(b)) + 1
        BY <2>2, <3>3, FS_AddElement
      <4> QED
        BY <2>3, <3>2, <3>9, <3>10, <4>1, <4>2 DEF Tolls
    <3>11. CASE ~ByEvidence(id)
      BY <1>4, <2>3, <3>2, <3>9, <3>11 DEF Tolls
    <3> QED
      BY <3>10, <3>11
  <2> QED
    BY <2>4, <2>5
<1> QED
  BY <1>9, <1>10, <1>11 DEF SlashDetails

\* A cancelled slash frees its evidence and leaves what is final alone.
LEMMA CancelJustified ==
    ASSUME SlashInv, SlashInv', SlashDetails, NEW id \in SlashIds, CancelSlash(id)
    PROVE  SlashDetails'
<1> DEFINE old == pendingSlash[id]
           new == [pendingSlash[id] EXCEPT !.status = "Cancelled"]
<1>1. old \in Slashes
  BY VerdictTypes
<1>2. /\ new \in Slashes /\ new.status = "Cancelled" /\ new.amount = old.amount
  BY <1>1 DEF Slashes
<1>3. /\ Filed(id) /\ old.status = "Pending"
      /\ pendingSlash' = [pendingSlash EXCEPT ![id] = new]
      /\ \A c \in Commitments : slashRecord'[c] = IF c = old.evidence THEN None ELSE slashRecord[c]
      /\ revealed' = revealed \ {id}
      /\ UNCHANGED <<now, slashedAmount, slashCount, jailed>>
  BY DEF CancelSlash, InStatus, tollVars, jailVars
<1>4. /\ pendingSlash'[id] = new /\ Filed(id)'
      /\ \A j \in SlashIds : j # id => pendingSlash'[j] = pendingSlash[j]
  BY <1>2, <1>3, SlashEntry
<1>5. ByEvidence(id) => /\ old.evidence \in Commitments /\ Standing(old.evidence) = {id}
  BY <1>3, OneStanding DEF InStatus
<1>6. ByEvidence(id) <=> old.evidence # None
  BY DEF ByEvidence
<1>7. \A c \in Commitments : id \in Standing(c) <=> old.evidence = c
  BY <1>3 DEF Standing, InStatus
<1>8. AmountOf(id) = old.amount
  BY <1>3 DEF AmountOf
<1>9. \A b \in Actors : id \notin FinalSlashes(b) /\ id \notin Proven(b)
  BY <1>3 DEF FinalSlashes, Proven, InStatus
<1> HIDE DEF old, new
<1>10. ASSUME NEW c \in Commitments PROVE Backing(c)'
  <2>1. \A j \in SlashIds : j \in Standing(c)' <=> IF j = id THEN new.evidence = c /\ new.status # "Cancelled"
                                                  ELSE j \in Standing(c)
    BY <1>2, <1>3, SlashEntrySets
  <2>2. Standing(c) \subseteq SlashIds /\ Standing(c)' \subseteq SlashIds
    BY DEF Standing
  <2>3. Standing(c)' = Standing(c) \ {id}
    BY <1>2, <2>1, <2>2
  <2>4. Backing(c)
    BY DEF SlashDetails
  <2>5. CASE old.evidence = c
    <3>1. Standing(c) = {id} /\ slashRecord'[c] = None
      BY <1>3, <1>5, <1>6, <2>5, SlashingAssumption
    <3> QED
      BY <2>3, <3>1 DEF Backing
  <2>6. CASE old.evidence # c
    <3>1. slashRecord'[c] = slashRecord[c] /\ Standing(c)' = Standing(c)
      BY <1>3, <1>7, <2>3, <2>6
    <3> QED
      BY <2>4, <3>1 DEF Backing
  <2> QED
    BY <2>5, <2>6
<1>11. ASSUME NEW j \in SlashIds, InStatus(j, "Finalized")' PROVE Fair(j)'
  <2>1. j # id
    BY <1>2, <1>4, <1>11 DEF InStatus
  <2>2. Fair(j) /\ pendingSlash'[j] = pendingSlash[j] /\ InStatus(j, "Finalized")
    BY <1>4, <1>11, <2>1 DEF SlashDetails, InStatus, Filed
  <2>3. ASSUME ByEvidence(j)
        PROVE  slashRecord'[pendingSlash[j].evidence] = slashRecord[pendingSlash[j].evidence]
    <3> DEFINE c == pendingSlash[j].evidence
    <3>1. c \in Commitments /\ Standing(c) = {j}
      BY <2>2, <2>3, OneStanding DEF InStatus
    <3> HIDE DEF c
    <3>2. c # old.evidence
      BY <1>7, <2>1, <3>1
    <3>3. slashRecord'[c] = slashRecord[c]
      BY <1>3, <3>1, <3>2
    <3> QED
      BY <3>3 DEF c
  <2> QED
    BY <1>3, <2>1, <2>2, <2>3 DEF Fair, ByEvidence
<1>12. ASSUME NEW b \in Actors PROVE Tolls(b)'
  <2>1. ASSUME NEW j \in SlashIds
        PROVE  /\ j \in FinalSlashes(b)' <=> j \in FinalSlashes(b)
               /\ j \in Proven(b)' <=> j \in Proven(b)
               /\ AmountOf(j)' = AmountOf(j)
    <3>1. /\ j \in FinalSlashes(b)' <=> IF j = id THEN new.status = "Finalized" /\ new.actor = b
                                         ELSE j \in FinalSlashes(b)
          /\ j \in Proven(b)' <=> IF j = id THEN /\ new.status = "Finalized" /\ new.actor = b
                                                 /\ new.evidence # None
                                   ELSE j \in Proven(b)
          /\ AmountOf(j)' = IF j = id THEN new.amount ELSE AmountOf(j)
      BY <1>2, <1>3, SlashEntrySets
    <3> QED
      BY <1>2, <1>8, <1>9, <3>1
  <2>2. FinalSlashes(b)' = FinalSlashes(b) /\ Proven(b)' = Proven(b)
    BY <2>1 DEF FinalSlashes, Proven
  <2>3. FinalSum(b)' = FinalSum(b)
    BY <2>1, <2>2, FinalSumStays DEF FinalSlashes
  <2> QED
    BY <1>3, <2>2, <2>3 DEF SlashDetails, Tolls
<1>13. \A j \in SlashIds : Fair(j)'
  BY <1>11 DEF Fair
<1> QED
  BY <1>10, <1>12, <1>13 DEF SlashDetails

\* Every step keeps them.
LEMMA SlashesJustifiedStep ==
    SlashInv /\ SlashInv' /\ SlashDetails /\ [SlashingNext]_SlashState => SlashDetails'
  BY SlashSteps, AsideKeeps, AsideJustified, FilingJustified, FinalJustified, CancelJustified

\* Initially there is nothing to justify.
LEMMA SlashDetailsInit == now = 0 /\ SlashingInit => SlashDetails
<1> SUFFICES ASSUME now = 0, SlashingInit PROVE SlashDetails
  OBVIOUS
<1>1. \A id \in SlashIds : ~Filed(id)
  BY DEF SlashingInit, Filed
<1>2. /\ \A c \in Commitments : Standing(c) = {}
      /\ \A a \in Actors : FinalSlashes(a) = {} /\ Proven(a) = {}
  BY <1>1 DEF Standing, FinalSlashes, Proven, InStatus
<1>3. \A a \in Actors : FinalSum(a) = 0
  BY <1>2, SumOfNone DEF FinalSum
<1>4. \A a \in Actors : slashCount[a] = 0 /\ slashedAmount[a] = 0 /\ a \notin jailed
  BY DEF SlashingInit
<1>5. \A c \in Commitments : Backing(c)
  BY <1>2 DEF Backing, SlashingInit
<1>6. \A id \in SlashIds : Fair(id)
  BY <1>1 DEF Fair, InStatus
<1>7. \A a \in Actors : Tolls(a)
  BY <1>2, <1>3, <1>4, FS_EmptySet DEF Tolls
<1> QED
  BY <1>5, <1>6, <1>7 DEF SlashDetails

\* For all actors, evidence, penalties and windows, and whatever the order of
\* filing, revealing, cancelling and finalising: each piece of evidence stands
\* behind at most one slash, a final slash had its window and its revelation, and
\* counts, sums and the jail follow from the final slashes (submit_evidence,
\* finalize_slash, cancel_slash).
THEOREM SlashesStayJustified == SlashingSpec => []SlashesJustified
  BY SlashInvInit, SlashTypes, SlashDetailsInit, SlashesJustifiedStep, JustifiedParts, PTL
     DEF SlashingSpec, SlashState

-----------------------------------------------------------------------------
(* bond_collateral *)

\* All that a step of bond_collateral may change.
BondState == <<now, bondVars, slashingVars>>

\* What the proofs rest on, besides the types of the slashing module.
CollateralInv == now \in Nat /\ BondTypeOK /\ CollateralBooked

\* A keeper's reward is no more than what is seized.
LEMMA RewardWithinSeized ==
    ASSUME BondTypeOK, NEW seized \in Nat
    PROVE  (seized * keeperRewardCap) \div FullBps \in 0..seized
<1>1. keeperRewardCap \in 0..FullBps /\ FullBps \in Nat \ {0}
  BY LedgerAssumption DEF BondTypeOK
<1> QED
  BY <1>1, PartOfWhole

\* What is seized is collateral.
LEMMA SeizedWithinCollateral ==
    ASSUME BondTypeOK, NEW collateral \in Nat, NEW bond \in Nat, NEW price \in Int
    PROVE  SeizeAmount(collateral, bond, price) \in 0..collateral
<1> DEFINE short == targetHealthRatio * bond * PriceScale - 100 * collateral * price
           unit  == price * (targetHealthRatio - 100)
           raw   == short \div unit
<1>1. CASE price <= 0
  BY <1>1 DEF SeizeAmount
<1>2. CASE price > 0
  <2>1. short \in Int /\ unit \in Nat \ {0}
    <3>1. /\ targetHealthRatio \in Nat /\ targetHealthRatio - 100 \in Nat \ {0}
          /\ PriceScale \in Nat /\ price \in Nat \ {0}
      BY <1>2, BondAssumption DEF BondTypeOK
    <3>2. targetHealthRatio * bond * PriceScale \in Int /\ 100 * collateral * price \in Int
      BY <3>1
    <3>3. unit \in Nat /\ unit # 0
      <4> DEFINE t == targetHealthRatio - 100
      <4>1. t \in Nat /\ t > 0 /\ price > 0
        BY <3>1
      <4> HIDE DEF t
      <4>2. price * t > 0 /\ price * t \in Nat
        BY <4>1
      <4> QED
        BY <4>2 DEF t
    <3> QED
      BY <3>2, <3>3
  <2> HIDE DEF short, unit
  <2>2. raw \in Int
    BY <2>1
  <2>3. SeizeAmount(collateral, bond, price) = Lesser(IF raw < 1 THEN 1 ELSE raw, collateral)
    BY <1>2 DEF SeizeAmount, short, unit
  <2> HIDE DEF raw
  <2> DEFINE wanted == IF raw < 1 THEN 1 ELSE raw
  <2>4. wanted \in Nat
    BY <2>2
  <2> HIDE DEF wanted
  <2>5. Lesser(wanted, collateral) \in 0..collateral
    BY <2>4, LesserOfTwo
  <2> QED
    BY <2>3, <2>5 DEF wanted
<1> QED
  BY <1>1, <1>2

\* One entry changes, and the total with it, and the tokens by no less.
LEMMA EntryMoves ==
    ASSUME CollateralInv, NEW p \in Positions, NEW holding \in Holdings \cup {None}, NEW n \in Nat,
           n = IF holding = None THEN 0 ELSE holding.collateral,
           position' = [position EXCEPT ![p] = holding],
           totalCollateral' = totalCollateral - CollateralOf(p) + n,
           bondTokens' \in Nat, bondTokens' - bondTokens >= n - CollateralOf(p)
    PROVE  /\ CollateralBooked' /\ totalCollateral' \in Nat
           /\ position' \in [Positions -> Holdings \cup {None}]
<1> DEFINE f == [q \in Positions |-> CollateralOf(q)]
           g == [q \in Positions |-> CollateralOf(q)']
<1>1. position \in [Positions -> Holdings \cup {None}] /\ bondTokens \in Nat /\ totalCollateral \in Nat
  BY DEF CollateralInv, BondTypeOK
<1>2. f \in [Positions -> Nat]
  BY <1>1 DEF CollateralOf, Holdings
<1>3. g[p] = n /\ \A q \in Positions : q # p => g[q] = f[q]
  BY <1>1 DEF CollateralOf
<1>4. f[p] = CollateralOf(p)
  OBVIOUS
<1>5. totalCollateral = SumFunctionOnSet(f, Positions) /\ totalCollateral <= bondTokens
  BY DEF CollateralInv, CollateralBooked
<1>6. CollateralBooked' <=> /\ totalCollateral' = SumFunctionOnSet(g, Positions)
                            /\ totalCollateral' <= bondTokens'
  BY DEF CollateralBooked
<1>7. position' \in [Positions -> Holdings \cup {None}]
  BY <1>1
<1> HIDE DEF f, g
<1>8. /\ SumFunctionOnSet(g, Positions) = SumFunctionOnSet(f, Positions) - f[p] + n
      /\ SumFunctionOnSet(g, Positions) \in Nat /\ f[p] \in Nat
  BY <1>2, <1>3, BondAssumption, SumOfUpdate
<1> QED
  BY <1>1, <1>4, <1>5, <1>6, <1>7, <1>8

\* The types of what is not about positions.
BondAside ==
    /\ {liquidationThreshold, targetHealthRatio, keeperRewardCap} \subseteq Nat
    /\ liquidationThreshold >= 100 /\ targetHealthRatio > 100 /\ 2 * keeperRewardCap <= FullBps
    /\ oracleStaleness \in Nat \cup {None}
    /\ {bondPaused, operatorSet, slashingNamed} \subseteq BOOLEAN
    /\ inspectorBond \in [Inspectors -> Nat] /\ locks \in [Inspectors -> SUBSET Inspections]

\* The invariant, in the parts that steps disturb.
LEMMA CollateralParts ==
    CollateralInv <=> /\ now \in Nat /\ CollateralBooked /\ BondAside
                      /\ position \in [Positions -> Holdings \cup {None}]
                      /\ {totalCollateral, bondTokens} \subseteq Nat /\ purse \in [Users -> Nat]
  BY DEF CollateralInv, BondTypeOK, BondAside

\* Collateral comes in.
LEMMA DepositBooked ==
    ASSUME CollateralInv, NEW u \in Users, NEW p \in Positions, NEW amount \in Amounts,
           DepositCollateral(u, p, amount)
    PROVE  CollateralInv'
<1> DEFINE holding == IF position[p] = None THEN [owner |-> u, collateral |-> amount, bond |-> 0]
                      ELSE [position[p] EXCEPT !.collateral = @ + amount]
<1>0. position' = [position EXCEPT ![p] = holding]
  <2>1. position \in [Positions -> Holdings \cup {None}]
    BY DEF CollateralInv, BondTypeOK
  <2>2. CASE position[p] = None
    <3>1. holding = [owner |-> u, collateral |-> amount, bond |-> 0]
      BY <2>2
    <3> HIDE DEF holding
    <3> QED
      BY <2>1, <2>2, <3>1 DEF DepositCollateral
  <2>3. CASE position[p] # None
    <3>1. holding = [position[p] EXCEPT !.collateral = position[p].collateral + amount]
      BY <2>3
    <3> HIDE DEF holding
    <3> QED
      BY <2>1, <2>3, <3>1 DEF DepositCollateral, Holdings
  <2> QED
    BY <2>2, <2>3
<1>1. /\ position' = [position EXCEPT ![p] = holding]
      /\ totalCollateral' = totalCollateral + amount /\ bondTokens' = bondTokens + amount
      /\ purse' = [purse EXCEPT ![u] = purse[u] - amount] /\ purse[u] >= amount
      /\ UNCHANGED <<now, riskVars, bondPaused, linkVars, inspectorVars>>
  BY <1>0 DEF DepositCollateral
<1>2. /\ amount \in Nat /\ position[p] \in Holdings \cup {None} /\ purse[u] \in Nat
      /\ totalCollateral \in Nat /\ bondTokens \in Nat
  BY BondAssumption DEF CollateralInv, BondTypeOK
<1>3. holding \in Holdings /\ holding.collateral = CollateralOf(p) + amount /\ CollateralOf(p) \in Nat
  BY <1>2 DEF Holdings, CollateralOf
<1>4. holding # None
  BY <1>3, BondAssumption
<1>5. purse' \in [Users -> Nat]
  BY <1>1, <1>2 DEF CollateralInv, BondTypeOK
<1> HIDE DEF holding
<1> DEFINE n == CollateralOf(p) + amount
<1>6. n \in Nat /\ n = IF holding = None THEN 0 ELSE holding.collateral
  BY <1>2, <1>3, <1>4
<1>7. /\ totalCollateral' = totalCollateral - CollateralOf(p) + n
      /\ bondTokens' \in Nat /\ bondTokens' - bondTokens >= n - CollateralOf(p)
  BY <1>1, <1>2, <1>3
<1> HIDE DEF n
<1>8. /\ CollateralBooked' /\ totalCollateral' \in Nat
      /\ position' \in [Positions -> Holdings \cup {None}]
  BY <1>1, <1>3, <1>6, <1>7, EntryMoves
<1> QED
  BY <1>1, <1>5, <1>7, <1>8
     DEF CollateralInv, BondTypeOK, riskVars, linkVars, inspectorVars

\* Collateral goes out.
LEMMA WithdrawalBooked ==
    ASSUME CollateralInv, NEW u \in Users, NEW p \in Positions, NEW amount \in Amounts,
           WithdrawCollateral(u, p, amount)
    PROVE  CollateralInv'
<1> DEFINE holding == [position[p] EXCEPT !.collateral = @ - amount]
<1>1. /\ position' = [position EXCEPT ![p] = holding] /\ position[p] # None
      /\ position[p].collateral >= amount /\ bondTokens >= amount
      /\ totalCollateral' = totalCollateral - amount /\ bondTokens' = bondTokens - amount
      /\ purse' = [purse EXCEPT ![u] = purse[u] + amount]
      /\ UNCHANGED <<now, riskVars, bondPaused, linkVars, inspectorVars>>
  BY DEF WithdrawCollateral, OwnedBy, CollateralInv, BondTypeOK
<1>2. /\ amount \in Nat /\ position[p] \in Holdings /\ purse[u] \in Nat
      /\ totalCollateral \in Nat /\ bondTokens \in Nat
  BY <1>1, BondAssumption DEF CollateralInv, BondTypeOK
<1>3. /\ holding \in Holdings /\ holding.collateral = CollateralOf(p) - amount
      /\ CollateralOf(p) \in Nat /\ CollateralOf(p) >= amount
  BY <1>1, <1>2 DEF Holdings, CollateralOf
<1>4. holding # None
  BY <1>3, BondAssumption
<1>5. purse' \in [Users -> Nat]
  BY <1>1, <1>2 DEF CollateralInv, BondTypeOK
<1> HIDE DEF holding
<1> DEFINE n == CollateralOf(p) - amount
<1>6. n \in Nat /\ n = IF holding = None THEN 0 ELSE holding.collateral
  BY <1>2, <1>3, <1>4
<1>7. /\ totalCollateral' = totalCollateral - CollateralOf(p) + n
      /\ bondTokens' \in Nat /\ bondTokens' - bondTokens >= n - CollateralOf(p)
  BY <1>1, <1>2, <1>3
<1> HIDE DEF n
<1>8. /\ CollateralBooked' /\ totalCollateral' \in Nat
      /\ position' \in [Positions -> Holdings \cup {None}]
  BY <1>1, <1>3, <1>6, <1>7, EntryMoves
<1> QED
  BY <1>1, <1>5, <1>7, <1>8
     DEF CollateralInv, BondTypeOK, riskVars, linkVars, inspectorVars

\* What a liquidation takes, and what it leaves of the position.
LEMMA LiquidationTerms ==
    ASSUME CollateralInv, NEW k \in Users, NEW p \in Positions, NEW price \in Prices,
           NEW answeredAt \in 0..now, Liquidate(k, p, price, answeredAt)
    PROVE  LET collateral == position[p].collateral
               bond       == position[p].bond
               seized     == SeizeAmount(collateral, bond, price)
               reduction  == BondReduction(seized, bond, price)
               closed     == seized = collateral \/ bond - reduction = 0
               reward     == (seized * keeperRewardCap) \div FullBps
               left       == IF closed THEN None
                             ELSE [position[p] EXCEPT !.collateral = collateral - seized,
                                                      !.bond = bond - reduction]
           IN  /\ position[p] \in Holdings /\ collateral \in Nat /\ bond \in Nat \ {0}
               /\ seized \in 0..collateral /\ reward \in 0..seized
               /\ seized # collateral => price \in Nat \ {0} /\ reduction \in 0..bond
               /\ position' = [position EXCEPT ![p] = left]
               /\ totalCollateral' = totalCollateral - (IF closed THEN collateral ELSE seized)
               /\ bondTokens' = bondTokens - reward /\ bondTokens >= reward
               /\ purse' = [purse EXCEPT ![k] = purse[k] + reward]
               /\ UNCHANGED <<now, riskVars, bondPaused, linkVars, inspectorVars>>
<1> DEFINE collateral == position[p].collateral
           bond       == position[p].bond
           seized     == SeizeAmount(collateral, bond, price)
           worth      == (seized * price) \div PriceScale
           reduction  == BondReduction(seized, bond, price)
           closed     == seized = collateral \/ bond - reduction = 0
           reward     == (seized * keeperRewardCap) \div FullBps
           left       == IF closed THEN None
                         ELSE [position[p] EXCEPT !.collateral = collateral - seized,
                                                  !.bond = bond - reduction]
<1>1. position[p] \in Holdings /\ BondTypeOK
  BY DEF Liquidate, CollateralInv, BondTypeOK
<1>2. collateral \in Nat /\ bond \in Nat \ {0} /\ price \in Int
  <2>1. bond # 0
    BY DEF Liquidate
  <2>2. collateral \in Nat /\ bond \in Nat
    BY <1>1 DEF Holdings
  <2>3. price \in Int
    BY BondAssumption
  <2> HIDE DEF collateral, bond
  <2> QED
    BY <2>1, <2>2, <2>3
<1>3. seized \in 0..collateral /\ seized \in Nat
  <2>1. collateral \in Nat /\ bond \in Nat /\ price \in Int
    BY <1>2
  <2> HIDE DEF collateral, bond
  <2>2. seized \in 0..collateral
    BY <1>1, <2>1, SeizedWithinCollateral
  <2> HIDE DEF seized
  <2> QED
    BY <2>1, <2>2
<1>4. reward \in 0..seized
  BY <1>1, <1>3, RewardWithinSeized
<1>5. ASSUME seized # collateral
      PROVE  price \in Nat \ {0}
  <2>1. price > 0
    BY <1>2, <1>5 DEF SeizeAmount
  <2> QED
    BY <1>2, <2>1
<1>6. ASSUME seized # collateral
      PROVE  reduction \in 0..bond
  <2>1. worth \in Nat
    <3> DEFINE product == seized * price
    <3>1. product \in Nat /\ PriceScale \in Nat \ {0}
      BY <1>3, <1>5, <1>6, BondAssumption
    <3> HIDE DEF product
    <3>2. product \div PriceScale \in Nat
      BY <3>1, QuotientRounds
    <3> QED
      BY <3>2 DEF product
  <2>2. reduction = Lesser(worth, bond)
    BY DEF BondReduction
  <2>3. bond \in Nat
    BY <1>2
  <2> HIDE DEF worth, reduction, bond
  <2> QED
    BY <2>1, <2>2, <2>3, LesserOfTwo
<1>7. /\ totalCollateral' = totalCollateral - (IF closed THEN collateral ELSE seized)
      /\ bondTokens' = bondTokens - reward /\ bondTokens >= reward
      /\ purse' = [purse EXCEPT ![k] = purse[k] + reward]
      /\ UNCHANGED <<now, riskVars, bondPaused, linkVars, inspectorVars>>
  BY DEF Liquidate, TakenOut
<1>8. position' = [position EXCEPT ![p] = left]
  BY DEF Liquidate
<1> QED
  BY <1>1, <1>2, <1>3, <1>4, <1>5, <1>6, <1>7, <1>8

\* A liquidation takes out of the total what leaves the position, and pays the
\* keeper out of that.
LEMMA LiquidationBooked ==
    ASSUME CollateralInv, NEW k \in Users, NEW p \in Positions, NEW price \in Prices,
           NEW answeredAt \in 0..now, Liquidate(k, p, price, answeredAt)
    PROVE  CollateralInv'
<1> DEFINE collateral == position[p].collateral
           bond       == position[p].bond
           seized     == SeizeAmount(collateral, bond, price)
           reduction  == BondReduction(seized, bond, price)
           closed     == seized = collateral \/ bond - reduction = 0
           reward     == (seized * keeperRewardCap) \div FullBps
           left       == IF closed THEN None
                         ELSE [position[p] EXCEPT !.collateral = collateral - seized,
                                                  !.bond = bond - reduction]
           n          == IF closed THEN 0 ELSE collateral - seized
<1>1. /\ position[p] \in Holdings /\ collateral \in Nat /\ bond \in Nat \ {0}
      /\ seized \in 0..collateral /\ reward \in 0..seized
      /\ seized # collateral => price \in Nat \ {0} /\ reduction \in 0..bond
      /\ position' = [position EXCEPT ![p] = left]
      /\ totalCollateral' = totalCollateral - (IF closed THEN collateral ELSE seized)
      /\ bondTokens' = bondTokens - reward /\ bondTokens >= reward
      /\ purse' = [purse EXCEPT ![k] = purse[k] + reward]
      /\ UNCHANGED <<now, riskVars, bondPaused, linkVars, inspectorVars>>
  BY LiquidationTerms
<1>2. /\ purse[k] \in Nat /\ totalCollateral \in Nat /\ bondTokens \in Nat
      /\ CollateralOf(p) = collateral
  BY <1>1, BondAssumption DEF CollateralInv, BondTypeOK, CollateralOf
<1>3. left \in Holdings \cup {None} /\ n = IF left = None THEN 0 ELSE left.collateral
  <2>1. CASE closed
    BY <2>1
  <2>2. CASE ~closed
    <3>1. left = [position[p] EXCEPT !.collateral = collateral - seized, !.bond = bond - reduction]
      BY <2>2
    <3>2. n = collateral - seized
      BY <2>2
    <3>3. collateral - seized \in Nat /\ bond - reduction \in Nat
      <4>1. seized # collateral
        BY <2>2
      <4> HIDE DEF seized, reduction, collateral, bond
      <4> QED
        BY <1>1, <4>1
    <3> HIDE DEF left, n, seized, reduction
    <3>4. left \in Holdings /\ left.collateral = collateral - seized
      BY <1>1, <3>1, <3>3 DEF Holdings
    <3> QED
      BY <3>2, <3>4, BondAssumption
  <2> QED
    BY <2>1, <2>2
<1>4. n \in Nat /\ totalCollateral' = totalCollateral - CollateralOf(p) + n
  <2> HIDE DEF seized, reduction
  <2>1. CASE closed
    BY <1>1, <1>2, <2>1
  <2>2. CASE ~closed
    BY <1>1, <1>2, <2>2
  <2> QED
    BY <2>1, <2>2
<1>5. bondTokens' \in Nat /\ bondTokens' - bondTokens >= n - CollateralOf(p)
  <2> HIDE DEF seized, reduction, reward
  <2>1. CASE closed
    BY <1>1, <1>2, <2>1
  <2>2. CASE ~closed
    BY <1>1, <1>2, <2>2
  <2> QED
    BY <2>1, <2>2
<1> HIDE DEF left, n, reward, seized, reduction
<1>6. purse' \in [Users -> Nat]
  BY <1>1, <1>2 DEF CollateralInv, BondTypeOK
<1>7. /\ CollateralBooked' /\ totalCollateral' \in Nat
      /\ position' \in [Positions -> Holdings \cup {None}]
  BY <1>1, <1>3, <1>4, <1>5, EntryMoves
<1> QED
  BY <1>1, <1>5, <1>6, <1>7
     DEF CollateralInv, BondTypeOK, riskVars, linkVars, inspectorVars

\* Bonds are issued and redeemed without moving collateral.
LEMMA BondsBooked ==
    ASSUME CollateralInv, NEW u \in Users, NEW p \in Positions, NEW amount \in Amounts,
           IssueBond(u, p, amount) \/ RedeemBond(u, p, amount)
    PROVE  CollateralInv'
<1>1. PICK bond \in Nat :
        /\ position' = [position EXCEPT ![p] = [position[p] EXCEPT !.bond = bond]]
        /\ position[p] \in Holdings
  <2>1. position[p] \in Holdings /\ amount \in Nat
    BY BondAssumption DEF IssueBond, RedeemBond, OwnedBy, CollateralInv, BondTypeOK
  <2>2. position[p].bond \in Nat
    BY <2>1 DEF Holdings
  <2>3. CASE IssueBond(u, p, amount)
    <3>1. position' = [position EXCEPT ![p] = [position[p] EXCEPT !.bond = position[p].bond + amount]]
      BY <2>3 DEF IssueBond
    <3>2. position[p].bond + amount \in Nat
      BY <2>1, <2>2
    <3> QED
      BY <2>1, <3>1, <3>2
  <2>4. CASE RedeemBond(u, p, amount)
    <3>1. /\ position' = [position EXCEPT ![p] = [position[p] EXCEPT !.bond = position[p].bond - amount]]
          /\ position[p].bond >= amount
      BY <2>4 DEF RedeemBond
    <3>2. position[p].bond - amount \in Nat
      BY <2>1, <2>2, <3>1
    <3> QED
      BY <2>1, <3>1, <3>2
  <2> QED
    BY <2>3, <2>4
<1>2. UNCHANGED <<now, totalCollateral, bondTokens, purse, riskVars, bondPaused, linkVars, inspectorVars>>
  BY DEF IssueBond, RedeemBond
<1> DEFINE holding == [position[p] EXCEPT !.bond = bond]
           n == CollateralOf(p)
<1>3. holding \in Holdings /\ holding.collateral = position[p].collateral
  BY <1>1 DEF Holdings
<1>4. CollateralOf(p) = position[p].collateral /\ CollateralOf(p) \in Nat
  BY <1>1, BondAssumption DEF CollateralOf, Holdings
<1>5. position' = [position EXCEPT ![p] = holding]
  BY <1>1
<1> HIDE DEF holding
<1>6. n \in Nat /\ n = IF holding = None THEN 0 ELSE holding.collateral
  BY <1>3, <1>4, BondAssumption
<1>7. /\ totalCollateral' = totalCollateral - CollateralOf(p) + n
      /\ bondTokens' \in Nat /\ bondTokens' - bondTokens >= n - CollateralOf(p)
  BY <1>2, <1>4 DEF CollateralInv, BondTypeOK
<1> HIDE DEF n
<1>8. /\ CollateralBooked' /\ totalCollateral' \in Nat
      /\ position' \in [Positions -> Holdings \cup {None}]
  BY <1>3, <1>5, <1>6, <1>7, EntryMoves
<1> QED
  BY <1>2, <1>7, <1>8
     DEF CollateralInv, BondTypeOK, riskVars, linkVars, inspectorVars

\* Steps that move no collateral: settings, inspectors' bonds, slashes, time.
LEMMA MoneyStays ==
    ASSUME CollateralInv, UNCHANGED moneyVars, now' \in Nat, BondAside'
    PROVE  CollateralInv'
<1>1. /\ position' = position /\ totalCollateral' = totalCollateral
      /\ bondTokens' = bondTokens /\ purse' = purse
  BY DEF moneyVars
<1>2. CollateralBooked'
  BY <1>1 DEF CollateralInv, CollateralBooked, CollateralOf
<1> QED
  BY <1>1, <1>2, CollateralParts DEF CollateralInv, BondTypeOK, BondAside

\* The slashing module advances the clock, if at all, by a tick.
LEMMA SlashClock == SlashingNext => now' = now \/ now' = now + 1
<1> SUFFICES ASSUME SlashingNext PROVE now' = now \/ now' = now + 1
  OBVIOUS
<1>1. ASSUME NEW id \in SlashIds, NEW a \in Actors, NEW bps \in Tiers, ProposeSlash(id, a, bps)
      PROVE  now' = now
  BY <1>1 DEF ProposeSlash, FileSlash
<1>2. ASSUME NEW id \in SlashIds, NEW c \in Commitments, NEW a \in Actors, NEW o \in Offences,
             SubmitEvidence(id, c, a, o)
      PROVE  now' = now
  BY <1>2 DEF SubmitEvidence, FileSlash
<1>3. ASSUME NEW id \in SlashIds, FinalizeSlash(id) \/ CancelSlash(id) \/ RevealEvidence(id)
      PROVE  now' = now
  BY <1>3 DEF FinalizeSlash, CancelSlash, RevealEvidence
<1>4. ASSUME NEW a \in Actors, \/ ApproveUnjail(a) \/ Unjail(a)
                               \/ \E balance \in Balances : SetStakedBalance(a, balance)
      PROVE  now' = now
  BY <1>4 DEF ApproveUnjail, Unjail, SetStakedBalance
<1>5. ASSUME NEW x, NEW y, \/ SetSlashPaused(x) \/ SetSubmitter(x, y) \/ ConfigureTiers(x, y)
                           \/ SetChallengeWindow(x) \/ SetBondContract
      PROVE  now' = now
  BY <1>5 DEF SetSlashPaused, SetSubmitter, ConfigureTiers, SetChallengeWindow, SetBondContract
<1>6. SlashingTick => now' = now + 1
  BY DEF SlashingTick, Tick
<1> QED
  BY <1>1, <1>2, <1>3, <1>4, <1>5, <1>6 DEF SlashingNext

\* The settings, within the limits the entry points check.
LEMMA BondSettings ==
    ASSUME CollateralInv,
           \/ BondTick \/ SetBondOperator \/ SetSlashingModule \/ UNCHANGED BondState
           \/ \E paused \in BOOLEAN : SetBondPaused(paused)
           \/ \E threshold \in Thresholds : SetThresholds(threshold)
           \/ \E target \in TargetRatios : SetTargetHealthRatio(target)
           \/ \E cap \in RewardCaps : SetKeeperRewardCap(cap)
           \/ \E staleness \in Staleness : SetOracleFeed(staleness)
           \/ SlashingNext /\ UNCHANGED bondVars
    PROVE  CollateralInv'
<1>0. BondAside /\ now \in Nat
  BY DEF CollateralInv, BondTypeOK, BondAside
<1> DEFINE Goal == UNCHANGED moneyVars /\ now' \in Nat /\ BondAside'
<1> USE DEF BondAside, riskVars, linkVars, inspectorVars
<1>1. SetBondOperator => Goal
  BY <1>0 DEF SetBondOperator
<1>2. SetSlashingModule => Goal
  BY <1>0 DEF SetSlashingModule
<1>3. UNCHANGED BondState => Goal
  BY <1>0 DEF BondState, bondVars
<1>4. BondTick => Goal
  BY <1>0 DEF BondTick, Tick, bondVars
<1>5. ASSUME NEW paused \in BOOLEAN, SetBondPaused(paused) PROVE Goal
  BY <1>0, <1>5 DEF SetBondPaused
<1>6. ASSUME NEW threshold \in Thresholds, SetThresholds(threshold) PROVE Goal
  BY <1>0, <1>6, BondAssumption DEF SetThresholds
<1>7. ASSUME NEW target \in TargetRatios, SetTargetHealthRatio(target) PROVE Goal
  BY <1>0, <1>7, BondAssumption DEF SetTargetHealthRatio
<1>8. ASSUME NEW cap \in RewardCaps, SetKeeperRewardCap(cap) PROVE Goal
  BY <1>0, <1>8, BondAssumption DEF SetKeeperRewardCap
<1>9. ASSUME NEW staleness \in Staleness, SetOracleFeed(staleness) PROVE Goal
  BY <1>0, <1>9, BondAssumption DEF SetOracleFeed
<1>10. ASSUME SlashingNext, UNCHANGED bondVars PROVE Goal
  <2>1. now' \in Nat
    BY <1>0, <1>10, SlashClock
  <2> QED
    BY <1>0, <1>10, <2>1 DEF bondVars
<1>11. Goal
  <2> HIDE DEF Goal
  <2> QED
    BY <1>1, <1>2, <1>3, <1>4, <1>5, <1>6, <1>7, <1>8, <1>9, <1>10
<1> QED
  BY <1>11, MoneyStays

\* Bonds of inspectors are numbers beside the collateral.
LEMMA InspectorsAside ==
    ASSUME CollateralInv, NEW i \in Inspectors, NEW amount \in Amounts,
           DepositBond(i, amount) \/ WithdrawBond(i, amount) \/ ExecuteSlash(i, amount)
    PROVE  CollateralInv'
<1>1. /\ inspectorBond \in [Inspectors -> Nat]
      /\ amount \in Nat /\ inspectorBond[i] \in Nat /\ now \in Nat
  BY BondAssumption DEF CollateralInv, BondTypeOK
<1>2. UNCHANGED <<now, moneyVars, riskVars, bondPaused, linkVars, locks>>
  BY DEF DepositBond, WithdrawBond, ExecuteSlash
<1>3. inspectorBond' \in [Inspectors -> Nat]
  <2>1. DepositBond(i, amount) => inspectorBond' = [inspectorBond EXCEPT ![i] = inspectorBond[i] + amount]
    BY DEF DepositBond
  <2>2. WithdrawBond(i, amount) \/ ExecuteSlash(i, amount) =>
            /\ inspectorBond' = [inspectorBond EXCEPT ![i] = inspectorBond[i] - amount]
            /\ amount <= inspectorBond[i]
    BY DEF WithdrawBond, ExecuteSlash
  <2> QED
    BY <1>1, <2>1, <2>2
<1>4. BondAside'
  BY <1>2, <1>3, CollateralParts DEF BondAside, riskVars, linkVars
<1> QED
  BY <1>1, <1>2, <1>4, MoneyStays

\* Each step of the three contracts keeps the collateral booked.
LEMMA CollateralStep == CollateralInv /\ [BondNext]_BondState => CollateralInv'
<1> SUFFICES ASSUME CollateralInv, [BondNext]_BondState PROVE CollateralInv'
  OBVIOUS
<1>1. ASSUME PositionNext PROVE CollateralInv'
  <2>1. ASSUME NEW p \in Positions, NEW u \in Users, NEW amount \in Amounts,
               DepositCollateral(u, p, amount)
        PROVE  CollateralInv'
    BY <2>1, DepositBooked
  <2>2. ASSUME NEW p \in Positions, NEW u \in Users, NEW amount \in Amounts,
               WithdrawCollateral(u, p, amount)
        PROVE  CollateralInv'
    BY <2>2, WithdrawalBooked
  <2>3. ASSUME NEW p \in Positions, NEW u \in Users, NEW amount \in Amounts,
               IssueBond(u, p, amount) \/ RedeemBond(u, p, amount)
        PROVE  CollateralInv'
    BY <2>3, BondsBooked
  <2>4. ASSUME NEW p \in Positions, NEW u \in Users, NEW price \in Prices,
               NEW answeredAt \in 0..now, Liquidate(u, p, price, answeredAt)
        PROVE  CollateralInv'
    BY <2>4, LiquidationBooked
  <2>5. ASSUME \/ BondTick
               \/ \E paused \in BOOLEAN : SetBondPaused(paused)
               \/ \E threshold \in Thresholds : SetThresholds(threshold)
               \/ \E target \in TargetRatios : SetTargetHealthRatio(target)
               \/ \E cap \in RewardCaps : SetKeeperRewardCap(cap)
               \/ \E staleness \in Staleness : SetOracleFeed(staleness)
        PROVE  CollateralInv'
    BY <2>5, BondSettings
  <2> QED
    BY <1>1, <2>1, <2>2, <2>3, <2>4, <2>5 DEF PositionNext
<1>2. ASSUME InspectorNext PROVE CollateralInv'
  <2>1. ASSUME NEW i \in Inspectors, NEW amount \in Amounts,
               DepositBond(i, amount) \/ WithdrawBond(i, amount) \/ ExecuteSlash(i, amount)
        PROVE  CollateralInv'
    BY <2>1, InspectorsAside
  <2>2. ASSUME NEW i \in Inspectors, NEW inspection \in Inspections,
               LockBond(i, inspection) \/ UnlockBond(i, inspection)
        PROVE  CollateralInv'
    <3>1. UNCHANGED <<now, moneyVars, riskVars, bondPaused, linkVars, inspectorBond>>
      BY <2>2 DEF LockBond, UnlockBond
    <3>2. locks' = [locks EXCEPT ![i] = locks[i] \cup {inspection}]
            \/ locks' = [locks EXCEPT ![i] = locks[i] \ {inspection}]
      BY <2>2 DEF LockBond, UnlockBond
    <3>3. locks \in [Inspectors -> SUBSET Inspections] /\ now \in Nat
      BY DEF CollateralInv, BondTypeOK
    <3>4. locks' \in [Inspectors -> SUBSET Inspections]
      BY <2>2, <3>2, <3>3
    <3>5. BondAside'
      BY <3>1, <3>4, CollateralParts DEF BondAside, riskVars, linkVars
    <3> QED
      BY <3>1, <3>3, <3>5, MoneyStays
  <2>3. ASSUME SetBondOperator \/ SetSlashingModule \/ \E paused \in BOOLEAN : SetBondPaused(paused)
        PROVE  CollateralInv'
    BY <2>3, BondSettings
  <2> QED
    BY <1>2, <2>1, <2>2, <2>3 DEF InspectorNext
<1>3. ASSUME SlashingNext, UNCHANGED bondVars PROVE CollateralInv'
  BY <1>3, BondSettings
<1>4. ASSUME UNCHANGED BondState PROVE CollateralInv'
  BY <1>4, BondSettings
<1> QED
  BY <1>1, <1>2, <1>3, <1>4 DEF BondNext

\* Nothing is deposited at first.
LEMMA CollateralInit == now = 0 /\ BondInit => CollateralInv
<1> SUFFICES ASSUME now = 0, BondInit PROVE CollateralInv
  OBVIOUS
<1> DEFINE f == [p \in Positions |-> CollateralOf(p)]
<1>1. \A p \in Positions : f[p] = 0
  BY DEF BondInit, CollateralOf
<1>2. f \in [Positions -> Nat] /\ IsFiniteSet(Positions)
  BY <1>1, BondAssumption
<1>3. SumFunctionOnSet(f, Positions) = 0
  <2> HIDE DEF f
  <2> QED
    BY <1>1, <1>2, SumOfZeros
<1>4. CollateralBooked
  BY <1>3 DEF CollateralBooked, BondInit
<1>5. position \in [Positions -> Holdings \cup {None}] /\ purse \in [Users -> Nat]
  BY BondAssumption DEF BondInit
<1>6. BondAside
  <2>1. /\ {DefaultThreshold, DefaultTarget, DefaultCap} \subseteq Nat
        /\ DefaultThreshold >= 100 /\ DefaultTarget > 100 /\ 2 * DefaultCap <= FullBps
    BY BondAssumption
  <2> QED
    BY <2>1 DEF BondInit, BondAside
<1>7. {totalCollateral, bondTokens} \subseteq Nat /\ now \in Nat
  BY DEF BondInit
<1> QED
  BY <1>4, <1>5, <1>6, <1>7, CollateralParts

\* Collateral is booked after every step of the three contracts: deposits,
\* withdrawals, partial and full liquidations keep the total the sum of the
\* positions, and keepers' rewards leave the contract the tokens to pay it.
THEOREM CollateralStaysBooked == BondSpec => []CollateralBooked
<1>1. now = 0 /\ BondInit => CollateralInv
  BY CollateralInit
<1>2. CollateralInv /\ [BondNext]_BondState => CollateralInv'
  BY CollateralStep
<1>3. CollateralInv => CollateralBooked
  BY DEF CollateralInv
<1> QED
  BY <1>1, <1>2, <1>3, PTL DEF BondSpec, BondState

\* A common positive factor may be divided out of a comparison.
LEMMA CommonFactor ==
    ASSUME NEW x \in Int, NEW y \in Int, NEW n \in Nat \ {0}, x * n <= y * n
    PROVE  x <= y
<1> SUFFICES ASSUME y < x PROVE FALSE
  OBVIOUS
<1>1. PICK d \in Nat : x = y + 1 + d
  <2>1. x - y - 1 \in Nat /\ x = y + 1 + (x - y - 1)
    OBVIOUS
  <2> QED
    BY <2>1
<1>2. x * n = y * n + n + d * n /\ d * n \in Nat /\ y * n \in Int
  BY <1>1
<1> DEFINE u == x * n
           v == y * n
           w == d * n
<1>3. u = v + n + w /\ w \in Nat /\ v \in Int /\ u <= v
  BY <1>2
<1> HIDE DEF u, v, w
<1> QED
  BY <1>3

\* Who leaves collateral behind was worth the bonds: when what would restore the
\* target is less than the collateral, the collateral covers the bonds at the price.
LEMMA WorthTheBonds ==
    ASSUME NEW target \in Nat, target > 100, NEW scale \in Nat, NEW c \in Nat, NEW b \in Nat,
           NEW price \in Nat \ {0},
           (target * b * scale - 100 * c * price) \div (price * (target - 100)) < c
    PROVE  scale * b <= c * price
<1> DEFINE t == target - 100
           unit == price * t
           short == target * b * scale - 100 * c * price
           raw == short \div unit
           owed == scale * b
           worth == c * price
<1>1. t \in Nat \ {0} /\ target = t + 100
  OBVIOUS
<1>2. unit \in Nat \ {0}
  <2> HIDE DEF t
  <2> QED
    BY <1>1
<1>3. owed \in Nat /\ worth \in Nat /\ target * b * scale = owed * target /\ 100 * c * price = 100 * worth
  <2>1. target * b * scale = target * (b * scale) /\ b * scale = scale * b /\ scale * b \in Nat
    OBVIOUS
  <2>2. 100 * c * price = 100 * (c * price) /\ c * price \in Nat
    OBVIOUS
  <2> QED
    BY <2>1, <2>2
<1>4. short \in Int /\ short = owed * target - 100 * worth
  <2>1. short = owed * target - 100 * worth
    BY <1>3
  <2> HIDE DEF short, owed, worth
  <2>2. owed * target \in Int /\ 100 * worth \in Int
    BY <1>3
  <2> QED
    BY <2>1, <2>2
<1>5. short < raw * unit + unit /\ raw \in Int /\ raw + 1 <= c
  <2>1. raw < c
    OBVIOUS
  <2> HIDE DEF short, unit
  <2>2. short < (short \div unit) * unit + unit /\ short \div unit \in Int
    BY <1>2, <1>4
  <2> HIDE DEF raw
  <2>3. raw \in Int /\ short < raw * unit + unit
    BY <2>2 DEF raw
  <2> QED
    BY <2>1, <2>3
<1>6. raw * unit + unit <= c * unit
  <2> HIDE DEF raw, unit
  <2>1. c - raw - 1 \in Nat
    BY <1>5
  <2>2. (c - raw - 1) * unit \in Nat
    BY <1>2, <2>1
  <2>3. (c - raw - 1) * unit = c * unit - raw * unit - unit /\ c * unit \in Int /\ raw * unit \in Int
    BY <1>2, <1>5
  <2> QED
    BY <1>2, <2>2, <2>3
<1>7. c * unit = worth * t
  <2> HIDE DEF t
  <2> QED
    BY <1>1
<1>8. owed * target <= worth * target
  <2>1. short < worth * t
    <3> HIDE DEF short, raw, unit
    <3>1. short < c * unit
      <4>1. raw * unit \in Int /\ c * unit \in Int
        BY <1>2, <1>5
      <4> QED
        BY <1>2, <1>4, <1>5, <1>6, <4>1
    <3> QED
      BY <1>7, <3>1
  <2> HIDE DEF short, owed, worth, t
  <2>2. worth * target = worth * t + 100 * worth /\ worth * t \in Int /\ owed * target \in Int
    BY <1>1, <1>3
  <2> QED
    BY <1>3, <1>4, <2>1, <2>2
<1>9. target \in Nat \ {0}
  OBVIOUS
<1> HIDE DEF owed, worth
<1>10. owed <= worth
  BY <1>3, <1>8, <1>9, CommonFactor
<1> QED
  BY <1>10 DEF owed, worth

\* A seized share retires its share of the bonds, but for one unit's rounding.
LEMMA ShareRetired ==
    ASSUME NEW c \in Nat, NEW b \in Nat, NEW price \in Nat, NEW scale \in Nat \ {0}, NEW s \in Nat,
           scale * b <= c * price
    PROVE  LET retired  == (s * price) \div scale
               rounding == IF price % scale = 0 THEN 0 ELSE 1
           IN  s * b <= c * (retired + rounding)
<1> DEFINE retired  == (s * price) \div scale
           rounding == IF price % scale = 0 THEN 0 ELSE 1
           up == retired + rounding
<1>1. retired \in Nat /\ up \in Nat
  <2> DEFINE product == s * price
  <2>1. product \in Nat
    OBVIOUS
  <2> HIDE DEF product
  <2>2. product \div scale \in Nat
    BY <2>1, QuotientRounds
  <2>3. retired \in Nat
    BY <2>2 DEF product
  <2> HIDE DEF retired
  <2> QED
    BY <2>3
<1>2. s * price <= up * scale
  <2>1. CASE price % scale = 0
    <3> DEFINE q == price \div scale
    <3>1. q \in Nat /\ price = q * scale
      BY <2>1
    <3> HIDE DEF q
    <3>2. s * price = (s * q) * scale /\ s * q \in Nat
      BY <3>1
    <3> DEFINE m == s * q
    <3>3. m \in Nat /\ s * price = m * scale
      BY <3>2
    <3> HIDE DEF m
    <3>4. (m * scale) \div scale = m
      BY <3>3
    <3>5. up = m
      BY <2>1, <3>3, <3>4
    <3> HIDE DEF up
    <3>6. s * price = up * scale /\ up * scale \in Int
      BY <3>3, <3>5
    <3> QED
      BY <3>6
  <2>2. CASE price % scale # 0
    <3> DEFINE product == s * price
    <3>1. product \in Nat
      OBVIOUS
    <3>2. up = product \div scale + 1
      BY <2>2
    <3> HIDE DEF product, up
    <3>3. product < (product \div scale) * scale + scale
      BY <3>1, QuotientRounds
    <3> DEFINE q == product \div scale
    <3>4. q \in Nat /\ product < q * scale + scale /\ up = q + 1
      BY <3>1, <3>2, <3>3, QuotientRounds
    <3> HIDE DEF q
    <3>5. up * scale = q * scale + scale
      BY <3>4
    <3>6. q * scale \in Nat
      BY <3>4
    <3>7. product <= up * scale
      BY <3>1, <3>4, <3>5, <3>6
    <3> QED
      BY <3>7 DEF product
  <2> QED
    BY <2>1, <2>2
<1> HIDE DEF up
<1>3. (s * b) * scale <= (c * up) * scale
  <2>1. (s * b) * scale <= s * (c * price)
    <3> DEFINE x == scale * b
               y == c * price
    <3>1. x \in Nat /\ y \in Nat /\ x <= y /\ (s * b) * scale = s * x
      OBVIOUS
    <3> HIDE DEF x, y
    <3>2. s * (y - x) \in Nat /\ s * (y - x) = s * y - s * x /\ s * y \in Nat /\ s * x \in Nat
      BY <3>1
    <3>3. s * x <= s * y
      BY <3>2
    <3> QED
      BY <3>1, <3>3 DEF y
  <2>2. s * (c * price) <= (c * up) * scale
    <3> DEFINE x == s * price
               y == up * scale
    <3>1. x \in Nat /\ y \in Nat /\ x <= y /\ s * (c * price) = c * x /\ (c * up) * scale = c * y
      BY <1>1, <1>2
    <3> HIDE DEF x, y
    <3>2. c * (y - x) \in Nat /\ c * (y - x) = c * y - c * x /\ c * y \in Nat /\ c * x \in Nat
      BY <3>1
    <3>3. c * x <= c * y
      BY <3>2
    <3> QED
      BY <3>1, <3>3
  <2>3. (s * b) * scale \in Nat /\ s * (c * price) \in Nat /\ (c * up) * scale \in Nat
    BY <1>1
  <2> QED
    BY <2>1, <2>2, <2>3
<1>4. s * b \in Int /\ c * up \in Int
  BY <1>1
<1>5. s * b <= c * up
  <2> DEFINE x == s * b
             y == c * up
  <2>1. x \in Int /\ y \in Int /\ x * scale <= y * scale
    BY <1>3, <1>4
  <2> HIDE DEF x, y
  <2>2. x <= y
    BY <2>1, CommonFactor
  <2> QED
    BY <2>2 DEF x, y
<1> QED
  BY <1>5 DEF up

\* A position that survives was worth its bonds, and keeps its cover.
LEMMA LiquidationCovers ==
    ASSUME CollateralInv, NEW k \in Users, NEW p \in Positions, NEW price \in Prices,
           NEW answeredAt \in 0..now, Liquidate(k, p, price, answeredAt), position'[p] # None
    PROVE  LET rounding == IF price % PriceScale = 0 THEN 0 ELSE 1
           IN  /\ position[p].collateral * price >= PriceScale * position[p].bond
               /\ position'[p].collateral * position[p].bond
                        >= position[p].collateral * (position'[p].bond - rounding)
<1> DEFINE collateral == position[p].collateral
           bond       == position[p].bond
           seized     == SeizeAmount(collateral, bond, price)
           retired    == (seized * price) \div PriceScale
           reward     == (seized * keeperRewardCap) \div FullBps
           reduction  == BondReduction(seized, bond, price)
           closed     == seized = collateral \/ bond - reduction = 0
           left       == IF closed THEN None
                         ELSE [position[p] EXCEPT !.collateral = collateral - seized,
                                                  !.bond = bond - reduction]
           rounding   == IF price % PriceScale = 0 THEN 0 ELSE 1
           raw        == (targetHealthRatio * bond * PriceScale - 100 * collateral * price)
                              \div (price * (targetHealthRatio - 100))
<1>1. /\ position[p] \in Holdings /\ collateral \in Nat /\ bond \in Nat \ {0}
      /\ seized \in 0..collateral /\ reward \in 0..seized
      /\ seized # collateral => price \in Nat \ {0} /\ reduction \in 0..bond
      /\ position' = [position EXCEPT ![p] = left]
      /\ totalCollateral' = totalCollateral - (IF closed THEN collateral ELSE seized)
      /\ bondTokens' = bondTokens - reward /\ bondTokens >= reward
      /\ purse' = [purse EXCEPT ![k] = purse[k] + reward]
      /\ UNCHANGED <<now, riskVars, bondPaused, linkVars, inspectorVars>>
  BY LiquidationTerms
<1>2. position'[p] = left
  <2> HIDE DEF left
  <2> QED
    BY <1>1 DEF CollateralInv, BondTypeOK
<1>3. /\ seized # collateral /\ reduction # bond
      /\ price \in Nat \ {0} /\ reduction \in 0..bond
  <2>1. ~closed
    BY <1>2
  <2> HIDE DEF seized, reduction, collateral, bond
  <2> QED
    BY <1>1, <2>1
<1>4. left = [position[p] EXCEPT !.collateral = collateral - seized, !.bond = bond - reduction]
  BY <1>2
<1>5. position'[p].collateral = collateral - seized /\ position'[p].bond = bond - reduction
  <2> HIDE DEF left, seized, reduction
  <2> QED
    BY <1>1, <1>2, <1>4 DEF Holdings
<1>6. price # 0 /\ raw < collateral
  <2>1. seized = IF price <= 0 THEN collateral ELSE Lesser(IF raw < 1 THEN 1 ELSE raw, collateral)
    BY DEF SeizeAmount
  <2>2. price # 0
    BY <1>3, <2>1
  <2>3. raw \in Int
    <3> DEFINE short == targetHealthRatio * bond * PriceScale - 100 * collateral * price
               unit == price * (targetHealthRatio - 100)
    <3>1. targetHealthRatio \in Nat /\ targetHealthRatio > 100 /\ PriceScale \in Nat
      BY BondAssumption DEF CollateralInv, BondTypeOK
    <3> HIDE DEF collateral, bond
    <3>2. short \in Int
      BY <1>1, <1>3, <3>1
    <3>3. unit \in Nat \ {0}
      <4> DEFINE t == targetHealthRatio - 100
      <4>1. t \in Nat \ {0}
        BY <3>1
      <4> HIDE DEF t
      <4>2. price * t \in Nat \ {0}
        BY <1>3, <4>1
      <4> QED
        BY <4>2 DEF t
    <3> HIDE DEF short, unit
    <3>4. short \div unit \in Int
      BY <3>2, <3>3
    <3> QED
      BY <3>4 DEF short, unit
  <2> HIDE DEF raw, seized, collateral
  <2> QED
    BY <1>1, <1>3, <2>1, <2>2, <2>3 DEF Lesser
<1>7. PriceScale * bond <= collateral * price
  <2>1. /\ targetHealthRatio \in Nat /\ targetHealthRatio > 100 /\ PriceScale \in Nat
        /\ price \in Nat \ {0} /\ collateral \in Nat /\ bond \in Nat
    BY <1>1, <1>6, BondAssumption DEF CollateralInv, BondTypeOK
  <2>2. (targetHealthRatio * bond * PriceScale - 100 * collateral * price)
            \div (price * (targetHealthRatio - 100)) < collateral
    BY <1>6
  <2> HIDE DEF collateral, bond
  <2> QED
    BY <2>1, <2>2, WorthTheBonds
<1>8. seized * bond <= collateral * (retired + rounding)
  <2>1. /\ PriceScale \in Nat \ {0} /\ seized \in Nat /\ collateral \in Nat /\ bond \in Nat /\ price \in Nat
    BY <1>1, <1>3, BondAssumption
  <2> HIDE DEF collateral, bond, seized
  <2> QED
    BY <1>7, <2>1, ShareRetired
<1>9. reduction = retired
  <2>1. reduction = Lesser(retired, bond)
    BY DEF BondReduction
  <2> HIDE DEF reduction, retired, bond
  <2> QED
    BY <1>3, <2>1 DEF Lesser
<1>10. rounding \in Nat /\ seized \in Nat /\ reduction \in Nat
  BY <1>1, <1>3
<1> HIDE DEF collateral, bond, seized, reduction, retired, rounding, left
<1>11. (collateral - seized) * bond >= collateral * (bond - reduction - rounding)
  <2>1. (collateral - seized) * bond = collateral * bond - seized * bond
    BY <1>1, <1>10
  <2>2. collateral * (bond - reduction - rounding)
            = collateral * bond - collateral * (reduction + rounding)
    BY <1>1, <1>10
  <2>3. collateral * bond \in Int /\ seized * bond \in Int /\ collateral * (reduction + rounding) \in Int
    BY <1>1, <1>10
  <2>4. seized * bond <= collateral * (reduction + rounding)
    BY <1>8, <1>9
  <2> QED
    BY <2>1, <2>2, <2>3, <2>4
<1>12. /\ collateral * price >= PriceScale * bond
       /\ position'[p].collateral * bond >= collateral * (position'[p].bond - rounding)
  <2>1. PriceScale * bond \in Int /\ collateral * price \in Int
    BY <1>1, BondAssumption
  <2>2. collateral * price >= PriceScale * bond
    BY <1>7, <2>1
  <2> QED
    BY <1>5, <1>11, <2>2
<1> QED
  BY <1>12 DEF collateral, bond, rounding

\* A position that survives its liquidation was worth no less than its bonds at
\* the oracle's price, and is afterwards covered no worse than before, but for the
\* rounding of a unit: for every price, target ratio, amount and number of steps,
\* also where only the cut of its ratio to 32 bits let the keeper liquidate it.
THEOREM LiquidationsRepair == BondSpec => LiquidationRepairs
<1> DEFINE Repairs ==
        \A p \in Positions, k \in Users, price \in Prices, answeredAt \in 0..now :
            LET rounding == IF price % PriceScale = 0 THEN 0 ELSE 1
            IN  Liquidate(k, p, price, answeredAt) /\ position'[p] # None =>
                    /\ position[p].collateral * price >= PriceScale * position[p].bond
                    /\ position'[p].collateral * position[p].bond
                            >= position[p].collateral * (position'[p].bond - rounding)
<1>1. now = 0 /\ BondInit => CollateralInv
  BY CollateralInit
<1>2. CollateralInv /\ [BondNext]_BondState => CollateralInv'
  BY CollateralStep
<1>3. CollateralInv => Repairs
  BY LiquidationCovers
<1>4. UNCHANGED BondState => UNCHANGED position
  BY DEF BondState, bondVars, moneyVars
<1> QED
  BY <1>1, <1>2, <1>3, <1>4, PTL DEF BondSpec, BondState, LiquidationRepairs

\* Positions, limits and inspectors' bonds have their types: no amount is negative,
\* thresholds stay above a hundred percent and the keepers' cap at most half.
THEOREM BondTypesCorrect == BondSpec => []BondTypeOK
<1>1. now = 0 /\ BondInit => CollateralInv
  BY CollateralInit
<1>2. CollateralInv /\ [BondNext]_BondState => CollateralInv'
  BY CollateralStep
<1>3. CollateralInv => BondTypeOK
  BY DEF CollateralInv
<1> QED
  BY <1>1, <1>2, <1>3, PTL DEF BondSpec, BondState

-----------------------------------------------------------------------------
(* The administrative contracts side by side *)

\* The entries of an upgrade protocol as their getters read them.
UpTypes == now \in Nat /\ UpTypeOK

\* These say more than the invariant above.
LEMMA UpTypesGuard == UpTypes => UpInv
  BY UpgradeTermsAssumption DEF UpTypes, UpTypeOK, UpInv

\* A new contract is well typed: who compares the schema starts with it.
LEMMA UpTypesInit == now = 0 /\ UpInit => UpTypes
<1> SUFFICES ASSUME now = 0, UpInit PROVE UpTypes
  OBVIOUS
<1>1. PICK c \in Clients : entry = Entries[c]
  BY DEF UpInit
<1>2. entry.schemaChecked => version = Schema
  BY <1>1, UpgradeAssumption DEF UpInit
<1> QED
  BY <1>2, UpgradeAssumption, UpgradeTermsAssumption DEF UpInit, UpTypes, UpTypeOK

\* Every entry point of the core keeps the types; with the schema check there is
\* one upgrade at most, since the schema never follows the version.
LEMMA UpTypesNext == UpTypes /\ [UpNext]_<<now, upVars>> => UpTypes'
<1> SUFFICES ASSUME UpTypes, [UpNext]_<<now, upVars>> PROVE UpTypes'
  OBVIOUS
<1>0. UpInv
  BY UpTypesGuard
<1> USE DEF UpTypes, UpTypeOK, upRoles, pendingUpgrade
<1>1. ASSUME NEW by \in SUBSET Signatories, NEW hash \in Hashes, NEW v \in 0..MaxVersion,
             ProposeUpgrade(by, hash, v)
      PROVE  UpTypes'
  <2>1. Requested(v) = version + 1 /\ Requested(v) \in Nat
    BY <1>0, <1>1, SafeVersion DEF ProposeUpgrade
  <2>2. entry.schemaChecked => version = Schema
    BY <1>1 DEF ProposeUpgrade, UpgradeSafe, SchemaCurrent
  <2> QED
    BY <1>1, <2>1, <2>2, UpgradeTermsAssumption DEF ProposeUpgrade
<1>2. ASSUME NEW by \in SUBSET Signatories, NEW hash \in Hashes, NEW v \in 0..MaxVersion,
             EmergencyUpgrade(by, hash, v)
      PROVE  UpTypes'
  <2>1. version' = version + 1 /\ version' \in Nat
    BY <1>0, <1>2, SafeVersion DEF EmergencyUpgrade
  <2>2. entry.schemaChecked => version = Schema
    BY <1>2 DEF EmergencyUpgrade, UpgradeSafe, SchemaCurrent
  <2> QED
    BY <1>2, <2>1, <2>2 DEF EmergencyUpgrade, PendingAfterEmergency, ClearPending
<1>3. ASSUME NEW by \in SUBSET Signatories, NEW hash \in Hashes, ExecuteUpgrade(by, hash)
      PROVE  UpTypes'
  <2>1. version' = version + 1 /\ version' \in Nat /\ (entry.schemaChecked => version = Schema)
    BY <1>3 DEF ExecuteUpgrade, ExecutedVersion
  <2> QED
    BY <1>3, <2>1 DEF ExecuteUpgrade, ClearPending
<1>4. ASSUME NEW by \in SUBSET Signatories, CancelUpgrade(by)
      PROVE  UpTypes'
  BY <1>4 DEF CancelUpgrade
<1>5. ASSUME NEW by \in SUBSET Signatories, NEW a \in Signatories,
             SetGuardian(by, a) \/ HandOver(by, a)
      PROVE  UpTypes'
  BY <1>5 DEF SetGuardian, HandOver
<1>6. ASSUME NEW by \in SUBSET Signatories, NEW flag \in BOOLEAN, SetUpPaused(by, flag)
      PROVE  UpTypes'
  BY <1>6 DEF SetUpPaused
<1>7. ASSUME NEW by \in SUBSET Signatories, NEW seconds \in UpgradeDelays,
             SetUpgradeDelay(by, seconds)
      PROVE  UpTypes'
  BY <1>7 DEF SetUpgradeDelay
<1>8. CASE UpTick
  BY <1>8, UpgradeTermsAssumption DEF UpTick, Tick
<1>9. CASE UNCHANGED <<now, upVars>>
  BY <1>9 DEF upVars
<1> QED
  BY <1>1, <1>2, <1>3, <1>4, <1>5, <1>6, <1>7, <1>8, <1>9
     DEF UpNext, UpgradeNext, ConfigNext

\* The entries of staking_rewards' own protocol, with the time of a proposal.
RuTypes == now \in Nat /\ RuTypeOK /\ RuInv

\* Every entry point of that protocol keeps them.
LEMMA RuTypesNext == RuTypes /\ [RuNext]_<<now, ruVars>> => RuTypes'
<1> SUFFICES ASSUME RuTypes, [RuNext]_<<now, ruVars>> PROVE RuTypes'
  OBVIOUS
<1>0. now \in Nat /\ ruDelay \in Nat
  BY UpgradeTermsAssumption DEF RuTypes, RuTypeOK
<1> USE DEF RuTypes, RuTypeOK, RuInv, ruRoles
<1>1. ASSUME NEW by \in SUBSET Signatories, NEW hash \in Hashes, RuPropose(by, hash)
      PROVE  RuTypes'
  <2>1. now \in Nat /\ ruDelay \in Nat /\ now + ruDelay \in Nat
    BY <1>0
  <2>2. ruPending' \in RewardProposals
    BY <1>1, <2>1 DEF RuPropose, ExecutableAt, RewardProposals
  <2> QED
    BY <1>1, <2>2 DEF RuPropose, RuBy, ExecutableAt
<1>2. ASSUME NEW by \in SUBSET Signatories, NEW hash \in Hashes, RuEmergency(by, hash)
      PROVE  RuTypes'
  BY <1>2 DEF RuEmergency, RuBy
<1>3. ASSUME NEW by \in SUBSET Signatories, RuExecute(by) PROVE RuTypes'
  <2>1. ruPending.hash \in Hashes
    BY <1>3 DEF RuExecute, RewardProposals
  <2> QED
    BY <1>3, <2>1 DEF RuExecute, RuBy
<1>4. ASSUME NEW by \in SUBSET Signatories, RuCancel(by) PROVE RuTypes'
  BY <1>4 DEF RuCancel, RuBy
<1>5. ASSUME NEW by \in SUBSET Signatories, NEW a \in Signatories,
             RuSetGuardian(by, a) \/ RuSetAdmin(by, a)
      PROVE  RuTypes'
  BY <1>5 DEF RuSetGuardian, RuSetAdmin, RuBy
<1>6. ASSUME NEW by \in SUBSET Signatories, NEW delay \in UpgradeDelays, RuSetDelay(by, delay)
      PROVE  RuTypes'
  BY <1>6 DEF RuSetDelay, RuBy
<1>7. CASE RuTick
  BY <1>7 DEF RuTick, Tick
<1>8. CASE UNCHANGED <<now, ruVars>>
  BY <1>8 DEF ruVars
<1> QED
  BY <1>1, <1>2, <1>3, <1>4, <1>5, <1>6, <1>7, <1>8 DEF RuNext

\* Positions and inspectors' bonds leave the slashing module's entries alone, except
\* that a slash of a bond is recorded there.
LEMMA SlashesBesideBonds ==
    ASSUME SlashInv, CollateralInv, PositionNext \/ InspectorNext
    PROVE  SlashInv'
<1> DEFINE Alone == [SlashingNext]_SlashState
<1> USE DEF SlashState
<1>1. ASSUME NEW p \in Positions, NEW u \in Users, NEW amount \in Amounts,
             \/ DepositCollateral(u, p, amount) \/ WithdrawCollateral(u, p, amount)
             \/ IssueBond(u, p, amount) \/ RedeemBond(u, p, amount)
      PROVE  Alone
  BY <1>1 DEF DepositCollateral, WithdrawCollateral, IssueBond, RedeemBond
<1>2. ASSUME NEW p \in Positions, NEW u \in Users, NEW price \in Prices, NEW answeredAt \in 0..now,
             Liquidate(u, p, price, answeredAt)
      PROVE  Alone
  BY <1>2 DEF Liquidate
<1>3. ASSUME NEW x, \/ SetThresholds(x) \/ SetTargetHealthRatio(x) \/ SetKeeperRewardCap(x)
                    \/ SetOracleFeed(x) \/ SetBondPaused(x) \/ SetBondOperator \/ SetSlashingModule
      PROVE  Alone
  BY <1>3 DEF SetThresholds, SetTargetHealthRatio, SetKeeperRewardCap, SetOracleFeed, SetBondPaused,
     SetBondOperator, SetSlashingModule
<1>4. BondTick => Alone
  BY DEF BondTick, SlashingNext, SlashingTick
<1>5. ASSUME NEW i \in Inspectors, NEW amount \in Amounts, DepositBond(i, amount) \/ WithdrawBond(i, amount)
      PROVE  Alone
  BY <1>5 DEF DepositBond, WithdrawBond
<1>6. ASSUME NEW i \in Inspectors, NEW inspection \in Inspections,
             LockBond(i, inspection) \/ UnlockBond(i, inspection)
      PROVE  Alone
  BY <1>6 DEF LockBond, UnlockBond
<1>7. ASSUME NEW i \in Inspectors, NEW amount \in Amounts, ExecuteSlash(i, amount)
      PROVE  SlashInv'
  <2>1. /\ slashHistory' = [slashHistory EXCEPT ![i] = Append(slashHistory[i], amount)]
        /\ now' = now /\ UNCHANGED <<slashSettings, verdictVars, tollVars, jailVars, bondNamed>>
    BY <1>7 DEF ExecuteSlash, Slash
  <2>2. slashHistory[i] \in Seq(Nat) /\ amount \in Nat /\ Append(slashHistory[i], amount) \in Seq(Nat)
    BY BondAssumption DEF SlashInv, SlashingTypeOK
  <2>3. slashHistory' \in [Inspectors -> Seq(Nat)]
    BY <2>1, <2>2 DEF SlashInv, SlashingTypeOK
  <2> QED
    BY <2>1, <2>3 DEF SlashInv, SlashingTypeOK, Filed, slashSettings, verdictVars, tollVars, jailVars
<1>8. Alone \/ SlashInv'
  <2> HIDE DEF Alone
  <2> QED
    BY <1>1, <1>2, <1>3, <1>4, <1>5, <1>6, <1>7 DEF PositionNext, InspectorNext
<1> QED
  BY <1>8, SlashTypes

\* The parts of the runs that look at slashes and bonds.
SlashParts == {"slashing", "positions", "inspectors"}

\* The invariants of all of them, each for the part that is observed.
AdminInv ==
    /\ part = "governance" => GovInv
    /\ part = "timelock" => TimelockInv
    /\ part = "multisig_admin" => MultisigInv
    /\ part \in SlashParts => SlashInv /\ CollateralInv
    /\ part = "upgrades" => UpTypes
    /\ part = "rewards_upgrade" => RuTypes

\* Each of them starts with its own.
LEMMA AdminInvInit == AdminInit => AdminInv
<1> SUFFICES ASSUME AdminInit PROVE AdminInv
  OBVIOUS
<1>1. /\ now = 0 /\ GovInit /\ TimelockInit /\ MultisigInit /\ SlashingInit /\ BondInit
      /\ UpInit /\ RuInit
  BY DEF AdminInit
<1>2. GovInv /\ TimelockInv /\ MultisigInv
  BY <1>1, GovInit1, TimelockInvInit, MultisigInit1
<1>3. SlashInv /\ CollateralInv
  BY <1>1, SlashInvInit, CollateralInit
<1>4. UpTypes
  BY <1>1, UpTypesInit
<1>5. RuTypes
  BY <1>1, UpgradeTermsAssumption DEF RuInit, RuTypes, RuTypeOK, RuInv
<1> QED
  BY <1>2, <1>3, <1>4, <1>5 DEF AdminInv

\* A step of the part that is observed is one of its contract, or leaves it alone.
LEMMA PartSteps ==
    ASSUME [AdminNext]_AdminVars
    PROVE  /\ UNCHANGED part
           /\ part = "governance" => [GovNext]_GovState
           /\ part = "timelock" => [TimelockNext]_TimelockState
           /\ part = "multisig_admin" => [MultisigNext]_MultisigState
           /\ part \in SlashParts =>
                \/ SlashingNext /\ UNCHANGED bondVars
                \/ PositionNext \/ InspectorNext \/ UNCHANGED BondState
           /\ part = "upgrades" => [UpNext]_<<now, upVars>>
           /\ part # "upgrades" => UNCHANGED upVars
           /\ part = "rewards_upgrade" => [RuNext]_<<now, ruVars>>
           /\ part # "rewards_upgrade" => UNCHANGED ruVars
<1>1. CASE UNCHANGED AdminVars
  BY <1>1 DEF AdminVars, GovState, TimelockState, MultisigState, BondState, slashed, upgraded
<1>2. CASE AdminNext
  <2>1. UNCHANGED part
    BY <1>2 DEF AdminNext
  <2>2. InspectorReports => SlashingNext
    BY DEF InspectorReports, SlashingNext
  <2> QED
    BY <1>2, <2>1, <2>2 DEF AdminNext, SlashParts, upgraded
<1> QED
  BY <1>1, <1>2

\* Code changes only in the parts about upgrades.
LEMMA UpgradesApart ==
    ASSUME [AdminNext]_AdminVars
    PROVE  /\ version' # version => part = "upgrades" /\ [UpNext]_<<now, upVars>>
           /\ ruCode' # ruCode => part = "rewards_upgrade" /\ [RuNext]_<<now, ruVars>>
<1>1. UNCHANGED upVars => version' = version
  BY DEF upVars
<1>2. UNCHANGED ruVars => ruCode' = ruCode
  BY DEF ruVars
<1> QED
  BY <1>1, <1>2, PartSteps

\* A step keeps the invariant of the part that is observed.
LEMMA AdminInvNext == AdminInv /\ [AdminNext]_AdminVars => AdminInv'
<1> SUFFICES ASSUME AdminInv, [AdminNext]_AdminVars PROVE AdminInv'
  OBVIOUS
<1>1. UNCHANGED part
  BY PartSteps
<1>2. ASSUME part = "governance" PROVE GovInv'
  BY <1>2, PartSteps, GovStep DEF AdminInv
<1>3. ASSUME part = "timelock" PROVE TimelockInv'
  BY <1>3, PartSteps, TimelockInvStep DEF AdminInv
<1>4. ASSUME part = "multisig_admin" PROVE MultisigInv'
  BY <1>4, PartSteps, MultisigStep DEF AdminInv
<1>5. ASSUME part \in SlashParts PROVE SlashInv' /\ CollateralInv'
  <2>1. SlashInv /\ CollateralInv
    BY <1>5 DEF AdminInv
  <2>2. CASE PositionNext \/ InspectorNext
    BY <2>1, <2>2, SlashesBesideBonds, CollateralStep DEF BondNext
  <2>3. CASE SlashingNext /\ UNCHANGED bondVars
    BY <2>1, <2>3, SlashTypes, CollateralStep DEF BondNext
  <2>4. CASE UNCHANGED BondState
    BY <2>1, <2>4, SlashTypes, CollateralStep DEF BondState, SlashState
  <2> QED
    BY <1>5, <2>2, <2>3, <2>4, PartSteps
<1>6. ASSUME part = "upgrades" PROVE UpTypes'
  BY <1>6, PartSteps, UpTypesNext DEF AdminInv
<1>7. ASSUME part = "rewards_upgrade" PROVE RuTypes'
  BY <1>7, PartSteps, RuTypesNext DEF AdminInv
<1> QED
  BY <1>1, <1>2, <1>3, <1>4, <1>5, <1>6, <1>7 DEF AdminInv

\* Every administrative contract keeps its types: no amount negative, ids in order,
\* a pending upgrade for the next version and dated in the past.
THEOREM AdminTypesCorrect == AdminSpec => []AdminTypeOK
<1>1. TimelockInv => TimelockTypeOK
  BY DEF TimelockInv, TimelockTypeOK, Entry
<1>2. AdminInv => AdminTypeOK
  BY <1>1 DEF AdminInv, AdminTypeOK, SlashParts, GovInv, MultisigInv, SlashInv, CollateralInv,
     UpTypes, RuTypes
<1> QED
  BY <1>2, AdminInvInit, AdminInvNext, PTL DEF AdminSpec

\* execute_upgrade and emergency_upgrade of the library and of staking_rewards: in
\* the composition the runs check, no code changes without its delay or guardian.
THEOREM UpgradesStayGuarded == AdminSpec => UpgradesGuarded
<1>1. AdminInv /\ [AdminNext]_AdminVars => [version' # version => Guarded]_upVars
  <2> SUFFICES ASSUME AdminInv, [AdminNext]_AdminVars, version' # version PROVE Guarded
    OBVIOUS
  <2>1. part = "upgrades" /\ [UpNext]_<<now, upVars>>
    BY UpgradesApart
  <2> QED
    BY <2>1, UpTypesGuard, UpStep DEF AdminInv
<1>2. AdminInv /\ [AdminNext]_AdminVars => [ruCode' # ruCode => RuGuarded]_ruVars
  <2> SUFFICES ASSUME AdminInv, [AdminNext]_AdminVars, ruCode' # ruCode PROVE RuGuarded
    OBVIOUS
  <2>1. part = "rewards_upgrade" /\ [RuNext]_<<now, ruVars>>
    BY UpgradesApart
  <2> QED
    BY <2>1, RuStep DEF AdminInv, RuTypes
<1> QED
  BY <1>1, <1>2, AdminInvInit, AdminInvNext, PTL
     DEF AdminSpec, UpgradesGuarded, CodeChangeGuarded, Guarded, RewardsCodeGuarded, RuGuarded
=============================================================================
