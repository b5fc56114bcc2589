------------------------- MODULE UpgradeGovernance -------------------------
(***************************************************************************)
(* The upgrade protocol of soroban_upgrade_governance_core as the fund     *)
(* contracts expose it: a proposal with a time lock, execution after the   *)
(* delay, an emergency upgrade with the guardian's signature, cancellation.*)
(* One record per contract says how its entry points use the library.      *)
(*                                                                         *)
(* A deployed hash is assumed to run this same code: what another code     *)
(* does with the contract's storage is out of reach of this module.        *)
(***************************************************************************)
EXTENDS UpgradeTerms

CONSTANTS
    Clients,        \* the contracts to look at
    InitVersion,    \* ContractVersion after init
    Schema,         \* StorageSchemaVersion: nothing here changes it
    MaxVersion      \* bound on the versions callers pass

\* Does the contract pass the caller's version, or version 0?  Does it demand
\* that the stored schema be the contract version?  Is the guardian mandatory,
\* does a cancellation clear the proposed version, may the admin hand over,
\* and does the pause hold cancellations and handovers back?
Versioned ==
    [versioned |-> TRUE, schemaChecked |-> TRUE, guardianRequired |-> TRUE,
     cancelClearsVersion |-> TRUE, handsOver |-> TRUE, pauseHolds |-> FALSE]

Unversioned ==
    [versioned |-> FALSE, schemaChecked |-> FALSE, guardianRequired |-> TRUE,
     cancelClearsVersion |-> FALSE, handsOver |-> FALSE, pauseHolds |-> FALSE]

StakingPoolUpgrades    == Versioned
RentWalletUpgrades     == Versioned
BondCollateralUpgrades == [Versioned EXCEPT !.pauseHolds = TRUE]
DealEscrowUpgrades     == Unversioned
MvpStakingPoolUpgrades == Unversioned
WhistleblowerUpgrades  == Unversioned
RentToOwnUpgrades ==
    [versioned |-> TRUE, schemaChecked |-> FALSE, guardianRequired |-> FALSE,
     cancelClearsVersion |-> TRUE, handsOver |-> FALSE, pauseHolds |-> TRUE]

Entries ==
    [staking_pool |-> StakingPoolUpgrades, rent_wallet |-> RentWalletUpgrades,
     bond_collateral |-> BondCollateralUpgrades, deal_escrow |-> DealEscrowUpgrades,
     mvp_staking_pool |-> MvpStakingPoolUpgrades,
     whistleblower_rewards |-> WhistleblowerUpgrades, rent_to_own |-> RentToOwnUpgrades]

\* The contracts that compare their schema with their version store 1 as both.
ASSUME UpgradeAssumption ==
    /\ Clients \subseteq DOMAIN Entries
    /\ InitVersion \in Nat /\ Schema \in Nat /\ MaxVersion \in Nat
    /\ (\E c \in Clients : Entries[c].schemaChecked) => InitVersion = Schema

VARIABLES
    entry,          \* the record of the contract looked at: never changes
    upAdmin, guardian, upDelay, version, upPaused,
    pendingHash, pendingAt, pendingVersion,
    code,           \* hash of the deployed code, None until the first upgrade
    signers         \* history: who signed the latest invocation

pendingUpgrade == <<pendingHash, pendingAt, pendingVersion>>
upRoles        == <<upAdmin, guardian>>
upVars         == <<entry, upRoles, upDelay, version, upPaused, pendingUpgrade, code, signers>>

UpInit ==
    /\ entry \in {Entries[c] : c \in Clients}
    /\ upAdmin = Admin /\ guardian = None
    /\ upDelay = 0 /\ upPaused = FALSE
    /\ version = InitVersion
    /\ pendingHash = None /\ pendingAt = None /\ pendingVersion = None
    /\ code = None /\ signers = {}

-----------------------------------------------------------------------------
\* require_auth of the stored admin: everyone else is refused.
ByAdmin(by) == upAdmin \in by

\* The version an entry point passes on to the core.
Requested(v) == IF entry.versioned THEN v ELSE 0

SchemaCurrent == entry.schemaChecked => Schema = version

\* The entry point's own check, then validate_upgrade_safety.  The schema the
\* core compares with the stored one is the stored one itself.
UpgradeSafe(v) == SchemaCurrent /\ Requested(v) = version + 1

ClearPending == pendingHash' = None /\ pendingAt' = None /\ pendingVersion' = None

ProposeUpgrade(by, hash, v) ==
    /\ ByAdmin(by)
    /\ pendingHash = None
    /\ UpgradeSafe(v)
    /\ pendingHash' = hash /\ pendingAt' = now /\ pendingVersion' = Requested(v)
    /\ signers' = by
    /\ UNCHANGED <<now, entry, upRoles, upDelay, upPaused, version, code>>

DelayElapsed == now >= pendingAt + upDelay

\* The version is read before the proposal is cleared.
ExecutedVersion == pendingVersion

ExecuteUpgrade(by, hash) ==
    /\ ByAdmin(by)
    /\ pendingHash # None /\ pendingHash = hash
    /\ DelayElapsed
    /\ ClearPending
    /\ version' = ExecutedVersion
    /\ code' = hash
    /\ signers' = by
    /\ UNCHANGED <<now, entry, upRoles, upDelay, upPaused>>

GuardianSignedUnlessNone(by) == guardian # None => guardian \in by
GuardianSigned(by) == IF guardian = None THEN ~entry.guardianRequired ELSE guardian \in by

\* What an emergency upgrade leaves of a pending proposal.
PendingAfterEmergencyKept == UNCHANGED pendingUpgrade
PendingAfterEmergency == ClearPending

EmergencyUpgrade(by, hash, v) ==
    /\ ByAdmin(by)
    /\ UpgradeSafe(v)
    /\ GuardianSigned(by)
    /\ PendingAfterEmergency
    /\ version' = Requested(v)
    /\ code' = hash
    /\ signers' = by
    /\ UNCHANGED <<now, entry, upRoles, upDelay, upPaused>>

\* No pause holds a proposal or an upgrade back, only what takes one back.
HeldByPause == entry.pauseHolds /\ upPaused

CancelUpgrade(by) ==
    /\ ~HeldByPause
    /\ ByAdmin(by)
    /\ pendingHash # None
    /\ pendingHash' = None /\ pendingAt' = None
    /\ pendingVersion' = IF entry.cancelClearsVersion THEN None ELSE pendingVersion
    /\ signers' = by
    /\ UNCHANGED <<now, entry, upRoles, upDelay, upPaused, version, code>>

SetGuardian(by, g) ==
    /\ ByAdmin(by)
    /\ guardian' = g
    /\ signers' = by
    /\ UNCHANGED <<now, entry, upAdmin, upDelay, upPaused, version, pendingUpgrade, code>>

SetUpgradeDelay(by, seconds) ==
    /\ ByAdmin(by)
    /\ upDelay' = seconds
    /\ signers' = by
    /\ UNCHANGED <<now, entry, upRoles, upPaused, version, pendingUpgrade, code>>

\* A pending proposal passes to the new admin.
HandOver(by, a) ==
    /\ entry.handsOver /\ ~HeldByPause
    /\ ByAdmin(by)
    /\ upAdmin' = a
    /\ signers' = by
    /\ UNCHANGED <<now, entry, guardian, upDelay, upPaused, version, pendingUpgrade, code>>

SetUpPaused(by, flag) ==
    /\ entry.pauseHolds
    /\ ByAdmin(by)
    /\ upPaused' = flag
    /\ signers' = by
    /\ UNCHANGED <<now, entry, upRoles, upDelay, version, pendingUpgrade, code>>

UpTick ==
    /\ Tick
    /\ signers' = {}
    /\ UNCHANGED <<entry, upRoles, upDelay, version, upPaused, pendingUpgrade, code>>

UpgradeNext(by) ==
    \/ \E hash \in Hashes, v \in 0..MaxVersion : \/ ProposeUpgrade(by, hash, v)
                                                 \/ EmergencyUpgrade(by, hash, v)
    \/ \E hash \in Hashes : ExecuteUpgrade(by, hash)
    \/ CancelUpgrade(by)

ConfigNext(by) ==
    \/ \E a \in Signatories : SetGuardian(by, a) \/ HandOver(by, a)
    \/ \E flag \in BOOLEAN : SetUpPaused(by, flag)
    \/ \E seconds \in UpgradeDelays : SetUpgradeDelay(by, seconds)

UpNext == \/ UpTick
          \/ \E by \in SUBSET Signatories : UpgradeNext(by) \/ ConfigNext(by)

UpSpec == now = 0 /\ UpInit /\ [][UpNext]_<<now, upVars>>

-----------------------------------------------------------------------------
\* Entries have the types the getters read.  A pending proposal is complete, so
\* that executing it cannot fail on a missing entry, and is for the version
\* after the one in force, whatever emergency upgrade, cancellation or handover
\* happened since it was made.  Where the schema is checked the version moves
\* away from it with the first upgrade, and nothing moves the schema after it.
UpTypeOK ==
    /\ entry \in {Entries[c] : c \in Clients} /\ upPaused \in BOOLEAN
    /\ upAdmin \in Signatories /\ guardian \in Signatories \cup {None}
    /\ upDelay \in UpgradeDelays \cup {0} /\ version \in Nat
    /\ pendingHash \in Hashes \cup {None}
    /\ pendingAt \in Nat \cup {None} /\ pendingVersion \in Nat \cup {None}
    /\ code \in Hashes \cup {None} /\ signers \in SUBSET Signatories
    /\ pendingHash # None =>
         /\ pendingAt # None /\ pendingAt <= now
         /\ pendingVersion = version + 1
    /\ entry.schemaChecked =>
         /\ version \in {Schema, Schema + 1}
         /\ version # Schema => pendingHash = None

\* Code changes only as a signed proposal whose delay has run since it was
\* made, or with the signature of the guardian; without a guardian only
\* rent_to_own may skip the delay.
CodeChangeGuarded ==
    [][version' # version =>
        /\ version' = version + 1 /\ upAdmin \in signers'
        /\ \/ pendingHash # None /\ code' = pendingHash /\ now >= pendingAt + upDelay
           \/ guardian \in signers'
           \/ entry = RentToOwnUpgrades /\ guardian = None]_upVars
=============================================================================
