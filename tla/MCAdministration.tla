-------------------------- MODULE MCAdministration --------------------------
(***************************************************************************)
(* One instance of governance, timelock, multisig_admin, the upgrade       *)
(* protocols, slashing_module and bond_collateral for TLC.  All but the    *)
(* last two share nothing but the clock, and these meet only in            *)
(* inspectors' bonds, so nothing is gained by interleaving them: each      *)
(* behaviour follows one part, chosen at the start.                        *)
(***************************************************************************)
EXTENDS Governance, Timelock, MultisigAdmin, BondCollateral, UpgradeGovernance,
        RewardsUpgrade, TLC

CONSTANTS v1, v2, call1, call2, m1, m2, s1, s2, s3, hash1, hash2, user1, user2,
          adm, other, w1, w2, position1, position2

MCVoters  == {v1, v2}
MCCalls   == {call1, call2}
MCMembers == {m1, m2}
MCSigners == {s1, s2, s3}
MCCommitments == {hash1, hash2}
MCUsers       == {user1, user2}
MCPositions   == {position1, position2}
MCSignatories == {adm, other}
MCHashes      == {w1, w2}
MCPrices      == {-2, 0, 2, 3}
MCDefaultTier == [o \in Offences |-> 1]

\* The voters and signers are interchangeable too, but with few states to merge.
AddressSymmetry ==
    Permutations(MCCalls) \cup Permutations(MCUsers) \cup Permutations(MCPositions)

VARIABLE part   \* which of them is observed

slashed  == <<bondVars, slashingVars>>
upgraded == <<upVars, ruVars>>

AdminVars == <<now, part, govVars, timelockVars, multisigVars, slashed, upgraded>>

AdminInit ==
    /\ now = 0
    /\ GovInit /\ TimelockInit /\ MultisigInit /\ SlashingInit /\ BondInit
    /\ UpInit /\ RuInit
    /\ part \in {"governance", "timelock", "multisig_admin", "slashing", "positions", "inspectors",
                "upgrades", "rewards_upgrade"}
    /\ part # "upgrades" => entry = StakingPoolUpgrades

\* What the slashing module does for inspectors' bonds.
InspectorReports ==
    \/ SetBondContract
    \/ \E paused \in BOOLEAN : SetSlashPaused(paused)

AdminNext ==
    /\ UNCHANGED part
    /\ \/ /\ \/ part = "governance" /\ GovNext /\ UNCHANGED <<timelockVars, multisigVars>>
             \/ part = "timelock" /\ TimelockNext /\ UNCHANGED <<govVars, multisigVars>>
             \/ part = "multisig_admin" /\ MultisigNext /\ UNCHANGED <<govVars, timelockVars>>
          /\ UNCHANGED <<slashed, upgraded>>
       \/ /\ \/ part = "slashing" /\ SlashingNext /\ UNCHANGED <<bondVars, reportVars>>
             \/ part = "positions" /\ PositionNext
             \/ part = "inspectors" /\ InspectorNext
             \/ part = "inspectors" /\ InspectorReports /\ UNCHANGED bondVars
          /\ UNCHANGED <<govVars, timelockVars, multisigVars, upgraded>>
       \/ /\ \/ part = "upgrades" /\ UpNext /\ UNCHANGED ruVars
             \/ part = "rewards_upgrade" /\ RuNext /\ UNCHANGED upVars
          /\ UNCHANGED <<govVars, timelockVars, multisigVars, slashed>>

AdminSpec == AdminInit /\ [][AdminNext]_AdminVars

\* One of them alone.
GovernanceAlone == part = "governance" /\ AdminSpec
PositionsAlone  == part = "positions" /\ AdminSpec

\* The type invariants of all of them.
AdminTypeOK ==
    /\ part = "governance" => GovTypeOK
    /\ part = "timelock" => TimelockTypeOK
    /\ part = "multisig_admin" => MultisigTypeOK
    /\ part \in {"slashing", "positions", "inspectors"} => SlashingTypeOK /\ BondTypeOK
    /\ part = "upgrades" => UpTypeOK
    /\ part = "rewards_upgrade" => RuTypeOK

\* No code change without its delay or its guardian, in either protocol.
UpgradesGuarded == CodeChangeGuarded /\ RewardsCodeGuarded
=============================================================================
