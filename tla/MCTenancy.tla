----------------------------- MODULE MCTenancy -----------------------------
(***************************************************************************)
(* One instance of the contracts about tenancies, persons and the platform *)
(* for TLC.  They share nothing but the clock and the admin, so nothing is *)
(* gained by interleaving them: each behaviour follows one (part).         *)
(***************************************************************************)
EXTENDS RentWallet, RentToOwn, RentSchedule, RentPayments, TransactionReceipts,
        TenantReputation, VestingSchedule, InspectorBond, WhistleblowerRewards,
        OraclePriceFeeds, ContractAccess, UpgradeableProxy, AllowlistRegistry,
        SchemaRegistry, ReentrancyGuard, TLC

CONSTANTS p1, p2

MCParties == {p1, p2}

PartySymmetry == Permutations(MCParties)

\* Two spellings of one reference, another reference, and one that is refused.
MCRawReferences == {"ref", "REF ", "other", ""}
MCCanonical == [raw \in MCRawReferences |->
    CASE raw \in {"ref", "REF "} -> "ref" [] raw = "other" -> "other" [] raw = "" -> None]

\* With PartLimit = 2, <<1, 0, 2>> has the id of <<1, 1, 0>>.
MCInitialVersion == <<1, 0, 0>>
MCVersions == {MCInitialVersion, <<1, 0, 2>>, <<1, 1, 0>>, <<2, 0, 0>>, <<2, 1, 0>>}

VARIABLE part   \* which of them is observed

tenancies == <<walletVars, rtoVars, schedVars, payVars, recordVars>>
persons   == <<repVars, vestVars, inspectorVars, rewardVars, oracleVars>>
platform  == <<accessVars, proxyVars, registry, schemaVars, guardVars>>

TenancyVars == <<now, part, tenancies, persons, platform>>

TenancyInit ==
    /\ now = 0
    /\ WalletInit /\ RtoInit /\ SchedInit /\ PayInit /\ RecordsInit
    /\ RepInit /\ VestInit /\ InspectorInit /\ RewardInit /\ OracleInit
    /\ AccessInit /\ ProxyInit /\ AllowInit /\ SchemaInit /\ GuardInit
    /\ part \in {"rent_wallet", "rent_to_own", "rent_schedule",
                "rent_payments", "receipts", "reputation", "vesting",
                "inspector_bond", "whistleblower", "oracle", "access",
                "proxy", "allowlist", "schema", "guard"}
    \* those that are not observed start in one way
    /\ part # "rent_to_own" => forfeitureBps = 0
    /\ part # "receipts" => recordOperator = Admin
    /\ part # "reputation" => bounds.max = 1
    /\ part # "inspector_bond" => <<minBond, penaltyBps, lockTime, inspectorWindow>> = <<1, 12, 1, 0>>
    /\ part # "whistleblower" => <<rewardOperator, holdWindow>> = <<Admin, 0>>
    /\ part # "oracle" => <<staleAfter, maxDeviation>> = <<1, 5>>

TenancyNext ==
    /\ UNCHANGED part
    /\ \/ /\ UNCHANGED <<persons, platform>>
          /\ \/ part = "rent_wallet" /\ WalletNext
                /\ UNCHANGED <<rtoVars, schedVars, payVars, recordVars>>
             \/ part = "rent_to_own" /\ RtoNext
                /\ UNCHANGED <<walletVars, schedVars, payVars, recordVars>>
             \/ part = "rent_schedule" /\ SchedNext
                /\ UNCHANGED <<walletVars, rtoVars, payVars, recordVars>>
             \/ part = "rent_payments" /\ PayNext
                /\ UNCHANGED <<walletVars, rtoVars, schedVars, recordVars>>
             \/ part = "receipts" /\ RecordsNext
                /\ UNCHANGED <<walletVars, rtoVars, schedVars, payVars>>
       \/ /\ UNCHANGED <<tenancies, platform>>
          /\ \/ part = "reputation" /\ RepNext
                /\ UNCHANGED <<vestVars, inspectorVars, rewardVars, oracleVars>>
             \/ part = "vesting" /\ VestNext
                /\ UNCHANGED <<repVars, inspectorVars, rewardVars, oracleVars>>
             \/ part = "inspector_bond" /\ InspectorNext
                /\ UNCHANGED <<repVars, vestVars, rewardVars, oracleVars>>
             \/ part = "whistleblower" /\ RewardNext
                /\ UNCHANGED <<repVars, vestVars, inspectorVars, oracleVars>>
             \/ part = "oracle" /\ OracleNext
                /\ UNCHANGED <<repVars, vestVars, inspectorVars, rewardVars>>
       \/ /\ UNCHANGED <<tenancies, persons>>
          /\ \/ part = "access" /\ AccessNext
                /\ UNCHANGED <<proxyVars, registry, schemaVars, guardVars>>
             \/ part = "proxy" /\ ProxyNext
                /\ UNCHANGED <<accessVars, registry, schemaVars, guardVars>>
             \/ part = "allowlist" /\ AllowNext
                /\ UNCHANGED <<accessVars, proxyVars, schemaVars, guardVars>>
             \/ part = "schema" /\ SchemaNext
                /\ UNCHANGED <<accessVars, proxyVars, registry, guardVars>>
             \/ part = "guard" /\ GuardNext
                /\ UNCHANGED <<accessVars, proxyVars, registry, schemaVars>>

TenancySpec == TenancyInit /\ [][TenancyNext]_TenancyVars

\* contract_access alone.
AccessAlone == part = "access" /\ TenancySpec

\* The type invariants of all of them.
TenancyTypeOK ==
    /\ now \in 0..MaxTime
    /\ part = "rent_wallet" => WalletTypeOK
    /\ part = "rent_to_own" => RtoTypeOK
    /\ part = "rent_schedule" => SchedTypeOK
    /\ part = "rent_payments" => PayTypeOK
    /\ part = "receipts" => RecordsTypeOK
    /\ part = "reputation" => RepTypeOK
    /\ part = "vesting" => VestTypeOK
    /\ part = "inspector_bond" => InspectorTypeOK
    /\ part = "whistleblower" => RewardTypeOK
    /\ part = "oracle" => OracleTypeOK
    /\ part = "access" => AccessTypeOK
    /\ part = "proxy" => ProxyTypeOK
    /\ part = "allowlist" => AllowTypeOK
    /\ part = "schema" => SchemaTypeOK
    /\ part = "guard" => GuardTypeOK

\* What tenants pay is accounted for, towards a property or by instalments.
PaymentsAccounted == EquityAccounted /\ InstalmentsAccounted

\* Receipts of both kinds: one per payment, in the lists it belongs to, which
\* are read completely.
RecordsAgree == ReceiptsUnique /\ PagesComplete /\ IndexesAgree

\* Nothing that is claimed is paid twice: rewards and vested amounts.
ClaimsPaidOnce == RewardsPaidOnce /\ VestingKept

\* The price feed never goes back, and what most sources say is the price.
OraclePrices == FeedMovesForward /\ []PriceIsMajority
=============================================================================
