--------------------------- MODULE SchemaRegistry ---------------------------
(***************************************************************************)
(* The schema_registry contract: schema versions, the transitions the      *)
(* admin registers, and migrations anybody executes, with receipts by pair *)
(* of versions and by number.                                              *)
(* Left out: events, descriptions, hashes, who executed a migration, is a   *)
(* dry run required (the same is checked anyway), overflow of version_id.  *)
(***************************************************************************)
EXTENDS Parties

CONSTANTS
    Versions,       \* <<major, minor, patch>>
    InitialVersion, \* 1.0.0
    PartLimit       \* 1_000, what version_id multiplies with

\* version_id
VersionId(v) == v[1] * PartLimit * PartLimit + v[2] * PartLimit + v[3]

Ids == {VersionId(v) : v \in Versions}

Migrations == [source : Versions, target : Versions]

ASSUME SchemaAssumption ==
    /\ Versions \subseteq Nat \X Nat \X Nat /\ InitialVersion \in Versions
    /\ PartLimit \in Nat

VARIABLES
    schemaVersion,  \* RegistrySchemaVersion
    transitions,    \* CompatibilityMatrix: pairs of ids
    migrated        \* MigrationReceiptById, which MigrationReceipt repeats by ids

schemaVars == <<schemaVersion, transitions, migrated>>

SchemaInit ==
    /\ schemaVersion = InitialVersion
    /\ transitions = {}
    /\ migrated = <<>>

-----------------------------------------------------------------------------
PairOf(source, target) == <<VersionId(source), VersionId(target)>>

\* check_invariants
InvariantsPassUnordered(source, target) == target[1] > source[1] => target[2] = 0
InvariantsPass(source, target) ==
    /\ VersionId(target) > VersionId(source)
    /\ target[1] > source[1] => target[2] = 0

RegisterTransition(by, source, target) ==
    /\ by = Admin
    /\ source # target
    /\ transitions' = transitions \cup {PairOf(source, target)}
    /\ UNCHANGED <<schemaVersion, migrated>>

AlreadyExecuted(source, target) ==
    \E i \in DOMAIN migrated :
        PairOf(migrated[i].source, migrated[i].target) = PairOf(source, target)

\* The invariants are checked whether or not a dry run is required.
ExecuteMigration(source, target) ==
    /\ schemaVersion = source
    /\ PairOf(source, target) \in transitions
    /\ ~AlreadyExecuted(source, target)
    /\ InvariantsPass(source, target)
    /\ schemaVersion' = target
    /\ migrated' = Append(migrated, [source |-> source, target |-> target])
    /\ UNCHANGED transitions

SchemaNext ==
    /\ \E source, target \in Versions :
         \/ \E by \in Callers : RegisterTransition(by, source, target)
         \/ ExecuteMigration(source, target)
    /\ UNCHANGED now

SchemaSpec == now = 0 /\ SchemaInit /\ [][SchemaNext]_<<now, schemaVars>>

-----------------------------------------------------------------------------
\* Entries have the types the getters read.
SchemaTypeOK ==
    /\ schemaVersion \in Versions
    /\ transitions \subseteq Ids \X Ids
    /\ migrated \in Seq(Migrations)

\* The receipts are a gapless history: each migration starts where the one
\* before ended, the last ended where the registry is, and no version comes
\* back, whatever transitions are registered.
MigrationsChain ==
    /\ migrated = <<>> => schemaVersion = InitialVersion
    /\ migrated # <<>> => /\ migrated[1].source = InitialVersion
                          /\ migrated[Len(migrated)].target = schemaVersion
    /\ \A i, j \in DOMAIN migrated :
         /\ j = i + 1 => migrated[j].source = migrated[i].target
         /\ i <= j => migrated[j].target # migrated[i].source
=============================================================================
