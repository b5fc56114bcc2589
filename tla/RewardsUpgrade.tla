--------------------------- MODULE RewardsUpgrade ---------------------------
(***************************************************************************)
(* The upgrade entry points staking_rewards has of its own, instead of the *)
(* library's: the time a proposal may be executed is fixed when it is made,*)
(* execution names no hash, there is no version, and the guardian signs an *)
(* emergency upgrade only if there is one.                                 *)
(***************************************************************************)
EXTENDS UpgradeTerms

VARIABLES
    ruAdmin, ruGuardian, ruDelay, ruPending,
    ruCode,         \* hash of the deployed code, None until the first upgrade
    ruSigners       \* history: who signed the latest invocation

ruRoles == <<ruAdmin, ruGuardian>>
ruVars  == <<ruRoles, ruDelay, ruPending, ruCode, ruSigners>>

\* PendingUpgradeHash and PendingUpgradeAt are written and removed together;
\* made and delay are history: when it was made, under which delay.
RewardProposals == [hash : Hashes, executeAt : Nat, made : Nat, delay : Nat]

RuInit ==
    /\ ruAdmin = Admin /\ ruGuardian = None /\ ruDelay = 0
    /\ ruPending = None /\ ruCode = None /\ ruSigners = {}

RuBy(by) == ruAdmin \in by /\ ruSigners' = by

ExecutableAt == now + ruDelay

RuPropose(by, hash) ==
    /\ RuBy(by)
    /\ ruPending = None
    /\ ruPending' = [hash |-> hash, executeAt |-> ExecutableAt, made |-> now,
                     delay |-> ruDelay]
    /\ UNCHANGED <<now, ruRoles, ruDelay, ruCode>>

RuExecute(by) ==
    /\ RuBy(by)
    /\ ruPending # None
    /\ now >= ruPending.executeAt
    /\ ruCode' = ruPending.hash
    /\ ruPending' = None
    /\ UNCHANGED <<now, ruRoles, ruDelay>>

RuEmergency(by, hash) ==
    /\ RuBy(by)
    /\ ruGuardian # None => ruGuardian \in by
    /\ ruPending' = None
    /\ ruCode' = hash
    /\ UNCHANGED <<now, ruRoles, ruDelay>>

RuCancel(by) ==
    /\ RuBy(by)
    /\ ruPending # None
    /\ ruPending' = None
    /\ UNCHANGED <<now, ruRoles, ruDelay, ruCode>>

RuSetGuardian(by, g) ==
    /\ RuBy(by)
    /\ ruGuardian' = g
    /\ UNCHANGED <<now, ruAdmin, ruDelay, ruPending, ruCode>>

RuSetDelay(by, delay) ==
    /\ RuBy(by)
    /\ ruDelay' = delay
    /\ UNCHANGED <<now, ruRoles, ruPending, ruCode>>

\* set_admin: a pending proposal passes to the new admin.
RuSetAdmin(by, a) ==
    /\ RuBy(by)
    /\ ruAdmin' = a
    /\ UNCHANGED <<now, ruGuardian, ruDelay, ruPending, ruCode>>

RuTick ==
    /\ Tick
    /\ ruSigners' = {}
    /\ UNCHANGED <<ruRoles, ruDelay, ruPending, ruCode>>

RuNext ==
    \/ RuTick
    \/ \E by \in SUBSET Signatories :
         \/ \E hash \in Hashes : RuPropose(by, hash) \/ RuEmergency(by, hash)
         \/ RuExecute(by) \/ RuCancel(by)
         \/ \E a \in Signatories : RuSetGuardian(by, a) \/ RuSetAdmin(by, a)
         \/ \E delay \in UpgradeDelays : RuSetDelay(by, delay)

RuSpec == now = 0 /\ RuInit /\ [][RuNext]_<<now, ruVars>>

-----------------------------------------------------------------------------
\* Entries have the types the getters read.
RuTypeOK ==
    /\ ruAdmin \in Signatories /\ ruGuardian \in Signatories \cup {None}
    /\ ruDelay \in UpgradeDelays \cup {0}
    /\ ruPending \in RewardProposals \cup {None}
    /\ ruCode \in Hashes \cup {None} /\ ruSigners \in SUBSET Signatories

\* Code changes only as the pending proposal, once the delay in force when it
\* was made has run (a delay lowered later shortens no wait, unlike in the
\* library), or at once with the signature of the guardian, if there is one.
RewardsCodeGuarded ==
    [][ruCode' # ruCode =>
        /\ ruAdmin \in ruSigners'
        /\ ruPending' = None
        /\ \/ ruPending # None /\ ruCode' = ruPending.hash
                /\ now >= ruPending.made + ruPending.delay
           \/ ruGuardian \in ruSigners'
           \/ ruGuardian = None]_ruVars
=============================================================================
