----------------------------- MODULE DealEscrow -----------------------------
(***************************************************************************)
(* The deal_escrow contract: per-deal balances, the direct release with    *)
(* its three-way split, the rent-release protocol (request, challenge,     *)
(* resolve, the two timeouts), the circuit breaker, the deal lifecycle and *)
(* the migration of the storage schema.                                    *)
(*                                                                         *)
(* One action is one contract invocation: the host runs an invocation to   *)
(* its end before the next and undoes one that returns an error or panics, *)
(* so an error path is the action's guard being false, and the reentrancy  *)
(* flag, set and reset inside one invocation, is never seen set.           *)
(*                                                                         *)
(* Left out: events, evidence strings, tx ids, external references.  The   *)
(* upgrade entry points are modelled in UpgradeGovernance.                 *)
(***************************************************************************)
EXTENDS Integers, Functions

CONSTANTS
    Deals,          \* deal ids (non-empty strings)
    Users,          \* addresses that hold tokens
    Admin, Operator,\* the two roles init stores; no entry point changes them
    Escrow,         \* the contract's own address
    None,           \* absent storage entry
    Amounts,        \* amounts callers pass
    Windows,        \* challenge windows, dispute timeouts, recovery delays
    Hashes,         \* drain hashes
    Supply,         \* tokens each user starts with
    StartSchemas,   \* schema versions the deployment may start from
    LegacyAmounts,  \* balances and locked amounts an old deployment may hold
    Managed,        \* bound: the deals that are moved through their lifecycle
    MaxTime         \* bound on the ledger timestamp

Callers == Users \cup {Admin, Operator}

Lifecycle == {"Draft", "Active", "Completed", "Defaulted"}

DealStates == [total : Nat, locked : Nat, pending : Nat]

Releases == [to : Users, amount : Nat \ {0}, challengeEnd : Nat]

Disputes == [openedAt : Nat]

Drains == [hash : Hashes, at : Nat]

ASSUME EscrowAssumption ==
    /\ Amounts \subseteq Nat \ {0} /\ LegacyAmounts \subseteq Nat
    /\ Windows \subseteq Nat /\ Supply \in Nat /\ MaxTime \in Nat
    /\ StartSchemas \subseteq 1..3
    /\ Escrow \notin Users /\ Users # {} /\ None \notin Callers
    /\ None \notin DealStates /\ None \notin Releases
    /\ None \notin Disputes /\ None \notin Drains

VARIABLES
    now,            \* ledger timestamp
    token,          \* the token contract's balances (external)
    paused,
    resolver, challengeWindow, disputeTimeout,
    breaker, pendingDrain, recoveryDelay,
    dealBalance, depositor, dealState, pendingRelease, dispute, lifecycle,
    schema, legacy, \* legacy[d]: the V2 LegacyLockedAmount / LegacyPendingPayout
    frozenAt        \* history: time of the latest freeze

configVars  == <<resolver, challengeWindow, disputeTimeout>>
breakerVars == <<breaker, pendingDrain, recoveryDelay, frozenAt>>
bookVars    == <<dealBalance, depositor, dealState>>
rentVars    == <<pendingRelease, dispute>>
schemaVars  == <<schema, legacy>>
vars == <<now, token, paused, configVars, breakerVars, bookVars, rentVars,
          lifecycle, schemaVars>>

-----------------------------------------------------------------------------
\* The token contract: a transfer the payer cannot cover aborts the invocation.
Transfer(from, to, amount) ==
    /\ token[from] >= amount
    /\ token' = [token EXCEPT ![from] = @ - amount, ![to] = @ + amount]

ZeroState == [total |-> 0, locked |-> 0, pending |-> 0]

\* Without a DealState entry, the balance entry stands in with nothing locked.
GetDealState(d) ==
    IF dealState[d] # None THEN dealState[d]
    ELSE [ZeroState EXCEPT !.total = dealBalance[d]]

\* assert_deal_invariants: what a DealState must satisfy to be written.
DealInvariants(s) ==
    /\ s.total >= 0 /\ s.locked >= 0 /\ s.pending >= 0
    /\ s.locked = s.pending
    /\ s.locked <= s.total

\* Writing a DealState, after the check.
PutDealState(d, s) ==
    /\ DealInvariants(s)
    /\ dealState' = [dealState EXCEPT ![d] = s]

-----------------------------------------------------------------------------
\* The state init leaves, or the one an older deployment brings along when
\* its code is replaced by this one: balances without DealState entries, and
\* for schema 2 the legacy locked and pending amounts.
Init ==
    /\ now = 0
    /\ paused = FALSE
    /\ resolver = None
    /\ challengeWindow \in Windows \ {0} /\ disputeTimeout \in Windows \ {0}
    /\ breaker = "Unfrozen" /\ pendingDrain = None /\ frozenAt = 0
    /\ recoveryDelay \in Windows
    /\ schema \in StartSchemas
    /\ dealBalance \in IF schema = 3 THEN {[d \in Deals |-> 0]}
                       ELSE [Deals -> LegacyAmounts]
    /\ legacy \in IF schema # 2 THEN {[d \in Deals |-> [locked |-> 0, pending |-> 0]]}
                  ELSE [Deals -> [locked : LegacyAmounts, pending : LegacyAmounts]]
    /\ depositor \in IF schema = 3 THEN {[d \in Deals |-> None]}
                     ELSE [Deals -> Users \cup {None}]
    /\ dealState = [d \in Deals |-> None]
    /\ pendingRelease = [d \in Deals |-> None]
    /\ dispute = [d \in Deals |-> None]
    /\ lifecycle = [d \in Deals |-> "Draft"]
    /\ SumFunctionOnSet(dealBalance, Deals) \in Nat  \* a token balance is a number
    /\ token = [a \in Users \cup {Escrow} |->
                  IF a = Escrow THEN SumFunctionOnSet(dealBalance, Deals) ELSE Supply]

-----------------------------------------------------------------------------
\* The balance a deposit of amount leaves.
CreditedBalanceOverwrites(d, amount) == amount
CreditedBalance(d, amount) == dealBalance[d] + amount

Deposit(from, d, amount) ==
    LET s == GetDealState(d) IN
    /\ ~paused
    /\ Transfer(from, Escrow, amount)
    /\ dealBalance' = [dealBalance EXCEPT ![d] = CreditedBalance(d, amount)]
    /\ depositor' = IF depositor[d] = None THEN [depositor EXCEPT ![d] = from]
                    ELSE depositor
    /\ PutDealState(d, [s EXCEPT !.total = CreditedBalance(d, amount)])
    /\ UNCHANGED <<now, paused, configVars, breakerVars, rentVars, lifecycle, schemaVars>>

\* The shares of a direct release: they add up to the deal's whole balance.
Splits(d) == {s \in [principal : 0..dealBalance[d], platform : 0..dealBalance[d],
                     reporter : 0..dealBalance[d]] :
                s.principal + s.platform + s.reporter = dealBalance[d]}

NotFrozenIgnored == TRUE
NotFrozen == breaker = "Unfrozen"

\* The DealState a direct release leaves.
ReleasedStateKept(d) == GetDealState(d)
ReleasedState(d) == ZeroState

\* A direct release pays the whole balance and zeroes the deal's books.  It
\* looks at no rent release or dispute and leaves both entries in place.
Release(caller, d, split, to, platform, reporter) ==
    LET due(a) == (IF a = to THEN split.principal ELSE 0)
                + (IF a = platform THEN split.platform ELSE 0)
                + (IF a = reporter THEN split.reporter ELSE 0)
    IN
    /\ ~paused /\ NotFrozen
    /\ caller \in {Admin, Operator}
    /\ dealBalance[d] > 0
    /\ split \in Splits(d)
    /\ token[Escrow] >= dealBalance[d]
    /\ token' = [a \in DOMAIN token |->
                   IF a = Escrow THEN token[a] - dealBalance[d] ELSE token[a] + due(a)]
    /\ dealBalance' = [dealBalance EXCEPT ![d] = 0]
    /\ PutDealState(d, ReleasedState(d))
    /\ UNCHANGED <<now, paused, configVars, breakerVars, depositor, rentVars,
                   lifecycle, schemaVars>>

-----------------------------------------------------------------------------
\* The rent-release protocol.  Bound: the windows end within MaxTime.
RequestRentRelease(caller, d, to, amount) ==
    LET s == GetDealState(d) IN
    /\ ~paused
    /\ caller \in {Admin, Operator}
    /\ pendingRelease[d] = None
    /\ s.total >= amount
    /\ now + challengeWindow <= MaxTime
    /\ PutDealState(d, [s EXCEPT !.locked = amount, !.pending = amount])
    /\ pendingRelease' = [pendingRelease EXCEPT ![d] =
            [to |-> to, amount |-> amount, challengeEnd |-> now + challengeWindow]]
    /\ UNCHANGED <<now, token, paused, configVars, breakerVars, dealBalance, depositor,
                   dispute, lifecycle, schemaVars>>

\* A later challenge inside the window replaces the dispute and its clock.
ChallengeRentRelease(caller, d) ==
    /\ ~paused
    /\ pendingRelease[d] # None
    /\ now <= pendingRelease[d].challengeEnd
    /\ depositor[d] # None
    /\ caller \in {depositor[d], pendingRelease[d].to}
    /\ \A w \in Windows : now + w <= MaxTime
    /\ dispute' = [dispute EXCEPT ![d] = [openedAt |-> now]]
    /\ UNCHANGED <<now, token, paused, configVars, breakerVars, bookVars,
                   pendingRelease, lifecycle, schemaVars>>

\* The lock a release was requested with is still in place.
LockMatches(d) == /\ GetDealState(d).locked = pendingRelease[d].amount
                  /\ GetDealState(d).pending = pendingRelease[d].amount

\* What a settlement leaves: the balance, the DealState, the dispute entry.
SettledBalance(d) == GetDealState(d).total - pendingRelease[d].amount
SettledStateLocked(d) == [GetDealState(d) EXCEPT !.total = SettledBalance(d)]
SettledState(d) == [ZeroState EXCEPT !.total = SettledBalance(d)]
SettledDispute(d) == None

\* settle_release_inner: pay the pending amount and close release and dispute.
\* It refuses when the locked amount is not the pending one.
Settle(d, recipient) ==
    /\ pendingRelease[d] # None /\ depositor[d] # None
    /\ LockMatches(d)
    /\ Transfer(Escrow, recipient, pendingRelease[d].amount)
    /\ PutDealState(d, SettledState(d))
    /\ dealBalance' = [dealBalance EXCEPT ![d] = SettledBalance(d)]
    /\ pendingRelease' = [pendingRelease EXCEPT ![d] = None]
    /\ dispute' = [dispute EXCEPT ![d] = SettledDispute(d)]
    /\ UNCHANGED <<now, paused, configVars, breakerVars, depositor, lifecycle, schemaVars>>

ResolveRentDispute(caller, d, outcome) ==
    /\ ~paused
    /\ resolver # None /\ caller = resolver
    /\ dispute[d] # None
    /\ pendingRelease[d] # None
    /\ Settle(d, IF outcome = "ReleaseToRecipient" THEN pendingRelease[d].to
                 ELSE depositor[d])

UncontestedIgnored(d) == TRUE
Uncontested(d) == dispute[d] = None

DisputeExpiredResolver(d) == /\ resolver # None
                             /\ now >= dispute[d].openedAt + disputeTimeout
DisputeExpired(d) == now >= dispute[d].openedAt + disputeTimeout

\* Anybody may call the two timeouts.
SettleRentReleaseTimeout(d) ==
    /\ ~paused
    /\ Uncontested(d)
    /\ pendingRelease[d] # None
    /\ now >= pendingRelease[d].challengeEnd
    /\ Settle(d, pendingRelease[d].to)

SettleDisputeTimeout(d) ==
    /\ ~paused
    /\ dispute[d] # None
    /\ DisputeExpired(d)
    /\ Settle(d, depositor[d])

-----------------------------------------------------------------------------
\* Configuration, by the admin.
ConfigureDisputeWindows(caller, challenge, timeout) ==
    /\ caller = Admin
    /\ challenge # 0 /\ timeout # 0
    /\ challengeWindow' = challenge /\ disputeTimeout' = timeout
    /\ UNCHANGED <<now, token, paused, resolver, breakerVars, bookVars, rentVars,
                   lifecycle, schemaVars>>

SetResolver(caller, r) ==
    /\ caller = Admin
    /\ resolver' = r
    /\ UNCHANGED <<now, token, paused, challengeWindow, disputeTimeout, breakerVars,
                   bookVars, rentVars, lifecycle, schemaVars>>

Pause(caller) ==
    /\ caller = Admin
    /\ paused' = TRUE
    /\ UNCHANGED <<now, token, configVars, breakerVars, bookVars, rentVars, lifecycle,
                   schemaVars>>

Unpause(caller) ==
    /\ caller = Admin
    /\ paused' = FALSE
    /\ UNCHANGED <<now, token, configVars, breakerVars, bookVars, rentVars, lifecycle,
                   schemaVars>>

\* Every listed deal gets a DealState from its balance and, from schema 2, its
\* legacy amounts.  One deal that fails the check undoes the whole migration.
MigrateStorageSchema(caller, from, ids) ==
    LET migrated(d) == [total   |-> dealBalance[d],
                        locked  |-> IF from = 2 THEN legacy[d].locked ELSE 0,
                        pending |-> IF from = 2 THEN legacy[d].pending ELSE 0]
    IN
    /\ caller = Admin
    /\ schema # 3 /\ schema = from
    /\ \A d \in ids : DealInvariants(migrated(d))
    /\ dealState' = [d \in Deals |-> IF d \in ids THEN migrated(d) ELSE dealState[d]]
    /\ schema' = 3
    /\ UNCHANGED <<now, token, paused, configVars, breakerVars, dealBalance, depositor,
                   rentVars, lifecycle, legacy>>

-----------------------------------------------------------------------------
\* The circuit breaker, by the admin.
Freeze(caller) ==
    /\ caller = Admin
    /\ breaker # "Frozen"
    /\ breaker' = "Frozen" /\ frozenAt' = now
    /\ UNCHANGED <<now, token, paused, configVars, pendingDrain, recoveryDelay, bookVars,
                   rentVars, lifecycle, schemaVars>>

ProposeDrain(caller, hash) ==
    /\ caller = Admin
    /\ breaker = "Frozen"
    /\ pendingDrain' = [hash |-> hash, at |-> now]
    /\ UNCHANGED <<now, token, paused, configVars, breaker, recoveryDelay, frozenAt,
                   bookVars, rentVars, lifecycle, schemaVars>>

\* What executing a drain leaves of the proposal, and of the breaker.
DrainAfterExecutionKept == pendingDrain
DrainAfterExecution == None
BreakerAfterExecutionAwaits == "RecoveryAwaiting"
BreakerAfterExecution == "Unfrozen"

\* "Executing the drain" moves no money: it lifts the freeze.
ExecuteDrain(caller, hash) ==
    /\ caller = Admin
    /\ pendingDrain # None /\ pendingDrain.hash = hash
    /\ now >= pendingDrain.at + recoveryDelay
    /\ breaker = "Frozen"
    /\ pendingDrain' = DrainAfterExecution
    /\ breaker' = BreakerAfterExecution
    /\ UNCHANGED <<now, token, paused, configVars, recoveryDelay, frozenAt, bookVars,
                   rentVars, lifecycle, schemaVars>>

SetRecoveryDelay(caller, delay) ==
    /\ caller = Admin
    /\ recoveryDelay' = delay
    /\ UNCHANGED <<now, token, paused, configVars, breaker, pendingDrain, frozenAt,
                   bookVars, rentVars, lifecycle, schemaVars>>

-----------------------------------------------------------------------------
\* The deal lifecycle, by the admin.
MoveLifecycle(caller, d, from, to) ==
    /\ ~paused
    /\ caller = Admin
    /\ lifecycle[d] = from
    /\ lifecycle' = [lifecycle EXCEPT ![d] = to]
    /\ UNCHANGED <<now, token, paused, configVars, breakerVars, bookVars, rentVars,
                   schemaVars>>

ActivateDeal(caller, d) == MoveLifecycle(caller, d, "Draft", "Active")
CompleteDeal(caller, d) == MoveLifecycle(caller, d, "Active", "Completed")
DefaultDeal(caller, d)  == MoveLifecycle(caller, d, "Active", "Defaulted")

\* Ledgers close with growing timestamps.
Tick ==
    /\ now < MaxTime
    /\ now' = now + 1
    /\ UNCHANGED <<token, paused, configVars, breakerVars, bookVars, rentVars, lifecycle,
                   schemaVars>>

-----------------------------------------------------------------------------
MoneyNext(d) ==
    \/ \E from \in Users, amount \in Amounts : Deposit(from, d, amount)
    \/ \E caller \in Callers, to, platform, reporter \in Users :
         \E split \in Splits(d) : Release(caller, d, split, to, platform, reporter)

RentNext(d) ==
    \/ \E caller \in Callers, to \in Users, amount \in Amounts :
         RequestRentRelease(caller, d, to, amount)
    \/ \E caller \in Callers : ChallengeRentRelease(caller, d)
    \/ \E caller \in Callers, outcome \in {"ReleaseToRecipient", "RefundToDepositor"} :
         ResolveRentDispute(caller, d, outcome)
    \/ SettleRentReleaseTimeout(d)
    \/ SettleDisputeTimeout(d)

LifecycleNext(d) ==
    /\ d \in Managed
    /\ \E caller \in Callers : \/ ActivateDeal(caller, d)
                              \/ CompleteDeal(caller, d)
                              \/ DefaultDeal(caller, d)

AdminNext ==
    \E caller \in Callers :
        \/ Pause(caller)
        \/ Unpause(caller)
        \/ Freeze(caller)
        \/ \E r \in Callers : SetResolver(caller, r)
        \/ \E challenge, timeout \in Windows :
             ConfigureDisputeWindows(caller, challenge, timeout)
        \/ \E hash \in Hashes : ProposeDrain(caller, hash) \/ ExecuteDrain(caller, hash)
        \/ \E delay \in Windows : SetRecoveryDelay(caller, delay)

MigrationNext ==
    \E caller \in Callers, from \in 1..2, ids \in SUBSET Deals :
        MigrateStorageSchema(caller, from, ids)

Next ==
    \/ Tick
    \/ AdminNext
    \/ MigrationNext
    \/ \E d \in Deals : MoneyNext(d) \/ RentNext(d) \/ LifecycleNext(d)

Spec == Init /\ [][Next]_vars

\* Ledgers keep closing; a pause is an emergency measure that the admin lifts
\* again; whoever is to be paid keeps calling the timeout, which needs no role.
FairSpec ==
    /\ Spec
    /\ WF_vars(Tick)
    /\ WF_vars(Unpause(Admin))
    /\ \A d \in Deals : /\ SF_vars(SettleRentReleaseTimeout(d))
                        /\ SF_vars(SettleDisputeTimeout(d))

-----------------------------------------------------------------------------
\* Every stored entry has the shape the code reads back; in particular the
\* breaker is never in the RecoveryAwaiting state its enum declares.
TypeOK ==
    /\ now \in 0..MaxTime /\ frozenAt \in 0..now
    /\ token \in [Users \cup {Escrow} -> Nat]
    /\ paused \in BOOLEAN
    /\ resolver \in Callers \cup {None}
    /\ challengeWindow \in Windows \ {0} /\ disputeTimeout \in Windows \ {0}
    /\ breaker \in {"Unfrozen", "Frozen"}
    /\ pendingDrain \in Drains \cup {None} /\ recoveryDelay \in Windows
    /\ dealBalance \in [Deals -> Nat]
    /\ depositor \in [Deals -> Users \cup {None}]
    /\ dealState \in [Deals -> DealStates \cup {None}]
    /\ pendingRelease \in [Deals -> Releases \cup {None}]
    /\ dispute \in [Deals -> Disputes \cup {None}]
    /\ lifecycle \in [Deals -> Lifecycle]
    /\ schema \in 1..3
    /\ legacy \in [Deals -> [locked : Nat, pending : Nat]]

\* The two copies of a deal's balance, DealBalance and DealState, agree, and
\* the lock never exceeds the balance (assert_deal_invariants, at rest).
BooksAgree ==
    \A d \in Deals : dealState[d] # None =>
        /\ dealState[d].total = dealBalance[d]
        /\ DealInvariants(dealState[d])

\* On a deployment that started on schema 3, locked money always belongs to
\* the pending rent release of the same deal, so it can be settled.
LockHasRelease ==
    \A d \in Deals : GetDealState(d).locked > 0 =>
        /\ pendingRelease[d] # None
        /\ pendingRelease[d].amount = GetDealState(d).locked

\* A dispute is about a release that is still pending and was opened before
\* its challenge window closed: no settlement leaves a dispute behind that
\* would block the deal's next release.
DisputeHasRelease ==
    \A d \in Deals : dispute[d] # None =>
        /\ pendingRelease[d] # None /\ depositor[d] # None
        /\ dispute[d].openedAt <= pendingRelease[d].challengeEnd
        /\ dispute[d].openedAt <= now

\* The lock, the pending release and the dispute of a deal are three entries;
\* whatever settles, pays out or contests keeps them about one request.
RentEntriesAgree == LockHasRelease /\ DisputeHasRelease

\* A drain proposal belongs to the freeze in force: none outlives its freeze.
DrainHasFreeze ==
    pendingDrain # None => /\ breaker = "Frozen"
                           /\ frozenAt <= pendingDrain.at
                           /\ pendingDrain.at <= now

\* The freeze lasts at least the recovery delay in force when it is lifted,
\* counted from the freeze itself.
ThawWaits ==
    [][breaker = "Frozen" /\ breaker' # "Frozen" => now >= frozenAt + recoveryDelay]_vars

\* A rent release closes in one of three ways: to the recipient, uncontested,
\* after the window; to the recipient or the depositor by the resolver's
\* decision on a dispute; to the depositor after the dispute timeout.  It takes
\* exactly the pending amount out of its deal.
RentReleaseCloses ==
    [][\A d \in Deals :
         pendingRelease[d] # None /\ pendingRelease'[d] = None =>
            LET p == pendingRelease[d]
                paid(a) == token'[a] - token[a] = p.amount
            IN
            /\ dealBalance[d] - dealBalance'[d] = p.amount
            /\ \/ dispute[d] = None /\ now >= p.challengeEnd /\ paid(p.to)
               \/ dispute[d] # None /\ paid(depositor[d])
               \/ dispute[d] # None /\ resolver # None /\ paid(p.to)]_vars

\* While the breaker is frozen, money leaves a deal only through the
\* settlement of its rent release.
FrozenPaysOnlyRent ==
    [][\A d \in Deals :
         breaker = "Frozen" /\ dealBalance'[d] < dealBalance[d] =>
            /\ pendingRelease[d] # None /\ pendingRelease'[d] = None
            /\ dealBalance[d] - dealBalance'[d] = pendingRelease[d].amount]_vars

\* A release whose lock is gone: the deal was paid out by a direct release.
Orphaned(d) == pendingRelease[d] # None /\ GetDealState(d).locked # pendingRelease[d].amount

\* An orphaned rent release is never paid and never goes away: no later
\* deposit or request revives it, and the deal takes no new one.
OrphanStays == [][\A d \in Deals : Orphaned(d) => Orphaned(d)']_vars

\* A pending release whose lock is in place is eventually closed, contested or
\* not, resolver or not (or the deal is paid out by a direct release).
ReleaseCloses ==
    \A d \in Deals :
        (pendingRelease[d] # None /\ ~Orphaned(d)) ~> (pendingRelease[d] = None \/ Orphaned(d))

\* What settle_release_inner takes for granted, and answers with
\* MigrationInvariantViolation otherwise: a pending release has its lock.
PendingReleaseBacked == \A d \in Deals : ~Orphaned(d)

TotalOf(balances) == SumFunctionOnSet(balances, Deals)

\* The contract keeps custody of its deals' money as CustodyVault says.
Vault == INSTANCE CustodyVault WITH
            Accounts <- Deals, Total <- TotalOf, book <- dealBalance, holding <- token[Escrow]

\* Every step is a step of the vault or leaves it alone.
ImplementsVault == Vault!VaultSpec
=============================================================================
