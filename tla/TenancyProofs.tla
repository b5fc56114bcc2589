--------------------------- MODULE TenancyProofs ---------------------------
(* Theorems about the contracts of the tenancies, of persons and of the      *)
(* platform: each keeps an invariant of its own, and since they share only   *)
(* the clock, together they keep them all.                                   *)
EXTENDS MCTenancy, LedgerProofs, SequenceTheorems, TLAPS

-----------------------------------------------------------------------------
(* rent_wallet *)

\* Whole periods do not get fewer as time passes.
LEMMA PeriodsGrow ==
    ASSUME NEW length \in Nat \ {0}, NEW s \in Nat, NEW t \in Nat, s <= t
    PROVE  s \div length \in Nat /\ s \div length <= t \div length
<1> DEFINE p == s \div length
           q == t \div length
<1>1. p \in Nat /\ q \in Nat
  OBVIOUS
<1>2. length * p <= s /\ t < length * q + length
  BY SMT
<1>3. ASSUME q + 1 <= p PROVE FALSE
  <2>1. length * (q + 1) <= length * p
    BY <1>1, <1>3
  <2>2. length * (q + 1) = length * q + length
    BY <1>1
  <2> HIDE DEF p, q
  <2>3. length * p \in Int /\ length * q \in Int /\ length * (q + 1) \in Int
    BY <1>1
  <2> QED
    BY <1>2, <2>1, <2>2, <2>3
<1> QED
  BY <1>1, <1>3

\* All that a step of rent_wallet may change.
WalletState == <<now, walletVars>>

\* The types, and that the contract's record of capped debits is the history's.
WalletInv ==
    /\ now \in 0..MaxTime
    /\ walletAdmin \in Callers /\ walletPaused \in BOOLEAN
    /\ wallet \in [Parties -> 0..MaxBalance]
    /\ capDefault \in Nat /\ capOverride \in [Parties -> Nat \cup {None}]
    /\ monthlySpent \in [Parties -> [Months -> Nat]]
    /\ cappedDebits = monthlySpent

\* A new wallet has spent nothing.
LEMMA WalletInvInit == now = 0 /\ WalletInit => WalletInv
<1> SUFFICES ASSUME now = 0, WalletInit PROVE WalletInv
  OBVIOUS
<1>1. MaxTime \in Nat /\ now \in 0..MaxTime
  BY LedgerAssumption
<1>2. wallet \in [Parties -> 0..MaxBalance] /\ monthlySpent \in [Parties -> [Months -> Nat]]
  BY PartiesAssumption DEF WalletInit
<1>3. capDefault \in Nat /\ capOverride \in [Parties -> Nat \cup {None}]
  BY DEF WalletInit
<1> QED
  BY <1>1, <1>2, <1>3 DEF WalletInit, WalletInv, Callers

\* The month that is running is one of the months, and the cap is a number.
LEMMA WalletTerms ==
    ASSUME WalletInv, NEW u \in Parties
    PROVE  Month \in Months /\ EffectiveCap(u) \in Nat /\ monthlySpent[u][Month] \in Nat
<1>1. now \in Nat /\ now <= MaxTime /\ MaxTime \in Nat
  BY LedgerAssumption DEF WalletInv
<1>2. Month \in Nat /\ Month <= MaxTime \div MonthLength /\ MaxTime \div MonthLength \in Nat
  BY <1>1, WalletAssumption, PeriodsGrow DEF Month
<1>3. Month \in Months
  BY <1>2 DEF Months
<1>4. EffectiveCap(u) \in Nat
  BY DEF WalletInv, EffectiveCap
<1> QED
  BY <1>3, <1>4 DEF WalletInv

\* Every entry point of rent_wallet keeps the invariant.
LEMMA WalletInvNext == WalletInv /\ [WalletNext]_WalletState => WalletInv'
<1> SUFFICES ASSUME WalletInv, [WalletNext]_WalletState
             PROVE  WalletInv'
  OBVIOUS
<1>1. Amounts \subseteq Nat \ {0} /\ Caps \subseteq Nat /\ MaxTime \in Nat
  BY PartiesAssumption, WalletAssumption, LedgerAssumption
<1>2. CASE Tick /\ UNCHANGED walletVars
  BY <1>1, <1>2 DEF Tick, walletVars, capVars, WalletInv, Months
<1>3. ASSUME NEW by \in Callers, NEW u \in Parties, NEW amount \in Amounts,
             Credit(by, u, amount), UNCHANGED now
      PROVE  WalletInv'
  BY <1>1, <1>3 DEF Credit, capVars, WalletInv, Months
<1>4. ASSUME NEW by \in Callers, NEW u \in Parties, NEW amount \in Amounts,
             Debit(by, u, amount), UNCHANGED now
      PROVE  WalletInv'
  <2>1. amount \in Nat /\ wallet[u] \in Nat /\ wallet[u] - amount \in 0..MaxBalance
    BY <1>1, <1>4, PartiesAssumption DEF Debit, WalletInv
  <2>2. wallet' \in [Parties -> 0..MaxBalance]
    BY <1>4, <2>1 DEF Debit, WalletInv
  <2>3. Month \in Months /\ monthlySpent[u][Month] + amount \in Nat
    BY <2>1, WalletTerms
  <2>4. CASE Capped(u)
    <3> DEFINE spent == [monthlySpent[u] EXCEPT ![Month] = @ + amount]
    <3>1. spent \in [Months -> Nat]
      BY <2>3 DEF WalletInv
    <3>2. monthlySpent' = [monthlySpent EXCEPT ![u] = spent] /\ cappedDebits' = monthlySpent'
      BY <1>4, <2>4 DEF Debit, WalletInv
    <3> HIDE DEF spent
    <3>3. monthlySpent' \in [Parties -> [Months -> Nat]]
      BY <3>1, <3>2 DEF WalletInv
    <3> QED
      BY <1>4, <2>2, <3>2, <3>3 DEF Debit, capVars, WalletInv, Months
  <2>5. CASE ~Capped(u)
    BY <1>4, <2>2, <2>5 DEF Debit, capVars, WalletInv, Months
  <2> QED
    BY <2>4, <2>5
<1>5. ASSUME NEW by \in Callers, NEW a \in Callers, SetWalletAdmin(by, a), UNCHANGED now
      PROVE  WalletInv'
  BY <1>5 DEF SetWalletAdmin, capVars, WalletInv, Months
<1>6. ASSUME NEW by \in Callers, NEW flag \in BOOLEAN, SetWalletPaused(by, flag), UNCHANGED now
      PROVE  WalletInv'
  BY <1>6 DEF SetWalletPaused, capVars, WalletInv, Months
<1>7. ASSUME NEW by \in Callers, NEW cap \in Caps, SetDefaultMonthlyCap(by, cap), UNCHANGED now
      PROVE  WalletInv'
  BY <1>1, <1>7 DEF SetDefaultMonthlyCap, WalletInv, Months
<1>8. ASSUME NEW by \in Callers, NEW cap \in Caps, NEW u \in Parties,
             SetUserMonthlyCap(by, u, cap), UNCHANGED now
      PROVE  WalletInv'
  BY <1>1, <1>8 DEF SetUserMonthlyCap, WalletInv, Months
<1>9. CASE UNCHANGED WalletState
  BY <1>9 DEF WalletState, walletVars, capVars, WalletInv, Months
<1> QED
  BY <1>2, <1>3, <1>4, <1>5, <1>6, <1>7, <1>8, <1>9 DEF WalletNext

\* A step that lowers a balance is a debit, and a capped debit checks the sum.
LEMMA WalletStepHoldsCap ==
    ASSUME WalletInv, WalletNext, NEW u \in Parties, wallet'[u] < wallet[u], Capped(u)
    PROVE  cappedDebits[u][Month] + wallet[u] - wallet'[u] <= EffectiveCap(u)
<1>1. wallet \in [Parties -> Nat] /\ Amounts \subseteq Nat \ {0}
  BY PartiesAssumption DEF WalletInv
<1>2. wallet' # wallet
  BY <1>1
<1>3. ASSUME NEW by \in Callers, NEW v \in Parties, NEW amount \in Amounts, Credit(by, v, amount)
      PROVE  FALSE
  <2>1. wallet' = [wallet EXCEPT ![v] = @ + amount] /\ amount \in Nat
    BY <1>1, <1>3 DEF Credit
  <2>2. wallet[u] \in Nat /\ wallet[v] \in Nat /\ wallet'[u] = IF u = v THEN wallet[u] + amount ELSE wallet[u]
    BY <1>1, <2>1
  <2> QED
    BY <2>1, <2>2
<1>4. ASSUME NEW by \in Callers, NEW v \in Parties, NEW amount \in Amounts, Debit(by, v, amount)
      PROVE  cappedDebits[u][Month] + wallet[u] - wallet'[u] <= EffectiveCap(u)
  <2>1. /\ wallet' = [wallet EXCEPT ![v] = @ - amount] /\ amount \in Nat
        /\ WithinCap(v, amount)
    BY <1>1, <1>4 DEF Debit
  <2>2. u = v /\ wallet[u] \in Nat /\ wallet'[u] = wallet[u] - amount
    BY <1>1, <1>2, <2>1
  <2>3. monthlySpent[u][Month] + amount <= EffectiveCap(u)
    BY <2>1, <2>2 DEF WithinCap
  <2>4. cappedDebits[u][Month] = monthlySpent[u][Month] /\ monthlySpent[u][Month] \in Nat
    BY WalletTerms DEF WalletInv
  <2>5. cappedDebits[u][Month] + wallet[u] - wallet'[u] = monthlySpent[u][Month] + amount
    BY <2>1, <2>2, <2>4
  <2> QED
    BY <2>3, <2>5
<1>5. \E by \in Callers, v \in Parties, amount \in Amounts :
         Credit(by, v, amount) \/ Debit(by, v, amount)
  BY <1>2 DEF WalletNext, walletVars, SetWalletAdmin, SetWalletPaused, SetDefaultMonthlyCap,
       SetUserMonthlyCap
<1> QED
  BY <1>3, <1>4, <1>5

\* For all wallets, caps and lengths of a month: the debits of a month under a cap
\* never exceed the cap in force at any of them (rent_wallet, monthly_cap.rs).
THEOREM MonthlyCapsHold == WalletSpec => MonthlyCapHolds
<1>1. WalletInv /\ [WalletNext]_WalletState
        => [\A u \in Parties : wallet'[u] < wallet[u] /\ Capped(u) =>
              cappedDebits[u][Month] + wallet[u] - wallet'[u] <= EffectiveCap(u)]_walletVars
  BY WalletStepHoldsCap DEF WalletState
<1> QED
  BY <1>1, WalletInvInit, WalletInvNext, PTL DEF WalletSpec, WalletState, MonthlyCapHolds

-----------------------------------------------------------------------------
(* contract_access *)

\* Roles and delegations are well typed.
LEMMA AccessTypes == AccessTypeOK /\ [AccessNext]_<<now, accessVars>> => AccessTypeOK'
<1> SUFFICES ASSUME AccessTypeOK, [AccessNext]_<<now, accessVars>>
             PROVE  AccessTypeOK'
  OBVIOUS
<1>1. ASSUME NEW by, NEW a \in Callers, NEW role \in RolesGiven, ProposeAssignRole(by, a, role)
      PROVE  AccessTypeOK'
  BY <1>1, AccessAssumption DEF ProposeAssignRole, AccessTypeOK, Callers
<1>2. ASSUME NEW by, NEW a \in Callers, ConfirmAssignRole(by, a)
      PROVE  AccessTypeOK'
  BY <1>2 DEF ConfirmAssignRole, AccessTypeOK, Callers, Roles
<1>3. ASSUME NEW by, NEW a \in Callers, ProposeRevokeRole(by, a)
      PROVE  AccessTypeOK'
  BY <1>3 DEF ProposeRevokeRole, AccessTypeOK, Callers
<1>4. ASSUME NEW by, NEW a \in Callers, ConfirmRevokeRole(by, a)
      PROVE  AccessTypeOK'
  BY <1>4 DEF ConfirmRevokeRole, AccessTypeOK, Callers
<1>5. ASSUME NEW by, NEW a \in Callers, RevokeDelegation(by, a)
      PROVE  AccessTypeOK'
  BY <1>5 DEF RevokeDelegation, AccessTypeOK, Callers
<1>6. ASSUME NEW by \in Callers, NEW a \in Callers, NEW p \in Permissions,
             DelegatePermission(by, a, p)
      PROVE  AccessTypeOK'
  BY <1>6 DEF DelegatePermission, AccessTypeOK, Callers
<1>7. CASE UNCHANGED <<now, accessVars>>
  BY <1>7 DEF accessVars, AccessTypeOK, Callers
<1> QED
  BY <1>1, <1>2, <1>3, <1>4, <1>5, <1>6, <1>7 DEF AccessNext

\* Where a confirmation changes one role only, what anybody gains or keeps by
\* delegation comes through that role.
LEMMA OneRoleReaches ==
    ASSUME AccessTypeOK, UNCHANGED delegated, NEW s \in Callers, NEW p \in Permissions,
           NEW a \in Callers, \A c \in Callers : c # s => roleOf'[c] = roleOf[c]
    PROVE  /\ HasPermission(a, p)' /\ ~HasPermission(a, p) =>
                a = s \/ (delegated[a] # None /\ delegated[a].delegator = s)
           /\ ~RoleGrants(s, p)' /\ delegated[a] # None /\ delegated[a].delegator = s =>
                (HasPermission(a, p)' => RoleGrants(a, p)')
<1>1. ASSUME NEW c \in Callers, c # s
      PROVE  RoleGrants(c, p)' = RoleGrants(c, p)
  BY <1>1 DEF RoleGrants, Matrix
<1>2. delegated[a] # None => delegated[a].delegator \in Callers
  BY DEF AccessTypeOK
<1>3. delegated'[a] = delegated[a]
  OBVIOUS
<1>4. /\ HasPermission(a, p)' = (RoleGrants(a, p)' \/ HasDelegation(a, p)')
      /\ HasPermission(a, p) = (RoleGrants(a, p) \/ HasDelegation(a, p))
  BY DEF HasPermission
<1>5. ASSUME HasDelegation(a, p)', ~HasDelegation(a, p)
      PROVE  delegated[a] # None /\ delegated[a].delegator = s
  BY <1>1, <1>2, <1>3, <1>5 DEF HasDelegation, RoleGrants, Matrix
<1>6. ASSUME ~RoleGrants(s, p)', delegated[a].delegator = s
      PROVE  ~HasDelegation(a, p)'
  BY <1>3, <1>6 DEF HasDelegation, RoleGrants, Matrix
<1> QED
  BY <1>1, <1>4, <1>5, <1>6

\* Who gains permissions by a step has the new role, or one delegated by its holder;
\* who loses them by a revocation, too.
LEMMA AccessStepReaches ==
    ASSUME AccessTypeOK, AccessNext, NEW s \in Callers, roleOf'[s] # roleOf[s],
           NEW p \in Permissions, NEW a \in Callers
    PROVE  /\ HasPermission(a, p)' /\ ~HasPermission(a, p) =>
                a = s \/ (delegated[a] # None /\ delegated[a].delegator = s)
           /\ ~RoleGrants(s, p)' /\ delegated[a] # None /\ delegated[a].delegator = s =>
                (HasPermission(a, p)' => RoleGrants(a, p)')
<1>1. PICK by \in Callers \cup {SecondApprover}, subject \in Callers :
         ConfirmAssignRole(by, subject) \/ ConfirmRevokeRole(by, subject)
  BY DEF AccessNext, ProposeAssignRole, ProposeRevokeRole, RevokeDelegation, DelegatePermission
<1>2. UNCHANGED delegated
  BY <1>1 DEF ConfirmAssignRole, ConfirmRevokeRole
<1>3. \A c \in Callers : c # subject => roleOf'[c] = roleOf[c]
  BY <1>1 DEF ConfirmAssignRole, ConfirmRevokeRole, AccessTypeOK
<1>4. \A c \in Callers : c # s => roleOf'[c] = roleOf[c]
  BY <1>3
<1> QED
  BY <1>2, <1>4, OneRoleReaches

\* For all callers, permissions and matrices' roles: changing a role changes the
\* permissions of its holder and of those he delegated to, at once and of nobody
\* else (has_delegation asks for the delegator's role whenever it is used).
THEOREM RevocationsReach == AccessSpec => RevocationReaches
<1>1. now = 0 /\ AccessInit => AccessTypeOK
  BY DEF AccessInit, AccessTypeOK, Roles
<1>2. AccessTypeOK /\ [AccessNext]_<<now, accessVars>>
        => [\A s \in Callers : roleOf'[s] # roleOf[s] => \A p \in Permissions, a \in Callers :
              /\ HasPermission(a, p)' /\ ~HasPermission(a, p) =>
                   a = s \/ (delegated[a] # None /\ delegated[a].delegator = s)
              /\ ~RoleGrants(s, p)' /\ delegated[a] # None /\ delegated[a].delegator = s =>
                   (HasPermission(a, p)' => RoleGrants(a, p)')]_accessVars
  BY AccessStepReaches
<1> QED
  BY <1>1, <1>2, AccessTypes, PTL DEF AccessSpec, RevocationReaches

-----------------------------------------------------------------------------
(* schema_registry *)

\* The id a version is stored under is a number.
LEMMA IdsAreNumbers == \A v \in Versions : VersionId(v) \in Nat
<1> TAKE v \in Versions
<1>1. v[1] \in Nat /\ v[2] \in Nat /\ v[3] \in Nat /\ PartLimit \in Nat
  BY SchemaAssumption
<1>2. v[1] * PartLimit \in Nat /\ v[2] * PartLimit \in Nat
  BY <1>1
<1>3. v[1] * PartLimit * PartLimit \in Nat
  BY <1>1, <1>2
<1> QED
  BY <1>1, <1>2, <1>3 DEF VersionId

\* The chain of receipts, and the order of the ids along it: all that was migrated
\* from is below where the registry is, and below all that was migrated to since.
SchemaInv ==
    /\ schemaVersion \in Versions /\ migrated \in Seq(Migrations)
    /\ transitions \subseteq Ids \X Ids
    /\ migrated = <<>> => schemaVersion = InitialVersion
    /\ migrated # <<>> => /\ migrated[1].source = InitialVersion
                          /\ migrated[Len(migrated)].target = schemaVersion
    /\ \A i \in 1..Len(migrated) :
         VersionId(migrated[i].source) < VersionId(schemaVersion)
    /\ \A i, j \in 1..Len(migrated) :
         /\ j = i + 1 => migrated[j].source = migrated[i].target
         /\ i <= j => VersionId(migrated[i].source) < VersionId(migrated[j].target)

\* Every entry point of schema_registry keeps the invariant.
LEMMA SchemaInvNext == SchemaInv /\ [SchemaNext]_<<now, schemaVars>> => SchemaInv'
<1> SUFFICES ASSUME SchemaInv, [SchemaNext]_<<now, schemaVars>>
             PROVE  SchemaInv'
  OBVIOUS
<1>1. ASSUME NEW source \in Versions, NEW target \in Versions, ExecuteMigration(source, target)
      PROVE  SchemaInv'
  <2> DEFINE n == Len(migrated)
             m == [source |-> source, target |-> target]
  <2>1. /\ migrated' = Append(migrated, m) /\ schemaVersion' = target /\ schemaVersion = source
        /\ VersionId(source) < VersionId(target)
    BY <1>1, IdsAreNumbers DEF ExecuteMigration, InvariantsPass
  <2>2. migrated \in Seq(Migrations) /\ n \in Nat /\ m \in Migrations
    BY DEF SchemaInv, Migrations
  <2>3. /\ migrated' \in Seq(Migrations) /\ Len(migrated') = n + 1 /\ migrated' # <<>>
        /\ migrated'[n + 1] = m /\ \A i \in 1..n : migrated'[i] = migrated[i]
    BY <2>1, <2>2
  <2>4. VersionId(source) \in Nat /\ VersionId(target) \in Nat
    BY IdsAreNumbers
  <2>5. \A i \in 1..n : /\ VersionId(migrated[i].source) \in Nat
                        /\ VersionId(migrated[i].source) < VersionId(source)
    <3> TAKE i \in 1..n
    <3>1. migrated[i] \in Migrations
      BY <2>2
    <3>2. migrated[i].source \in Versions
      BY <3>1 DEF Migrations
    <3> QED
      BY <2>1, <3>2, IdsAreNumbers DEF SchemaInv
  <2>6. m.source = source /\ m.target = target
    OBVIOUS
  <2> HIDE DEF m, n
  <2>7. migrated'[1].source = InitialVersion
    <3>1. CASE n = 0
      <4>1. migrated = <<>>
        BY <2>2, <3>1 DEF n
      <4> QED
        BY <4>1, <3>1, <2>1, <2>3, <2>6 DEF SchemaInv
    <3>2. CASE n > 0
      BY <2>2, <2>3, <3>2 DEF SchemaInv, n
    <3> QED
      BY <2>2, <3>1, <3>2
  <2>8. \A i \in 1..n + 1 : VersionId(migrated'[i].source) < VersionId(target)
    <3> TAKE i \in 1..n + 1
    <3>1. CASE i = n + 1
      BY <2>1, <2>3, <2>6, <3>1
    <3>2. CASE i # n + 1
      <4>1. i \in 1..n
        BY <2>2, <3>2
      <4> QED
        BY <4>1, <2>1, <2>3, <2>4, <2>5
    <3> QED
      BY <3>1, <3>2
  <2>9. \A i, j \in 1..n + 1 :
           /\ j = i + 1 => migrated'[j].source = migrated'[i].target
           /\ i <= j => VersionId(migrated'[i].source) < VersionId(migrated'[j].target)
    <3> TAKE i, j \in 1..n + 1
    <3>1. CASE j = n + 1
      <4>1. VersionId(migrated'[i].source) < VersionId(migrated'[j].target)
        BY <2>3, <2>6, <2>8, <3>1
      <4>2. ASSUME j = i + 1 PROVE migrated'[j].source = migrated'[i].target
        <5>1. i = n /\ i \in 1..n /\ n > 0
          BY <2>2, <3>1, <4>2
        <5>2. migrated[n].target = schemaVersion
          BY <2>2, <5>1 DEF SchemaInv, n
        <5> QED
          BY <2>1, <2>3, <2>6, <3>1, <5>1, <5>2
      <4> QED
        BY <4>1, <4>2
    <3>2. CASE j # n + 1
      <4>1. j \in 1..n /\ (i <= j => i \in 1..n)
        BY <2>2, <3>2
      <4>2. j = i + 1 => i <= j
        BY <2>2
      <4> QED
        BY <4>1, <4>2, <2>3 DEF SchemaInv, n
    <3> QED
      BY <3>1, <3>2
  <2>10. transitions' \subseteq Ids \X Ids
    BY <1>1 DEF ExecuteMigration, SchemaInv
  <2> QED
    BY <1>1, <2>1, <2>3, <2>7, <2>8, <2>9, <2>6, <2>10 DEF SchemaInv
<1>2. ASSUME NEW source \in Versions, NEW target \in Versions, NEW by,
             RegisterTransition(by, source, target)
      PROVE  SchemaInv'
  <2>1. transitions' \subseteq Ids \X Ids
    BY <1>2 DEF RegisterTransition, PairOf, Ids, SchemaInv
  <2> QED
    BY <1>2, <2>1 DEF RegisterTransition, SchemaInv
<1>3. CASE UNCHANGED <<now, schemaVars>>
  BY <1>3 DEF schemaVars, SchemaInv
<1> QED
  BY <1>1, <1>2, <1>3 DEF SchemaNext

\* For all sets of versions, and whatever version_id maps to one number: the
\* receipts are one unbroken history that never returns to a version
\* (migrate_to, check_invariants).
THEOREM MigrationsStayChained == SchemaSpec => []MigrationsChain
<1>1. now = 0 /\ SchemaInit => SchemaInv
  BY SchemaAssumption DEF SchemaInit, SchemaInv
<1>2. SchemaInv => MigrationsChain
  <2> SUFFICES ASSUME SchemaInv PROVE MigrationsChain
    OBVIOUS
  <2>1. migrated \in Seq(Migrations) /\ DOMAIN migrated = 1..Len(migrated)
    BY DEF SchemaInv
  <2>2. ASSUME NEW i \in 1..Len(migrated), NEW j \in 1..Len(migrated), i <= j
        PROVE  migrated[j].target # migrated[i].source
    <3>1. migrated[i] \in Migrations
      BY <2>1
    <3>2. migrated[i].source \in Versions /\ VersionId(migrated[i].source) \in Nat
      BY <3>1, IdsAreNumbers DEF Migrations
    <3>3. VersionId(migrated[i].source) < VersionId(migrated[j].target)
      BY <2>2 DEF SchemaInv
    <3> QED
      BY <3>2, <3>3
  <2> QED
    BY <2>1, <2>2 DEF SchemaInv, MigrationsChain
<1> QED
  BY <1>1, <1>2, SchemaInvNext, PTL DEF SchemaSpec

-----------------------------------------------------------------------------
(* inspector_bond *)

\* The rate of a tier is a number.
LEMMA TierIsNat ==
    ASSUME InspectorTypeOK, NEW severity \in Severities
    PROVE  TierBps(severity) \in Nat
<1>1. penaltyBps \in Nat
  BY DEF InspectorTypeOK
<1>2. (penaltyBps * 25) \div 100 \in Nat /\ (penaltyBps * 50) \div 100 \in Nat
  BY <1>1
<1> QED
  BY <1>1, <1>2 DEF TierBps, Severities

\* A penalty never exceeds the bond it is computed from.
LEMMA PenaltyFits ==
    ASSUME InspectorTypeOK, NEW i \in Inspectors, bond[i] # None, NEW bps \in Nat
    PROVE  Penalty(i, bps) \in Nat /\ Penalty(i, bps) <= bond[i].amount
<1>1. bond[i].amount \in Nat /\ FullBps \in Nat \ {0}
  BY LedgerAssumption DEF InspectorTypeOK, Bonds
<1> DEFINE share == (bond[i].amount * bps) \div FullBps
<1>2. bond[i].amount * bps \in Nat
  BY <1>1
<1>3. share \in Nat
  BY <1>1, <1>2
<1> HIDE DEF share
<1> QED
  BY <1>1, <1>3 DEF Penalty, AtMost, share

\* What a slash does to a bond, directly or by a proposal.
LEMMA SlashedTerms ==
    ASSUME InspectorTypeOK, NEW i \in Inspectors, bond[i] # None, NEW amount \in Nat,
           SlashedBy(i, amount)
    PROVE  /\ bond' \in [Inspectors -> Bonds \cup {None}]
           /\ \A j \in Inspectors : j # i => bond'[j] = bond[j]
           /\ bond'[i] # None /\ bond'[i].slashes = bond[i].slashes + 1
           /\ bond[i].amount - bond'[i].amount <= amount
           /\ amount <= bond[i].amount => bond[i].amount - bond'[i].amount = amount
<1>1. bond \in [Inspectors -> Bonds \cup {None}] /\ bond[i] \in Bonds
  BY DEF InspectorTypeOK
<1>2. bond[i].amount \in Nat /\ bond[i].slashes \in Nat
  BY <1>1 DEF Bonds
<1> DEFINE loss == AtMost(amount, bond[i].amount)
           after == [bond[i] EXCEPT !.amount = @ - loss, !.slashes = @ + 1]
<1>3. loss \in Nat /\ loss <= bond[i].amount /\ loss <= amount /\ (amount <= bond[i].amount => loss = amount)
  BY <1>2 DEF AtMost
<1>4. bond' = [bond EXCEPT ![i] = after]
  BY DEF SlashedBy
<1> HIDE DEF loss
<1>5. bond[i].amount - loss \in Nat /\ bond[i].slashes + 1 \in Nat
  BY <1>2, <1>3
<1>6. after.amount = bond[i].amount - loss /\ after.slashes = bond[i].slashes + 1
  BY <1>1 DEF Bonds
<1>7. after \in Bonds
  BY <1>1, <1>5 DEF Bonds
<1> HIDE DEF after
<1>8. bond'[i] = after /\ after # None
  BY <1>1, <1>4, <1>7, InspectorAssumption
<1>9. bond' \in [Inspectors -> Bonds \cup {None}] /\ \A j \in Inspectors : j # i => bond'[j] = bond[j]
  BY <1>1, <1>4, <1>7
<1>10. bond[i].amount - bond'[i].amount = loss
  BY <1>2, <1>3, <1>6, <1>8
<1> QED
  BY <1>3, <1>6, <1>8, <1>9, <1>10

\* The types, and that time is a number.
InspectorInv == now \in Nat /\ InspectorTypeOK

\* What a step may do to the bond of i.
BondChange(i) ==
    \/ bond'[i] = None /\ now >= bond[i].lockedUntil
    \/ bond'[i] # None /\ bond'[i].amount > bond[i].amount
    \/ /\ bond'[i] # None /\ bond'[i].slashes = bond[i].slashes + 1
       /\ pendingSlash' = pendingSlash =>
            bond[i].amount - bond'[i].amount = Penalty(i, penaltyBps)
       /\ pendingSlash' # pendingSlash => \E id \in FinalizedNow(i) :
            /\ now >= pendingSlash[id].deadline
            /\ bond[i].amount - bond'[i].amount <= pendingSlash[id].penalty

\* Staking a bond keeps the invariant.
LEMMA StakeKeeps ==
    ASSUME InspectorInv, NEW i \in Inspectors, NEW amount \in Amounts, StakeBond(i, amount),
           UNCHANGED now
    PROVE  /\ InspectorInv'
           /\ \A j \in Inspectors : bond[j] # None /\ bond'[j] # bond[j] => BondChange(j)
<1> DEFINE held == IF bond[i] = None THEN 0 ELSE bond[i].amount
           counted == IF bond[i] = None THEN 0 ELSE bond[i].slashes
           after == [amount |-> held + amount, lockedUntil |-> now + lockTime, slashes |-> counted]
<1>1. bond \in [Inspectors -> Bonds \cup {None}] /\ now \in Nat /\ lockTime \in Nat
      /\ amount \in Nat /\ amount > 0
  BY PartiesAssumption DEF InspectorInv, InspectorTypeOK
<1>2. held \in Nat /\ counted \in Nat
  BY <1>1 DEF Bonds
<1>3. bond' = [bond EXCEPT ![i] = after]
  BY DEF StakeBond
<1> HIDE DEF held, counted
<1>4. after \in Bonds /\ after.amount = held + amount
  BY <1>1, <1>2 DEF Bonds
<1> HIDE DEF after
<1>5. bond'[i] = after /\ after # None
  BY <1>1, <1>3, <1>4, InspectorAssumption
<1>6. InspectorInv'
  BY <1>1, <1>3, <1>4 DEF InspectorInv, InspectorTypeOK, StakeBond, inspectorTerms
<1>7. ASSUME NEW j \in Inspectors, bond[j] # None, bond'[j] # bond[j]
      PROVE  BondChange(j)
  <2>1. j = i
    BY <1>1, <1>3, <1>7
  <2>2. held = bond[i].amount
    BY <1>7, <2>1 DEF held
  <2>3. bond'[i].amount > bond[i].amount
    BY <1>1, <1>2, <1>4, <1>5, <2>2
  <2> QED
    BY <1>5, <2>1, <2>3 DEF BondChange
<1> QED
  BY <1>6, <1>7

\* Unstaking a bond keeps the invariant.
LEMMA UnstakeKeeps ==
    ASSUME InspectorInv, NEW i \in Inspectors, UnstakeBond(i), UNCHANGED now
    PROVE  /\ InspectorInv'
           /\ \A j \in Inspectors : bond[j] # None /\ bond'[j] # bond[j] => BondChange(j)
<1>1. bond' \in [Inspectors -> Bonds \cup {None}]
  BY DEF UnstakeBond, InspectorInv, InspectorTypeOK
<1>2. InspectorInv'
  BY <1>1 DEF UnstakeBond, InspectorInv, InspectorTypeOK, inspectorTerms
<1>3. ASSUME NEW j \in Inspectors, bond[j] # None, bond'[j] # bond[j]
      PROVE  BondChange(j)
  BY <1>3 DEF UnstakeBond, InspectorInv, InspectorTypeOK, BondChange
<1> QED
  BY <1>2, <1>3

\* A direct slash takes no more than its penalty.
LEMMA SlashKeeps ==
    ASSUME InspectorInv, NEW by, NEW i \in Inspectors, SlashInspector(by, i), UNCHANGED now
    PROVE  /\ InspectorInv'
           /\ \A j \in Inspectors : bond[j] # None /\ bond'[j] # bond[j] => BondChange(j)
<1>1. InspectorTypeOK /\ penaltyBps \in Nat /\ bond[i] # None
  BY DEF InspectorInv, InspectorTypeOK, SlashInspector
<1>2. Penalty(i, penaltyBps) \in Nat /\ Penalty(i, penaltyBps) <= bond[i].amount
  BY <1>1, PenaltyFits
<1>3. SlashedBy(i, Penalty(i, penaltyBps)) /\ pendingSlash' = pendingSlash
  BY DEF SlashInspector
<1>4. /\ bond' \in [Inspectors -> Bonds \cup {None}]
      /\ \A j \in Inspectors : j # i => bond'[j] = bond[j]
      /\ bond'[i] # None /\ bond'[i].slashes = bond[i].slashes + 1
      /\ bond[i].amount - bond'[i].amount = Penalty(i, penaltyBps)
  BY <1>1, <1>2, <1>3, SlashedTerms
<1>5. InspectorInv'
  BY <1>4 DEF SlashInspector, InspectorInv, InspectorTypeOK, inspectorTerms
<1> QED
  BY <1>3, <1>4, <1>5 DEF BondChange

\* Proposing a slash takes nothing yet.
LEMMA ProposeKeeps ==
    ASSUME InspectorInv, NEW by, NEW i \in Inspectors, NEW severity \in Severities,
           ProposeInspectorSlash(by, i, severity), UNCHANGED now
    PROVE  InspectorInv' /\ bond' = bond
<1> DEFINE proposal == [inspector |-> i, penalty |-> Penalty(i, TierBps(severity)),
                        deadline |-> now + inspectorWindow, status |-> "Pending"]
<1>1. Penalty(i, TierBps(severity)) \in Nat
  BY TierIsNat, PenaltyFits DEF InspectorInv, ProposeInspectorSlash
<1>2. proposal \in PendingSlashes
  BY <1>1 DEF PendingSlashes, InspectorInv, InspectorTypeOK
<1>3. pendingSlash' = Append(pendingSlash, proposal)
  BY DEF ProposeInspectorSlash
<1> HIDE DEF proposal
<1>4. pendingSlash' \in Seq(PendingSlashes)
  BY <1>2, <1>3 DEF InspectorInv, InspectorTypeOK
<1> QED
  BY <1>4 DEF ProposeInspectorSlash, InspectorInv, InspectorTypeOK, inspectorTerms

\* What a resolution leaves of a bond is well typed.
LEMMA ResolutionTypes ==
    ASSUME InspectorTypeOK, NEW id \in DOMAIN pendingSlash, NEW status \in {"Finalized", "Cancelled"}
    PROVE  /\ [pendingSlash EXCEPT ![id].status = status] \in Seq(PendingSlashes)
           /\ pendingSlash[id] \in PendingSlashes
           /\ [pendingSlash EXCEPT ![id].status = status][id].status = status
<1>1. pendingSlash \in Seq(PendingSlashes)
  BY DEF InspectorTypeOK
<1>2. pendingSlash[id] \in PendingSlashes
  BY <1>1
<1> DEFINE resolved == [pendingSlash[id] EXCEPT !.status = status]
<1>3. resolved \in PendingSlashes /\ resolved.status = status
  BY <1>2 DEF PendingSlashes
<1> HIDE DEF resolved
<1>4. [pendingSlash EXCEPT ![id] = resolved] \in Seq(PendingSlashes)
  BY <1>1, <1>3
<1> QED
  BY <1>1, <1>2, <1>3, <1>4 DEF resolved

\* Finalizing takes no more than was proposed.
LEMMA FinalizeKeeps ==
    ASSUME InspectorInv, NEW by, NEW id \in DOMAIN pendingSlash,
           FinalizeInspectorSlash(by, id), UNCHANGED now
    PROVE  /\ InspectorInv'
           /\ \A j \in Inspectors : bond[j] # None /\ bond'[j] # bond[j] => BondChange(j)
<1> DEFINE i == pendingSlash[id].inspector
           penalty == pendingSlash[id].penalty
<1>1. InspectorTypeOK
  BY DEF InspectorInv
<1>2. /\ pendingSlash' \in Seq(PendingSlashes) /\ pendingSlash[id] \in PendingSlashes
      /\ pendingSlash'[id].status = "Finalized"
  BY <1>1, ResolutionTypes DEF FinalizeInspectorSlash
<1>3. i \in Inspectors /\ penalty \in Nat
  BY <1>2 DEF PendingSlashes
<1>4. bond[i] # None /\ SlashedBy(i, penalty) /\ pendingSlash[id].status = "Pending"
      /\ now >= pendingSlash[id].deadline
  BY DEF FinalizeInspectorSlash, Unresolved
<1>5. /\ bond' \in [Inspectors -> Bonds \cup {None}]
      /\ \A j \in Inspectors : j # i => bond'[j] = bond[j]
      /\ bond'[i] # None /\ bond'[i].slashes = bond[i].slashes + 1
      /\ bond[i].amount - bond'[i].amount <= penalty
  BY <1>1, <1>3, <1>4, SlashedTerms
<1>6. InspectorInv'
  BY <1>2, <1>5 DEF FinalizeInspectorSlash, InspectorInv, InspectorTypeOK, inspectorTerms
<1>7. pendingSlash' # pendingSlash
  BY <1>2, <1>4
<1>8. id \in FinalizedNow(i)
  BY <1>2, <1>4 DEF FinalizedNow
<1>9. BondChange(i)
  BY <1>4, <1>5, <1>7, <1>8 DEF BondChange
<1> QED
  BY <1>5, <1>6, <1>9

\* Cancelling takes nothing.
LEMMA CancelKeeps ==
    ASSUME InspectorInv, NEW by, NEW id \in DOMAIN pendingSlash,
           CancelInspectorSlash(by, id), UNCHANGED now
    PROVE  InspectorInv' /\ bond' = bond
<1>1. pendingSlash' \in Seq(PendingSlashes)
  BY ResolutionTypes DEF InspectorInv, CancelInspectorSlash
<1> QED
  BY <1>1 DEF CancelInspectorSlash, InspectorInv, InspectorTypeOK, inspectorTerms

\* Every entry point of inspector_bond keeps the invariant.
LEMMA InspectorStep ==
    InspectorInv /\ [InspectorNext]_<<now, inspectorVars>> =>
        /\ InspectorInv'
        /\ \A i \in Inspectors : bond[i] # None /\ bond'[i] # bond[i] => BondChange(i)
<1> SUFFICES ASSUME InspectorInv, [InspectorNext]_<<now, inspectorVars>>
             PROVE  /\ InspectorInv'
                    /\ \A i \in Inspectors : bond[i] # None /\ bond'[i] # bond[i] => BondChange(i)
  OBVIOUS
<1>1. CASE Tick /\ UNCHANGED inspectorVars
  <2>1. now' \in Nat
    BY <1>1 DEF Tick, InspectorInv
  <2> QED
    BY <1>1, <2>1 DEF InspectorInv, InspectorTypeOK, inspectorVars, inspectorTerms
<1>2. ASSUME NEW by, NEW amount \in MinBonds, SetMinBond(by, amount), UNCHANGED now
      PROVE  InspectorInv' /\ bond' = bond
  BY <1>2, InspectorAssumption DEF SetMinBond, InspectorInv, InspectorTypeOK, inspectorTerms
<1>3. ASSUME NEW by, NEW w \in ChallengeWindows, SetInspectorWindow(by, w), UNCHANGED now
      PROVE  InspectorInv' /\ bond' = bond
  BY <1>3, InspectorAssumption DEF SetInspectorWindow, InspectorInv, InspectorTypeOK, inspectorTerms
<1>4. ASSUME NEW by, NEW flag \in BOOLEAN, SetInspectorsPaused(by, flag), UNCHANGED now
      PROVE  InspectorInv' /\ bond' = bond
  BY <1>4 DEF SetInspectorsPaused, InspectorInv, InspectorTypeOK, inspectorTerms
<1>5. CASE UNCHANGED <<now, inspectorVars>>
  BY <1>5 DEF InspectorInv, InspectorTypeOK, inspectorVars, inspectorTerms
<1> QED
  BY <1>1, <1>2, <1>3, <1>4, <1>5, StakeKeeps, UnstakeKeeps, SlashKeeps, ProposeKeeps,
     FinalizeKeeps, CancelKeeps DEF InspectorNext

\* There are no bonds and no proposals yet.
LEMMA InspectorInvInit == now = 0 /\ InspectorInit => InspectorInv
<1>1. InspectorInit => /\ bond \in [Inspectors -> Bonds \cup {None}]
                       /\ pendingSlash \in Seq(PendingSlashes)
  BY DEF InspectorInit
<1>2. InspectorInit => /\ inspectorsPaused \in BOOLEAN /\ minBond \in Nat
                       /\ penaltyBps \in Nat /\ lockTime \in Nat /\ inspectorWindow \in Nat
  BY InspectorAssumption DEF InspectorInit
<1> QED
  BY <1>1, <1>2 DEF InspectorInv, InspectorTypeOK

\* For all inspectors, penalties, windows and any number of overlapping proposals:
\* money leaves a bond only unlocked and whole, by a direct slash of exactly its
\* penalty, or by a pending proposal that is due and that costs no more than it
\* announced (unstake_bond, slash_bond, finalize_slash).
THEOREM BondLossesJustified == InspectorSpec => BondLossJustified
<1>1. now = 0 /\ InspectorInit => InspectorInv
  BY InspectorInvInit
<1>2. InspectorInv /\ [InspectorNext]_<<now, inspectorVars>> => InspectorInv'
  BY InspectorStep
<1>3. InspectorInv /\ [InspectorNext]_<<now, inspectorVars>>
        => [\A i \in Inspectors : bond[i] # None /\ bond'[i] # bond[i] => BondChange(i)]_inspectorVars
  BY InspectorStep
<1> QED
  BY <1>1, <1>2, <1>3, PTL DEF InspectorSpec, BondLossJustified, BondChange

-----------------------------------------------------------------------------
(* vesting_schedule *)

\* What is vested is part of the total, and grows with time.
LEMMA VestedGrows ==
    ASSUME NEW s \in VestingSchedules, s.start < s.end, NEW t \in Times, NEW u \in Times, t <= u
    PROVE  /\ Vested(s, t) \in 0..s.total /\ Vested(s, t) <= Vested(s, u)
           /\ Vested(s, u) \in 0..s.total
<1>1. /\ s.total \in Nat /\ s.start \in Nat /\ s.end \in Nat /\ t \in Nat /\ u \in Nat
  <2>1. s.total \in Amounts /\ s.start \in Times /\ s.end \in Times
    BY DEF VestingSchedules
  <2>2. Times \subseteq Nat
    BY LedgerAssumption DEF Times
  <2> QED
    BY <2>1, <2>2, PartiesAssumption
<1> DEFINE length == s.end - s.start
           share(m) == ((m - s.start) * s.total) \div length
<1>2. length \in Nat \ {0}
  BY <1>1
<1>3. ASSUME NEW m \in Nat, m >= s.start, m < s.end PROVE share(m) \in 0..s.total
  <2> DEFINE a == m - s.start
             k == s.total
  <2>1. a \in 0..length /\ k \in Nat
    BY <1>1, <1>3
  <2> HIDE DEF a, k, length
  <2>2. (k * a) \div length \in 0..k
    BY <1>2, <2>1, PartOfWhole
  <2>3. k * a = a * k
    BY <1>2, <2>1
  <2> QED
    BY <2>2, <2>3 DEF a, k
<1>4. ASSUME NEW m \in Times PROVE Vested(s, m) \in 0..s.total
  <2>1. m \in Nat
    BY LedgerAssumption DEF Times
  <2> HIDE DEF share
  <2>2. Vested(s, m) = IF m < s.start THEN 0 ELSE IF m >= s.end THEN s.total ELSE share(m)
    BY DEF Vested, share
  <2> QED
    BY <1>1, <1>3, <2>1, <2>2
<1>5. CASE t < s.start \/ u >= s.end
  <2>1. Vested(s, t) \in 0..s.total /\ Vested(s, u) \in 0..s.total
    BY <1>4
  <2>2. t < s.start => Vested(s, t) = 0
    BY DEF Vested
  <2>3. u >= s.end => Vested(s, u) = s.total
    BY <1>1 DEF Vested
  <2> QED
    BY <1>1, <1>5, <2>1, <2>2, <2>3
<1>6. CASE ~(t < s.start) /\ ~(u >= s.end)
  <2>1. Vested(s, t) = share(t) /\ Vested(s, u) = share(u)
    BY <1>1, <1>6 DEF Vested
  <2> DEFINE x == (t - s.start) * s.total
             y == (u - s.start) * s.total
  <2>2. x \in Nat /\ y \in Nat /\ x <= y
    <3> DEFINE a == t - s.start
               b == u - s.start
               k == s.total
    <3>1. a \in Nat /\ b \in Nat /\ a <= b /\ k \in Nat
      BY <1>1, <1>6
    <3> HIDE DEF a, b, k
    <3>2. (b - a) * k \in Nat /\ (b - a) * k = b * k - a * k /\ a * k \in Nat /\ b * k \in Nat
      BY <3>1
    <3>3. a * k <= b * k
      BY <3>2
    <3> QED
      BY <3>2, <3>3 DEF a, b, k
  <2> HIDE DEF x, y, length
  <2>3. x \div length <= y \div length
    BY <1>2, <2>2, PeriodsGrow
  <2>4. share(t) <= share(u)
    BY <2>3 DEF x, y
  <2> HIDE DEF share
  <2> QED
    BY <1>4, <2>1, <2>4
<1> QED
  BY <1>5, <1>6

\* All that a step of vesting_schedule may change.
VestState == <<now, vestVars>>

\* A schedule that starts before it ends, and what its beneficiary has of it.
VestKept(s, paid) ==
    /\ s.start < s.end /\ s.start <= s.cliff
    /\ s.claimed <= Vested(s, now)
    /\ now < s.cliff => s.claimed = 0
    /\ paid = IF s.revoked THEN s.total ELSE s.claimed

\* The types, VestingKept, and that nothing is released without a schedule.
VestInv ==
    /\ now \in Times /\ vestAdmin \in Callers /\ vestPaused \in BOOLEAN
    /\ vesting \in [Parties -> VestingSchedules \cup {None}] /\ released \in [Parties -> Nat]
    /\ \A b \in Parties :
         /\ vesting[b] = None => released[b] = 0
         /\ vesting[b] # None => VestKept(vesting[b], released[b])

\* The types and the property are parts of it.
LEMMA VestFacts == VestInv => VestTypeOK /\ VestingKept
  BY DEF VestInv, VestTypeOK, VestingKept, VestKept

\* Nobody has a schedule yet.
LEMMA VestInvInit == now = 0 /\ VestInit => VestInv
<1> SUFFICES ASSUME now = 0, VestInit PROVE VestInv
  OBVIOUS
<1>1. vestAdmin \in Callers /\ vestPaused \in BOOLEAN
  BY DEF VestInit, Callers
<1>2. /\ vesting \in [Parties -> VestingSchedules \cup {None}] /\ released \in [Parties -> Nat]
      /\ \A b \in Parties : vesting[b] = None /\ released[b] = 0
  BY DEF VestInit
<1>3. now \in Times
  BY LedgerAssumption DEF Times
<1> QED
  BY <1>1, <1>2, <1>3 DEF VestInv

\* A step that changes at most one beneficiary's entries keeps the invariant if it
\* keeps it there.
LEMMA OneVests ==
    ASSUME VestInv, NEW b \in Parties, NEW s \in VestingSchedules, NEW paid \in Nat,
           now' = now, vestAdmin' \in Callers, vestPaused' \in BOOLEAN,
           vesting' = [vesting EXCEPT ![b] = s], released' = [released EXCEPT ![b] = paid],
           VestKept(s, paid)
    PROVE  VestInv'
<1>1. /\ vesting' \in [Parties -> VestingSchedules \cup {None}] /\ released' \in [Parties -> Nat]
      /\ now' \in Times
  BY DEF VestInv
<1>2. ASSUME NEW c \in Parties
      PROVE  /\ vesting'[c] = None => released'[c] = 0
             /\ vesting'[c] # None => VestKept(vesting[c], released[c])'
  <2>1. vesting'[c] = (IF c = b THEN s ELSE vesting[c]) /\ released'[c] = (IF c = b THEN paid ELSE released[c])
    BY DEF VestInv
  <2>2. CASE c = b
    BY <2>1, <2>2, VestingAssumption DEF VestKept, Vested
  <2>3. CASE c # b
    <3>1. vesting'[c] = vesting[c] /\ released'[c] = released[c]
      BY <2>1, <2>3
    <3> QED
      BY <3>1 DEF VestInv, VestKept, Vested
  <2> QED
    BY <2>2, <2>3
<1> QED
  BY <1>1, <1>2 DEF VestInv

\* A claim pays what is vested and was not claimed yet.
LEMMA ClaimVests ==
    ASSUME VestInv, NEW b \in Parties, ClaimVested(b), now' = now
    PROVE  VestInv'
<1> DEFINE old == vesting[b]
           s == [old EXCEPT !.claimed = old.claimed + Claimable(old, now)]
           paid == released[b] + Claimable(old, now)
<1>1. old \in VestingSchedules /\ ~old.revoked /\ Claimable(old, now) > 0 /\ VestKept(old, released[b])
  BY DEF ClaimVested, VestInv
<1>2. old.claimed \in Nat /\ old.cliff \in Nat /\ now \in Times /\ now \in Nat /\ released[b] \in Nat
  BY <1>1, LedgerAssumption DEF VestInv, VestingSchedules, Times
<1>3. Vested(old, now) \in Nat
  BY <1>1, <1>2, VestedGrows, PartiesAssumption DEF VestKept, VestingSchedules
<1>4. ~(now < old.cliff) /\ Claimable(old, now) = Vested(old, now) - old.claimed
  BY <1>1 DEF Claimable
<1>5. s = [old EXCEPT !.claimed = Vested(old, now)]
  <2>1. old.claimed + Claimable(old, now) = Vested(old, now)
    <3> HIDE DEF old
    <3> QED
      BY <1>2, <1>3, <1>4
  <2> QED
    BY <2>1
<1>6. paid = Vested(old, now) /\ released[b] = old.claimed
  <2> HIDE DEF old
  <2> QED
    BY <1>1, <1>2, <1>3, <1>4 DEF VestKept
<1> HIDE DEF old, s, paid
<1>7. /\ s \in VestingSchedules /\ s.claimed = Vested(old, now) /\ s.start = old.start /\ s.end = old.end
      /\ s.cliff = old.cliff /\ s.total = old.total /\ s.revoked = old.revoked
  BY <1>1, <1>3, <1>5 DEF VestingSchedules
<1>8. Vested(s, now) = Vested(old, now)
  BY <1>7 DEF Vested
<1>9. VestKept(s, paid) /\ paid \in Nat
  <2>1. Vested(s, now) <= Vested(s, now)
    BY <1>3, <1>8
  <2> QED
    BY <1>1, <1>3, <1>4, <1>6, <1>7, <1>8, <2>1 DEF VestKept
<1>10. /\ vesting' = [vesting EXCEPT ![b] = s] /\ released' = [released EXCEPT ![b] = paid]
       /\ vestAdmin' \in Callers /\ vestPaused' \in BOOLEAN
  BY DEF ClaimVested, VestInv, old, s, paid
<1> QED
  BY <1>7, <1>9, <1>10, OneVests

\* A new schedule has vested nothing that was claimed.
LEMMA CreationVests ==
    ASSUME VestInv, NEW by, NEW b \in Parties, NEW total \in Amounts, NEW start \in Times,
           NEW end \in Times, NEW cliff \in Times, NEW revocable \in BOOLEAN,
           CreateVestingSchedule(by, b, total, start, end, cliff, revocable), now' = now
    PROVE  VestInv'
<1> DEFINE s == [total |-> total, claimed |-> 0, start |-> start, end |-> end, cliff |-> cliff,
                 revocable |-> revocable, revoked |-> FALSE]
<1>1. s \in VestingSchedules
  BY DEF VestingSchedules
<1>2. start < end /\ start <= cliff
  BY LedgerAssumption DEF CreateVestingSchedule, Times
<1>3. vesting' = [vesting EXCEPT ![b] = s]
  BY DEF CreateVestingSchedule
<1> DEFINE paid == released[b]
<1>4. paid = 0 /\ released' = [released EXCEPT ![b] = paid]
  BY DEF CreateVestingSchedule, VestInv
<1>5. /\ s.start = start /\ s.end = end /\ s.cliff = cliff /\ s.claimed = 0 /\ s.total = total
      /\ s.revoked = FALSE
  OBVIOUS
<1>6. vestAdmin' \in Callers /\ vestPaused' \in BOOLEAN /\ now \in Times
  BY DEF CreateVestingSchedule, VestInv
<1> HIDE DEF s, paid
<1>7. Vested(s, now) \in 0..total
  BY <1>1, <1>2, <1>5, <1>6, VestedGrows, LedgerAssumption DEF Times
<1>8. VestKept(s, paid)
  <2>1. total \in Nat
    BY PartiesAssumption
  <2> QED
    BY <1>2, <1>4, <1>5, <1>7, <2>1 DEF VestKept
<1> QED
  BY <1>1, <1>3, <1>4, <1>6, <1>8, OneVests

\* A revocation releases what was not claimed.
LEMMA RevocationVests ==
    ASSUME VestInv, NEW by, NEW b \in Parties, RevokeVesting(by, b), now' = now
    PROVE  VestInv'
<1> DEFINE old == vesting[b]
           s == [old EXCEPT !.revoked = TRUE]
           paid == released[b] + old.total - old.claimed
<1>1. old \in VestingSchedules /\ ~old.revoked /\ VestKept(old, released[b]) /\ released[b] \in Nat
  BY DEF RevokeVesting, VestInv
<1>2. old.claimed \in Nat /\ old.total \in Nat /\ released[b] = old.claimed
  BY <1>1, PartiesAssumption DEF VestingSchedules, VestKept
<1>3. vesting' = [vesting EXCEPT ![b] = s] /\ released' = [released EXCEPT ![b] = paid]
  BY DEF RevokeVesting
<1>4. vestAdmin' \in Callers /\ vestPaused' \in BOOLEAN
  BY DEF RevokeVesting, VestInv
<1> HIDE DEF old
<1>5. /\ s \in VestingSchedules /\ s.claimed = old.claimed /\ s.start = old.start /\ s.end = old.end
      /\ s.cliff = old.cliff /\ s.total = old.total /\ s.revoked = TRUE
  BY <1>1 DEF VestingSchedules
<1>6. paid = old.total /\ paid \in Nat
  BY <1>2
<1> HIDE DEF s, paid
<1>7. Vested(s, now) = Vested(old, now)
  BY <1>5 DEF Vested
<1>8. VestKept(s, paid)
  BY <1>1, <1>5, <1>6, <1>7 DEF VestKept
<1> QED
  BY <1>3, <1>4, <1>5, <1>6, <1>8, OneVests

\* Every step, the ticks of the clock included, keeps the invariant.
LEMMA VestInvNext == VestInv /\ [VestNext]_VestState => VestInv'
<1> SUFFICES ASSUME VestInv, [VestNext]_VestState PROVE VestInv'
  OBVIOUS
<1>1. ASSUME Tick, UNCHANGED vestVars PROVE VestInv'
  <2>1. now \in Times /\ now' \in Times /\ now <= now'
    BY <1>1, LedgerAssumption DEF Tick, VestInv, Times
  <2>2. ASSUME NEW b \in Parties, vesting[b] # None PROVE VestKept(vesting[b], released[b])'
    <3> DEFINE s == vesting[b]
    <3>1. s \in VestingSchedules /\ VestKept(s, released[b])
      BY <2>2 DEF VestInv
    <3>2. s.total \in Nat /\ s.claimed \in Nat /\ s.cliff \in Nat /\ now \in Nat /\ now' \in Nat
      <4>1. s.total \in Amounts /\ s.claimed \in Nat /\ s.cliff \in Times
        BY <3>1 DEF VestingSchedules
      <4>2. Times \subseteq Nat
        BY LedgerAssumption DEF Times
      <4> QED
        BY <2>1, <4>1, <4>2, PartiesAssumption
    <3> HIDE DEF s
    <3>3. Vested(s, now) \in 0..s.total /\ Vested(s, now') \in 0..s.total /\ Vested(s, now) <= Vested(s, now')
      BY <2>1, <3>1, VestedGrows DEF VestKept
    <3>4. /\ s.start < s.end /\ s.start <= s.cliff /\ s.claimed <= Vested(s, now')
          /\ now' < s.cliff => s.claimed = 0
          /\ released[b] = IF s.revoked THEN s.total ELSE s.claimed
      <4>1. s.claimed <= Vested(s, now)
        BY <3>1 DEF VestKept
      <4>2. s.claimed <= Vested(s, now')
        BY <3>2, <3>3, <4>1
      <4>3. now' < s.cliff => s.claimed = 0
        BY <2>1, <3>1, <3>2 DEF VestKept
      <4> QED
        BY <3>1, <4>2, <4>3 DEF VestKept
    <3>5. vesting' = vesting /\ released' = released
      BY <1>1 DEF vestVars
    <3> QED
      BY <3>4, <3>5 DEF VestKept, Vested, s
  <2> QED
    BY <1>1, <2>1, <2>2 DEF VestInv, vestVars
<1>2. ASSUME NEW b \in Parties, ClaimVested(b), now' = now PROVE VestInv'
  BY <1>2, ClaimVests
<1>3. ASSUME NEW by \in Callers, NEW b \in Parties, NEW total \in Amounts, NEW start \in Times,
             NEW end \in Times, NEW cliff \in Times, NEW revocable \in BOOLEAN,
             CreateVestingSchedule(by, b, total, start, end, cliff, revocable), now' = now
      PROVE  VestInv'
  BY <1>3, CreationVests
<1>4. ASSUME NEW by \in Callers, NEW b \in Parties, RevokeVesting(by, b), now' = now PROVE VestInv'
  BY <1>4, RevocationVests
<1>5. ASSUME NEW by \in Callers, NEW a \in Callers, SetVestAdmin(by, a), now' = now PROVE VestInv'
  BY <1>5 DEF SetVestAdmin, VestInv, VestKept, Vested
<1>6. ASSUME NEW by \in Callers, NEW flag \in BOOLEAN, SetVestPaused(by, flag), now' = now PROVE VestInv'
  BY <1>6 DEF SetVestPaused, VestInv, VestKept, Vested
<1>7. ASSUME UNCHANGED VestState PROVE VestInv'
  BY <1>7 DEF VestState, vestVars, VestInv, VestKept, Vested
<1> QED
  BY <1>1, <1>2, <1>3, <1>4, <1>5, <1>6, <1>7 DEF VestNext

\* A beneficiary never has more than what is vested, nothing before the cliff, and
\* with what a revocation gives back the total is released once: for every total,
\* duration and cliff, and whenever the claims come (half of ClaimsPaidOnce).
THEOREM VestingStaysKept == VestSpec => []VestingKept
<1>1. now = 0 /\ VestInit => VestInv
  BY VestInvInit
<1>2. VestInv /\ [VestNext]_VestState => VestInv'
  BY VestInvNext
<1>3. VestInv => VestingKept
  BY VestFacts
<1> QED
  BY <1>1, <1>2, <1>3, PTL DEF VestSpec, VestState

-----------------------------------------------------------------------------
(* rent_to_own *)

\* The sum of a sequence grows by what is appended.
LEMMA SumOfAppend ==
    ASSUME NEW p \in Seq(Nat), NEW x \in Nat
    PROVE  /\ SumOver(p, DOMAIN p) \in Nat
           /\ SumOver(Append(p, x), DOMAIN Append(p, x)) = SumOver(p, DOMAIN p) + x
<1> DEFINE n == Len(p)
           q == Append(p, x)
<1>1. n \in Nat /\ DOMAIN p = 1..n /\ DOMAIN q = (1..n) \cup {n + 1}
  BY AppendProperties
<1>2. (\A i \in 1..n : p[i] \in Nat /\ q[i] = p[i]) /\ q[n + 1] = x
  BY <1>1, AppendProperties
<1>3. IsFiniteSet(1..n) /\ n + 1 \notin 1..n
  BY <1>1, FS_Interval
<1> HIDE DEF n, q
<1>4. SumFunctionOnSet(q, (1..n) \cup {n + 1}) = SumFunctionOnSet(q, 1..n) + q[n + 1]
  <2> DEFINE m == n + 1
             S == 1..n
  <2>1. \A i \in S \cup {m} : q[i] \in Int
    BY <1>2
  <2>2. IsFiniteSet(S) /\ m \notin S
    BY <1>3
  <2> HIDE DEF m, S
  <2>3. SumFunctionOnSet(q, S \cup {m}) = SumFunctionOnSet(q, S) + q[m]
    BY <2>1, <2>2, SumWithOneMore
  <2> QED
    BY <2>3 DEF m, S
<1>5. SumFunctionOnSet(q, 1..n) = SumFunctionOnSet(p, 1..n)
  <2>1. \A i \in 1..n : q[i] \in Int /\ q[i] = p[i]
    BY <1>2
  <2> QED
    BY <1>3, <2>1, SumAgrees
<1>6. SumFunctionOnSet(p, 1..n) \in Nat
  BY <1>2, <1>3, SumIsNat
<1> QED
  BY <1>1, <1>2, <1>4, <1>5, <1>6 DEF SumOver, q

\* A deal's entry, its settlement and what was declared owed tell one story.
DealAccounted(deal, split, owed) ==
    /\ deal.equity = SumOver(deal.payments, DOMAIN deal.payments)
    /\ deal.equity <= deal.value
    /\ (split # None) <=> (deal.status = "Defaulted")
    /\ split = None => owed = 0
    /\ split # None =>
         /\ split.refundable + split.forfeited = deal.equity
         /\ owed = IF split.settled THEN deal.equity ELSE 0

\* The types, EquityAccounted, and that nothing is settled before it is split.
RtoInv ==
    /\ rtoPaused \in BOOLEAN /\ forfeitureBps \in ForfeitureRates
    /\ rtoDeal \in [RtoDeals -> RtoEntries \cup {None}]
    /\ settlement \in [RtoDeals -> Settlements \cup {None}] /\ returned \in [RtoDeals -> Nat]
    /\ \A d \in RtoDeals :
         /\ rtoDeal[d] = None => settlement[d] = None /\ returned[d] = 0
         /\ rtoDeal[d] # None => DealAccounted(rtoDeal[d], settlement[d], returned[d])

\* All that a step of rent_to_own may change.
RtoState == <<now, rtoVars>>

\* The types and the property are parts of it.
LEMMA RtoFacts == RtoInv => RtoTypeOK /\ EquityAccounted
  BY DEF RtoInv, RtoTypeOK, EquityAccounted, DealAccounted

\* There are no deals yet.
LEMMA RtoInvInit == RtoInit => RtoInv
<1> SUFFICES ASSUME RtoInit PROVE RtoInv
  OBVIOUS
<1>1. rtoPaused \in BOOLEAN /\ forfeitureBps \in ForfeitureRates
  BY DEF RtoInit
<1>2. /\ rtoDeal \in [RtoDeals -> RtoEntries \cup {None}]
      /\ settlement \in [RtoDeals -> Settlements \cup {None}] /\ returned \in [RtoDeals -> Nat]
      /\ \A d \in RtoDeals : rtoDeal[d] = None /\ settlement[d] = None /\ returned[d] = 0
  BY DEF RtoInit
<1> QED
  BY <1>1, <1>2 DEF RtoInv

\* A step that changes at most one deal keeps the invariant if it keeps it there.
LEMMA OneDealAccounted ==
    ASSUME RtoInv, NEW d \in RtoDeals, NEW deal \in RtoEntries, NEW split \in Settlements \cup {None},
           NEW owed \in Nat, UNCHANGED <<rtoPaused, forfeitureBps>>,
           rtoDeal' = [rtoDeal EXCEPT ![d] = deal],
           settlement' = [settlement EXCEPT ![d] = split],
           returned' = [returned EXCEPT ![d] = owed],
           DealAccounted(deal, split, owed)
    PROVE  RtoInv'
<1>1. /\ rtoDeal' \in [RtoDeals -> RtoEntries \cup {None}]
      /\ settlement' \in [RtoDeals -> Settlements \cup {None}] /\ returned' \in [RtoDeals -> Nat]
  BY DEF RtoInv
<1>2. ASSUME NEW e \in RtoDeals
      PROVE  /\ rtoDeal'[e] = None => settlement'[e] = None /\ returned'[e] = 0
             /\ rtoDeal'[e] # None => DealAccounted(rtoDeal'[e], settlement'[e], returned'[e])
  <2>1. CASE e = d
    <3>1. rtoDeal'[e] = deal /\ settlement'[e] = split /\ returned'[e] = owed
      BY <2>1 DEF RtoInv
    <3> QED
      BY <3>1, RentToOwnAssumption
  <2>2. CASE e # d
    <3>1. rtoDeal'[e] = rtoDeal[e] /\ settlement'[e] = settlement[e] /\ returned'[e] = returned[e]
      BY <2>2 DEF RtoInv
    <3> QED
      BY <3>1 DEF RtoInv
  <2> QED
    BY <2>1, <2>2
<1> QED
  BY <1>1, <1>2 DEF RtoInv, DealAccounted

\* The parts of a deal in the invariant.
LEMMA DealParts ==
    ASSUME RtoInv, NEW d \in RtoDeals, rtoDeal[d] # None
    PROVE  /\ rtoDeal[d] \in RtoEntries /\ settlement[d] \in Settlements \cup {None} /\ returned[d] \in Nat
           /\ DealAccounted(rtoDeal[d], settlement[d], returned[d])
           /\ rtoDeal[d].equity \in Nat /\ rtoDeal[d].value \in Nat /\ rtoDeal[d].payments \in Seq(Nat)
<1>1. /\ rtoDeal[d] \in RtoEntries /\ settlement[d] \in Settlements \cup {None} /\ returned[d] \in Nat
      /\ DealAccounted(rtoDeal[d], settlement[d], returned[d])
  BY DEF RtoInv
<1>2. /\ rtoDeal[d].equity \in Nat /\ rtoDeal[d].value \in Values /\ rtoDeal[d].payments \in Seq(Nat)
  BY <1>1 DEF RtoEntries
<1> QED
  BY <1>1, <1>2, RentToOwnAssumption

\* A registered deal has no equity.
LEMMA RegistrationAccounted ==
    ASSUME RtoInv, NEW by, NEW d \in RtoDeals, NEW tenant \in Parties, NEW value \in Values,
           NEW required \in Required, RegisterDeal(by, d, tenant, value, required)
    PROVE  RtoInv'
<1> DEFINE deal == [tenant |-> tenant, value |-> value, equity |-> 0, required |-> required,
                    payments |-> <<>>, status |-> "Active"]
           split == settlement[d]
           owed == returned[d]
<1>1. deal \in RtoEntries
  BY DEF RtoEntries
<1>2. /\ rtoDeal' = [rtoDeal EXCEPT ![d] = deal] /\ split = None /\ owed = 0
      /\ settlement' = [settlement EXCEPT ![d] = split] /\ returned' = [returned EXCEPT ![d] = owed]
      /\ UNCHANGED <<rtoPaused, forfeitureBps>>
  BY DEF RegisterDeal, RtoInv
<1>3. SumOver(<<>>, DOMAIN <<>>) = 0
  <2>1. DOMAIN <<>> = {}
    OBVIOUS
  <2> QED
    BY <2>1, SumOfNone DEF SumOver
<1>4. deal.equity = 0 /\ deal.payments = <<>> /\ deal.value = value /\ deal.status = "Active"
  OBVIOUS
<1>5. value \in Nat
  BY RentToOwnAssumption
<1> HIDE DEF deal, split, owed
<1>6. DealAccounted(deal, split, owed)
  BY <1>2, <1>3, <1>4, <1>5 DEF DealAccounted
<1>7. split \in Settlements \cup {None} /\ owed \in Nat
  BY <1>2
<1> QED
  BY <1>1, <1>2, <1>6, <1>7, OneDealAccounted

\* A payment adds to the equity what it adds to the payments.
LEMMA PaymentAccounted ==
    ASSUME RtoInv, NEW by, NEW d \in RtoDeals, NEW amount \in Amounts, RecordEquityPayment(by, d, amount)
    PROVE  RtoInv'
<1> DEFINE old == rtoDeal[d]
           deal == [old EXCEPT !.equity = old.equity + amount, !.payments = Append(old.payments, amount)]
           split == settlement[d]
           owed == returned[d]
<1>1. /\ old \in RtoEntries /\ split \in Settlements \cup {None} /\ owed \in Nat
      /\ DealAccounted(old, split, owed)
      /\ old.equity \in Nat /\ old.value \in Nat /\ old.payments \in Seq(Nat) /\ amount \in Nat
  BY DealParts, PartiesAssumption DEF RecordEquityPayment, RtoIn
<1>2. /\ rtoDeal' = [rtoDeal EXCEPT ![d] = deal]
      /\ settlement' = [settlement EXCEPT ![d] = split] /\ returned' = [returned EXCEPT ![d] = owed]
      /\ UNCHANGED <<rtoPaused, forfeitureBps>>
      /\ old.status = "Active" /\ old.equity + amount <= old.value
  BY DEF RecordEquityPayment, RtoInv, RtoIn
<1> HIDE DEF old
<1>3. Append(old.payments, amount) \in Seq(Nat) /\ old.equity + amount \in Nat
  BY <1>1, AppendProperties
<1>4. /\ deal \in RtoEntries /\ deal.equity = old.equity + amount /\ deal.value = old.value
      /\ deal.payments = Append(old.payments, amount) /\ deal.status = old.status
  BY <1>1, <1>3 DEF RtoEntries
<1> HIDE DEF deal, split, owed
<1>5. SumOver(deal.payments, DOMAIN deal.payments) = SumOver(old.payments, DOMAIN old.payments) + amount
  BY <1>1, <1>4, SumOfAppend
<1>6. DealAccounted(deal, split, owed)
  BY <1>1, <1>2, <1>4, <1>5 DEF DealAccounted
<1> QED
  BY <1>1, <1>2, <1>4, <1>6, OneDealAccounted

\* A completion and a transfer of the position leave the accounts alone.
LEMMA DealStillAccounted ==
    ASSUME RtoInv, NEW by, NEW d \in RtoDeals, NEW from \in Parties, NEW to \in Parties,
           CompleteRtoDeal(by, d) \/ TransferPosition(by, from, to, d)
    PROVE  RtoInv'
<1> DEFINE old == rtoDeal[d]
           split == settlement[d]
           owed == returned[d]
<1>1. /\ old \in RtoEntries /\ split \in Settlements \cup {None} /\ owed \in Nat
      /\ DealAccounted(old, split, owed)
  BY DealParts DEF CompleteRtoDeal, TransferPosition, RtoIn
<1>2. /\ settlement' = [settlement EXCEPT ![d] = split] /\ returned' = [returned EXCEPT ![d] = owed]
      /\ UNCHANGED <<rtoPaused, forfeitureBps>>
      /\ old.status = "Active"
  BY DEF CompleteRtoDeal, TransferPosition, RtoInv, RtoIn
<1> SUFFICES ASSUME NEW deal, deal \in {[old EXCEPT !.status = "Completed"], [old EXCEPT !.tenant = to]},
                    rtoDeal' = [rtoDeal EXCEPT ![d] = deal]
             PROVE  RtoInv'
  BY DEF CompleteRtoDeal, TransferPosition
<1> HIDE DEF old
<1>3. /\ deal \in RtoEntries /\ deal.equity = old.equity /\ deal.value = old.value
      /\ deal.payments = old.payments /\ deal.status \in {"Active", "Completed"}
  <2>1. CASE deal = [old EXCEPT !.status = "Completed"]
    BY <1>1, <2>1 DEF RtoEntries
  <2>2. CASE deal = [old EXCEPT !.tenant = to]
    BY <1>1, <1>2, <2>2 DEF RtoEntries
  <2> QED
    BY <2>1, <2>2
<1> HIDE DEF split, owed
<1>4. DealAccounted(deal, split, owed)
  BY <1>1, <1>2, <1>3 DEF DealAccounted
<1> QED
  BY <1>1, <1>2, <1>3, <1>4, OneDealAccounted

\* A default splits the equity into what is forfeited and the rest of it.
LEMMA DefaultAccounted ==
    ASSUME RtoInv, NEW by, NEW d \in RtoDeals, DefaultRtoDeal(by, d)
    PROVE  RtoInv'
<1> DEFINE old == rtoDeal[d]
           deal == [old EXCEPT !.status = "Defaulted"]
           split == EquitySplit(old.equity)
           owed == returned[d]
           forfeited == (old.equity * forfeitureBps) \div FullBps
<1>1. /\ old \in RtoEntries /\ settlement[d] \in Settlements \cup {None} /\ owed \in Nat
      /\ DealAccounted(old, settlement[d], owed) /\ old.equity \in Nat
  BY DealParts DEF DefaultRtoDeal, RtoIn
<1>2. /\ rtoDeal' = [rtoDeal EXCEPT ![d] = deal]
      /\ settlement' = [settlement EXCEPT ![d] = split] /\ returned' = [returned EXCEPT ![d] = owed]
      /\ UNCHANGED <<rtoPaused, forfeitureBps>>
      /\ old.status = "Active"
  BY DEF DefaultRtoDeal, RtoInv, RtoIn
<1>3. forfeited \in 0..old.equity
  <2>1. forfeitureBps \in 0..FullBps /\ FullBps \in Nat \ {0}
    BY LedgerAssumption, RentToOwnAssumption DEF RtoInv
  <2> HIDE DEF old
  <2> QED
    BY <1>1, <2>1, PartOfWhole
<1>4. split = [refundable |-> old.equity - forfeited, forfeited |-> forfeited, settled |-> FALSE]
  BY DEF EquitySplit
<1> HIDE DEF old, split, forfeited
<1>5. /\ split \in Settlements /\ split.refundable + split.forfeited = old.equity
      /\ split.settled = FALSE
  <2>1. forfeited \in Nat /\ old.equity - forfeited \in Nat /\ old.equity - forfeited + forfeited = old.equity
    BY <1>1, <1>3
  <2> QED
    BY <1>4, <2>1 DEF Settlements
<1>6. /\ deal \in RtoEntries /\ deal.equity = old.equity /\ deal.value = old.value
      /\ deal.payments = old.payments /\ deal.status = "Defaulted"
  BY <1>1 DEF RtoEntries
<1> HIDE DEF deal, owed
<1>7. owed = 0
  BY <1>1, <1>2 DEF DealAccounted
<1>8. DealAccounted(deal, split, owed)
  BY <1>1, <1>5, <1>6, <1>7, RentToOwnAssumption DEF DealAccounted
<1> QED
  BY <1>1, <1>2, <1>5, <1>6, <1>8, OneDealAccounted

\* A settlement declares all of the equity owed, and once.
LEMMA SettlementAccounted ==
    ASSUME RtoInv, NEW by, NEW d \in RtoDeals, SettleDefault(by, d)
    PROVE  RtoInv'
<1> DEFINE deal == rtoDeal[d]
           old == settlement[d]
           split == [old EXCEPT !.settled = TRUE]
           owed == returned[d] + old.refundable + old.forfeited
<1>1. /\ deal \in RtoEntries /\ old \in Settlements /\ returned[d] \in Nat
      /\ DealAccounted(deal, old, returned[d]) /\ deal.equity \in Nat
  BY DealParts DEF SettleDefault, RtoIn
<1>2. /\ rtoDeal' = [rtoDeal EXCEPT ![d] = deal]
      /\ settlement' = [settlement EXCEPT ![d] = split] /\ returned' = [returned EXCEPT ![d] = owed]
      /\ UNCHANGED <<rtoPaused, forfeitureBps>>
      /\ old # None /\ ~old.settled
  BY DEF SettleDefault, RtoInv, RtoIn
<1>3. /\ returned[d] = 0 /\ old.refundable + old.forfeited = deal.equity
      /\ old.refundable \in Nat /\ old.forfeited \in Nat
  BY <1>1, <1>2 DEF DealAccounted, Settlements
<1>4. owed = deal.equity
  <2> HIDE DEF deal, old
  <2> QED
    BY <1>3
<1> HIDE DEF old
<1>5. /\ split \in Settlements /\ split.refundable + split.forfeited = deal.equity /\ split.settled = TRUE
  BY <1>1, <1>3 DEF Settlements
<1> HIDE DEF deal, split, owed
<1>6. DealAccounted(deal, split, owed)
  BY <1>1, <1>2, <1>4, <1>5, RentToOwnAssumption DEF DealAccounted
<1> QED
  BY <1>1, <1>2, <1>4, <1>5, <1>6, OneDealAccounted

\* Every entry point of rent_to_own keeps the invariant.
LEMMA RtoInvNext == RtoInv /\ [RtoNext]_RtoState => RtoInv'
<1> SUFFICES ASSUME RtoInv, [RtoNext]_RtoState PROVE RtoInv'
  OBVIOUS
<1>1. ASSUME NEW by, NEW d \in RtoDeals, NEW tenant \in Parties, NEW value \in Values,
             NEW required \in Required, RegisterDeal(by, d, tenant, value, required)
      PROVE  RtoInv'
  BY <1>1, RegistrationAccounted
<1>2. ASSUME NEW by, NEW d \in RtoDeals, NEW amount \in Amounts, RecordEquityPayment(by, d, amount)
      PROVE  RtoInv'
  BY <1>2, PaymentAccounted
<1>3. ASSUME NEW by, NEW d \in RtoDeals, NEW from \in Parties, NEW to \in Parties,
             TransferPosition(by, from, to, d)
      PROVE  RtoInv'
  BY <1>3, DealStillAccounted
<1>4. ASSUME NEW by, NEW d \in RtoDeals, CompleteRtoDeal(by, d) PROVE RtoInv'
  <2>1. PICK u \in Parties : TRUE
    <3>1. rtoDeal[d] \in RtoEntries
      BY <1>4, DealParts DEF CompleteRtoDeal, RtoIn
    <3> QED
      BY <3>1 DEF RtoEntries
  <2> QED
    BY <1>4, <2>1, DealStillAccounted
<1>5. ASSUME NEW by, NEW d \in RtoDeals, DefaultRtoDeal(by, d) PROVE RtoInv'
  BY <1>5, DefaultAccounted
<1>6. ASSUME NEW by, NEW d \in RtoDeals, SettleDefault(by, d) PROVE RtoInv'
  BY <1>6, SettlementAccounted
<1>7. ASSUME NEW by, NEW flag \in BOOLEAN, SetRtoPaused(by, flag) PROVE RtoInv'
  BY <1>7 DEF SetRtoPaused, RtoInv, DealAccounted
<1>8. ASSUME UNCHANGED rtoVars PROVE RtoInv'
  BY <1>8 DEF rtoVars, RtoInv, DealAccounted
<1> QED
  BY <1>1, <1>2, <1>3, <1>4, <1>5, <1>6, <1>7, <1>8 DEF RtoNext, RtoState

\* Equity is what the payments came to and never more than the property's value, and a
\* default splits it without a remainder and is settled at most once, for any number of
\* payments, rate and value (half of PaymentsAccounted).
THEOREM EquityStaysAccounted == RtoSpec => []EquityAccounted
<1>1. RtoInit => RtoInv
  BY RtoInvInit
<1>2. RtoInv /\ [RtoNext]_RtoState => RtoInv'
  BY RtoInvNext
<1>3. RtoInv => EquityAccounted
  BY RtoFacts
<1> QED
  BY <1>1, <1>2, <1>3, PTL DEF RtoSpec, RtoState

-----------------------------------------------------------------------------
(* rent_schedule *)

\* The instalment that calls with its number find.
FirstOfItsNumber(insts, i) ==
    \A j \in DOMAIN insts : insts[j].number = insts[i].number => i <= j

\* An instalment that is found is the first of its number.
LEMMA PositionFound ==
    ASSUME NEW d \in LeaseDeals, NEW number, schedule[d] \in Seq(Instalments), Found(d, number)
    PROVE  /\ Position(d, number) \in DOMAIN schedule[d]
           /\ schedule[d][Position(d, number)].number = number
           /\ FirstOfItsNumber(schedule[d], Position(d, number))
<1> DEFINE Matching == {i \in DOMAIN schedule[d] : schedule[d][i].number = number}
<1>1. Matching \in SUBSET Nat /\ Matching # {}
  <2>1. DOMAIN schedule[d] = 1..Len(schedule[d]) /\ Len(schedule[d]) \in Nat
    OBVIOUS
  <2>2. Matching # {}
    BY DEF Found
  <2> QED
    BY <2>1, <2>2
<1>2. PICK i \in Matching : \A j \in Matching : i <= j
  <2> HIDE DEF Matching
  <2> QED
    BY <1>1, LeastNumber
<1>3. /\ i \in DOMAIN schedule[d] /\ schedule[d][i].number = number
      /\ \A j \in DOMAIN schedule[d] : schedule[d][j].number = number => i <= j
  BY <1>2
<1>4. /\ Position(d, number) \in DOMAIN schedule[d]
      /\ schedule[d][Position(d, number)].number = number
      /\ \A j \in DOMAIN schedule[d] : schedule[d][j].number = number => Position(d, number) <= j
  BY <1>3 DEF Position
<1> QED
  BY <1>4 DEF FirstOfItsNumber

\* An instalment that is not as it was created was changed by payments, an overdue
\* mark or a waiver; only the first of its number is ever waived, so that its waiver
\* is not overwritten.
InstalmentKept(inst, first, unique, notice) ==
    /\ inst.number = first.number /\ inst.due = first.due
    /\ Closed(first) => inst = first
    /\ inst.paid # first.paid =>
         /\ first.paid < inst.paid /\ inst.paid <= inst.due
         /\ inst.paid = inst.due => inst.status = "Paid"
    /\ inst.status = "Paid" /\ ~Closed(first) => inst.paid = inst.due
    /\ inst.status = "Waived" /\ ~Closed(first) =>
         unique /\ notice # None /\ notice.amount = Remaining(inst)

\* Of a deal: its schedule, the one it was created with, and its waivers.
ScheduleKept(insts, firsts, waivers) ==
    /\ firsts \in Seq(Instalments) /\ DOMAIN insts = DOMAIN firsts
    /\ \A i \in DOMAIN insts :
         InstalmentKept(insts[i], firsts[i], FirstOfItsNumber(insts, i), waivers[insts[i].number])

\* The types, and that every instalment of every schedule is kept.
SchedInv ==
    /\ now \in Nat /\ schedPaused \in BOOLEAN
    /\ schedule \in [LeaseDeals -> Seq(Instalments) \cup {None}]
    /\ opening \in [LeaseDeals -> Seq(Instalments) \cup {None}]
    /\ waiver \in [LeaseDeals -> [Numbers -> Waivers \cup {None}]]
    /\ \A d \in LeaseDeals : schedule[d] # None =>
         ScheduleKept(schedule[d], opening[d], waiver[d])

\* All that a step of rent_schedule may change.
SchedState == <<now, schedVars>>

\* The types and the property follow from it.
LEMMA SchedFacts == SchedInv => SchedTypeOK /\ InstalmentsAccounted
<1> SUFFICES ASSUME SchedInv PROVE SchedTypeOK /\ InstalmentsAccounted
  OBVIOUS
<1>1. SchedTypeOK
  BY DEF SchedInv, SchedTypeOK
<1>2. ASSUME NEW d \in LeaseDeals, schedule[d] # None
      PROVE  ScheduleKept(schedule[d], opening[d], waiver[d])
  BY <1>2 DEF SchedInv
<1> QED
  BY <1>1, <1>2 DEF InstalmentsAccounted, ScheduleKept, InstalmentKept

\* There are no schedules yet.
LEMMA SchedInvInit == now = 0 /\ SchedInit => SchedInv
<1> SUFFICES ASSUME now = 0, SchedInit PROVE SchedInv
  OBVIOUS
<1>1. now \in Nat /\ schedPaused \in BOOLEAN
  BY DEF SchedInit
<1>2. /\ schedule \in [LeaseDeals -> Seq(Instalments) \cup {None}]
      /\ opening \in [LeaseDeals -> Seq(Instalments) \cup {None}]
      /\ waiver \in [LeaseDeals -> [Numbers -> Waivers \cup {None}]]
      /\ \A d \in LeaseDeals : schedule[d] = None
  BY DEF SchedInit
<1> QED
  BY <1>1, <1>2 DEF SchedInv

\* The invariant speaks of each deal by itself: a step that changes one deal keeps it if
\* it keeps it for that deal.
LEMMA OneScheduleKept ==
    ASSUME SchedInv, NEW d \in LeaseDeals, NEW insts \in Seq(Instalments),
           NEW firsts \in Seq(Instalments), NEW notices \in [Numbers -> Waivers \cup {None}],
           now' = now, schedPaused' = schedPaused,
           schedule' = [schedule EXCEPT ![d] = insts],
           opening' = [opening EXCEPT ![d] = firsts],
           waiver' = [waiver EXCEPT ![d] = notices],
           ScheduleKept(insts, firsts, notices)
    PROVE  SchedInv'
<1> DEFINE S == Seq(Instalments) \cup {None}
           W == [Numbers -> Waivers \cup {None}]
<1>1. /\ schedule \in [LeaseDeals -> S] /\ opening \in [LeaseDeals -> S] /\ waiver \in [LeaseDeals -> W]
      /\ insts \in S /\ firsts \in S /\ notices \in W
      /\ now' \in Nat /\ schedPaused' \in BOOLEAN
  BY DEF SchedInv
<1> HIDE DEF S, W
<1>2. /\ schedule' \in [LeaseDeals -> S] /\ opening' \in [LeaseDeals -> S] /\ waiver' \in [LeaseDeals -> W]
      /\ schedule'[d] = insts /\ opening'[d] = firsts /\ waiver'[d] = notices
      /\ \A e \in LeaseDeals : e # d =>
           schedule'[e] = schedule[e] /\ opening'[e] = opening[e] /\ waiver'[e] = waiver[e]
  BY <1>1
<1>3. ASSUME NEW e \in LeaseDeals, schedule'[e] # None
      PROVE  ScheduleKept(schedule'[e], opening'[e], waiver'[e])
  <2>1. CASE e = d
    BY <1>2, <2>1
  <2>2. CASE e # d
    <3>1. schedule'[e] = schedule[e] /\ opening'[e] = opening[e] /\ waiver'[e] = waiver[e]
      BY <1>2, <2>2
    <3> QED
      BY <1>3, <3>1 DEF SchedInv
  <2> QED
    BY <2>1, <2>2
<1> QED
  BY <1>1, <1>2, <1>3 DEF S, W, SchedInv, ScheduleKept, InstalmentKept, FirstOfItsNumber, Remaining, Closed

\* What an entry point finds under a number: an instalment, the first of its number,
\* that is as it was created or was changed in order.
LEMMA FoundTerms ==
    ASSUME SchedInv, NEW d \in LeaseDeals, NEW number \in Numbers, Found(d, number)
    PROVE  LET i == Position(d, number)
               inst == schedule[d][i]
           IN  /\ schedule[d] \in Seq(Instalments) /\ opening[d] \in Seq(Instalments)
               /\ ScheduleKept(schedule[d], opening[d], waiver[d])
               /\ i \in DOMAIN schedule[d] /\ FirstOfItsNumber(schedule[d], i)
               /\ inst \in Instalments /\ inst.number = number
               /\ InstalmentKept(inst, opening[d][i], TRUE, waiver[d][number])
               /\ waiver[d] \in [Numbers -> Waivers \cup {None}]
<1> DEFINE i == Position(d, number)
           inst == schedule[d][i]
<1>1. /\ schedule[d] \in Seq(Instalments) /\ waiver[d] \in [Numbers -> Waivers \cup {None}]
      /\ ScheduleKept(schedule[d], opening[d], waiver[d])
  BY DEF SchedInv, Found
<1>2. i \in DOMAIN schedule[d] /\ inst.number = number /\ FirstOfItsNumber(schedule[d], i)
  BY <1>1, PositionFound
<1>3. opening[d] \in Seq(Instalments) /\ InstalmentKept(inst, opening[d][i], TRUE, waiver[d][number])
  BY <1>1, <1>2 DEF ScheduleKept, InstalmentKept
<1> HIDE DEF i
<1>4. inst \in Instalments
  BY <1>1, <1>2
<1> QED
  BY <1>1, <1>2, <1>3, <1>4 DEF i

\* A step that changes the instalment that is found, and at most its waiver, keeps
\* the invariant if it keeps it for that instalment.
LEMMA OneInstalmentKept ==
    ASSUME SchedInv, NEW d \in LeaseDeals, NEW number \in Numbers, Found(d, number),
           NEW inst \in Instalments, NEW notice \in Waivers \cup {None},
           now' = now, schedPaused' = schedPaused, opening' = opening,
           schedule' = [schedule EXCEPT ![d][Position(d, number)] = inst],
           waiver' = [waiver EXCEPT ![d][number] = notice],
           inst.number = number,
           notice = waiver[d][number] \/ inst.status = "Waived",
           InstalmentKept(inst, opening[d][Position(d, number)], TRUE, notice)
    PROVE  SchedInv'
<1> DEFINE i == Position(d, number)
           old == schedule[d]
           firsts == opening[d]
           insts == [old EXCEPT ![i] = inst]
           notices == [waiver[d] EXCEPT ![number] = notice]
<1>1. /\ old \in Seq(Instalments) /\ firsts \in Seq(Instalments)
      /\ waiver[d] \in [Numbers -> Waivers \cup {None}]
      /\ ScheduleKept(old, firsts, waiver[d])
  BY FoundTerms
<1>2. i \in DOMAIN old /\ old[i].number = number /\ FirstOfItsNumber(old, i)
  BY FoundTerms
<1> HIDE DEF i
<1>3. schedule' = [schedule EXCEPT ![d] = insts] /\ waiver' = [waiver EXCEPT ![d] = notices]
  BY DEF i
<1>4. opening' = [opening EXCEPT ![d] = firsts]
  BY DEF SchedInv
<1>5. InstalmentKept(inst, firsts[i], TRUE, notice)
  BY DEF i
<1>6. \A k \in DOMAIN old : InstalmentKept(old[k], firsts[k], FirstOfItsNumber(old, k),
                                           waiver[d][old[k].number])
  BY <1>1 DEF ScheduleKept
<1>7. /\ insts \in Seq(Instalments) /\ DOMAIN insts = DOMAIN old /\ insts[i] = inst
      /\ \A k \in DOMAIN old : k # i => insts[k] = old[k]
      /\ \A k \in DOMAIN old : insts[k].number = old[k].number
  <2> HIDE DEF old
  <2> QED
    BY <1>1, <1>2
<1>8. /\ notices \in [Numbers -> Waivers \cup {None}] /\ notices[number] = notice
      /\ \A n \in Numbers : n # number => notices[n] = waiver[d][n]
  BY <1>1
<1>9. \A k \in DOMAIN old : old[k] \in Instalments /\ k \in Nat
  <2> HIDE DEF old
  <2> QED
    BY <1>1
<1> HIDE DEF insts, notices, old, firsts
<1>10. \A k \in DOMAIN old : FirstOfItsNumber(old, k) => FirstOfItsNumber(insts, k)
  BY <1>7 DEF FirstOfItsNumber
<1>11. ASSUME NEW k \in DOMAIN old
       PROVE  InstalmentKept(insts[k], firsts[k], FirstOfItsNumber(insts, k), notices[insts[k].number])
  <2>1. CASE k = i
    <3>1. insts[k] = inst /\ FirstOfItsNumber(insts, k) /\ notices[insts[k].number] = notice
      BY <1>2, <1>7, <1>8, <1>10, <2>1
    <3> QED
      BY <1>5, <2>1, <3>1 DEF InstalmentKept
  <2>2. CASE k # i
    <3>1. /\ insts[k] = old[k] /\ old[k] \in Instalments
          /\ InstalmentKept(old[k], firsts[k], FirstOfItsNumber(old, k), waiver[d][old[k].number])
      BY <1>6, <1>7, <1>9, <2>2
    <3>2. ASSUME FirstOfItsNumber(old, k)
          PROVE  notices[old[k].number] = waiver[d][old[k].number]
      <4>1. old[k].number # number
        <5>1. old[k].number = number => k <= i /\ i <= k
          BY <1>2, <3>2 DEF FirstOfItsNumber
        <5> QED
          BY <1>2, <1>9, <2>2, <5>1
      <4>2. old[k].number \in Numbers
        BY <3>1 DEF Instalments
      <4> QED
        BY <1>8, <4>1, <4>2
    <3> QED
      BY <1>10, <3>1, <3>2 DEF InstalmentKept
  <2> QED
    BY <2>1, <2>2
<1>12. ScheduleKept(insts, firsts, notices)
  BY <1>1, <1>7, <1>11 DEF ScheduleKept
<1> QED
  BY <1>1, <1>3, <1>4, <1>7, <1>8, <1>12, OneScheduleKept

\* A payment fills the instalment up, or leaves it open.
LEMMA PaymentKept ==
    ASSUME SchedInv, NEW d \in LeaseDeals, NEW number \in Numbers, NEW amount \in Amounts,
           RecordPayment(d, number, amount), now' = now
    PROVE  SchedInv'
<1> DEFINE i == Position(d, number)
           old == schedule[d][i]
           first == opening[d][i]
           inst == [old EXCEPT !.paid = old.paid + amount,
                               !.status = IF amount = Remaining(old) THEN "Paid" ELSE old.status]
           notice == waiver[d][number]
<1>1. /\ Found(d, number) /\ ~Closed(old) /\ amount <= Remaining(old)
      /\ schedule' = [schedule EXCEPT ![d][i] = inst]
      /\ schedPaused' = schedPaused /\ opening' = opening
  BY DEF RecordPayment
<1>2. waiver' = [waiver EXCEPT ![d][number] = notice]
  BY DEF RecordPayment, SchedInv
<1>3. /\ old \in Instalments /\ old.number = number
      /\ InstalmentKept(old, first, TRUE, notice)
      /\ notice \in Waivers \cup {None} /\ amount \in Nat \ {0}
  BY <1>1, FoundTerms, PartiesAssumption
<1> HIDE DEF i, notice
<1>4. first \in Instalments
  <2>1. i \in DOMAIN opening[d] /\ opening[d] \in Seq(Instalments)
    BY <1>1, FoundTerms DEF ScheduleKept, i
  <2> QED
    BY <2>1
<1> HIDE DEF old, first
<1>5. old.paid \in Int /\ old.due \in Int /\ first.paid \in Int
  BY <1>3, <1>4 DEF Instalments
<1>6. /\ old.paid + amount \in Int /\ old.paid + amount <= old.due
      /\ (amount = Remaining(old) <=> old.paid + amount = old.due)
  BY <1>1, <1>3, <1>5 DEF Remaining
<1>7. /\ inst \in Instalments /\ inst.number = number /\ inst.due = old.due
      /\ inst.paid = old.paid + amount
      /\ inst.status = IF amount = Remaining(old) THEN "Paid" ELSE old.status
  BY <1>3, <1>6 DEF Instalments, Statuses
<1>8. old.status # "Paid" /\ old.status # "Waived" /\ ~Closed(first)
  BY <1>1, <1>3 DEF Closed, InstalmentKept
<1>9. first.paid <= old.paid /\ old.number = first.number /\ old.due = first.due
  BY <1>3, <1>5 DEF InstalmentKept
<1> HIDE DEF inst
<1>10. first.paid < inst.paid
  BY <1>3, <1>5, <1>7, <1>9
<1>11. InstalmentKept(inst, first, TRUE, notice)
  BY <1>3, <1>6, <1>7, <1>8, <1>9, <1>10 DEF InstalmentKept
<1> QED
  BY <1>1, <1>2, <1>3, <1>7, <1>11, OneInstalmentKept DEF i, notice, old, first

\* An overdue mark changes nothing about the amounts, and something is open.
LEMMA OverdueKept ==
    ASSUME SchedInv, NEW by, NEW d \in LeaseDeals, NEW number \in Numbers,
           MarkOverdue(by, d, number), now' = now
    PROVE  SchedInv'
<1> DEFINE i == Position(d, number)
           old == schedule[d][i]
           first == opening[d][i]
           inst == [old EXCEPT !.status = "Overdue"]
           notice == waiver[d][number]
<1>1. /\ Found(d, number) /\ ~Closed(old) /\ Remaining(old) > 0
      /\ schedule' = [schedule EXCEPT ![d][i] = inst]
      /\ schedPaused' = schedPaused /\ opening' = opening
  BY DEF MarkOverdue
<1>2. waiver' = [waiver EXCEPT ![d][number] = notice]
  BY DEF MarkOverdue, SchedInv
<1>3. /\ old \in Instalments /\ old.number = number
      /\ InstalmentKept(old, first, TRUE, notice)
      /\ notice \in Waivers \cup {None}
  BY <1>1, FoundTerms
<1> HIDE DEF i, notice
<1> HIDE DEF old, first
<1>4. /\ inst \in Instalments /\ inst.number = number /\ inst.due = old.due
      /\ inst.paid = old.paid /\ inst.status = "Overdue"
  BY <1>3 DEF Instalments, Statuses
<1>5. old.paid # old.due /\ ~Closed(first)
  <2>1. old.paid \in Int /\ old.due \in Int
    BY <1>3 DEF Instalments
  <2> QED
    BY <1>1, <1>3, <2>1 DEF Remaining, InstalmentKept
<1> HIDE DEF inst
<1>6. InstalmentKept(inst, first, TRUE, notice)
  BY <1>3, <1>4, <1>5 DEF InstalmentKept
<1> QED
  BY <1>1, <1>2, <1>3, <1>4, <1>6, OneInstalmentKept DEF i, notice, old, first

\* A waiver is for what was unpaid and still is.
LEMMA WaiverKept ==
    ASSUME SchedInv, NEW by, NEW d \in LeaseDeals, NEW number \in Numbers,
           WaiveInstalment(by, d, number), now' = now
    PROVE  SchedInv'
<1> DEFINE i == Position(d, number)
           old == schedule[d][i]
           first == opening[d][i]
           inst == [old EXCEPT !.status = "Waived"]
           notice == [amount |-> Remaining(old), at |-> now]
<1>1. /\ Found(d, number) /\ ~Closed(old)
      /\ schedule' = [schedule EXCEPT ![d][i] = inst]
      /\ schedPaused' = schedPaused /\ opening' = opening
      /\ waiver' = [waiver EXCEPT ![d][number] = notice]
  BY DEF WaiveInstalment
<1>2. /\ old \in Instalments /\ old.number = number
      /\ InstalmentKept(old, first, TRUE, waiver[d][number])
  BY <1>1, FoundTerms
<1>3. notice \in Waivers /\ notice.amount = Remaining(old)
  <2>1. Remaining(old) \in Int /\ now \in Nat
    <3>1. old.paid \in Int /\ old.due \in Int
      BY <1>2 DEF Instalments
    <3> HIDE DEF old
    <3> QED
      BY <3>1 DEF Remaining, SchedInv
  <2> QED
    BY <2>1 DEF Waivers
<1> HIDE DEF i, notice
<1> HIDE DEF old, first
<1>4. /\ inst \in Instalments /\ inst.number = number /\ inst.due = old.due
      /\ inst.paid = old.paid /\ inst.status = "Waived" /\ Remaining(inst) = Remaining(old)
  BY <1>2 DEF Instalments, Statuses, Remaining
<1> HIDE DEF inst
<1>5. notice # None
  BY <1>3, ScheduleAssumption
<1>6. old.status # "Paid" /\ ~Closed(first)
  BY <1>1, <1>2 DEF Closed, InstalmentKept
<1>7. InstalmentKept(inst, first, TRUE, notice)
  BY <1>2, <1>3, <1>4, <1>5, <1>6 DEF InstalmentKept
<1> QED
  BY <1>1, <1>2, <1>3, <1>4, <1>7, OneInstalmentKept DEF i, old, first

\* A new schedule is as it was created, whatever its instalments are.
LEMMA CreationKept ==
    ASSUME SchedInv, NEW by, NEW d \in LeaseDeals, NEW insts \in NewSchedules,
           CreateSchedule(by, d, insts), now' = now
    PROVE  SchedInv'
<1>1. /\ schedule' = [schedule EXCEPT ![d] = insts] /\ opening' = [opening EXCEPT ![d] = insts]
      /\ waiver' = [waiver EXCEPT ![d] = waiver[d]] /\ schedPaused' = schedPaused
      /\ waiver[d] \in [Numbers -> Waivers \cup {None}]
  BY DEF CreateSchedule, SchedInv
<1>2. PICK n \in 0..MaxInstalments :
        insts \in [1..n -> [number : Numbers, due : Dues, paid : PaidBefore, status : Statuses]]
  BY DEF NewSchedules
<1>3. [number : Numbers, due : Dues, paid : PaidBefore, status : Statuses] \subseteq Instalments
  BY ScheduleAssumption DEF Instalments
<1>4. insts \in Seq(Instalments)
  <2>1. n \in Nat /\ insts \in [1..n -> Instalments]
    BY <1>2, <1>3, ScheduleAssumption
  <2> QED
    BY <2>1
<1>5. ScheduleKept(insts, insts, waiver[d])
  <2>1. ASSUME NEW k \in DOMAIN insts
        PROVE  InstalmentKept(insts[k], insts[k], FirstOfItsNumber(insts, k),
                              waiver[d][insts[k].number])
    BY DEF InstalmentKept, Closed
  <2> QED
    BY <1>4, <2>1 DEF ScheduleKept
<1> QED
  BY <1>1, <1>4, <1>5, OneScheduleKept

\* Every entry point of rent_schedule keeps the invariant.
LEMMA SchedInvNext == SchedInv /\ [SchedNext]_SchedState => SchedInv'
<1> SUFFICES ASSUME SchedInv, [SchedNext]_SchedState PROVE SchedInv'
  OBVIOUS
<1>1. ASSUME NEW d \in LeaseDeals, NEW number \in Numbers, NEW amount \in Amounts,
             RecordPayment(d, number, amount), now' = now
      PROVE  SchedInv'
  BY <1>1, PaymentKept
<1>2. ASSUME NEW by, NEW d \in LeaseDeals, NEW insts \in NewSchedules,
             CreateSchedule(by, d, insts), now' = now
      PROVE  SchedInv'
  BY <1>2, CreationKept
<1>3. ASSUME NEW by, NEW d \in LeaseDeals, NEW number \in Numbers,
             MarkOverdue(by, d, number), now' = now
      PROVE  SchedInv'
  BY <1>3, OverdueKept
<1>4. ASSUME NEW by, NEW d \in LeaseDeals, NEW number \in Numbers,
             WaiveInstalment(by, d, number), now' = now
      PROVE  SchedInv'
  BY <1>4, WaiverKept
<1>5. ASSUME UNCHANGED <<schedule, waiver, opening>>, now' \in Nat, schedPaused' \in BOOLEAN
      PROVE  SchedInv'
  BY <1>5 DEF SchedInv, ScheduleKept, InstalmentKept, FirstOfItsNumber, Remaining, Closed
<1>6. ASSUME NEW by, NEW flag \in BOOLEAN, SetSchedPaused(by, flag), now' = now PROVE SchedInv'
  <2>1. UNCHANGED <<schedule, waiver, opening>> /\ now' \in Nat /\ schedPaused' \in BOOLEAN
    BY <1>6 DEF SetSchedPaused, SchedInv
  <2> QED
    BY <1>5, <2>1
<1>7. ASSUME Tick \/ now' = now, UNCHANGED schedVars PROVE SchedInv'
  <2>1. /\ UNCHANGED <<schedule, waiver, opening>> /\ schedPaused' = schedPaused
        /\ now \in Nat /\ schedPaused \in BOOLEAN
    BY <1>7 DEF SchedInv, schedVars
  <2>2. now' \in Nat
    BY <1>7, <2>1 DEF Tick
  <2> QED
    BY <1>5, <2>1, <2>2
<1> QED
  BY <1>1, <1>2, <1>3, <1>4, <1>6, <1>7 DEF SchedNext, SchedState

\* Whatever create_schedule stored, for schedules of any length and instalments of any
\* amounts, statuses and numbers, and whatever order partial payments, overdue marks and
\* waivers come in: what changes of an instalment is accounted for (half of
\* PaymentsAccounted).
THEOREM InstalmentsStayAccounted == SchedSpec => []InstalmentsAccounted
<1>1. now = 0 /\ SchedInit => SchedInv
  BY SchedInvInit
<1>2. SchedInv /\ [SchedNext]_SchedState => SchedInv'
  BY SchedInvNext
<1>3. SchedInv => InstalmentsAccounted
  BY SchedFacts
<1> QED
  BY <1>1, <1>2, <1>3, PTL DEF SchedSpec, SchedState

-----------------------------------------------------------------------------
(* whistleblower_rewards *)

\* A whistleblower's allocations for a listing, and what he was paid for it.
ListingKept(recs, paid) ==
    /\ paid = SumOver([i \in DOMAIN recs |-> recs[i].claimed], DOMAIN recs)
    /\ \A i \in DOMAIN recs :
         /\ recs[i].claimed <= recs[i].amount
         /\ recs[i].status = "Claimed" <=> recs[i].claimed = recs[i].amount
         /\ recs[i].status = "Revoked" => recs[i].claimed = 0

\* The types, and that every list of allocations is kept.
RewardInv ==
    /\ now \in Nat
    /\ rewardOperator \in Callers /\ rewardGuardian \in Callers \cup {None}
    /\ rewardsPaused \in BOOLEAN /\ holdWindow \in Nat /\ rewardPot \in 0..MaxBalance
    /\ allocation \in [Parties -> [Listings -> Seq(Allocations)]]
    /\ rewardPaid \in [Parties -> [Listings -> Nat]]
    /\ \A w \in Parties, l \in Listings : ListingKept(allocation[w][l], rewardPaid[w][l])

\* All that a step of whistleblower_rewards may change.
RewardState == <<now, rewardVars>>

\* The types and the property follow from it.
LEMMA RewardFacts == RewardInv => RewardTypeOK /\ RewardsPaidOnce
<1> SUFFICES ASSUME RewardInv PROVE RewardTypeOK /\ RewardsPaidOnce
  OBVIOUS
<1>1. RewardTypeOK
  BY DEF RewardInv, RewardTypeOK
<1>2. ASSUME NEW w \in Parties, NEW l \in Listings
      PROVE  LET recs == allocation[w][l] IN
             /\ rewardPaid[w][l] = SumOver([i \in DOMAIN recs |-> recs[i].claimed], DOMAIN recs)
             /\ \A i \in DOMAIN recs :
                  /\ recs[i].claimed <= recs[i].amount
                  /\ (recs[i].status = "Claimed") = (recs[i].claimed = recs[i].amount)
                  /\ recs[i].status = "Revoked" => recs[i].claimed = 0
  <2>1. ListingKept(allocation[w][l], rewardPaid[w][l])
    BY DEF RewardInv
  <2> QED
    BY <2>1 DEF ListingKept
<1> QED
  BY <1>1, <1>2 DEF RewardsPaidOnce

\* An empty list is kept.
LEMMA NothingClaimed == ListingKept(<<>>, 0)
<1>1. DOMAIN <<>> = {}
  OBVIOUS
<1>2. SumOver([i \in DOMAIN <<>> |-> <<>>[i].claimed], DOMAIN <<>>) = 0
  BY <1>1, SumOfNone DEF SumOver
<1> QED
  BY <1>1, <1>2 DEF ListingKept

\* Nothing is allocated yet.
LEMMA RewardInvInit == now = 0 /\ RewardInit => RewardInv
<1> SUFFICES ASSUME now = 0, RewardInit PROVE RewardInv
  OBVIOUS
<1>1. rewardOperator \in Callers /\ rewardGuardian \in Callers \cup {None} /\ rewardsPaused \in BOOLEAN
  BY DEF RewardInit
<1>2. holdWindow \in Nat /\ rewardPot \in 0..MaxBalance /\ now \in Nat
  BY WhistleblowerAssumption, PartiesAssumption DEF RewardInit
<1>3. /\ allocation \in [Parties -> [Listings -> Seq(Allocations)]]
      /\ rewardPaid \in [Parties -> [Listings -> Nat]]
      /\ \A w \in Parties, l \in Listings : allocation[w][l] = <<>> /\ rewardPaid[w][l] = 0
  <2> DEFINE S == Seq(Allocations)
  <2>1. <<>> \in S
    OBVIOUS
  <2> HIDE DEF S
  <2>2. /\ allocation \in [Parties -> [Listings -> S]] /\ rewardPaid \in [Parties -> [Listings -> Nat]]
        /\ \A w \in Parties, l \in Listings : allocation[w][l] = <<>> /\ rewardPaid[w][l] = 0
    BY <2>1 DEF RewardInit
  <2> QED
    BY <2>2 DEF S
<1> QED
  BY <1>1, <1>2, <1>3, NothingClaimed DEF RewardInv

\* A step that changes one whistleblower's entries for one listing keeps the
\* invariant if it keeps it there.
LEMMA OneListingKept ==
    ASSUME RewardInv, NEW w \in Parties, NEW l \in Listings, NEW recs \in Seq(Allocations), NEW paid \in Nat,
           UNCHANGED <<now, rewardOperator, rewardGuardian, rewardsPaused, holdWindow>>,
           rewardPot' \in 0..MaxBalance,
           allocation' = [allocation EXCEPT ![w][l] = recs],
           rewardPaid' = [rewardPaid EXCEPT ![w][l] = paid],
           ListingKept(recs, paid)
    PROVE  RewardInv'
<1> DEFINE S == Seq(Allocations)
<1>1. /\ allocation \in [Parties -> [Listings -> S]] /\ recs \in S
      /\ rewardPaid \in [Parties -> [Listings -> Nat]]
  BY DEF RewardInv
<1> HIDE DEF S
<1>2. /\ allocation' \in [Parties -> [Listings -> S]] /\ allocation'[w][l] = recs
      /\ \A v \in Parties, k \in Listings : <<v, k>> # <<w, l>> => allocation'[v][k] = allocation[v][k]
  BY <1>1
<1>3. /\ rewardPaid' \in [Parties -> [Listings -> Nat]] /\ rewardPaid'[w][l] = paid
      /\ \A v \in Parties, k \in Listings : <<v, k>> # <<w, l>> => rewardPaid'[v][k] = rewardPaid[v][k]
  BY <1>1
<1>4. ASSUME NEW v \in Parties, NEW k \in Listings PROVE ListingKept(allocation'[v][k], rewardPaid'[v][k])
  <2>1. CASE <<v, k>> = <<w, l>>
    BY <1>2, <1>3, <2>1
  <2>2. CASE <<v, k>> # <<w, l>>
    BY <1>2, <1>3, <2>2 DEF RewardInv
  <2> QED
    BY <2>1, <2>2
<1>5. /\ now' \in Nat /\ rewardOperator' \in Callers /\ rewardGuardian' \in Callers \cup {None}
      /\ rewardsPaused' \in BOOLEAN /\ holdWindow' \in Nat
  BY DEF RewardInv
<1> QED
  BY <1>2, <1>3, <1>4, <1>5 DEF RewardInv, ListingKept, S

\* The parts of the entries for one listing.
LEMMA ListingParts ==
    ASSUME NEW recs \in Seq(Allocations), NEW paid, ListingKept(recs, paid)
    PROVE  /\ Len(recs) \in Nat /\ DOMAIN recs = 1..Len(recs) /\ IsFiniteSet(1..Len(recs))
           /\ \A i \in DOMAIN recs :
                /\ recs[i] \in Allocations /\ recs[i].amount \in Nat \ {0} /\ recs[i].claimed \in Nat
                /\ recs[i].at \in Nat /\ recs[i].claimed <= recs[i].amount
           /\ paid \in Nat
<1>1. Len(recs) \in Nat /\ DOMAIN recs = 1..Len(recs) /\ \A i \in DOMAIN recs : recs[i] \in Allocations
  OBVIOUS
<1>2. IsFiniteSet(1..Len(recs))
  BY <1>1, FS_Interval
<1>3. \A i \in DOMAIN recs : /\ recs[i].amount \in Amounts /\ recs[i].claimed \in Nat /\ recs[i].at \in Nat
                             /\ recs[i].claimed <= recs[i].amount
  BY <1>1 DEF Allocations, ListingKept
<1>4. paid \in Nat
  <2> DEFINE f == [i \in DOMAIN recs |-> recs[i].claimed]
             D == DOMAIN recs
  <2>1. IsFiniteSet(D) /\ \A i \in D : f[i] \in Nat
    BY <1>1, <1>2, <1>3
  <2>2. paid = SumFunctionOnSet(f, D)
    BY DEF ListingKept, SumOver
  <2> HIDE DEF f, D
  <2> QED
    BY <2>1, <2>2, SumIsNat
<1> QED
  BY <1>1, <1>2, <1>3, <1>4, PartiesAssumption

\* An allocation adds an entry nothing was claimed of.
LEMMA AllocationKept ==
    ASSUME RewardInv, NEW by, NEW w \in Parties, NEW l \in Listings, NEW amount \in Amounts,
           Allocate(by, w, l, amount), now' = now
    PROVE  RewardInv'
<1> DEFINE old == allocation[w][l]
           rec == [amount |-> amount, claimed |-> 0, at |-> now, status |-> "Pending"]
           recs == Append(old, rec)
           paid == rewardPaid[w][l]
           n == Len(old)
<1>1. old \in Seq(Allocations) /\ ListingKept(old, paid) /\ rec \in Allocations /\ paid \in Nat
  <2>1. old \in Seq(Allocations) /\ ListingKept(old, paid) /\ paid \in Nat
    BY DEF RewardInv
  <2>2. rec \in Allocations
    BY DEF RewardInv, Allocations
  <2> QED
    BY <2>1, <2>2
<1>2. /\ allocation' = [allocation EXCEPT ![w][l] = recs]
      /\ rewardPaid' = [rewardPaid EXCEPT ![w][l] = paid]
      /\ UNCHANGED <<now, rewardOperator, rewardGuardian, rewardsPaused, holdWindow>>
      /\ rewardPot' \in 0..MaxBalance
  BY DEF Allocate, RewardInv
<1>3. rec.amount = amount /\ rec.claimed = 0 /\ rec.status = "Pending" /\ amount \in Nat \ {0}
  BY PartiesAssumption
<1> HIDE DEF old, rec, paid
<1>4. /\ n \in Nat /\ DOMAIN old = 1..n /\ recs \in Seq(Allocations) /\ DOMAIN recs = 1..(n + 1)
      /\ recs[n + 1] = rec /\ \A i \in 1..n : recs[i] = old[i]
  BY <1>1, AppendProperties
<1>5. \A i \in 1..n : old[i].claimed \in Nat
  BY <1>1, <1>4, ListingParts
<1> DEFINE p == [i \in DOMAIN old |-> old[i].claimed]
           q == [i \in DOMAIN recs |-> recs[i].claimed]
<1>6. SumOver(q, DOMAIN recs) = SumOver(p, DOMAIN old)
  <2>1. p \in Seq(Nat) /\ Len(p) = n
    BY <1>4, <1>5
  <2> DEFINE r == Append(p, 0)
             D == DOMAIN recs
  <2>2. \A i \in D : q[i] \in Int /\ q[i] = r[i]
    <3> HIDE DEF recs
    <3> SUFFICES ASSUME NEW i \in 1..(n + 1) PROVE q[i] \in Int /\ q[i] = r[i]
      BY <1>4
    <3>1. q[i] = recs[i].claimed
      BY <1>4
    <3>2. CASE i = n + 1
      <4>1. r[i] = 0
        BY <2>1, <3>2, AppendProperties
      <4> QED
        BY <1>3, <1>4, <3>1, <3>2, <4>1
    <3>3. CASE i # n + 1
      <4>1. i \in 1..n
        BY <1>4, <3>3
      <4>2. r[i] = p[i]
        BY <2>1, <4>1, AppendProperties
      <4> QED
        BY <1>4, <1>5, <3>1, <4>1, <4>2
    <3> QED
      BY <3>2, <3>3
  <2>3. IsFiniteSet(D) /\ DOMAIN r = D
    <3>1. IsFiniteSet(1..(n + 1)) /\ DOMAIN r = 1..(n + 1)
      BY <1>4, <2>1, FS_Interval, AppendProperties
    <3> QED
      BY <1>4, <3>1
  <2>4. SumOver(r, DOMAIN r) = SumOver(p, DOMAIN p) + 0 /\ SumOver(p, DOMAIN p) \in Nat
    BY <2>1, SumOfAppend
  <2>5. SumFunctionOnSet(q, D) = SumFunctionOnSet(r, D)
    <3> HIDE DEF q, r, D
    <3> QED
      BY <2>2, <2>3, SumAgrees
  <2>6. DOMAIN p = DOMAIN old
    OBVIOUS
  <2> HIDE DEF p, q, r
  <2>7. SumOver(q, D) = SumOver(r, D)
    BY <2>5 DEF SumOver
  <2> QED
    BY <2>3, <2>4, <2>6, <2>7
<1>7. ListingKept(recs, paid)
  <2>1. paid = SumOver(q, DOMAIN recs)
    BY <1>1, <1>6 DEF ListingKept
  <2>2. ASSUME NEW i \in DOMAIN recs
        PROVE  /\ recs[i].claimed <= recs[i].amount
               /\ recs[i].status = "Claimed" <=> recs[i].claimed = recs[i].amount
               /\ recs[i].status = "Revoked" => recs[i].claimed = 0
    <3> HIDE DEF recs
    <3>1. CASE i = n + 1
      BY <1>3, <1>4, <3>1
    <3>2. CASE i # n + 1
      <4>1. i \in DOMAIN old /\ recs[i] = old[i]
        BY <1>4, <3>2
      <4> QED
        BY <1>1, <4>1 DEF ListingKept
    <3> QED
      BY <3>1, <3>2
  <2> QED
    BY <2>1, <2>2 DEF ListingKept
<1> HIDE DEF recs
<1> QED
  BY <1>1, <1>2, <1>4, <1>7, OneListingKept

\* A revocation is of an allocation nothing was claimed of.
LEMMA RevocationKept ==
    ASSUME RewardInv, NEW by, NEW w \in Parties, NEW l \in Listings, NEW i \in DOMAIN allocation[w][l],
           RevokeAllocation(by, w, l, i), now' = now
    PROVE  RewardInv'
<1> DEFINE old == allocation[w][l]
           rec == [old[i] EXCEPT !.status = "Revoked"]
           recs == [old EXCEPT ![i] = rec]
           paid == rewardPaid[w][l]
<1>1. old \in Seq(Allocations) /\ ListingKept(old, paid) /\ paid \in Nat
  BY DEF RewardInv
<1>2. /\ allocation' = [allocation EXCEPT ![w][l] = recs]
      /\ rewardPaid' = [rewardPaid EXCEPT ![w][l] = paid]
      /\ UNCHANGED <<now, rewardOperator, rewardGuardian, rewardsPaused, holdWindow>>
      /\ rewardPot' \in 0..MaxBalance
      /\ old[i].claimed = 0
  BY DEF RevokeAllocation, RewardInv
<1>3. i \in DOMAIN old
  OBVIOUS
<1> HIDE DEF old, paid
<1>4. /\ old[i] \in Allocations /\ old[i].amount \in Nat \ {0}
      /\ \A j \in DOMAIN old : old[j].claimed \in Nat
      /\ IsFiniteSet(DOMAIN old)
  BY <1>1, <1>3, ListingParts
<1>5. /\ rec \in Allocations /\ rec.claimed = old[i].claimed /\ rec.amount = old[i].amount
      /\ rec.status = "Revoked"
  BY <1>4 DEF Allocations
<1> HIDE DEF rec
<1>6. /\ recs \in Seq(Allocations) /\ DOMAIN recs = DOMAIN old /\ recs[i] = rec
      /\ \A j \in DOMAIN old : j # i => recs[j] = old[j]
  BY <1>1, <1>3, <1>5
<1> HIDE DEF recs
<1> DEFINE p == [j \in DOMAIN old |-> old[j].claimed]
           q == [j \in DOMAIN recs |-> recs[j].claimed]
<1>7. p = q
  <2>1. \A j \in DOMAIN old : old[j].claimed = recs[j].claimed
    BY <1>5, <1>6
  <2> QED
    BY <1>6, <2>1
<1>8. ListingKept(recs, paid)
  <2>1. paid = SumOver(q, DOMAIN recs)
    <3>1. paid = SumOver(p, DOMAIN old)
      BY <1>1 DEF ListingKept
    <3> HIDE DEF p, q
    <3> QED
      BY <1>6, <1>7, <3>1
  <2>2. ASSUME NEW j \in DOMAIN recs
        PROVE  /\ recs[j].claimed <= recs[j].amount
               /\ recs[j].status = "Claimed" <=> recs[j].claimed = recs[j].amount
               /\ recs[j].status = "Revoked" => recs[j].claimed = 0
    <3>1. CASE j = i
      BY <1>2, <1>4, <1>5, <1>6, <3>1
    <3>2. CASE j # i
      BY <1>1, <1>6, <3>2 DEF ListingKept
    <3> QED
      BY <3>1, <3>2
  <2> QED
    BY <2>1, <2>2 DEF ListingKept
<1>9. paid \in Nat
  BY <1>1
<1> QED
  BY <1>2, <1>6, <1>8, <1>9, OneListingKept

\* What may be claimed of an allocation is what is left of it.
LEMMA OpenIsLeft ==
    ASSUME RewardInv, NEW recs \in Seq(Allocations), NEW paid, ListingKept(recs, paid),
           NEW i \in DOMAIN recs
    PROVE  /\ Open(recs[i]) \in Nat /\ Open(recs[i]) <= recs[i].amount - recs[i].claimed
           /\ Open(recs[i]) > 0 => recs[i].status = "Pending"
<1>1. recs[i].amount \in Nat /\ recs[i].claimed \in Nat /\ recs[i].claimed <= recs[i].amount
  BY ListingParts
<1>2. CASE Matured(recs[i])
  BY <1>1, <1>2 DEF Open, Matured
<1>3. CASE ~Matured(recs[i])
  BY <1>1, <1>3 DEF Open
<1> QED
  BY <1>2, <1>3

\* The claimable amounts add up along the allocations.
LEMMA ClaimableAdds ==
    ASSUME RewardInv, NEW w \in Parties, NEW l \in Listings, NEW m \in 0..Len(allocation[w][l])
    PROVE  /\ ClaimableUpTo(w, l, m) \in Nat
           /\ m = 0 => ClaimableUpTo(w, l, m) = 0
           /\ m # 0 => ClaimableUpTo(w, l, m) = ClaimableUpTo(w, l, m - 1) + Open(allocation[w][l][m])
<1> DEFINE recs == allocation[w][l]
           open(k) == [i \in 1..k |-> Open(recs[i])]
<1>1. recs \in Seq(Allocations) /\ ListingKept(recs, rewardPaid[w][l])
  BY DEF RewardInv
<1>2. /\ DOMAIN recs = 1..Len(recs) /\ Len(recs) \in Nat
      /\ \A i \in DOMAIN recs : Open(recs[i]) \in Nat
  BY <1>1, OpenIsLeft
<1> HIDE DEF recs
<1>3. ASSUME NEW k \in 0..Len(recs)
      PROVE  /\ ClaimableUpTo(w, l, k) = SumFunctionOnSet(open(k), 1..k)
             /\ IsFiniteSet(1..k) /\ \A i \in 1..k : open(k)[i] = Open(recs[i]) /\ open(k)[i] \in Nat
  <2>1. ClaimableUpTo(w, l, k) = SumFunctionOnSet(open(k), 1..k)
    BY DEF ClaimableUpTo, SumOver, recs
  <2>2. IsFiniteSet(1..k)
    BY FS_Interval
  <2> QED
    BY <1>2, <2>1, <2>2
<1>4. m \in 0..Len(recs)
  BY DEF recs
<1> HIDE DEF open
<1>5. ClaimableUpTo(w, l, m) \in Nat
  <2> DEFINE f == open(m)
             D == 1..m
  <2>1. ClaimableUpTo(w, l, m) = SumFunctionOnSet(f, D) /\ IsFiniteSet(D) /\ \A i \in D : f[i] \in Nat
    BY <1>3, <1>4
  <2> HIDE DEF f, D
  <2> QED
    BY <2>1, SumIsNat
<1>6. ASSUME m = 0 PROVE ClaimableUpTo(w, l, m) = 0
  <2>1. ClaimableUpTo(w, l, m) = SumFunctionOnSet(open(m), 1..m)
    BY <1>3, <1>4
  <2>2. 1..m = {}
    BY <1>6
  <2> DEFINE f == open(m)
  <2> HIDE DEF f
  <2>3. SumFunctionOnSet(f, {}) = 0
    BY SumOfNone
  <2> QED
    BY <2>1, <2>2, <2>3 DEF f
<1>7. ASSUME m # 0 PROVE ClaimableUpTo(w, l, m) = ClaimableUpTo(w, l, m - 1) + Open(recs[m])
  <2> DEFINE f == open(m)
             g == open(m - 1)
             D == 1..m - 1
  <2>1. m - 1 \in 0..Len(recs) /\ D \cup {m} = 1..m /\ m \notin D /\ m \in Nat
    BY <1>2, <1>4, <1>7
  <2>2. /\ ClaimableUpTo(w, l, m) = SumFunctionOnSet(f, 1..m)
        /\ \A i \in D \cup {m} : f[i] = Open(recs[i]) /\ f[i] \in Int
    BY <1>3, <1>4, <2>1
  <2>3. /\ ClaimableUpTo(w, l, m - 1) = SumFunctionOnSet(g, D) /\ IsFiniteSet(D)
        /\ \A i \in D : g[i] = Open(recs[i]) /\ g[i] \in Int
    <3> DEFINE k == m - 1
    <3>1. k \in 0..Len(recs)
      BY <2>1
    <3> HIDE DEF k
    <3>2. /\ ClaimableUpTo(w, l, k) = SumFunctionOnSet(open(k), 1..k)
          /\ IsFiniteSet(1..k) /\ \A i \in 1..k : open(k)[i] = Open(recs[i]) /\ open(k)[i] \in Nat
      BY <1>3, <3>1
    <3> QED
      BY <3>2 DEF k
  <2> HIDE DEF f, g, D
  <2>4. SumFunctionOnSet(f, D \cup {m}) = SumFunctionOnSet(f, D) + f[m]
    <3>1. \A i \in D \cup {m} : f[i] \in Int
      BY <2>2
    <3>2. IsFiniteSet(D) /\ m \notin D
      BY <2>1, <2>3
    <3> QED
      BY <3>1, <3>2, SumWithOneMore
  <2>5. SumFunctionOnSet(f, D) = SumFunctionOnSet(g, D)
    <3>1. \A i \in D : f[i] \in Int /\ f[i] = g[i]
      BY <2>2, <2>3
    <3> QED
      BY <2>3, <3>1, SumAgrees
  <2> QED
    BY <2>1, <2>2, <2>3, <2>4, <2>5
<1> QED
  BY <1>5, <1>6, <1>7 DEF recs

\* What a claim takes from each allocation, the oldest first, comes to the claim.
LEMMA ClaimTakes ==
    ASSUME RewardInv, NEW w \in Parties, NEW l \in Listings, NEW pays \in Nat,
           pays <= ClaimableReward(w, l)
    PROVE  LET D == 1..Len(allocation[w][l])
               taken == [i \in D |-> Taken(w, l, i, pays)]
           IN  /\ \A i \in D : taken[i] \in 0..Open(allocation[w][l][i])
               /\ SumFunctionOnSet(taken, D) = pays
<1> DEFINE recs == allocation[w][l]
           n == Len(recs)
           D == 1..n
           up(m) == ClaimableUpTo(w, l, m)
           take(i) == Taken(w, l, i, pays)
           taken == [i \in D |-> take(i)]
           open(i) == Open(recs[i])
<1>1. n \in Nat /\ \A i \in D : open(i) \in Nat
  <2>1. recs \in Seq(Allocations) /\ ListingKept(recs, rewardPaid[w][l])
    BY DEF RewardInv
  <2> HIDE DEF recs
  <2>2. Len(recs) \in Nat /\ DOMAIN recs = 1..Len(recs) /\ \A i \in DOMAIN recs : Open(recs[i]) \in Nat
    BY <2>1, OpenIsLeft
  <2> QED
    BY <2>2
<1>2. \A m \in 0..n : up(m) \in Nat /\ (m = 0 => up(m) = 0) /\ (m # 0 => up(m) = up(m - 1) + open(m))
  BY ClaimableAdds
<1>3. pays <= up(n)
  BY DEF ClaimableReward
<1>4. \A i \in D : take(i) = IF up(i - 1) >= pays THEN 0 ELSE AtMost(open(i), pays - up(i - 1))
  BY DEF Taken
<1> HIDE DEF up, take, open, n
<1>5. \A i \in D : i - 1 \in 0..n /\ up(i - 1) \in Nat /\ up(i) = up(i - 1) + open(i) /\ i \in Nat
  BY <1>1, <1>2
<1>6. \A i \in D : take(i) \in 0..open(i)
  BY <1>1, <1>4, <1>5 DEF AtMost
<1>7. \A i \in D : AtMost(up(i - 1), pays) + take(i) = AtMost(up(i), pays)
  BY <1>1, <1>4, <1>5 DEF AtMost
<1> DEFINE share(m) == SumFunctionOnSet(taken, 1..m)
           Bad == {m \in 0..n : share(m) # AtMost(up(m), pays)}
<1>8. Bad = {}
  <2> SUFFICES ASSUME Bad # {} PROVE FALSE
    OBVIOUS
  <2>1. Bad \in SUBSET Nat
    BY <1>1
  <2>2. PICK m \in Bad : \A k \in Bad : m <= k
    <3> HIDE DEF Bad
    <3> QED
      BY <2>1, LeastNumber
  <2>3. m \in 0..n /\ m \in Nat /\ share(m) # AtMost(up(m), pays)
    BY <1>1
  <2>4. m # 0
    <3>1. ASSUME m = 0 PROVE share(m) = 0
      <4>1. 1..m = {}
        BY <3>1
      <4> HIDE DEF taken
      <4> QED
        BY <4>1, SumOfNone
    <3> QED
      BY <1>2, <2>3, <3>1 DEF AtMost
  <2>5. m - 1 \in 0..n /\ m \in D /\ share(m - 1) = AtMost(up(m - 1), pays)
    <3>1. m - 1 \in 0..n /\ m \in D
      BY <1>1, <2>3, <2>4
    <3>2. m - 1 \notin Bad
      BY <2>2, <2>3
    <3> QED
      BY <3>1, <3>2
  <2>6. share(m) = share(m - 1) + take(m)
    <3> DEFINE E == 1..m - 1
    <3>1. E \cup {m} = 1..m /\ m \notin E /\ IsFiniteSet(E) /\ E \cup {m} \subseteq D
      <4>1. IsFiniteSet(E)
        BY <2>3, FS_Interval
      <4>2. E \cup {m} = 1..m /\ m \notin E
        BY <2>3, <2>4
      <4>3. 1..m \subseteq D
        BY <1>1, <2>3
      <4> HIDE DEF E, D
      <4> QED
        BY <4>1, <4>2, <4>3
    <3>2. (\A i \in E \cup {m} : taken[i] \in Int) /\ taken[m] = take(m)
      BY <1>1, <1>6, <2>5, <3>1
    <3> HIDE DEF E, taken, D
    <3>3. SumFunctionOnSet(taken, E \cup {m}) = SumFunctionOnSet(taken, E) + taken[m]
      BY <3>1, <3>2, SumWithOneMore
    <3> QED
      BY <3>1, <3>2, <3>3 DEF E
  <2> HIDE DEF share
  <2> QED
    BY <1>7, <2>3, <2>5, <2>6
<1>9. share(n) = pays
  <2>1. n \in 0..n /\ share(n) = AtMost(up(n), pays)
    BY <1>1, <1>8
  <2> HIDE DEF share
  <2> QED
    BY <1>2, <1>3, <2>1 DEF AtMost
<1>10. \A i \in D : taken[i] \in 0..open(i)
  BY <1>6
<1> HIDE DEF D
<1>11. SumFunctionOnSet(taken, D) = pays
  BY <1>9 DEF D
<1> QED
  BY <1>10, <1>11 DEF D, take, open, n

\* What a claim makes of an allocation is still within it.
LEMMA TakingKeeps ==
    ASSUME RewardInv, NEW recs \in Seq(Allocations), NEW paid, ListingKept(recs, paid),
           NEW i \in DOMAIN recs, NEW take \in 0..Open(recs[i])
    PROVE  LET rec == AfterTaking(recs[i], take)
           IN  /\ rec \in Allocations /\ rec.claimed = recs[i].claimed + take
               /\ rec.claimed <= rec.amount
               /\ rec.status = "Claimed" <=> rec.claimed = rec.amount
               /\ rec.status = "Revoked" => rec.claimed = 0
<1> DEFINE old == recs[i]
           rec == AfterTaking(old, take)
           closes == take > 0 /\ old.claimed + take >= old.amount
<1>1. /\ old \in Allocations /\ old.amount \in Nat \ {0} /\ old.claimed \in Nat
      /\ old.claimed <= old.amount
  BY ListingParts
<1>2. /\ old.status = "Claimed" <=> old.claimed = old.amount
      /\ old.status = "Revoked" => old.claimed = 0
  BY DEF ListingKept
<1>3. /\ Open(old) \in Nat /\ Open(old) <= old.amount - old.claimed
      /\ Open(old) > 0 => old.status = "Pending"
  BY OpenIsLeft
<1>4. take \in Nat /\ old.claimed + take \in Nat /\ old.claimed + take <= old.amount
      /\ (take > 0 => old.status = "Pending")
  <2>1. take \in 0..Open(old)
    OBVIOUS
  <2> DEFINE open == Open(old)
  <2>2. open \in Nat /\ open <= old.amount - old.claimed /\ take \in 0..open
    BY <1>3, <2>1
  <2>3. open > 0 => old.status = "Pending"
    BY <1>3
  <2> HIDE DEF old, open
  <2>4. take \in Nat /\ old.claimed + take \in Nat /\ old.claimed + take <= old.amount
        /\ (take > 0 => open > 0)
    BY <1>1, <2>2
  <2> QED
    BY <2>3, <2>4
<1> HIDE DEF old
<1>5. /\ rec \in Allocations /\ rec.claimed = old.claimed + take /\ rec.amount = old.amount
      /\ rec.status = IF closes THEN "Claimed" ELSE old.status
  BY <1>1, <1>4 DEF AfterTaking, Allocations
<1> HIDE DEF rec
<1>6. CASE closes
  <2>1. rec.status = "Claimed" /\ rec.claimed = rec.amount
    BY <1>1, <1>4, <1>5, <1>6
  <2> QED
    BY <1>1, <1>4, <1>5, <2>1 DEF rec, old
<1>7. CASE ~closes /\ take > 0
  <2>1. rec.status = "Pending" /\ rec.claimed # rec.amount
    BY <1>1, <1>4, <1>5, <1>7
  <2> QED
    BY <1>1, <1>4, <1>5, <2>1 DEF rec, old
<1>8. CASE take = 0
  <2>1. rec.status = old.status /\ rec.claimed = old.claimed
    BY <1>1, <1>5, <1>8
  <2> QED
    BY <1>1, <1>2, <1>4, <1>5, <2>1 DEF rec, old
<1> QED
  BY <1>4, <1>6, <1>7, <1>8

\* A claim is taken out of the allocations and paid out of the pot.
LEMMA ClaimKept ==
    ASSUME RewardInv, NEW w \in Parties, NEW l \in Listings, NEW amount \in Amounts \cup {None},
           ClaimReward(w, l, amount), now' = now
    PROVE  RewardInv'
<1> DEFINE old  == allocation[w][l]
           all  == ClaimableReward(w, l)
           pays == IF amount = None THEN all ELSE amount
           D    == 1..Len(old)
           take(i) == Taken(w, l, i, pays)
           recs == [i \in DOMAIN old |-> AfterTaking(old[i], take(i))]
           paid == rewardPaid[w][l] + pays
<1>1. old \in Seq(Allocations) /\ ListingKept(old, rewardPaid[w][l]) /\ rewardPaid[w][l] \in Nat
  BY DEF RewardInv
<1>2. all \in Nat
  <2>1. Len(old) \in 0..Len(old)
    <3> HIDE DEF old
    <3>1. Len(old) \in Nat
      BY <1>1
    <3> QED
      BY <3>1
  <2> QED
    BY <2>1, ClaimableAdds DEF ClaimableReward
<1>3. pays \in Nat /\ pays <= all /\ rewardPot >= pays
  <2>1. pays <= all /\ rewardPot >= pays
    BY DEF ClaimReward
  <2>2. pays \in Nat
    BY <1>2, PartiesAssumption
  <2> QED
    BY <2>1, <2>2
<1>4. /\ allocation' = [allocation EXCEPT ![w][l] = recs]
      /\ rewardPaid' = [rewardPaid EXCEPT ![w][l] = paid]
      /\ UNCHANGED <<now, rewardOperator, rewardGuardian, rewardsPaused, holdWindow>>
      /\ rewardPot' = rewardPot - pays
  BY DEF ClaimReward
<1> DEFINE taken == [i \in D |-> take(i)]
<1>5. /\ \A i \in D : taken[i] \in 0..Open(old[i])
      /\ SumFunctionOnSet(taken, D) = pays
  <2> HIDE DEF pays
  <2> QED
    BY <1>3, ClaimTakes
<1>6. DOMAIN old = D /\ IsFiniteSet(D)
  <2> HIDE DEF old
  <2> QED
    BY <1>1, ListingParts
<1> HIDE DEF old
<1>7. \A i \in D : Open(old[i]) \in Nat /\ old[i].claimed \in Nat
  BY <1>1, <1>6, ListingParts, OpenIsLeft
<1>8. ASSUME NEW i \in D
      PROVE  /\ recs[i] \in Allocations /\ recs[i].claimed = old[i].claimed + taken[i]
             /\ recs[i].claimed <= recs[i].amount
             /\ recs[i].status = "Claimed" <=> recs[i].claimed = recs[i].amount
             /\ recs[i].status = "Revoked" => recs[i].claimed = 0
  <2>1. taken[i] = take(i) /\ recs[i] = AfterTaking(old[i], take(i)) /\ take(i) \in 0..Open(old[i])
    BY <1>5, <1>6
  <2> HIDE DEF take, recs, taken
  <2> QED
    BY <1>1, <1>6, <2>1, TakingKeeps
<1>9. recs \in Seq(Allocations) /\ DOMAIN recs = D
  <2>1. DOMAIN recs = D
    BY <1>6
  <2> HIDE DEF recs
  <2>2. Len(old) \in Nat
    BY <1>1
  <2>3. recs \in [1..Len(old) -> Allocations]
    <3>1. \A i \in D : recs[i] \in Allocations
      BY <1>8
    <3>2. recs = [i \in D |-> recs[i]]
      BY <2>1 DEF recs
    <3> HIDE DEF recs
    <3> QED
      BY <3>1, <3>2
  <2> QED
    BY <2>1, <2>2, <2>3
<1> DEFINE p == [i \in DOMAIN old |-> old[i].claimed]
           q == [i \in DOMAIN recs |-> recs[i].claimed]
<1>10. SumFunctionOnSet(q, D) = SumFunctionOnSet(p, D) + 1 * SumFunctionOnSet(taken, D)
  <2>1. \A i \in D : p[i] \in Int /\ taken[i] \in Int /\ q[i] = p[i] + 1 * taken[i]
    <3> SUFFICES ASSUME NEW i \in D PROVE p[i] \in Int /\ taken[i] \in Int /\ q[i] = p[i] + 1 * taken[i]
      OBVIOUS
    <3>1. p[i] = old[i].claimed /\ q[i] = recs[i].claimed
      BY <1>6, <1>9
    <3>2. recs[i].claimed = old[i].claimed + taken[i]
      BY <1>8
    <3> HIDE DEF p, q, taken, recs
    <3>3. taken[i] \in Nat /\ old[i].claimed \in Nat
      BY <1>5, <1>7
    <3> QED
      BY <3>1, <3>2, <3>3
  <2> HIDE DEF p, q, taken, D
  <2> QED
    BY <1>6, <2>1, SumIsLinear
<1>11. paid \in Nat /\ paid = SumOver(q, DOMAIN recs)
  <2>1. rewardPaid[w][l] = SumFunctionOnSet(p, D)
    BY <1>1, <1>6 DEF ListingKept, SumOver
  <2> HIDE DEF p, q, taken, pays, D
  <2>2. paid = SumFunctionOnSet(q, D) /\ paid \in Nat
    BY <1>1, <1>3, <1>5, <1>10, <2>1
  <2> HIDE DEF paid, recs
  <2> QED
    BY <1>9, <2>2 DEF SumOver
<1>12. ListingKept(recs, paid)
  <2> HIDE DEF paid
  <2>1. paid = SumOver([i \in DOMAIN recs |-> recs[i].claimed], DOMAIN recs)
    BY <1>11
  <2> HIDE DEF recs
  <2> QED
    BY <1>8, <1>9, <2>1 DEF ListingKept
<1>13. rewardPot' \in 0..MaxBalance
  <2>1. rewardPot \in 0..MaxBalance /\ MaxBalance \in Nat
    BY PartiesAssumption DEF RewardInv
  <2> HIDE DEF pays
  <2> QED
    BY <1>3, <1>4, <2>1
<1> HIDE DEF recs, paid
<1> QED
  BY <1>4, <1>9, <1>11, <1>12, <1>13, OneListingKept

\* Every entry point of whistleblower_rewards keeps the invariant.
LEMMA RewardInvNext == RewardInv /\ [RewardNext]_RewardState => RewardInv'
<1> SUFFICES ASSUME RewardInv, [RewardNext]_RewardState PROVE RewardInv'
  OBVIOUS
<1> DEFINE Terms == /\ now' \in Nat
                    /\ rewardOperator' \in Callers /\ rewardGuardian' \in Callers \cup {None}
                    /\ rewardsPaused' \in BOOLEAN /\ holdWindow' \in Nat /\ rewardPot' \in 0..MaxBalance
                    /\ UNCHANGED <<allocation, rewardPaid>>
<1>0. /\ now \in Nat /\ rewardOperator \in Callers /\ rewardGuardian \in Callers \cup {None}
      /\ rewardsPaused \in BOOLEAN /\ holdWindow \in Nat /\ rewardPot \in 0..MaxBalance
  BY DEF RewardInv
<1>1. Terms => RewardInv'
  BY DEF RewardInv, ListingKept
<1>2. ASSUME NEW w \in Parties, NEW l \in Listings, NEW amount \in Amounts \cup {None},
             ClaimReward(w, l, amount), now' = now
      PROVE  RewardInv'
  BY <1>2, ClaimKept
<1>3. ASSUME NEW by, NEW w \in Parties, NEW l \in Listings, NEW amount \in Amounts,
             Allocate(by, w, l, amount), now' = now
      PROVE  RewardInv'
  BY <1>3, AllocationKept
<1>4. ASSUME NEW by, NEW w \in Parties, NEW l \in Listings, NEW i \in DOMAIN allocation[w][l],
             RevokeAllocation(by, w, l, i), now' = now
      PROVE  RewardInv'
  BY <1>4, RevocationKept
<1>5. ASSUME NEW amount \in Amounts, FundRewards(amount), now' = now PROVE Terms
  <2>1. /\ rewardPot + amount <= MaxBalance /\ rewardPot' = rewardPot + amount
        /\ UNCHANGED <<rewardOperator, rewardGuardian, rewardsPaused, holdWindow, allocation, rewardPaid>>
    BY <1>5 DEF FundRewards
  <2>2. rewardPot' \in 0..MaxBalance
    BY <1>0, <2>1, PartiesAssumption
  <2> QED
    BY <1>0, <1>5, <2>1, <2>2
<1>6. ASSUME NEW by, NEW window \in HoldWindows, SetHoldWindow(by, window), now' = now PROVE Terms
  BY <1>0, <1>6, WhistleblowerAssumption DEF SetHoldWindow
<1>7. ASSUME NEW by, NEW a \in Callers, SetRewardOperator(by, a) \/ SetRewardGuardian(by, a), now' = now
      PROVE  Terms
  BY <1>0, <1>7 DEF SetRewardOperator, SetRewardGuardian
<1>8. ASSUME NEW by, NEW flag \in BOOLEAN, SetRewardsPaused(by, flag), now' = now PROVE Terms
  BY <1>0, <1>8 DEF SetRewardsPaused
<1>9. ASSUME Tick \/ now' = now, UNCHANGED rewardVars PROVE Terms
  BY <1>0, <1>9 DEF Tick, rewardVars
<1> HIDE DEF Terms
<1> QED
  BY <1>1, <1>2, <1>3, <1>4, <1>5, <1>6, <1>7, <1>8, <1>9 DEF RewardNext, RewardState

\* Every token a whistleblower was paid for a listing was taken from one of his
\* allocations for it, and none twice, whatever claims, revocations and changes of the
\* hold window came before, for any number of allocations (half of ClaimsPaidOnce).
THEOREM RewardsStayPaidOnce == RewardSpec => []RewardsPaidOnce
<1>1. now = 0 /\ RewardInit => RewardInv
  BY RewardInvInit
<1>2. RewardInv /\ [RewardNext]_RewardState => RewardInv'
  BY RewardInvNext
<1>3. RewardInv => RewardsPaidOnce
  BY RewardFacts
<1> QED
  BY <1>1, <1>2, <1>3, PTL DEF RewardSpec, RewardState

-----------------------------------------------------------------------------
(* rent_payments *)

\* A deal's receipts are in the order they were made, each with its own counter,
\* id and reference.
InOrder(recs) ==
    \A i, j \in DOMAIN recs : i < j =>
        /\ recs[i].timestamp <= recs[j].timestamp
        /\ recs[i].counter < recs[j].counter /\ recs[i].id < recs[j].id
        /\ recs[i].reference # recs[j].reference

\* What was handed out and used is counted and kept.
Counted(d) ==
    \A i \in DOMAIN receipts[d] :
        /\ receipts[d][i].counter <= receiptCount[CounterDeal]
        /\ receipts[d][i].id <= receiptCount[d]
        /\ receipts[d][i].timestamp <= now
        /\ <<d, receipts[d][i].reference>> \in usedReference

\* The client has a prefix, and its cursor is at the end of it.
ReaderKept(r) ==
    /\ Len(r.got) <= Len(receipts[r.deal])
    /\ \A i \in 1..Len(r.got) : r.got[i] = receipts[r.deal][i]
    /\ r.done \/ (IF r.cursor = None THEN r.got = <<>>
                  ELSE r.got # <<>> /\ r.cursor = CursorOf(r.got[Len(r.got)]))

\* No counter was handed out for two deals.
CountersApart ==
    \A d, e \in ReceiptDeals : d # e =>
        \A i \in DOMAIN receipts[d], j \in DOMAIN receipts[e] :
            receipts[d][i].counter # receipts[e][j].counter

\* The types, the lists of the deals, and what the client has of them.
PayInv ==
    /\ now \in Nat /\ payPaused \in BOOLEAN
    /\ receipts \in [ReceiptDeals -> Seq(Receipts)] /\ receiptCount \in [CountedDeals -> Nat]
    /\ usedReference \in SUBSET (ReceiptDeals \X References)
    /\ reader \in Readers \cup {None}
    /\ \A d \in ReceiptDeals : InOrder(receipts[d]) /\ Counted(d)
    /\ CountersApart
    /\ reader # None => ReaderKept(reader)

\* All that a step of rent_payments, or of its client, may change.
PayState == <<now, payVars>>

\* The properties are parts of it.
LEMMA PayFacts == PayInv => PayTypeOK /\ ReceiptsUnique /\ PagesComplete
<1> SUFFICES ASSUME PayInv PROVE PayTypeOK /\ ReceiptsUnique /\ PagesComplete
  OBVIOUS
<1>1. PayTypeOK
  BY DEF PayInv, PayTypeOK
<1>2. ReceiptsUnique
  <2> SUFFICES ASSUME NEW d \in ReceiptDeals, NEW e \in ReceiptDeals,
                      NEW i \in DOMAIN receipts[d], NEW j \in DOMAIN receipts[e], <<d, i>> # <<e, j>>
               PROVE  /\ receipts[d][i].counter # receipts[e][j].counter
                      /\ d = e => /\ receipts[d][i].reference # receipts[e][j].reference
                                  /\ receipts[d][i].id # receipts[e][j].id
    BY DEF ReceiptsUnique
  <2>1. CASE d # e
    BY <2>1 DEF PayInv, CountersApart
  <2>2. CASE d = e
    <3> DEFINE recs == receipts[d]
    <3>1. recs \in Seq(Receipts) /\ InOrder(recs) /\ i \in DOMAIN recs /\ j \in DOMAIN recs /\ i # j
      BY <2>2 DEF PayInv
    <3> HIDE DEF recs
    <3>2. /\ i \in Nat /\ j \in Nat /\ recs[i] \in Receipts /\ recs[j] \in Receipts
      BY <3>1
    <3>3. /\ recs[i].counter \in Nat /\ recs[j].counter \in Nat /\ recs[i].id \in Nat /\ recs[j].id \in Nat
      BY <3>2 DEF Receipts
    <3>4. /\ recs[i].counter # recs[j].counter /\ recs[i].id # recs[j].id
          /\ recs[i].reference # recs[j].reference
      <4>1. CASE i < j
        BY <3>1, <3>3, <4>1 DEF InOrder
      <4>2. CASE j < i
        BY <3>1, <3>3, <4>2 DEF InOrder
      <4> QED
        BY <3>1, <3>2, <4>1, <4>2
    <3> QED
      BY <2>2, <3>4 DEF recs
  <2> QED
    BY <2>1, <2>2
<1>3. PagesComplete
  <2> SUFFICES ASSUME reader # None
               PROVE  /\ Len(reader.got) <= Len(receipts[reader.deal])
                      /\ reader.got = SubSeq(receipts[reader.deal], 1, Len(reader.got))
    BY DEF PagesComplete
  <2> DEFINE got == reader.got
             recs == receipts[reader.deal]
  <2>1. reader \in Readers /\ ReaderKept(reader)
    BY DEF PayInv
  <2>2. got \in Seq(Receipts) /\ reader.deal \in ReceiptDeals
    BY <2>1 DEF Readers
  <2>3. recs \in Seq(Receipts)
    BY <2>2 DEF PayInv
  <2>4. Len(got) <= Len(recs) /\ \A i \in 1..Len(got) : got[i] = recs[i]
    BY <2>1 DEF ReaderKept
  <2> HIDE DEF got, recs
  <2>5. got = SubSeq(recs, 1, Len(got))
    BY <2>2, <2>3, <2>4
  <2> QED
    BY <2>4, <2>5 DEF got, recs
<1> QED
  BY <1>1, <1>2, <1>3

\* There are no receipts and no client yet.
LEMMA PayInvInit == now = 0 /\ PayInit => PayInv
<1> SUFFICES ASSUME now = 0, PayInit PROVE PayInv
  OBVIOUS
<1>1. now \in Nat /\ payPaused \in BOOLEAN /\ reader = None
  BY DEF PayInit
<1>2. receiptCount \in [CountedDeals -> Nat] /\ usedReference \in SUBSET (ReceiptDeals \X References)
  BY DEF PayInit
<1>3. /\ receipts \in [ReceiptDeals -> Seq(Receipts)]
      /\ \A d \in ReceiptDeals : receipts[d] = <<>> /\ DOMAIN receipts[d] = {}
  <2> DEFINE S == Seq(Receipts)
  <2>1. <<>> \in S /\ DOMAIN <<>> = {}
    OBVIOUS
  <2> HIDE DEF S
  <2>2. receipts \in [ReceiptDeals -> S] /\ \A d \in ReceiptDeals : receipts[d] = <<>>
    BY <2>1 DEF PayInit
  <2> QED
    BY <2>1, <2>2 DEF S
<1>4. \A d \in ReceiptDeals : InOrder(receipts[d]) /\ Counted(d)
  BY <1>3 DEF InOrder, Counted
<1>5. CountersApart
  BY <1>3 DEF CountersApart
<1> QED
  BY <1>1, <1>2, <1>3, <1>4, <1>5 DEF PayInv

\* The receipts are appended in the order of the sort: it leaves them as they are.
LEMMA SortKeeps ==
    ASSUME PayInv, NEW d \in ReceiptDeals
    PROVE  Listed(d) = receipts[d]
<1> DEFINE recs == receipts[d]
           D == DOMAIN recs
<1>1. recs \in Seq(Receipts) /\ InOrder(recs)
  BY DEF PayInv
<1>2. D = 1..Len(recs) /\ Len(recs) \in Nat /\ recs = [k \in D |-> recs[k]]
  <2> HIDE DEF recs
  <2> QED
    BY <1>1
<1>3. \A k \in D : recs[k].timestamp \in Nat /\ recs[k].counter \in Nat
  <2>1. \A k \in D : recs[k] \in Receipts
    <3> HIDE DEF recs
    <3> QED
      BY <1>1
  <2> QED
    BY <2>1 DEF Receipts
<1> HIDE DEF recs, D
<1>4. ASSUME NEW i \in D, NEW j \in D
      PROVE  (Before(recs[j], recs[i]) \/ (j <= i /\ ~Before(recs[i], recs[j]))) <=> j <= i
  <2>1. i \in Nat /\ j \in Nat
    BY <1>2
  <2>2. ASSUME j < i PROVE Before(recs[j], recs[i]) /\ j <= i
    <3>1. recs[j].timestamp <= recs[i].timestamp /\ recs[j].counter < recs[i].counter
      BY <1>1, <2>2 DEF InOrder, D
    <3> QED
      BY <1>3, <2>1, <2>2, <3>1 DEF Before
  <2>3. ASSUME i < j PROVE ~Before(recs[j], recs[i]) /\ ~(j <= i)
    <3>1. recs[i].timestamp <= recs[j].timestamp /\ recs[i].counter < recs[j].counter
      BY <1>1, <2>3 DEF InOrder, D
    <3> QED
      BY <1>3, <2>1, <2>3, <3>1 DEF Before
  <2>4. ASSUME i = j PROVE ~Before(recs[i], recs[j]) /\ j <= i
    BY <1>3, <2>1, <2>4 DEF Before
  <2> QED
    BY <2>1, <2>2, <2>3, <2>4
<1>5. ASSUME NEW i \in D PROVE SortedPlace(d, i) = i
  <2> DEFINE Ahead == {j \in D : Before(recs[j], recs[i]) \/ (j <= i /\ ~Before(recs[i], recs[j]))}
  <2>1. SortedPlace(d, i) = Cardinality(Ahead)
    BY DEF SortedPlace, recs, D
  <2>2. Ahead = {j \in D : j <= i}
    BY <1>4
  <2>3. {j \in D : j <= i} = 1..i /\ i \in Nat
    BY <1>2
  <2>4. Cardinality(1..i) = i
    BY <2>3, FS_Interval
  <2> QED
    BY <2>1, <2>2, <2>3, <2>4
<1>6. \A k \in D : (CHOOSE i \in D : SortedPlace(d, i) = k) = k
  <2> SUFFICES ASSUME NEW k \in D PROVE (CHOOSE i \in D : SortedPlace(d, i) = k) = k
    OBVIOUS
  <2> DEFINE c == CHOOSE i \in D : SortedPlace(d, i) = k
  <2>1. c \in D /\ SortedPlace(d, c) = k
    BY <1>5
  <2> HIDE DEF c
  <2>2. c = k
    BY <1>5, <2>1
  <2> QED
    BY <2>2 DEF c
<1>7. Listed(d) = [k \in D |-> recs[CHOOSE i \in D : SortedPlace(d, i) = k]]
  BY DEF Listed, recs, D
<1>8. Listed(d) = [k \in D |-> recs[k]]
  BY <1>6, <1>7
<1> QED
  BY <1>2, <1>8 DEF recs

\* A receipt's counters are above all that were handed out, and its reference is
\* new to the deal.
LEMMA CreateReceiptKeeps ==
    ASSUME PayInv, NEW d \in ReceiptDeals, NEW reference \in References,
           CreateReceipt(d, reference), UNCHANGED now
    PROVE  PayInv'
<1> DEFINE r == [id |-> ReceiptId(d), timestamp |-> now, counter |-> GlobalCounter(d),
                 reference |-> reference]
           S == Seq(Receipts)
<1>1. /\ now \in Nat /\ receipts \in [ReceiptDeals -> S] /\ receiptCount \in [CountedDeals -> Nat]
      /\ usedReference \in SUBSET (ReceiptDeals \X References) /\ <<d, reference>> \notin usedReference
      /\ d \in CountedDeals /\ CounterDeal \in CountedDeals
  BY DEF PayInv, CreateReceipt, CountedDeals
<1>2. /\ receiptCount' = [receiptCount EXCEPT ![d] = ReceiptId(d), ![CounterDeal] = GlobalCounter(d)]
      /\ receipts' = [receipts EXCEPT ![d] = Append(receipts[d], r)]
      /\ usedReference' = usedReference \cup {<<d, reference>>}
      /\ UNCHANGED <<payPaused, reader, now>>
  BY DEF CreateReceipt
<1>3. /\ ReceiptId(d) \in Nat /\ GlobalCounter(d) \in Nat /\ ReceiptId(d) = receiptCount[d] + 1
      /\ GlobalCounter(d) > receiptCount[CounterDeal]
      /\ d = CounterDeal => GlobalCounter(d) > ReceiptId(d)
  BY <1>1 DEF ReceiptId, GlobalCounter
<1>4. /\ r \in Receipts /\ r.id = ReceiptId(d) /\ r.timestamp = now /\ r.counter = GlobalCounter(d)
      /\ r.reference = reference
  BY <1>1, <1>3 DEF Receipts
<1> HIDE DEF r
<1>5. /\ receiptCount' \in [CountedDeals -> Nat] /\ receiptCount'[CounterDeal] = GlobalCounter(d)
      /\ \A e \in CountedDeals : receiptCount[e] \in Nat /\ receiptCount'[e] >= receiptCount[e]
      /\ receiptCount'[d] >= ReceiptId(d)
  <2>1. receiptCount' \in [CountedDeals -> Nat] /\ receiptCount'[CounterDeal] = GlobalCounter(d)
    BY <1>1, <1>2, <1>3
  <2>2. d # CounterDeal => receiptCount'[d] = ReceiptId(d)
    BY <1>1, <1>2
  <2>3. \A e \in CountedDeals : e # d /\ e # CounterDeal => receiptCount'[e] = receiptCount[e]
    BY <1>1, <1>2
  <2>4. \A e \in CountedDeals : receiptCount[e] \in Nat
    BY <1>1
  <2>5. receiptCount'[d] >= ReceiptId(d)
    BY <1>3, <2>1, <2>2
  <2>6. receiptCount'[CounterDeal] >= receiptCount[CounterDeal]
    BY <1>1, <1>3, <2>1, <2>4
  <2>7. receiptCount'[d] >= receiptCount[d]
    BY <1>1, <1>3, <2>2, <2>4, <2>6
  <2>8. ASSUME NEW e \in CountedDeals PROVE receiptCount'[e] >= receiptCount[e]
    BY <2>3, <2>4, <2>6, <2>7
  <2> QED
    BY <2>1, <2>4, <2>5, <2>8
<1>6. receipts[d] \in Seq(Receipts) /\ Append(receipts[d], r) \in S
  BY <1>1, <1>4
<1> HIDE DEF S
<1>7. /\ receipts' \in [ReceiptDeals -> S] /\ receipts'[d] = Append(receipts[d], r)
      /\ \A e \in ReceiptDeals : e # d => receipts'[e] = receipts[e]
  BY <1>1, <1>2, <1>6
<1>8. /\ Len(receipts'[d]) = Len(receipts[d]) + 1 /\ receipts'[d][Len(receipts[d]) + 1] = r
      /\ DOMAIN receipts'[d] = DOMAIN receipts[d] \cup {Len(receipts[d]) + 1}
      /\ DOMAIN receipts[d] = 1..Len(receipts[d]) /\ Len(receipts[d]) \in Nat
      /\ \A i \in DOMAIN receipts[d] : receipts'[d][i] = receipts[d][i]
  BY <1>6, <1>7
<1> DEFINE top == Len(receipts[d]) + 1
<1>9. \A e \in ReceiptDeals : \A i \in DOMAIN receipts[e] :
        /\ receipts[e][i] \in Receipts
        /\ receipts[e][i].counter \in Nat /\ receipts[e][i].id \in Nat /\ receipts[e][i].timestamp \in Nat
  <2> SUFFICES ASSUME NEW e \in ReceiptDeals, NEW i \in DOMAIN receipts[e]
               PROVE  /\ receipts[e][i] \in Receipts
                      /\ receipts[e][i].counter \in Nat /\ receipts[e][i].id \in Nat
                      /\ receipts[e][i].timestamp \in Nat
    OBVIOUS
  <2>1. receipts[e] \in Seq(Receipts)
    BY <1>1 DEF S
  <2>2. receipts[e][i] \in Receipts
    BY <2>1
  <2> QED
    BY <2>2 DEF Receipts
<1>10. \A e \in ReceiptDeals : \A i \in DOMAIN receipts[e] :
        /\ receipts[e][i].counter <= receiptCount[CounterDeal]
        /\ receipts[e][i].id <= receiptCount[e]
        /\ receipts[e][i].timestamp <= now
        /\ <<e, receipts[e][i].reference>> \in usedReference
  BY DEF PayInv, Counted
<1>11. \A e \in ReceiptDeals : \A i \in DOMAIN receipts[e] : receipts[e][i].counter < r.counter
  <2> SUFFICES ASSUME NEW e \in ReceiptDeals, NEW i \in DOMAIN receipts[e]
               PROVE  receipts[e][i].counter < r.counter
    OBVIOUS
  <2>1. receipts[e][i].counter \in Nat /\ receipts[e][i].counter <= receiptCount[CounterDeal]
    BY <1>9, <1>10
  <2>2. receiptCount[CounterDeal] \in Nat
    BY <1>1
  <2> QED
    BY <1>3, <1>4, <2>1, <2>2
<1>12. \A i \in DOMAIN receipts[d] : receipts[d][i].id < r.id
  <2> SUFFICES ASSUME NEW i \in DOMAIN receipts[d] PROVE receipts[d][i].id < r.id
    OBVIOUS
  <2>1. receipts[d][i].id \in Nat /\ receipts[d][i].id <= receiptCount[d] /\ receiptCount[d] \in Nat
    BY <1>1, <1>9, <1>10
  <2> QED
    BY <1>3, <1>4, <2>1
<1>13. ASSUME NEW e \in ReceiptDeals PROVE InOrder(receipts'[e])
  <2>1. InOrder(receipts[e])
    BY DEF PayInv
  <2>2. CASE e # d
    BY <1>7, <2>1, <2>2
  <2>3. CASE e = d
    <3> SUFFICES ASSUME NEW i \in DOMAIN receipts'[d], NEW j \in DOMAIN receipts'[d], i < j
                 PROVE  /\ receipts'[d][i].timestamp <= receipts'[d][j].timestamp
                        /\ receipts'[d][i].counter < receipts'[d][j].counter
                        /\ receipts'[d][i].id < receipts'[d][j].id
                        /\ receipts'[d][i].reference # receipts'[d][j].reference
      BY <2>3 DEF InOrder
    <3>1. i \in DOMAIN receipts[d]
      BY <1>8
    <3>2. CASE j \in DOMAIN receipts[d]
      <4>1. /\ receipts[d][i].timestamp <= receipts[d][j].timestamp
            /\ receipts[d][i].counter < receipts[d][j].counter /\ receipts[d][i].id < receipts[d][j].id
            /\ receipts[d][i].reference # receipts[d][j].reference
        BY <2>1, <2>3, <3>1, <3>2 DEF InOrder
      <4> QED
        BY <1>8, <3>1, <3>2, <4>1
    <3>3. CASE j = top
      <4>1. receipts'[d][i] = receipts[d][i] /\ receipts'[d][j] = r
        BY <1>8, <3>1, <3>3
      <4>2. receipts[d][i].timestamp <= r.timestamp
        BY <1>4, <1>10, <3>1
      <4>3. receipts[d][i].reference # r.reference
        BY <1>1, <1>4, <1>10, <3>1
      <4> QED
        BY <1>11, <1>12, <3>1, <4>1, <4>2, <4>3
    <3> QED
      BY <1>8, <3>2, <3>3
  <2> QED
    BY <2>2, <2>3
<1>14. ASSUME NEW e \in ReceiptDeals, NEW i \in DOMAIN receipts'[e]
       PROVE  /\ receipts'[e][i].counter <= receiptCount'[CounterDeal]
              /\ receipts'[e][i].id <= receiptCount'[e]
              /\ receipts'[e][i].timestamp <= now'
              /\ <<e, receipts'[e][i].reference>> \in usedReference'
  <2>1. CASE i \in DOMAIN receipts[e]
    <3>1. receipts'[e][i] = receipts[e][i]
      BY <1>7, <1>8, <2>1
    <3>2. receipts[e][i].counter \in Nat /\ receipts[e][i].id \in Nat /\ receipts[e][i].timestamp \in Nat
      BY <1>9, <2>1
    <3>3. e \in CountedDeals
      BY DEF CountedDeals
    <3>4. /\ receipts[e][i].counter <= receiptCount[CounterDeal]
          /\ receipts[e][i].id <= receiptCount[e]
          /\ receipts[e][i].timestamp <= now
          /\ <<e, receipts[e][i].reference>> \in usedReference
      BY <1>10, <2>1
    <3>5. /\ receiptCount[e] \in Nat /\ receiptCount'[e] >= receiptCount[e] /\ receiptCount'[e] \in Nat
          /\ receiptCount[CounterDeal] \in Nat /\ receiptCount'[CounterDeal] >= receiptCount[CounterDeal]
          /\ receiptCount'[CounterDeal] \in Nat
      BY <1>1, <1>5, <3>3
    <3> HIDE DEF r
    <3>6. receipts'[e][i].counter <= receiptCount'[CounterDeal] /\ receipts'[e][i].id <= receiptCount'[e]
      BY <3>1, <3>2, <3>4, <3>5
    <3> QED
      BY <1>2, <3>1, <3>4, <3>6
  <2>2. CASE e = d /\ i = top
    <3>1. receipts'[e][i] = r
      BY <1>8, <2>2
    <3> QED
      BY <1>1, <1>2, <1>3, <1>4, <1>5, <2>2, <3>1
  <2> QED
    BY <1>7, <1>8, <2>1, <2>2
<1>15. \A e \in ReceiptDeals : Counted(e)'
  BY <1>14 DEF Counted
<1>16. CountersApart'
  <2> SUFFICES ASSUME NEW a \in ReceiptDeals, NEW e \in ReceiptDeals, a # e,
                      NEW i \in DOMAIN receipts'[a], NEW j \in DOMAIN receipts'[e]
               PROVE  receipts'[a][i].counter # receipts'[e][j].counter
    BY DEF CountersApart
  <2>1. i \in DOMAIN receipts[a] \/ (a = d /\ i = top)
    BY <1>7, <1>8
  <2>2. j \in DOMAIN receipts[e] \/ (e = d /\ j = top)
    BY <1>7, <1>8
  <2>3. CASE i \in DOMAIN receipts[a] /\ j \in DOMAIN receipts[e]
    <3>1. receipts[a][i].counter # receipts[e][j].counter
      BY <2>3 DEF PayInv, CountersApart
    <3>2. receipts'[a][i] = receipts[a][i] /\ receipts'[e][j] = receipts[e][j]
      BY <1>7, <1>8, <2>3
    <3> QED
      BY <3>1, <3>2
  <2>4. CASE a = d /\ i = top
    <3>1. j \in DOMAIN receipts[e] /\ receipts'[e][j] = receipts[e][j] /\ receipts'[a][i] = r
      BY <1>7, <1>8, <2>2, <2>4
    <3> QED
      BY <1>3, <1>4, <1>9, <1>11, <3>1
  <2>5. CASE e = d /\ j = top
    <3>1. i \in DOMAIN receipts[a] /\ receipts'[a][i] = receipts[a][i] /\ receipts'[e][j] = r
      BY <1>7, <1>8, <2>1, <2>5
    <3> QED
      BY <1>3, <1>4, <1>9, <1>11, <3>1
  <2> QED
    BY <2>1, <2>2, <2>3, <2>4, <2>5
<1>17. reader' # None => ReaderKept(reader)'
  <2> SUFFICES ASSUME reader # None PROVE ReaderKept(reader)'
    BY <1>2
  <2>1. reader \in Readers /\ ReaderKept(reader) /\ reader' = reader
    BY <1>2 DEF PayInv
  <2>2. reader.deal \in ReceiptDeals /\ Len(reader.got) \in Nat
    BY <2>1 DEF Readers
  <2>3. /\ Len(receipts[reader.deal]) \in Nat /\ DOMAIN receipts[reader.deal] = 1..Len(receipts[reader.deal])
        /\ Len(receipts'[reader.deal]) >= Len(receipts[reader.deal])
        /\ \A i \in DOMAIN receipts[reader.deal] :
             receipts'[reader.deal][i] = receipts[reader.deal][i]
    <3>1. CASE reader.deal = d
      BY <1>8, <3>1
    <3>2. CASE reader.deal # d
      <4>1. receipts[reader.deal] \in Seq(Receipts)
        BY <1>1, <2>2 DEF S
      <4> QED
        BY <1>7, <2>2, <3>2, <4>1
    <3> QED
      BY <3>1, <3>2
  <2>4. /\ Len(reader.got) <= Len(receipts[reader.deal])
        /\ \A i \in 1..Len(reader.got) : reader.got[i] = receipts[reader.deal][i]
    BY <2>1 DEF ReaderKept
  <2>5. Len(reader.got) <= Len(receipts'[reader.deal])
    <3> DEFINE g == Len(reader.got)
               m == Len(receipts[reader.deal])
               n == Len(receipts'[reader.deal])
    <3>1. n \in Nat
      <4>1. receipts'[reader.deal] \in Seq(Receipts)
        BY <1>7, <2>2 DEF S
      <4> QED
        BY <4>1
    <3>2. g \in Nat /\ m \in Nat /\ g <= m /\ n >= m
      BY <2>2, <2>3, <2>4
    <3> HIDE DEF g, m, n
    <3>3. g <= n
      BY <3>1, <3>2
    <3> QED
      BY <3>3 DEF g, n
  <2>6. \A i \in 1..Len(reader.got) : reader.got[i] = receipts'[reader.deal][i]
    BY <2>2, <2>3, <2>4
  <2> QED
    BY <2>1, <2>5, <2>6 DEF ReaderKept
<1>18. usedReference' \in SUBSET (ReceiptDeals \X References) /\ reader' \in Readers \cup {None}
       /\ payPaused' \in BOOLEAN /\ now' \in Nat
  BY <1>1, <1>2 DEF PayInv
<1> QED
  BY <1>5, <1>7, <1>13, <1>15, <1>16, <1>17, <1>18 DEF PayInv, S

\* The next page starts right behind what the client has.
LEMMA PageFollows ==
    ASSUME PayInv, reader # None, ~reader.done, NEW limit \in Limits
    PROVE  LET d == reader.deal
               g == Len(reader.got)
               e == PageEnd(d, reader.cursor, limit)
           IN  /\ e \in Nat /\ g <= e /\ e <= Len(receipts[d])
               /\ Page(d, reader.cursor, limit) = SubSeq(receipts[d], g + 1, e)
<1> DEFINE d == reader.deal
           g == Len(reader.got)
           recs == receipts[d]
           n == Len(recs)
           c == reader.cursor
           e == PageEnd(d, c, limit)
           Passed == {i \in DOMAIN recs : c # None /\ ~Before(c, recs[i])}
<1>1. /\ reader \in Readers /\ ReaderKept(reader) /\ limit \in 1..100
      /\ receipts \in [ReceiptDeals -> Seq(Receipts)]
  BY PaymentsAssumption DEF PayInv
<1>2. d \in ReceiptDeals /\ reader.got \in Seq(Receipts) /\ c \in Cursors \cup {None}
  BY <1>1 DEF Readers
<1>3. recs \in Seq(Receipts) /\ InOrder(recs) /\ Listed(d) = recs
  BY <1>2, SortKeeps DEF PayInv
<1>4. g \in Nat /\ n \in Nat /\ DOMAIN recs = 1..n
  BY <1>2, <1>3
<1>5. /\ g <= n /\ \A i \in 1..g : reader.got[i] = recs[i]
      /\ IF c = None THEN reader.got = <<>> ELSE reader.got # <<>> /\ c = CursorOf(reader.got[g])
  BY <1>1 DEF ReaderKept
<1>6. PageStart(d, c) = Cardinality(Passed) + 1
  BY <1>3 DEF PageStart
<1>7. \A k \in DOMAIN recs : recs[k].timestamp \in Nat /\ recs[k].counter \in Nat
  <2>1. \A k \in DOMAIN recs : recs[k] \in Receipts
    <3> HIDE DEF recs
    <3> QED
      BY <1>3
  <2> HIDE DEF recs
  <2> QED
    BY <2>1 DEF Receipts
<1> HIDE DEF d, recs, c
<1>8. Passed = 1..g
  <2>1. CASE c = None
    <3>1. g = 0
      BY <1>5, <2>1
    <3>2. Passed = {}
      BY <2>1
    <3> HIDE DEF Passed, g
    <3> QED
      BY <3>1, <3>2
  <2>2. CASE c # None
    <3>1. reader.got # <<>> /\ c = CursorOf(reader.got[g])
      BY <1>5, <2>2
    <3>2. g \in 1..n
      BY <1>2, <1>4, <1>5, <3>1
    <3> HIDE DEF g
    <3>3. c.timestamp = recs[g].timestamp /\ c.counter = recs[g].counter
      <4>1. g \in 1..g
        BY <1>4, <3>2
      <4>2. reader.got[g] = recs[g]
        BY <1>5, <4>1
      <4> QED
        BY <3>1, <4>2 DEF CursorOf
    <3>4. ASSUME NEW i \in DOMAIN recs PROVE ~Before(c, recs[i]) <=> i <= g
      <4>1. i \in Nat /\ g \in DOMAIN recs
        BY <1>4, <3>2
      <4>2. ASSUME i < g PROVE ~Before(c, recs[i]) /\ i <= g
        <5>1. recs[i].timestamp <= recs[g].timestamp /\ recs[i].counter < recs[g].counter
          BY <1>3, <4>1, <4>2 DEF InOrder
        <5> QED
          BY <1>7, <3>3, <4>1, <4>2, <5>1, <1>4 DEF Before
      <4>3. ASSUME i = g PROVE ~Before(c, recs[i]) /\ i <= g
        BY <1>7, <3>3, <4>1, <4>3 DEF Before
      <4>4. ASSUME g < i PROVE Before(c, recs[i]) /\ ~(i <= g)
        <5>1. recs[g].timestamp <= recs[i].timestamp /\ recs[g].counter < recs[i].counter
          BY <1>3, <4>1, <4>4 DEF InOrder
        <5> QED
          BY <1>7, <3>3, <4>1, <4>4, <5>1, <1>4 DEF Before
      <4> QED
        BY <1>4, <4>1, <4>2, <4>3, <4>4
    <3>5. Passed = {i \in DOMAIN recs : i <= g}
      BY <2>2, <3>4
    <3> QED
      BY <1>4, <3>2, <3>5
  <2> QED
    BY <2>1, <2>2
<1>9. Cardinality(Passed) = g
  <2> HIDE DEF Passed, g
  <2>1. Cardinality(1..g) = g
    BY <1>4, FS_Interval
  <2> QED
    BY <1>8, <2>1
<1>10. PageStart(d, c) = g + 1
  BY <1>6, <1>9
<1>11. e = AtMost(g + 1 + limit - 1, n)
  BY <1>10 DEF PageEnd, recs
<1>12. Page(d, c, limit) = SubSeq(recs, g + 1, e)
  BY <1>3, <1>10 DEF Page
<1> HIDE DEF Passed, g, n, e
<1>13. e \in Nat /\ g <= e /\ e <= n
  BY <1>1, <1>4, <1>5, <1>11 DEF AtMost
<1> QED
  BY <1>12, <1>13 DEF d, recs, c, g, n, e

\* A page extends the client's prefix and puts its cursor at the new end.
LEMMA ReadPageKeeps ==
    ASSUME PayInv, NEW limit \in Limits, ReadPage(limit), UNCHANGED now
    PROVE  PayInv'
<1> DEFINE d == reader.deal
           got == reader.got
           g == Len(got)
           recs == receipts[d]
           e == PageEnd(d, reader.cursor, limit)
           page == Page(d, reader.cursor, limit)
           more == e < Len(recs) /\ page # <<>>
           cursor == IF more THEN CursorOf(page[Len(page)]) ELSE reader.cursor
<1>1. /\ reader # None /\ ~reader.done
      /\ reader' = [reader EXCEPT !.got = got \o page, !.done = ~more, !.cursor = cursor]
      /\ UNCHANGED <<payPaused, receipts, receiptCount, usedReference>>
  BY DEF ReadPage
<1>2. /\ reader \in Readers /\ ReaderKept(reader)
  BY <1>1 DEF PayInv
<1>3. d \in ReceiptDeals /\ got \in Seq(Receipts) /\ reader.cursor \in Cursors \cup {None}
  BY <1>2 DEF Readers
<1>4. recs \in Seq(Receipts) /\ g <= Len(recs) /\ \A i \in 1..g : got[i] = recs[i]
  BY <1>2, <1>3 DEF PayInv, ReaderKept
<1>5. e \in Nat /\ g <= e /\ e <= Len(recs) /\ page = SubSeq(recs, g + 1, e)
  BY <1>1, PageFollows
<1>6. /\ reader'.deal = d /\ reader'.got = got \o page /\ reader'.done = ~more /\ reader'.cursor = cursor
      /\ reader' = [deal |-> d, got |-> got \o page, done |-> ~more, cursor |-> cursor]
  BY <1>1, <1>2 DEF Readers
<1> HIDE DEF recs, e, page, got, cursor, d
<1>7. /\ page \in Seq(Receipts) /\ Len(page) = e - g /\ g \in Nat
      /\ \A i \in 1..(e - g) : page[i] = recs[g + i]
  BY <1>3, <1>4, <1>5
<1>8. /\ got \o page \in Seq(Receipts) /\ Len(got \o page) = e
      /\ \A i \in 1..e : (got \o page)[i] = recs[i]
  <2>1. got \o page \in Seq(Receipts) /\ Len(got \o page) = g + Len(page)
    BY <1>3, <1>7
  <2>2. Len(got \o page) = e
    <3> HIDE DEF g
    <3> QED
      BY <1>5, <1>7, <2>1
  <2>3. ASSUME NEW i \in 1..e PROVE (got \o page)[i] = recs[i]
    <3>1. i \in 1..(g + Len(page)) /\ i \in Nat
      BY <1>5, <1>7
    <3>2. CASE i <= g
      <4>1. (got \o page)[i] = got[i] /\ i \in 1..g
        BY <1>3, <1>7, <3>1, <3>2
      <4> QED
        BY <1>4, <4>1
    <3>3. CASE g < i
      <4>1. (got \o page)[i] = page[i - g]
        BY <1>3, <1>7, <3>1, <3>3
      <4> HIDE DEF g
      <4>2. i - g \in 1..(e - g) /\ g + (i - g) = i
        BY <1>5, <1>7, <3>1, <3>3
      <4> QED
        BY <1>7, <4>1, <4>2
    <3> QED
      BY <1>7, <3>1, <3>2, <3>3
  <2> QED
    BY <2>1, <2>2, <2>3
<1>9. more => /\ e \in 1..e /\ e > g /\ page[Len(page)] = recs[e]
              /\ recs[e] \in Receipts
  <2> SUFFICES ASSUME more
               PROVE  e \in 1..e /\ e > g /\ page[Len(page)] = recs[e] /\ recs[e] \in Receipts
    OBVIOUS
  <2>1. Len(page) # 0
    BY <1>7
  <2> HIDE DEF g
  <2>2. e > g /\ e \in 1..e /\ e - g \in 1..(e - g) /\ g + (e - g) = e
    BY <1>5, <1>7, <2>1
  <2>3. page[e - g] = recs[e]
    BY <1>7, <2>2
  <2>4. recs[e] \in Receipts
    BY <1>4, <1>5, <2>2
  <2> QED
    BY <1>7, <2>2, <2>3, <2>4
<1>10. more => cursor = CursorOf((got \o page)[e]) /\ cursor \in Cursors
  <2> SUFFICES ASSUME more PROVE cursor = CursorOf((got \o page)[e]) /\ cursor \in Cursors
    OBVIOUS
  <2>1. cursor = CursorOf(recs[e])
    BY <1>9 DEF cursor
  <2>2. (got \o page)[e] = recs[e]
    BY <1>8, <1>9
  <2>3. CursorOf(recs[e]) \in Cursors
    BY <1>9 DEF CursorOf, Receipts, Cursors
  <2> QED
    BY <2>1, <2>2, <2>3
<1>11. cursor \in Cursors \cup {None}
  BY <1>3, <1>10 DEF cursor
<1>12. reader' \in Readers
  <2> DEFINE S == Seq(Receipts)
  <2>1. got \o page \in S /\ (~more) \in BOOLEAN
    BY <1>8
  <2> HIDE DEF S, more
  <2>2. [deal |-> d, got |-> got \o page, done |-> ~more, cursor |-> cursor]
          \in [deal : ReceiptDeals, cursor : Cursors \cup {None}, got : S, done : BOOLEAN]
    BY <1>3, <1>11, <2>1
  <2> QED
    BY <1>6, <2>2 DEF Readers, S
<1>13. ReaderKept(reader)'
  <2>1. Len(reader'.got) = e /\ receipts'[reader'.deal] = recs
    BY <1>1, <1>6, <1>8 DEF recs
  <2>2. Len(reader'.got) <= Len(receipts'[reader'.deal])
    BY <1>5, <2>1
  <2>3. \A i \in 1..Len(reader'.got) : reader'.got[i] = receipts'[reader'.deal][i]
    BY <1>6, <1>8, <2>1
  <2>4. reader'.done \/ (IF reader'.cursor = None THEN reader'.got = <<>>
          ELSE reader'.got # <<>> /\ reader'.cursor = CursorOf(reader'.got[Len(reader'.got)]))
    <3>1. CASE ~more
      BY <1>6, <3>1
    <3>2. CASE more
      <4>1. cursor # None
        BY <1>10, <3>2, PaymentsAssumption
      <4>2. e # 0
        BY <1>5, <1>9, <3>2
      <4>3. got \o page # <<>>
        BY <1>8, <4>2
      <4>4. cursor = CursorOf((got \o page)[e])
        BY <1>10, <3>2
      <4> HIDE DEF more
      <4> QED
        BY <1>6, <1>8, <4>1, <4>3, <4>4
    <3> QED
      BY <3>1, <3>2
  <2> QED
    BY <2>2, <2>3, <2>4 DEF ReaderKept
<1>14. \A x \in ReceiptDeals : InOrder(receipts'[x]) /\ Counted(x)'
  BY <1>1 DEF PayInv, Counted
<1>15. CountersApart'
  BY <1>1 DEF PayInv, CountersApart
<1> QED
  BY <1>1, <1>12, <1>13, <1>14, <1>15 DEF PayInv

\* The other steps leave the receipts, and what the client has of them.
LEMMA PayInvNext == PayInv /\ [PayNext]_PayState => PayInv'
<1> SUFFICES ASSUME PayInv, [PayNext]_PayState PROVE PayInv'
  OBVIOUS
<1>1. ASSUME UNCHANGED <<receipts, receiptCount, usedReference>>, now' \in Nat, now' >= now,
             payPaused' \in BOOLEAN, reader' \in Readers \cup {None},
             reader' # None => ReaderKept(reader)'
      PROVE  PayInv'
  <2>1. \A d \in ReceiptDeals : InOrder(receipts'[d])
    BY <1>1 DEF PayInv
  <2>2. \A d \in ReceiptDeals : Counted(d)'
    <3> SUFFICES ASSUME NEW d \in ReceiptDeals, NEW i \in DOMAIN receipts[d]
                 PROVE  /\ receipts[d][i].counter <= receiptCount[CounterDeal]
                        /\ receipts[d][i].id <= receiptCount[d]
                        /\ receipts[d][i].timestamp <= now'
                        /\ <<d, receipts[d][i].reference>> \in usedReference
      BY <1>1 DEF Counted
    <3>1. /\ receipts[d][i].counter <= receiptCount[CounterDeal]
          /\ receipts[d][i].id <= receiptCount[d]
          /\ receipts[d][i].timestamp <= now
          /\ <<d, receipts[d][i].reference>> \in usedReference
      BY DEF PayInv, Counted
    <3>2. receipts[d] \in Seq(Receipts) /\ now \in Nat
      BY DEF PayInv
    <3>3. receipts[d][i] \in Receipts
      BY <3>2
    <3>4. receipts[d][i].timestamp \in Nat
      BY <3>3 DEF Receipts
    <3>5. receipts[d][i].timestamp <= now'
      BY <1>1, <3>1, <3>2, <3>4
    <3> QED
      BY <3>1, <3>5
  <2>3. CountersApart'
    BY <1>1 DEF PayInv, CountersApart
  <2> QED
    BY <1>1, <2>1, <2>2, <2>3 DEF PayInv
<1>2. now \in Nat /\ now <= now /\ payPaused \in BOOLEAN /\ reader \in Readers \cup {None}
      /\ (reader # None => ReaderKept(reader))
  BY DEF PayInv
<1>3. ASSUME UNCHANGED <<receipts, reader>> PROVE reader' # None => ReaderKept(reader)'
  BY <1>2, <1>3 DEF ReaderKept
<1>4. CASE UNCHANGED PayState
  <2>1. UNCHANGED <<now, payPaused, receipts, receiptCount, usedReference, reader>>
    BY <1>4 DEF PayState, payVars
  <2> QED
    BY <1>1, <1>2, <1>3, <2>1
<1>5. CASE Tick /\ UNCHANGED payVars
  <2>1. UNCHANGED <<payPaused, receipts, receiptCount, usedReference, reader>> /\ now' = now + 1
    BY <1>5 DEF payVars, Tick
  <2>2. now' \in Nat /\ now' >= now
    BY <1>2, <2>1
  <2> QED
    BY <1>1, <1>2, <1>3, <2>1, <2>2
<1>6. ASSUME NEW d \in ReceiptDeals, NEW reference \in References, CreateReceipt(d, reference), UNCHANGED now
      PROVE  PayInv'
  BY <1>6, CreateReceiptKeeps
<1>7. ASSUME NEW d \in ReceiptDeals, StartReading(d), UNCHANGED now
      PROVE  PayInv'
  <2> DEFINE r == [deal |-> d, cursor |-> None, got |-> <<>>, done |-> FALSE]
  <2>1. reader' = r /\ UNCHANGED <<now, payPaused, receipts, receiptCount, usedReference>>
    BY <1>7 DEF StartReading
  <2>2. r \in Readers
    <3> DEFINE S == Seq(Receipts)
    <3>1. <<>> \in S
      OBVIOUS
    <3> HIDE DEF S
    <3>2. r \in [deal : ReceiptDeals, cursor : Cursors \cup {None}, got : S, done : BOOLEAN]
      BY <3>1
    <3> QED
      BY <3>2 DEF Readers, S
  <2>3. receipts[d] \in Seq(Receipts)
    BY DEF PayInv
  <2>4. ReaderKept(r)'
    <3>1. r.got = <<>> /\ r.deal = d /\ r.cursor = None
      OBVIOUS
    <3>2. Len(receipts[d]) \in Nat /\ Len(<<>>) = 0
      BY <2>3
    <3> HIDE DEF r
    <3> QED
      BY <2>1, <3>1, <3>2 DEF ReaderKept
  <2> HIDE DEF r
  <2>5. ReaderKept(reader)'
    BY <2>1, <2>4 DEF ReaderKept
  <2> QED
    BY <1>1, <1>2, <2>1, <2>2, <2>5
<1>8. ASSUME NEW flag \in BOOLEAN, SetPayPaused(flag), UNCHANGED now
      PROVE  PayInv'
  <2>1. payPaused' \in BOOLEAN /\ UNCHANGED <<now, receipts, receiptCount, usedReference, reader>>
    BY <1>8 DEF SetPayPaused
  <2> QED
    BY <1>1, <1>2, <1>3, <2>1
<1>9. ASSUME NEW limit \in Limits, ReadPage(limit), UNCHANGED now
      PROVE  PayInv'
  BY <1>9, ReadPageKeeps
<1> QED
  BY <1>4, <1>5, <1>6, <1>7, <1>8, <1>9 DEF PayNext

\* create_receipt: one receipt per payment reference in a deal, and no two
\* receipts with one counter.
THEOREM ReceiptsStayUnique == PaySpec => []ReceiptsUnique
<1>1. now = 0 /\ PayInit => PayInv
  BY PayInvInit
<1>2. PayInv /\ [PayNext]_PayState => PayInv'
  BY PayInvNext
<1>3. PayInv => ReceiptsUnique
  BY PayFacts
<1> QED
  BY <1>1, <1>2, <1>3, PTL DEF PaySpec, PayState

\* list_receipts_by_deal: who pages through a deal with the cursors it returns
\* gets its receipts in order, none twice and none skipped.
THEOREM PagesStayComplete == PaySpec => []PagesComplete
<1>1. now = 0 /\ PayInit => PayInv
  BY PayInvInit
<1>2. PayInv /\ [PayNext]_PayState => PayInv'
  BY PayInvNext
<1>3. PayInv => PagesComplete
  BY PayFacts
<1> QED
  BY <1>1, <1>2, <1>3, PTL DEF PaySpec, PayState

-----------------------------------------------------------------------------
(* transaction-receipt-contract *)

\* What two lists joined hold.
LEMMA RangeOfJoin ==
    ASSUME NEW S, NEW s \in Seq(S), NEW t \in Seq(S)
    PROVE  Range(s \o t) = Range(s) \cup Range(t)
<1> DEFINE m == Len(s)
           n == Len(t)
           w == s \o t
<1>1. /\ m \in Nat /\ n \in Nat /\ DOMAIN s = 1..m /\ DOMAIN t = 1..n /\ DOMAIN w = 1..(m + n)
      /\ \A i \in 1..m : w[i] = s[i]
      /\ \A i \in (m + 1)..(m + n) : w[i] = t[i - m]
  OBVIOUS
<1> HIDE DEF m, n, w
<1>2. \A i \in DOMAIN w : w[i] \in Range(s) \cup Range(t)
  <2> SUFFICES ASSUME NEW i \in 1..(m + n) PROVE w[i] \in Range(s) \cup Range(t)
    BY <1>1
  <2>1. CASE i <= m
    <3>1. i \in DOMAIN s /\ w[i] = s[i]
      BY <1>1, <2>1
    <3> QED
      BY <3>1 DEF Range
  <2>2. CASE m < i
    <3>1. i - m \in DOMAIN t /\ w[i] = t[i - m]
      BY <1>1, <2>2
    <3> QED
      BY <3>1 DEF Range
  <2> QED
    BY <1>1, <2>1, <2>2
<1>3. \A i \in DOMAIN s : s[i] \in Range(w)
  <2> SUFFICES ASSUME NEW i \in DOMAIN s PROVE s[i] \in Range(w)
    OBVIOUS
  <2>1. i \in DOMAIN w /\ w[i] = s[i]
    BY <1>1
  <2> QED
    BY <2>1 DEF Range
<1>4. \A i \in DOMAIN t : t[i] \in Range(w)
  <2> SUFFICES ASSUME NEW i \in DOMAIN t PROVE t[i] \in Range(w)
    OBVIOUS
  <2>1. i + m \in DOMAIN w /\ i + m \in (m + 1)..(m + n) /\ (i + m) - m = i
    BY <1>1
  <2>2. w[i + m] = t[i]
    BY <1>1, <2>1
  <2> QED
    BY <2>1, <2>2 DEF Range
<1> QED
  BY <1>2, <1>3, <1>4 DEF Range, w

\* What a list of one holds.
LEMMA RangeOfOne == ASSUME NEW x PROVE Range(<<x>>) = {x}
<1>1. DOMAIN <<x>> = {1} /\ <<x>>[1] = x
  OBVIOUS
<1> QED
  BY <1>1 DEF Range

\* What the empty list holds.
LEMMA RangeOfNone == Range(<<>>) = {}
  BY DEF Range

\* The listed receipts and the recorded ones are the same, and none is from
\* after the present.
RecordsInv ==
    /\ now \in Nat /\ recordOperator \in Callers /\ recordsPaused \in BOOLEAN
    /\ recorded \in [TxIds -> Records \cup {None}]
    /\ dealIndex \in [RecordDeals -> Seq(TxIds)]
    /\ userIndex \in [Parties -> Seq(TxIds)]
    /\ \A id \in TxIds : recorded[id] # None => recorded[id].timestamp <= now
    /\ IndexesAgree

\* All that a step of the contract may change.
RecordsState == <<now, recordVars>>

\* The properties are parts of it.
LEMMA RecordsFacts == RecordsInv => RecordsTypeOK /\ IndexesAgree
  BY DEF RecordsInv, RecordsTypeOK

\* Nothing is recorded and nothing listed.
LEMMA RecordsInvInit == now = 0 /\ RecordsInit => RecordsInv
<1> SUFFICES ASSUME now = 0, RecordsInit PROVE RecordsInv
  OBVIOUS
<1> DEFINE S == Seq(TxIds)
<1>1. <<>> \in S /\ DOMAIN <<>> = {}
  OBVIOUS
<1> HIDE DEF S
<1>2. /\ now \in Nat /\ recordOperator \in Callers /\ recordsPaused \in BOOLEAN
      /\ recorded \in [TxIds -> Records \cup {None}]
      /\ dealIndex \in [RecordDeals -> S] /\ userIndex \in [Parties -> S]
      /\ \A id \in TxIds : recorded[id] = None
      /\ \A d \in RecordDeals : dealIndex[d] = <<>>
      /\ \A u \in Parties : userIndex[u] = <<>>
  BY <1>1 DEF RecordsInit
<1>3. IndexesAgree
  BY <1>1, <1>2, RangeOfNone DEF IndexesAgree
<1> QED
  BY <1>2, <1>3 DEF RecordsInv, S

\* record_receipt: what is new goes to the end of the lists of its deal and of
\* its users, and nothing else is listed or changed.
LEMMA RecordReceiptKeeps ==
    ASSUME RecordsInv, NEW by, NEW raw \in RawReferences, NEW d \in RecordDeals,
           NEW from \in Parties \cup {None}, NEW to \in Parties \cup {None}, NEW metadata,
           RecordReceipt(by, raw, d, from, to, metadata), UNCHANGED now
    PROVE  RecordsInv'
<1> DEFINE id == Canonical[raw]
           r == [deal |-> d, from |-> from, to |-> to, timestamp |-> now]
           fromPart(u) == IF u = from THEN <<id>> ELSE <<>>
           toPart(u) == IF u = to THEN <<id>> ELSE <<>>
           S == Seq(TxIds)
<1>1. id \in TxIds /\ recorded[id] = None
  BY DEF RecordReceipt, Accepted, Fresh, TxIds
<1>2. /\ recorded' = [recorded EXCEPT ![id] = r]
      /\ dealIndex' = [dealIndex EXCEPT ![d] = Append(dealIndex[d], id)]
      /\ userIndex' = [u \in Parties |-> userIndex[u] \o fromPart(u) \o toPart(u)]
      /\ UNCHANGED <<now, recordOperator, recordsPaused>>
  BY DEF RecordReceipt, UserIndexAfter
<1>3. /\ now \in Nat /\ recordOperator \in Callers /\ recordsPaused \in BOOLEAN
      /\ recorded \in [TxIds -> Records \cup {None}]
      /\ dealIndex \in [RecordDeals -> S] /\ userIndex \in [Parties -> S]
      /\ \A x \in TxIds : recorded[x] # None => recorded[x].timestamp <= now
  BY DEF RecordsInv
<1>4. r \in Records /\ r # None /\ r.deal = d /\ r.from = from /\ r.to = to /\ r.timestamp = now
  BY <1>3, ReceiptsAssumption DEF Records
<1> HIDE DEF r, id
<1>5. /\ recorded' \in [TxIds -> Records \cup {None}] /\ recorded'[id] = r
      /\ \A x \in TxIds : x # id => recorded'[x] = recorded[x]
  BY <1>1, <1>2, <1>3, <1>4
<1>6. dealIndex[d] \in Seq(TxIds) /\ Append(dealIndex[d], id) \in S
  BY <1>1, <1>3
<1>7. \A u \in Parties :
        /\ userIndex[u] \in Seq(TxIds) /\ fromPart(u) \in Seq(TxIds) /\ toPart(u) \in Seq(TxIds)
        /\ userIndex[u] \o fromPart(u) \in Seq(TxIds)
        /\ userIndex[u] \o fromPart(u) \o toPart(u) \in S
  <2> SUFFICES ASSUME NEW u \in Parties
               PROVE  /\ userIndex[u] \in Seq(TxIds) /\ fromPart(u) \in Seq(TxIds) /\ toPart(u) \in Seq(TxIds)
                      /\ userIndex[u] \o fromPart(u) \in Seq(TxIds)
                      /\ userIndex[u] \o fromPart(u) \o toPart(u) \in S
    OBVIOUS
  <2>1. userIndex[u] \in Seq(TxIds) /\ fromPart(u) \in Seq(TxIds) /\ toPart(u) \in Seq(TxIds)
    BY <1>1, <1>3
  <2> HIDE DEF fromPart, toPart
  <2>2. userIndex[u] \o fromPart(u) \in Seq(TxIds)
    BY <2>1
  <2>3. userIndex[u] \o fromPart(u) \o toPart(u) \in S
    BY <2>1, <2>2
  <2> QED
    BY <2>1, <2>2, <2>3
<1>8. \A e \in RecordDeals : dealIndex[e] \in Seq(TxIds)
  BY <1>3
<1> HIDE DEF S, fromPart, toPart
<1>9. /\ dealIndex' \in [RecordDeals -> S] /\ dealIndex'[d] = Append(dealIndex[d], id)
      /\ \A e \in RecordDeals : e # d => dealIndex'[e] = dealIndex[e]
  BY <1>2, <1>3, <1>6
<1>10. /\ userIndex' \in [Parties -> S]
       /\ \A u \in Parties : userIndex'[u] = userIndex[u] \o fromPart(u) \o toPart(u)
  BY <1>2, <1>7
<1>11. ASSUME NEW x \in TxIds, recorded'[x] # None PROVE recorded'[x].timestamp <= now'
  BY <1>2, <1>3, <1>4, <1>5, <1>11
<1>12. IndexesAgree
  BY DEF RecordsInv
<1>13. ASSUME NEW e \in RecordDeals
       PROVE  Range(dealIndex'[e]) = {x \in TxIds : recorded'[x] # None /\ recorded'[x].deal = e}
  <2>1. Range(dealIndex[e]) = {x \in TxIds : recorded[x] # None /\ recorded[x].deal = e}
    BY <1>12 DEF IndexesAgree
  <2>2. CASE e = d
    <3>1. Append(dealIndex[d], id) = dealIndex[d] \o <<id>> /\ <<id>> \in Seq(TxIds)
      BY <1>1, <1>6
    <3>2. Range(dealIndex[d] \o <<id>>) = Range(dealIndex[d]) \cup Range(<<id>>)
      BY <1>8, <3>1, RangeOfJoin
    <3>3. Range(dealIndex'[d]) = Range(dealIndex[d]) \cup {id}
      BY <1>9, <3>1, <3>2, RangeOfOne
    <3> QED
      BY <1>1, <1>4, <1>5, <2>1, <2>2, <3>3
  <2>3. CASE e # d
    BY <1>1, <1>4, <1>5, <1>9, <2>1, <2>3
  <2> QED
    BY <2>2, <2>3
<1>14. ASSUME NEW e \in RecordDeals, NEW i \in DOMAIN dealIndex'[e], NEW j \in DOMAIN dealIndex'[e], i < j
       PROVE  /\ dealIndex'[e][i] # dealIndex'[e][j]
              /\ recorded'[dealIndex'[e][i]].timestamp <= recorded'[dealIndex'[e][j]].timestamp
  <2>1. ASSUME NEW k \in DOMAIN dealIndex[e]
        PROVE  /\ dealIndex[e][k] \in TxIds /\ recorded[dealIndex[e][k]] # None
               /\ dealIndex[e][k] # id /\ recorded'[dealIndex[e][k]] = recorded[dealIndex[e][k]]
               /\ recorded[dealIndex[e][k]].timestamp <= now
    <3>1. dealIndex[e][k] \in Range(dealIndex[e])
      BY DEF Range
    <3>2. dealIndex[e][k] \in TxIds /\ recorded[dealIndex[e][k]] # None
      BY <1>12, <3>1 DEF IndexesAgree
    <3> QED
      BY <1>1, <1>3, <1>5, <3>2
  <2>2. \A k, l \in DOMAIN dealIndex[e] : k < l =>
          /\ dealIndex[e][k] # dealIndex[e][l]
          /\ recorded[dealIndex[e][k]].timestamp <= recorded[dealIndex[e][l]].timestamp
    BY <1>12 DEF IndexesAgree
  <2>3. CASE e # d
    <3>1. dealIndex'[e] = dealIndex[e]
      BY <1>9, <2>3
    <3> QED
      BY <1>14, <2>1, <2>2, <3>1
  <2>4. CASE e = d
    <3>1. /\ DOMAIN dealIndex[d] = 1..Len(dealIndex[d]) /\ Len(dealIndex[d]) \in Nat
          /\ DOMAIN dealIndex'[d] = 1..(Len(dealIndex[d]) + 1)
          /\ dealIndex'[d][Len(dealIndex[d]) + 1] = id
          /\ \A k \in DOMAIN dealIndex[d] : dealIndex'[d][k] = dealIndex[d][k]
      BY <1>6, <1>9
    <3>2. i \in DOMAIN dealIndex[d]
      BY <1>14, <2>4, <3>1
    <3>3. CASE j \in DOMAIN dealIndex[d]
      BY <1>14, <2>1, <2>2, <2>4, <3>1, <3>2, <3>3
    <3>4. CASE j = Len(dealIndex[d]) + 1
      BY <1>4, <1>5, <2>1, <2>4, <3>1, <3>2, <3>4
    <3> QED
      BY <2>4, <3>1, <3>3, <3>4
  <2> QED
    BY <2>3, <2>4
<1>15. ASSUME NEW u \in Parties
       PROVE  Range(userIndex'[u]) =
                {x \in TxIds : recorded'[x] # None /\ u \in {recorded'[x].from, recorded'[x].to}}
  <2>1. Range(userIndex[u]) =
          {x \in TxIds : recorded[x] # None /\ u \in {recorded[x].from, recorded[x].to}}
    BY <1>12 DEF IndexesAgree
  <2>2. Range(userIndex'[u]) = Range(userIndex[u]) \cup Range(fromPart(u)) \cup Range(toPart(u))
    <3> DEFINE joined == userIndex[u] \o fromPart(u)
    <3>1. /\ userIndex[u] \in Seq(TxIds) /\ fromPart(u) \in Seq(TxIds) /\ toPart(u) \in Seq(TxIds)
          /\ joined \in Seq(TxIds)
      BY <1>7
    <3>2. Range(joined) = Range(userIndex[u]) \cup Range(fromPart(u))
      BY <3>1, RangeOfJoin
    <3>3. userIndex'[u] = joined \o toPart(u)
      BY <1>10
    <3> HIDE DEF joined
    <3>4. Range(joined \o toPart(u)) = Range(joined) \cup Range(toPart(u))
      BY <3>1, RangeOfJoin
    <3> QED
      BY <3>2, <3>3, <3>4
  <2>3. /\ Range(fromPart(u)) = IF u = from THEN {id} ELSE {}
        /\ Range(toPart(u)) = IF u = to THEN {id} ELSE {}
    BY RangeOfOne, RangeOfNone DEF fromPart, toPart
  <2> QED
    BY <1>1, <1>4, <1>5, <2>1, <2>2, <2>3
<1>16. IndexesAgree'
  BY <1>13, <1>14, <1>15 DEF IndexesAgree
<1> QED
  BY <1>2, <1>3, <1>5, <1>9, <1>10, <1>11, <1>16 DEF RecordsInv, S

\* Every entry point of the contract keeps the invariant.
LEMMA RecordsInvNext == RecordsInv /\ [RecordsNext]_RecordsState => RecordsInv'
<1> SUFFICES ASSUME RecordsInv, [RecordsNext]_RecordsState PROVE RecordsInv'
  OBVIOUS
<1>1. ASSUME UNCHANGED <<recorded, dealIndex, userIndex>>, now' \in Nat, now' >= now,
             recordOperator' \in Callers, recordsPaused' \in BOOLEAN
      PROVE  RecordsInv'
  <2>1. ASSUME NEW id \in TxIds, recorded[id] # None PROVE recorded[id].timestamp <= now'
    <3>1. recorded[id].timestamp <= now /\ now \in Nat /\ recorded[id] \in Records
      BY <2>1 DEF RecordsInv
    <3>2. recorded[id].timestamp \in Nat
      BY <3>1 DEF Records
    <3> QED
      BY <1>1, <3>1, <3>2
  <2>2. IndexesAgree'
    BY <1>1 DEF RecordsInv, IndexesAgree
  <2> QED
    BY <1>1, <2>1, <2>2 DEF RecordsInv
<1>2. now \in Nat /\ now <= now /\ recordOperator \in Callers /\ recordsPaused \in BOOLEAN
  BY DEF RecordsInv
<1>3. CASE UNCHANGED RecordsState
  <2>1. UNCHANGED <<now, recordOperator, recordsPaused, recorded, dealIndex, userIndex>>
    BY <1>3 DEF RecordsState, recordVars
  <2> QED
    BY <1>1, <1>2, <2>1
<1>4. CASE Tick /\ UNCHANGED recordVars
  <2>1. UNCHANGED <<recordOperator, recordsPaused, recorded, dealIndex, userIndex>> /\ now' = now + 1
    BY <1>4 DEF recordVars, Tick
  <2>2. now' \in Nat /\ now' >= now
    BY <1>2, <2>1
  <2> QED
    BY <1>1, <1>2, <2>1, <2>2
<1>5. ASSUME NEW by \in Callers, NEW raw \in RawReferences, NEW d \in RecordDeals,
             NEW from \in Parties \cup {None}, NEW to \in Parties \cup {None},
             NEW metadata \in {"none", "match", "mismatch"},
             RecordReceipt(by, raw, d, from, to, metadata), UNCHANGED now
      PROVE  RecordsInv'
  BY <1>5, RecordReceiptKeeps
<1>6. ASSUME NEW by \in Callers, NEW a \in Callers, SetRecordOperator(by, a), UNCHANGED now
      PROVE  RecordsInv'
  BY <1>1, <1>2, <1>6 DEF SetRecordOperator
<1>7. ASSUME NEW by \in Callers, NEW flag \in BOOLEAN, SetRecordsPaused(by, flag), UNCHANGED now
      PROVE  RecordsInv'
  BY <1>1, <1>2, <1>7 DEF SetRecordsPaused
<1> QED
  BY <1>3, <1>4, <1>5, <1>6, <1>7 DEF RecordsNext

\* record_receipt: a payment's receipt is listed once, under its deal and under
\* its users, in the order of recording, however its reference is written.
THEOREM IndexesStayInAgreement == RecordsSpec => []IndexesAgree
<1>1. now = 0 /\ RecordsInit => RecordsInv
  BY RecordsInvInit
<1>2. RecordsInv /\ [RecordsNext]_RecordsState => RecordsInv'
  BY RecordsInvNext
<1>3. RecordsInv => IndexesAgree
  BY RecordsFacts
<1> QED
  BY <1>1, <1>2, <1>3, PTL DEF RecordsSpec, RecordsState

-----------------------------------------------------------------------------
(* tenant_reputation *)

\* The types, and that no score was written after the present.
RepInv ==
    /\ now \in Nat /\ repPaused \in BOOLEAN
    /\ reputation \in [Parties -> Reputations \cup {None}]
    /\ decay \in [rate : DecayRates \cup {0}, period : DecayPeriods \cup {1}]
    /\ bounds \in [min : Scores \cup {0}, max : Scores]
    /\ \A t \in Parties : reputation[t] # None => reputation[t].updated <= now

\* All that a step of tenant_reputation may change.
RepState == <<now, repVars>>

\* Nobody has a score yet.
LEMMA RepInvInit == now = 0 /\ RepInit => RepInv
<1> SUFFICES ASSUME now = 0, RepInit PROVE RepInv
  OBVIOUS
<1>1. /\ now \in Nat /\ repPaused \in BOOLEAN
      /\ reputation \in [Parties -> Reputations \cup {None}]
      /\ \A t \in Parties : reputation[t] = None
  BY DEF RepInit
<1>2. decay \in [rate : DecayRates \cup {0}, period : DecayPeriods \cup {1}]
  BY DEF RepInit
<1>3. bounds \in [min : Scores \cup {0}, max : Scores]
  BY DEF RepInit
<1> QED
  BY <1>1, <1>2, <1>3 DEF RepInv

\* A score between bounds that are scores is one.
LEMMA ClampedIsScore ==
    ASSUME RepInv, NEW score \in Scores
    PROVE  Clamped(score) \in Scores
<1>1. Scores \subseteq Nat
  BY ReputationAssumption
<1>2. bounds.min \in Scores \cup {0} /\ bounds.max \in Scores
  BY DEF RepInv
<1>3. (IF score > bounds.min THEN score ELSE bounds.min) \in Scores
  <2>1. CASE bounds.min \in Scores
    BY <2>1
  <2>2. CASE bounds.min = 0
    <3>1. CASE score > bounds.min
      BY <3>1
    <3>2. CASE ~(score > bounds.min)
      <4>1. score = bounds.min
        BY <1>1, <2>2, <3>2
      <4> QED
        BY <4>1
    <3> QED
      BY <3>1, <3>2
  <2> QED
    BY <1>2, <2>1, <2>2
<1> QED
  BY <1>2, <1>3 DEF Clamped, AtMost

\* Every entry point of tenant_reputation keeps the invariant.
LEMMA RepInvNext == RepInv /\ [RepNext]_RepState => RepInv'
<1> SUFFICES ASSUME RepInv, [RepNext]_RepState PROVE RepInv'
  OBVIOUS
<1>1. CASE UNCHANGED RepState
  BY <1>1 DEF RepState, repVars, RepInv
<1>2. CASE Tick /\ UNCHANGED repVars
  <2>1. /\ now' = now + 1 /\ now \in Nat
        /\ UNCHANGED <<repPaused, reputation, decay, bounds>>
    BY <1>2 DEF Tick, repVars, RepInv
  <2>2. ASSUME NEW t \in Parties, reputation[t] # None PROVE reputation[t].updated <= now'
    <3>1. reputation[t] \in Reputations /\ reputation[t].updated <= now
      BY <2>2 DEF RepInv
    <3>2. reputation[t].updated \in Nat
      BY <3>1 DEF Reputations
    <3> QED
      BY <2>1, <3>1, <3>2
  <2> QED
    BY <2>1, <2>2 DEF RepInv
<1>3. ASSUME NEW by, NEW t \in Parties, NEW score \in Scores, UpdateReputation(by, t, score), UNCHANGED now
      PROVE  RepInv'
  <2> DEFINE r == [score |-> Clamped(score), updated |-> now]
  <2>1. r \in Reputations /\ r.updated = now /\ now \in Nat
    BY ClampedIsScore DEF Reputations, RepInv
  <2>2. reputation' = [reputation EXCEPT ![t] = r] /\ UNCHANGED <<repPaused, decay, bounds, now>>
    BY <1>3 DEF UpdateReputation
  <2> HIDE DEF r
  <2>3. /\ reputation' \in [Parties -> Reputations \cup {None}] /\ reputation'[t] = r
        /\ \A u \in Parties : u # t => reputation'[u] = reputation[u]
    BY <2>1, <2>2 DEF RepInv
  <2>4. \A u \in Parties : reputation'[u] # None => reputation'[u].updated <= now
    BY <2>1, <2>3 DEF RepInv
  <2> QED
    BY <2>2, <2>3, <2>4 DEF RepInv
<1>4. ASSUME NEW by, NEW t \in Parties, RevokeReputation(by, t), UNCHANGED now
      PROVE  RepInv'
  BY <1>4 DEF RevokeReputation, RepInv
<1>5. ASSUME NEW by, NEW rate \in DecayRates, NEW period \in DecayPeriods,
             SetDecayConfig(by, rate, period), UNCHANGED now
      PROVE  RepInv'
  BY <1>5 DEF SetDecayConfig, RepInv
<1>6. ASSUME NEW by, NEW min \in Scores, NEW max \in Scores, SetScoreBounds(by, min, max), UNCHANGED now
      PROVE  RepInv'
  BY <1>6 DEF SetScoreBounds, RepInv
<1>7. ASSUME NEW by, NEW flag \in BOOLEAN, SetRepPaused(by, flag), UNCHANGED now
      PROVE  RepInv'
  BY <1>7 DEF SetRepPaused, RepInv
<1> QED
  BY <1>1, <1>2, <1>3, <1>4, <1>5, <1>6, <1>7 DEF RepNext

\* A factor that grows makes no product smaller.
LEMMA ProductGrows ==
    ASSUME NEW a \in Nat, NEW b \in Nat, NEW k \in Nat, a <= b
    PROVE  a * k \in Nat /\ b * k \in Nat /\ a * k <= b * k
<1>1. a * k \in Nat /\ b * k \in Nat /\ (b - a) * k \in Nat
  BY SMT
<1>2. b * k = a * k + (b - a) * k
  BY SMT
<1> DEFINE x == a * k
           y == b * k
           z == (b - a) * k
<1>3. x \in Nat /\ y \in Nat /\ z \in Nat /\ y = x + z
  BY <1>1, <1>2
<1> HIDE DEF x, y, z
<1>4. x <= y
  BY <1>3
<1> QED
  BY <1>3, <1>4 DEF x, y

\* What is left of a score after more periods is not more, nor below the floor.
LEMMA DecayOnly ==
    ASSUME RepInv, Tick, UNCHANGED repVars, NEW t \in Parties, reputation[t] # None,
           reputation[t].score >= bounds.min
    PROVE  DecayedScore(reputation[t])' <= DecayedScore(reputation[t])
           /\ DecayedScore(reputation[t])' >= bounds.min
<1> DEFINE rec == reputation[t]
           s == rec.score
           u == rec.updated
           m == bounds.min
           r == decay.rate
           l == decay.period
           p == Periods(rec)
           q == IF l = 0 THEN 0 ELSE ((now + 1) - u) \div l
<1>1. /\ UNCHANGED <<reputation, decay, bounds>> /\ now' = now + 1 /\ now \in Nat
      /\ rec \in Reputations /\ u <= now
  BY DEF Tick, repVars, RepInv
<1>2. s \in Nat /\ u \in Nat /\ m \in Nat /\ r \in Nat /\ l \in Nat /\ s >= m
  <2>1. s \in Scores /\ u \in Nat
    BY <1>1 DEF Reputations
  <2>2. m \in Scores \cup {0} /\ r \in DecayRates \cup {0} /\ l \in DecayPeriods \cup {1}
    BY DEF RepInv
  <2> QED
    BY <2>1, <2>2, ReputationAssumption
<1>3. p = (IF l = 0 THEN 0 ELSE (now - u) \div l) /\ Periods(rec)' = q
  <2>1. p = (IF l = 0 THEN 0 ELSE (now - u) \div l)
    BY DEF Periods
  <2>2. Periods(rec)' = IF decay'.period = 0 THEN 0
                        ELSE (now' - reputation'[t].updated) \div decay'.period
    BY DEF Periods
  <2>3. decay' = decay /\ reputation' = reputation /\ now' = now + 1
    BY <1>1
  <2>4. Periods(rec)' = q
    <3>1. now' - reputation'[t].updated = (now + 1) - u
      BY <2>3
    <3>2. decay'.period = l
      BY <2>3
    <3> HIDE DEF u, l
    <3> QED
      BY <2>2, <3>1, <3>2
  <2> QED
    BY <2>1, <2>4
<1>4. p \in Nat /\ q \in Nat /\ p <= q
  <2>1. CASE l = 0
    BY <1>3, <2>1
  <2>2. CASE l # 0
    <3> DEFINE x == now - u
               y == (now + 1) - u
    <3>1. x \in Nat /\ y \in Nat /\ x <= y /\ l \in Nat \ {0}
      <4> HIDE DEF u, l
      <4> QED
        BY <1>1, <1>2, <2>2
    <3> HIDE DEF x, y, l
    <3>2. x \div l \in Nat /\ x \div l <= y \div l /\ y \div l \in Nat
      BY <3>1, PeriodsGrow
    <3>3. p = x \div l /\ q = y \div l
      BY <1>3, <2>2 DEF x, y
    <3> HIDE DEF p, q
    <3> QED
      BY <3>2, <3>3
  <2> QED
    BY <2>1, <2>2
<1> DEFINE rest(k) == Less(s, k * r)
           score(k) == IF r = 0 \/ k = 0 THEN s ELSE IF rest(k) > m THEN rest(k) ELSE m
<1>5. DecayedScore(rec) = score(p) /\ DecayedScore(rec)' = score(q)
  <2>1. DecayedScore(rec) = score(p)
    BY DEF DecayedScore
  <2>2. DecayedScore(rec)' = score(q)
    BY <1>1, <1>3 DEF DecayedScore
  <2> QED
    BY <2>1, <2>2
<1> HIDE DEF s, m, r, p, q
<1>6. p * r \in Nat /\ q * r \in Nat /\ p * r <= q * r
  BY <1>2, <1>4, ProductGrows
<1>7. rest(p) \in Nat /\ rest(q) \in Nat /\ rest(q) <= rest(p) /\ rest(p) <= s
  <2> DEFINE x == p * r
             y == q * r
  <2>1. x \in Nat /\ y \in Nat /\ x <= y
    BY <1>6
  <2>2. rest(p) = Less(s, x) /\ rest(q) = Less(s, y)
    OBVIOUS
  <2> HIDE DEF x, y, rest
  <2> QED
    BY <1>2, <2>1, <2>2 DEF Less
<1>8. score(q) <= score(p) /\ score(q) >= m
  <2> DEFINE a == rest(p)
             b == rest(q)
  <2>1. a \in Nat /\ b \in Nat /\ b <= a /\ a <= s
    BY <1>7
  <2>2. /\ score(p) = IF r = 0 \/ p = 0 THEN s ELSE IF a > m THEN a ELSE m
        /\ score(q) = IF r = 0 \/ q = 0 THEN s ELSE IF b > m THEN b ELSE m
    OBVIOUS
  <2> HIDE DEF a, b, score, rest
  <2> QED
    BY <1>2, <1>4, <2>1, <2>2
<1> HIDE DEF score
<1>9. DecayedScore(rec)' <= DecayedScore(rec) /\ DecayedScore(rec)' >= m
  BY <1>5, <1>8
<1> QED
  BY <1>9 DEF m

-----------------------------------------------------------------------------
(* upgradeable_proxy, allowlist_registry and reentrancy_guard *)

\* A version is counted only below its bound.
LEMMA ProxyTypes == ProxyTypeOK /\ [ProxyNext]_<<now, proxyVars>> => ProxyTypeOK'
<1> SUFFICES ASSUME ProxyTypeOK, [ProxyNext]_<<now, proxyVars>> PROVE ProxyTypeOK'
  OBVIOUS
<1>1. CASE UNCHANGED <<now, proxyVars>>
  BY <1>1 DEF proxyVars, ProxyTypeOK
<1>2. ASSUME NEW by, NEW code \in ProxyCodes, ProposeProxyUpgrade(by, code) PROVE ProxyTypeOK'
  BY <1>2 DEF ProposeProxyUpgrade, ProxyTypeOK
<1>3. ASSUME NEW by, NEW code \in ProxyCodes, ConfirmProxyUpgrade(by, code) PROVE ProxyTypeOK'
  BY <1>3, ProxyAssumption DEF ConfirmProxyUpgrade, ProxyTypeOK
<1>4. ASSUME NEW by, CancelProxyUpgrade(by) PROVE ProxyTypeOK'
  BY <1>4 DEF CancelProxyUpgrade, ProxyTypeOK
<1>5. ASSUME NEW by, NEW a \in Callers, TransferProxyAdmin(by, a) PROVE ProxyTypeOK'
  BY <1>5 DEF TransferProxyAdmin, ProxyTypeOK
<1> QED
  BY <1>1, <1>2, <1>3, <1>4, <1>5 DEF ProxyNext

\* Of the entries for an address that have not expired, there is a last one.
LEMMA AllowTypes == AllowTypeOK /\ [AllowNext]_<<now, registry>> => AllowTypeOK'
<1> SUFFICES ASSUME AllowTypeOK, [AllowNext]_<<now, registry>> PROVE AllowTypeOK'
  OBVIOUS
<1>1. CASE UNCHANGED registry
  BY <1>1 DEF AllowTypeOK
<1>2. ASSUME NEW by, NEW a \in Parties, NEW expiry \in Expiries, AddEntry(by, a, expiry)
      PROVE  AllowTypeOK'
  BY <1>2 DEF AddEntry, AllowTypeOK
<1>3. ASSUME NEW by, NEW a \in Parties, RemoveEntry(by, a) PROVE AllowTypeOK'
  BY <1>3 DEF RemoveEntry, AllowTypeOK
<1>4. ASSUME NEW by, NEW entries \in [1..2 -> Parties \X Expiries], BulkAdd(by, entries)
      PROVE  AllowTypeOK'
  <2> DEFINE valid(a) == {i \in DOMAIN entries : entries[i][1] = a /\ ~Expired(entries[i][2])}
             last(a) == CHOOSE i \in valid(a) : \A j \in valid(a) : j <= i
             entry(a) == IF valid(a) = {} THEN registry[a] ELSE entries[last(a)][2]
  <2>1. registry' = [a \in Parties |-> entry(a)]
    BY <1>4 DEF BulkAdd
  <2>2. ASSUME NEW a \in Parties PROVE entry(a) \in Expiries \cup {None}
    <3>1. CASE valid(a) = {}
      BY <3>1 DEF AllowTypeOK
    <3>2. CASE valid(a) # {}
      <4>1. valid(a) \subseteq 1..2
        OBVIOUS
      <4> HIDE DEF valid
      <4>2. \E i \in valid(a) : \A j \in valid(a) : j <= i
        <5>1. CASE 2 \in valid(a)
          BY <4>1, <5>1
        <5>2. CASE 2 \notin valid(a)
          BY <3>2, <4>1, <5>2
        <5> QED
          BY <5>1, <5>2
      <4>3. last(a) \in valid(a)
        BY <4>2
      <4> HIDE DEF last
      <4>4. entries[last(a)][2] \in Expiries
        BY <4>1, <4>3
      <4> QED
        BY <3>2, <4>4
    <3> QED
      BY <3>1, <3>2
  <2> HIDE DEF entry
  <2> QED
    BY <2>1, <2>2 DEF AllowTypeOK
<1> QED
  BY <1>1, <1>2, <1>3, <1>4 DEF AllowNext

\* A counter is raised only below the maximum in force, which is in the limit,
\* and lowered only above zero.
LEMMA GuardTypes == GuardTypeOK /\ [GuardNext]_<<now, guardVars>> => GuardTypeOK'
<1> SUFFICES ASSUME GuardTypeOK, [GuardNext]_<<now, guardVars>> PROVE GuardTypeOK'
  OBVIOUS
<1>1. CASE UNCHANGED <<now, guardVars>>
  BY <1>1 DEF guardVars, GuardTypeOK
<1>2. ASSUME NEW c \in Parties, NEW e \in EntryPoints, NEW k \in 0..DepthLimit,
             depth' = [depth EXCEPT ![c][e] = k]
      PROVE  depth' \in [Parties -> [EntryPoints -> 0..DepthLimit]]
  <2>1. depth[c] \in [EntryPoints -> 0..DepthLimit]
    BY DEF GuardTypeOK
  <2> DEFINE one == [depth[c] EXCEPT ![e] = k]
  <2>2. one \in [EntryPoints -> 0..DepthLimit]
    BY <2>1
  <2>3. depth' = [depth EXCEPT ![c] = one]
    BY <1>2
  <2> HIDE DEF one
  <2> QED
    BY <2>2, <2>3 DEF GuardTypeOK
<1>3. ASSUME NEW c \in Parties, NEW e \in EntryPoints, Enter(c, e) PROVE GuardTypeOK'
  <2>1. UNCHANGED <<guardAdmin, maxDepth, guarded, allowed>>
    BY <1>3 DEF Enter
  <2>2. CASE e \in allowed
    BY <1>3, <2>1, <2>2 DEF Enter, GuardTypeOK
  <2>3. CASE e \notin allowed
    <3>1. depth[c][e] < maxDepth /\ depth' = [depth EXCEPT ![c][e] = depth[c][e] + 1]
      BY <1>3, <2>3 DEF Enter, DepthLeft
    <3>2. depth[c][e] + 1 \in 0..DepthLimit
      BY <3>1, GuardAssumption DEF GuardTypeOK
    <3>3. depth' \in [Parties -> [EntryPoints -> 0..DepthLimit]]
      BY <1>2, <3>1, <3>2
    <3> QED
      BY <2>1, <3>3 DEF GuardTypeOK
  <2> QED
    BY <2>2, <2>3
<1>4. ASSUME NEW c \in Parties, NEW e \in EntryPoints, Exit(c, e) PROVE GuardTypeOK'
  <2>1. UNCHANGED <<guardAdmin, maxDepth, guarded, allowed>>
    BY <1>4 DEF Exit
  <2>2. CASE e \in allowed
    BY <1>4, <2>1, <2>2 DEF Exit, GuardTypeOK
  <2>3. CASE e \notin allowed
    <3>1. depth[c][e] > 0 /\ depth' = [depth EXCEPT ![c][e] = depth[c][e] - 1]
      BY <1>4, <2>3 DEF Exit
    <3>2. depth[c][e] - 1 \in 0..DepthLimit
      BY <3>1, GuardAssumption DEF GuardTypeOK
    <3>3. depth' \in [Parties -> [EntryPoints -> 0..DepthLimit]]
      BY <1>2, <3>1, <3>2
    <3> QED
      BY <2>1, <3>3 DEF GuardTypeOK
  <2> QED
    BY <2>2, <2>3
<1>5. ASSUME NEW by, NEW d, SetMaxCallDepth(by, d) PROVE GuardTypeOK'
  BY <1>5 DEF SetMaxCallDepth, GuardTypeOK
<1>6. ASSUME NEW by, NEW c \in Parties, NEW on \in BOOLEAN, SetGuard(by, c, on) PROVE GuardTypeOK'
  BY <1>6 DEF SetGuard, GuardTypeOK
<1>7. ASSUME NEW by, NEW e \in EntryPoints, AllowPattern(by, e) PROVE GuardTypeOK'
  BY <1>7 DEF AllowPattern, GuardTypeOK
<1>8. ASSUME NEW by, NEW e \in EntryPoints, DisallowPattern(by, e) PROVE GuardTypeOK'
  BY <1>8 DEF DisallowPattern, GuardTypeOK
<1>9. ASSUME NEW by, NEW a \in Callers, SetGuardAdmin(by, a) PROVE GuardTypeOK'
  BY <1>9 DEF SetGuardAdmin, GuardTypeOK
<1> QED
  BY <1>1, <1>3, <1>4, <1>5, <1>6, <1>7, <1>8, <1>9 DEF GuardNext

-----------------------------------------------------------------------------
(* oracle_price_feeds *)

\* What f takes on a finite set has a largest value: the least of the sets that
\* are closed upwards has one value only.
LEMMA LargestValue ==
    ASSUME NEW S, IsFiniteSet(S), S # {}, NEW f, \A x \in S : f[x] \in Int
    PROVE  \E x \in S : \A y \in S : f[y] <= f[x]
<1> DEFINE Above(x) == {y \in S : f[x] <= f[y]}
           Upward == {t \in SUBSET S : t # {} /\ \A x \in t : Above(x) \subseteq t}
<1>1. S \in Upward /\ Upward \in SUBSET (SUBSET S)
  OBVIOUS
<1>2. \E t \in Upward : \A u \in SUBSET t : u # t => u \notin Upward
  <2> HIDE DEF Upward
  <2> QED
    BY <1>1, LeastCounterexample
<1>3. PICK t \in Upward : \A u \in SUBSET t : u # t => u \notin Upward
  BY <1>2
<1>4. PICK x \in t : TRUE
  BY <1>3
<1>5. ASSUME NEW y \in S, ~(f[y] <= f[x]) PROVE FALSE
  <2>1. x \in S /\ f[x] \in Int /\ f[y] \in Int /\ f[x] < f[y]
    BY <1>3, <1>4, <1>5
  <2>2. y \in Above(x) /\ Above(x) \subseteq t
    BY <1>3, <1>4, <2>1
  <2>3. y \in t /\ Above(y) \subseteq t /\ y \in Above(y)
    BY <1>3, <2>1, <2>2
  <2>4. ASSUME NEW z \in Above(y), NEW v \in Above(z) PROVE v \in Above(y)
    <3>1. f[y] <= f[z] /\ f[z] <= f[v] /\ f[z] \in Int /\ f[v] \in Int
      OBVIOUS
    <3>2. f[y] <= f[v]
      BY <2>1, <3>1
    <3> QED
      BY <3>2
  <2>5. Above(y) \in Upward
    BY <2>3, <2>4
  <2>6. x \notin Above(y)
    BY <2>1
  <2> HIDE DEF Above, Upward
  <2> QED
    BY <1>3, <1>4, <2>3, <2>5, <2>6
<1> QED
  BY <1>3, <1>4, <1>5

\* Among n values there is a k-th.
LEMMA KthValue ==
    ASSUME NEW S, IsFiniteSet(S), NEW f, \A x \in S : f[x] \in Int,
           NEW k \in Nat \ {0}, k <= Cardinality(S)
    PROVE  \E x \in S : /\ Cardinality({y \in S : f[y] < f[x]}) < k
                        /\ Cardinality({y \in S : f[y] <= f[x]}) >= k
<1> DEFINE Under(v) == {y \in S : f[y] < v}
           UpTo(v) == {y \in S : f[y] <= v}
           Far == {x \in S : Cardinality(UpTo(f[x])) >= k}
           g == [x \in Far |-> -f[x]]
<1>1. /\ Far \in SUBSET S /\ \A x \in Far : g[x] = -f[x] /\ g[x] \in Int
      /\ \A x \in S : x \in Far <=> Cardinality(UpTo(f[x])) >= k
  OBVIOUS
<1>2. Cardinality(S) \in Nat /\ S # {}
  BY FS_CardinalityType, FS_EmptySet
<1>3. Far # {}
  <2>1. PICK x \in S : \A y \in S : f[y] <= f[x]
    BY <1>2, LargestValue
  <2>2. UpTo(f[x]) = S
    BY <2>1
  <2>3. x \in Far
    BY <1>2, <2>2
  <2> QED
    BY <2>3
<1> HIDE DEF Far, g
<1>4. PICK x \in Far : \A z \in Far : f[x] <= f[z]
  <2>1. IsFiniteSet(Far)
    BY <1>1, FS_Subset
  <2>2. PICK x \in Far : \A z \in Far : g[z] <= g[x]
    BY <1>1, <1>3, <2>1, LargestValue
  <2>3. ASSUME NEW z \in Far PROVE f[x] <= f[z]
    <3>1. g[z] <= g[x] /\ f[x] \in Int /\ f[z] \in Int /\ g[x] = -f[x] /\ g[z] = -f[z]
      BY <1>1, <2>2
    <3> QED
      BY <3>1
  <2> QED
    BY <2>3
<1> DEFINE n == f[x]
<1>5. x \in S /\ n \in Int /\ Cardinality(UpTo(n)) >= k
  BY <1>1, <1>4
<1> HIDE DEF n
<1>6. IsFiniteSet(Under(n)) /\ Cardinality(Under(n)) \in Nat
  <2>1. Under(n) \in SUBSET S
    OBVIOUS
  <2> HIDE DEF Under
  <2> QED
    BY <2>1, FS_Subset, FS_CardinalityType
<1>7. Cardinality(Under(n)) < k
  <2> SUFFICES ASSUME ~(Cardinality(Under(n)) < k) PROVE FALSE
    OBVIOUS
  <2>1. Cardinality(Under(n)) >= k /\ Under(n) # {}
    BY <1>6, FS_EmptySet
  <2>2. \A y \in Under(n) : f[y] \in Int
    OBVIOUS
  <2> DEFINE L == Under(n)
  <2>3. IsFiniteSet(L) /\ L # {} /\ \A y \in L : f[y] \in Int
    BY <1>6, <2>1, <2>2
  <2> HIDE DEF L
  <2>4. PICK z \in L : \A y \in L : f[y] <= f[z]
    BY <2>3, LargestValue
  <2>5. z \in S /\ f[z] < n
    BY <2>4 DEF L
  <2>6. UpTo(f[z]) \in SUBSET S /\ L \in SUBSET UpTo(f[z])
    BY <2>4 DEF L
  <2>7. /\ IsFiniteSet(UpTo(f[z])) /\ Cardinality(UpTo(f[z])) \in Nat
        /\ Cardinality(L) <= Cardinality(UpTo(f[z]))
    <3> HIDE DEF UpTo
    <3>1. IsFiniteSet(UpTo(f[z]))
      BY <2>6, FS_Subset
    <3> QED
      BY <2>6, <3>1, FS_Subset, FS_CardinalityType
  <2>8. Cardinality(UpTo(f[z])) >= k
    BY <1>6, <2>1, <2>7 DEF L
  <2>9. z \in Far /\ f[z] \in Int
    BY <1>1, <2>5, <2>8
  <2>10. n <= f[z]
    BY <1>4, <2>9 DEF n
  <2> QED
    BY <1>5, <2>5, <2>9, <2>10
<1> QED
  BY <1>5, <1>7 DEF n

\* A value that more than half of a set take is the one in the middle.
LEMMA MajorityInTheMiddle ==
    ASSUME NEW S, IsFiniteSet(S), NEW f, \A x \in S : f[x] \in Int, NEW p \in Int, NEW q \in Int,
           NEW Equal \in SUBSET S, \A x \in Equal : f[x] = p,
           NEW Under \in SUBSET S, \A x \in S : f[x] < q => x \in Under,
           NEW UpTo \in SUBSET S, \A x \in UpTo : f[x] <= q,
           NEW k \in Nat, Cardinality(S) <= 2 * k, 2 * k <= Cardinality(S) + 2,
           2 * Cardinality(Equal) > Cardinality(S),
           Cardinality(Under) < k, Cardinality(UpTo) >= k
    PROVE  q = p
<1> DEFINE e == Cardinality(Equal)
           u == Cardinality(Under)
           v == Cardinality(UpTo)
           n == Cardinality(S)
<1>1. /\ IsFiniteSet(Equal) /\ IsFiniteSet(Under) /\ IsFiniteSet(UpTo)
  BY FS_Subset
<1>2. e \in Nat /\ u \in Nat /\ v \in Nat /\ n \in Nat
  BY <1>1, FS_CardinalityType
<1>3. 2 * e > n /\ n <= 2 * k /\ 2 * k <= n + 2 /\ u < k /\ v >= k
  OBVIOUS
<1>4. CASE q < p
  <2>1. Equal \cap UpTo = {} /\ Equal \cup UpTo \in SUBSET S
    <3>1. ASSUME NEW x \in Equal, x \in UpTo PROVE FALSE
      <4>1. f[x] = p /\ f[x] <= q
        BY <3>1
      <4> QED
        BY <1>4, <4>1
    <3> QED
      BY <3>1
  <2>2. Cardinality(Equal \cup UpTo) = e + v - Cardinality({})
    BY <1>1, <2>1, FS_Union
  <2>3. Cardinality({}) = 0 /\ Cardinality(Equal \cup UpTo) <= n
    BY <2>1, FS_EmptySet, FS_Subset
  <2> HIDE DEF e, v, n, u
  <2>4. e + v <= n
    BY <1>2, <2>2, <2>3
  <2> QED
    BY <1>2, <1>3, <2>4
<1>5. CASE p < q
  <2>1. Equal \in SUBSET Under
    BY <1>5
  <2>2. e <= u
    BY <1>1, <2>1, FS_Subset
  <2> HIDE DEF e, v, n, u
  <2> QED
    BY <1>2, <1>3, <2>2
<1> QED
  BY <1>4, <1>5

\* The types, and that only so many were made sources and none reported after the
\* present.
OracleInv ==
    /\ now \in Nat /\ OracleTypeOK
    /\ report \in [Reporters -> Reports \cup {None}]
    /\ IsFiniteSet(sources)
    /\ feed # None => feed.at <= now

\* All that a step of oracle_price_feeds may change.
OracleState == <<now, oracleVars>>

\* There are no sources and no reports yet.
LEMMA OracleInvInit == now = 0 /\ OracleInit => OracleInv
<1> SUFFICES ASSUME now = 0, OracleInit PROVE OracleInv
  OBVIOUS
<1>1. now \in Nat /\ report \in [Reporters -> Reports \cup {None}] /\ feed = None
  BY DEF OracleInit
<1>2. OracleTypeOK
  BY <1>1 DEF OracleInit, OracleTypeOK
<1>3. IsFiniteSet(sources)
  BY FS_EmptySet DEF OracleInit
<1> QED
  BY <1>1, <1>2, <1>3 DEF OracleInv

\* Every entry point of oracle_price_feeds keeps the invariant.
LEMMA OracleInvNext == OracleInv /\ [OracleNext]_OracleState => OracleInv'
<1> SUFFICES ASSUME OracleInv, [OracleNext]_OracleState PROVE OracleInv'
  OBVIOUS
<1>1. CASE UNCHANGED OracleState
  BY <1>1 DEF OracleState, oracleVars, oracleTerms, OracleInv, OracleTypeOK
<1>2. CASE Tick /\ UNCHANGED oracleVars
  <2>1. /\ now' = now + 1 /\ now \in Nat
        /\ UNCHANGED <<sources, priceQuorum, staleAfter, maxDeviation, report, feed>>
    BY <1>2 DEF Tick, oracleVars, oracleTerms, OracleInv
  <2>2. ASSUME feed # None PROVE feed.at <= now'
    <3>1. feed \in Reports /\ feed.at <= now
      BY <2>2 DEF OracleInv, OracleTypeOK
    <3>2. feed.at \in Nat
      BY <3>1 DEF Reports
    <3> QED
      BY <2>1, <3>1, <3>2
  <2>3. OracleTypeOK'
    BY <2>1 DEF OracleInv, OracleTypeOK
  <2> QED
    BY <2>1, <2>2, <2>3 DEF OracleInv
<1>3. ASSUME NEW by \in Reporters, NEW price \in Prices, NEW seq \in 1..MaxSequence,
             UpdatePrice(by, price, seq), UNCHANGED now
      PROVE  OracleInv'
  <2> DEFINE r == [price |-> price, at |-> now, seq |-> seq]
  <2>1. r \in Reports /\ r.at = now /\ now \in Nat
    BY DEF Reports, OracleInv
  <2>2. /\ report' = [report EXCEPT ![by] = r] /\ feed' = (IF sources = {} THEN r ELSE feed)
        /\ UNCHANGED <<sources, priceQuorum, staleAfter, maxDeviation, now>>
    BY <1>3 DEF UpdatePrice, oracleTerms
  <2> HIDE DEF r
  <2>3. report' \in [Reporters -> Reports \cup {None}]
    BY <2>1, <2>2 DEF OracleInv
  <2>4. feed' \in Reports \cup {None} /\ (feed' # None => feed'.at <= now')
    BY <2>1, <2>2 DEF OracleInv, OracleTypeOK
  <2>5. OracleTypeOK'
    BY <2>2, <2>3, <2>4 DEF OracleInv, OracleTypeOK
  <2> QED
    BY <2>1, <2>2, <2>3, <2>4, <2>5 DEF OracleInv
<1>4. ASSUME NEW by, NEW s \in Callers, AddSource(by, s), UNCHANGED now PROVE OracleInv'
  <2>1. IsFiniteSet(sources \cup {s})
    BY FS_AddElement DEF OracleInv
  <2>2. OracleTypeOK'
    BY <1>4 DEF AddSource, OracleInv, OracleTypeOK
  <2> QED
    BY <1>4, <2>1, <2>2 DEF AddSource, OracleInv
<1>5. ASSUME NEW by, NEW s \in Callers, RemoveSource(by, s), UNCHANGED now PROVE OracleInv'
  <2>1. IsFiniteSet(sources \ {s})
    BY FS_RemoveElement DEF OracleInv
  <2>2. OracleTypeOK'
    BY <1>5 DEF RemoveSource, OracleInv, OracleTypeOK
  <2> QED
    BY <1>5, <2>1, <2>2 DEF RemoveSource, OracleInv
<1>6. ASSUME NEW by, NEW q \in Quorums, SetOracleQuorum(by, q), UNCHANGED now PROVE OracleInv'
  BY <1>6 DEF SetOracleQuorum, OracleInv, OracleTypeOK
<1>7. ASSUME NEW by, NEW threshold \in Thresholds, SetStaleness(by, threshold), UNCHANGED now
      PROVE  OracleInv'
  BY <1>7 DEF SetStaleness, OracleInv, OracleTypeOK
<1>8. ASSUME NEW by, NEW bps \in Deviations, SetMaxDeviation(by, bps), UNCHANGED now
      PROVE  OracleInv'
  BY <1>8 DEF SetMaxDeviation, OracleInv, OracleTypeOK
<1> QED
  BY <1>1, <1>2, <1>3, <1>4, <1>5, <1>6, <1>7, <1>8 DEF OracleNext

\* The feed is written with a sequence number above its own, at the present.
LEMMA FeedSteps ==
    ASSUME OracleInv, [OracleNext]_OracleState, feed # None, feed' # feed
    PROVE  feed'.seq > feed.seq /\ feed'.at >= feed.at
<1>1. feed = feed' \/ \E by \in Reporters : \E price \in Prices, seq \in 1..MaxSequence :
                          UpdatePrice(by, price, seq)
  BY DEF OracleNext, OracleState, oracleVars, oracleTerms, AddSource, RemoveSource, SetOracleQuorum,
         SetStaleness, SetMaxDeviation
<1>2. PICK by \in Reporters, price \in Prices, seq \in 1..MaxSequence : UpdatePrice(by, price, seq)
  BY <1>1
<1> DEFINE r == [price |-> price, at |-> now, seq |-> seq]
<1>3. feed' = (IF sources = {} THEN r ELSE feed) /\ NextInLine(by, seq)
  BY <1>2 DEF UpdatePrice
<1>4. sources = {} /\ feed' = r /\ r.seq = seq /\ r.at = now /\ seq > feed.seq
  BY <1>3 DEF NextInLine
<1> QED
  BY <1>4 DEF OracleInv

\* The fresh reports have a k-th price, and no other one.
LEMMA KthPriceExists ==
    ASSUME OracleInv, NEW k \in Nat \ {0}, k <= Cardinality(FreshSources)
    PROVE  /\ KthPrice(FreshSources, k) \in Prices
           /\ Cardinality({s \in FreshSources : report[s].price < KthPrice(FreshSources, k)}) < k
           /\ Cardinality({s \in FreshSources : report[s].price <= KthPrice(FreshSources, k)}) >= k
<1> DEFINE ss == FreshSources
           f == [s \in ss |-> report[s].price]
<1>1. IsFiniteSet(ss) /\ \A s \in ss : report[s].price \in Prices
  <2>1. ss \in SUBSET sources /\ \A s \in ss : report[s] # None
    BY DEF FreshSources, FreshReport
  <2> HIDE DEF ss
  <2>2. IsFiniteSet(ss)
    BY <2>1, FS_Subset DEF OracleInv
  <2>3. \A s \in ss : report[s] \in Reports
    BY <2>1 DEF OracleInv, OracleTypeOK, Reporters
  <2> QED
    BY <2>2, <2>3 DEF Reports
<1> HIDE DEF ss
<1>2. \A s \in ss : f[s] \in Int /\ f[s] = report[s].price
  BY <1>1, OracleAssumption
<1> HIDE DEF f
<1>3. k <= Cardinality(ss)
  BY DEF ss
<1>4. \E x \in ss : /\ Cardinality({y \in ss : f[y] < f[x]}) < k
                    /\ Cardinality({y \in ss : f[y] <= f[x]}) >= k
  <2>1. IsFiniteSet(ss)
    BY <1>1
  <2>2. \A s \in ss : f[s] \in Int
    BY <1>2
  <2> QED
    BY <1>3, <2>1, <2>2, KthValue
<1> DEFINE Mid(p) == /\ Cardinality({s \in ss : report[s].price < p}) < k
                     /\ Cardinality({s \in ss : report[s].price <= p}) >= k
<1>5. PICK p \in Prices : Mid(p)
  <2> PICK x \in ss : /\ Cardinality({y \in ss : f[y] < f[x]}) < k
                      /\ Cardinality({y \in ss : f[y] <= f[x]}) >= k
    BY <1>4
  <2>1. {y \in ss : f[y] < f[x]} = {s \in ss : report[s].price < f[x]}
    BY <1>2
  <2>2. {y \in ss : f[y] <= f[x]} = {s \in ss : report[s].price <= f[x]}
    BY <1>2
  <2>3. f[x] \in Prices
    BY <1>1, <1>2
  <2>4. Mid(f[x])
    BY <2>1, <2>2
  <2> QED
    BY <2>3, <2>4
<1>6. KthPrice(ss, k) = CHOOSE q \in Prices : Mid(q)
  BY DEF KthPrice
<1> HIDE DEF Mid
<1>7. KthPrice(ss, k) \in Prices /\ Mid(KthPrice(ss, k))
  BY <1>5, <1>6
<1> QED
  BY <1>7 DEF Mid, ss

\* The middle ones of the fresh prices are prices, and they are p where more than
\* half are.
LEMMA MedianOfFresh ==
    ASSUME OracleInv, FreshSources # {}
    PROVE  /\ Median(FreshSources) \in Int
           /\ \A p \in Prices :
                2 * Cardinality({s \in FreshSources : report[s].price = p}) > Cardinality(FreshSources)
                => Median(FreshSources) = p
<1> DEFINE ss == FreshSources
           n == Cardinality(ss)
           half == n \div 2
           low == KthPrice(ss, half)
           high == KthPrice(ss, half + 1)
<1>1. IsFiniteSet(ss) /\ \A s \in ss : report[s].price \in Int
  <2>1. ss \in SUBSET sources /\ \A s \in ss : report[s] # None
    BY DEF FreshSources, FreshReport
  <2> HIDE DEF ss
  <2>2. IsFiniteSet(ss)
    BY <2>1, FS_Subset DEF OracleInv
  <2>3. \A s \in ss : report[s] \in Reports
    BY <2>1 DEF OracleInv, OracleTypeOK, Reporters
  <2>4. \A s \in ss : report[s].price \in Prices
    BY <2>3 DEF Reports
  <2> QED
    BY <2>2, <2>4, OracleAssumption
<1>2. n \in Nat \ {0}
  <2> HIDE DEF ss
  <2>1. ss # {}
    BY DEF ss
  <2> QED
    BY <1>1, <2>1, FS_CardinalityType, FS_EmptySet
<1> HIDE DEF n
<1>3. /\ half \in Nat /\ half + 1 \in Nat \ {0}
      /\ (n % 2 = 1 /\ n = 2 * half + 1) \/ (n % 2 # 1 /\ n = 2 * half /\ half # 0)
      /\ half + 1 <= n
  BY <1>2
<1>4. /\ high \in Prices /\ high \in Int
      /\ Cardinality({s \in ss : report[s].price < high}) < half + 1
      /\ Cardinality({s \in ss : report[s].price <= high}) >= half + 1
  BY <1>3, KthPriceExists, OracleAssumption DEF n
<1>5. n % 2 # 1 =>
        /\ low \in Prices /\ low \in Int
        /\ Cardinality({s \in ss : report[s].price < low}) < half
        /\ Cardinality({s \in ss : report[s].price <= low}) >= half
  <2> SUFFICES ASSUME n % 2 # 1
               PROVE  /\ low \in Prices /\ low \in Int
                      /\ Cardinality({s \in ss : report[s].price < low}) < half
                      /\ Cardinality({s \in ss : report[s].price <= low}) >= half
    OBVIOUS
  <2>1. half \in Nat \ {0} /\ half <= n
    BY <1>3
  <2> QED
    BY <2>1, KthPriceExists, OracleAssumption DEF n
<1>6. Median(ss) = IF n % 2 = 1 THEN high ELSE Halved(low + high)
  BY DEF Median, n
<1>7. ASSUME NEW p \in Prices, 2 * Cardinality({s \in ss : report[s].price = p}) > n
      PROVE  high = p /\ (n % 2 # 1 => low = p)
  <2> DEFINE f == [s \in ss |-> report[s].price]
             m == half
  <2>1. p \in Int
    BY OracleAssumption
  <2>2. \A s \in ss : f[s] \in Int /\ f[s] = report[s].price
    BY <1>1
  <2> HIDE DEF f, ss
  <2>3. /\ {s \in ss : f[s] = p} = {s \in ss : report[s].price = p}
        /\ \A q : {s \in ss : f[s] < q} = {s \in ss : report[s].price < q}
        /\ \A q : {s \in ss : f[s] <= q} = {s \in ss : report[s].price <= q}
    BY <2>2
  <2>4. 2 * Cardinality({s \in ss : f[s] = p}) > Cardinality(ss)
    BY <1>7, <2>3 DEF n
  <2>5. ASSUME NEW k \in Nat, Cardinality(ss) <= 2 * k, 2 * k <= Cardinality(ss) + 2,
               NEW q \in Int, Cardinality({s \in ss : f[s] < q}) < k,
               Cardinality({s \in ss : f[s] <= q}) >= k
        PROVE  q = p
    <3> DEFINE Equal == {s \in ss : f[s] = p}
               Under == {s \in ss : f[s] < q}
               UpTo == {s \in ss : f[s] <= q}
    <3>1. /\ Equal \in SUBSET ss /\ \A x \in Equal : f[x] = p
          /\ Under \in SUBSET ss /\ \A x \in ss : f[x] < q => x \in Under
          /\ UpTo \in SUBSET ss /\ \A x \in UpTo : f[x] <= q
      OBVIOUS
    <3>2. 2 * Cardinality(Equal) > Cardinality(ss) /\ Cardinality(Under) < k /\ Cardinality(UpTo) >= k
      BY <2>4, <2>5
    <3>3. IsFiniteSet(ss) /\ \A s \in ss : f[s] \in Int
      BY <1>1, <2>2
    <3> HIDE DEF Equal, Under, UpTo
    <3> QED
      BY <2>1, <2>5, <3>1, <3>2, <3>3, MajorityInTheMiddle
  <2> HIDE DEF low, high
  <2>6. high = p
    <3>1. Cardinality(ss) <= 2 * (half + 1) /\ 2 * (half + 1) <= Cardinality(ss) + 2
      BY <1>2, <1>3 DEF n
    <3>2. /\ Cardinality({s \in ss : f[s] < high}) < half + 1
          /\ Cardinality({s \in ss : f[s] <= high}) >= half + 1
      BY <1>4, <2>3
    <3>3. half + 1 \in Nat /\ high \in Int
      BY <1>3, <1>4
    <3> QED
      BY <2>5, <3>1, <3>2, <3>3
  <2>7. ASSUME n % 2 # 1 PROVE low = p
    <3>1. Cardinality(ss) <= 2 * half /\ 2 * half <= Cardinality(ss) + 2
      BY <1>2, <1>3, <2>7 DEF n
    <3>2. /\ Cardinality({s \in ss : f[s] < low}) < half
          /\ Cardinality({s \in ss : f[s] <= low}) >= half
      BY <1>5, <2>3, <2>7
    <3>3. half \in Nat /\ low \in Int
      BY <1>3, <1>5, <2>7
    <3> QED
      BY <2>5, <3>1, <3>2, <3>3
  <2> QED
    BY <2>6, <2>7
<1> HIDE DEF half, low, high, ss
<1>8. Median(ss) \in Int
  <2>1. CASE n % 2 = 1
    BY <1>4, <1>6, <2>1
  <2>2. CASE n % 2 # 1
    BY <1>4, <1>5, <1>6, <2>2 DEF Halved
  <2> QED
    BY <2>1, <2>2
<1>9. ASSUME NEW p \in Prices, 2 * Cardinality({s \in ss : report[s].price = p}) > n
      PROVE  Median(ss) = p
  <2>1. p \in Int
    BY OracleAssumption
  <2>2. CASE n % 2 = 1
    BY <1>6, <1>7, <1>9, <2>2
  <2>3. CASE n % 2 # 1
    <3>1. Median(ss) = Halved(p + p)
      BY <1>6, <1>7, <1>9, <2>3
    <3> QED
      BY <2>1, <3>1 DEF Halved
  <2> QED
    BY <2>2, <2>3
<1> QED
  BY <1>8, <1>9 DEF ss, n

\* A price is to be had where it is not stale, and the majority's is the price.
LEMMA PriceFollowsMajority == OracleInv => PriceIsMajority
<1> SUFFICES ASSUME OracleInv PROVE PriceIsMajority
  OBVIOUS
<1>1. IsFiniteSet(FreshSources) /\ Cardinality(FreshSources) \in Nat
  <2>1. FreshSources \in SUBSET sources
    BY DEF FreshSources
  <2>2. IsFiniteSet(FreshSources)
    BY <2>1, FS_Subset DEF OracleInv
  <2> QED
    BY <2>2, FS_CardinalityType
<1>2. FreshReport(feed) => feed.price # None
  <2> SUFFICES ASSUME FreshReport(feed) PROVE feed.price # None
    OBVIOUS
  <2>1. feed \in Reports
    BY DEF FreshReport, OracleInv, OracleTypeOK
  <2>2. feed.price \in Int
    BY <2>1, OracleAssumption DEF Reports
  <2> QED
    BY <2>2, OracleAssumption
<1>3. FreshSources # {} => Median(FreshSources) # None
  BY MedianOfFresh, OracleAssumption
<1>4. priceQuorum \in Nat
  BY OracleAssumption DEF OracleInv, OracleTypeOK
<1>5. ASSUME priceQuorum > 0 PROVE (GetPrice = None) = IsStale
  <2>1. (GetPrice = None) <=> IsStale
    <3>1. CASE sources = {}
      BY <1>2, <3>1 DEF GetPrice, IsStale
    <3>2. CASE sources # {}
      <4>1. FreshSources = {} => Cardinality(FreshSources) < priceQuorum
        BY <1>4, <1>5, FS_EmptySet
      <4>2. ~(Cardinality(FreshSources) >= priceQuorum) <=> Cardinality(FreshSources) < priceQuorum
        BY <1>1, <1>4
      <4> QED
        BY <1>3, <3>2, <4>1, <4>2 DEF GetPrice, IsStale
    <3> QED
      BY <3>1, <3>2
  <2>2. IsStale \in BOOLEAN
    <3> DEFINE c == Cardinality(FreshSources)
    <3>1. (c < priceQuorum) \in BOOLEAN /\ (~FreshReport(feed)) \in BOOLEAN
      <4> HIDE DEF c
      <4> QED
        OBVIOUS
    <3>2. IsStale = IF sources = {} THEN ~FreshReport(feed) ELSE c < priceQuorum
      BY DEF IsStale
    <3> HIDE DEF c
    <3> QED
      BY <3>1, <3>2
  <2> QED
    BY <2>1, <2>2
<1>6. ASSUME NEW p \in Prices, sources # {}, GetPrice # None,
             2 * Cardinality({s \in FreshSources : report[s].price = p}) > Cardinality(FreshSources)
      PROVE  GetPrice = p
  <2>1. FreshSources # {} /\ GetPrice = Median(FreshSources)
    BY <1>6 DEF GetPrice
  <2> QED
    BY <1>6, <2>1, MedianOfFresh
<1> QED
  BY <1>5, <1>6 DEF PriceIsMajority

-----------------------------------------------------------------------------
(* All of them, on one clock *)

\* Whichever contract is called, time passes by ticks alone.
LEMMA TenancyClock == [TenancyNext]_TenancyVars => Tick \/ UNCHANGED now
<1>1. WalletNext => Tick \/ UNCHANGED now
  BY DEF WalletNext
<1>2. RtoNext => UNCHANGED now
  BY DEF RtoNext
<1>3. SchedNext => Tick \/ UNCHANGED now
  BY DEF SchedNext
<1>4. PayNext => Tick \/ UNCHANGED now
  BY DEF PayNext
<1>5. RecordsNext => Tick \/ UNCHANGED now
  BY DEF RecordsNext
<1>6. RepNext => Tick \/ UNCHANGED now
  BY DEF RepNext
<1>7. VestNext => Tick \/ UNCHANGED now
  BY DEF VestNext
<1>8. InspectorNext => Tick \/ UNCHANGED now
  BY DEF InspectorNext
<1>9. RewardNext => Tick \/ UNCHANGED now
  BY DEF RewardNext
<1>10. OracleNext => Tick \/ UNCHANGED now
  BY DEF OracleNext
<1>11. AccessNext \/ ProxyNext \/ SchemaNext \/ GuardNext => UNCHANGED now
  BY DEF AccessNext, ProxyNext, SchemaNext, GuardNext
<1>12. AllowNext => Tick \/ UNCHANGED now
  BY DEF AllowNext
<1>13. UNCHANGED TenancyVars => UNCHANGED now
  BY DEF TenancyVars
<1> QED
  BY <1>1, <1>2, <1>3, <1>4, <1>5, <1>6, <1>7, <1>8, <1>9, <1>10, <1>11, <1>12, <1>13
  DEF TenancyNext

\* A contract that is not called stays as it is.
LEMMA OthersRest ==
    [TenancyNext]_TenancyVars =>
        /\ WalletNext \/ UNCHANGED walletVars
        /\ RtoNext \/ UNCHANGED rtoVars
        /\ SchedNext \/ UNCHANGED schedVars
        /\ PayNext \/ UNCHANGED payVars
        /\ RecordsNext \/ UNCHANGED recordVars
        /\ RepNext \/ UNCHANGED repVars
        /\ VestNext \/ UNCHANGED vestVars
        /\ InspectorNext \/ UNCHANGED inspectorVars
        /\ RewardNext \/ UNCHANGED rewardVars
        /\ OracleNext \/ UNCHANGED oracleVars
        /\ AccessNext \/ UNCHANGED accessVars
        /\ ProxyNext \/ UNCHANGED proxyVars
        /\ AllowNext \/ UNCHANGED registry
        /\ SchemaNext \/ UNCHANGED schemaVars
        /\ GuardNext \/ UNCHANGED guardVars
<1> SUFFICES ASSUME [TenancyNext]_TenancyVars
             PROVE  /\ WalletNext \/ UNCHANGED walletVars
                    /\ RtoNext \/ UNCHANGED rtoVars
                    /\ SchedNext \/ UNCHANGED schedVars
                    /\ PayNext \/ UNCHANGED payVars
                    /\ RecordsNext \/ UNCHANGED recordVars
                    /\ RepNext \/ UNCHANGED repVars
                    /\ VestNext \/ UNCHANGED vestVars
                    /\ InspectorNext \/ UNCHANGED inspectorVars
                    /\ RewardNext \/ UNCHANGED rewardVars
                    /\ OracleNext \/ UNCHANGED oracleVars
                    /\ AccessNext \/ UNCHANGED accessVars
                    /\ ProxyNext \/ UNCHANGED proxyVars
                    /\ AllowNext \/ UNCHANGED registry
                    /\ SchemaNext \/ UNCHANGED schemaVars
                    /\ GuardNext \/ UNCHANGED guardVars
  OBVIOUS
<1>1. UNCHANGED tenancies =>
        UNCHANGED walletVars /\ UNCHANGED rtoVars /\ UNCHANGED schedVars /\ UNCHANGED payVars
        /\ UNCHANGED recordVars
  BY DEF tenancies
<1>2. UNCHANGED persons =>
        UNCHANGED repVars /\ UNCHANGED vestVars /\ UNCHANGED inspectorVars /\ UNCHANGED rewardVars
        /\ UNCHANGED oracleVars
  BY DEF persons
<1>3. UNCHANGED platform =>
        UNCHANGED accessVars /\ UNCHANGED proxyVars /\ UNCHANGED registry /\ UNCHANGED schemaVars
        /\ UNCHANGED guardVars
  BY DEF platform
<1>4. CASE UNCHANGED TenancyVars
  <2>1. UNCHANGED tenancies /\ UNCHANGED persons /\ UNCHANGED platform
    BY <1>4 DEF TenancyVars
  <2> QED
    BY <1>1, <1>2, <1>3, <2>1
<1>5. CASE TenancyNext
  <2>1. CASE UNCHANGED persons /\ UNCHANGED platform /\
             \/ WalletNext /\ UNCHANGED <<rtoVars, schedVars, payVars, recordVars>>
             \/ RtoNext /\ UNCHANGED <<walletVars, schedVars, payVars, recordVars>>
             \/ SchedNext /\ UNCHANGED <<walletVars, rtoVars, payVars, recordVars>>
             \/ PayNext /\ UNCHANGED <<walletVars, rtoVars, schedVars, recordVars>>
             \/ RecordsNext /\ UNCHANGED <<walletVars, rtoVars, schedVars, payVars>>
    BY <1>2, <1>3, <2>1
  <2>2. CASE UNCHANGED tenancies /\ UNCHANGED platform /\
             \/ RepNext /\ UNCHANGED <<vestVars, inspectorVars, rewardVars, oracleVars>>
             \/ VestNext /\ UNCHANGED <<repVars, inspectorVars, rewardVars, oracleVars>>
             \/ InspectorNext /\ UNCHANGED <<repVars, vestVars, rewardVars, oracleVars>>
             \/ RewardNext /\ UNCHANGED <<repVars, vestVars, inspectorVars, oracleVars>>
             \/ OracleNext /\ UNCHANGED <<repVars, vestVars, inspectorVars, rewardVars>>
    BY <1>1, <1>3, <2>2
  <2>3. CASE UNCHANGED tenancies /\ UNCHANGED persons /\
             \/ AccessNext /\ UNCHANGED <<proxyVars, registry, schemaVars, guardVars>>
             \/ ProxyNext /\ UNCHANGED <<accessVars, registry, schemaVars, guardVars>>
             \/ AllowNext /\ UNCHANGED <<accessVars, proxyVars, schemaVars, guardVars>>
             \/ SchemaNext /\ UNCHANGED <<accessVars, proxyVars, registry, guardVars>>
             \/ GuardNext /\ UNCHANGED <<accessVars, proxyVars, registry, schemaVars>>
    BY <1>1, <1>2, <2>3
  <2> QED
    BY <1>5, <2>1, <2>2, <2>3 DEF TenancyNext
<1> QED
  BY <1>4, <1>5

\* The invariants of all of them.
TenancyInv ==
    /\ WalletInv /\ RtoInv /\ SchedInv /\ PayInv /\ RecordsInv
    /\ RepInv /\ VestInv /\ InspectorInv /\ RewardInv /\ OracleInv
    /\ AccessTypeOK /\ ProxyTypeOK /\ AllowTypeOK /\ SchemaInv /\ GuardTypeOK

\* Each of them starts with its own.
LEMMA TenancyInvInit == TenancyInit => TenancyInv
<1> SUFFICES ASSUME TenancyInit PROVE TenancyInv
  OBVIOUS
<1>1. /\ now = 0
      /\ WalletInit /\ RtoInit /\ SchedInit /\ PayInit /\ RecordsInit
      /\ RepInit /\ VestInit /\ InspectorInit /\ RewardInit /\ OracleInit
      /\ AccessInit /\ ProxyInit /\ AllowInit /\ SchemaInit /\ GuardInit
  BY DEF TenancyInit
<1>2. WalletInv /\ RtoInv /\ SchedInv /\ PayInv /\ RecordsInv
  BY <1>1, WalletInvInit, RtoInvInit, SchedInvInit, PayInvInit, RecordsInvInit
<1>3. RepInv /\ VestInv /\ InspectorInv /\ RewardInv /\ OracleInv
  BY <1>1, RepInvInit, VestInvInit, InspectorInvInit, RewardInvInit, OracleInvInit
<1>4. AccessTypeOK
  BY <1>1 DEF AccessInit, AccessTypeOK, Roles
<1>5. ProxyTypeOK
  BY <1>1, ProxyAssumption DEF ProxyInit, ProxyTypeOK, Callers
<1>6. AllowTypeOK
  BY <1>1 DEF AllowInit, AllowTypeOK
<1>7. SchemaInv
  BY <1>1, SchemaAssumption DEF SchemaInit, SchemaInv
<1>8. GuardTypeOK
  BY <1>1, GuardAssumption DEF GuardInit, GuardTypeOK, Callers
<1> QED
  BY <1>2, <1>3, <1>4, <1>5, <1>6, <1>7, <1>8 DEF TenancyInv

\* A step is one of the contract that is called, and at most a tick for the others.
LEMMA TenancyInvNext == TenancyInv /\ [TenancyNext]_TenancyVars => TenancyInv'
<1> SUFFICES ASSUME TenancyInv, [TenancyNext]_TenancyVars PROVE TenancyInv'
  OBVIOUS
<1>1. Tick \/ UNCHANGED now
  BY TenancyClock
<1>2. WalletInv' /\ SchedInv' /\ PayInv' /\ RecordsInv'
  <2>1. [WalletNext]_WalletState
    BY <1>1, OthersRest DEF WalletNext, WalletState
  <2>2. [SchedNext]_SchedState
    BY <1>1, OthersRest DEF SchedNext, SchedState
  <2>3. [PayNext]_PayState
    BY <1>1, OthersRest DEF PayNext, PayState
  <2>4. [RecordsNext]_RecordsState
    BY <1>1, OthersRest DEF RecordsNext, RecordsState
  <2> QED
    BY <2>1, <2>2, <2>3, <2>4, WalletInvNext, SchedInvNext, PayInvNext, RecordsInvNext DEF TenancyInv
<1>3. RepInv' /\ VestInv' /\ InspectorInv' /\ RewardInv' /\ OracleInv'
  <2>1. [RepNext]_RepState
    BY <1>1, OthersRest DEF RepNext, RepState
  <2>2. [VestNext]_VestState
    BY <1>1, OthersRest DEF VestNext, VestState
  <2>3. [InspectorNext]_<<now, inspectorVars>>
    BY <1>1, OthersRest DEF InspectorNext
  <2>4. [RewardNext]_RewardState
    BY <1>1, OthersRest DEF RewardNext, RewardState
  <2>5. [OracleNext]_OracleState
    BY <1>1, OthersRest DEF OracleNext, OracleState
  <2> QED
    BY <2>1, <2>2, <2>3, <2>4, <2>5, RepInvNext, VestInvNext, InspectorStep, RewardInvNext,
       OracleInvNext DEF TenancyInv
<1>4. RtoInv'
  <2>1. CASE RtoNext
    BY <2>1, RtoInvNext DEF RtoState, TenancyInv
  <2>2. CASE UNCHANGED rtoVars
    BY <2>2 DEF rtoVars, RtoInv, TenancyInv
  <2> QED
    BY <2>1, <2>2, OthersRest
<1>5. AccessTypeOK'
  <2>1. CASE AccessNext
    BY <2>1, AccessTypes DEF TenancyInv
  <2>2. CASE UNCHANGED accessVars
    BY <2>2 DEF accessVars, AccessTypeOK, TenancyInv
  <2> QED
    BY <2>1, <2>2, OthersRest
<1>6. ProxyTypeOK'
  <2>1. CASE ProxyNext
    BY <2>1, ProxyTypes DEF TenancyInv
  <2>2. CASE UNCHANGED proxyVars
    BY <2>2 DEF proxyVars, ProxyTypeOK, TenancyInv
  <2> QED
    BY <2>1, <2>2, OthersRest
<1>7. AllowTypeOK'
  <2>1. CASE AllowNext
    BY <2>1, AllowTypes DEF TenancyInv
  <2>2. CASE UNCHANGED registry
    BY <2>2 DEF AllowTypeOK, TenancyInv
  <2> QED
    BY <2>1, <2>2, OthersRest
<1>8. SchemaInv'
  <2>1. CASE SchemaNext
    BY <2>1, SchemaInvNext DEF TenancyInv
  <2>2. CASE UNCHANGED schemaVars
    BY <2>2 DEF schemaVars, SchemaInv, TenancyInv
  <2> QED
    BY <2>1, <2>2, OthersRest
<1>9. GuardTypeOK'
  <2>1. CASE GuardNext
    BY <2>1, GuardTypes DEF TenancyInv
  <2>2. CASE UNCHANGED guardVars
    BY <2>2 DEF guardVars, GuardTypeOK, TenancyInv
  <2> QED
    BY <2>1, <2>2, OthersRest
<1> QED
  BY <1>2, <1>3, <1>4, <1>5, <1>6, <1>7, <1>8, <1>9 DEF TenancyInv

\* Every contract of the tenancies, of persons and of the platform keeps its types:
\* wallets never overdrawn, open calls within the limit of the guard.
THEOREM TenancyTypesCorrect == TenancySpec => []TenancyTypeOK
<1>1. TenancyInv => TenancyTypeOK
  <2> SUFFICES ASSUME TenancyInv PROVE TenancyTypeOK
    OBVIOUS
  <2>1. now \in 0..MaxTime /\ WalletTypeOK
    BY DEF TenancyInv, WalletInv, WalletTypeOK
  <2>2. RtoTypeOK /\ SchedTypeOK /\ PayTypeOK /\ RecordsTypeOK
    BY RtoFacts, SchedFacts, PayFacts, RecordsFacts DEF TenancyInv
  <2>3. RepTypeOK /\ OracleTypeOK
    BY DEF TenancyInv, RepInv, RepTypeOK, OracleInv
  <2>4. VestTypeOK /\ InspectorTypeOK /\ RewardTypeOK
    BY VestFacts, RewardFacts DEF TenancyInv, InspectorInv
  <2>5. AccessTypeOK /\ ProxyTypeOK /\ AllowTypeOK /\ GuardTypeOK
    BY DEF TenancyInv
  <2>6. SchemaTypeOK
    BY DEF TenancyInv, SchemaInv, SchemaTypeOK
  <2> QED
    BY <2>1, <2>2, <2>3, <2>4, <2>5, <2>6 DEF TenancyTypeOK
<1> QED
  BY <1>1, TenancyInvInit, TenancyInvNext, PTL DEF TenancySpec

\* record_equity_payment and record_payment: equity is the sum of the payments, and
\* what is paid or waived of an instalment is what was due.
THEOREM PaymentsStayAccounted == TenancySpec => []PaymentsAccounted
<1>1. TenancyInv => PaymentsAccounted
  BY RtoFacts, SchedFacts DEF TenancyInv, PaymentsAccounted
<1> QED
  BY <1>1, TenancyInvInit, TenancyInvNext, PTL DEF TenancySpec

\* create_receipt, list_receipts_by_deal and record_receipt: receipts are unique,
\* read completely, and in the indexes they belong to.
THEOREM RecordsStayInAgreement == TenancySpec => []RecordsAgree
<1>1. TenancyInv => RecordsAgree
  BY PayFacts, RecordsFacts DEF TenancyInv, RecordsAgree
<1> QED
  BY <1>1, TenancyInvInit, TenancyInvNext, PTL DEF TenancySpec

\* claim_reward and claim_vested: no allocation and no vested amount is paid twice.
THEOREM ClaimsStayPaidOnce == TenancySpec => []ClaimsPaidOnce
<1>1. TenancyInv => ClaimsPaidOnce
  BY RewardFacts, VestFacts DEF TenancyInv, ClaimsPaidOnce
<1> QED
  BY <1>1, TenancyInvInit, TenancyInvNext, PTL DEF TenancySpec

\* get_reputation: as time passes a score that is read only falls, to the floor at most.
THEOREM ScoresFade == TenancySpec => ScoresOnlyDecay
<1> DEFINE Fades == now' > now => \A t \in Parties :
              LET rec == reputation[t] IN rec # None /\ rec.score >= bounds.min =>
                 /\ DecayedScore(rec)' <= DecayedScore(rec)
                 /\ DecayedScore(rec)' >= bounds.min
<1>1. TenancyInv /\ [TenancyNext]_TenancyVars => [Fades]_<<now, repVars>>
  <2> SUFFICES ASSUME TenancyInv, [TenancyNext]_TenancyVars, now' > now,
                      NEW t \in Parties, reputation[t] # None, reputation[t].score >= bounds.min
               PROVE  /\ DecayedScore(reputation[t])' <= DecayedScore(reputation[t])
                      /\ DecayedScore(reputation[t])' >= bounds.min
    OBVIOUS
  <2>1. RepInv /\ now \in Nat
    BY DEF TenancyInv, RepInv
  <2>2. now' # now
    BY <2>1
  <2>3. Tick /\ (RepNext \/ UNCHANGED repVars)
    BY <2>2, TenancyClock, OthersRest
  <2>4. UNCHANGED repVars
    BY <2>2, <2>3 DEF RepNext
  <2> QED
    BY <2>1, <2>3, <2>4, DecayOnly
<1> QED
  BY <1>1, TenancyInvInit, TenancyInvNext, PTL DEF TenancySpec, ScoresOnlyDecay

\* update_price and get_price: the feed only moves forward, and what more than half
\* of the fresh sources report is the price.
THEOREM PricesFollow == TenancySpec => OraclePrices
<1> DEFINE Forward == feed # None /\ feed' # feed => feed'.seq > feed.seq /\ feed'.at >= feed.at
<1>1. TenancyInv /\ [TenancyNext]_TenancyVars => [Forward]_oracleVars
  <2> SUFFICES ASSUME TenancyInv, [TenancyNext]_TenancyVars, feed # None, feed' # feed
               PROVE  feed'.seq > feed.seq /\ feed'.at >= feed.at
    OBVIOUS
  <2>1. OracleNext \/ UNCHANGED oracleVars
    BY OthersRest
  <2>2. OracleNext
    BY <2>1 DEF oracleVars
  <2> QED
    BY <2>2, FeedSteps DEF TenancyInv
<1>2. TenancyInv => PriceIsMajority
  BY PriceFollowsMajority DEF TenancyInv
<1> QED
  BY <1>1, <1>2, TenancyInvInit, TenancyInvNext, PTL DEF TenancySpec, OraclePrices, FeedMovesForward
=============================================================================
