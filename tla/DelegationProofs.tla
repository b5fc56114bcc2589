-------------------------- MODULE DelegationProofs --------------------------
(* Theorems about stake_delegation, for all delegators, delegatees, amounts, *)
(* rates and index scales.                                                   *)
EXTENDS StakeDelegation, LedgerProofs

\* The three invariants need each other: what a slash takes is taken from stakes
\* and total alike only because no delegation exceeds its owner's stake.
Inv == TypeOK /\ SummariesExact /\ DelegatedCovered

\* What a settlement may do to delegatee v: nothing but a funding or v's claim
\* changes what v may claim.
KeepsPast(v) ==
    rewardIndex' = rewardIndex =>
        /\ ClaimableRewards(v)' # ClaimableRewards(v) => ClaimDelegateeRewards(v)
        /\ ClaimableCommission(v)' # ClaimableCommission(v) => ClaimCommission(v)

\* The types of what settlements change.
BankTypeOK ==
    /\ rewardIndex \in 0..MaxIndex /\ delegateeIndex \in [Delegatees -> 0..MaxIndex]
    /\ rate \in [Delegatees -> 0..FullRate]
    /\ pendingRewards \in [Delegatees -> Nat] /\ commissionBalance \in [Delegatees -> Nat]

-----------------------------------------------------------------------------
(* Settlements.                                                            *)

\* The commission is a part of what was earned.
LEMMA EarnedSplit ==
    ASSUME BankTypeOK, delegateeStake \in [Delegatees -> Int], NEW v \in Delegatees
    PROVE  Gross(v) \in Nat /\ Commission(v) \in 0..Gross(v)
<1>1. SCALE \in Nat \ {0} /\ FullRate \in Nat \ {0}
  BY DelegationAssumption
<1>2. delegateeStake[v] \in Int /\ rewardIndex \in Nat /\ delegateeIndex[v] \in Nat /\ rate[v] \in 0..FullRate
  BY DelegationAssumption DEF BankTypeOK
<1>3. Gross(v) \in Nat
  <2>1. CASE delegateeStake[v] > 0 /\ rewardIndex > delegateeIndex[v]
    <3> DEFINE p == delegateeStake[v] * (rewardIndex - delegateeIndex[v])
    <3>1. p \in Nat
      BY <1>2, <2>1
    <3>2. Gross(v) = p \div SCALE
      BY <2>1 DEF Gross
    <3> HIDE DEF p
    <3> QED
      BY <1>1, <3>1, <3>2, QuotientRounds
  <2>2. CASE ~(delegateeStake[v] > 0 /\ rewardIndex > delegateeIndex[v])
    BY <2>2 DEF Gross
  <2> QED
    BY <2>1, <2>2
<1>4. Commission(v) \in 0..Gross(v)
  BY <1>1, <1>2, <1>3, PartOfWhole DEF Commission
<1> QED
  BY <1>3, <1>4

\* A settled delegatee has earned nothing since.
LEMMA NothingEarned ==
    ASSUME NEW v \in Delegatees, rewardIndex \in Nat, delegateeIndex[v] = rewardIndex,
           rate[v] \in 0..FullRate
    PROVE  Gross(v) = 0 /\ Commission(v) = 0
<1>1. Gross(v) = 0
  BY DEF Gross
<1>2. FullRate \in Nat \ {0} /\ 0 \in Nat
  BY DelegationAssumption
<1>3. (0 * rate[v]) \div FullRate = 0
  BY <1>2, PartOfWhole
<1> QED
  BY <1>1, <1>3 DEF Commission

\* Delegatees ws are settled, and rs and cs among them paid; stakes and rates of the
\* others stay.
LEMMA SettlesPast ==
    ASSUME BankTypeOK, delegateeStake \in [Delegatees -> Int],
           NEW ws \in SUBSET Delegatees, NEW rs \in SUBSET ws, NEW cs \in SUBSET ws,
           SettleAndPay(ws, rs, cs), rewardIndex' = rewardIndex,
           rate' \in [Delegatees -> 0..FullRate],
           \A v \in Delegatees \ ws :
                delegateeStake'[v] = delegateeStake[v] /\ rate'[v] = rate[v]
    PROVE  /\ BankTypeOK'
           /\ \A v \in Delegatees :
                /\ v \notin rs => ClaimableRewards(v)' = ClaimableRewards(v)
                /\ v \notin cs => ClaimableCommission(v)' = ClaimableCommission(v)
<1>1. \A v \in Delegatees : /\ Gross(v) \in Nat /\ Commission(v) \in 0..Gross(v)
                            /\ pendingRewards[v] \in Nat /\ commissionBalance[v] \in Nat
  BY EarnedSplit DEF BankTypeOK
<1>2. /\ rewardIndex \in 0..MaxIndex /\ delegateeIndex \in [Delegatees -> 0..MaxIndex]
      /\ rewardIndex \in Nat
  BY DelegationAssumption DEF BankTypeOK
<1>3. ASSUME NEW v \in Delegatees
      PROVE  /\ pendingRewards'[v] = IF v \in rs THEN 0
                    ELSE IF v \in ws THEN pendingRewards[v] + Gross(v) - Commission(v)
                    ELSE pendingRewards[v]
             /\ commissionBalance'[v] = IF v \in cs THEN 0
                    ELSE IF v \in ws THEN commissionBalance[v] + Commission(v)
                    ELSE commissionBalance[v]
             /\ delegateeIndex'[v] = IF v \in ws THEN rewardIndex ELSE delegateeIndex[v]
  BY DEF SettleAndPay, BankedRewards, BankedCommission
<1>4. BankTypeOK'
  <2>1. pendingRewards' \in [Delegatees -> Nat]
    <3>1. \A v \in Delegatees : pendingRewards'[v] \in Nat
      BY <1>1, <1>3
    <3>2. pendingRewards' = BankedRewards(ws, rs)
      BY DEF SettleAndPay
    <3> QED
      BY <3>1, <3>2 DEF BankedRewards
  <2>2. commissionBalance' \in [Delegatees -> Nat]
    <3>1. \A v \in Delegatees : commissionBalance'[v] \in Nat
      BY <1>1, <1>3
    <3>2. commissionBalance' = BankedCommission(ws, cs)
      BY DEF SettleAndPay
    <3> QED
      BY <3>1, <3>2 DEF BankedCommission
  <2>3. delegateeIndex' \in [Delegatees -> 0..MaxIndex]
    BY <1>2 DEF SettleAndPay
  <2> QED
    BY <1>2, <2>1, <2>2, <2>3 DEF BankTypeOK
<1>5. ASSUME NEW v \in Delegatees
      PROVE  /\ v \notin rs => ClaimableRewards(v)' = ClaimableRewards(v)
             /\ v \notin cs => ClaimableCommission(v)' = ClaimableCommission(v)
  <2>1. CASE v \in ws
    <3>1. /\ rewardIndex' \in Nat /\ delegateeIndex'[v] = rewardIndex' /\ rate'[v] \in 0..FullRate
      BY <1>2, <1>3, <2>1
    <3>2. Gross(v)' = 0 /\ Commission(v)' = 0
      <4>1. Gross(v)' = 0
        BY <3>1 DEF Gross
      <4>2. FullRate \in Nat \ {0} /\ 0 \in Nat
        BY DelegationAssumption
      <4>3. (0 * rate'[v]) \div FullRate = 0
        BY <3>1, <4>2, PartOfWhole
      <4> QED
        BY <4>1, <4>3 DEF Commission
    <3>3. /\ ClaimableRewards(v)' = pendingRewards'[v]
          /\ ClaimableCommission(v)' = commissionBalance'[v]
      <4>1. pendingRewards'[v] \in Nat /\ commissionBalance'[v] \in Nat
        BY <1>4 DEF BankTypeOK
      <4> QED
        BY <3>2, <4>1 DEF ClaimableRewards, ClaimableCommission
    <3> QED
      BY <1>3, <2>1, <3>3 DEF ClaimableRewards, ClaimableCommission
  <2>2. CASE v \notin ws
    <3>1. /\ pendingRewards'[v] = pendingRewards[v] /\ delegateeIndex'[v] = delegateeIndex[v]
          /\ commissionBalance'[v] = commissionBalance[v]
          /\ delegateeStake'[v] = delegateeStake[v] /\ rate'[v] = rate[v]
      BY <1>3, <2>2
    <3>2. Gross(v)' = Gross(v)
      BY <3>1 DEF Gross
    <3>3. Commission(v)' = Commission(v)
      BY <3>1, <3>2 DEF Commission
    <3> QED
      BY <3>1, <3>2, <3>3 DEF ClaimableRewards, ClaimableCommission
  <2> QED
    BY <2>1, <2>2
<1> QED
  BY <1>4, <1>5

-----------------------------------------------------------------------------
(* Stakes and delegations.                                                 *)

\* What Inv says of the stakes.
StakesOK ==
    /\ stakedBalance \in [Users -> Nat] /\ totalStaked \in Nat
    /\ totalStaked = SumFunctionOnSet(stakedBalance, Users)

\* What it says of the delegations.
DelegationsOK ==
    /\ delegation \in [Users -> [Delegatees -> Nat]]
    /\ delegatorsOf \in [Delegatees -> SUBSET Users]
    /\ delegateeStake \in [Delegatees -> Int]
    /\ \A v \in Delegatees : delegatorsOf[v] = {u \in Users : delegation[u][v] # 0}
    /\ \A u \in Users : TotalDelegated(u) <= stakedBalance[u]

\* The types of the requests that wait.
RequestsOK ==
    /\ revocation \in [Users -> [Delegatees -> 1..MaxEpoch \cup {None}]]
    /\ undelegation \in [Users -> [Delegatees -> [amount : Amounts, time : 0..MaxTime] \cup {None}]]

\* The types of the clock, the epoch and the settings.
SettingsOK ==
    /\ now \in 0..MaxTime /\ epoch \in 1..MaxEpoch /\ paused \in BOOLEAN
    /\ cooldown \in Nat /\ authority \in Authorities \cup {None}

\* The invariant is its parts, and so it is after a step.
LEMMA InvParts == Inv <=> SettingsOK /\ BankTypeOK /\ RequestsOK /\ StakesOK /\ DelegationsOK
BY DEF Inv, TypeOK, SummariesExact, DelegatedCovered, SettingsOK, BankTypeOK, RequestsOK,
       StakesOK, DelegationsOK

\* The same after a step.
LEMMA InvPartsNext == Inv' <=> SettingsOK' /\ BankTypeOK' /\ RequestsOK' /\ StakesOK' /\ DelegationsOK'
BY DEF Inv, TypeOK, SummariesExact, DelegatedCovered, SettingsOK, BankTypeOK, RequestsOK,
       StakesOK, DelegationsOK

\* Nothing is staked, delegated or requested yet.
LEMMA InitInv == Init => Inv
<1> SUFFICES ASSUME Init PROVE Inv
  OBVIOUS
<1>1. /\ IsFiniteSet(Users) /\ IsFiniteSet(Delegatees) /\ MaxTime \in Nat /\ MaxIndex \in Nat
      /\ MaxEpoch \in Nat \ {0} /\ DefaultCooldown \in Nat /\ FullRate \in Nat \ {0}
  BY DelegationAssumption
<1>2. SettingsOK /\ RequestsOK
  <2>1. RequestsOK
    BY DEF Init, RequestsOK
  <2>2. now = 0 /\ epoch = 1 /\ paused = FALSE /\ cooldown = DefaultCooldown /\ authority = None
    BY DEF Init
  <2>3. now \in 0..MaxTime /\ epoch \in 1..MaxEpoch /\ cooldown \in Nat
    BY <1>1, <2>2
  <2>4. paused \in BOOLEAN /\ authority \in Authorities \cup {None}
    BY <2>2
  <2> QED
    BY <2>1, <2>3, <2>4 DEF SettingsOK
<1>3. BankTypeOK
  BY <1>1 DEF Init, BankTypeOK
<1>4. \A u \in Users : stakedBalance[u] = 0 /\ delegation[u] = [v \in Delegatees |-> 0]
  BY DEF Init
<1>5. \A u \in Users : TotalDelegated(u) = 0
  <2> SUFFICES ASSUME NEW u \in Users PROVE TotalDelegated(u) = 0
    OBVIOUS
  <2>1. \A v \in Delegatees : delegation[u][v] = 0
    BY <1>4
  <2> QED
    BY <1>1, <2>1, SumOfZeros DEF TotalDelegated
<1>6. SumFunctionOnSet(stakedBalance, Users) = 0
  BY <1>1, <1>4, SumOfZeros
<1>7. StakesOK
  BY <1>6 DEF Init, StakesOK
<1>8. DelegationsOK
  <2>1. \A u \in Users : TotalDelegated(u) <= stakedBalance[u]
    BY <1>4, <1>5
  <2>2. \A v \in Delegatees : delegatorsOf[v] = {u \in Users : delegation[u][v] # 0}
    BY DEF Init
  <2> QED
    BY <2>1, <2>2 DEF Init, DelegationsOK
<1> QED
  BY <1>2, <1>3, <1>7, <1>8, InvParts

\* One user's stake and the total move together.
LEMMA StakeMoves ==
    ASSUME StakesOK, NEW u \in Users, NEW b \in Nat,
           stakedBalance' = [stakedBalance EXCEPT ![u] = b],
           totalStaked' = totalStaked - stakedBalance[u] + b
    PROVE  StakesOK'
<1>1. IsFiniteSet(Users)
  BY DelegationAssumption
<1>2. /\ \A w \in Users : stakedBalance[w] \in Nat /\ stakedBalance[w] \in Int
      /\ stakedBalance' \in [Users -> Nat]
      /\ \A w \in Users : w # u => stakedBalance'[w] = stakedBalance[w]
      /\ stakedBalance'[u] = b /\ b \in Int
      /\ \A w \in Users : stakedBalance'[w] \in Nat
  BY DEF StakesOK
<1> DEFINE f == stakedBalance
           g == stakedBalance'
<1>3. f \in [Users -> Nat] /\ g[u] = b /\ \A w \in Users : w # u => g[w] = f[w]
  BY DEF StakesOK
<1>4. totalStaked = SumFunctionOnSet(f, Users) /\ totalStaked' = totalStaked - f[u] + b
  BY DEF StakesOK
<1> HIDE DEF f, g
<1>5. /\ SumFunctionOnSet(g, Users) = SumFunctionOnSet(f, Users) - f[u] + b
      /\ SumFunctionOnSet(g, Users) \in Nat
  BY <1>1, <1>3, SumOfUpdate
<1>6. totalStaked' = SumFunctionOnSet(g, Users) /\ totalStaked' \in Nat
  BY <1>4, <1>5
<1> QED
  BY <1>2, <1>6 DEF StakesOK, g

\* A user's delegations add up to a number, and each is part of it.
LEMMA DelegatedAdds ==
    ASSUME DelegationsOK, NEW u \in Users
    PROVE  /\ TotalDelegated(u) \in Nat
           /\ \A v \in Delegatees : delegation[u][v] \in Nat /\ delegation[u][v] <= TotalDelegated(u)
<1>1. IsFiniteSet(Delegatees) /\ \A v \in Delegatees : delegation[u][v] \in Nat
  BY DelegationAssumption DEF DelegationsOK
<1> DEFINE f == delegation[u]
<1>2. \A v \in Delegatees : f[v] \in Nat
  BY <1>1
<1> HIDE DEF f
<1>3. SumFunctionOnSet(f, Delegatees) \in Nat /\ \A v \in Delegatees : f[v] <= SumFunctionOnSet(f, Delegatees)
  BY <1>1, <1>2, SumIsNat
<1> QED
  BY <1>1, <1>3 DEF f, TotalDelegated

\* Delegations are as before, whatever else happens to stakes that still cover them.
LEMMA DelegationsStay ==
    ASSUME DelegationsOK, UNCHANGED delegVars,
           \A u \in Users : TotalDelegated(u) <= stakedBalance'[u]
    PROVE  DelegationsOK'
BY DEF DelegationsOK, delegVars, TotalDelegated

\* One delegation moves to amount d; the reverse index follows.
LEMMA DelegationMoves ==
    ASSUME DelegationsOK, StakesOK, NEW u \in Users, NEW v \in Delegatees, NEW d \in Nat,
           NEW s \in Int,
           UNCHANGED stakeVars,
           delegation' = [delegation EXCEPT ![u][v] = d],
           delegateeStake' = [delegateeStake EXCEPT ![v] = s],
           delegatorsOf' = [delegatorsOf EXCEPT ![v] = IF d = 0 THEN @ \ {u} ELSE @ \cup {u}],
           TotalDelegated(u) - delegation[u][v] + d <= stakedBalance[u]
    PROVE  DelegationsOK'
<1>1. IsFiniteSet(Delegatees)
  BY DelegationAssumption
<1>2. /\ delegation' \in [Users -> [Delegatees -> Nat]]
      /\ delegatorsOf' \in [Delegatees -> SUBSET Users]
      /\ delegateeStake' \in [Delegatees -> Int]
  BY DEF DelegationsOK
<1>3. \A w \in Users, x \in Delegatees :
        delegation'[w][x] = IF w = u /\ x = v THEN d ELSE delegation[w][x]
  BY DEF DelegationsOK
<1>4. ASSUME NEW x \in Delegatees
      PROVE  delegatorsOf'[x] = {w \in Users : delegation'[w][x] # 0}
  <2>1. delegatorsOf[x] = {w \in Users : delegation[w][x] # 0}
    BY DEF DelegationsOK
  <2>2. CASE x # v
    <3>1. delegatorsOf'[x] = delegatorsOf[x]
      BY <2>2 DEF DelegationsOK
    <3>2. \A w \in Users : delegation'[w][x] = delegation[w][x]
      BY <1>3, <2>2
    <3> QED
      BY <2>1, <3>1, <3>2
  <2>3. CASE x = v
    <3>1. delegatorsOf'[x] = IF d = 0 THEN delegatorsOf[x] \ {u} ELSE delegatorsOf[x] \cup {u}
      BY <2>3 DEF DelegationsOK
    <3>2. \A w \in Users : delegation'[w][x] = IF w = u THEN d ELSE delegation[w][x]
      BY <1>3, <2>3
    <3> QED
      BY <2>1, <3>1, <3>2
  <2> QED
    BY <2>2, <2>3
<1>5. ASSUME NEW w \in Users
      PROVE  TotalDelegated(w)' <= stakedBalance'[w]
  <2> DEFINE f == delegation[w]
             g == delegation'[w]
  <2>1. /\ \A x \in Delegatees : f[x] \in Int /\ g[x] \in Int
        /\ stakedBalance'[w] = stakedBalance[w]
        /\ TotalDelegated(w)' = SumFunctionOnSet(g, Delegatees)
        /\ TotalDelegated(w) = SumFunctionOnSet(f, Delegatees)
    BY <1>2 DEF DelegationsOK, TotalDelegated, stakeVars
  <2>2. CASE w # u
    <3>1. \A x \in Delegatees : g[x] = f[x]
      BY <1>3, <2>2
    <3> HIDE DEF f, g
    <3>2. SumFunctionOnSet(f, Delegatees) = SumFunctionOnSet(g, Delegatees)
      BY <1>1, <2>1, <3>1, SumAgrees
    <3>3. TotalDelegated(w) <= stakedBalance[w]
      BY DEF DelegationsOK
    <3> QED
      BY <2>1, <3>2, <3>3
  <2>3. CASE w = u
    <3>1. /\ \A x \in Delegatees : x # v => g[x] = f[x]
          /\ g[v] = d /\ f[v] = delegation[u][v] /\ g[v] \in Int
      BY <1>3, <2>1, <2>3
    <3> HIDE DEF f, g
    <3>2. SumFunctionOnSet(g, Delegatees) = SumFunctionOnSet(f, Delegatees) - f[v] + g[v]
      BY <1>1, <2>1, <3>1, SumOfChange
    <3> QED
      BY <2>1, <2>3, <3>1, <3>2
  <2> QED
    BY <2>2, <2>3
<1> QED
  BY <1>2, <1>4, <1>5 DEF DelegationsOK

-----------------------------------------------------------------------------
(* The entry points.                                                       *)

\* What each entry point is shown to keep.
Step == Inv' /\ \A v \in Delegatees : KeepsPast(v)

\* What nobody can claim yet does not change with what this step leaves alone.
LEMMA BanksStay ==
    ASSUME Inv, UNCHANGED <<delegateeStake, rate, bankVars>>, rewardIndex' \in 0..MaxIndex
    PROVE  BankTypeOK' /\ \A v \in Delegatees : KeepsPast(v)
<1>1. UNCHANGED <<delegateeStake, rate, delegateeIndex, pendingRewards, commissionBalance>>
  BY DEF bankVars
<1>2. BankTypeOK'
  BY <1>1 DEF Inv, TypeOK, BankTypeOK
<1>3. ASSUME NEW v \in Delegatees, rewardIndex' = rewardIndex
      PROVE  /\ ClaimableRewards(v)' = ClaimableRewards(v)
             /\ ClaimableCommission(v)' = ClaimableCommission(v)
  BY <1>1, <1>3 DEF ClaimableRewards, ClaimableCommission, Gross, Commission
<1> QED
  BY <1>2, <1>3 DEF KeepsPast

\* A settlement that pays nobody.
LEMMA SettleStep ==
    ASSUME Inv, NEW ws \in SUBSET Delegatees, Settle(ws), rewardIndex' = rewardIndex,
           rate' \in [Delegatees -> 0..FullRate],
           \A v \in Delegatees \ ws :
                delegateeStake'[v] = delegateeStake[v] /\ rate'[v] = rate[v]
    PROVE  BankTypeOK' /\ \A v \in Delegatees : KeepsPast(v)
<1>1. SettleAndPay(ws, {}, {}) /\ {} \in SUBSET ws
  BY DEF Settle
<1>2. BankTypeOK /\ delegateeStake \in [Delegatees -> Int]
  BY InvParts DEF DelegationsOK
<1>3. BankTypeOK' /\ \A v \in Delegatees : /\ ClaimableRewards(v)' = ClaimableRewards(v)
                                           /\ ClaimableCommission(v)' = ClaimableCommission(v)
  BY <1>1, <1>2, SettlesPast
<1> QED
  BY <1>3 DEF KeepsPast

\* stake and unstake.
LEMMA StakeStep ==
    ASSUME Inv, NEW u \in Users, NEW amount \in Amounts, Stake(u, amount) \/ Unstake(u, amount)
    PROVE  Step
<1>1. amount \in Nat
  BY DelegationAssumption
<1>2. /\ SettingsOK /\ RequestsOK /\ StakesOK /\ DelegationsOK /\ BankTypeOK
      /\ stakedBalance[u] \in Nat /\ stakedBalance \in [Users -> Nat] /\ totalStaked \in Nat
  BY InvParts DEF StakesOK
<1>3. /\ UNCHANGED <<now, settingVars, delegVars, requestVars, rewardIndex, rate>>
      /\ Settle(DelegateesOf(u))
  BY DEF Stake, Unstake
<1>4. TotalDelegated(u) \in Nat /\ TotalDelegated(u) <= stakedBalance[u]
  BY <1>2, DelegatedAdds DEF DelegationsOK
<1>5. PICK b \in Nat : /\ stakedBalance' = [stakedBalance EXCEPT ![u] = b]
                       /\ totalStaked' = totalStaked - stakedBalance[u] + b
                       /\ TotalDelegated(u) <= b
  <2>1. CASE Stake(u, amount)
    <3> DEFINE n == stakedBalance[u] + amount
    <3>1. /\ n \in Nat /\ TotalDelegated(u) <= n
          /\ totalStaked' = totalStaked - stakedBalance[u] + n
      BY <1>1, <1>2, <1>4, <2>1 DEF Stake
    <3>2. stakedBalance' = [stakedBalance EXCEPT ![u] = n]
      BY <2>1 DEF Stake
    <3> HIDE DEF n
    <3> QED
      BY <3>1, <3>2
  <2>2. CASE Unstake(u, amount)
    <3> DEFINE n == stakedBalance[u] - amount
    <3>1. stakedBalance[u] >= amount /\ stakedBalance[u] - TotalDelegated(u) >= amount
      BY <2>2 DEF Unstake, FreeStake
    <3>2. totalStaked' = totalStaked - amount
      BY <2>2 DEF Unstake
    <3>3. /\ n \in Nat /\ TotalDelegated(u) <= n
          /\ totalStaked' = totalStaked - stakedBalance[u] + n
      BY <1>1, <1>2, <1>4, <3>1, <3>2
    <3>4. stakedBalance' = [stakedBalance EXCEPT ![u] = n]
      BY <2>2 DEF Unstake
    <3> HIDE DEF n
    <3> QED
      BY <3>3, <3>4
  <2> QED
    BY <2>1, <2>2
<1>6. StakesOK'
  BY <1>2, <1>5, StakeMoves
<1>7. DelegationsOK'
  <2>1. \A w \in Users : TotalDelegated(w) <= stakedBalance'[w]
    <3> SUFFICES ASSUME NEW w \in Users PROVE TotalDelegated(w) <= stakedBalance'[w]
      OBVIOUS
    <3>1. CASE w = u
      BY <1>2, <1>5, <3>1
    <3>2. CASE w # u
      BY <1>2, <1>5, <3>2 DEF DelegationsOK
    <3> QED
      BY <3>1, <3>2
  <2> QED
    BY <1>2, <1>3, <2>1, DelegationsStay
<1>8. BankTypeOK' /\ \A v \in Delegatees : KeepsPast(v)
  <2>1. /\ DelegateesOf(u) \in SUBSET Delegatees /\ rewardIndex' = rewardIndex
        /\ rate' = rate /\ delegateeStake' = delegateeStake
        /\ rate' \in [Delegatees -> 0..FullRate]
    BY <1>2, <1>3 DEF DelegateesOf, delegVars, BankTypeOK
  <2> QED
    BY <1>3, <2>1, SettleStep
<1>9. SettingsOK' /\ RequestsOK'
  BY <1>2, <1>3 DEF SettingsOK, RequestsOK, settingVars, requestVars
<1> QED
  BY <1>6, <1>7, <1>8, <1>9, InvPartsNext DEF Step

\* What an entry point that changes one delegation, and settles its delegatee, owes.
LEMMA OneDelegation ==
    ASSUME Inv, NEW u \in Users, NEW v \in Delegatees, NEW d \in Nat, NEW s \in Int,
           Settle({v}), UNCHANGED <<now, settingVars, stakeVars, rewardIndex, rate>>,
           RequestsOK',
           delegation' = [delegation EXCEPT ![u][v] = d],
           delegateeStake' = [delegateeStake EXCEPT ![v] = s],
           delegatorsOf'[v] = IF d = 0 THEN delegatorsOf[v] \ {u} ELSE delegatorsOf[v] \cup {u},
           \A w \in Delegatees : w # v => delegatorsOf'[w] = delegatorsOf[w],
           delegatorsOf' \in [Delegatees -> SUBSET Users],
           TotalDelegated(u) - delegation[u][v] + d <= stakedBalance[u]
    PROVE  Step
<1>1. SettingsOK /\ RequestsOK /\ StakesOK /\ DelegationsOK /\ BankTypeOK
  BY InvParts
<1>2. delegatorsOf' = [delegatorsOf EXCEPT ![v] = IF d = 0 THEN @ \ {u} ELSE @ \cup {u}]
  <2> DEFINE g == [delegatorsOf EXCEPT ![v] = IF d = 0 THEN @ \ {u} ELSE @ \cup {u}]
  <2>1. DOMAIN delegatorsOf' = Delegatees /\ DOMAIN g = Delegatees
    BY <1>1 DEF DelegationsOK
  <2>2. g = [x \in Delegatees |-> g[x]] /\ delegatorsOf' = [x \in Delegatees |-> delegatorsOf'[x]]
    BY <1>1 DEF DelegationsOK
  <2>3. \A x \in Delegatees : g[x] = delegatorsOf'[x]
    BY <1>1 DEF DelegationsOK
  <2> QED
    BY <2>2, <2>3
<1>3. DelegationsOK'
  BY <1>1, <1>2, DelegationMoves
<1>4. StakesOK' /\ SettingsOK'
  BY <1>1 DEF StakesOK, SettingsOK, stakeVars, settingVars
<1>5. BankTypeOK' /\ \A w \in Delegatees : KeepsPast(w)
  <2>1. /\ {v} \in SUBSET Delegatees /\ rewardIndex' = rewardIndex
        /\ rate' \in [Delegatees -> 0..FullRate]
        /\ \A w \in Delegatees \ {v} : delegateeStake'[w] = delegateeStake[w] /\ rate'[w] = rate[w]
    BY <1>1 DEF BankTypeOK, DelegationsOK
  <2> QED
    BY <2>1, SettleStep
<1> QED
  BY <1>3, <1>4, <1>5, InvPartsNext DEF Step

\* u is in v's reverse index exactly if it delegates to v.
LEMMA IndexedWhenListed ==
    ASSUME Inv, NEW u \in Users, NEW v \in Delegatees
    PROVE  /\ u \in delegatorsOf[v] <=> delegation[u][v] # 0
           /\ delegatorsOf[v] \in SUBSET Users /\ delegatorsOf \in [Delegatees -> SUBSET Users]
           /\ delegation[u][v] \in Nat /\ delegateeStake[v] \in Int
           /\ TotalDelegated(u) \in Nat /\ delegation[u][v] <= TotalDelegated(u)
           /\ TotalDelegated(u) <= stakedBalance[u] /\ stakedBalance[u] \in Nat
<1>1. DelegationsOK /\ StakesOK
  BY InvParts
<1> QED
  BY <1>1, DelegatedAdds DEF DelegationsOK, StakesOK

\* delegate.
LEMMA DelegateStep ==
    ASSUME Inv, NEW u \in Users, NEW v \in Delegatees, NEW amount \in Amounts,
           Delegate(u, v, amount)
    PROVE  Step
<1> DEFINE d == delegation[u][v] + amount
           s == delegateeStake[v] + amount
<1>1. amount \in Nat /\ amount > 0
  BY DelegationAssumption
<1>2. /\ Settle({v}) /\ UNCHANGED <<now, settingVars, stakeVars, rewardIndex, rate>>
      /\ UNCHANGED requestVars
      /\ delegation' = [delegation EXCEPT ![u][v] = d]
      /\ delegateeStake' = [delegateeStake EXCEPT ![v] = s]
      /\ FreeStake(u) >= amount
  BY DEF Delegate
<1>3. RequestsOK'
  BY <1>2, InvParts DEF RequestsOK, requestVars
<1>4. d \in Nat /\ s \in Int /\ d # 0 /\ TotalDelegated(u) - delegation[u][v] + d <= stakedBalance[u]
  BY <1>1, <1>2, IndexedWhenListed DEF FreeStake
<1>5. /\ delegatorsOf'[v] = delegatorsOf[v] \cup {u}
      /\ \A w \in Delegatees : w # v => delegatorsOf'[w] = delegatorsOf[w]
      /\ delegatorsOf' \in [Delegatees -> SUBSET Users]
  <2>1. delegatorsOf' = IF delegation[u][v] = 0
                        THEN [delegatorsOf EXCEPT ![v] = @ \cup {u}] ELSE delegatorsOf
    BY DEF Delegate
  <2> QED
    BY <2>1, IndexedWhenListed
<1> HIDE DEF d, s
<1> QED
  BY <1>2, <1>3, <1>4, <1>5, OneDelegation

\* finalize_revocation.
LEMMA FinalizeStep ==
    ASSUME Inv, NEW u \in Users, NEW v \in Delegatees, FinalizeRevocation(u, v)
    PROVE  Step
<1> DEFINE s == delegateeStake[v] - delegation[u][v]
<1>1. /\ Settle({v}) /\ UNCHANGED <<now, settingVars, stakeVars, rewardIndex, rate, undelegation>>
      /\ revocation' = [revocation EXCEPT ![u][v] = None]
      /\ delegation' = [delegation EXCEPT ![u][v] = 0]
      /\ delegateeStake' = [delegateeStake EXCEPT ![v] = s]
      /\ delegatorsOf' = [delegatorsOf EXCEPT ![v] = @ \ {u}]
  BY DEF FinalizeRevocation
<1>2. RequestsOK'
  BY <1>1, InvParts DEF RequestsOK
<1>3. 0 \in Nat /\ s \in Int /\ TotalDelegated(u) - delegation[u][v] + 0 <= stakedBalance[u]
  BY IndexedWhenListed
<1>4. /\ delegatorsOf'[v] = delegatorsOf[v] \ {u}
      /\ \A w \in Delegatees : w # v => delegatorsOf'[w] = delegatorsOf[w]
      /\ delegatorsOf' \in [Delegatees -> SUBSET Users]
  BY <1>1, IndexedWhenListed
<1> HIDE DEF s
<1> QED
  BY <1>1, <1>2, <1>3, <1>4, OneDelegation

\* complete_undelegate: what leaves the delegation is at most what it is.
LEMMA CompleteStep ==
    ASSUME Inv, NEW u \in Users, NEW v \in Delegatees, CompleteUndelegate(u, v)
    PROVE  Step
<1> DEFINE asked == undelegation[u][v].amount
           listed == delegation[u][v] # 0
           left == LeftAfterUndelegate(delegation[u][v], asked)
           d == IF listed THEN left ELSE 0
           s == delegateeStake[v] - (IF listed THEN asked ELSE 0)
<1>1. /\ Settle({v}) /\ UNCHANGED <<now, settingVars, stakeVars, rewardIndex, rate, revocation>>
      /\ undelegation[u][v] # None
      /\ undelegation' = [undelegation EXCEPT ![u][v] = None]
      /\ delegation' = [delegation EXCEPT ![u][v] = d]
      /\ delegateeStake' = [delegateeStake EXCEPT ![v] = s]
      /\ delegatorsOf' = [delegatorsOf EXCEPT ![v] = IF listed /\ left = 0 THEN @ \ {u} ELSE @]
  BY DEF CompleteUndelegate
<1>2. RequestsOK'
  BY <1>1, InvParts DEF RequestsOK
<1>3. asked \in Nat
  BY <1>1, InvParts, DelegationAssumption DEF RequestsOK
<1>4. /\ delegation[u][v] \in Nat /\ left \in 0..delegation[u][v]
      /\ d \in 0..delegation[u][v] /\ s \in Int
  BY <1>3, IndexedWhenListed DEF LeftAfterUndelegate
<1>5. d \in Nat /\ TotalDelegated(u) - delegation[u][v] + d <= stakedBalance[u]
  BY <1>4, IndexedWhenListed
<1>6. /\ delegatorsOf'[v] = IF d = 0 THEN delegatorsOf[v] \ {u} ELSE delegatorsOf[v] \cup {u}
      /\ \A w \in Delegatees : w # v => delegatorsOf'[w] = delegatorsOf[w]
      /\ delegatorsOf' \in [Delegatees -> SUBSET Users]
  <2>1. /\ u \in delegatorsOf[v] <=> listed
        /\ delegatorsOf[v] \in SUBSET Users /\ delegatorsOf \in [Delegatees -> SUBSET Users]
    BY IndexedWhenListed
  <2>2. d = 0 <=> ~listed \/ left = 0
    BY <1>4
  <2>3. delegatorsOf'[v] = IF listed /\ left = 0 THEN delegatorsOf[v] \ {u} ELSE delegatorsOf[v]
    BY <1>1, <2>1
  <2>4. delegatorsOf'[v] = IF d = 0 THEN delegatorsOf[v] \ {u} ELSE delegatorsOf[v] \cup {u}
    <3> HIDE DEF listed, left, d
    <3> QED
      BY <2>1, <2>2, <2>3
  <2> QED
    BY <1>1, <2>1, <2>4
<1> HIDE DEF asked, listed, left, d, s
<1> QED
  BY <1>1, <1>2, <1>4, <1>5, <1>6, OneDelegation

\* request_revocation and request_undelegate.
LEMMA RequestStep ==
    ASSUME Inv, NEW u \in Users, NEW v \in Delegatees,
           RequestRevocation(u, v) \/ \E amount \in Amounts : RequestUndelegate(u, v, amount)
    PROVE  Step
<1>1. SettingsOK /\ RequestsOK /\ StakesOK /\ DelegationsOK /\ BankTypeOK
  BY InvParts
<1>2. UNCHANGED <<now, settingVars, stakeVars, delegVars, rewardIndex, rate, bankVars>>
  BY DEF RequestRevocation, RequestUndelegate
<1>3. RequestsOK'
  <2>1. CASE RequestRevocation(u, v)
    BY <1>1, <2>1 DEF RequestRevocation, RequestsOK, SettingsOK
  <2>2. ASSUME NEW amount \in Amounts, RequestUndelegate(u, v, amount) PROVE RequestsOK'
    BY <1>1, <2>2 DEF RequestUndelegate, RequestsOK, SettingsOK
  <2> QED
    BY <2>1, <2>2
<1>4. SettingsOK' /\ StakesOK'
  BY <1>1, <1>2 DEF SettingsOK, settingVars, StakesOK, stakeVars
<1>5. DelegationsOK'
  BY <1>1, <1>2, DelegationsStay DEF DelegationsOK, stakeVars
<1>6. BankTypeOK' /\ \A w \in Delegatees : KeepsPast(w)
  BY <1>1, <1>2, BanksStay DEF BankTypeOK, delegVars
<1> QED
  BY <1>3, <1>4, <1>5, <1>6, InvPartsNext DEF Step

-----------------------------------------------------------------------------
(* The two slashes.                                                        *)

\* slash_stake cuts each delegation to its share of the stake left.
LEMMA TrimmedShare ==
    ASSUME Inv, NEW u \in Users, NEW b \in Nat
    PROVE  /\ \A v \in Delegatees : Trimmed(u, v, b) \in 0..delegation[u][v]
           /\ SumFunctionOnSet([v \in Delegatees |-> Trimmed(u, v, b)], Delegatees) <= b
<1> DEFINE f == delegation[u]
           t == TotalDelegated(u)
           g == [v \in Delegatees |-> Trimmed(u, v, b)]
<1>1. /\ IsFiniteSet(Delegatees) /\ \A v \in Delegatees : f[v] \in Nat
      /\ t \in Nat /\ t = SumFunctionOnSet(f, Delegatees)
  BY DelegationAssumption, IndexedWhenListed, DelegatedAdds, InvParts DEF TotalDelegated
<1>2. CASE t <= b
  <2>1. \A v \in Delegatees : g[v] = f[v]
    BY <1>1, <1>2 DEF Trimmed
  <2> HIDE DEF f, g, t
  <2>2. SumFunctionOnSet(f, Delegatees) = SumFunctionOnSet(g, Delegatees)
    BY <1>1, <2>1, SumAgrees
  <2>3. \A v \in Delegatees : g[v] \in 0..f[v]
    BY <1>1, <2>1
  <2> QED
    BY <1>1, <1>2, <2>2, <2>3 DEF f, g
<1>3. CASE t > b
  <2>1. t \in Nat \ {0} /\ b \in 0..t
    BY <1>1, <1>3
  <2>2. \A v \in Delegatees : g[v] = (f[v] * b) \div t
    BY <1>3 DEF Trimmed
  <2> DEFINE h == [v \in Delegatees |-> f[v] * b]
             z == [v \in Delegatees |-> 0]
  <2>3. \A v \in Delegatees : /\ h[v] = f[v] * b /\ h[v] \in Nat /\ h[v] \in Int
                              /\ z[v] = 0 /\ z[v] \in Int /\ f[v] \in Int
                              /\ h[v] = z[v] + b * f[v]
    BY <1>1
  <2> HIDE DEF f, g, h, t, z
  <2>4. \A v \in Delegatees : g[v] \in 0..f[v] /\ g[v] * t <= h[v]
    <3> SUFFICES ASSUME NEW v \in Delegatees PROVE g[v] \in 0..f[v] /\ g[v] * t <= h[v]
      OBVIOUS
    <3>1. f[v] \in Nat
      BY <1>1
    <3>2. (f[v] * b) \div t \in 0..f[v] /\ ((f[v] * b) \div t) * t <= f[v] * b
      BY <2>1, <3>1, PartOfWhole
    <3> QED
      BY <2>2, <2>3, <3>2
  <2>5. \A v \in Delegatees : g[v] \in Nat /\ h[v] \in Nat /\ g[v] * t <= h[v]
    BY <1>1, <2>3, <2>4
  <2>6. /\ SumFunctionOnSet(g, Delegatees) \in Nat
        /\ SumFunctionOnSet(g, Delegatees) * t <= SumFunctionOnSet(h, Delegatees)
    BY <1>1, <2>5, SumScaled
  <2>7. SumFunctionOnSet(h, Delegatees)
          = SumFunctionOnSet(z, Delegatees) + b * SumFunctionOnSet(f, Delegatees)
    BY <1>1, <2>3, SumIsLinear
  <2>8. SumFunctionOnSet(z, Delegatees) = 0
    BY <1>1, <2>3, SumOfZeros
  <2> DEFINE x == SumFunctionOnSet(g, Delegatees)
  <2>9. x * t <= b * t /\ x \in Nat
    <3>1. b * t \in Int
      BY <1>1
    <3> QED
      BY <1>1, <2>6, <2>7, <2>8, <3>1
  <2> HIDE DEF x
  <2>10. x <= b
    <3>1. CASE x >= b + 1
      <4>1. x * t >= (b + 1) * t /\ (b + 1) * t = b * t + t
        BY <2>1, <2>9, <3>1
      <4>2. x * t \in Int /\ b * t \in Int
        BY <2>1, <2>9
      <4> QED
        BY <2>1, <2>9, <4>1, <4>2
    <3> QED
      BY <2>9, <3>1
  <2> QED
    BY <2>4, <2>10 DEF f, g, x
<1> QED
  BY <1>1, <1>2, <1>3

\* slash_stake.
LEMMA SlashStakeStep ==
    ASSUME Inv, NEW u \in Users, NEW amount \in Amounts, SlashStake(u, amount)
    PROVE  Step
<1> DEFINE b == stakedBalance[u] - amount
           kept == [v \in Delegatees |-> Trimmed(u, v, b)]
           cut(v) == delegation[u][v] - kept[v]
<1>1. SettingsOK /\ RequestsOK /\ StakesOK /\ DelegationsOK /\ BankTypeOK
  BY InvParts
<1>2. /\ amount <= stakedBalance[u] /\ Settle(DelegateesOf(u))
      /\ stakedBalance' = [stakedBalance EXCEPT ![u] = b]
      /\ totalStaked' = totalStaked - amount
      /\ delegateeStake' = [v \in Delegatees |->
              IF cut(v) > 0 THEN AtLeastZero(delegateeStake[v] - cut(v)) ELSE delegateeStake[v]]
      /\ delegation' = [delegation EXCEPT ![u] = kept]
      /\ delegatorsOf' = [v \in Delegatees |->
              IF cut(v) > 0 /\ kept[v] = 0 THEN delegatorsOf[v] \ {u} ELSE delegatorsOf[v]]
      /\ UNCHANGED <<now, settingVars, requestVars, rewardIndex, rate>>
  BY DEF SlashStake, SettledOnSlash
<1>3. amount \in Nat /\ stakedBalance[u] \in Nat /\ totalStaked \in Nat
  BY <1>1, DelegationAssumption DEF StakesOK
<1>4. b \in Nat /\ totalStaked' = totalStaked - stakedBalance[u] + b
  BY <1>2, <1>3
<1>5. /\ kept \in [Delegatees -> Nat]
      /\ \A v \in Delegatees : /\ delegation[u][v] \in Nat /\ kept[v] \in 0..delegation[u][v]
                               /\ cut(v) \in Nat /\ (cut(v) = 0 <=> kept[v] = delegation[u][v])
      /\ SumFunctionOnSet(kept, Delegatees) <= b
  <2>1. /\ \A v \in Delegatees : delegation[u][v] \in Nat /\ Trimmed(u, v, b) \in 0..delegation[u][v]
        /\ SumFunctionOnSet(kept, Delegatees) <= b
    <3> HIDE DEF b
    <3>1. \A v \in Delegatees : delegation[u][v] \in Nat
      BY IndexedWhenListed
    <3> QED
      BY <1>4, <3>1, TrimmedShare
  <2>2. ASSUME NEW v \in Delegatees
        PROVE  /\ kept[v] \in 0..delegation[u][v] /\ kept[v] \in Nat /\ cut(v) \in Nat
               /\ (cut(v) = 0 <=> kept[v] = delegation[u][v])
    <3>1. kept[v] = Trimmed(u, v, b)
      OBVIOUS
    <3> HIDE DEF kept
    <3> QED
      BY <2>1, <3>1
  <2>3. kept \in [Delegatees -> Nat]
    BY <2>2
  <2> QED
    BY <2>1, <2>2, <2>3
<1> HIDE DEF b, kept
<1>6. StakesOK'
  BY <1>1, <1>2, <1>4, StakeMoves
<1>7. DelegationsOK'
  <2>1. /\ delegation' \in [Users -> [Delegatees -> Nat]]
        /\ delegation'[u] = kept /\ \A w \in Users : w # u => delegation'[w] = delegation[w]
    BY <1>1, <1>2, <1>5 DEF DelegationsOK
  <2>2. delegatorsOf' \in [Delegatees -> SUBSET Users]
    BY <1>1, <1>2 DEF DelegationsOK
  <2>3. delegateeStake' \in [Delegatees -> Int]
    <3>1. ASSUME NEW v \in Delegatees
          PROVE  (IF cut(v) > 0 THEN AtLeastZero(delegateeStake[v] - cut(v)) ELSE delegateeStake[v]) \in Int
      <4>1. delegateeStake[v] \in Int /\ cut(v) \in Nat
        BY <1>1, <1>5 DEF DelegationsOK
      <4> HIDE DEF cut
      <4> QED
        BY <4>1 DEF AtLeastZero
    <3> QED
      BY <1>2, <3>1
  <2>4. ASSUME NEW v \in Delegatees
        PROVE  delegatorsOf'[v] = {w \in Users : delegation'[w][v] # 0}
    <3>1. delegatorsOf[v] = {w \in Users : delegation[w][v] # 0}
      BY <1>1 DEF DelegationsOK
    <3>2. delegatorsOf'[v] = IF cut(v) > 0 /\ kept[v] = 0 THEN delegatorsOf[v] \ {u}
                                                          ELSE delegatorsOf[v]
      BY <1>2
    <3>3. /\ delegation'[u][v] = kept[v]
          /\ \A w \in Users : w # u => delegation'[w][v] = delegation[w][v]
      BY <2>1
    <3>4. /\ cut(v) > 0 /\ kept[v] = 0 => delegation[u][v] # 0
          /\ ~(cut(v) > 0 /\ kept[v] = 0) => (kept[v] = 0 <=> delegation[u][v] = 0)
      BY <1>5
    <3> HIDE DEF cut
    <3> QED
      BY <3>1, <3>2, <3>3, <3>4
  <2>5. ASSUME NEW w \in Users PROVE TotalDelegated(w)' <= stakedBalance'[w]
    <3>1. CASE w = u
      <4>1. TotalDelegated(w)' = SumFunctionOnSet(kept, Delegatees) /\ stakedBalance'[w] = b
        BY <1>1, <1>2, <2>1, <3>1 DEF TotalDelegated, StakesOK
      <4> QED
        BY <1>5, <4>1
    <3>2. CASE w # u
      <4>1. TotalDelegated(w)' = TotalDelegated(w) /\ stakedBalance'[w] = stakedBalance[w]
        BY <1>1, <1>2, <2>1, <3>2 DEF TotalDelegated, StakesOK
      <4> QED
        BY <1>1, <4>1 DEF DelegationsOK
    <3> QED
      BY <3>1, <3>2
  <2> QED
    BY <2>1, <2>2, <2>3, <2>4, <2>5 DEF DelegationsOK
<1>8. BankTypeOK' /\ \A v \in Delegatees : KeepsPast(v)
  <2>1. /\ DelegateesOf(u) \in SUBSET Delegatees /\ rewardIndex' = rewardIndex
        /\ rate' \in [Delegatees -> 0..FullRate] /\ rate' = rate
    BY <1>1, <1>2 DEF DelegateesOf, BankTypeOK
  <2>2. ASSUME NEW v \in Delegatees \ DelegateesOf(u)
        PROVE  delegateeStake'[v] = delegateeStake[v]
    <3>1. delegation[u][v] = 0
      BY <2>2 DEF DelegateesOf
    <3>2. cut(v) = 0
      BY <1>5, <3>1
    <3> QED
      BY <1>2, <3>2
  <2> QED
    BY <1>2, <2>1, <2>2, SettleStep
<1>9. SettingsOK' /\ RequestsOK'
  BY <1>1, <1>2 DEF SettingsOK, settingVars, RequestsOK, requestVars
<1> QED
  BY <1>6, <1>7, <1>8, <1>9, InvPartsNext DEF Step

\* apply_delegatee_slash takes from every stake and from the total what the rounding
\* takes from the delegations, which the stakes cover.
LEMMA DelegateeSlashStep ==
    ASSUME Inv, NEW caller, NEW v \in Delegatees, NEW amount \in Amounts,
           ApplyDelegateeSlash(caller, v, amount)
    PROVE  Step
<1> DEFINE newStake == delegateeStake[v] - amount
           kept == [u \in Users |-> KeptShare(u, v, newStake)]
           lost == [u \in Users |-> delegation[u][v] - kept[u]]
           removed == SumFunctionOnSet(lost, Users)
<1>1. SettingsOK /\ RequestsOK /\ StakesOK /\ DelegationsOK /\ BankTypeOK
  BY InvParts
<1>2. /\ amount <= delegateeStake[v] /\ Settle({v})
      /\ delegateeStake' = [delegateeStake EXCEPT ![v] = newStake]
      /\ delegation' = [u \in Users |-> [delegation[u] EXCEPT ![v] = kept[u]]]
      /\ stakedBalance' = [u \in Users |-> AtLeastZero(stakedBalance[u] - lost[u])]
      /\ delegatorsOf' = [delegatorsOf EXCEPT ![v] = RemainingDelegators(v, kept)]
      /\ totalStaked' = AtLeastZero(totalStaked - removed)
      /\ UNCHANGED <<now, settingVars, requestVars, rewardIndex, rate>>
  BY DEF ApplyDelegateeSlash, TakenFromTotal
<1>3. amount \in Nat \ {0} /\ delegateeStake[v] \in Nat \ {0} /\ newStake \in 0..delegateeStake[v]
  <2>1. amount \in Nat \ {0} /\ delegateeStake[v] \in Int
    BY <1>1, DelegationAssumption DEF DelegationsOK
  <2> QED
    BY <1>2, <2>1
<1>4. ASSUME NEW u \in Users
      PROVE  /\ delegation[u][v] \in Nat /\ kept[u] \in 0..delegation[u][v] /\ kept[u] \in Nat
             /\ lost[u] = delegation[u][v] - kept[u] /\ lost[u] \in Nat
             /\ u \notin delegatorsOf[v] => kept[u] = 0
             /\ stakedBalance[u] \in Nat /\ TotalDelegated(u) \in Nat
             /\ delegation[u][v] <= TotalDelegated(u) /\ TotalDelegated(u) <= stakedBalance[u]
  <2>1. /\ delegation[u][v] \in Nat /\ (u \notin delegatorsOf[v] => delegation[u][v] = 0)
        /\ stakedBalance[u] \in Nat /\ TotalDelegated(u) \in Nat
        /\ delegation[u][v] <= TotalDelegated(u) /\ TotalDelegated(u) <= stakedBalance[u]
    BY IndexedWhenListed
  <2>2. kept[u] \in 0..delegation[u][v]
    <3> HIDE DEF newStake
    <3>1. (delegation[u][v] * newStake) \div delegateeStake[v] \in 0..delegation[u][v]
      BY <1>3, <2>1, PartOfWhole
    <3>2. KeptShare(u, v, newStake) \in 0..delegation[u][v]
      BY <2>1, <3>1 DEF KeptShare
    <3> QED
      BY <3>2
  <2> HIDE DEF kept
  <2> QED
    BY <2>1, <2>2
<1> HIDE DEF newStake, kept, lost
<1>5. StakesOK'
  <2> DEFINE f == stakedBalance
             g == stakedBalance'
  <2>1. IsFiniteSet(Users) /\ totalStaked = SumFunctionOnSet(f, Users) /\ totalStaked \in Nat
    BY <1>1, DelegationAssumption DEF StakesOK
  <2>2. ASSUME NEW u \in Users
        PROVE  g[u] = f[u] - lost[u] /\ g[u] \in Nat /\ f[u] \in Nat /\ lost[u] \in Nat
    <3>1. g[u] = AtLeastZero(f[u] - lost[u])
      BY <1>2
    <3>2. f[u] \in Nat /\ lost[u] \in Nat /\ lost[u] <= f[u]
      BY <1>4
    <3> HIDE DEF f, g
    <3> QED
      BY <3>1, <3>2 DEF AtLeastZero
  <2>3. g \in [Users -> Nat]
    BY <1>2, <2>2
  <2> HIDE DEF f, g
  <2> DEFINE minus == 0 - 1
  <2>4. /\ \A u \in Users : /\ f[u] \in Int /\ lost[u] \in Int
                            /\ g[u] = f[u] + minus * lost[u]
        /\ minus \in Int
    BY <2>2
  <2> HIDE DEF minus
  <2>5. SumFunctionOnSet(g, Users) = SumFunctionOnSet(f, Users) + minus * removed
    BY <2>1, <2>4, SumIsLinear
  <2>6. SumFunctionOnSet(g, Users) \in Nat /\ removed \in Nat
    <3>1. \A u \in Users : g[u] \in Nat
      BY <2>2
    <3>2. \A u \in Users : lost[u] \in Nat
      BY <2>2
    <3>3. SumFunctionOnSet(g, Users) \in Nat
      BY <2>1, <3>1, SumIsNat
    <3>4. SumFunctionOnSet(lost, Users) \in Nat
      BY <2>1, <3>2, SumIsNat
    <3> QED
      BY <3>3, <3>4
  <2> HIDE DEF removed
  <2>7. totalStaked' = SumFunctionOnSet(g, Users)
    BY <1>2, <2>1, <2>5, <2>6 DEF AtLeastZero, minus
  <2> QED
    BY <2>3, <2>6, <2>7 DEF StakesOK, g
<1>6. DelegationsOK'
  <2>1. ASSUME NEW u \in Users
        PROVE  /\ delegation'[u] = [delegation[u] EXCEPT ![v] = kept[u]]
               /\ delegation[u] \in [Delegatees -> Nat]
               /\ delegation'[u] \in [Delegatees -> Nat]
    BY <1>1, <1>2, <1>4 DEF DelegationsOK
  <2>2. /\ delegation' \in [Users -> [Delegatees -> Nat]]
        /\ delegatorsOf' \in [Delegatees -> SUBSET Users]
        /\ delegateeStake' \in [Delegatees -> Int]
    <3>1. delegation' \in [Users -> [Delegatees -> Nat]]
      BY <1>2, <2>1
    <3>2. delegatorsOf' \in [Delegatees -> SUBSET Users]
      BY <1>1, <1>2 DEF DelegationsOK, RemainingDelegators
    <3>3. delegateeStake' \in [Delegatees -> Int]
      BY <1>1, <1>2, <1>3 DEF DelegationsOK
    <3> QED
      BY <3>1, <3>2, <3>3
  <2>3. ASSUME NEW x \in Delegatees
        PROVE  delegatorsOf'[x] = {u \in Users : delegation'[u][x] # 0}
    <3>1. delegatorsOf[x] = {u \in Users : delegation[u][x] # 0}
      BY <1>1 DEF DelegationsOK
    <3>2. CASE x # v
      <4>1. delegatorsOf'[x] = delegatorsOf[x] /\ \A u \in Users : delegation'[u][x] = delegation[u][x]
        BY <1>1, <1>2, <2>1, <3>2 DEF DelegationsOK
      <4> QED
        BY <3>1, <4>1
    <3>3. CASE x = v
      <4>1. /\ delegatorsOf'[v] = {u \in delegatorsOf[v] : kept[u] # 0}
            /\ delegatorsOf[v] \in SUBSET Users
            /\ \A u \in Users : delegation'[u][v] = kept[u]
        BY <1>1, <1>2, <2>1 DEF DelegationsOK, RemainingDelegators
      <4> QED
        BY <1>4, <3>3, <4>1
    <3> QED
      BY <3>2, <3>3
  <2>4. ASSUME NEW u \in Users PROVE TotalDelegated(u)' <= stakedBalance'[u]
    <3> DEFINE f == delegation[u]
               g == delegation'[u]
    <3>1. /\ IsFiniteSet(Delegatees) /\ f \in [Delegatees -> Nat]
          /\ g[v] = kept[u] /\ \A x \in Delegatees : x # v => g[x] = f[x]
      <4>1. f \in [Delegatees -> Nat] /\ g = [f EXCEPT ![v] = kept[u]]
        BY <2>1
      <4>2. g[v] = kept[u] /\ \A x \in Delegatees : x # v => g[x] = f[x]
        BY <4>1
      <4> QED
        BY <4>1, <4>2, DelegationAssumption
    <3>2. stakedBalance'[u] = AtLeastZero(stakedBalance[u] - lost[u])
      BY <1>2
    <3>3. /\ TotalDelegated(u) = SumFunctionOnSet(f, Delegatees)
          /\ TotalDelegated(u)' = SumFunctionOnSet(g, Delegatees)
      BY DEF TotalDelegated
    <3>4. /\ f[v] \in Nat /\ lost[u] = f[v] - kept[u] /\ kept[u] \in Nat /\ lost[u] \in Nat
          /\ stakedBalance[u] \in Nat /\ TotalDelegated(u) \in Nat
          /\ TotalDelegated(u) <= stakedBalance[u]
      BY <1>4
    <3> HIDE DEF f, g
    <3>5. SumFunctionOnSet(g, Delegatees) = SumFunctionOnSet(f, Delegatees) - f[v] + kept[u]
      BY <3>1, <3>4, SumOfUpdate
    <3> QED
      BY <3>2, <3>3, <3>4, <3>5 DEF AtLeastZero
  <2> QED
    BY <2>2, <2>3, <2>4 DEF DelegationsOK
<1>7. BankTypeOK' /\ \A w \in Delegatees : KeepsPast(w)
  <2>1. /\ {v} \in SUBSET Delegatees /\ rewardIndex' = rewardIndex
        /\ rate' \in [Delegatees -> 0..FullRate]
        /\ \A w \in Delegatees \ {v} : delegateeStake'[w] = delegateeStake[w] /\ rate'[w] = rate[w]
    BY <1>1, <1>2 DEF BankTypeOK, DelegationsOK
  <2> QED
    BY <1>2, <2>1, SettleStep
<1>8. SettingsOK' /\ RequestsOK'
  BY <1>1, <1>2 DEF SettingsOK, settingVars, RequestsOK, requestVars
<1> QED
  BY <1>5, <1>6, <1>7, <1>8, InvPartsNext DEF Step

-----------------------------------------------------------------------------
(* Rewards and settings.                                                   *)

\* Neither stakes, delegations nor requests change.
LEMMA StakesStay ==
    ASSUME Inv, UNCHANGED <<stakeVars, delegVars, requestVars>>
    PROVE  StakesOK' /\ DelegationsOK' /\ RequestsOK'
<1>1. RequestsOK /\ StakesOK /\ DelegationsOK
  BY InvParts
<1>2. StakesOK' /\ RequestsOK'
  BY <1>1 DEF StakesOK, RequestsOK, stakeVars, requestVars
<1>3. DelegationsOK'
  BY <1>1, DelegationsStay DEF DelegationsOK, stakeVars
<1> QED
  BY <1>2, <1>3

\* fund_rewards.
LEMMA FundStep ==
    ASSUME Inv, NEW amount \in Fundings, FundRewards(amount)
    PROVE  Step
<1>1. SettingsOK /\ RequestsOK /\ StakesOK /\ DelegationsOK /\ BankTypeOK
  BY InvParts
<1>2. /\ rewardIndex' = IndexAfterFunding(amount) /\ IndexAfterFunding(amount) <= MaxIndex
      /\ UNCHANGED <<now, settingVars, stakeVars, delegVars, requestVars, rate, bankVars>>
  BY DEF FundRewards
<1>3. rewardIndex' \in 0..MaxIndex
  <2>1. /\ amount * SCALE \in Nat /\ totalStaked \in Nat
        /\ rewardIndex \in Nat /\ MaxIndex \in Nat
    <3>1. amount \in Nat /\ SCALE \in Nat /\ MaxIndex \in Nat
      BY DelegationAssumption
    <3>2. rewardIndex \in 0..MaxIndex /\ totalStaked \in Nat
      BY <1>1 DEF BankTypeOK, StakesOK
    <3> QED
      BY <3>1, <3>2
  <2> DEFINE p == amount * SCALE
  <2>2. IndexAfterFunding(amount) = IF totalStaked > 0 THEN rewardIndex + p \div totalStaked
                                                       ELSE rewardIndex
    BY DEF IndexAfterFunding
  <2> HIDE DEF p
  <2>3. totalStaked > 0 => p \div totalStaked \in Nat
    BY <2>1, QuotientRounds DEF p
  <2> QED
    BY <1>2, <2>1, <2>2, <2>3
<1>4. BankTypeOK' /\ \A w \in Delegatees : KeepsPast(w)
  BY <1>2, <1>3, BanksStay DEF delegVars
<1>5. SettingsOK'
  BY <1>1, <1>2 DEF SettingsOK, settingVars
<1> QED
  BY <1>2, <1>4, <1>5, StakesStay, InvPartsNext DEF Step

\* claim_delegatee_rewards, claim_commission and set_commission.
LEMMA DelegateeStep ==
    ASSUME Inv, NEW v \in Delegatees,
           ClaimDelegateeRewards(v) \/ ClaimCommission(v) \/ \E bps \in Rates : SetCommission(v, bps)
    PROVE  Step
<1>1. SettingsOK /\ RequestsOK /\ StakesOK /\ DelegationsOK /\ BankTypeOK
  BY InvParts
<1>2. UNCHANGED <<now, settingVars, stakeVars, delegVars, requestVars, rewardIndex>>
  BY DEF ClaimDelegateeRewards, ClaimCommission, SetCommission
<1>3. BankTypeOK' /\ \A w \in Delegatees : KeepsPast(w)
  <2>1. /\ {v} \in SUBSET Delegatees /\ rewardIndex' = rewardIndex
        /\ \A w \in Delegatees : delegateeStake'[w] = delegateeStake[w]
        /\ delegateeStake \in [Delegatees -> Int] /\ rate \in [Delegatees -> 0..FullRate]
    BY <1>1, <1>2 DEF delegVars, BankTypeOK, DelegationsOK
  <2>2. CASE ClaimDelegateeRewards(v)
    <3>1. SettleAndPay({v}, {v}, {}) /\ rate' = rate
      BY <2>2 DEF ClaimDelegateeRewards
    <3>2. {v} \in SUBSET {v} /\ {} \in SUBSET {v}
      OBVIOUS
    <3>3. /\ BankTypeOK'
          /\ \A w \in Delegatees :
                /\ w \notin {v} => ClaimableRewards(w)' = ClaimableRewards(w)
                /\ w \notin {} => ClaimableCommission(w)' = ClaimableCommission(w)
      BY <1>1, <2>1, <3>1, <3>2, SettlesPast
    <3> QED
      BY <2>2, <3>3 DEF KeepsPast
  <2>3. CASE ClaimCommission(v)
    <3>1. SettleAndPay({v}, {}, {v}) /\ rate' = rate
      BY <2>3 DEF ClaimCommission
    <3>2. {v} \in SUBSET {v} /\ {} \in SUBSET {v}
      OBVIOUS
    <3>3. /\ BankTypeOK'
          /\ \A w \in Delegatees :
                /\ w \notin {} => ClaimableRewards(w)' = ClaimableRewards(w)
                /\ w \notin {v} => ClaimableCommission(w)' = ClaimableCommission(w)
      BY <1>1, <2>1, <3>1, <3>2, SettlesPast
    <3> QED
      BY <2>3, <3>3 DEF KeepsPast
  <2>4. ASSUME NEW bps \in Rates, SetCommission(v, bps)
        PROVE  BankTypeOK' /\ \A w \in Delegatees : KeepsPast(w)
    <3>1. bps \in 0..FullRate
      BY <2>4, DelegationAssumption DEF SetCommission
    <3>2. Settle({v}) /\ rate' = [rate EXCEPT ![v] = bps]
      BY <2>4 DEF SetCommission
    <3>3. /\ rate' \in [Delegatees -> 0..FullRate]
          /\ \A w \in Delegatees \ {v} : rate'[w] = rate[w]
      BY <2>1, <3>1, <3>2
    <3> QED
      BY <2>1, <3>2, <3>3, SettleStep
  <2> QED
    BY <2>2, <2>3, <2>4
<1>4. SettingsOK'
  BY <1>1, <1>2 DEF SettingsOK, settingVars
<1> QED
  BY <1>2, <1>3, <1>4, StakesStay, InvPartsNext DEF Step

\* The admin's settings, time, and no step.
LEMMA SettingStep ==
    ASSUME Inv,
           \/ Tick \/ AdvanceEpoch \/ UNCHANGED vars
           \/ \E seconds \in Cooldowns : SetUndelegationCooldown(seconds)
           \/ \E a \in Authorities : SetSlashingAuthority(a)
           \/ \E value \in BOOLEAN : SetPaused(value)
    PROVE  Step
<1>1. SettingsOK /\ RequestsOK /\ StakesOK /\ DelegationsOK /\ BankTypeOK
  BY InvParts
<1>2. UNCHANGED <<stakeVars, delegVars, requestVars, rewardIndex, rate, bankVars>>
  BY DEF Tick, AdvanceEpoch, SetUndelegationCooldown, SetSlashingAuthority, SetPaused, vars
<1>3. SettingsOK'
  <2>1. /\ now \in 0..MaxTime /\ epoch \in 1..MaxEpoch /\ MaxTime \in Nat /\ MaxEpoch \in Nat
        /\ cooldown \in Nat /\ Cooldowns \subseteq Nat
    BY <1>1, DelegationAssumption DEF SettingsOK
  <2>2. now' \in 0..MaxTime /\ epoch' \in 1..MaxEpoch /\ cooldown' \in Nat
    BY <2>1 DEF Tick, AdvanceEpoch, SetUndelegationCooldown, SetSlashingAuthority, SetPaused,
                vars, settingVars
  <2>3. paused \in BOOLEAN /\ authority \in Authorities \cup {None}
    BY <1>1 DEF SettingsOK
  <2>4. paused' \in BOOLEAN /\ authority' \in Authorities \cup {None}
    BY <2>3 DEF Tick, AdvanceEpoch, SetUndelegationCooldown, SetSlashingAuthority, SetPaused,
                vars, settingVars
  <2> QED
    BY <2>2, <2>4 DEF SettingsOK
<1>4. BankTypeOK' /\ \A w \in Delegatees : KeepsPast(w)
  BY <1>1, <1>2, BanksStay DEF BankTypeOK, delegVars
<1> QED
  BY <1>2, <1>3, <1>4, StakesStay, InvPartsNext DEF Step

\* Every entry point keeps the invariants and every delegatee's past.
LEMMA NextStep ==
    ASSUME Inv, [Next]_vars
    PROVE  Step
<1>1. CASE Tick \/ UNCHANGED vars
  BY <1>1, SettingStep
<1>2. CASE UserNext
  BY <1>2, StakeStep, SlashStakeStep, RequestStep, FinalizeStep, CompleteStep, DelegateStep
  DEF UserNext
<1>3. CASE DelegateeNext
  BY <1>3, DelegateeStep, DelegateeSlashStep DEF DelegateeNext
<1>4. CASE AdminNext
  BY <1>4, FundStep, SettingStep DEF AdminNext
<1> QED
  BY <1>1, <1>2, <1>3, <1>4 DEF Next

-----------------------------------------------------------------------------
\* Every reachable state is well typed: no delegation, and no bank of a delegatee, is
\* ever negative.
THEOREM DelegationTypeCorrect == Spec => []TypeOK
<1>1. Inv => TypeOK
  BY DEF Inv
<1>2. Inv /\ [Next]_vars => Inv'
  BY NextStep DEF Step
<1> QED
  BY <1>1, <1>2, InitInv, PTL DEF Spec

\* TotalStaked and the reverse index are exact whatever slashes, exits and
\* delegations interleave, however their rounding falls.
THEOREM SummariesStayExact == Spec => []SummariesExact
<1>1. Inv => SummariesExact
  BY DEF Inv
<1>2. Inv /\ [Next]_vars => Inv'
  BY NextStep DEF Step
<1> QED
  BY <1>1, <1>2, InitInv, PTL DEF Spec

\* Nobody ever delegates more than they have staked, in any order of slashes of
\* stakes and of delegatees.
THEOREM DelegationsCovered == Spec => []DelegatedCovered
<1>1. Inv => DelegatedCovered
  BY DEF Inv
<1>2. Inv /\ [Next]_vars => Inv'
  BY NextStep DEF Step
<1> QED
  BY <1>1, <1>2, InitInv, PTL DEF Spec

\* What a delegatee has earned by now is never changed by stakes that move, by
\* slashes or by a new commission rate.
THEOREM PastIsSettled == Spec => PastRewardsSettled
<1>1. Inv /\ [Next]_vars => Inv'
  BY NextStep DEF Step
<1>2. Inv /\ [Next]_vars =>
        [rewardIndex' = rewardIndex =>
           \A v \in Delegatees :
             /\ ClaimableRewards(v)' # ClaimableRewards(v) => ClaimDelegateeRewards(v)
             /\ ClaimableCommission(v)' # ClaimableCommission(v) => ClaimCommission(v)]_vars
  BY NextStep DEF Step, KeepsPast
<1> QED
  BY <1>1, <1>2, InitInv, PTL DEF Spec, PastRewardsSettled
=============================================================================
