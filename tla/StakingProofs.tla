--------------------------- MODULE StakingProofs ---------------------------
(* Theorems about the contracts that keep stakes, for all stakers, amounts,  *)
(* lock periods and index scales.                                            *)
EXTENDS MCStaking, LedgerProofs

\* All that a step of staking_pool may change.
PoolState == <<now, poolVars>>

-----------------------------------------------------------------------------
\* What a slot holds: its deposit, or nothing.
Worth(u, i) == IF deposit[u][i] = None THEN 0 ELSE deposit[u][i].amount

\* The same of all slots of a user.
WorthOf(u) == [i \in Slots |-> Worth(u, i)]

\* A user has finitely many deposit slots.
LEMMA SlotsFinite == IsFiniteSet(Slots)
  BY FS_Interval, PoolAssumption DEF Slots

\* A slot is worth a natural number of tokens.
LEMMA WorthIsNat ==
    ASSUME NEW u \in Users, deposit[u] \in [Slots -> Deposits \cup {None}]
    PROVE  \A i \in Slots : Worth(u, i) \in Nat /\ WorthOf(u)[i] = Worth(u, i)
  BY DEF Worth, WorthOf, Deposits

\* The amount in some live slots is what they are worth.
LEMMA AmountIsWorth ==
    ASSUME NEW u \in Users, deposit[u] \in [Slots -> Deposits \cup {None}],
           NEW some \in SUBSET LiveSlots(u)
    PROVE  /\ AmountIn(u, some) = SumFunctionOnSet(WorthOf(u), some)
           /\ AmountIn(u, some) \in Nat
<1>1. IsFiniteSet(some) /\ some \subseteq Slots
  BY SlotsFinite, FS_Subset DEF LiveSlots
<1> DEFINE a == [i \in some |-> deposit[u][i].amount]
<1>2. \A i \in some : a[i] \in Nat /\ a[i] = WorthOf(u)[i]
  BY <1>1 DEF LiveSlots, WorthOf, Worth, Deposits
<1>3. AmountIn(u, some) = SumFunctionOnSet(a, some)
  BY DEF AmountIn
<1> HIDE DEF a
<1>4. SumFunctionOnSet(a, some) = SumFunctionOnSet(WorthOf(u), some)
  BY <1>1, <1>2, SumAgrees
<1>5. SumFunctionOnSet(a, some) \in Nat
  BY <1>1, <1>2, SumIsNat
<1> QED
  BY <1>3, <1>4, <1>5

\* The live slots of a user hold all the user's deposits are worth.
LEMMA LiveIsWorth ==
    ASSUME NEW u \in Users, deposit[u] \in [Slots -> Deposits \cup {None}]
    PROVE  AmountIn(u, LiveSlots(u)) = SumFunctionOnSet(WorthOf(u), Slots)
<1>1. LiveSlots(u) \in SUBSET Slots /\ LiveSlots(u) \in SUBSET LiveSlots(u)
  BY DEF LiveSlots
<1>2. \A i \in Slots \ LiveSlots(u) : WorthOf(u)[i] = 0
  BY DEF LiveSlots, WorthOf, Worth
<1> QED
  BY <1>1, <1>2, SlotsFinite, WorthIsNat, AmountIsWorth, SumOfPart

-----------------------------------------------------------------------------
\* The slots of the loop of unstake before slot k.
Before(u, k) == {j \in UnlockedSlots(u) : j < k}

\* What an unstake takes from slot i.
TakenFrom(u, amount, i) ==
    IF i \notin UnlockedSlots(u) THEN 0
    ELSE LET before == AmountIn(u, Before(u, i))
         IN  IF before >= amount THEN 0
             ELSE IF before + Worth(u, i) <= amount THEN Worth(u, i)
             ELSE amount - before

\* The same of all slots.
TakenOf(u, amount) == [i \in Slots |-> TakenFrom(u, amount, i)]

\* The unlocked slots, and those before a slot, are live.
LEMMA BeforeIsLive ==
    ASSUME NEW u \in Users, NEW k
    PROVE  /\ Before(u, k) \in SUBSET LiveSlots(u) /\ Before(u, k) \in SUBSET Slots
           /\ UnlockedSlots(u) \in SUBSET LiveSlots(u) /\ UnlockedSlots(u) \in SUBSET Slots
           /\ Before(u, k) \in SUBSET UnlockedSlots(u)
           /\ IsFiniteSet(Before(u, k))
<1>1. Before(u, k) \in SUBSET Slots
  BY DEF Before, UnlockedSlots
<1> QED
  BY <1>1, SlotsFinite, FS_Subset DEF Before, UnlockedSlots, LiveSlots

\* A slot is left with what is not taken from it, and emptied only of all it has.
LEMMA SlotLeft ==
    ASSUME NEW u \in Users, deposit[u] \in [Slots -> Deposits \cup {None}],
           NEW amount \in Nat, NEW i \in Slots
    PROVE  /\ SlotAfter(u, amount, i) \in Deposits \cup {None}
           /\ TakenFrom(u, amount, i) \in Nat
           /\ (IF SlotAfter(u, amount, i) = None THEN 0 ELSE SlotAfter(u, amount, i).amount)
                = Worth(u, i) - TakenFrom(u, amount, i)
           /\ deposit[u][i] = None => SlotAfter(u, amount, i) = None
           /\ i \notin UnlockedSlots(u) => SlotAfter(u, amount, i) = deposit[u][i]
<1> DEFINE before == AmountIn(u, Before(u, i))
           d == deposit[u][i]
<1>1. before \in Nat
  BY BeforeIsLive, AmountIsWorth
<1>2. CASE i \notin UnlockedSlots(u)
  BY <1>2, WorthIsNat DEF SlotAfter, TakenFrom, Worth
<1>3. CASE i \in UnlockedSlots(u)
  <2>1. d \in Deposits /\ d # None /\ Worth(u, i) = d.amount /\ d.amount \in Nat \ {0}
    BY <1>3 DEF UnlockedSlots, Worth, Deposits
  <2>2. SlotAfter(u, amount, i)
          = IF before >= amount THEN d
            ELSE IF before + d.amount <= amount THEN None
            ELSE [d EXCEPT !.amount = @ - (amount - before)]
    BY <1>3, <2>1 DEF SlotAfter, SlotCharged, Before
  <2>3. TakenFrom(u, amount, i)
          = IF before >= amount THEN 0
            ELSE IF before + d.amount <= amount THEN d.amount ELSE amount - before
    BY <1>3, <2>1 DEF TakenFrom
  <2> HIDE DEF before
  <2>4. CASE before >= amount
    BY <2>1, <2>2, <2>3, <2>4
  <2>5. CASE before < amount /\ before + d.amount <= amount
    BY <1>1, <1>3, <2>1, <2>2, <2>3, <2>5
  <2>6. CASE before < amount /\ before + d.amount > amount
    <3>1. SlotAfter(u, amount, i) = [d EXCEPT !.amount = @ - (amount - before)]
      BY <1>1, <2>1, <2>2, <2>6
    <3>2. SlotAfter(u, amount, i) \in Deposits
      BY <1>1, <2>1, <3>1, <2>6 DEF Deposits
    <3>3. SlotAfter(u, amount, i).amount = d.amount - (amount - before)
      BY <2>1, <3>1 DEF Deposits
    <3>4. SlotAfter(u, amount, i) # None
      BY <3>2, PoolAssumption
    <3>5. TakenFrom(u, amount, i) = amount - before
      BY <1>1, <2>1, <2>3, <2>6
    <3> QED
      BY <1>1, <1>3, <2>1, <3>2, <3>3, <3>4, <3>5, <2>6
  <2> QED
    BY <1>1, <2>1, <2>4, <2>5, <2>6
<1> QED
  BY <1>2, <1>3

\* Up to slot k the loop has taken what it could of the amount.
LEMMA TakenUpTo ==
    ASSUME NEW u \in Users, deposit[u] \in [Slots -> Deposits \cup {None}],
           NEW amount \in Nat
    PROVE  \A k \in 0..MaxDeposits :
             SumFunctionOnSet(TakenOf(u, amount), Before(u, k))
               = IF AmountIn(u, Before(u, k)) <= amount THEN AmountIn(u, Before(u, k)) ELSE amount
<1> DEFINE taken(k) == SumFunctionOnSet(TakenOf(u, amount), Before(u, k))
           held(k)  == AmountIn(u, Before(u, k))
           Right(k) == taken(k) = IF held(k) <= amount THEN held(k) ELSE amount
           Bad == {k \in 0..MaxDeposits : ~Right(k)}
<1>1. SUFFICES ASSUME Bad # {} PROVE FALSE
  OBVIOUS
<1>2. PICK k \in Bad : \A m \in Bad : k <= m
  <2>1. Bad \in SUBSET Nat
    BY PoolAssumption
  <2> HIDE DEF Bad
  <2> QED
    BY <1>1, <2>1, LeastNumber
<1>3. k \in 0..MaxDeposits /\ k \in Nat /\ ~Right(k)
  BY <1>2, PoolAssumption
<1>4. \A m \in 0..MaxDeposits : held(m) \in Nat
  BY BeforeIsLive, AmountIsWorth
<1>5. k # 0
  <2>1. Before(u, 0) = {}
    BY PoolAssumption DEF Before, UnlockedSlots, Slots
  <2>2. taken(0) = 0
    BY <2>1, SumOfNone
  <2>3. held(0) = 0
    BY <2>1, SumOfNone, BeforeIsLive, AmountIsWorth
  <2> HIDE DEF taken, held
  <2> QED
    BY <1>3, <2>2, <2>3
<1> DEFINE i == k - 1
<1>6. i \in Slots /\ i \in 0..MaxDeposits /\ k = i + 1 /\ i < k
  BY <1>3, <1>5, PoolAssumption DEF Slots
<1>7. Right(i)
  <2>1. i \notin Bad
    BY <1>2, <1>3, <1>6
  <2> HIDE DEF i, Right
  <2> QED
    BY <2>1, <1>6
<1>8. CASE i \notin UnlockedSlots(u)
  <2>1. Before(u, k) = Before(u, i)
    BY <1>6, <1>8, PoolAssumption DEF Before, UnlockedSlots, Slots
  <2> QED
    BY <1>3, <1>7, <2>1
<1>9. CASE i \in UnlockedSlots(u)
  <2>1. Before(u, k) = Before(u, i) \cup {i} /\ i \notin Before(u, i)
    BY <1>6, <1>9, PoolAssumption DEF Before, UnlockedSlots, Slots
  <2>2. /\ \A j \in Before(u, i) \cup {i} :
             TakenOf(u, amount)[j] \in Int /\ WorthOf(u)[j] \in Int
        /\ TakenOf(u, amount)[i] = TakenFrom(u, amount, i) /\ WorthOf(u)[i] = Worth(u, i)
        /\ Worth(u, i) \in Nat
    BY <1>6, BeforeIsLive, SlotLeft, WorthIsNat DEF TakenOf
  <2> HIDE DEF i
  <2>3. taken(k) = taken(i) + TakenFrom(u, amount, i)
    BY <2>1, <2>2, BeforeIsLive, SumWithOneMore
  <2>4. held(k) = held(i) + Worth(u, i)
    <3>1. /\ held(k) = SumFunctionOnSet(WorthOf(u), Before(u, k))
          /\ held(i) = SumFunctionOnSet(WorthOf(u), Before(u, i))
      BY BeforeIsLive, AmountIsWorth
    <3>2. SumFunctionOnSet(WorthOf(u), Before(u, i) \cup {i})
            = SumFunctionOnSet(WorthOf(u), Before(u, i)) + WorthOf(u)[i]
      BY <2>1, <2>2, BeforeIsLive, SumWithOneMore
    <3> QED
      BY <3>1, <3>2, <2>1, <2>2
  <2>5. TakenFrom(u, amount, i)
          = IF held(i) >= amount THEN 0
            ELSE IF held(i) + Worth(u, i) <= amount THEN Worth(u, i) ELSE amount - held(i)
    BY <1>9 DEF TakenFrom
  <2>6. held(i) \in Nat
    BY <1>4, <1>6
  <2> HIDE DEF taken, held
  <2> QED
    BY <1>3, <1>7, <2>2, <2>3, <2>4, <2>5, <2>6
<1> QED
  BY <1>8, <1>9

\* An unstake that the unlocked slots cover takes exactly its amount.
LEMMA TakenInAll ==
    ASSUME NEW u \in Users, deposit[u] \in [Slots -> Deposits \cup {None}],
           NEW amount \in Nat, amount <= UnlockedBalance(u)
    PROVE  SumFunctionOnSet(TakenOf(u, amount), Slots) = amount
<1>1. MaxDeposits \in 0..MaxDeposits /\ Before(u, MaxDeposits) = UnlockedSlots(u)
  BY PoolAssumption DEF Before, UnlockedSlots, Slots
<1>2. SumFunctionOnSet(TakenOf(u, amount), UnlockedSlots(u))
        = IF UnlockedBalance(u) <= amount THEN UnlockedBalance(u) ELSE amount
  BY <1>1, TakenUpTo DEF UnlockedBalance
<1>3. UnlockedBalance(u) \in Nat
  BY BeforeIsLive, AmountIsWorth DEF UnlockedBalance
<1>4. /\ \A i \in Slots : TakenOf(u, amount)[i] \in Nat
      /\ \A i \in Slots \ UnlockedSlots(u) : TakenOf(u, amount)[i] = 0
  BY SlotLeft DEF TakenOf, TakenFrom
<1>5. SumFunctionOnSet(TakenOf(u, amount), UnlockedSlots(u))
        = SumFunctionOnSet(TakenOf(u, amount), Slots)
  BY <1>4, BeforeIsLive, SlotsFinite, SumOfPart
<1> QED
  BY <1>2, <1>3, <1>5

-----------------------------------------------------------------------------
\* The inductive invariant: what is stored is well typed and agrees.
PoolInv == PoolTypeOK /\ StakesBacked

\* One user's deposits change from their worth before to their worth after.
LEMMA WorthAfter ==
    ASSUME NEW u \in Users, deposit'[u] \in [Slots -> Deposits \cup {None}],
           NEW w, \A i \in Slots : w[i] \in Int /\ w[i] = Worth(u, i)'
    PROVE  AmountIn(u, LiveSlots(u))' = SumFunctionOnSet(w, Slots)
<1>1. LiveSlots(u)' \in SUBSET Slots /\ IsFiniteSet(LiveSlots(u)')
  BY SlotsFinite, FS_Subset DEF LiveSlots
<1> DEFINE a == [i \in LiveSlots(u)' |-> deposit'[u][i].amount]
<1>2. \A i \in LiveSlots(u)' : a[i] \in Int /\ a[i] = w[i]
  BY <1>1 DEF LiveSlots, Worth, Deposits
<1>3. AmountIn(u, LiveSlots(u))' = SumFunctionOnSet(a, LiveSlots(u)')
  BY DEF AmountIn
<1>4. SumFunctionOnSet(a, LiveSlots(u)') = SumFunctionOnSet(w, LiveSlots(u)')
  <2> HIDE DEF a
  <2> QED
    BY <1>1, <1>2, SumAgrees
<1>5. SumFunctionOnSet(w, LiveSlots(u)') = SumFunctionOnSet(w, Slots)
  <2>1. \A i \in Slots : w[i] \in Nat
    BY DEF Worth, Deposits
  <2>2. \A i \in Slots \ LiveSlots(u)' : w[i] = 0
    BY DEF Worth, LiveSlots
  <2> QED
    BY <1>1, <2>1, <2>2, SlotsFinite, SumOfPart
<1> QED
  BY <1>3, <1>4, <1>5

\* Tokens move between the pool and a user, or the admin.
LEMMA TokensMove ==
    ASSUME NEW t \in [Addresses \cup {Pool} -> Nat], NEW u \in Users \cup {Admin},
           NEW amount \in Nat
    PROVE  /\ Covers(t, u, amount) =>
                /\ Moved(t, u, Pool, amount) \in [Addresses \cup {Pool} -> Nat]
                /\ Moved(t, u, Pool, amount)[Pool] = t[Pool] + amount
           /\ Covers(t, Pool, amount) =>
                /\ Moved(t, Pool, u, amount) \in [Addresses \cup {Pool} -> Nat]
                /\ Moved(t, Pool, u, amount)[Pool] = t[Pool] - amount
<1>1. u \in Addresses \cup {Pool} /\ Pool \in Addresses \cup {Pool} /\ u # Pool
  BY StakeLedgerAssumption DEF Addresses
<1> QED
  BY <1>1 DEF Covers, Moved

\* The sum of the users' balances when one of them changes.
LEMMA SumAfterChange ==
    ASSUME NEW f \in [Users -> Nat], NEW u \in Users, NEW new \in Nat
    PROVE  /\ SumOf([f EXCEPT ![u] = new]) = SumOf(f) - f[u] + new
           /\ SumOf(f) \in Nat /\ f[u] <= SumOf(f)
<1> DEFINE g == [f EXCEPT ![u] = new]
<1>1. IsFiniteSet(Users) /\ g[u] = new /\ \A v \in Users : v # u => g[v] = f[v]
  BY StakeLedgerAssumption
<1> HIDE DEF g
<1>2. /\ SumFunctionOnSet(g, Users) = SumFunctionOnSet(f, Users) - f[u] + new
      /\ SumFunctionOnSet(f, Users) \in Nat /\ f[u] <= SumFunctionOnSet(f, Users)
  BY <1>1, SumOfUpdate
<1> QED
  BY <1>2 DEF SumOf, g

\* staking_pool right after init.
LEMMA PoolStart ==
    ASSUME PoolInit, now = 0
    PROVE  PoolInv
<1>1. PoolTypeOK
  <2>1. /\ poolAdmin \in Admins /\ poolOperator \in Admins \cup {None, Void}
        /\ poolPaused \in BOOLEAN /\ lockPeriod \in 0..MaxLockPeriod /\ now \in 0..MaxTime
        /\ totalStaked \in Nat
    <3>1. /\ poolAdmin = Admin /\ poolOperator = None /\ poolPaused = FALSE
          /\ lockPeriod = 0 /\ totalStaked = 0
      BY DEF PoolInit
    <3>2. 0 \in 0..MaxLockPeriod /\ 0 \in 0..MaxTime /\ Admin \in Admins
      BY StakeLedgerAssumption, PoolAssumption, LedgerAssumption
    <3> QED
      BY <3>1, <3>2
  <2>2. token \in [Addresses \cup {Pool} -> Nat]
    BY StakeLedgerAssumption DEF PoolInit, StartTokens
  <2>3. /\ stakedBalance \in [Users -> Nat]
        /\ depositCount \in [Users -> 0..MaxDeposits]
        /\ deposit \in [Users -> [Slots -> Deposits \cup {None}]]
        /\ \A u \in Users, i \in Slots : i >= depositCount[u] => deposit[u][i] = None
    BY PoolAssumption DEF PoolInit
  <2> QED
    BY <2>1, <2>2, <2>3 DEF PoolTypeOK
<1>2. ASSUME NEW u \in Users PROVE stakedBalance[u] = AmountIn(u, LiveSlots(u))
  <2>1. deposit[u] \in [Slots -> Deposits \cup {None}] /\ \A i \in Slots : WorthOf(u)[i] = 0
    BY DEF PoolInit, WorthOf, Worth
  <2> QED
    BY <2>1, LiveIsWorth, SumOfZeros, SlotsFinite DEF PoolInit
<1>3. totalStaked = SumOf(stakedBalance)
  <2>1. \A u \in Users : stakedBalance[u] = 0
    BY DEF PoolInit
  <2> QED
    BY <2>1, SumOfZeros, StakeLedgerAssumption DEF PoolInit, SumOf
<1>4. token[Pool] = totalStaked
  BY StakeLedgerAssumption DEF PoolInit, StartTokens, Addresses
<1> QED
  BY <1>1, <1>2, <1>3, <1>4 DEF PoolInv, StakesBacked

\* Users whose deposits a step leaves alone keep what they are worth.
LEMMA OthersWorth ==
    ASSUME PoolInv, NEW u \in Users, deposit'[u] = deposit[u]
    PROVE  AmountIn(u, LiveSlots(u))' = AmountIn(u, LiveSlots(u))
<1>1. LiveSlots(u)' = LiveSlots(u)
  BY DEF LiveSlots
<1> QED
  BY <1>1 DEF AmountIn

\* A step that moves one user's deposits, balance and the total by the same
\* amount, and the pool's tokens with them, preserves the invariant.
LEMMA OneStakeMoves ==
    ASSUME PoolInv, NEW u \in Users, NEW new \in Nat,
           now' = now, UNCHANGED poolSettings, depositCount' \in [Users -> 0..MaxDeposits],
           stakedBalance' = [stakedBalance EXCEPT ![u] = new],
           totalStaked' = totalStaked + new - stakedBalance[u],
           token' \in [Addresses \cup {Pool} -> Nat],
           token'[Pool] = token[Pool] + new - stakedBalance[u],
           deposit' \in [Users -> [Slots -> Deposits \cup {None}]],
           \A v \in Users : v # u => deposit'[v] = deposit[v],
           \A v \in Users, i \in Slots : i >= depositCount'[v] => deposit'[v][i] = None,
           AmountIn(u, LiveSlots(u))' = new
    PROVE  PoolInv'
<1>1. /\ stakedBalance \in [Users -> Nat] /\ totalStaked \in Nat /\ token[Pool] = totalStaked
      /\ totalStaked = SumOf(stakedBalance)
  BY DEF PoolInv, PoolTypeOK, StakesBacked
<1>2. /\ SumOf(stakedBalance)' = totalStaked - stakedBalance[u] + new
      /\ stakedBalance[u] <= totalStaked
  <2>1. /\ SumOf([stakedBalance EXCEPT ![u] = new]) = SumOf(stakedBalance) - stakedBalance[u] + new
        /\ stakedBalance[u] <= SumOf(stakedBalance)
    BY <1>1, SumAfterChange
  <2>2. SumOf(stakedBalance)' = SumOf([stakedBalance EXCEPT ![u] = new])
    BY DEF SumOf
  <2> QED
    BY <1>1, <2>1, <2>2
<1>3. stakedBalance' \in [Users -> Nat] /\ totalStaked' \in Nat
  BY <1>1, <1>2
<1>4. PoolTypeOK'
  <2>1. /\ now' \in 0..MaxTime /\ poolAdmin' \in Admins
        /\ poolOperator' \in Admins \cup {None, Void}
        /\ poolPaused' \in BOOLEAN /\ lockPeriod' \in 0..MaxLockPeriod
    BY DEF PoolInv, PoolTypeOK, poolSettings
  <2> QED
    BY <1>3, <2>1 DEF PoolTypeOK
<1>5. ASSUME NEW v \in Users PROVE stakedBalance'[v] = AmountIn(v, LiveSlots(v))'
  <2>1. CASE v = u
    BY <2>1, <1>1
  <2>2. CASE v # u
    BY <2>2, <1>1, OthersWorth DEF PoolInv, StakesBacked
  <2> QED
    BY <2>1, <2>2
<1>6. totalStaked' = SumOf(stakedBalance)' /\ token'[Pool] = totalStaked'
  BY <1>1, <1>2
<1> QED
  BY <1>4, <1>5, <1>6 DEF PoolInv, StakesBacked

\* A stake fills the user's next slot, which was empty.
LEMMA StakeKeeps ==
    ASSUME PoolInv, NEW by, NEW u \in Users, NEW amount \in Amounts, PoolStake(by, u, amount)
    PROVE  PoolInv'
<1> DEFINE k == depositCount[u]
           w == [i \in Slots |-> IF i = k THEN amount ELSE Worth(u, i)]
           d == [amount |-> amount, timestamp |-> now]
<1>1. amount \in Nat \ {0} /\ now \in Nat /\ d \in Deposits /\ d # None /\ d.amount = amount
  BY StakeLedgerAssumption, LedgerAssumption, PoolAssumption DEF PoolInv, PoolTypeOK, Deposits
<1>2. k \in Slots /\ k \in Nat /\ deposit[u][k] = None
  BY PoolAssumption DEF PoolInv, PoolTypeOK, PoolStake, Slots
<1>3. /\ stakedBalance \in [Users -> Nat]
      /\ deposit \in [Users -> [Slots -> Deposits \cup {None}]]
      /\ depositCount \in [Users -> 0..MaxDeposits]
      /\ totalStaked \in Nat /\ token \in [Addresses \cup {Pool} -> Nat]
      /\ \A v \in Users, i \in Slots : i >= depositCount[v] => deposit[v][i] = None
      /\ stakedBalance[u] = AmountIn(u, LiveSlots(u))
  BY DEF PoolInv, PoolTypeOK, StakesBacked
<1>4. /\ deposit' = [deposit EXCEPT ![u][k] = d] /\ now' = now /\ UNCHANGED poolSettings
      /\ depositCount' = [depositCount EXCEPT ![u] = k + 1] /\ k < MaxDeposits
      /\ stakedBalance' = [stakedBalance EXCEPT ![u] = stakedBalance[u] + amount]
      /\ totalStaked' = totalStaked + amount
      /\ Covers(token, u, amount) /\ token' = Moved(token, u, Pool, amount)
  BY <1>3 DEF PoolStake, StakeSlot, BalanceAfterStake, TotalAfterStake
<1> HIDE DEF d, k
<1>5. /\ deposit' \in [Users -> [Slots -> Deposits \cup {None}]]
      /\ \A i \in Slots : deposit'[u][i] = IF i = k THEN d ELSE deposit[u][i]
      /\ \A v \in Users : v # u => deposit'[v] = deposit[v]
  BY <1>1, <1>2, <1>3, <1>4
<1>6. /\ depositCount' \in [Users -> 0..MaxDeposits]
      /\ depositCount'[u] = k + 1 /\ \A v \in Users : v # u => depositCount'[v] = depositCount[v]
  BY <1>2, <1>3, <1>4, PoolAssumption
<1>7. ASSUME NEW v \in Users, NEW i \in Slots, i >= depositCount'[v]
      PROVE  deposit'[v][i] = None
  <2>1. CASE v = u
    <3>1. i \in Nat /\ i >= k /\ i # k
      BY <1>2, <1>6, <1>7, <2>1, PoolAssumption DEF Slots
    <3> QED
      BY <1>3, <1>5, <2>1, <3>1 DEF k
  <2>2. CASE v # u
    BY <1>3, <1>5, <1>6, <1>7, <2>2
  <2> QED
    BY <2>1, <2>2
<1>8. \A i \in Slots : WorthOf(u)[i] \in Nat /\ WorthOf(u)[i] = Worth(u, i)
  BY <1>3, WorthIsNat
<1>9. /\ \A i \in Slots : w[i] \in Int /\ w[i] = Worth(u, i)'
      /\ w[k] = amount /\ WorthOf(u)[k] = 0
      /\ \A i \in Slots : i # k => w[i] = WorthOf(u)[i]
  BY <1>1, <1>2, <1>5, <1>8 DEF Worth
<1> HIDE DEF w
<1>10. AmountIn(u, LiveSlots(u))' = SumFunctionOnSet(w, Slots)
  <2>1. deposit'[u] \in [Slots -> Deposits \cup {None}]
    BY <1>5
  <2> QED
    BY <2>1, <1>9, WorthAfter
<1>11. SumFunctionOnSet(w, Slots) = SumFunctionOnSet(WorthOf(u), Slots) + amount
  <2>1. SumFunctionOnSet(w, Slots)
          = SumFunctionOnSet(WorthOf(u), Slots) - WorthOf(u)[k] + w[k]
    <3> DEFINE f == WorthOf(u)
    <3>1. /\ w[k] \in Int /\ \A i \in Slots : f[i] \in Int
          /\ \A i \in Slots : i # k => w[i] = f[i]
          /\ k \in Slots
      BY <1>2, <1>8, <1>9
    <3> HIDE DEF f
    <3>2. SumFunctionOnSet(w, Slots) = SumFunctionOnSet(f, Slots) - f[k] + w[k]
      BY <3>1, SlotsFinite, SumOfChange
    <3> QED
      BY <3>2 DEF f
  <2>2. SumFunctionOnSet(WorthOf(u), Slots) \in Int
    BY <1>8, SlotsFinite, SumIsInt
  <2> QED
    BY <1>1, <1>9, <2>1, <2>2
<1>12. SumFunctionOnSet(WorthOf(u), Slots) = stakedBalance[u]
  BY <1>3, LiveIsWorth
<1>13. /\ token' \in [Addresses \cup {Pool} -> Nat] /\ token'[Pool] = token[Pool] + amount
       /\ token[Pool] \in Nat
  <2>1. amount \in Nat /\ u \in Users \cup {Admin}
    BY <1>1
  <2> QED
    BY <2>1, <1>3, <1>4, TokensMove
<1>14. /\ stakedBalance[u] + amount \in Nat
       /\ totalStaked' = totalStaked + (stakedBalance[u] + amount) - stakedBalance[u]
       /\ token'[Pool] = token[Pool] + (stakedBalance[u] + amount) - stakedBalance[u]
  BY <1>1, <1>3, <1>4, <1>13
<1> QED
  BY <1>4, <1>5, <1>6, <1>7, <1>10, <1>11, <1>12, <1>13, <1>14, OneStakeMoves

\* An unstake takes its amount out of the unlocked slots, and out of the user's
\* balance, the total and the pool's tokens.
LEMMA UnstakeKeeps ==
    ASSUME PoolInv, NEW by, NEW u \in Users, NEW amount \in Amounts, PoolUnstake(by, u, amount)
    PROVE  PoolInv'
<1> DEFINE w == [i \in Slots |-> Worth(u, i) - TakenFrom(u, amount, i)]
<1>1. amount \in Nat
  BY StakeLedgerAssumption
<1>2. /\ stakedBalance \in [Users -> Nat]
      /\ deposit \in [Users -> [Slots -> Deposits \cup {None}]]
      /\ depositCount \in [Users -> 0..MaxDeposits]
      /\ totalStaked \in Nat /\ token \in [Addresses \cup {Pool} -> Nat]
      /\ \A v \in Users, i \in Slots : i >= depositCount[v] => deposit[v][i] = None
      /\ stakedBalance[u] = AmountIn(u, LiveSlots(u))
  BY DEF PoolInv, PoolTypeOK, StakesBacked
<1>3. /\ deposit' = [deposit EXCEPT ![u] = [i \in Slots |-> SlotAfter(u, amount, i)]]
      /\ now' = now /\ UNCHANGED poolSettings /\ depositCount' = depositCount
      /\ stakedBalance' = [stakedBalance EXCEPT ![u] = stakedBalance[u] - amount]
      /\ totalStaked' = totalStaked - amount
      /\ Covers(token, Pool, amount) /\ token' = Moved(token, Pool, u, amount)
      /\ stakedBalance[u] >= amount /\ UnlockedBalance(u) >= amount
  BY <1>2 DEF PoolUnstake
<1>4. \A i \in Slots :
        /\ SlotAfter(u, amount, i) \in Deposits \cup {None}
        /\ TakenFrom(u, amount, i) \in Nat
        /\ (IF SlotAfter(u, amount, i) = None THEN 0 ELSE SlotAfter(u, amount, i).amount)
              = Worth(u, i) - TakenFrom(u, amount, i)
        /\ deposit[u][i] = None => SlotAfter(u, amount, i) = None
  BY <1>1, <1>2, SlotLeft
<1>5. /\ deposit' \in [Users -> [Slots -> Deposits \cup {None}]]
      /\ \A i \in Slots : deposit'[u][i] = SlotAfter(u, amount, i)
      /\ \A v \in Users : v # u => deposit'[v] = deposit[v]
  BY <1>2, <1>3, <1>4
<1>6. \A v \in Users, i \in Slots : i >= depositCount'[v] => deposit'[v][i] = None
  BY <1>2, <1>3, <1>4, <1>5
<1>7. \A i \in Slots : WorthOf(u)[i] \in Nat /\ WorthOf(u)[i] = Worth(u, i)
  BY <1>2, WorthIsNat
<1>8. \A i \in Slots : /\ w[i] \in Int /\ w[i] = Worth(u, i)'
                       /\ w[i] = WorthOf(u)[i] + (-1) * TakenOf(u, amount)[i]
                       /\ TakenOf(u, amount)[i] \in Int
  BY <1>4, <1>5, <1>7 DEF Worth, TakenOf
<1> HIDE DEF w
<1>9. AmountIn(u, LiveSlots(u))' = SumFunctionOnSet(w, Slots)
  <2>1. deposit'[u] \in [Slots -> Deposits \cup {None}]
    BY <1>5
  <2> QED
    BY <2>1, <1>8, WorthAfter
<1>10. SumFunctionOnSet(w, Slots)
         = SumFunctionOnSet(WorthOf(u), Slots) + (-1) * SumFunctionOnSet(TakenOf(u, amount), Slots)
  <2>1. \A i \in Slots : WorthOf(u)[i] \in Int
    BY <1>7
  <2> QED
    BY <1>8, <2>1, SlotsFinite, SumIsLinear
<1>11. SumFunctionOnSet(WorthOf(u), Slots) = stakedBalance[u]
  BY <1>2, LiveIsWorth
<1>12. SumFunctionOnSet(TakenOf(u, amount), Slots) = amount
  <2>1. UnlockedBalance(u) \in Nat
    BY <1>2, BeforeIsLive, AmountIsWorth DEF UnlockedBalance
  <2>2. amount <= UnlockedBalance(u)
    BY <1>1, <1>3, <2>1
  <2> QED
    BY <1>1, <1>2, <2>2, TakenInAll
<1>13. /\ token' \in [Addresses \cup {Pool} -> Nat] /\ token'[Pool] = token[Pool] - amount
       /\ token[Pool] \in Nat
  BY <1>1, <1>2, <1>3, TokensMove
<1>14. /\ stakedBalance[u] - amount \in Nat
       /\ totalStaked' = totalStaked + (stakedBalance[u] - amount) - stakedBalance[u]
       /\ token'[Pool] = token[Pool] + (stakedBalance[u] - amount) - stakedBalance[u]
       /\ AmountIn(u, LiveSlots(u))' = stakedBalance[u] - amount
  BY <1>1, <1>2, <1>3, <1>9, <1>10, <1>11, <1>12, <1>13
<1>15. depositCount' \in [Users -> 0..MaxDeposits]
  BY <1>2, <1>3
<1> QED
  BY <1>3, <1>5, <1>6, <1>13, <1>14, <1>15, OneStakeMoves

\* The admin's settings and the clock leave all stakes alone.
LEMMA SettingsKeep ==
    ASSUME PoolInv, NEW by,
           PoolSettingNext(by) \/ PoolTick \/ UNCHANGED PoolState
    PROVE  PoolInv'
<1>1. UNCHANGED <<token, poolStakes>> /\ now' \in 0..MaxTime
  BY LedgerAssumption
  DEF PoolSettingNext, PoolSetOperator, PoolSetAdmin, SetLockPeriod, PoolPause, PoolUnpause,
      PoolTick, Tick, PoolState, poolVars, PoolInv, PoolTypeOK
<1>2. /\ poolAdmin' \in Admins /\ poolOperator' \in Admins \cup {None, Void}
      /\ poolPaused' \in BOOLEAN /\ lockPeriod' \in 0..MaxLockPeriod
  <2>1. CASE PoolSettingNext(by)
    <3>1. /\ poolAdmin \in Admins /\ poolOperator \in Admins \cup {None, Void}
          /\ poolPaused \in BOOLEAN /\ lockPeriod \in 0..MaxLockPeriod
      BY DEF PoolInv, PoolTypeOK
    <3>2. CASE \E seconds \in LockPeriods : SetLockPeriod(by, seconds)
      BY <3>1, <3>2, PoolAssumption DEF SetLockPeriod
    <3>3. CASE PoolPause(by) \/ PoolUnpause(by)
      BY <3>1, <3>3 DEF PoolPause, PoolUnpause
    <3>4. CASE \E a \in Admins : PoolSetAdmin(by, a)
      BY <3>1, <3>4 DEF PoolSetAdmin
    <3>5. CASE \E a \in Admins \cup {Void} : PoolSetOperator(by, a)
      BY <3>1, <3>5 DEF PoolSetOperator
    <3> QED
      BY <2>1, <3>2, <3>3, <3>4, <3>5 DEF PoolSettingNext
  <2>2. CASE PoolTick \/ UNCHANGED PoolState
    BY <2>2 DEF PoolTick, PoolState, poolVars, poolSettings, PoolInv, PoolTypeOK
  <2> QED
    BY <2>1, <2>2
<1>3. PoolTypeOK'
  BY <1>1, <1>2 DEF poolStakes, PoolInv, PoolTypeOK
<1>4. ASSUME NEW u \in Users PROVE stakedBalance'[u] = AmountIn(u, LiveSlots(u))'
  BY <1>1, OthersWorth DEF poolStakes, PoolInv, StakesBacked
<1>5. totalStaked' = SumOf(stakedBalance)' /\ token'[Pool] = totalStaked'
  BY <1>1 DEF poolStakes, PoolInv, StakesBacked, SumOf
<1> QED
  BY <1>3, <1>4, <1>5 DEF PoolInv, StakesBacked

\* Every entry point of staking_pool keeps the invariant.
LEMMA PoolKeeps ==
    ASSUME PoolInv, [PoolNext]_PoolState
    PROVE  PoolInv'
<1>1. CASE PoolTick \/ UNCHANGED PoolState
  BY <1>1, SettingsKeep
<1>2. CASE \E by \in PoolSigners : PoolStakeNext(by) \/ PoolSettingNext(by)
  BY <1>2, StakeKeeps, UnstakeKeeps, SettingsKeep DEF PoolStakeNext
<1> QED
  BY <1>1, <1>2 DEF PoolNext

\* For every pool: the user's balances, the total and the tokens of the pool
\* agree with the deposits, so that what is unlocked can be paid out.
THEOREM PoolStakesBacked == PoolSpec => []StakesBacked
<1>1. PoolInit /\ now = 0 => PoolInv
  BY PoolStart
<1>2. PoolInv /\ [PoolNext]_PoolState => PoolInv'
  BY PoolKeeps
<1>3. PoolInv => StakesBacked
  BY DEF PoolInv
<1> QED
  BY <1>1, <1>2, <1>3, PTL DEF PoolSpec, PoolState

-----------------------------------------------------------------------------
\* An unlocked slot before one that an unstake reaches is used up.
LEMMA EarlierUsedUp ==
    ASSUME NEW u \in Users, deposit[u] \in [Slots -> Deposits \cup {None}],
           NEW amount \in Nat, NEW i \in Slots, SlotAfter(u, amount, i) # deposit[u][i],
           NEW j \in UnlockedSlots(u), j < i
    PROVE  SlotAfter(u, amount, j) = None
<1>1. i \in UnlockedSlots(u)
  BY SlotLeft
<1>2. /\ deposit[u][i] # None /\ i \in Nat /\ j \in Nat /\ j \in Slots
      /\ deposit[u][j] # None /\ deposit[u][j].amount \in Nat /\ Worth(u, j) = deposit[u][j].amount
  <2>1. deposit[u][i] # None /\ deposit[u][j] # None /\ j \in Slots
    BY <1>1 DEF UnlockedSlots
  <2>2. deposit[u][j] \in Deposits
    BY <2>1
  <2>3. i \in Nat /\ j \in Nat
    BY <2>1 DEF Slots
  <2> QED
    BY <2>1, <2>2, <2>3 DEF Deposits, Worth
<1>3. AmountIn(u, Before(u, i)) \in Nat /\ AmountIn(u, Before(u, j)) \in Nat
  BY BeforeIsLive, AmountIsWorth
<1>4. AmountIn(u, Before(u, i)) < amount
  BY <1>1, <1>2, <1>3 DEF SlotAfter, SlotCharged, Before
<1>5. AmountIn(u, Before(u, j)) + Worth(u, j) <= AmountIn(u, Before(u, i))
  <2> DEFINE f == WorthOf(u)
             T == Before(u, j)
             S == Before(u, i)
  <2>1. /\ T \cup {j} \in SUBSET S /\ j \notin T /\ IsFiniteSet(T) /\ IsFiniteSet(S)
        /\ S \in SUBSET Slots /\ T \in SUBSET Slots
    <3>1. UnlockedSlots(u) \subseteq Nat
      BY BeforeIsLive DEF Slots
    <3>2. T \cup {j} \in SUBSET S /\ j \notin T
      BY <1>2, <3>1 DEF Before
    <3> QED
      BY <3>2, BeforeIsLive
  <2>2. \A k \in Slots : f[k] \in Nat /\ f[k] \in Int
    BY WorthIsNat
  <2>3. f[j] = Worth(u, j)
    BY <1>2, WorthIsNat
  <2>4. AmountIn(u, T) = SumFunctionOnSet(f, T) /\ AmountIn(u, S) = SumFunctionOnSet(f, S)
    BY BeforeIsLive, AmountIsWorth
  <2> HIDE DEF f, T, S
  <2>5. SumFunctionOnSet(f, T \cup {j}) = SumFunctionOnSet(f, T) + f[j]
    <3>1. \A k \in T \cup {j} : f[k] \in Int
      BY <1>2, <2>1, <2>2
    <3> QED
      BY <3>1, <2>1, SumWithOneMore
  <2>6. SumFunctionOnSet(f, T \cup {j}) <= SumFunctionOnSet(f, S)
    <3>1. \A k \in S : f[k] \in Nat
      BY <2>1, <2>2
    <3> QED
      BY <3>1, <2>1, SumOfPart
  <2> QED
    BY <2>3, <2>4, <2>5, <2>6 DEF f, T, S
<1> QED
  BY <1>2, <1>3, <1>4, <1>5 DEF SlotAfter, SlotCharged, Before

\* What a step may do to the deposits of one user.
InOrder(u) ==
    \A i \in LiveSlots(u) :
        /\ ~Unlocked(deposit[u][i]) => deposit'[u][i] = deposit[u][i]
        /\ deposit'[u][i] # deposit[u][i] =>
             \A j \in UnlockedSlots(u) : j < i => deposit'[u][j] = None

\* No step touches a locked deposit, or a deposit behind one not used up.
LEMMA StepsInOrder ==
    ASSUME PoolInv, [PoolNext]_PoolState, NEW u \in Users
    PROVE  InOrder(u)
<1>1. /\ deposit \in [Users -> [Slots -> Deposits \cup {None}]]
      /\ depositCount \in [Users -> 0..MaxDeposits]
      /\ \A v \in Users, i \in Slots : i >= depositCount[v] => deposit[v][i] = None
  BY DEF PoolInv, PoolTypeOK
<1>2. CASE deposit' = deposit
  BY <1>2 DEF InOrder
<1>3. ASSUME NEW by, NEW v \in Users, NEW amount \in Amounts, PoolStake(by, v, amount)
      PROVE  InOrder(u)
  <2> DEFINE k == depositCount[v]
             d == [amount |-> amount, timestamp |-> now]
  <2>1. k \in Slots /\ k \in Nat /\ deposit[v][k] = None
    BY <1>1, <1>3, PoolAssumption DEF PoolStake, Slots
  <2>2. deposit' = [deposit EXCEPT ![v][k] = d]
    BY <1>3 DEF PoolStake, StakeSlot
  <2> HIDE DEF k, d
  <2>3. \A i \in LiveSlots(u) : deposit'[u][i] = deposit[u][i]
    BY <1>1, <2>1, <2>2 DEF LiveSlots
  <2> QED
    BY <2>3 DEF InOrder
<1>4. ASSUME NEW by, NEW v \in Users, NEW amount \in Amounts, PoolUnstake(by, v, amount)
      PROVE  InOrder(u)
  <2>1. deposit' = [deposit EXCEPT ![v] = [i \in Slots |-> SlotAfter(v, amount, i)]]
    BY <1>4 DEF PoolUnstake
  <2>2. CASE u # v
    BY <1>1, <2>1, <2>2 DEF InOrder
  <2>3. CASE u = v
    <3>1. amount \in Nat /\ deposit[u] \in [Slots -> Deposits \cup {None}]
      BY <1>1, StakeLedgerAssumption
    <3>2. /\ \A i \in Slots : deposit'[u][i] = SlotAfter(u, amount, i)
          /\ LiveSlots(u) \subseteq Slots /\ UnlockedSlots(u) \subseteq Slots
      BY <1>1, <2>1, <2>3 DEF LiveSlots, UnlockedSlots
    <3>3. ASSUME NEW i \in LiveSlots(u), ~Unlocked(deposit[u][i])
          PROVE  deposit'[u][i] = deposit[u][i]
      <4>1. i \in Slots /\ i \notin UnlockedSlots(u)
        BY <3>3 DEF LiveSlots, UnlockedSlots
      <4> QED
        BY <3>1, <3>2, <4>1, SlotLeft
    <3>4. ASSUME NEW i \in LiveSlots(u), deposit'[u][i] # deposit[u][i],
                 NEW j \in UnlockedSlots(u), j < i
          PROVE  deposit'[u][j] = None
      <4>1. i \in Slots /\ j \in Slots /\ SlotAfter(u, amount, i) # deposit[u][i]
        BY <3>2, <3>4
      <4> QED
        BY <3>1, <3>2, <3>4, <4>1, EarlierUsedUp
    <3> QED
      BY <3>3, <3>4 DEF InOrder
  <2> QED
    BY <2>2, <2>3
<1>5. ASSUME NEW by, PoolSettingNext(by) PROVE deposit' = deposit
  BY <1>5
  DEF PoolSettingNext, PoolSetOperator, PoolSetAdmin, SetLockPeriod, PoolPause, PoolUnpause,
      poolStakes
<1>6. CASE PoolTick \/ UNCHANGED PoolState
  <2>1. deposit' = deposit
    BY <1>6 DEF PoolTick, PoolState, poolVars, poolStakes
  <2> QED
    BY <1>2, <2>1
<1>7. CASE \E by \in PoolSigners : PoolStakeNext(by) \/ PoolSettingNext(by)
  BY <1>2, <1>3, <1>4, <1>5, <1>7 DEF PoolStakeNext
<1> QED
  BY <1>6, <1>7 DEF PoolNext

\* No step touches a locked deposit, and an unstake uses up the oldest unlocked
\* ones first, whatever the deposits, the lock period and the amount are.
THEOREM PoolDepositsInOrder == PoolSpec => DepositsInOrder
<1>1. PoolInit /\ now = 0 => PoolInv
  BY PoolStart
<1>2. PoolInv /\ [PoolNext]_PoolState => PoolInv'
  BY PoolKeeps
<1>3. PoolInv /\ [PoolNext]_PoolState =>
        /\ [\A u \in Users : \A i \in LiveSlots(u) :
              ~Unlocked(deposit[u][i]) => deposit'[u][i] = deposit[u][i]]_<<now, poolVars>>
        /\ [\A u \in Users : \A i \in LiveSlots(u) :
              deposit'[u][i] # deposit[u][i] =>
                \A j \in UnlockedSlots(u) : j < i => deposit'[u][j] = None]_<<now, poolVars>>
  BY StepsInOrder DEF InOrder
<1> QED
  BY <1>1, <1>2, <1>3, PTL DEF PoolSpec, PoolState, DepositsInOrder, LockedDepositStays, OldestFirst

\* One account moves by as much as the token account: a vault receives or pays.
LEMMA PoolMoves ==
    ASSUME PoolInv, [PoolNext]_PoolState
    PROVE  [PoolVault!VaultNext]_(PoolVault!vaultVars)
<1> USE DEF PoolVault!VaultNext, PoolVault!vaultVars, PoolVault!Receive, PoolVault!Pay,
            PoolVault!Moves
<1>1. /\ stakedBalance \in [Users -> Nat] /\ token \in [Addresses \cup {Pool} -> Nat]
  BY DEF PoolInv, PoolTypeOK
<1>2. CASE UNCHANGED <<stakedBalance, token>>
  BY <1>2
<1>3. ASSUME NEW by, NEW u \in Users, NEW amount \in Amounts, PoolStake(by, u, amount)
      PROVE  PoolVault!Receive(u)
  <2>1. amount \in Nat \ {0}
    BY StakeLedgerAssumption
  <2>2. /\ stakedBalance' = [stakedBalance EXCEPT ![u] = stakedBalance[u] + amount]
        /\ Covers(token, u, amount) /\ token' = Moved(token, u, Pool, amount)
    BY <1>3 DEF PoolStake, BalanceAfterStake
  <2>3. token'[Pool] = token[Pool] + amount /\ token[Pool] \in Nat
    BY <1>1, <2>1, <2>2, TokensMove
  <2> QED
    BY <1>1, <2>1, <2>2, <2>3
<1>4. ASSUME NEW by, NEW u \in Users, NEW amount \in Amounts, PoolUnstake(by, u, amount)
      PROVE  PoolVault!Pay(u)
  <2>1. amount \in Nat \ {0}
    BY StakeLedgerAssumption
  <2>2. /\ stakedBalance' = [stakedBalance EXCEPT ![u] = stakedBalance[u] - amount]
        /\ Covers(token, Pool, amount) /\ token' = Moved(token, Pool, u, amount)
        /\ stakedBalance[u] >= amount
    BY <1>4 DEF PoolUnstake
  <2>3. token'[Pool] = token[Pool] - amount /\ token[Pool] \in Nat
    BY <1>1, <2>1, <2>2, TokensMove
  <2> QED
    BY <1>1, <2>1, <2>2, <2>3
<1>5. ASSUME NEW by, PoolSettingNext(by) PROVE UNCHANGED <<stakedBalance, token>>
  BY <1>5
  DEF PoolSettingNext, PoolSetOperator, PoolSetAdmin, SetLockPeriod, PoolPause, PoolUnpause,
      poolStakes
<1>6. CASE PoolTick \/ UNCHANGED PoolState
  <2>1. UNCHANGED <<stakedBalance, token>>
    BY <1>6 DEF PoolTick, PoolState, poolVars, poolStakes
  <2> QED
    BY <1>2, <2>1
<1>7. CASE \E by \in PoolSigners : PoolStakeNext(by) \/ PoolSettingNext(by)
  <2>1. PICK by \in PoolSigners : PoolStakeNext(by) \/ PoolSettingNext(by)
    BY <1>7
  <2>2. CASE PoolStakeNext(by)
    BY <1>3, <1>4, <2>2 DEF PoolStakeNext
  <2> QED
    BY <1>2, <1>5, <2>1, <2>2
<1> QED
  BY <1>6, <1>7 DEF PoolNext

\* A new pool is an empty vault.
LEMMA PoolVaultStart ==
    ASSUME PoolInit, now = 0
    PROVE  PoolVault!VaultInit
BY PoolStart DEF PoolInv, PoolTypeOK, StakesBacked, PoolVault!VaultInit

\* staking_pool implements CustodyVault: each step is a receipt or a payment for
\* one staker, of exactly what the token account moves by, or leaves both alone.
THEOREM PoolKeepsCustody == PoolSpec => PoolImplementsVault
<1>1. PoolInit /\ now = 0 => PoolInv /\ PoolVault!VaultInit
  BY PoolStart, PoolVaultStart
<1>2. PoolInv /\ [PoolNext]_PoolState => PoolInv'
  BY PoolKeeps
<1>3. PoolInv /\ [PoolNext]_PoolState => [PoolVault!VaultNext]_(PoolVault!vaultVars)
  BY PoolMoves
<1> QED
  BY <1>1, <1>2, <1>3, PTL DEF PoolSpec, PoolState, PoolImplementsVault, PoolVault!VaultSpec

-----------------------------------------------------------------------------
\* Rounding: a share is never more than its exact value, and loses less than a
\* unit of it.  A longer time earns no less.
LEMMA ShareRounds ==
    ASSUME NEW s \in Nat, NEW d \in Nat
    PROVE  /\ Share(s, d) \in Nat
           /\ Share(s, d) * SCALE <= s * d
           /\ s * d < Share(s, d) * SCALE + SCALE
           /\ Share(s, 0) = 0
<1>1. SCALE \in Nat /\ SCALE > 0
  BY StakeLedgerAssumption
<1> DEFINE p == s * d
<1>2. p \in Nat
  OBVIOUS
<1>3. Share(s, 0) = 0
  <2>1. s * 0 = 0 /\ 0 \div SCALE = 0
    BY <1>1
  <2> QED
    BY <2>1 DEF Share
<1> HIDE DEF p
<1>4. /\ p \div SCALE \in Nat
      /\ (p \div SCALE) * SCALE <= p /\ p < (p \div SCALE) * SCALE + SCALE
  BY <1>1, <1>2
<1>5. Share(s, d) = p \div SCALE
  BY DEF Share, p
<1>6. /\ Share(s, d) \in Nat
      /\ Share(s, d) * SCALE <= p /\ p < Share(s, d) * SCALE + SCALE
  BY <1>4, <1>5
<1>7. p = s * d
  BY DEF p
<1> QED
  BY <1>3, <1>6, <1>7

\* An index that has not grown earns nothing.
LEMMA NothingShared == ASSUME NEW s \in Nat PROVE Share(s, 0) = 0
  BY ShareRounds

\* A bound on scaled amounts, less than one unit off, bounds the amounts.
LEMMA Unscaled ==
    ASSUME NEW a \in Int, NEW b \in Int, a * SCALE < b * SCALE + SCALE
    PROVE  a <= b
<1>1. SCALE \in Nat /\ SCALE > 0
  BY StakeLedgerAssumption
<1>2. ASSUME a >= b + 1 PROVE FALSE
  <2>1. a * SCALE >= (b + 1) * SCALE
    BY <1>1, <1>2
  <2>2. (b + 1) * SCALE = b * SCALE + SCALE
    BY <1>1
  <2>3. a * SCALE \in Int /\ b * SCALE \in Int
    BY <1>1
  <2> QED
    BY <1>1, <2>1, <2>2, <2>3
<1> QED
  BY <1>2

\* A later index earns no less.
LEMMA ShareGrows ==
    ASSUME NEW s \in Nat, NEW d \in Nat, NEW e \in Nat, d <= e
    PROVE  Share(s, d) <= Share(s, e)
<1>1. s * d <= s * e /\ s * d \in Int /\ s * e \in Int
  OBVIOUS
<1>2. /\ Share(s, d) \in Nat /\ Share(s, e) \in Nat
      /\ Share(s, d) * SCALE <= s * d /\ s * e < Share(s, e) * SCALE + SCALE
  <2>1. Share(s, d) \in Nat /\ Share(s, d) * SCALE <= s * d
    BY ShareRounds
  <2>2. Share(s, e) \in Nat /\ s * e < Share(s, e) * SCALE + SCALE
    BY ShareRounds
  <2> QED
    BY <2>1, <2>2
<1>3. /\ Share(s, d) * SCALE \in Int /\ Share(s, e) * SCALE + SCALE \in Int
  BY <1>2, StakeLedgerAssumption
<1> QED
  BY <1>1, <1>2, <1>3, Unscaled

\* What an account is owed, scaled: what is booked, and the exact share of its
\* stake in the growth of the index.
Owed(booked, stake, growth) == booked * SCALE + stake * growth

\* Booking the rounded share owes no more than before.
LEMMA OwedWhenSettled ==
    ASSUME NEW c \in Nat, NEW s \in Nat, NEW d \in Nat, NEW t \in Nat
    PROVE  /\ Owed(c, s, d) \in Nat
           /\ Owed(c + Share(s, d), t, 0) <= Owed(c, s, d)
           /\ (c + Share(s, d)) * SCALE <= Owed(c, s, d)
           /\ Owed(0, t, 0) = 0
<1>1. SCALE \in Nat /\ SCALE > 0
  BY StakeLedgerAssumption
<1>2. Share(s, d) \in Nat /\ Share(s, d) * SCALE <= s * d
  BY ShareRounds
<1>3. (c + Share(s, d)) * SCALE = c * SCALE + Share(s, d) * SCALE
  BY <1>1, <1>2
<1>4. t * 0 = 0 /\ c * SCALE \in Nat /\ s * d \in Nat /\ Share(s, d) * SCALE \in Nat
  BY <1>1, <1>2
<1>6. Owed(c, s, d) \in Nat /\ Owed(0, t, 0) = 0
  <2>1. Owed(c, s, d) \in Nat
    BY <1>4 DEF Owed
  <2>2. Owed(0, t, 0) = 0
    BY <1>1, <1>4 DEF Owed
  <2> QED
    BY <2>1, <2>2
<1>5. Owed(c + Share(s, d), t, 0) = c * SCALE + Share(s, d) * SCALE
  BY <1>3, <1>4 DEF Owed
<1>7. c * SCALE + Share(s, d) * SCALE <= c * SCALE + s * d
  BY <1>2, <1>4
<1> QED
  BY <1>3, <1>5, <1>6, <1>7 DEF Owed

\* A growth of the index by k adds k per unit of the stake.
LEMMA OwedLater ==
    ASSUME NEW c \in Nat, NEW s \in Nat, NEW d \in Nat, NEW k \in Nat
    PROVE  Owed(c, s, d + k) = Owed(c, s, d) + k * s
<1>1. s * (d + k) = s * d + k * s /\ k * s \in Int /\ s * d \in Int
  OBVIOUS
<1>2. c * SCALE \in Int
  BY StakeLedgerAssumption
<1> QED
  BY <1>1, <1>2 DEF Owed

\* One account is owed less, by what it is paid at least: so are all together.
LEMMA OwedFalls ==
    ASSUME NEW f, NEW g, \A v \in Users : f[v] \in Nat /\ g[v] \in Nat,
           NEW u \in Users, \A v \in Users : v # u => g[v] = f[v],
           NEW x \in Int, g[u] + x <= f[u]
    PROVE  SumOf(g) + x <= SumOf(f) /\ SumOf(g) \in Nat /\ SumOf(f) \in Nat /\ f[u] <= SumOf(f)
<1>1. /\ IsFiniteSet(Users) /\ \A v \in Users : f[v] \in Int /\ g[v] \in Int
      /\ g[u] \in Int /\ \A v \in Users : v # u => g[v] = f[v]
  BY StakeLedgerAssumption
<1>2. SumFunctionOnSet(g, Users) = SumFunctionOnSet(f, Users) - f[u] + g[u]
  BY <1>1, SumOfChange
<1>3. SumOf(g) \in Nat /\ SumOf(f) \in Nat /\ f[u] <= SumOf(f)
  BY <1>1, SumIsNat DEF SumOf
<1>4. SumOf(g) = SumOf(f) - f[u] + g[u]
  BY <1>2 DEF SumOf
<1> QED
  BY <1>1, <1>3, <1>4

-----------------------------------------------------------------------------
\* mvp_staking_pool: what each staker is owed, scaled, and the inductive
\* invariant.  The rewards that lie in the pool cover what all are owed; that
\* is what the rounding of the index must never break.
MvpOwedBy == [u \in Users |-> Owed(claimable[u], mvpStaked[u], globalIndex - userIndex[u])]

\* What every entry point of mvp_staking_pool keeps.
MvpInv ==
    /\ MvpTypeOK
    /\ usedStake \in [Users -> Nat] /\ fundedLeft \in Nat
    /\ mvpTotal = SumOf(mvpStaked)
    /\ mvpToken[Pool] = mvpTotal + fundedLeft
    /\ SumOf(MvpOwedBy) <= fundedLeft * SCALE

\* mvp_staking_pool right after init.
LEMMA MvpStart ==
    ASSUME MvpInit
    PROVE  MvpInv
<1>1. SCALE \in Nat /\ Supply \in Nat /\ IsFiniteSet(Users) /\ Pool \notin Users \cup {Admin}
  BY StakeLedgerAssumption DEF Addresses
<1>2. MvpTypeOK /\ usedStake \in [Users -> Nat] /\ fundedLeft = 0
  <2>1. mvpToken \in [Addresses \cup {Pool} -> Nat]
    BY <1>1 DEF MvpInit, StartTokens
  <2>2. /\ mvpStaked \in [Users -> Nat] /\ usedStake \in [Users -> Nat]
        /\ claimable \in [Users -> Nat] /\ userIndex \in [Users -> 0..globalIndex]
        /\ \A u \in Users : usedStake[u] \in 0..mvpStaked[u]
    BY DEF MvpInit
  <2>3. mvpPaused \in BOOLEAN /\ mvpTotal \in Nat /\ globalIndex \in Nat /\ fundedLeft = 0
    BY DEF MvpInit
  <2> QED
    BY <2>1, <2>2, <2>3 DEF MvpTypeOK
<1>3. mvpTotal = 0 /\ mvpToken[Pool] = 0
  BY <1>1 DEF MvpInit, StartTokens
<1>4. SumOf(mvpStaked) = 0
  <2>1. \A u \in Users : mvpStaked[u] = 0
    BY DEF MvpInit
  <2> QED
    BY <1>1, <2>1, SumOfZeros DEF SumOf
<1>5. SumOf(MvpOwedBy) = 0
  <2>1. \A u \in Users : MvpOwedBy[u] = 0
    BY <1>1 DEF MvpInit, MvpOwedBy, Owed
  <2> QED
    BY <1>1, <2>1, SumOfZeros DEF SumOf
<1> QED
  BY <1>1, <1>2, <1>3, <1>4, <1>5 DEF MvpInv

\* The facts of one user that a step starts from.
LEMMA MvpUser ==
    ASSUME MvpInv, NEW u \in Users
    PROVE  /\ claimable[u] \in Nat /\ mvpStaked[u] \in Nat
           /\ globalIndex - userIndex[u] \in Nat /\ usedStake[u] \in Nat
           /\ usedStake[u] <= mvpStaked[u]
           /\ Accrued(u) \in Nat
           /\ MvpOwedBy[u] = Owed(claimable[u], mvpStaked[u], globalIndex - userIndex[u])
           /\ MvpOwedBy[u] \in Nat
           /\ Accrued(u) * SCALE <= MvpOwedBy[u]
<1>1. /\ claimable[u] \in Nat /\ mvpStaked[u] \in Nat
      /\ globalIndex - userIndex[u] \in Nat /\ usedStake[u] \in Nat
      /\ usedStake[u] <= mvpStaked[u]
  BY DEF MvpInv, MvpTypeOK
<1>2. MvpOwedBy[u] = Owed(claimable[u], mvpStaked[u], globalIndex - userIndex[u])
  BY DEF MvpOwedBy
<1>3. Share(mvpStaked[u], globalIndex - userIndex[u]) \in Nat
  BY <1>1, ShareRounds
<1>4. /\ Owed(claimable[u], mvpStaked[u], globalIndex - userIndex[u]) \in Nat
      /\ (claimable[u] + Share(mvpStaked[u], globalIndex - userIndex[u])) * SCALE
            <= Owed(claimable[u], mvpStaked[u], globalIndex - userIndex[u])
  BY <1>1, OwedWhenSettled
<1> QED
  BY <1>1, <1>2, <1>3, <1>4 DEF Accrued

\* A step that settles one user, changes that user's stake and pays out some of
\* the accrued rewards preserves the invariant, and the payment is covered.
LEMMA MvpSettles ==
    ASSUME MvpInv, NEW u \in Users, NEW left \in Nat, NEW pays \in Nat, NEW stake \in Nat,
           left + pays = Accrued(u), Settle(u, left),
           mvpStaked' = [mvpStaked EXCEPT ![u] = stake], globalIndex' = globalIndex,
           mvpTotal' = mvpTotal + stake - mvpStaked[u],
           fundedLeft' = fundedLeft - pays,
           mvpToken' \in [Addresses \cup {Pool} -> Nat],
           mvpToken'[Pool] = mvpToken[Pool] + stake - mvpStaked[u] - pays,
           mvpPaused' \in BOOLEAN, usedStake' \in [Users -> Nat],
           \A v \in Users : usedStake'[v] <= mvpStaked'[v]
    PROVE  MvpInv' /\ pays <= fundedLeft
<1>1. /\ claimable \in [Users -> Nat] /\ mvpStaked \in [Users -> Nat]
      /\ userIndex \in [Users -> 0..globalIndex] /\ globalIndex \in Nat
      /\ fundedLeft \in Nat /\ mvpTotal = SumOf(mvpStaked)
      /\ mvpToken[Pool] = mvpTotal + fundedLeft /\ mvpTotal \in Nat
      /\ SumOf(MvpOwedBy) <= fundedLeft * SCALE /\ SCALE \in Nat /\ SCALE > 0
  BY StakeLedgerAssumption DEF MvpInv, MvpTypeOK
<1>2. /\ claimable' = [claimable EXCEPT ![u] = left]
      /\ userIndex' = [userIndex EXCEPT ![u] = globalIndex]
  BY DEF Settle
<1> DEFINE g == [v \in Users |-> IF v = u THEN left * SCALE ELSE MvpOwedBy[v]]
<1>3. MvpOwedBy' = g
  <2>1. ASSUME NEW v \in Users
        PROVE  Owed(claimable'[v], mvpStaked'[v], globalIndex' - userIndex'[v]) = g[v]
    <3>1. CASE v = u
      <4>1. claimable'[v] = left /\ mvpStaked'[v] = stake /\ globalIndex' - userIndex'[v] = 0
        BY <1>1, <1>2, <3>1
      <4>2. Owed(left, stake, 0) = left * SCALE
        BY <1>1 DEF Owed
      <4> QED
        BY <3>1, <4>1, <4>2
    <3>2. CASE v # u
      BY <1>1, <1>2, <3>2 DEF MvpOwedBy
    <3> QED
      BY <3>1, <3>2
  <2>2. MvpOwedBy' = [v \in Users |-> Owed(claimable'[v], mvpStaked'[v], globalIndex' - userIndex'[v])]
    BY DEF MvpOwedBy, Owed
  <2> HIDE DEF g
  <2>3. MvpOwedBy' = [v \in Users |-> g[v]]
    BY <2>1, <2>2
  <2> QED
    BY <2>3 DEF g
<1>4. /\ \A v \in Users : MvpOwedBy[v] \in Nat /\ g[v] \in Nat
      /\ \A v \in Users : v # u => g[v] = MvpOwedBy[v]
      /\ pays * SCALE \in Int
      /\ g[u] + pays * SCALE <= MvpOwedBy[u]
  <2>1. (left + pays) * SCALE <= MvpOwedBy[u]
    BY MvpUser
  <2>2. (left + pays) * SCALE = left * SCALE + pays * SCALE /\ left * SCALE \in Nat
        /\ pays * SCALE \in Int
    BY <1>1
  <2>3. \A v \in Users : MvpOwedBy[v] \in Nat
    BY MvpUser
  <2> QED
    BY <2>1, <2>2, <2>3
<1> HIDE DEF g
<1>5. /\ SumOf(g) + pays * SCALE <= SumOf(MvpOwedBy)
      /\ SumOf(g) \in Nat /\ SumOf(MvpOwedBy) \in Nat
  <2> DEFINE f == MvpOwedBy
  <2>1. /\ \A v \in Users : f[v] \in Nat /\ g[v] \in Nat
        /\ \A v \in Users : v # u => g[v] = f[v]
        /\ g[u] + pays * SCALE <= f[u]
    BY <1>4
  <2> HIDE DEF f
  <2>2. SumOf(g) + pays * SCALE <= SumOf(f) /\ SumOf(g) \in Nat /\ SumOf(f) \in Nat
    BY <1>4, <2>1, OwedFalls
  <2> QED
    BY <2>2 DEF f
<1>6. pays * SCALE <= fundedLeft * SCALE /\ SumOf(g) <= (fundedLeft - pays) * SCALE
  <2>1. /\ fundedLeft * SCALE \in Int /\ pays * SCALE \in Int
        /\ (fundedLeft - pays) * SCALE = fundedLeft * SCALE - pays * SCALE
    BY <1>1
  <2> QED
    BY <1>1, <1>5, <2>1
<1>7. pays <= fundedLeft
  <2>1. fundedLeft * SCALE \in Int /\ pays * SCALE \in Int
    BY <1>1
  <2>2. pays * SCALE < fundedLeft * SCALE + SCALE
    BY <1>1, <1>6, <2>1
  <2> QED
    BY <1>1, <2>2, Unscaled
<1>8. SumOf(MvpOwedBy)' <= fundedLeft' * SCALE
  <2>1. SumOf(MvpOwedBy)' = SumOf(g)
    BY <1>3 DEF SumOf
  <2> QED
    BY <1>6, <2>1
<1>9. mvpTotal' = SumOf(mvpStaked)' /\ mvpTotal' \in Nat
  <2>1. /\ SumOf([mvpStaked EXCEPT ![u] = stake]) = SumOf(mvpStaked) - mvpStaked[u] + stake
        /\ mvpStaked[u] <= SumOf(mvpStaked)
    BY <1>1, SumAfterChange
  <2>2. SumOf(mvpStaked)' = SumOf([mvpStaked EXCEPT ![u] = stake])
    BY DEF SumOf
  <2> QED
    BY <1>1, <2>1, <2>2
<1>10. fundedLeft' \in Nat /\ mvpToken'[Pool] = mvpTotal' + fundedLeft'
  <2>1. mvpStaked[u] \in Nat
    BY <1>1
  <2> QED
    BY <1>1, <1>7, <2>1
<1>11. MvpTypeOK'
  <2>1. /\ mvpStaked' \in [Users -> Nat] /\ claimable' \in [Users -> Nat]
        /\ userIndex' \in [Users -> 0..globalIndex'] /\ globalIndex' \in Nat
    BY <1>1, <1>2
  <2>2. \A v \in Users : usedStake'[v] \in 0..mvpStaked'[v]
    BY <2>1
  <2> QED
    BY <1>9, <2>1, <2>2 DEF MvpTypeOK
<1> QED
  BY <1>7, <1>8, <1>9, <1>10, <1>11 DEF MvpInv

\* What each step that settles a user does, in the terms of MvpSettles.
MvpUserStep(u, stake, pays) ==
    /\ MvpInv'
    /\ mvpToken'[Pool] = mvpToken[Pool] + stake - mvpStaked[u] - pays
    /\ mvpStaked' = [mvpStaked EXCEPT ![u] = stake]
    /\ fundedLeft' = fundedLeft - pays

\* stake: the debts grow by nothing, the user's stake by the amount.
LEMMA MvpStakeKeeps ==
    ASSUME MvpInv, NEW u \in Users, NEW amount \in Amounts, MvpStake(u, amount)
    PROVE  MvpUserStep(u, mvpStaked[u] + amount, 0)
<1>1. /\ amount \in Nat /\ u \in Users \cup {Admin} /\ mvpStaked[u] \in Nat
      /\ Accrued(u) \in Nat
  BY StakeLedgerAssumption, MvpUser
<1>2. /\ mvpToken \in [Addresses \cup {Pool} -> Nat] /\ mvpStaked \in [Users -> Nat]
      /\ mvpPaused \in BOOLEAN /\ usedStake \in [Users -> Nat] /\ mvpTotal \in Nat
      /\ \A v \in Users : usedStake[v] <= mvpStaked[v]
      /\ fundedLeft \in Nat
  BY MvpUser DEF MvpInv, MvpTypeOK
<1>3. /\ Settle(u, Accrued(u)) /\ mvpStaked' = [mvpStaked EXCEPT ![u] = mvpStaked[u] + amount]
      /\ mvpTotal' = mvpTotal + amount
      /\ Covers(mvpToken, u, amount) /\ mvpToken' = Moved(mvpToken, u, Pool, amount)
      /\ mvpPaused' = mvpPaused /\ globalIndex' = globalIndex /\ fundedLeft' = fundedLeft
      /\ usedStake' = usedStake
  BY DEF MvpStake, mvpRewards
<1>4. /\ mvpToken' \in [Addresses \cup {Pool} -> Nat]
      /\ mvpToken'[Pool] = mvpToken[Pool] + amount /\ mvpToken[Pool] \in Nat
  BY <1>1, <1>2, <1>3, TokensMove
<1> DEFINE stake == mvpStaked[u] + amount
<1>5. /\ stake \in Nat /\ mvpTotal' = mvpTotal + stake - mvpStaked[u]
      /\ mvpToken'[Pool] = mvpToken[Pool] + stake - mvpStaked[u] - 0
      /\ fundedLeft' = fundedLeft - 0 /\ Accrued(u) + 0 = Accrued(u)
  BY <1>1, <1>2, <1>3, <1>4
<1>6. \A v \in Users : usedStake'[v] <= mvpStaked'[v]
  BY <1>1, <1>2, <1>3
<1> HIDE DEF stake
<1>7. mvpStaked' = [mvpStaked EXCEPT ![u] = stake]
  BY <1>3 DEF stake
<1>8. MvpInv'
  BY <1>1, <1>2, <1>3, <1>4, <1>5, <1>6, <1>7, MvpSettles
<1> QED
  BY <1>5, <1>7, <1>8 DEF MvpUserStep, stake

\* unstake: nothing the company has in use leaves.
LEMMA MvpUnstakeKeeps ==
    ASSUME MvpInv, NEW u \in Users, NEW amount \in Amounts, MvpUnstake(u, amount)
    PROVE  MvpUserStep(u, mvpStaked[u] - amount, 0) /\ amount <= mvpStaked[u]
<1>1. /\ amount \in Nat /\ u \in Users \cup {Admin} /\ mvpStaked[u] \in Nat
      /\ usedStake[u] \in Nat /\ Accrued(u) \in Nat
  BY StakeLedgerAssumption, MvpUser
<1>2. /\ mvpToken \in [Addresses \cup {Pool} -> Nat] /\ mvpStaked \in [Users -> Nat]
      /\ mvpPaused \in BOOLEAN /\ usedStake \in [Users -> Nat] /\ mvpTotal \in Nat
      /\ \A v \in Users : usedStake[v] <= mvpStaked[v]
      /\ fundedLeft \in Nat
  BY MvpUser DEF MvpInv, MvpTypeOK
<1>3. /\ Settle(u, Accrued(u)) /\ mvpStaked' = [mvpStaked EXCEPT ![u] = mvpStaked[u] - amount]
      /\ mvpTotal' = mvpTotal - amount /\ amount <= mvpStaked[u] - usedStake[u]
      /\ Covers(mvpToken, Pool, amount) /\ mvpToken' = Moved(mvpToken, Pool, u, amount)
      /\ mvpPaused' = mvpPaused /\ globalIndex' = globalIndex /\ fundedLeft' = fundedLeft
      /\ usedStake' = usedStake
  BY DEF MvpUnstake, mvpRewards, Unused
<1>4. /\ mvpToken' \in [Addresses \cup {Pool} -> Nat]
      /\ mvpToken'[Pool] = mvpToken[Pool] - amount /\ mvpToken[Pool] \in Nat
  BY <1>1, <1>2, <1>3, TokensMove
<1> DEFINE stake == mvpStaked[u] - amount
<1>5. /\ stake \in Nat /\ mvpTotal' = mvpTotal + stake - mvpStaked[u]
      /\ mvpToken'[Pool] = mvpToken[Pool] + stake - mvpStaked[u] - 0
      /\ fundedLeft' = fundedLeft - 0 /\ Accrued(u) + 0 = Accrued(u)
      /\ amount <= mvpStaked[u]
  BY <1>1, <1>2, <1>3, <1>4
<1>6. \A v \in Users : usedStake'[v] <= mvpStaked'[v]
  BY <1>1, <1>2, <1>3
<1> HIDE DEF stake
<1>7. mvpStaked' = [mvpStaked EXCEPT ![u] = stake]
  BY <1>3 DEF stake
<1>8. MvpInv'
  BY <1>1, <1>2, <1>3, <1>4, <1>5, <1>6, <1>7, MvpSettles
<1> QED
  BY <1>5, <1>7, <1>8 DEF MvpUserStep, stake

\* A claim, and steps that settle a user and leave the stake as it is.
LEMMA MvpSettleKeeps ==
    ASSUME MvpInv, NEW u \in Users,
           MvpClaim(u) \/ QueryClaimable(u)
             \/ \E by \in Addresses, amount \in Amounts : UtilizeStake(by, u, amount)
    PROVE  \E pays \in Nat : MvpUserStep(u, mvpStaked[u], pays)
<1>1. /\ u \in Users \cup {Admin} /\ mvpStaked[u] \in Nat
      /\ usedStake[u] \in Nat /\ Accrued(u) \in Nat
  BY StakeLedgerAssumption, MvpUser
<1>2. /\ mvpToken \in [Addresses \cup {Pool} -> Nat] /\ mvpStaked \in [Users -> Nat]
      /\ mvpPaused \in BOOLEAN /\ usedStake \in [Users -> Nat] /\ mvpTotal \in Nat
      /\ \A v \in Users : usedStake[v] <= mvpStaked[v]
      /\ fundedLeft \in Nat /\ mvpToken[Pool] \in Nat
  BY MvpUser DEF MvpInv, MvpTypeOK
<1>3. /\ mvpStaked' = [mvpStaked EXCEPT ![u] = mvpStaked[u]]
      /\ mvpTotal' = mvpTotal + mvpStaked[u] - mvpStaked[u]
      /\ mvpPaused' \in BOOLEAN /\ globalIndex' = globalIndex
  BY <1>1, <1>2 DEF MvpClaim, QueryClaimable, UtilizeStake, mvpRewards
<1>4. CASE MvpClaim(u)
  <2>1. /\ Settle(u, 0) /\ fundedLeft' = fundedLeft - Accrued(u) /\ usedStake' = usedStake
        /\ Covers(mvpToken, Pool, Accrued(u)) /\ mvpToken' = Moved(mvpToken, Pool, u, Accrued(u))
    BY <1>4 DEF MvpClaim
  <2>2. /\ mvpToken' \in [Addresses \cup {Pool} -> Nat]
        /\ mvpToken'[Pool] = mvpToken[Pool] - Accrued(u)
    BY <1>1, <1>2, <2>1, TokensMove
  <2>3. /\ mvpToken'[Pool] = mvpToken[Pool] + mvpStaked[u] - mvpStaked[u] - Accrued(u)
        /\ 0 + Accrued(u) = Accrued(u)
        /\ usedStake' \in [Users -> Nat] /\ \A v \in Users : usedStake'[v] <= mvpStaked'[v]
    BY <1>1, <1>2, <1>3, <2>1, <2>2
  <2>4. MvpInv'
    BY <1>1, <1>3, <2>1, <2>2, <2>3, MvpSettles
  <2>5. MvpUserStep(u, mvpStaked[u], Accrued(u))
    BY <1>3, <2>1, <2>3, <2>4 DEF MvpUserStep
  <2> QED
    BY <1>1, <2>5
<1>5. CASE QueryClaimable(u) \/ \E by \in Addresses, amount \in Amounts : UtilizeStake(by, u, amount)
  <2>1. Settle(u, Accrued(u)) /\ fundedLeft' = fundedLeft /\ mvpToken' = mvpToken
    BY <1>5 DEF QueryClaimable, UtilizeStake, mvpRewards
  <2>2. usedStake' \in [Users -> Nat] /\ \A v \in Users : usedStake'[v] <= mvpStaked'[v]
    <3>1. CASE QueryClaimable(u)
      BY <1>1, <1>2, <1>3, <3>1 DEF QueryClaimable
    <3>2. ASSUME NEW by \in Addresses, NEW amount \in Amounts, UtilizeStake(by, u, amount)
          PROVE  usedStake' \in [Users -> Nat] /\ \A v \in Users : usedStake'[v] <= mvpStaked'[v]
      <4>1. amount \in Nat /\ amount <= mvpStaked[u] - usedStake[u]
            /\ usedStake' = [usedStake EXCEPT ![u] = usedStake[u] + amount]
        BY <3>2, StakeLedgerAssumption DEF UtilizeStake, Unused
      <4> QED
        BY <1>1, <1>2, <1>3, <4>1
    <3> QED
      BY <1>5, <3>1, <3>2
  <2>3. /\ mvpToken'[Pool] = mvpToken[Pool] + mvpStaked[u] - mvpStaked[u] - 0
        /\ Accrued(u) + 0 = Accrued(u) /\ fundedLeft' = fundedLeft - 0
        /\ mvpToken' \in [Addresses \cup {Pool} -> Nat]
    BY <1>1, <1>2, <2>1
  <2>4. MvpInv'
    BY <1>1, <1>3, <2>1, <2>2, <2>3, MvpSettles
  <2>5. MvpUserStep(u, mvpStaked[u], 0)
    BY <1>3, <2>3, <2>4 DEF MvpUserStep
  <2> QED
    BY <2>5
<1> QED
  BY <1>4, <1>5

\* Whatever growth of the index is spread over a total, at the share of one unit
\* rounded down, all stakes together earn no more than the amount.
LEMMA IncrementCovered ==
    ASSUME NEW amount \in Nat, NEW total \in Nat, total > 0
    PROVE  /\ (amount * SCALE) \div total \in Nat
           /\ ((amount * SCALE) \div total) * total <= amount * SCALE
<1>1. SCALE \in Nat
  BY StakeLedgerAssumption
<1> DEFINE p == amount * SCALE
<1>2. p \in Nat
  BY <1>1
<1> HIDE DEF p
<1>3. p \div total \in Nat /\ (p \div total) * total <= p
  BY <1>2
<1> QED
  BY <1>3 DEF p

\* When the index grows, all are owed more by their stakes times the growth.
LEMMA OwedGrows ==
    ASSUME NEW f, NEW g, NEW h, NEW k \in Nat,
           \A u \in Users : f[u] \in Nat /\ g[u] \in Nat /\ h[u] = f[u] + k * g[u]
    PROVE  SumOf(h) = SumOf(f) + k * SumOf(g)
<1>1. IsFiniteSet(Users) /\ k \in Int
      /\ \A u \in Users : f[u] \in Int /\ g[u] \in Int /\ h[u] = f[u] + k * g[u]
  BY StakeLedgerAssumption
<1> QED
  BY <1>1, SumIsLinear DEF SumOf

\* fund_rewards: the debts grow by no more than the funding.
LEMMA MvpFundKeeps ==
    ASSUME MvpInv, NEW from, NEW amount \in Amounts, MvpFundRewards(from, amount)
    PROVE  /\ MvpInv' /\ mvpToken'[Pool] = mvpToken[Pool] + amount
           /\ fundedLeft' = fundedLeft + amount /\ mvpStaked' = mvpStaked
<1>1. amount \in Nat /\ Admin \in Users \cup {Admin} /\ SCALE \in Nat
  BY StakeLedgerAssumption
<1>2. /\ mvpToken \in [Addresses \cup {Pool} -> Nat] /\ mvpStaked \in [Users -> Nat]
      /\ mvpTotal \in Nat /\ mvpTotal = SumOf(mvpStaked) /\ fundedLeft \in Nat
      /\ globalIndex \in Nat /\ SumOf(MvpOwedBy) <= fundedLeft * SCALE
      /\ mvpToken[Pool] = mvpTotal + fundedLeft
  BY DEF MvpInv, MvpTypeOK
<1> DEFINE inc == Increment(amount)
           h == MvpOwedBy'
           f == MvpOwedBy
<1>3. /\ mvpTotal > 0 /\ Covers(mvpToken, Admin, amount)
      /\ mvpToken' = Moved(mvpToken, Admin, Pool, amount)
      /\ globalIndex' = globalIndex + inc /\ fundedLeft' = fundedLeft + amount
      /\ mvpPaused' = mvpPaused /\ UNCHANGED mvpStakes
  BY DEF MvpFundRewards
<1>4. inc \in Nat /\ inc * mvpTotal <= amount * SCALE
  BY <1>1, <1>2, <1>3, IncrementCovered DEF Increment
<1> HIDE DEF inc
<1>5. mvpToken' \in [Addresses \cup {Pool} -> Nat] /\ mvpToken'[Pool] = mvpToken[Pool] + amount
  <2>1. /\ Moved(mvpToken, Admin, Pool, amount) \in [Addresses \cup {Pool} -> Nat]
        /\ Moved(mvpToken, Admin, Pool, amount)[Pool] = mvpToken[Pool] + amount
    BY <1>1, <1>2, <1>3, TokensMove
  <2> QED
    BY <1>3, <2>1
<1>6. \A u \in Users : f[u] \in Nat /\ mvpStaked[u] \in Nat /\ h[u] = f[u] + inc * mvpStaked[u]
  <2> SUFFICES ASSUME NEW u \in Users
               PROVE  f[u] \in Nat /\ mvpStaked[u] \in Nat /\ h[u] = f[u] + inc * mvpStaked[u]
    OBVIOUS
  <2> DEFINE d == globalIndex - userIndex[u]
  <2>1. /\ claimable[u] \in Nat /\ mvpStaked[u] \in Nat /\ d \in Nat
        /\ MvpOwedBy[u] = Owed(claimable[u], mvpStaked[u], d) /\ MvpOwedBy[u] \in Nat
    BY MvpUser
  <2>2. h[u] = Owed(claimable[u], mvpStaked[u], d + inc)
    <3>1. userIndex[u] \in Int
      BY DEF MvpInv, MvpTypeOK
    <3>2. /\ claimable' = claimable /\ mvpStaked' = mvpStaked /\ userIndex' = userIndex
          /\ globalIndex' = globalIndex + inc
      BY <1>3 DEF mvpStakes
    <3>3. h[u] = Owed(claimable'[u], mvpStaked'[u], globalIndex' - userIndex'[u])
      BY DEF MvpOwedBy, Owed
    <3> HIDE DEF h
    <3>4. /\ claimable'[u] = claimable[u] /\ mvpStaked'[u] = mvpStaked[u]
          /\ globalIndex' - userIndex'[u] = d + inc
      BY <1>2, <1>4, <3>1, <3>2
    <3> QED
      BY <3>3, <3>4
  <2> HIDE DEF d
  <2>3. Owed(claimable[u], mvpStaked[u], d + inc)
          = Owed(claimable[u], mvpStaked[u], d) + inc * mvpStaked[u]
    BY <1>4, <2>1, OwedLater
  <2> QED
    BY <2>1, <2>2, <2>3
<1>7. SumOf(MvpOwedBy)' = SumOf(MvpOwedBy) + inc * mvpTotal /\ SumOf(MvpOwedBy) \in Int
  <2>1. SumOf(MvpOwedBy)' = SumOf(h)
    BY DEF SumOf
  <2> HIDE DEF h, f
  <2>2. SumOf(h) = SumOf(f) + inc * SumOf(mvpStaked)
    BY <1>4, <1>6, OwedGrows
  <2>3. SumOf(f) \in Int
    BY <1>6, StakeLedgerAssumption, SumIsNat DEF SumOf
  <2> QED
    BY <1>2, <2>1, <2>2, <2>3 DEF f
<1>8. SumOf(MvpOwedBy)' <= fundedLeft' * SCALE
  <2>1. /\ fundedLeft' * SCALE = fundedLeft * SCALE + amount * SCALE
        /\ fundedLeft * SCALE \in Int /\ amount * SCALE \in Int /\ inc * mvpTotal \in Int
    BY <1>1, <1>2, <1>3, <1>4
  <2> QED
    BY <1>2, <1>4, <1>7, <2>1
<1>9. fundedLeft' \in Nat /\ mvpTotal' = SumOf(mvpStaked)' /\ mvpToken'[Pool] = mvpTotal' + fundedLeft'
  <2>1. mvpTotal' = mvpTotal /\ mvpStaked' = mvpStaked
    BY <1>3 DEF mvpStakes
  <2>2. SumOf(mvpStaked)' = SumOf(mvpStaked)
    BY <2>1 DEF SumOf
  <2>3. fundedLeft' \in Nat /\ mvpToken'[Pool] = mvpTotal + fundedLeft'
    BY <1>1, <1>2, <1>3, <1>5
  <2> QED
    BY <1>2, <2>1, <2>2, <2>3
<1>10. MvpTypeOK' /\ usedStake' \in [Users -> Nat] /\ mvpStaked' = mvpStaked
  <2>1. userIndex \in [Users -> 0..globalIndex'] /\ globalIndex' \in Nat
    <3>1. userIndex \in [Users -> 0..globalIndex]
      BY DEF MvpInv, MvpTypeOK
    <3> QED
      BY <1>2, <1>3, <1>4, <3>1
  <2>2. UNCHANGED <<mvpPaused, mvpTotal, mvpStaked, usedStake, userIndex, claimable>>
    BY <1>3 DEF mvpStakes
  <2> QED
    BY <1>5, <2>1, <2>2 DEF MvpInv, MvpTypeOK
<1> QED
  BY <1>3, <1>5, <1>8, <1>9, <1>10 DEF MvpInv

\* Pausing moves no money.
LEMMA MvpIdleKeeps ==
    ASSUME MvpInv, UNCHANGED mvpVars \/ \E by \in Addresses, flag \in BOOLEAN : MvpSetPaused(by, flag)
    PROVE  MvpInv' /\ UNCHANGED <<mvpToken, mvpStaked, fundedLeft>>
<1>1. UNCHANGED <<mvpToken, mvpRewards, mvpStakes>> /\ mvpPaused' \in BOOLEAN
  BY DEF MvpSetPaused, mvpVars, MvpInv, MvpTypeOK
<1>2. UNCHANGED <<mvpToken, mvpStaked, fundedLeft, mvpTotal, usedStake, userIndex, claimable, globalIndex>>
  BY <1>1 DEF mvpRewards, mvpStakes
<1>3. MvpOwedBy' = MvpOwedBy
  BY <1>2 DEF MvpOwedBy, Owed
<1>4. MvpTypeOK'
  BY <1>1, <1>2 DEF MvpInv, MvpTypeOK
<1> QED
  BY <1>2, <1>3, <1>4 DEF MvpInv, SumOf

\* Every entry point of mvp_staking_pool keeps the invariant.
LEMMA MvpKeeps ==
    ASSUME MvpInv, [MvpNext]_mvpVars
    PROVE  MvpInv'
<1>1. CASE UNCHANGED mvpVars \/ \E by \in Addresses, flag \in BOOLEAN : MvpSetPaused(by, flag)
  BY <1>1, MvpIdleKeeps
<1>2. CASE \E u \in Users :
             \/ MvpClaim(u) \/ QueryClaimable(u)
             \/ \E by \in Addresses, amount \in Amounts : UtilizeStake(by, u, amount)
  BY <1>2, MvpSettleKeeps DEF MvpUserStep
<1>3. CASE \E u \in Users, amount \in Amounts : MvpStake(u, amount) \/ MvpUnstake(u, amount)
  BY <1>3, MvpStakeKeeps, MvpUnstakeKeeps DEF MvpUserStep
<1>4. CASE \E by \in Addresses, amount \in Amounts : MvpFundRewards(by, amount)
  BY <1>4, MvpFundKeeps
<1> QED
  BY <1>1, <1>2, <1>3, <1>4 DEF MvpNext

\* A step of one user moves the user's entry of the book, or that of the rewards.
LEMMA MvpBookMoves ==
    ASSUME MvpInv, MvpInv', NEW u \in Users, NEW stake \in Nat, NEW pays \in Nat,
           MvpUserStep(u, stake, pays), stake = mvpStaked[u] \/ pays = 0
    PROVE  [MvpVault!VaultNext]_(MvpVault!vaultVars)
<1> USE DEF MvpVault!VaultNext, MvpVault!vaultVars, MvpVault!Receive, MvpVault!Pay,
            MvpVault!Moves
<1>1. /\ Pool \notin Users /\ u \in MvpAccounts /\ Pool \in MvpAccounts
  BY StakeLedgerAssumption DEF Addresses, MvpAccounts
<1>2. /\ mvpStaked \in [Users -> Nat] /\ fundedLeft \in Nat /\ fundedLeft' \in Nat
      /\ mvpToken[Pool] \in Nat
  BY DEF MvpInv, MvpTypeOK
<1>3. /\ mvpToken'[Pool] = mvpToken[Pool] + stake - mvpStaked[u] - pays
      /\ mvpStaked' = [mvpStaked EXCEPT ![u] = stake]
      /\ fundedLeft' = fundedLeft - pays
  BY DEF MvpUserStep
<1>4. CASE pays = 0
  <2>1. /\ MvpBook' = [MvpBook EXCEPT ![u] = stake] /\ MvpBook[u] = mvpStaked[u]
        /\ MvpBook'[u] = stake
    <3>1. fundedLeft' = fundedLeft
      BY <1>2, <1>3, <1>4
    <3> QED
      BY <1>1, <1>2, <1>3, <3>1 DEF MvpBook, MvpAccounts
  <2>2. mvpToken'[Pool] - mvpToken[Pool] = stake - mvpStaked[u] /\ mvpStaked[u] \in Nat
    BY <1>2, <1>3, <1>4
  <2>3. CASE stake > mvpStaked[u]
    <3>1. MvpVault!Receive(u)
      BY <2>1, <2>2, <2>3
    <3> QED
      BY <1>1, <3>1
  <2>4. CASE stake < mvpStaked[u]
    <3>1. MvpBook'[u] < MvpBook[u] /\ MvpBook'[u] >= 0
      BY <2>1, <2>2, <2>4
    <3>2. MvpVault!Pay(u)
      BY <2>1, <2>2, <3>1
    <3> QED
      BY <1>1, <3>2
  <2>5. CASE stake = mvpStaked[u]
    <3>1. mvpStaked' = mvpStaked
      BY <1>2, <1>3, <2>5
    <3>2. fundedLeft' = fundedLeft
      BY <1>2, <1>3, <1>4
    <3>3. mvpToken'[Pool] = mvpToken[Pool] + mvpStaked[u] - mvpStaked[u] - 0 /\ mvpStaked[u] \in Nat
      BY <1>2, <1>3, <1>4, <2>5
    <3>4. mvpToken'[Pool] = mvpToken[Pool]
      BY <1>2, <3>3
    <3> QED
      BY <3>1, <3>2, <3>4 DEF MvpBook
  <2> QED
    BY <2>2, <2>3, <2>4, <2>5
<1>5. CASE pays > 0 /\ stake = mvpStaked[u]
  <2>1. mvpStaked' = mvpStaked
    BY <1>2, <1>3, <1>5
  <2>2. /\ MvpBook' = [MvpBook EXCEPT ![Pool] = fundedLeft'] /\ MvpBook[Pool] = fundedLeft
        /\ MvpBook'[Pool] = fundedLeft'
    BY <1>1, <2>1 DEF MvpBook, MvpAccounts
  <2>3. /\ mvpToken'[Pool] - mvpToken[Pool] = fundedLeft' - fundedLeft
        /\ fundedLeft' < fundedLeft
    <3>1. mvpStaked[u] \in Nat
      BY <1>2
    <3> QED
      BY <1>2, <1>3, <1>5, <3>1
  <2>4. MvpBook'[Pool] < MvpBook[Pool] /\ MvpBook'[Pool] >= 0
    BY <1>2, <2>2, <2>3
  <2>5. MvpVault!Pay(Pool)
    BY <1>2, <2>2, <2>3, <2>4
  <2> QED
    BY <1>1, <2>5
<1> QED
  BY <1>4, <1>5

\* Every step of the pool is a step of a vault, or none.
LEMMA MvpMoves ==
    ASSUME MvpInv, [MvpNext]_mvpVars
    PROVE  [MvpVault!VaultNext]_(MvpVault!vaultVars)
<1>1. MvpInv'
  BY MvpKeeps
<1>2. CASE UNCHANGED mvpVars \/ \E by \in Addresses, flag \in BOOLEAN : MvpSetPaused(by, flag)
  <2>1. UNCHANGED <<mvpToken, mvpStaked, fundedLeft>>
    BY <1>2, MvpIdleKeeps
  <2> QED
    BY <2>1 DEF MvpBook, MvpVault!vaultVars
<1>3. ASSUME NEW u \in Users,
             \/ MvpClaim(u) \/ QueryClaimable(u)
             \/ \E by \in Addresses, amount \in Amounts : UtilizeStake(by, u, amount)
      PROVE  [MvpVault!VaultNext]_(MvpVault!vaultVars)
  <2>1. PICK pays \in Nat : MvpUserStep(u, mvpStaked[u], pays)
    BY <1>3, MvpSettleKeeps
  <2>2. mvpStaked[u] \in Nat
    BY MvpUser
  <2> QED
    BY <1>1, <2>1, <2>2, MvpBookMoves
<1>4. ASSUME NEW u \in Users, NEW amount \in Amounts, MvpStake(u, amount) \/ MvpUnstake(u, amount)
      PROVE  [MvpVault!VaultNext]_(MvpVault!vaultVars)
  <2>1. amount \in Nat /\ mvpStaked[u] \in Nat /\ 0 \in Nat
    BY StakeLedgerAssumption, MvpUser
  <2>2. CASE MvpStake(u, amount)
    <3>1. MvpUserStep(u, mvpStaked[u] + amount, 0) /\ mvpStaked[u] + amount \in Nat
      BY <2>1, <2>2, MvpStakeKeeps
    <3> QED
      BY <1>1, <2>1, <3>1, MvpBookMoves
  <2>3. CASE MvpUnstake(u, amount)
    <3>1. MvpUserStep(u, mvpStaked[u] - amount, 0) /\ mvpStaked[u] - amount \in Nat
      BY <2>1, <2>3, MvpUnstakeKeeps
    <3> QED
      BY <1>1, <2>1, <3>1, MvpBookMoves
  <2> QED
    BY <1>4, <2>2, <2>3
<1>5. ASSUME NEW by, NEW amount \in Amounts, MvpFundRewards(by, amount)
      PROVE  MvpVault!Receive(Pool) /\ Pool \in MvpAccounts
  <2>1. /\ mvpToken'[Pool] = mvpToken[Pool] + amount /\ mvpStaked' = mvpStaked
        /\ fundedLeft' = fundedLeft + amount
    BY <1>5, MvpFundKeeps
  <2>2. /\ Pool \in MvpAccounts /\ fundedLeft \in Nat /\ mvpToken[Pool] \in Nat
        /\ amount \in Nat \ {0}
    BY StakeLedgerAssumption DEF MvpAccounts, MvpInv, MvpTypeOK
  <2>3. /\ MvpBook' = [MvpBook EXCEPT ![Pool] = fundedLeft'] /\ MvpBook[Pool] = fundedLeft
        /\ MvpBook'[Pool] = fundedLeft'
    BY <2>1, <2>2 DEF MvpBook
  <2>4. /\ mvpToken'[Pool] - mvpToken[Pool] = fundedLeft' - fundedLeft
        /\ fundedLeft' > fundedLeft
    BY <2>1, <2>2
  <2> QED
    BY <2>2, <2>3, <2>4 DEF MvpVault!Receive, MvpVault!Moves
<1> QED
  BY <1>2, <1>3, <1>4, <1>5 DEF MvpNext, MvpVault!VaultNext

\* A new pool is an empty vault.
LEMMA MvpVaultStart ==
    ASSUME MvpInit
    PROVE  MvpVault!VaultInit
<1>1. /\ IsFiniteSet(MvpAccounts) /\ \A a \in MvpAccounts : MvpBook[a] = 0
  <2>1. IsFiniteSet(MvpAccounts)
    BY StakeLedgerAssumption, FS_AddElement DEF MvpAccounts
  <2>2. fundedLeft = 0 /\ \A u \in Users : mvpStaked[u] = 0
    BY DEF MvpInit
  <2> QED
    BY <2>1, <2>2 DEF MvpAccounts, MvpBook
<1>2. MvpTotalOf(MvpBook) = 0
  BY <1>1, SumOfZeros DEF MvpTotalOf
<1>3. mvpToken[Pool] = 0
  BY StakeLedgerAssumption DEF MvpInit, StartTokens, Addresses
<1>4. MvpBook \in [MvpAccounts -> Nat]
  BY <1>1 DEF MvpBook
<1> QED
  BY <1>2, <1>3, <1>4 DEF MvpVault!VaultInit

\* mvp_staking_pool implements CustodyVault: stakes and rewards lie in one token
\* account, and whatever the rounding of the index, a claim is paid out of the
\* rewards that were funded and not claimed yet, never out of a stake.
THEOREM MvpKeepsCustody == MvpSpec => MvpImplementsVault
<1>1. MvpInit => MvpInv /\ MvpVault!VaultInit
  BY MvpStart, MvpVaultStart
<1>2. MvpInv /\ [MvpNext]_<<now, mvpVars>> => MvpInv'
  BY MvpKeeps
<1>3. MvpInv /\ [MvpNext]_<<now, mvpVars>> => [MvpVault!VaultNext]_(MvpVault!vaultVars)
  BY MvpMoves
<1> QED
  BY <1>1, <1>2, <1>3, PTL DEF MvpSpec, MvpImplementsVault, MvpVault!VaultSpec

-----------------------------------------------------------------------------
\* If each account's amount is covered by what it is owed, so are all together.
LEMMA AllCovered ==
    ASSUME NEW f, NEW g, \A u \in Users : f[u] \in Nat /\ g[u] \in Nat /\ f[u] * SCALE <= g[u]
    PROVE  SumOf(f) \in Nat /\ SumOf(g) \in Nat /\ SumOf(f) * SCALE <= SumOf(g)
<1>1. IsFiniteSet(Users) /\ SCALE \in Nat
  BY StakeLedgerAssumption
<1> QED
  BY <1>1, SumScaled DEF SumOf

\* staking_rewards: what each staker is owed, scaled, counting what was paid,
\* and the inductive invariant.
StakeAmounts == [u \in Users |-> stakes[u].amount]

\* What each has had and is owed.
RewardsOwedBy ==
    [u \in Users |-> Owed(paid[u] + stakes[u].pending_amount, stakes[u].amount,
                          rewardIndex - stakes[u].user_index)]

\* What every entry point of staking_rewards keeps.
RewardsInv ==
    /\ RewardsTypeOK
    /\ rewardsStaked = SumOf(StakeAmounts)
    /\ SumOf(RewardsOwedBy) + pendingDust * SCALE <= (totalFunded + fundings) * SCALE

\* staking_rewards right after init.
LEMMA RewardsStart ==
    ASSUME RewardsInit
    PROVE  RewardsInv
<1>1. SCALE \in Nat /\ IsFiniteSet(Users) /\ Admin \in Admins
  BY StakeLedgerAssumption
<1>2. RewardsTypeOK
  <2>1. /\ rewardsAdmin \in Admins /\ rewardsOperator \in Admins \cup {None}
        /\ rewardsPaused \in BOOLEAN /\ rewardIndex \in Nat /\ rewardsStaked \in Nat
        /\ pendingDust \in Nat /\ totalFunded \in Nat /\ fundings \in Nat
    BY <1>1 DEF RewardsInit
  <2>2. /\ paid \in [Users -> Nat] /\ stakes \in [Users -> UserStakeEntries]
        /\ \A u \in Users : stakes[u].user_index <= rewardIndex
    BY DEF RewardsInit, UserStakeEntries
  <2> QED
    BY <2>1, <2>2 DEF RewardsTypeOK
<1>3. SumOf(StakeAmounts) = 0
  <2>1. \A u \in Users : StakeAmounts[u] = 0
    BY DEF RewardsInit, StakeAmounts
  <2> QED
    BY <1>1, <2>1, SumOfZeros DEF SumOf
<1>4. SumOf(RewardsOwedBy) = 0
  <2>1. \A u \in Users : RewardsOwedBy[u] = 0
    BY <1>1 DEF RewardsInit, RewardsOwedBy, Owed
  <2> QED
    BY <1>1, <2>1, SumOfZeros DEF SumOf
<1>5. rewardsStaked = 0 /\ pendingDust = 0 /\ totalFunded = 0 /\ fundings = 0
  BY DEF RewardsInit
<1> QED
  BY <1>1, <1>2, <1>3, <1>4, <1>5 DEF RewardsInv

\* The facts of one staker that a step starts from.
LEMMA RewardsUser ==
    ASSUME RewardsTypeOK, NEW u \in Users
    PROVE  /\ stakes[u] \in UserStakeEntries /\ paid[u] \in Nat
           /\ rewardIndex - stakes[u].user_index \in Nat
           /\ Claimable(u) \in Nat /\ Earned(u) \in Nat
           /\ RewardsOwedBy[u] \in Nat /\ Earned(u) * SCALE <= RewardsOwedBy[u]
           /\ RewardsOwedBy[u] = Owed(paid[u] + stakes[u].pending_amount, stakes[u].amount,
                                      rewardIndex - stakes[u].user_index)
           /\ Earned(u) = (paid[u] + stakes[u].pending_amount)
                            + Share(stakes[u].amount, rewardIndex - stakes[u].user_index)
<1> DEFINE c == paid[u] + stakes[u].pending_amount
           a == stakes[u].amount
           d == rewardIndex - stakes[u].user_index
<1>1. /\ stakes[u] \in UserStakeEntries /\ paid[u] \in Nat /\ d \in Nat /\ a \in Nat /\ c \in Nat
      /\ stakes[u].pending_amount \in Nat
  BY DEF RewardsTypeOK, UserStakeEntries
<1>2. RewardsOwedBy[u] = Owed(c, a, d)
  BY DEF RewardsOwedBy
<1>3. Claimable(u) = Share(a, d) + stakes[u].pending_amount
  BY DEF Claimable, CalcPending
<1> HIDE DEF a, d
<1>4. Share(a, d) \in Nat
  BY <1>1, ShareRounds
<1>5. Claimable(u) \in Nat /\ Earned(u) = c + Share(a, d) /\ Earned(u) \in Nat
  BY <1>1, <1>3, <1>4 DEF Earned
<1> HIDE DEF c
<1>6. Owed(c, a, d) \in Nat /\ (c + Share(a, d)) * SCALE <= Owed(c, a, d)
  BY <1>1, OwedWhenSettled
<1> QED
  BY <1>1, <1>2, <1>5, <1>6 DEF a, c, d

\* Every step leaves the types in order, and a staker's earnings change as
\* RewardsFromFundingOnly says.
RewardsStep ==
    /\ RewardsInv'
    /\ \A u \in Users : /\ Earned(u)' >= Earned(u)
                        /\ totalFunded' = totalFunded => Earned(u)' = Earned(u)

\* A step that settles one staker: what the stake earned moves to the entry or
\* is paid, to the unit, and the stake may change.
LEMMA RewardsSettles ==
    ASSUME RewardsInv, NEW u \in Users, NEW new \in UserStakeEntries, NEW p \in Nat,
           new.user_index = rewardIndex, p + new.pending_amount = Earned(u),
           stakes' = [stakes EXCEPT ![u] = new], paid' = [paid EXCEPT ![u] = p],
           rewardsStaked' = rewardsStaked + new.amount - stakes[u].amount,
           UNCHANGED <<rewardsSettings, fundVars>>
    PROVE  RewardsStep
<1>1. /\ stakes \in [Users -> UserStakeEntries] /\ paid \in [Users -> Nat]
      /\ rewardIndex \in Nat /\ rewardsStaked = SumOf(StakeAmounts)
      /\ \A v \in Users : stakes[v].user_index <= rewardIndex
      /\ SumOf(RewardsOwedBy) + pendingDust * SCALE <= (totalFunded + fundings) * SCALE
      /\ SCALE \in Nat
  BY StakeLedgerAssumption DEF RewardsInv, RewardsTypeOK
<1>2. /\ rewardIndex' = rewardIndex /\ pendingDust' = pendingDust
      /\ totalFunded' = totalFunded /\ fundings' = fundings
      /\ rewardsAdmin' = rewardsAdmin /\ rewardsOperator' = rewardsOperator
      /\ rewardsPaused' = rewardsPaused
  BY DEF rewardsSettings, fundVars
<1>3. /\ new.amount \in Nat /\ new.pending_amount \in Nat /\ stakes'[u] = new /\ paid'[u] = p
      /\ \A v \in Users : v # u => stakes'[v] = stakes[v] /\ paid'[v] = paid[v]
      /\ stakes' \in [Users -> UserStakeEntries] /\ paid' \in [Users -> Nat]
      /\ \A v \in Users : StakeAmounts[v] = stakes[v].amount /\ stakes[v].amount \in Nat
  BY <1>1 DEF UserStakeEntries, StakeAmounts
<1>4. StakeAmounts' = [StakeAmounts EXCEPT ![u] = new.amount]
  BY <1>1, <1>3 DEF StakeAmounts
<1>5. rewardsStaked' = SumOf(StakeAmounts)' /\ rewardsStaked' \in Nat
  <2>1. StakeAmounts \in [Users -> Nat]
    BY <1>3 DEF StakeAmounts
  <2>2. /\ SumOf([StakeAmounts EXCEPT ![u] = new.amount])
             = SumOf(StakeAmounts) - StakeAmounts[u] + new.amount
        /\ SumOf(StakeAmounts) \in Nat /\ StakeAmounts[u] <= SumOf(StakeAmounts)
    <3> DEFINE f == StakeAmounts
               a == new.amount
    <3>1. f \in [Users -> Nat] /\ a \in Nat
      BY <1>3, <2>1
    <3> HIDE DEF f, a
    <3>2. /\ SumOf([f EXCEPT ![u] = a]) = SumOf(f) - f[u] + a
          /\ SumOf(f) \in Nat /\ f[u] <= SumOf(f)
      BY <3>1, SumAfterChange
    <3> QED
      BY <3>2 DEF f, a
  <2>3. SumOf(StakeAmounts)' = SumOf([StakeAmounts EXCEPT ![u] = new.amount])
    BY <1>4 DEF SumOf
  <2>4. StakeAmounts[u] = stakes[u].amount /\ stakes[u].amount \in Nat
    BY <1>3
  <2> QED
    BY <1>1, <1>3, <2>2, <2>3, <2>4
<1>6. RewardsTypeOK'
  <2>1. \A v \in Users : stakes'[v].user_index <= rewardIndex'
    BY <1>1, <1>2, <1>3
  <2> QED
    BY <1>2, <1>3, <1>5, <2>1 DEF RewardsInv, RewardsTypeOK
<1>7. \A v \in Users : Earned(v)' = Earned(v)
  <2>1. ASSUME NEW v \in Users, v # u PROVE Earned(v)' = Earned(v)
    BY <1>2, <1>3, <2>1 DEF Earned, Claimable, CalcPending
  <2>2. Earned(u)' = Earned(u)
    <3>1. Earned(u)' = p + (Share(new.amount, rewardIndex - new.user_index) + new.pending_amount)
      BY <1>2, <1>3 DEF Earned, Claimable, CalcPending, Share
    <3>2. Share(new.amount, 0) = 0 /\ rewardIndex - new.user_index = 0
      BY <1>1, <1>3, NothingShared
    <3> QED
      BY <1>3, <3>1, <3>2
  <2> QED
    BY <2>1, <2>2
<1>8. SumOf(RewardsOwedBy)' + pendingDust' * SCALE <= (totalFunded' + fundings') * SCALE
  <2> DEFINE f == RewardsOwedBy
             g == RewardsOwedBy'
  <2>1. \A v \in Users : f[v] \in Nat
    BY RewardsUser DEF RewardsInv
  <2>2. \A v \in Users : v # u => g[v] = f[v]
    BY <1>2, <1>3 DEF RewardsOwedBy
  <2>3. g[u] <= f[u] /\ g[u] \in Nat
    <3>1. g[u] = Owed(p + new.pending_amount, new.amount, rewardIndex - new.user_index)
      BY <1>2, <1>3 DEF RewardsOwedBy, Owed
    <3>2. rewardIndex - new.user_index = 0 /\ new.amount * 0 = 0 /\ Earned(u) * SCALE \in Nat
      BY <1>1, <1>3
    <3>3. Owed(Earned(u), new.amount, 0) = Earned(u) * SCALE
      BY <3>2 DEF Owed
    <3>4. Earned(u) * SCALE <= RewardsOwedBy[u] /\ RewardsOwedBy[u] \in Nat
      BY RewardsUser DEF RewardsInv
    <3> QED
      BY <3>1, <3>2, <3>3, <3>4
  <2>4. SumOf(RewardsOwedBy)' = SumOf(g)
    BY DEF SumOf
  <2> HIDE DEF f, g
  <2>5. SumOf(g) <= SumOf(f) /\ SumOf(g) \in Nat /\ SumOf(f) \in Nat
    <3>1. \A v \in Users : /\ f[v] \in Nat /\ g[v] \in Nat
                           /\ f[v] \in Int /\ g[v] \in Int /\ g[v] <= f[v]
      BY <2>1, <2>2, <2>3
    <3> QED
      BY <3>1, StakeLedgerAssumption, SumCompares, SumIsNat DEF SumOf
  <2>6. SumOf(g) <= SumOf(RewardsOwedBy) /\ SumOf(RewardsOwedBy) \in Nat
    BY <2>5 DEF f
  <2>7. pendingDust * SCALE \in Int /\ (totalFunded + fundings) * SCALE \in Int
    BY <1>1 DEF RewardsInv, RewardsTypeOK
  <2> QED
    BY <1>1, <1>2, <2>4, <2>5, <2>6, <2>7
<1>9. \A v \in Users : Earned(v) \in Nat
  BY RewardsUser DEF RewardsInv
<1> QED
  BY <1>5, <1>6, <1>7, <1>8, <1>9 DEF RewardsInv, RewardsStep

\* stake and unstake settle the user and change what is staked.
LEMMA RewardsStakesKeep ==
    ASSUME RewardsInv, NEW u \in Users, NEW amount \in Amounts, NEW by,
           RewardsStake(by, u, amount) \/ RewardsUnstake(by, u, amount)
    PROVE  RewardsStep
<1>1. /\ amount \in Nat /\ stakes[u] \in UserStakeEntries /\ stakes[u].amount \in Nat
      /\ Claimable(u) \in Nat /\ paid[u] \in Nat
      /\ rewardIndex \in Nat /\ rewardsStaked \in Nat /\ paid \in [Users -> Nat]
  BY StakeLedgerAssumption, RewardsUser DEF RewardsInv, RewardsTypeOK, UserStakeEntries
<1>2. ASSUME NEW a \in Nat, stakes' = [stakes EXCEPT ![u] = Restaked(u, a)],
             rewardsStaked' = rewardsStaked + a - stakes[u].amount,
             UNCHANGED <<rewardsSettings, fundVars, paid>>
      PROVE  RewardsStep
  <2> DEFINE new == Restaked(u, a)
  <2>1. /\ new \in UserStakeEntries /\ new.user_index = rewardIndex /\ new.amount = a
        /\ paid[u] + new.pending_amount = Earned(u)
    BY <1>1 DEF Restaked, UserStakeEntries, Earned
  <2>2. paid' = [paid EXCEPT ![u] = paid[u]] /\ UNCHANGED <<rewardsSettings, fundVars>>
    BY <1>1, <1>2
  <2>3. stakes' = [stakes EXCEPT ![u] = new]
    BY <1>2
  <2> HIDE DEF new
  <2>4. rewardsStaked' = rewardsStaked + new.amount - stakes[u].amount
    BY <1>2, <2>1
  <2> QED
    BY <1>1, <2>1, <2>2, <2>3, <2>4, RewardsSettles
<1>3. CASE RewardsStake(by, u, amount)
  <2> DEFINE a == stakes[u].amount + amount
  <2>1. a \in Nat /\ rewardsStaked' = rewardsStaked + a - stakes[u].amount
    BY <1>1, <1>3 DEF RewardsStake
  <2>2. stakes' = [stakes EXCEPT ![u] = Restaked(u, a)] /\ UNCHANGED <<rewardsSettings, fundVars, paid>>
    BY <1>3 DEF RewardsStake
  <2> HIDE DEF a
  <2> QED
    BY <1>2, <2>1, <2>2
<1>4. CASE RewardsUnstake(by, u, amount)
  <2> DEFINE a == stakes[u].amount - amount
  <2>1. a \in Nat /\ rewardsStaked' = rewardsStaked + a - stakes[u].amount
    BY <1>1, <1>4 DEF RewardsUnstake
  <2>2. stakes' = [stakes EXCEPT ![u] = Restaked(u, a)] /\ UNCHANGED <<rewardsSettings, fundVars, paid>>
    BY <1>4 DEF RewardsUnstake
  <2> HIDE DEF a
  <2> QED
    BY <1>2, <2>1, <2>2
<1> QED
  BY <1>3, <1>4

\* claim turns what is owed into what is paid.
LEMMA RewardsClaimKeeps ==
    ASSUME RewardsInv, NEW u \in Users, NEW by, RewardsClaim(by, u)
    PROVE  RewardsStep
<1>1. /\ stakes[u] \in UserStakeEntries /\ stakes[u].amount \in Nat
      /\ Claimable(u) \in Nat /\ paid[u] \in Nat
      /\ rewardIndex \in Nat /\ rewardsStaked \in Nat
  BY RewardsUser DEF RewardsInv, RewardsTypeOK, UserStakeEntries
<1> DEFINE new == ClaimedStake(u)
           p == paid[u] + Claimable(u)
<1>2. /\ new \in UserStakeEntries /\ new.user_index = rewardIndex
      /\ new.amount = stakes[u].amount /\ new.pending_amount = 0
  BY <1>1 DEF ClaimedStake, UserStakeEntries
<1>3. p \in Nat /\ p + new.pending_amount = Earned(u)
  BY <1>1, <1>2 DEF Earned
<1>4. /\ stakes' = [stakes EXCEPT ![u] = new] /\ paid' = [paid EXCEPT ![u] = p]
      /\ rewardsStaked' = rewardsStaked /\ UNCHANGED <<rewardsSettings, fundVars>>
  BY DEF RewardsClaim
<1> HIDE DEF new, p
<1>5. rewardsStaked' = rewardsStaked + new.amount - stakes[u].amount
  BY <1>1, <1>2, <1>4
<1> QED
  BY <1>2, <1>3, <1>4, <1>5, RewardsSettles

\* A funding: the index grows by what the dust and the amount cover, and the
\* dust that is left is charged what was committed, less than a unit too little.
LEMMA DistributeKeeps ==
    ASSUME RewardsInv, NEW amount \in Amounts, Distribute(amount)
    PROVE  RewardsStep
<1> DEFINE t   == amount + pendingDust
           inc == (t * SCALE) \div rewardsStaked
           com == (inc * rewardsStaked) \div SCALE
           f   == RewardsOwedBy
           h   == RewardsOwedBy'
<1>1. /\ amount \in Nat \ {0} /\ SCALE \in Nat /\ SCALE > 0
      /\ stakes \in [Users -> UserStakeEntries] /\ paid \in [Users -> Nat]
      /\ rewardIndex \in Nat /\ rewardsStaked \in Nat /\ pendingDust \in Nat
      /\ totalFunded \in Nat /\ fundings \in Nat
      /\ rewardsStaked = SumOf(StakeAmounts)
      /\ \A u \in Users : stakes[u].user_index <= rewardIndex
      /\ SumOf(RewardsOwedBy) + pendingDust * SCALE <= (totalFunded + fundings) * SCALE
  BY StakeLedgerAssumption DEF RewardsInv, RewardsTypeOK
<1>2. /\ totalFunded' = totalFunded + amount /\ fundings' = fundings + 1
      /\ stakes' = stakes /\ rewardsStaked' = rewardsStaked /\ paid' = paid
      /\ UNCHANGED rewardsSettings
      /\ IF rewardsStaked = 0 THEN rewardIndex' = rewardIndex /\ pendingDust' = pendingDust
         ELSE rewardIndex' = rewardIndex + inc /\ pendingDust' = t - com
  BY DEF Distribute, Carried
<1>3. t \in Nat
  BY <1>1
\* What the index grows by, with and without stakers.
<1> DEFINE k == IF rewardsStaked = 0 THEN 0 ELSE inc
<1>4. /\ k \in Nat /\ rewardIndex' = rewardIndex + k /\ pendingDust' \in Nat
      /\ k * rewardsStaked + pendingDust' * SCALE
            <= pendingDust * SCALE + amount * SCALE + SCALE
  <2>1. CASE rewardsStaked = 0
    <3>1. k = 0 /\ 0 * rewardsStaked = 0 /\ pendingDust * SCALE \in Int /\ amount * SCALE \in Nat
      BY <1>1, <2>1
    <3> QED
      BY <1>1, <1>2, <2>1, <3>1
  <2>2. CASE rewardsStaked # 0
    <3> HIDE DEF t
    <3>1. inc \in Nat /\ inc * rewardsStaked <= t * SCALE
      BY <1>1, <1>3, <2>2, IncrementCovered
    <3> HIDE DEF inc
    <3>2. /\ com \in Nat /\ com * SCALE <= inc * rewardsStaked
          /\ inc * rewardsStaked < com * SCALE + SCALE
      BY <1>1, <3>1, ShareRounds DEF Share
    <3> HIDE DEF com
    <3>3. /\ t * SCALE \in Int /\ com * SCALE \in Int /\ inc * rewardsStaked \in Int
          /\ (t - com) * SCALE = t * SCALE - com * SCALE
      BY <1>1, <1>3, <3>1, <3>2
    <3>4. com <= t
      <4>1. com * SCALE < t * SCALE + SCALE
        BY <1>1, <3>1, <3>2, <3>3
      <4> QED
        BY <1>3, <3>2, <4>1, Unscaled
    <3>5. pendingDust' = t - com /\ t - com \in Nat
      BY <1>2, <1>3, <2>2, <3>2, <3>4
    <3>6. /\ t * SCALE = pendingDust * SCALE + amount * SCALE
          /\ pendingDust * SCALE \in Int /\ amount * SCALE \in Int
      BY <1>1 DEF t
    <3> QED
      BY <1>1, <1>2, <2>2, <3>1, <3>2, <3>3, <3>5, <3>6
  <2> QED
    BY <2>1, <2>2
<1> HIDE DEF t, inc, com, k
<1>5. RewardsTypeOK'
  <2>1. /\ rewardsAdmin' \in Admins /\ rewardsOperator' \in Admins \cup {None}
        /\ rewardsPaused' \in BOOLEAN
    BY <1>2 DEF RewardsInv, RewardsTypeOK, rewardsSettings
  <2>2. \A u \in Users : stakes[u].user_index <= rewardIndex'
    <3>1. \A u \in Users : stakes[u].user_index \in Nat
      BY <1>1 DEF UserStakeEntries
    <3> QED
      BY <1>1, <1>4, <3>1
  <2>3. /\ rewardIndex' \in Nat /\ rewardsStaked' \in Nat /\ pendingDust' \in Nat
        /\ totalFunded' \in Nat /\ fundings' \in Nat
    BY <1>1, <1>2, <1>4
  <2>4. /\ stakes' \in [Users -> UserStakeEntries] /\ paid' \in [Users -> Nat]
        /\ \A u \in Users : stakes'[u].user_index <= rewardIndex'
    BY <1>1, <1>2, <2>2
  <2> QED
    BY <2>1, <2>3, <2>4 DEF RewardsTypeOK
<1>6. ASSUME NEW u \in Users
      PROVE  /\ h[u] = f[u] + k * StakeAmounts[u] /\ f[u] \in Nat /\ StakeAmounts[u] \in Nat
             /\ Earned(u)' >= Earned(u)
  <2> DEFINE a == stakes[u].amount
             c == paid[u] + stakes[u].pending_amount
             d == rewardIndex - stakes[u].user_index
  <2>1. /\ stakes[u] \in UserStakeEntries /\ paid[u] \in Nat /\ d \in Nat
        /\ f[u] = Owed(c, a, d) /\ f[u] \in Nat
        /\ Earned(u) = c + Share(a, d)
    BY RewardsUser DEF RewardsInv
  <2>2. a \in Nat /\ c \in Nat /\ StakeAmounts[u] = a /\ stakes[u].user_index \in Nat
    BY <2>1 DEF UserStakeEntries, StakeAmounts
  <2>3. rewardIndex' - stakes'[u].user_index = d + k
    BY <1>1, <1>2, <1>4, <2>2
  <2>4. h[u] = Owed(paid'[u] + stakes'[u].pending_amount, stakes'[u].amount,
                    rewardIndex' - stakes'[u].user_index)
    BY DEF RewardsOwedBy, Owed
  <2>5. Earned(u)' = paid'[u] + (Share(stakes'[u].amount, rewardIndex' - stakes'[u].user_index)
                                    + stakes'[u].pending_amount)
    BY DEF Earned, Claimable, CalcPending, Share
  <2>6. stakes'[u] = stakes[u] /\ paid'[u] = paid[u] /\ stakes[u].pending_amount \in Nat
    BY <1>2, <2>1 DEF UserStakeEntries
  <2>7. h[u] = Owed(c, a, d + k) /\ Earned(u)' = paid[u] + (Share(a, d + k) + stakes[u].pending_amount)
    BY <2>3, <2>4, <2>5, <2>6
  <2>8. Share(a, d) \in Nat /\ Share(a, d + k) \in Nat /\ Share(a, d) <= Share(a, d + k)
    <3> HIDE DEF a, d
    <3>1. d + k \in Nat /\ d <= d + k
      BY <1>4, <2>1
    <3>2. Share(a, d) \in Nat
      BY <2>1, <2>2, ShareRounds
    <3>3. Share(a, d + k) \in Nat
      BY <2>2, <3>1, ShareRounds
    <3>4. Share(a, d) <= Share(a, d + k)
      BY <2>1, <2>2, <3>1, ShareGrows
    <3> QED
      BY <3>2, <3>3, <3>4
  <2>9. Owed(c, a, d + k) = Owed(c, a, d) + k * a
    <3> HIDE DEF c, a, d
    <3> QED
      BY <1>4, <2>1, <2>2, OwedLater
  <2>10. Earned(u)' >= Earned(u)
    <3>1. c = paid[u] + stakes[u].pending_amount
      OBVIOUS
    <3> HIDE DEF a, c, d
    <3> QED
      BY <2>1, <2>6, <2>7, <2>8, <3>1
  <2> QED
    BY <2>1, <2>2, <2>7, <2>9, <2>10
<1>7. SumOf(RewardsOwedBy)' = SumOf(RewardsOwedBy) + k * rewardsStaked /\ SumOf(RewardsOwedBy) \in Int
  <2> DEFINE g == StakeAmounts
  <2>1. SumOf(RewardsOwedBy)' = SumOf(h)
    BY DEF SumOf
  <2>2. \A u \in Users : f[u] \in Nat /\ g[u] \in Nat /\ h[u] = f[u] + k * g[u]
    BY <1>6
  <2> HIDE DEF f, g, h
  <2>3. SumOf(h) = SumOf(f) + k * SumOf(g)
    BY <1>4, <2>2, OwedGrows
  <2>4. SumOf(f) \in Int
    BY <2>2, StakeLedgerAssumption, SumIsNat DEF SumOf
  <2> QED
    BY <1>1, <2>1, <2>3, <2>4 DEF f, g
<1>8. SumOf(RewardsOwedBy)' + pendingDust' * SCALE <= (totalFunded' + fundings') * SCALE
  <2>1. /\ (totalFunded' + fundings') * SCALE
              = (totalFunded + fundings) * SCALE + amount * SCALE + SCALE
        /\ (totalFunded + fundings) * SCALE \in Int /\ amount * SCALE \in Int
        /\ pendingDust * SCALE \in Int /\ pendingDust' * SCALE \in Int /\ k * rewardsStaked \in Int
    <3> DEFINE funds == totalFunded + fundings
    <3>1. funds \in Nat /\ amount \in Nat /\ totalFunded' + fundings' = funds + amount + 1
      BY <1>1, <1>2
    <3>2. SCALE \in Nat /\ pendingDust \in Nat /\ pendingDust' \in Nat
          /\ k \in Nat /\ rewardsStaked \in Nat
      BY <1>1, <1>2, <1>4
    <3> HIDE DEF funds
    <3>3. (funds + amount + 1) * SCALE = funds * SCALE + amount * SCALE + SCALE
      BY <3>1, <3>2
    <3>4. funds * SCALE \in Int /\ amount * SCALE \in Int
      BY <3>1, <3>2
    <3>5. pendingDust * SCALE \in Int /\ pendingDust' * SCALE \in Int /\ k * rewardsStaked \in Int
      BY <3>2
    <3> QED
      BY <3>1, <3>3, <3>4, <3>5 DEF funds
  <2> QED
    BY <1>1, <1>4, <1>7, <2>1
<1>9. rewardsStaked' = SumOf(StakeAmounts)'
  <2>1. SumOf(StakeAmounts)' = SumOf(StakeAmounts)
    BY <1>2 DEF SumOf, StakeAmounts
  <2> QED
    BY <1>1, <1>2, <2>1
<1>10. totalFunded' # totalFunded
  BY <1>1, <1>2
<1> QED
  BY <1>5, <1>6, <1>8, <1>9, <1>10 DEF RewardsInv, RewardsStep

\* The settings move no reward.
LEMMA RewardsIdleKeep ==
    ASSUME RewardsInv, UNCHANGED rewardsVars \/ \E by : RewardSettingNext(by)
    PROVE  RewardsStep
<1>1. UNCHANGED <<stakes, rewardsStaked, fundVars, paid>>
  BY DEF RewardSettingNext, RewardsSetAdmin, AddOperator, RemoveOperator, RewardsPause,
         RewardsUnpause, RewardsSetPaused, rewardsVars
<1>2. /\ rewardsAdmin' \in Admins /\ rewardsOperator' \in Admins \cup {None}
      /\ rewardsPaused' \in BOOLEAN
  <2>1. /\ rewardsAdmin \in Admins /\ rewardsOperator \in Admins \cup {None}
        /\ rewardsPaused \in BOOLEAN
    BY DEF RewardsInv, RewardsTypeOK
  <2>2. CASE UNCHANGED rewardsVars
    BY <2>1, <2>2 DEF rewardsVars, rewardsSettings
  <2>3. CASE \E by : RewardSettingNext(by)
    BY <2>1, <2>3
    DEF RewardSettingNext, RewardsSetAdmin, AddOperator, RemoveOperator, RewardsPause,
        RewardsUnpause, RewardsSetPaused
  <2> QED
    BY <2>2, <2>3
<1>3. RewardsTypeOK'
  BY <1>1, <1>2 DEF RewardsInv, RewardsTypeOK, fundVars
<1>4. /\ SumOf(StakeAmounts)' = SumOf(StakeAmounts)
      /\ SumOf(RewardsOwedBy)' = SumOf(RewardsOwedBy)
  <2>1. StakeAmounts' = StakeAmounts /\ RewardsOwedBy' = RewardsOwedBy
    BY <1>1 DEF fundVars, StakeAmounts, RewardsOwedBy
  <2> QED
    BY <2>1 DEF SumOf
<1>5. RewardsInv'
  BY <1>1, <1>3, <1>4 DEF fundVars, RewardsInv
<1>6. \A u \in Users : Earned(u)' = Earned(u) /\ Earned(u) \in Nat
  BY <1>1, RewardsUser DEF fundVars, Earned, Claimable, CalcPending, RewardsInv
<1> QED
  BY <1>5, <1>6 DEF RewardsStep

\* Every entry point of staking_rewards keeps the invariant.
LEMMA RewardsKeep ==
    ASSUME RewardsInv, [RewardsNext]_rewardsVars
    PROVE  RewardsStep
<1>1. CASE UNCHANGED rewardsVars
  BY <1>1, RewardsIdleKeep
<1>2. CASE RewardsNext
  <2>1. PICK by \in Addresses : RewardNext(by) \/ RewardSettingNext(by)
    BY <1>2 DEF RewardsNext
  <2>2. CASE RewardSettingNext(by)
    BY <2>2, RewardsIdleKeep
  <2>3. CASE \E u \in Users, amount \in Amounts : RewardsStake(by, u, amount) \/ RewardsUnstake(by, u, amount)
    BY <2>3, RewardsStakesKeep
  <2>4. CASE \E u \in Users : RewardsClaim(by, u)
    BY <2>4, RewardsClaimKeeps
  <2>5. CASE \E amount \in Amounts : FundRewards(by, amount) \/ DistributeRewards(by, amount)
    BY <2>5, DistributeKeeps DEF FundRewards, DistributeRewards
  <2> QED
    BY <2>1, <2>2, <2>3, <2>4, <2>5 DEF RewardNext
<1> QED
  BY <1>1, <1>2

\* Only a funding makes a staker richer and nothing makes one poorer, whatever
\* the scale of the index and the order of stakes, unstakes, claims and fundings.
THEOREM EarningsFromFundingOnly == RewardsSpec => RewardsFromFundingOnly
<1>1. now = 0 /\ RewardsInit => RewardsInv
  BY RewardsStart
<1>2. RewardsInv /\ [RewardsNext]_<<now, rewardsVars>> => RewardsInv'
  BY RewardsKeep DEF RewardsStep
<1>3. RewardsInv /\ [RewardsNext]_<<now, rewardsVars>> =>
        [\A u \in Users : /\ Earned(u)' >= Earned(u)
                          /\ totalFunded' = totalFunded => Earned(u)' = Earned(u)]_rewardsVars
  BY RewardsKeep DEF RewardsStep
<1> QED
  BY <1>1, <1>2, <1>3, PTL DEF RewardsSpec, RewardsFromFundingOnly

\* The stakers never earn more than a unit per funding beyond what was funded,
\* whatever the stakes and however many fundings there are.
THEOREM OverpaidAtMostPerFunding == RewardsSpec => []OverpaidPerFunding
<1>1. now = 0 /\ RewardsInit => RewardsInv
  BY RewardsStart
<1>2. RewardsInv /\ [RewardsNext]_<<now, rewardsVars>> => RewardsInv'
  BY RewardsKeep DEF RewardsStep
<1>3. RewardsInv => OverpaidPerFunding
  <2> SUFFICES ASSUME RewardsInv PROVE OverpaidPerFunding
    OBVIOUS
  <2> DEFINE e == [u \in Users |-> Earned(u)]
             f == RewardsOwedBy
  <2>1. \A u \in Users : e[u] \in Nat /\ f[u] \in Nat /\ e[u] * SCALE <= f[u]
    BY RewardsUser DEF RewardsInv
  <2>2. /\ SumOf(f) + pendingDust * SCALE <= (totalFunded + fundings) * SCALE
        /\ pendingDust \in Nat /\ totalFunded \in Nat /\ fundings \in Nat
        /\ SCALE \in Nat /\ SCALE > 0
    BY StakeLedgerAssumption DEF RewardsInv, RewardsTypeOK
  <2> HIDE DEF e, f
  <2>3. SumOf(e) \in Nat /\ SumOf(f) \in Nat /\ SumOf(e) * SCALE <= SumOf(f)
    BY <2>1, AllCovered
  <2>4. /\ (SumOf(e) + pendingDust) * SCALE = SumOf(e) * SCALE + pendingDust * SCALE
        /\ SumOf(e) * SCALE \in Int /\ pendingDust * SCALE \in Int
        /\ (totalFunded + fundings) * SCALE \in Int
    BY <2>2, <2>3
  <2>5. (SumOf(e) + pendingDust) * SCALE < (totalFunded + fundings) * SCALE + SCALE
    BY <2>2, <2>3, <2>4
  <2>6. SumOf(e) + pendingDust <= totalFunded + fundings
    BY <2>2, <2>3, <2>5, Unscaled
  <2> QED
    BY <2>6 DEF e, OverpaidPerFunding, EarnedInAll
<1> QED
  BY <1>1, <1>2, <1>3, PTL DEF RewardsSpec

-----------------------------------------------------------------------------
\* epoch_rewards: the parts of the inductive invariant.
EpochAmounts == [u \in Users |-> epochStake[u].amount]

\* What each has had and is owed.
EpochOwedBy ==
    [u \in Users |-> Owed(claimed[u] + unclaimed[u], epochStake[u].amount,
                          epochIndex - epochStake[u].index)]

\* What was funded in each epoch.
EpochFunds == [n \in 1..currentEpoch |-> epochs[n].rewards]

\* The chain of the epochs.
EpochChain ==
    /\ now \in Nat
    /\ epochOperator \in Admins \cup {None} /\ epochPaused \in BOOLEAN
    /\ currentEpoch \in EpochIds /\ epochIndex \in Nat
    /\ epochs \in [EpochIds -> EpochInfos \cup {None}]
    /\ startIndex \in [EpochIds -> 0..epochIndex]
    /\ \A n \in EpochIds : (epochs[n] # None) = (n <= currentEpoch)
    /\ \A n \in 1 .. currentEpoch - 1 :
         /\ epochs[n].sealedAt \in epochs[n + 1].start .. now
         /\ epochs[n + 1].start = epochs[n].start + epochs[n].duration
         /\ epochs[n + 1].carried = epochs[n].carried + epochs[n].rewards
         /\ startIndex[n + 1] = epochs[n].indexAtSeal
    /\ epochs[currentEpoch].sealedAt = None

\* The stakers' accounts.
EpochAccounts ==
    /\ epochIndex \in Nat /\ epochTotal \in Nat
    /\ unclaimed \in [Users -> Nat] /\ claimed \in [Users -> Nat]
    /\ epochStake \in [Users -> [amount : Nat, index : 0..epochIndex]]
    /\ epochTotal = SumOf(EpochAmounts)

\* What every entry point of epoch_rewards keeps.
EpochInv == EpochChain /\ EpochAccounts /\ SumOf(EpochOwedBy) <= Funded * SCALE

\* The invariant contains the type invariant.
LEMMA EpochTyped == EpochInv => EpochTypeOK
  BY DEF EpochInv, EpochChain, EpochAccounts, EpochTypeOK, EpochAmounts

\* The epochs opened so far have entries.
LEMMA EpochsOpened ==
    ASSUME EpochChain
    PROVE  /\ currentEpoch \in Nat /\ currentEpoch >= 1 /\ IsFiniteSet(1..currentEpoch)
           /\ \A n \in 1..currentEpoch : n \in EpochIds /\ epochs[n] \in EpochInfos
           /\ \A n \in 1..currentEpoch : EpochFunds[n] = epochs[n].rewards /\ EpochFunds[n] \in Nat
           /\ Funded = SumFunctionOnSet(EpochFunds, 1..currentEpoch) /\ Funded \in Nat
<1>1. /\ currentEpoch \in Nat /\ currentEpoch >= 1
      /\ \A n \in 1..currentEpoch : n \in EpochIds /\ epochs[n] \in EpochInfos
  BY EpochAssumption DEF EpochChain, EpochIds
<1>2. IsFiniteSet(1..currentEpoch)
  BY <1>1, FS_Interval
<1>3. \A n \in 1..currentEpoch : EpochFunds[n] = epochs[n].rewards /\ EpochFunds[n] \in Nat
  BY <1>1 DEF EpochFunds, EpochInfos
<1>4. Funded = SumFunctionOnSet(EpochFunds, 1..currentEpoch)
  BY DEF Funded, EpochFunds
<1> QED
  BY <1>1, <1>2, <1>3, <1>4, SumIsNat

\* epoch_rewards right after init.
LEMMA EpochStart ==
    ASSUME EpochInit, now = 0
    PROVE  EpochInv
<1>1. SCALE \in Nat /\ IsFiniteSet(Users) /\ 1 \in EpochIds /\ \A n \in EpochIds : n \in Nat /\ n >= 1
  BY StakeLedgerAssumption, EpochAssumption DEF EpochIds
<1>2. PICK duration \in Durations :
        epochs = [n \in EpochIds |-> IF n = 1 THEN Opened(0, duration, 0) ELSE None]
  BY DEF EpochInit
<1>3. Opened(0, duration, 0) \in EpochInfos /\ Opened(0, duration, 0) # None
  BY EpochAssumption DEF Opened, EpochInfos
<1>4. /\ currentEpoch = 1 /\ epochIndex = 0 /\ epochTotal = 0 /\ epochOperator = None
      /\ epochPaused = FALSE
      /\ startIndex = [n \in EpochIds |-> 0]
      /\ epochStake = [u \in Users |-> [amount |-> 0, index |-> 0]]
      /\ unclaimed = [u \in Users |-> 0] /\ claimed = [u \in Users |-> 0]
  BY DEF EpochInit
<1>5. EpochChain
  <2>1. epochs \in [EpochIds -> EpochInfos \cup {None}] /\ startIndex \in [EpochIds -> 0..epochIndex]
    BY <1>2, <1>3, <1>4
  <2>2. \A n \in EpochIds : (epochs[n] # None) = (n <= currentEpoch)
    BY <1>1, <1>2, <1>3, <1>4
  <2>3. epochs[currentEpoch].sealedAt = None
    BY <1>1, <1>2, <1>4 DEF Opened
  <2>4. 1 .. currentEpoch - 1 = {}
    BY <1>4
  <2> QED
    BY <1>1, <1>4, <2>1, <2>2, <2>3, <2>4 DEF EpochChain
<1>6. SumOf(EpochAmounts) = 0
  <2>1. \A u \in Users : EpochAmounts[u] = 0
    BY <1>4 DEF EpochAmounts
  <2> QED
    BY <1>1, <2>1, SumOfZeros DEF SumOf
<1>7. SumOf(EpochOwedBy) = 0
  <2>1. \A u \in Users : EpochOwedBy[u] = 0
    BY <1>1, <1>4 DEF EpochOwedBy, Owed
  <2> QED
    BY <1>1, <2>1, SumOfZeros DEF SumOf
<1>8. EpochAccounts
  BY <1>4, <1>6 DEF EpochAccounts
<1>9. Funded \in Nat
  BY <1>5, EpochsOpened
<1> QED
  BY <1>1, <1>5, <1>7, <1>8, <1>9 DEF EpochInv

\* The facts of one staker that a step starts from.
LEMMA EpochUser ==
    ASSUME EpochAccounts, NEW u \in Users
    PROVE  /\ claimed[u] \in Nat /\ unclaimed[u] \in Nat /\ epochStake[u].amount \in Nat
           /\ epochStake[u].index \in Nat
           /\ epochIndex - epochStake[u].index \in Nat /\ EpochClaimable(u) \in Nat
           /\ EpochOwedBy[u] \in Nat /\ (claimed[u] + EpochClaimable(u)) * SCALE <= EpochOwedBy[u]
           /\ EpochOwedBy[u] = Owed(claimed[u] + unclaimed[u], epochStake[u].amount,
                                    epochIndex - epochStake[u].index)
<1> DEFINE c == claimed[u] + unclaimed[u]
           a == epochStake[u].amount
           d == epochIndex - epochStake[u].index
<1>1. /\ claimed[u] \in Nat /\ unclaimed[u] \in Nat /\ c \in Nat /\ a \in Nat
      /\ epochStake[u].index \in Nat /\ d \in Nat
  BY DEF EpochAccounts
<1>2. EpochOwedBy[u] = Owed(c, a, d) /\ EpochClaimable(u) = Share(a, d) + unclaimed[u]
  BY DEF EpochOwedBy, EpochClaimable, LivePending
<1> HIDE DEF a, d
<1>3. Share(a, d) \in Nat
  BY <1>1, ShareRounds
<1>4. EpochClaimable(u) \in Nat /\ claimed[u] + EpochClaimable(u) = c + Share(a, d)
  BY <1>1, <1>2, <1>3
<1> HIDE DEF c
<1>5. Owed(c, a, d) \in Nat /\ (c + Share(a, d)) * SCALE <= Owed(c, a, d)
  BY <1>1, OwedWhenSettled
<1> QED
  BY <1>1, <1>2, <1>4, <1>5 DEF a, c, d

\* A step that settles one staker: what the stake earned is banked or claimed,
\* to the unit, and the stake may change.
LEMMA EpochSettles ==
    ASSUME EpochInv, NEW u \in Users, NEW a \in Nat, NEW banked \in Nat, NEW c \in Nat,
           c + banked = claimed[u] + EpochClaimable(u),
           epochStake' = [epochStake EXCEPT ![u] = [amount |-> a, index |-> epochIndex]],
           unclaimed' = [unclaimed EXCEPT ![u] = banked],
           claimed' = [claimed EXCEPT ![u] = c],
           epochTotal' = epochTotal + a - epochStake[u].amount,
           now' = now, UNCHANGED <<epochSettings, epochBooks, epochIndex>>
    PROVE  EpochInv'
<1>1. /\ epochStake \in [Users -> [amount : Nat, index : 0..epochIndex]]
      /\ unclaimed \in [Users -> Nat] /\ claimed \in [Users -> Nat]
      /\ epochIndex \in Nat /\ epochTotal = SumOf(EpochAmounts)
      /\ SumOf(EpochOwedBy) <= Funded * SCALE /\ SCALE \in Nat
  BY StakeLedgerAssumption DEF EpochInv, EpochAccounts
<1>2. /\ epochIndex' = epochIndex /\ currentEpoch' = currentEpoch /\ epochs' = epochs
      /\ startIndex' = startIndex
  BY DEF epochBooks
<1>3. EpochChain'
  BY <1>2 DEF EpochInv, EpochChain, epochSettings
<1>4. /\ epochStake'[u] = [amount |-> a, index |-> epochIndex] /\ unclaimed'[u] = banked
      /\ claimed'[u] = c
      /\ \A v \in Users : v # u => /\ epochStake'[v] = epochStake[v]
                                   /\ unclaimed'[v] = unclaimed[v] /\ claimed'[v] = claimed[v]
  BY <1>1
<1>5. /\ epochStake' \in [Users -> [amount : Nat, index : 0..epochIndex']]
      /\ unclaimed' \in [Users -> Nat] /\ claimed' \in [Users -> Nat]
  <2>1. [amount |-> a, index |-> epochIndex] \in [amount : Nat, index : 0..epochIndex]
    BY <1>1
  <2> QED
    BY <1>1, <1>2, <2>1
<1>6. epochTotal' = SumOf(EpochAmounts)' /\ epochTotal' \in Nat
  <2> DEFINE f == EpochAmounts
  <2>1. f \in [Users -> Nat] /\ f[u] = epochStake[u].amount
    BY <1>1 DEF EpochAmounts
  <2>2. EpochAmounts' = [f EXCEPT ![u] = a]
    <3>1. EpochAmounts' = [v \in Users |-> epochStake'[v].amount]
      BY DEF EpochAmounts
    <3>2. \A v \in Users : epochStake'[v].amount = IF v = u THEN a ELSE f[v]
      BY <1>4 DEF EpochAmounts
    <3> HIDE DEF f
    <3>3. [f EXCEPT ![u] = a] = [v \in Users |-> IF v = u THEN a ELSE f[v]]
      BY <2>1
    <3> QED
      BY <3>1, <3>2, <3>3
  <2> HIDE DEF f
  <2>3. SumOf([f EXCEPT ![u] = a]) = SumOf(f) - f[u] + a /\ SumOf(f) \in Nat /\ f[u] <= SumOf(f)
    BY <2>1, SumAfterChange
  <2>4. SumOf(EpochAmounts)' = SumOf([f EXCEPT ![u] = a])
    BY <2>2 DEF SumOf
  <2>5. epochTotal = SumOf(f) /\ f[u] \in Nat
    BY <1>1, <2>1 DEF f
  <2> QED
    BY <2>1, <2>3, <2>4, <2>5
<1>7. EpochAccounts'
  BY <1>1, <1>2, <1>5, <1>6 DEF EpochAccounts
<1>8. SumOf(EpochOwedBy)' <= SumOf(EpochOwedBy) /\ SumOf(EpochOwedBy)' \in Nat /\ SumOf(EpochOwedBy) \in Nat
  <2> DEFINE f == EpochOwedBy
             g == EpochOwedBy'
  <2>1. \A v \in Users : f[v] \in Nat
    BY EpochUser DEF EpochInv
  <2>2. \A v \in Users : v # u => g[v] = f[v]
    BY <1>2, <1>4 DEF EpochOwedBy
  <2>3. g[u] <= f[u] /\ g[u] \in Nat
    <3>1. g[u] = Owed(claimed'[u] + unclaimed'[u], epochStake'[u].amount,
                      epochIndex' - epochStake'[u].index)
      BY DEF EpochOwedBy, Owed
    <3>2. epochIndex' - epochStake'[u].index = 0 /\ epochStake'[u].amount = a
      BY <1>1, <1>2, <1>4
    <3>3. g[u] = Owed(claimed[u] + EpochClaimable(u), a, 0)
      BY <1>4, <3>1, <3>2
    <3>4. claimed[u] + EpochClaimable(u) \in Nat /\ a * 0 = 0
      BY EpochUser DEF EpochInv
    <3>5. Owed(claimed[u] + EpochClaimable(u), a, 0) = (claimed[u] + EpochClaimable(u)) * SCALE
      BY <1>1, <3>4 DEF Owed
    <3>6. (claimed[u] + EpochClaimable(u)) * SCALE <= EpochOwedBy[u] /\ EpochOwedBy[u] \in Nat
      BY EpochUser DEF EpochInv
    <3>7. (claimed[u] + EpochClaimable(u)) * SCALE \in Nat
      BY <1>1, <3>4
    <3> QED
      BY <3>3, <3>5, <3>6, <3>7
  <2>4. SumOf(EpochOwedBy)' = SumOf(g)
    BY DEF SumOf
  <2>5. \A v \in Users : /\ f[v] \in Nat /\ g[v] \in Nat
                         /\ f[v] \in Int /\ g[v] \in Int /\ g[v] <= f[v]
    BY <2>1, <2>2, <2>3
  <2> HIDE DEF f, g
  <2>6. SumOf(g) <= SumOf(f) /\ SumOf(g) \in Nat /\ SumOf(f) \in Nat
    BY <2>5, StakeLedgerAssumption, SumCompares, SumIsNat DEF SumOf
  <2> QED
    BY <2>4, <2>6 DEF f
<1>9. Funded' = Funded /\ Funded \in Nat
  BY <1>2, EpochsOpened DEF Funded, EpochInv
<1> QED
  BY <1>1, <1>3, <1>7, <1>8, <1>9 DEF EpochInv

\* stake, unstake and claim settle the user at the index of the last funding.
LEMMA EpochStakesKeep ==
    ASSUME EpochInv, now' = now, NEW u \in Users,
           \/ EpochClaim(u)
           \/ \E amount \in Amounts : EpochStakeMore(u, amount) \/ EpochUnstake(u, amount)
    PROVE  EpochInv'
<1>1. /\ epochStake \in [Users -> [amount : Nat, index : 0..epochIndex]]
      /\ claimed \in [Users -> Nat] /\ epochTotal \in Nat
      /\ claimed[u] \in Nat /\ epochStake[u].amount \in Nat /\ EpochClaimable(u) \in Nat
      /\ unclaimed \in [Users -> Nat]
  BY EpochUser DEF EpochInv, EpochAccounts
<1>2. ASSUME NEW a \in Nat, Restake(u, a) PROVE EpochInv'
  <2> DEFINE banked == EpochClaimable(u)
             c == claimed[u]
  <2>1. /\ epochStake' = [epochStake EXCEPT ![u] = [amount |-> a, index |-> epochIndex]]
        /\ unclaimed' = [unclaimed EXCEPT ![u] = banked]
        /\ epochTotal' = epochTotal + a - epochStake[u].amount
        /\ claimed' = [claimed EXCEPT ![u] = c]
        /\ UNCHANGED <<epochSettings, epochBooks, epochIndex>>
    BY <1>1, <1>2 DEF Restake, Banked
  <2>2. banked \in Nat /\ c \in Nat /\ c + banked = claimed[u] + EpochClaimable(u)
    BY <1>1
  <2> HIDE DEF banked, c
  <2> QED
    BY <2>1, <2>2, EpochSettles
<1>3. ASSUME NEW amount \in Amounts, EpochStakeMore(u, amount) PROVE EpochInv'
  <2> DEFINE a == epochStake[u].amount + amount
  <2>1. a \in Nat /\ Restake(u, a)
    BY <1>1, <1>3, StakeLedgerAssumption DEF EpochStakeMore
  <2> HIDE DEF a
  <2> QED
    BY <1>2, <2>1
<1>4. ASSUME NEW amount \in Amounts, EpochUnstake(u, amount) PROVE EpochInv'
  <2> DEFINE a == epochStake[u].amount - amount
  <2>1. a \in Nat /\ Restake(u, a)
    BY <1>1, <1>4, StakeLedgerAssumption DEF EpochUnstake
  <2> HIDE DEF a
  <2> QED
    BY <1>2, <2>1
<1>5. CASE EpochClaim(u)
  <2> DEFINE a == epochStake[u].amount
             banked == 0
             c == claimed[u] + EpochClaimable(u)
  <2>1. epochStake' = [epochStake EXCEPT ![u] = [amount |-> a, index |-> epochIndex]]
    <3>1. [epochStake[u] EXCEPT !.index = epochIndex] = [amount |-> a, index |-> epochIndex]
      BY <1>1
    <3>2. epochStake' = [epochStake EXCEPT ![u] = [epochStake[u] EXCEPT !.index = epochIndex]]
      BY <1>1, <1>5 DEF EpochClaim
    <3> QED
      BY <3>1, <3>2
  <2>2. /\ unclaimed' = [unclaimed EXCEPT ![u] = banked]
        /\ claimed' = [claimed EXCEPT ![u] = c]
        /\ UNCHANGED <<epochSettings, epochBooks, epochIndex>>
        /\ epochTotal' = epochTotal + a - epochStake[u].amount
    BY <1>1, <1>5 DEF EpochClaim
  <2>3. a \in Nat /\ banked \in Nat /\ c \in Nat /\ c + banked = claimed[u] + EpochClaimable(u)
    BY <1>1
  <2> HIDE DEF a, banked, c
  <2> QED
    BY <2>1, <2>2, <2>3, EpochSettles
<1> QED
  BY <1>3, <1>4, <1>5

\* A funding grows the index by no more than the amount covers, and books the
\* rest of the amount as dust.
LEMMA EpochFundKeeps ==
    ASSUME EpochInv, now' = now, NEW by, NEW amount \in Amounts, FundEpochRewards(by, amount)
    PROVE  EpochInv'
<1> DEFINE k == IF epochTotal = 0 THEN 0 ELSE EpochIncrement(amount)
           n == currentEpoch
           dust == FundingDust(amount)
           e == [epochs[n] EXCEPT !.rewards = epochs[n].rewards + amount,
                                  !.dust = epochs[n].dust + dust]
<1>1. /\ amount \in Nat /\ SCALE \in Nat /\ SCALE > 0 /\ epochTotal \in Nat /\ epochIndex \in Nat
      /\ epochTotal = SumOf(EpochAmounts) /\ SumOf(EpochOwedBy) <= Funded * SCALE
  BY StakeLedgerAssumption DEF EpochInv, EpochAccounts
<1>2. /\ n \in 1..n /\ n \in EpochIds /\ epochs[n] \in EpochInfos /\ n \in Nat
      /\ epochs \in [EpochIds -> EpochInfos \cup {None}]
      /\ \A m \in 1..n : m \in EpochIds /\ epochs[m] \in EpochInfos
  BY EpochsOpened DEF EpochInv, EpochChain
<1>3. /\ k \in Nat /\ dust \in Nat /\ k * epochTotal <= amount * SCALE
  <2>1. CASE epochTotal = 0
    <3>1. k = 0 /\ dust = amount /\ 0 * epochTotal = 0 /\ amount * SCALE \in Nat
      BY <1>1, <2>1 DEF FundingDust
    <3> QED
      BY <1>1, <3>1
  <2>2. CASE epochTotal # 0
    <3> DEFINE inc == EpochIncrement(amount)
               s == Share(epochTotal, inc)
    <3>1. inc \in Nat /\ inc * epochTotal <= amount * SCALE
      BY <1>1, <2>2, IncrementCovered DEF EpochIncrement
    <3>2. k = inc /\ dust = amount - s
      BY <2>2 DEF FundingDust
    <3> HIDE DEF inc
    <3>3. s \in Nat /\ s * SCALE <= epochTotal * inc
      BY <1>1, <3>1, ShareRounds
    <3> HIDE DEF s
    <3>4. /\ epochTotal * inc = inc * epochTotal /\ inc * epochTotal \in Int
          /\ s * SCALE \in Int /\ amount * SCALE \in Int
      BY <1>1, <3>1, <3>3
    <3>5. s * SCALE < amount * SCALE + SCALE
      BY <1>1, <3>1, <3>3, <3>4
    <3>6. s <= amount
      BY <1>1, <3>3, <3>5, Unscaled
    <3> HIDE DEF k, dust
    <3> QED
      BY <1>1, <3>1, <3>2, <3>3, <3>6
  <2> QED
    BY <2>1, <2>2
<1>4. /\ epochIndex' = epochIndex + k /\ UNCHANGED <<epochSettings, epochStakes, currentEpoch, startIndex>>
      /\ epochs' = [epochs EXCEPT ![n] = e]
  <2>1. epochIndex' = epochIndex + k
    BY <1>1 DEF FundEpochRewards
  <2>2. epochs' = [epochs EXCEPT ![n].rewards = @ + amount, ![n].dust = @ + dust]
    BY DEF FundEpochRewards
  <2>3. epochs' = [epochs EXCEPT ![n] = e]
    <3> HIDE DEF dust
    <3> QED
      BY <1>2, <2>2 DEF EpochInfos
  <2> QED
    BY <2>1, <2>3 DEF FundEpochRewards
<1> HIDE DEF k, dust
<1>5. /\ e \in EpochInfos /\ e.rewards = epochs[n].rewards + amount
      /\ e.start = epochs[n].start /\ e.duration = epochs[n].duration
      /\ e.sealedAt = epochs[n].sealedAt /\ e.carried = epochs[n].carried
      /\ e.indexAtSeal = epochs[n].indexAtSeal
  <2> DEFINE r == epochs[n]
             x == r.rewards + amount
             y == r.dust + dust
  <2>1. r \in EpochInfos
    BY <1>2
  <2> HIDE DEF r
  <2>2. x \in Nat /\ y \in Nat
    BY <1>1, <1>3, <2>1 DEF EpochInfos
  <2>3. e = [r EXCEPT !.rewards = x, !.dust = y]
    BY DEF r
  <2> HIDE DEF e, x, y
  <2>4. e \in EpochInfos
    BY <2>1, <2>2, <2>3 DEF EpochInfos
  <2>5. /\ e.rewards = x /\ e.start = r.start /\ e.duration = r.duration
        /\ e.sealedAt = r.sealedAt /\ e.carried = r.carried
        /\ e.indexAtSeal = r.indexAtSeal
    BY <2>1, <2>3 DEF EpochInfos
  <2> QED
    BY <2>4, <2>5 DEF r, x
<1> HIDE DEF e
<1>6. /\ epochs'[n] = e /\ \A m \in EpochIds : m # n => epochs'[m] = epochs[m]
      /\ epochs' \in [EpochIds -> EpochInfos \cup {None}]
      /\ e # None /\ epochs[n] # None
  BY <1>2, <1>4, <1>5, EpochAssumption
<1>7. EpochChain'
  <2>1. /\ now' \in Nat /\ epochOperator' \in Admins \cup {None} /\ epochPaused' \in BOOLEAN
        /\ currentEpoch' = n /\ n \in EpochIds /\ startIndex' = startIndex
        /\ epochIndex' \in Nat
    BY <1>1, <1>3, <1>4 DEF epochSettings, EpochInv, EpochChain
  <2>2. startIndex' \in [EpochIds -> 0..epochIndex']
    <3>1. startIndex \in [EpochIds -> 0..epochIndex]
      BY DEF EpochInv, EpochChain
    <3> QED
      BY <1>1, <1>3, <1>4, <2>1, <3>1
  <2>3. \A m \in EpochIds : (epochs'[m] # None) = (m <= currentEpoch')
    BY <1>2, <1>6, <2>1 DEF EpochInv, EpochChain
  <2>4. ASSUME NEW m \in 1 .. n - 1
        PROVE  /\ epochs'[m].sealedAt \in epochs'[m + 1].start .. now'
               /\ epochs'[m + 1].start = epochs'[m].start + epochs'[m].duration
               /\ epochs'[m + 1].carried = epochs'[m].carried + epochs'[m].rewards
               /\ startIndex'[m + 1] = epochs'[m].indexAtSeal
    <3>1. m \in EpochIds /\ m # n /\ m + 1 \in 1..n /\ m + 1 \in EpochIds
      BY <1>2
    <3>2. /\ epochs[m].sealedAt \in epochs[m + 1].start .. now
          /\ epochs[m + 1].start = epochs[m].start + epochs[m].duration
          /\ epochs[m + 1].carried = epochs[m].carried + epochs[m].rewards
          /\ startIndex[m + 1] = epochs[m].indexAtSeal
      BY DEF EpochInv, EpochChain
    <3>3. /\ epochs'[m] = epochs[m] /\ epochs'[m + 1].start = epochs[m + 1].start
          /\ epochs'[m + 1].carried = epochs[m + 1].carried
      BY <1>5, <1>6, <3>1
    <3> QED
      BY <2>1, <3>2, <3>3
  <2>5. epochs'[currentEpoch'].sealedAt = None
    BY <1>5, <1>6, <2>1 DEF EpochInv, EpochChain
  <2> QED
    BY <1>6, <2>1, <2>2, <2>3, <2>4, <2>5 DEF EpochChain
<1>8. EpochAccounts'
  <2>1. epochStake' = epochStake /\ epochTotal' = epochTotal /\ unclaimed' = unclaimed /\ claimed' = claimed
    BY <1>4 DEF epochStakes
  <2>2. epochStake' \in [Users -> [amount : Nat, index : 0..epochIndex']]
    <3>1. epochStake \in [Users -> [amount : Nat, index : 0..epochIndex]]
      BY DEF EpochInv, EpochAccounts
    <3>2. 0..epochIndex \subseteq 0..epochIndex'
      BY <1>1, <1>3, <1>4
    <3> QED
      BY <2>1, <3>1, <3>2
  <2>3. SumOf(EpochAmounts)' = SumOf(EpochAmounts)
    BY <2>1 DEF SumOf, EpochAmounts
  <2>4. epochIndex' \in Nat
    BY <1>1, <1>3, <1>4
  <2> QED
    BY <1>1, <2>1, <2>2, <2>3, <2>4 DEF EpochInv, EpochAccounts
<1>9. SumOf(EpochOwedBy)' = SumOf(EpochOwedBy) + k * epochTotal /\ SumOf(EpochOwedBy) \in Int
  <2> DEFINE f == EpochOwedBy
             g == EpochAmounts
             h == EpochOwedBy'
  <2>1. ASSUME NEW u \in Users
        PROVE  f[u] \in Nat /\ g[u] \in Nat /\ h[u] = f[u] + k * g[u]
    <3> DEFINE a == epochStake[u].amount
               c == claimed[u] + unclaimed[u]
               d == epochIndex - epochStake[u].index
    <3>1. /\ f[u] = Owed(c, a, d) /\ f[u] \in Nat /\ g[u] = a /\ a \in Nat /\ c \in Nat /\ d \in Nat
          /\ epochStake[u].index \in Nat
      BY EpochUser DEF EpochInv, EpochAmounts
    <3>2. h[u] = Owed(claimed'[u] + unclaimed'[u], epochStake'[u].amount,
                      epochIndex' - epochStake'[u].index)
      BY DEF EpochOwedBy, Owed
    <3>3. /\ claimed'[u] + unclaimed'[u] = c /\ epochStake'[u].amount = a
          /\ epochIndex' - epochStake'[u].index = d + k
      BY <1>1, <1>3, <1>4, <3>1 DEF epochStakes
    <3> HIDE DEF a, c, d
    <3>4. Owed(c, a, d + k) = Owed(c, a, d) + k * a
      BY <1>3, <3>1, OwedLater
    <3> QED
      BY <3>1, <3>2, <3>3, <3>4
  <2>2. SumOf(EpochOwedBy)' = SumOf(h)
    BY DEF SumOf
  <2> HIDE DEF f, g, h
  <2>3. SumOf(h) = SumOf(f) + k * SumOf(g)
    BY <1>3, <2>1, OwedGrows
  <2>4. SumOf(f) \in Int
    BY <2>1, StakeLedgerAssumption, SumIsNat DEF SumOf
  <2> QED
    BY <1>1, <2>2, <2>3, <2>4 DEF f, g
<1>10. Funded' = Funded + amount /\ Funded \in Nat
  <2> DEFINE f == EpochFunds
             g == EpochFunds'
             S == 1..n
  <2>1. /\ IsFiniteSet(S) /\ n \in S /\ Funded = SumFunctionOnSet(f, S) /\ Funded \in Nat
        /\ \A m \in S : f[m] = epochs[m].rewards /\ f[m] \in Int
    BY EpochsOpened DEF EpochInv
  <2>2. currentEpoch' = n
    BY <1>4
  <2>3. Funded' = SumFunctionOnSet(g, S)
    BY <2>2 DEF Funded, EpochFunds
  <2>4. \A m \in S : g[m] = epochs'[m].rewards
    BY <2>2 DEF EpochFunds
  <2>5. g[n] = f[n] + amount /\ g[n] \in Int /\ \A m \in S : m # n => g[m] = f[m]
    BY <1>1, <1>2, <1>5, <1>6, <2>1, <2>4
  <2> HIDE DEF f, g, S, n
  <2>6. SumFunctionOnSet(g, S) = SumFunctionOnSet(f, S) - f[n] + g[n]
    <3>1. IsFiniteSet(S) /\ n \in S /\ \A m \in S : f[m] \in Int
      BY <2>1
    <3>2. g[n] \in Int /\ \A m \in S : m # n => g[m] = f[m]
      BY <2>5
    <3> QED
      BY <3>1, <3>2, SumOfChange
  <2>7. f[n] \in Int
    BY <2>1
  <2> QED
    BY <1>1, <2>1, <2>3, <2>5, <2>6, <2>7
<1> QED
  <2>1. /\ (Funded + amount) * SCALE = Funded * SCALE + amount * SCALE
        /\ Funded * SCALE \in Int /\ amount * SCALE \in Int /\ k * epochTotal \in Int
    BY <1>1, <1>3, <1>10
  <2>2. SumOf(EpochOwedBy)' <= Funded' * SCALE
    BY <1>1, <1>3, <1>9, <1>10, <2>1
  <2> QED
    BY <1>7, <1>8, <2>2 DEF EpochInv

\* A seal opens the next epoch where the sealed one ended, with nothing funded.
LEMMA SealKeeps ==
    ASSUME EpochInv, now' = now, NEW by, NEW n \in EpochIds, NEW duration \in Durations,
           SealEpoch(by, n, duration)
    PROVE  EpochInv'
<1> DEFINE e == [epochs[n] EXCEPT !.sealedAt = now, !.dust = DustAtSeal(n),
                                  !.indexAtSeal = epochIndex,
                                  !.claimableAtSeal = ClaimableAtSeal(n)]
           new == Opened(NextStart(n), duration, epochs[n].carried + epochs[n].rewards)
<1>1. /\ n = currentEpoch /\ n < MaxEpochs /\ currentEpoch' = n + 1
      /\ epochs' = [epochs EXCEPT ![n] = e, ![n + 1] = new]
      /\ startIndex' = [startIndex EXCEPT ![n + 1] = epochIndex]
      /\ UNCHANGED <<epochSettings, epochStakes, epochIndex>> /\ EpochOver(n)
  BY DEF SealEpoch
<1>2. /\ n \in Nat /\ n >= 1 /\ n + 1 \in EpochIds /\ n \in 1..n /\ n # n + 1
      /\ epochs[n] \in EpochInfos /\ epochs \in [EpochIds -> EpochInfos \cup {None}]
      /\ \A m \in 1..n : m \in EpochIds /\ epochs[m] \in EpochInfos
  BY <1>1, EpochsOpened, EpochAssumption DEF EpochInv, EpochChain, EpochIds
<1>3. /\ now \in Nat /\ epochIndex \in Nat /\ epochTotal \in Nat
      /\ startIndex \in [EpochIds -> 0..epochIndex]
      /\ duration \in Nat
  BY EpochAssumption DEF EpochInv, EpochChain, EpochAccounts
<1>4. /\ epochs[n].start \in Nat /\ epochs[n].duration \in Nat /\ epochs[n].rewards \in Nat
      /\ epochs[n].carried \in Nat
  BY <1>2, EpochAssumption DEF EpochInfos
<1>5. ClaimableAtSeal(n) \in Nat /\ DustAtSeal(n) \in Nat
  <2>1. epochIndex - startIndex[n] \in Nat
    BY <1>3
  <2>2. ClaimableAtSeal(n) \in Nat
    BY <1>3, <2>1, ShareRounds DEF ClaimableAtSeal
  <2> QED
    BY <1>4, <2>2 DEF DustAtSeal
<1>6. /\ e \in EpochInfos /\ e.sealedAt = now /\ e.indexAtSeal = epochIndex
      /\ e.start = epochs[n].start /\ e.duration = epochs[n].duration
      /\ e.rewards = epochs[n].rewards /\ e.carried = epochs[n].carried
  <2> DEFINE r == epochs[n]
             x == DustAtSeal(n)
             y == ClaimableAtSeal(n)
  <2>1. e = [r EXCEPT !.sealedAt = now, !.dust = x, !.indexAtSeal = epochIndex,
                      !.claimableAtSeal = y]
    OBVIOUS
  <2>2. r \in EpochInfos /\ x \in Nat /\ y \in Nat
    BY <1>2, <1>5
  <2> HIDE DEF e, r, x, y
  <2>3. e \in EpochInfos
    BY <1>3, <2>1, <2>2 DEF EpochInfos
  <2>4. /\ e.sealedAt = now /\ e.indexAtSeal = epochIndex
        /\ e.start = r.start /\ e.duration = r.duration
        /\ e.rewards = r.rewards /\ e.carried = r.carried
    BY <2>1, <2>2 DEF EpochInfos
  <2> QED
    BY <2>3, <2>4 DEF r
<1>7. /\ new \in EpochInfos /\ new.rewards = 0 /\ new.sealedAt = None
      /\ new.start = epochs[n].start + epochs[n].duration
      /\ new.carried = epochs[n].carried + epochs[n].rewards
  BY <1>3, <1>4 DEF Opened, NextStart, EpochInfos
<1> HIDE DEF e, new
<1>8. /\ epochs'[n] = e /\ epochs'[n + 1] = new
      /\ \A m \in EpochIds : m # n /\ m # n + 1 => epochs'[m] = epochs[m]
      /\ epochs' \in [EpochIds -> EpochInfos \cup {None}]
      /\ e # None /\ new # None
  BY <1>1, <1>2, <1>6, <1>7, EpochAssumption
<1>9. /\ startIndex'[n + 1] = epochIndex /\ epochIndex' = epochIndex
      /\ \A m \in EpochIds : m # n + 1 => startIndex'[m] = startIndex[m]
      /\ startIndex' \in [EpochIds -> 0..epochIndex']
  BY <1>1, <1>2, <1>3
<1>10. EpochChain'
  <2>1. /\ now' \in Nat /\ epochOperator' \in Admins \cup {None} /\ epochPaused' \in BOOLEAN
        /\ currentEpoch' \in EpochIds /\ epochIndex' \in Nat
    BY <1>1, <1>2, <1>3 DEF epochSettings, EpochInv, EpochChain
  <2>2. ASSUME NEW m \in EpochIds PROVE (epochs'[m] # None) = (m <= currentEpoch')
    <3>1. m \in Nat /\ (epochs[m] # None) = (m <= n)
      BY <1>1 DEF EpochIds, EpochInv, EpochChain
    <3>2. CASE m = n \/ m = n + 1
      BY <1>1, <1>2, <1>8, <3>2
    <3>3. CASE m # n /\ m # n + 1
      BY <1>1, <1>2, <1>8, <3>1, <3>3
    <3> QED
      BY <3>2, <3>3
  <2>3. ASSUME NEW m \in 1 .. n
        PROVE  /\ epochs'[m].sealedAt \in epochs'[m + 1].start .. now'
               /\ epochs'[m + 1].start = epochs'[m].start + epochs'[m].duration
               /\ epochs'[m + 1].carried = epochs'[m].carried + epochs'[m].rewards
               /\ startIndex'[m + 1] = epochs'[m].indexAtSeal
    <3>1. CASE m = n
      <4>1. epochs[n].start + epochs[n].duration <= now
        BY <1>1, <1>3, <1>4 DEF EpochOver
      <4> QED
        BY <1>3, <1>4, <1>6, <1>7, <1>8, <1>9, <3>1, <4>1
    <3>2. CASE m < n
      <4>1. m \in 1 .. currentEpoch - 1 /\ m \in EpochIds /\ m + 1 \in EpochIds /\ m + 1 \in 1..n
            /\ m # n /\ m # n + 1 /\ m + 1 # n + 1
        BY <1>1, <1>2, <3>2
      <4>2. /\ epochs[m].sealedAt \in epochs[m + 1].start .. now
            /\ epochs[m + 1].start = epochs[m].start + epochs[m].duration
            /\ epochs[m + 1].carried = epochs[m].carried + epochs[m].rewards
            /\ startIndex[m + 1] = epochs[m].indexAtSeal
        BY <4>1 DEF EpochInv, EpochChain
      <4>3. /\ epochs'[m] = epochs[m] /\ startIndex'[m + 1] = startIndex[m + 1]
        BY <1>8, <1>9, <4>1
      <4>4. /\ epochs'[m + 1].start = epochs[m + 1].start
            /\ epochs'[m + 1].carried = epochs[m + 1].carried
        <5>1. CASE m + 1 = n
          BY <1>6, <1>8, <5>1
        <5>2. CASE m + 1 # n
          BY <1>8, <4>1, <5>2
        <5> QED
          BY <5>1, <5>2
      <4> QED
        BY <4>2, <4>3, <4>4
    <3> QED
      BY <1>2, <3>1, <3>2
  <2>4. 1 .. currentEpoch' - 1 = 1 .. n
    BY <1>1, <1>2
  <2>5. epochs'[currentEpoch'].sealedAt = None
    BY <1>1, <1>7, <1>8
  <2> QED
    BY <1>8, <1>9, <2>1, <2>2, <2>3, <2>4, <2>5 DEF EpochChain
<1>11. EpochAccounts' /\ SumOf(EpochOwedBy)' = SumOf(EpochOwedBy)
  <2>1. /\ epochStake' = epochStake /\ epochTotal' = epochTotal /\ unclaimed' = unclaimed
        /\ claimed' = claimed /\ epochIndex' = epochIndex
    BY <1>1 DEF epochStakes
  <2>2. SumOf(EpochAmounts)' = SumOf(EpochAmounts) /\ SumOf(EpochOwedBy)' = SumOf(EpochOwedBy)
    BY <2>1 DEF SumOf, EpochAmounts, EpochOwedBy, Owed
  <2> QED
    BY <2>1, <2>2 DEF EpochInv, EpochAccounts
<1>12. Funded' = Funded
  <2> DEFINE f == EpochFunds
             g == EpochFunds'
             S == 1..n
             k == n + 1
  <2>1. /\ IsFiniteSet(S) /\ Funded = SumFunctionOnSet(f, S) /\ Funded \in Nat
        /\ \A m \in S : f[m] = epochs[m].rewards /\ f[m] \in Int
    BY <1>1, EpochsOpened DEF EpochInv
  <2>2. currentEpoch' = k /\ 1..k = S \cup {k} /\ k \notin S
    BY <1>1, <1>2
  <2>3. Funded' = SumFunctionOnSet(g, S \cup {k})
    BY <2>2 DEF Funded, EpochFunds
  <2>4. \A m \in S \cup {k} : g[m] = epochs'[m].rewards
    BY <2>2 DEF EpochFunds
  <2>5. \A m \in S : g[m] = f[m]
    <3> SUFFICES ASSUME NEW m \in S PROVE g[m] = f[m]
      OBVIOUS
    <3>1. g[m] = epochs'[m].rewards /\ f[m] = epochs[m].rewards /\ m \in EpochIds
      BY <1>2, <2>1, <2>4
    <3>2. CASE m = n
      BY <1>6, <1>8, <3>1, <3>2
    <3>3. CASE m # n
      BY <1>2, <1>8, <2>2, <3>1, <3>3
    <3> QED
      BY <3>2, <3>3
  <2>6. g[k] = 0
    BY <1>7, <1>8, <2>4
  <2> HIDE DEF f, g, S, k
  <2>7. \A m \in S : f[m] \in Int /\ f[m] = g[m]
    BY <2>1, <2>5
  <2>8. SumFunctionOnSet(g, S \cup {k}) = SumFunctionOnSet(g, S) + g[k]
    <3>1. ASSUME NEW m \in S \cup {k} PROVE g[m] \in Int
      <4>1. CASE m \in S
        BY <2>7, <4>1
      <4>2. CASE m = k
        BY <2>6, <4>2
      <4> QED
        BY <4>1, <4>2
    <3>2. IsFiniteSet(S) /\ k \notin S
      BY <2>1, <2>2
    <3> QED
      BY <3>1, <3>2, SumWithOneMore
  <2>9. SumFunctionOnSet(f, S) = SumFunctionOnSet(g, S)
    BY <2>1, <2>7, SumAgrees
  <2> QED
    BY <2>1, <2>3, <2>6, <2>8, <2>9
<1> QED
  BY <1>10, <1>11, <1>12 DEF EpochInv

\* Time and the settings move no reward.
LEMMA EpochIdleKeep ==
    ASSUME EpochInv, now' \in Nat, now' >= now,
           UNCHANGED <<epochStakes, epochBooks, epochIndex>>,
           epochOperator' \in Admins \cup {None}, epochPaused' \in BOOLEAN
    PROVE  EpochInv'
<1>1. UNCHANGED <<epochTotal, epochStake, unclaimed, claimed, currentEpoch, epochs, startIndex, epochIndex>>
  BY DEF epochStakes, epochBooks
<1>2. EpochChain'
  <2>1. ASSUME NEW m \in 1 .. currentEpoch - 1
        PROVE  epochs[m].sealedAt \in epochs[m + 1].start .. now'
    <3>1. epochs[m].sealedAt \in epochs[m + 1].start .. now /\ now \in Nat
      BY DEF EpochInv, EpochChain
    <3> QED
      BY <3>1
  <2> QED
    BY <1>1, <2>1 DEF EpochInv, EpochChain
<1>3. /\ SumOf(EpochAmounts)' = SumOf(EpochAmounts) /\ SumOf(EpochOwedBy)' = SumOf(EpochOwedBy)
      /\ Funded' = Funded
  BY <1>1 DEF SumOf, EpochAmounts, EpochOwedBy, Owed, Funded
<1>4. EpochAccounts'
  BY <1>1, <1>3 DEF EpochInv, EpochAccounts
<1> QED
  BY <1>2, <1>3, <1>4 DEF EpochInv

\* Every entry point of epoch_rewards keeps the invariant.
LEMMA EpochKeeps ==
    ASSUME EpochInv, [EpochNext]_<<now, epochVars>>
    PROVE  EpochInv'
<1>1. now \in Nat /\ epochOperator \in Admins \cup {None} /\ epochPaused \in BOOLEAN
  BY DEF EpochInv, EpochChain
<1>2. CASE EpochTick \/ UNCHANGED <<now, epochVars>>
  <2>1. /\ now' \in Nat /\ now' >= now /\ UNCHANGED <<epochStakes, epochBooks, epochIndex>>
        /\ epochOperator' \in Admins \cup {None} /\ epochPaused' \in BOOLEAN
    BY <1>1, <1>2 DEF EpochTick, Tick, epochVars, epochSettings
  <2> QED
    BY <2>1, EpochIdleKeep
<1>3. ASSUME now' = now, NEW by \in Admins,
             \/ \E a \in Admins : EpochSetOperator(by, a)
             \/ \E flag \in BOOLEAN : EpochSetPaused(by, flag)
      PROVE  EpochInv'
  <2>1. /\ now' \in Nat /\ now' >= now /\ UNCHANGED <<epochStakes, epochBooks, epochIndex>>
        /\ epochOperator' \in Admins \cup {None} /\ epochPaused' \in BOOLEAN
    BY <1>1, <1>3 DEF EpochSetOperator, EpochSetPaused
  <2> QED
    BY <2>1, EpochIdleKeep
<1>4. CASE /\ now' = now
           /\ \E u \in Users : EpochClaim(u) \/ \E amount \in Amounts :
                                 EpochStakeMore(u, amount) \/ EpochUnstake(u, amount)
  BY <1>4, EpochStakesKeep
<1>5. CASE /\ now' = now
           /\ \E by \in Admins :
                \/ \E amount \in Amounts : FundEpochRewards(by, amount)
                \/ \E n \in EpochIds, duration \in Durations : SealEpoch(by, n, duration)
  BY <1>5, EpochFundKeeps, SealKeeps
<1> QED
  BY <1>2, <1>3, <1>4, <1>5 DEF EpochNext

\* The stakers never get, in claims and in what they may still claim, more than
\* the epochs were funded with, however stakes, seals and claims interleave.
THEOREM EarningsAlwaysFunded == EpochSpec => []EarningsFunded
<1>1. now = 0 /\ EpochInit => EpochInv
  BY EpochStart
<1>2. EpochInv /\ [EpochNext]_<<now, epochVars>> => EpochInv'
  BY EpochKeeps
<1>3. EpochInv => EarningsFunded
  <2> SUFFICES ASSUME EpochInv PROVE EarningsFunded
    OBVIOUS
  <2> DEFINE e == [u \in Users |-> claimed[u] + EpochClaimable(u)]
             f == EpochOwedBy
  <2>1. \A u \in Users : e[u] \in Nat /\ f[u] \in Nat /\ e[u] * SCALE <= f[u]
    BY EpochUser DEF EpochInv
  <2>2. SumOf(f) <= Funded * SCALE /\ Funded \in Nat /\ SCALE \in Nat /\ SCALE > 0
    BY StakeLedgerAssumption, EpochsOpened DEF EpochInv
  <2> HIDE DEF e, f
  <2>3. SumOf(e) \in Nat /\ SumOf(f) \in Nat /\ SumOf(e) * SCALE <= SumOf(f)
    BY <2>1, AllCovered
  <2>4. SumOf(e) * SCALE \in Int /\ Funded * SCALE \in Int
    BY <2>2, <2>3
  <2>5. SumOf(e) * SCALE < Funded * SCALE + SCALE
    BY <2>2, <2>3, <2>4
  <2>6. SumOf(e) <= Funded
    BY <2>2, <2>3, <2>5, Unscaled
  <2> QED
    BY <2>6 DEF e, EarningsFunded
<1> QED
  BY <1>1, <1>2, <1>3, PTL DEF EpochSpec

-----------------------------------------------------------------------------
\* The four contracts side by side: a step of one is a step of it and leaves the
\* others, time apart, as they are.
StakingInv == PoolInv /\ MvpInv /\ RewardsInv /\ EpochInv

\* A step of the instance is, for each contract, a step of its own or a tick.
LEMMA StakingSteps ==
    ASSUME [StakingNext]_StakingVars
    PROVE  /\ [PoolNext]_PoolState /\ [MvpNext]_mvpVars /\ [RewardsNext]_rewardsVars
           /\ [EpochNext]_<<now, epochVars>>
<1>1. CASE UNCHANGED StakingVars
  BY <1>1 DEF StakingVars, PoolState
<1>2. CASE PoolNext /\ UNCHANGED <<rewardsVars, mvpVars, epochVars>>
  <2>1. CASE PoolTick
    BY <1>2, <2>1 DEF PoolTick, EpochTick, EpochNext
  <2>2. CASE now' = now
    BY <1>2, <2>2
  <2>3. PoolTick \/ now' = now
    BY <1>2 DEF PoolNext, PoolStakeNext, PoolSettingNext, PoolStake, PoolUnstake,
                PoolSetOperator, PoolSetAdmin, SetLockPeriod, PoolPause, PoolUnpause
  <2> QED
    BY <2>1, <2>2, <2>3
<1>3. CASE RewardsNext /\ UNCHANGED <<poolVars, mvpVars, epochVars>>
  BY <1>3 DEF RewardsNext, PoolState
<1>4. CASE MvpNext /\ UNCHANGED <<poolVars, rewardsVars, epochVars>>
  BY <1>4 DEF MvpNext, PoolState
<1>5. CASE EpochNext /\ UNCHANGED <<poolVars, rewardsVars, mvpVars>>
  <2>1. CASE EpochTick
    BY <1>5, <2>1 DEF PoolTick, EpochTick, PoolNext
  <2>2. CASE now' = now
    BY <1>5, <2>2 DEF PoolState
  <2> QED
    BY <1>5, <2>1, <2>2 DEF EpochNext
<1> QED
  BY <1>1, <1>2, <1>3, <1>4, <1>5 DEF StakingNext

\* All four right after init.
LEMMA StakingStart == StakingInit => StakingInv
  BY PoolStart, MvpStart, RewardsStart, EpochStart DEF StakingInit, StakingInv

\* No step of one contract breaks the invariant of any.
LEMMA StakingKeeps == StakingInv /\ [StakingNext]_StakingVars => StakingInv'
  BY StakingSteps, PoolKeeps, MvpKeeps, RewardsKeep, EpochKeeps DEF StakingInv, RewardsStep

\* The entries of all four contracts stay well-formed, whatever the users,
\* amounts, deposits and epochs: no user is ahead of the global index, only used
\* slots hold deposits, and the epochs form a chain.
THEOREM StakingWellFormed == StakingSpec => []StakingTypeOK
<1>1. StakingInv => StakingTypeOK
  BY EpochTyped DEF StakingInv, StakingTypeOK, PoolInv, PoolTypeOK, MvpInv, RewardsInv
<1> QED
  BY <1>1, StakingStart, StakingKeeps, PTL DEF StakingSpec

\* Stakes and rewards are in custody in both pools: a vault's every promise.
THEOREM StakesKeptInCustody == StakingSpec => StakesInCustody
<1>1. StakingInit => PoolVault!VaultInit /\ MvpVault!VaultInit
  BY PoolVaultStart, MvpVaultStart DEF StakingInit
<1>2. StakingInv /\ [StakingNext]_StakingVars =>
        /\ [PoolVault!VaultNext]_(PoolVault!vaultVars)
        /\ [MvpVault!VaultNext]_(MvpVault!vaultVars)
  BY StakingSteps, PoolMoves, MvpMoves DEF StakingInv
<1> QED
  BY <1>1, <1>2, StakingStart, StakingKeeps, PTL
  DEF StakingSpec, StakesInCustody, PoolImplementsVault, MvpImplementsVault,
      PoolVault!VaultSpec, MvpVault!VaultSpec
=============================================================================
