---------------------------- MODULE StakingPool ----------------------------
(***************************************************************************)
(* The staking_pool contract: stakes kept as separate deposits with their  *)
(* own lock, unstaking that consumes unlocked deposits in index order, the *)
(* operator who acts for stakers, the admin's settings and the pause.      *)
(*                                                                         *)
(* One action is one contract invocation, as in DealEscrow.  Left out:     *)
(* events and the stateless receipt hashing.  The upgrade entry points are *)
(* modelled in UpgradeGovernance.                                          *)
(***************************************************************************)
EXTENDS StakeLedger

CONSTANTS
    Void,           \* an entry holding Option::None
    LockPeriods,    \* lock periods callers pass
    MaxLockPeriod,  \* 31_536_000 in the code
    MaxDeposits     \* bound on DepositCount

Deposits == [amount : Nat \ {0}, timestamp : Nat]

Slots == 0 .. MaxDeposits - 1

ASSUME PoolAssumption ==
    /\ LockPeriods \subseteq Nat /\ MaxLockPeriod \in Nat /\ MaxDeposits \in Nat
    /\ None # Void /\ Void \notin Addresses
    /\ None \notin Deposits

VARIABLES
    token,          \* the token contract's balances (external)
    poolAdmin, poolOperator, poolPaused, lockPeriod,
    stakedBalance, totalStaked,
    depositCount, deposit

poolSettings == <<poolAdmin, poolOperator, poolPaused, lockPeriod>>
poolStakes   == <<stakedBalance, totalStaked, depositCount, deposit>>
poolVars     == <<token, poolSettings, poolStakes>>

PoolInit ==
    /\ token = StartTokens
    /\ poolAdmin = Admin /\ poolOperator = None /\ poolPaused = FALSE /\ lockPeriod = 0
    /\ stakedBalance = [u \in Users |-> 0] /\ totalStaked = 0
    /\ depositCount = [u \in Users |-> 0]
    /\ deposit = [u \in Users |-> [i \in Slots |-> None]]

-----------------------------------------------------------------------------
\* get_operator reads the entry as an address.  An entry that holds Void, the
\* stored form of None, does not convert and traps: no guard with it holds.
OperatorReadable == poolOperator # Void

\* require_user_or_operator: with an operator only it may sign, without one
\* only the user.
Authorized(u, by) ==
    /\ OperatorReadable
    /\ IF poolOperator # None THEN poolOperator \in by ELSE u \in by

\* The deposit's own lock has run out, under the lock period now in force.
Unlocked(d) == lockPeriod = 0 \/ now >= d.timestamp + lockPeriod

UnlockedSlots(u) == {i \in Slots : deposit[u][i] # None /\ Unlocked(deposit[u][i])}

AmountIn(u, slots) == SumFunctionOnSet([i \in slots |-> deposit[u][i].amount], slots)

UnlockedBalance(u) == AmountIn(u, UnlockedSlots(u))

-----------------------------------------------------------------------------
\* What a stake leaves: the user's balance and the total; and its slot.
BalanceAfterStakeOverwrites(u, amount) == amount
BalanceAfterStake(u, amount) == stakedBalance[u] + amount
TotalAfterStake(u, amount) == totalStaked + amount
StakeSlot(u) == depositCount[u]

\* The token contract asks for the user's signature too.  Bound: at most
\* MaxDeposits deposits per user.
PoolStake(by, u, amount) ==
    /\ ~poolPaused
    /\ Authorized(u, by)
    /\ depositCount[u] < MaxDeposits
    /\ u \in by
    /\ Covers(token, u, amount) /\ token' = Moved(token, u, Pool, amount)
    /\ stakedBalance' = [stakedBalance EXCEPT ![u] = BalanceAfterStake(u, amount)]
    /\ totalStaked' = TotalAfterStake(u, amount)
    /\ deposit' = [deposit EXCEPT ![u][StakeSlot(u)] = [amount |-> amount, timestamp |-> now]]
    /\ depositCount' = [depositCount EXCEPT ![u] = @ + 1]
    /\ UNCHANGED <<now, poolSettings>>

\* What the second loop of unstake leaves of slot i, when the slots of the loop
\* before it (earlier) cover what they can of the amount.
SlotCharged(u, amount, i, earlier) ==
    LET before == AmountIn(u, earlier)
        d == deposit[u][i]
    IN  IF d = None \/ before >= amount THEN d
        ELSE IF before + d.amount <= amount THEN None
        ELSE [d EXCEPT !.amount = @ - (amount - before)]

SlotAfterNewest(u, amount, i) ==
    IF i \in UnlockedSlots(u)
    THEN SlotCharged(u, amount, i, {j \in UnlockedSlots(u) : j > i})
    ELSE deposit[u][i]
SlotAfter(u, amount, i) ==
    IF i \in UnlockedSlots(u)
    THEN SlotCharged(u, amount, i, {j \in UnlockedSlots(u) : j < i})
    ELSE deposit[u][i]

PoolUnstake(by, u, amount) ==
    /\ ~poolPaused
    /\ Authorized(u, by)
    /\ stakedBalance[u] >= amount
    /\ UnlockedBalance(u) >= amount
    /\ deposit' = [deposit EXCEPT ![u] = [i \in Slots |-> SlotAfter(u, amount, i)]]
    /\ stakedBalance' = [stakedBalance EXCEPT ![u] = @ - amount]
    /\ totalStaked' = totalStaked - amount
    /\ Covers(token, Pool, amount) /\ token' = Moved(token, Pool, u, amount)
    /\ UNCHANGED <<now, poolSettings, depositCount>>

-----------------------------------------------------------------------------
\* The admin's settings; the stored admin has to sign.
\* The old operator is read for the event, so Void is never replaced.
PoolSetOperator(by, op) ==
    /\ poolAdmin \in by
    /\ OperatorReadable
    /\ poolOperator' = op
    /\ UNCHANGED <<now, token, poolAdmin, poolPaused, lockPeriod, poolStakes>>

PoolSetAdmin(by, a) ==
    /\ poolAdmin \in by
    /\ poolAdmin' = a
    /\ UNCHANGED <<now, token, poolOperator, poolPaused, lockPeriod, poolStakes>>

\* The new period holds for existing deposits too.
SetLockPeriod(by, seconds) ==
    /\ poolAdmin \in by
    /\ seconds <= MaxLockPeriod
    /\ lockPeriod' = seconds
    /\ UNCHANGED <<now, token, poolAdmin, poolOperator, poolPaused, poolStakes>>

PoolPause(by) ==
    /\ poolAdmin \in by
    /\ poolPaused' = TRUE
    /\ UNCHANGED <<now, token, poolAdmin, poolOperator, lockPeriod, poolStakes>>

PoolUnpause(by) ==
    /\ poolAdmin \in by
    /\ poolPaused' = FALSE
    /\ UNCHANGED <<now, token, poolAdmin, poolOperator, lockPeriod, poolStakes>>

PoolTick == Tick /\ UNCHANGED poolVars

PoolStakeNext(by) == \E u \in Users, amount \in Amounts :
                    PoolStake(by, u, amount) \/ PoolUnstake(by, u, amount)

PoolSettingNext(by) ==
    \/ \E op \in Admins \cup {Void} : PoolSetOperator(by, op)
    \/ \E a \in Admins : PoolSetAdmin(by, a)
    \/ \E seconds \in LockPeriods : SetLockPeriod(by, seconds)
    \/ PoolPause(by)
    \/ PoolUnpause(by)

\* No entry point asks for more than two signatures.
PoolSigners == {{a, b} : a, b \in Addresses}

PoolNext == PoolTick \/ \E by \in PoolSigners : PoolStakeNext(by) \/ PoolSettingNext(by)

PoolSpec == now = 0 /\ PoolInit /\ [][PoolNext]_<<now, poolVars>>

-----------------------------------------------------------------------------
\* Entries have the types the getters read; every live deposit is positive.
PoolTypeOK ==
    /\ now \in 0..MaxTime
    /\ token \in [Addresses \cup {Pool} -> Nat]
    /\ poolAdmin \in Admins /\ poolOperator \in Admins \cup {None, Void}
    /\ poolPaused \in BOOLEAN /\ lockPeriod \in 0..MaxLockPeriod
    /\ stakedBalance \in [Users -> Nat] /\ totalStaked \in Nat
    /\ depositCount \in [Users -> 0..MaxDeposits]
    /\ deposit \in [Users -> [Slots -> Deposits \cup {None}]]
    /\ \A u \in Users, i \in Slots : i >= depositCount[u] => deposit[u][i] = None

LiveSlots(u) == {i \in Slots : deposit[u][i] # None}

\* The three copies of the money agree: a user's balance is the sum of the
\* user's deposits, TotalStaked the sum of the balances, and the pool holds it.
\* So whatever is unlocked can be paid out.
StakesBacked ==
    /\ \A u \in Users : stakedBalance[u] = AmountIn(u, LiveSlots(u))
    /\ totalStaked = SumOf(stakedBalance)
    /\ token[Pool] = totalStaked

\* No step touches a deposit that is still locked, neither an unstake that
\* spans several deposits nor any other entry point.
LockedDepositStays ==
    [][\A u \in Users : \A i \in LiveSlots(u) :
         ~Unlocked(deposit[u][i]) => deposit'[u][i] = deposit[u][i]]_<<now, poolVars>>

\* Deposits are consumed in the order they were made: when one loses money,
\* every unlocked one before it is used up.
OldestFirst ==
    [][\A u \in Users : \A i \in LiveSlots(u) :
         deposit'[u][i] # deposit[u][i] =>
            \A j \in UnlockedSlots(u) : j < i => deposit'[u][j] = None]_<<now, poolVars>>

\* An unstake takes from the oldest deposits that are not locked, and from no
\* other.  Each deposit has a lock of its own: a later stake does not lock an
\* earlier one again, as the contract's README says it would.
DepositsInOrder == LockedDepositStays /\ OldestFirst

\* The contract keeps custody of its stakers' money as CustodyVault says.
PoolVault == INSTANCE CustodyVault WITH
            Accounts <- Users, Total <- SumOf, book <- stakedBalance, holding <- token[Pool]

\* Every step is a step of the vault or leaves it alone.
PoolImplementsVault == PoolVault!VaultSpec
=============================================================================
