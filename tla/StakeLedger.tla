---------------------------- MODULE StakeLedger ----------------------------
(***************************************************************************)
(* What the staking contracts share: stakers, the amounts they pass, the   *)
(* scale of a reward index, and transfers in the token contract.           *)
(***************************************************************************)
EXTENDS LedgerClock, Functions, FiniteSets

CONSTANTS
    Users,          \* stakers
    Admins,         \* addresses that may be made admin or operator
    Admin,          \* the admin init stores
    Pool,           \* the address of the contract that holds the stakes
    Amounts,        \* amounts callers pass
    Supply,         \* tokens each user, and the admin, starts with
    SCALE,          \* scale of a reward index, 10^9 or 10^12 in the code
    MaxStaked,      \* bound on the total staked
    MaxFunded       \* bound on the total funded

Addresses == Users \cup Admins

ASSUME StakeLedgerAssumption ==
    /\ IsFiniteSet(Users)
    /\ Amounts \subseteq Nat \ {0} /\ Supply \in Nat
    /\ SCALE \in Nat \ {0} /\ MaxStaked \in Nat /\ MaxFunded \in Nat
    /\ Admin \in Admins /\ Pool \notin Addresses /\ None \notin Addresses \cup {Pool}

\* The token contract (external): everybody's balance at the start, and the
\* balances after a transfer, which aborts the invocation unless the payer
\* covers it.
StartTokens == [a \in Addresses \cup {Pool} |-> IF a \in Users \cup {Admin} THEN Supply ELSE 0]

Covers(balances, from, amount) == balances[from] >= amount

Moved(balances, from, to, amount) ==
    [balances EXCEPT ![from] = @ - amount, ![to] = @ + amount]

SumOf(f) == SumFunctionOnSet(f, Users)

\* What a stake of amount earns while an index grows by delta.
Share(amount, delta) == (amount * delta) \div SCALE
=============================================================================
