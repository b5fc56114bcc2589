----------------------------- MODULE RentWallet -----------------------------
(***************************************************************************)
(* The rent_wallet contract: balances the admin credits and debits, with a *)
(* cap on what is debited from a wallet within one period of 30 days.  The *)
(* contract keeps accounts only.  Its upgrade entry points are modelled in *)
(* UpgradeGovernance.  Left out: events, and the overflow of i128.         *)
(***************************************************************************)
EXTENDS Parties

CONSTANTS
    MonthLength,    \* SECONDS_PER_MONTH
    Caps            \* monthly caps the admin passes; 0 means no cap

Months == 0 .. MaxTime \div MonthLength

ASSUME WalletAssumption == MonthLength \in Nat \ {0} /\ Caps \subseteq Nat

VARIABLES
    walletAdmin, walletPaused, wallet,
    capDefault,     \* MonthlyCapDefault, 0 when unset
    capOverride,    \* MonthlyCapOverride by user
    monthlySpent,   \* MonthlySpent by user and month
    cappedDebits    \* history: what was debited by user and month under a cap

capVars    == <<capDefault, capOverride>>
walletVars == <<walletAdmin, walletPaused, wallet, capVars, monthlySpent, cappedDebits>>

WalletInit ==
    /\ walletAdmin = Admin /\ walletPaused = FALSE /\ wallet = [u \in Parties |-> 0]
    /\ capDefault = 0 /\ capOverride = [u \in Parties |-> None]
    /\ monthlySpent = [u \in Parties |-> [m \in Months |-> 0]]
    /\ cappedDebits = [u \in Parties |-> [m \in Months |-> 0]]

-----------------------------------------------------------------------------
\* current_month_key
Month == now \div MonthLength

EffectiveCap(u) == IF capOverride[u] # None THEN capOverride[u] ELSE capDefault

Capped(u) == EffectiveCap(u) # 0

WithinCapAlone(u, amount) == Capped(u) => amount <= EffectiveCap(u)
WithinCap(u, amount) == Capped(u) => monthlySpent[u][Month] + amount <= EffectiveCap(u)

\* Bound: MaxBalance.
Credit(by, u, amount) ==
    /\ by = walletAdmin /\ ~walletPaused
    /\ wallet[u] + amount <= MaxBalance
    /\ wallet' = [wallet EXCEPT ![u] = @ + amount]
    /\ UNCHANGED <<walletAdmin, walletPaused, capVars, monthlySpent, cappedDebits>>

\* Nothing is recorded while no cap is in force.
Debit(by, u, amount) ==
    /\ by = walletAdmin /\ ~walletPaused
    /\ wallet[u] >= amount
    /\ WithinCap(u, amount)
    /\ wallet' = [wallet EXCEPT ![u] = @ - amount]
    /\ IF Capped(u) THEN /\ monthlySpent' = [monthlySpent EXCEPT ![u][Month] = @ + amount]
                         /\ cappedDebits' = [cappedDebits EXCEPT ![u][Month] = @ + amount]
       ELSE UNCHANGED <<monthlySpent, cappedDebits>>
    /\ UNCHANGED <<walletAdmin, walletPaused, capVars>>

SetWalletAdmin(by, a) ==
    /\ by = walletAdmin
    /\ walletAdmin' = a
    /\ UNCHANGED <<walletPaused, wallet, capVars, monthlySpent, cappedDebits>>

SetWalletPaused(by, flag) ==
    /\ by = walletAdmin
    /\ walletPaused' = flag
    /\ UNCHANGED <<walletAdmin, wallet, capVars, monthlySpent, cappedDebits>>

\* Also while paused, and for the month that is running.
SetDefaultMonthlyCap(by, cap) ==
    /\ by = walletAdmin
    /\ capDefault' = cap
    /\ UNCHANGED <<walletAdmin, walletPaused, wallet, capOverride, monthlySpent, cappedDebits>>

SetUserMonthlyCap(by, u, cap) ==
    /\ by = walletAdmin
    /\ capOverride' = [capOverride EXCEPT ![u] = cap]
    /\ UNCHANGED <<walletAdmin, walletPaused, wallet, capDefault, monthlySpent, cappedDebits>>

WalletNext ==
    \/ Tick /\ UNCHANGED walletVars
    \/ /\ \E by \in Callers :
            \/ \E u \in Parties, amount \in Amounts : Credit(by, u, amount) \/ Debit(by, u, amount)
            \/ \E a \in Callers : SetWalletAdmin(by, a)
            \/ \E flag \in BOOLEAN : SetWalletPaused(by, flag)
            \/ \E cap \in Caps : \/ SetDefaultMonthlyCap(by, cap)
                                 \/ \E u \in Parties : SetUserMonthlyCap(by, u, cap)
       /\ UNCHANGED now

WalletSpec == now = 0 /\ WalletInit /\ [][WalletNext]_<<now, walletVars>>

-----------------------------------------------------------------------------
\* Entries have the types the getters read.
WalletTypeOK ==
    /\ walletAdmin \in Callers /\ walletPaused \in BOOLEAN
    /\ wallet \in [Parties -> 0..MaxBalance]
    /\ capDefault \in Nat /\ capOverride \in [Parties -> Nat \cup {None}]
    /\ monthlySpent \in [Parties -> [Months -> Nat]]

\* However caps are raised, lowered, lifted and set again within a month, no
\* debit takes what left a wallet under a cap this month beyond the cap now in
\* force: the debits of several invocations count together.
MonthlyCapHolds ==
    [][\A u \in Parties :
         wallet'[u] < wallet[u] /\ Capped(u) =>
            cappedDebits[u][Month] + wallet[u] - wallet'[u] <= EffectiveCap(u)]_walletVars
=============================================================================
