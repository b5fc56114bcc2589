------------------------------ MODULE Parties ------------------------------
(***************************************************************************)
(* What the contracts about tenancies, rewards and records share: who      *)
(* calls them, and the amounts they pass.                                  *)
(***************************************************************************)
EXTENDS LedgerClock, Functions, FiniteSets, Sequences

CONSTANTS
    Parties,        \* addresses of tenants, landlords, inspectors, reporters
    Admin,          \* the admin init stores
    Amounts,        \* amounts callers pass
    MaxBalance      \* bound on what an account holds

Callers == Parties \cup {Admin}

ASSUME PartiesAssumption ==
    /\ Amounts \subseteq Nat \ {0} /\ MaxBalance \in Nat /\ None \notin Callers
    /\ None \notin Nat

\* The sum of f over a finite set of keys.
SumOver(f, keys) == SumFunctionOnSet(f, keys)

AtMost(m, n) == IF m <= n THEN m ELSE n
=============================================================================
