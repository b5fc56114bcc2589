---------------------------- MODULE LedgerClock ----------------------------
(***************************************************************************)
(* What several contracts share: the timestamp of the ledger an invocation *)
(* runs in, the absence of a storage entry, and basis points.              *)
(***************************************************************************)
EXTENDS Integers

CONSTANTS
    None,           \* absent storage entry
    FullBps,        \* a whole in basis points, 10_000
    MaxTime         \* bound on the ledger timestamp

ASSUME LedgerAssumption == MaxTime \in Nat /\ FullBps \in Nat \ {0}

VARIABLE now        \* ledger timestamp

Tick == now < MaxTime /\ now' = now + 1
=============================================================================
