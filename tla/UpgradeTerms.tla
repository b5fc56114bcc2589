---------------------------- MODULE UpgradeTerms ----------------------------
(* What the two upgrade protocols speak of. *)
EXTENDS LedgerClock

CONSTANTS
    Signatories,    \* whoever may sign an invocation
    Admin,          \* the admin init stores
    Hashes,         \* WASM hashes
    UpgradeDelays

ASSUME UpgradeTermsAssumption ==
    /\ Admin \in Signatories /\ None \notin Signatories \cup Hashes \cup Nat
    /\ UpgradeDelays \subseteq Nat
=============================================================================
