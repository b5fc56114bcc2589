--------------------------- MODULE InspectorBond ---------------------------
(***************************************************************************)
(* The inspector_bond contract: bonds of inspectors, which the admin       *)
(* slashes at once, or by a proposal that waits for a challenge window.    *)
(* The contract keeps accounts only: it moves no tokens, and its           *)
(* reentrancy guard, taken when the work is done, is never found taken.    *)
(* Left out: events, report ids and reasons.                               *)
(***************************************************************************)
EXTENDS Parties

CONSTANTS
    Inspectors,     \* addresses that stake a bond
    MinBonds,       \* minimum bonds init and set_min_bond are called with
    PenaltyRates,   \* slash_penalty_bps values init is called with
    LockTimes,      \* unstake_lock_days, in seconds
    ChallengeWindows,
    MaxSlashes      \* bound on the slash ids, and on the slashes of a bond

Severities == {"Low", "Medium", "High"}

Bonds == [amount : Nat, lockedUntil : Nat, slashes : Nat]

PendingSlashes == [inspector : Inspectors, penalty : Nat, deadline : Nat,
                   status : {"Pending", "Finalized", "Cancelled"}]

ASSUME InspectorAssumption ==
    /\ MinBonds \cup PenaltyRates \cup LockTimes \cup ChallengeWindows \subseteq Nat
    /\ MaxSlashes \in Nat /\ None \notin Bonds

VARIABLES
    inspectorsPaused, minBond, penaltyBps, lockTime, inspectorWindow,
    bond,           \* Bond by inspector
    pendingSlash    \* PendingInspectorSlash by id, NextSlashId being its length

inspectorTerms == <<penaltyBps, lockTime>>
inspectorVars  == <<inspectorsPaused, minBond, inspectorTerms, inspectorWindow, bond, pendingSlash>>

InspectorInit ==
    /\ inspectorsPaused = FALSE /\ minBond \in MinBonds
    /\ penaltyBps \in PenaltyRates /\ lockTime \in LockTimes
    /\ inspectorWindow \in ChallengeWindows
    /\ bond = [i \in Inspectors |-> None] /\ pendingSlash = <<>>

-----------------------------------------------------------------------------
\* tier_penalty_bps
TierBps(severity) ==
    CASE severity = "Low"    -> (penaltyBps * 25) \div 100
      [] severity = "Medium" -> (penaltyBps * 50) \div 100
      [] severity = "High"   -> penaltyBps

Penalty(i, bps) == AtMost((bond[i].amount * bps) \div FullBps, bond[i].amount)

\* A further stake locks the whole bond anew.  Bound: MaxBalance.
StakeBond(i, amount) ==
    /\ ~inspectorsPaused
    /\ amount >= minBond
    /\ LET held == IF bond[i] = None THEN 0 ELSE bond[i].amount IN
       /\ held + amount <= MaxBalance
       /\ bond' = [bond EXCEPT ![i] =
             [amount |-> held + amount, lockedUntil |-> now + lockTime,
              slashes |-> IF bond[i] = None THEN 0 ELSE bond[i].slashes]]
    /\ UNCHANGED <<inspectorsPaused, minBond, inspectorTerms, inspectorWindow, pendingSlash>>

\* Also while paused, and while a slash is proposed; not below the minimum.
UnstakeBond(i) ==
    /\ bond[i] # None
    /\ bond[i].amount >= minBond
    /\ now >= bond[i].lockedUntil
    /\ bond' = [bond EXCEPT ![i] = None]
    /\ UNCHANGED <<inspectorsPaused, minBond, inspectorTerms, inspectorWindow, pendingSlash>>

\* Bound: MaxSlashes.
SlashedBy(i, amount) ==
    /\ bond[i].slashes < MaxSlashes
    /\ bond' = [bond EXCEPT ![i].amount = @ - AtMost(amount, @), ![i].slashes = @ + 1]

SlashInspector(by, i) ==
    /\ by = Admin
    /\ bond[i] # None
    /\ SlashedBy(i, Penalty(i, penaltyBps))
    /\ UNCHANGED <<inspectorsPaused, minBond, inspectorTerms, inspectorWindow, pendingSlash>>

\* Bound: MaxSlashes.
ProposeInspectorSlash(by, i, severity) ==
    /\ by = Admin
    /\ bond[i] # None
    /\ Len(pendingSlash) < MaxSlashes
    /\ pendingSlash' = Append(pendingSlash,
          [inspector |-> i, penalty |-> Penalty(i, TierBps(severity)),
           deadline |-> now + inspectorWindow, status |-> "Pending"])
    /\ UNCHANGED <<inspectorsPaused, minBond, inspectorTerms, inspectorWindow, bond>>

UnresolvedUnlessCancelled(id) == pendingSlash[id].status # "Cancelled"
Unresolved(id) == pendingSlash[id].status = "Pending"

\* Of whatever bond the inspector has by then.
FinalizeInspectorSlash(by, id) ==
    /\ by = Admin
    /\ Unresolved(id)
    /\ now >= pendingSlash[id].deadline
    /\ bond[pendingSlash[id].inspector] # None
    /\ SlashedBy(pendingSlash[id].inspector, pendingSlash[id].penalty)
    /\ pendingSlash' = [pendingSlash EXCEPT ![id].status = "Finalized"]
    /\ UNCHANGED <<inspectorsPaused, minBond, inspectorTerms, inspectorWindow>>

\* Also when the challenge window is over.
CancelInspectorSlash(by, id) ==
    /\ by = Admin
    /\ Unresolved(id)
    /\ pendingSlash' = [pendingSlash EXCEPT ![id].status = "Cancelled"]
    /\ UNCHANGED <<inspectorsPaused, minBond, inspectorTerms, inspectorWindow, bond>>

SetMinBond(by, amount) ==
    /\ by = Admin
    /\ minBond' = amount
    /\ UNCHANGED <<inspectorsPaused, inspectorTerms, inspectorWindow, bond, pendingSlash>>

SetInspectorWindow(by, w) ==
    /\ by = Admin
    /\ inspectorWindow' = w
    /\ UNCHANGED <<inspectorsPaused, minBond, inspectorTerms, bond, pendingSlash>>

SetInspectorsPaused(by, flag) ==
    /\ by = Admin
    /\ inspectorsPaused' = flag
    /\ UNCHANGED <<minBond, inspectorTerms, inspectorWindow, bond, pendingSlash>>

InspectorNext ==
    \/ Tick /\ UNCHANGED inspectorVars
    \/ /\ \/ \E i \in Inspectors : \/ \E amount \in Amounts : StakeBond(i, amount)
                                \/ UnstakeBond(i)
          \/ \E by \in Callers :
               \/ \E i \in Inspectors : \/ SlashInspector(by, i)
                                     \/ \E s \in Severities : ProposeInspectorSlash(by, i, s)
               \/ \E id \in DOMAIN pendingSlash : \/ FinalizeInspectorSlash(by, id)
                                                  \/ CancelInspectorSlash(by, id)
               \/ \E amount \in MinBonds : SetMinBond(by, amount)
               \/ \E w \in ChallengeWindows : SetInspectorWindow(by, w)
               \/ \E flag \in BOOLEAN : SetInspectorsPaused(by, flag)
       /\ UNCHANGED now

InspectorSpec == now = 0 /\ InspectorInit /\ [][InspectorNext]_<<now, inspectorVars>>

-----------------------------------------------------------------------------
\* Entries have the types the getters read.
InspectorTypeOK ==
    /\ inspectorsPaused \in BOOLEAN
    /\ minBond \in Nat /\ penaltyBps \in Nat /\ lockTime \in Nat /\ inspectorWindow \in Nat
    /\ bond \in [Inspectors -> Bonds \cup {None}]
    /\ pendingSlash \in Seq(PendingSlashes)

\* The proposals against i that a step finalises.
FinalizedNow(i) == {id \in DOMAIN pendingSlash :
    /\ pendingSlash[id].inspector = i
    /\ pendingSlash[id].status = "Pending" /\ pendingSlash'[id].status = "Finalized"}

\* A bond that gets smaller without a slash being counted leaves entirely, its
\* lock over.  When a proposal is what costs an inspector his money, it was
\* still pending, its window had run out, and it costs him no more than was
\* announced, however many proposals and direct slashes overlap.
BondLossJustified ==
    [][\A i \in Inspectors : bond[i] # None /\ bond'[i] # bond[i] =>
         \/ bond'[i] = None /\ now >= bond[i].lockedUntil
         \/ bond'[i] # None /\ bond'[i].amount > bond[i].amount
         \/ /\ bond'[i] # None /\ bond'[i].slashes = bond[i].slashes + 1
            /\ pendingSlash' = pendingSlash =>
                 bond[i].amount - bond'[i].amount = Penalty(i, penaltyBps)
            /\ pendingSlash' # pendingSlash => \E id \in FinalizedNow(i) :
                 /\ now >= pendingSlash[id].deadline
                 /\ bond[i].amount - bond'[i].amount <= pendingSlash[id].penalty]_inspectorVars
=============================================================================
