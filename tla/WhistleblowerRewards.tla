------------------------ MODULE WhistleblowerRewards ------------------------
(***************************************************************************)
(* The whistleblower_rewards contract: rewards the operator allocates for  *)
(* reports about a listing.  An allocation may be revoked during the hold  *)
(* window and claimed, in part or in full, after it.  Its upgrade entry    *)
(* points, other than set_guardian, are modelled in UpgradeGovernance.     *)
(* Left out: events, deal ids, the reason of a revocation, and the refusal *)
(* of empty and overlong strings.                                          *)
(***************************************************************************)
EXTENDS Parties

CONSTANTS
    Listings,       \* listing ids
    HoldWindows,    \* hold windows init and set_hold_window are called with
    MaxAllocations  \* bound on the allocations of all

Allocations == [amount : Amounts, claimed : Nat, at : Nat,
                status : {"Pending", "Claimed", "Revoked"}]

ASSUME WhistleblowerAssumption == HoldWindows \subseteq Nat /\ MaxAllocations \in Nat

VARIABLES
    rewardOperator, rewardGuardian, rewardsPaused, holdWindow,
    allocation,     \* Allocation by whistleblower, listing and nonce
    rewardPot,      \* tokens the contract holds
    rewardPaid      \* history: what a whistleblower was paid for a listing

rewardVars == <<rewardOperator, rewardGuardian, rewardsPaused, holdWindow, allocation,
                rewardPot, rewardPaid>>

RewardInit ==
    /\ rewardOperator \in Callers /\ rewardGuardian = None
    /\ rewardsPaused = FALSE /\ holdWindow \in HoldWindows
    /\ allocation = [w \in Parties |-> [l \in Listings |-> <<>>]]
    /\ rewardPot = 0
    /\ rewardPaid = [w \in Parties |-> [l \in Listings |-> 0]]

-----------------------------------------------------------------------------
\* The hold window in force now counts, not the one at the allocation.
Matured(rec) == rec.status = "Pending" /\ now >= rec.at + holdWindow

Open(rec) == IF Matured(rec) THEN rec.amount - rec.claimed ELSE 0

\* sum_claimable of the first n allocations, and of all.
ClaimableUpTo(w, l, n) == SumOver([i \in 1..n |-> Open(allocation[w][l][i])], 1..n)

ClaimableReward(w, l) == ClaimableUpTo(w, l, Len(allocation[w][l]))

\* What a claim takes from the i-th allocation, the oldest first.
TakenEach(w, l, i, amount) == AtMost(Open(allocation[w][l][i]), amount)
Taken(w, l, i, amount) ==
    LET before == ClaimableUpTo(w, l, i - 1)
    IN  IF before >= amount THEN 0 ELSE AtMost(Open(allocation[w][l][i]), amount - before)

AfterTaking(rec, take) ==
    [rec EXCEPT !.claimed = @ + take,
                !.status = IF take > 0 /\ rec.claimed + take >= rec.amount THEN "Claimed" ELSE @]

Allocated ==
    SumOver([key \in Parties \X Listings |-> Len(allocation[key[1]][key[2]])], Parties \X Listings)

\* Nothing compares what is allocated with what is held.  Bound: MaxAllocations.
Allocate(by, w, l, amount) ==
    /\ by = rewardOperator /\ ~rewardsPaused
    /\ Allocated < MaxAllocations
    /\ allocation' = [allocation EXCEPT ![w][l] = Append(@,
          [amount |-> amount, claimed |-> 0, at |-> now, status |-> "Pending"])]
    /\ UNCHANGED <<rewardOperator, rewardGuardian, rewardsPaused, holdWindow, rewardPot, rewardPaid>>

RevokeAllocation(by, w, l, i) ==
    /\ by = rewardOperator \/ by = rewardGuardian
    /\ ~rewardsPaused
    /\ LET rec == allocation[w][l][i] IN
       /\ rec.status = "Pending" /\ rec.claimed = 0
       /\ holdWindow # 0 /\ now < rec.at + holdWindow
       /\ allocation' = [allocation EXCEPT ![w][l][i] = [rec EXCEPT !.status = "Revoked"]]
    /\ UNCHANGED <<rewardOperator, rewardGuardian, rewardsPaused, holdWindow, rewardPot, rewardPaid>>

\* amount: None for all.  The transfer aborts the claim if too little is held.
ClaimReward(w, l, amount) ==
    LET recs == allocation[w][l]
        all  == ClaimableReward(w, l)
        pays == IF amount = None THEN all ELSE amount
    IN
    /\ ~rewardsPaused
    /\ all > 0 /\ pays <= all
    /\ rewardPot >= pays
    /\ allocation' = [allocation EXCEPT ![w][l] =
          [i \in DOMAIN recs |-> AfterTaking(recs[i], Taken(w, l, i, pays))]]
    /\ rewardPot' = rewardPot - pays
    /\ rewardPaid' = [rewardPaid EXCEPT ![w][l] = @ + pays]
    /\ UNCHANGED <<rewardOperator, rewardGuardian, rewardsPaused, holdWindow>>

\* Of allocations made before, too.
SetHoldWindow(by, window) ==
    /\ by = Admin
    /\ holdWindow' = window
    /\ UNCHANGED <<rewardOperator, rewardGuardian, rewardsPaused, allocation, rewardPot, rewardPaid>>

SetRewardOperator(by, a) ==
    /\ by = Admin
    /\ rewardOperator' = a
    /\ UNCHANGED <<rewardGuardian, rewardsPaused, holdWindow, allocation, rewardPot, rewardPaid>>

SetRewardGuardian(by, a) ==
    /\ by = Admin
    /\ rewardGuardian' = a
    /\ UNCHANGED <<rewardOperator, rewardsPaused, holdWindow, allocation, rewardPot, rewardPaid>>

SetRewardsPaused(by, flag) ==
    /\ by = Admin
    /\ rewardsPaused' = flag
    /\ UNCHANGED <<rewardOperator, rewardGuardian, holdWindow, allocation, rewardPot, rewardPaid>>

\* Tokens are sent to the contract by a plain transfer.  Bound: MaxBalance.
FundRewards(amount) ==
    /\ rewardPot + amount <= MaxBalance
    /\ rewardPot' = rewardPot + amount
    /\ UNCHANGED <<rewardOperator, rewardGuardian, rewardsPaused, holdWindow, allocation, rewardPaid>>

RewardNext ==
    \/ Tick /\ UNCHANGED rewardVars
    \/ /\ \/ \E w \in Parties, l \in Listings, amount \in Amounts \cup {None} : ClaimReward(w, l, amount)
          \/ \E amount \in Amounts : FundRewards(amount)
          \/ \E by \in Callers :
               \/ \E w \in Parties, l \in Listings :
                    \/ \E amount \in Amounts : Allocate(by, w, l, amount)
                    \/ \E i \in DOMAIN allocation[w][l] : RevokeAllocation(by, w, l, i)
               \/ \E window \in HoldWindows : SetHoldWindow(by, window)
               \/ \E a \in Callers : SetRewardOperator(by, a) \/ SetRewardGuardian(by, a)
               \/ \E flag \in BOOLEAN : SetRewardsPaused(by, flag)
       /\ UNCHANGED now

RewardSpec == now = 0 /\ RewardInit /\ [][RewardNext]_<<now, rewardVars>>

-----------------------------------------------------------------------------
\* Entries have the types the getters read.
RewardTypeOK ==
    /\ rewardOperator \in Callers /\ rewardGuardian \in Callers \cup {None}
    /\ rewardsPaused \in BOOLEAN /\ holdWindow \in Nat /\ rewardPot \in 0..MaxBalance
    /\ \A w \in Parties, l \in Listings :
         allocation[w][l] \in Seq(Allocations) /\ rewardPaid[w][l] \in Nat

\* Every token a whistleblower was paid for a listing was taken from one of his
\* allocations for it, whatever partial claims, revocations and changes of the
\* hold window came before; nothing is paid for a revoked allocation, and one
\* is closed exactly when it is used up.
RewardsPaidOnce ==
    \A w \in Parties, l \in Listings : LET recs == allocation[w][l] IN
        /\ rewardPaid[w][l] = SumOver([i \in DOMAIN recs |-> recs[i].claimed], DOMAIN recs)
        /\ \A i \in DOMAIN recs :
             /\ recs[i].claimed <= recs[i].amount
             /\ (recs[i].status = "Claimed") = (recs[i].claimed = recs[i].amount)
             /\ recs[i].status = "Revoked" => recs[i].claimed = 0
=============================================================================
