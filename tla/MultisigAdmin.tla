--------------------------- MODULE MultisigAdmin ---------------------------
(***************************************************************************)
(* The multisig_admin contract: signers propose operations, approve them,  *)
(* take approvals back, execute what has enough approvals, and cancel.     *)
(*                                                                         *)
(* The operation and its parameters are left out: no entry point reads     *)
(* them, and execute only records the execution.  An approval or execution *)
(* after the expiry writes the status Expired and then panics, which       *)
(* undoes the write: no stored proposal is ever Expired.                   *)
(***************************************************************************)
EXTENDS LedgerClock, FiniteSets

CONSTANTS
    Signers,
    Threshold,
    Expiries,       \* expiries proposers pass; 0 means none
    MaxMotions      \* bound on the proposals made

MotionIds == 1 .. MaxMotions

Motions == [expiry : Nat, status : {"Pending", "Executed", "Cancelled"}, approvalCount : Nat]

ASSUME MultisigAssumption ==
    /\ IsFiniteSet(Signers) /\ Threshold \in 1..Cardinality(Signers)
    /\ Expiries \subseteq Nat /\ MaxMotions \in Nat
    /\ None \notin Motions

VARIABLES
    motion,         \* Proposal by id
    approvals       \* Approvals by id

multisigVars == <<motion, approvals>>

MultisigInit ==
    /\ motion = [p \in MotionIds |-> None]
    /\ approvals = [p \in MotionIds |-> {}]

Pending(p) == motion[p] # None /\ motion[p].status = "Pending"

InTime(p) == motion[p].expiry = 0 \/ now <= motion[p].expiry

\* NextProposalId: ids are handed out in order.
NextId == Cardinality({q \in MotionIds : motion[q] # None}) + 1

Propose(p, expiry) ==
    /\ p = NextId
    /\ expiry = 0 \/ now < expiry
    /\ motion' = [motion EXCEPT ![p] =
            [expiry |-> expiry, status |-> "Pending", approvalCount |-> 0]]
    /\ approvals' = [approvals EXCEPT ![p] = {}]
    /\ UNCHANGED now

\* The approvals of p become set; the count is stored with the proposal.
SetApprovals(p, set) ==
    /\ approvals' = [approvals EXCEPT ![p] = set]
    /\ motion' = [motion EXCEPT ![p].approvalCount = Cardinality(set)]

Approve(s, p) ==
    /\ Pending(p) /\ InTime(p)
    /\ s \notin approvals[p]
    /\ SetApprovals(p, approvals[p] \cup {s})
    /\ UNCHANGED now

RevocableAnytime(p) == motion[p] # None
Revocable(p) == Pending(p) /\ InTime(p)

RevokeApproval(s, p) ==
    /\ Revocable(p)
    /\ s \in approvals[p]
    /\ SetApprovals(p, approvals[p] \ {s})
    /\ UNCHANGED now

Executable(p) == Pending(p) /\ InTime(p)

ExecuteMotion(p) ==
    /\ Executable(p)
    /\ Cardinality(approvals[p]) >= Threshold
    /\ motion' = [motion EXCEPT ![p].status = "Executed"]
    /\ UNCHANGED <<now, approvals>>

\* Any signer may cancel, also after the expiry.
CancelMotion(p) ==
    /\ Pending(p)
    /\ motion' = [motion EXCEPT ![p].status = "Cancelled"]
    /\ UNCHANGED <<now, approvals>>

MultisigTick == Tick /\ UNCHANGED multisigVars

MultisigNext ==
    \/ MultisigTick
    \/ \E p \in MotionIds :
        \/ ExecuteMotion(p) \/ CancelMotion(p)
        \/ \E expiry \in Expiries : Propose(p, expiry)
        \/ \E s \in Signers : Approve(s, p) \/ RevokeApproval(s, p)

MultisigSpec == now = 0 /\ MultisigInit /\ [][MultisigNext]_<<now, multisigVars>>

-----------------------------------------------------------------------------
\* Entries have the types they are stored with, and ids are handed out in order.
MultisigTypeOK ==
    /\ motion \in [MotionIds -> Motions \cup {None}]
    /\ approvals \in [MotionIds -> SUBSET Signers]
    /\ \A p \in MotionIds : motion[p] # None => \A q \in 1..p : motion[q] # None

\* An executed proposal shows the approvals it was executed with: they suffice,
\* and neither a revocation nor a cancellation changes them afterwards; the stored
\* count agrees with the list in every state.
ExecutedApproved ==
    \A p \in MotionIds : motion[p] # None =>
        /\ motion[p].approvalCount = Cardinality(approvals[p])
        /\ motion[p].status = "Executed" => Cardinality(approvals[p]) >= Threshold

\* Once its expiry has passed a proposal can only be cancelled.
ExpiredNeverRuns ==
    [][\A p \in MotionIds : motion[p] # None /\ motion'[p] # motion[p] /\ ~InTime(p)
            => motion'[p] = [motion[p] EXCEPT !.status = "Cancelled"]]_<<now, multisigVars>>
=============================================================================
