----------------------------- MODULE Governance -----------------------------
(***************************************************************************)
(* The governance contract: proposals that fix the stakes of the voters    *)
(* known when they are created, votes with these weights, a verdict by     *)
(* majority and quorum after the voting period, execution after a time     *)
(* lock.  A voter is known once the admin entered a stake for it or it     *)
(* proposed; somebody who only stakes in the pool votes with weight 0.     *)
(*                                                                         *)
(* Stakes are read from the staking pool once the admin has named one,     *)
(* until then from what the admin entered.  The pool's balances change     *)
(* without governance knowing (PoolMoves).  What a proposal proposes is    *)
(* left out: no entry point reads it.  init is the only writer of the      *)
(* admin, so admin actions carry no caller.                                *)
(***************************************************************************)
EXTENDS LedgerClock, FiniteSets, Functions

CONSTANTS
    Voters,
    Stakes,         \* stakes the admin enters and the pool reports
    Totals,         \* totals the admin enters
    InitialTotal,   \* the total init stores
    VotingPeriod,   \* VOTING_PERIOD_SECS, 7 days
    TimelockPeriod, \* TIMELOCK_SECS, 48 hours
    QuorumBps,      \* 1_000
    MinStake,       \* MIN_STAKE_TO_PROPOSE, 1
    MaxProposals    \* bound on the proposals created

ProposalIds == 1 .. MaxProposals

Verdicts == {"Active", "Passed", "Rejected", "Executed", "Cancelled"}

Ballots == [proposer : Voters, votesFor : Nat, votesAgainst : Nat, status : Verdicts,
            endsAt : Nat, total : Nat]

ASSUME GovernanceAssumption ==
    /\ IsFiniteSet(Voters) /\ 0 \in Stakes /\ Stakes \subseteq Nat /\ Totals \subseteq Nat
    /\ InitialTotal \in Nat /\ {VotingPeriod, TimelockPeriod, QuorumBps} \subseteq Nat
    /\ MinStake \in Nat /\ MaxProposals \in Nat
    /\ None \notin Ballots /\ None \notin Stakes

VARIABLES
    poolNamed,      \* StakingPool is set
    poolStake,      \* the staking pool's balances (external)
    stakeBalance,   \* StakeBalance: what the admin entered
    quorumTotal,    \* TotalStaked
    knownVoters,
    proposal,       \* Proposal by id
    snapshot,       \* VoterSnapshot: None where there is no entry
    voted,          \* who has a Voted entry, by proposal
    creationStake   \* history: everybody's stake when the proposal was created

stakeSources == <<poolNamed, poolStake, stakeBalance, quorumTotal>>
ballotVars   == <<proposal, snapshot, voted, creationStake>>
govVars      == <<stakeSources, knownVoters, ballotVars>>

GovInit ==
    /\ poolNamed = FALSE
    /\ poolStake = [v \in Voters |-> 0] /\ stakeBalance = [v \in Voters |-> 0]
    /\ quorumTotal = InitialTotal
    /\ knownVoters = {}
    /\ proposal = [p \in ProposalIds |-> None]
    /\ snapshot = [p \in ProposalIds |-> [v \in Voters |-> None]]
    /\ voted = [p \in ProposalIds |-> {}]
    /\ creationStake = [p \in ProposalIds |-> [v \in Voters |-> 0]]

\* get_stake_for
StakeOf(v) == IF poolNamed THEN poolStake[v] ELSE stakeBalance[v]

Exists(p) == proposal[p] # None

StatusIs(p, status) == Exists(p) /\ proposal[p].status = status

-----------------------------------------------------------------------------
\* Ids are handed out in order.
NewId == Cardinality({q \in ProposalIds : Exists(q)}) + 1

\* Whose stakes a proposal of v snapshots: the proposer is registered first.
Snapshotted(v) == knownVoters \cup {v}

CreateProposal(v, p) ==
    /\ StakeOf(v) >= MinStake
    /\ p = NewId
    /\ proposal' = [proposal EXCEPT ![p] =
            [proposer |-> v, votesFor |-> 0, votesAgainst |-> 0, status |-> "Active",
             endsAt |-> now + VotingPeriod, total |-> quorumTotal]]
    /\ knownVoters' = knownVoters \cup {v}
    /\ snapshot' = [snapshot EXCEPT ![p] = [w \in Voters |->
            IF w \in Snapshotted(v) THEN StakeOf(w) ELSE None]]
    /\ creationStake' = [creationStake EXCEPT ![p] = [w \in Voters |-> StakeOf(w)]]
    /\ UNCHANGED <<now, stakeSources, voted>>

\* A voter without a snapshot votes with weight 0, and has voted.
WeightLive(p, v) == StakeOf(v)
Weight(p, v) == IF snapshot[p][v] = None THEN 0 ELSE snapshot[p][v]

Vote(v, p, support) ==
    LET weight == Weight(p, v)
    IN  /\ StatusIs(p, "Active")
        /\ now <= proposal[p].endsAt
        /\ v \notin voted[p]
        /\ proposal' = [proposal EXCEPT
                ![p].votesFor = IF support THEN @ + weight ELSE @,
                ![p].votesAgainst = IF support THEN @ ELSE @ + weight]
        /\ voted' = [voted EXCEPT ![p] = @ \cup {v}]
        /\ UNCHANGED <<now, stakeSources, knownVoters, snapshot, creationStake>>

QuorumRequiredNow(p) == (quorumTotal * QuorumBps) \div FullBps
QuorumRequired(p) == (proposal[p].total * QuorumBps) \div FullBps

Carried(p) ==
    /\ proposal[p].votesFor + proposal[p].votesAgainst >= QuorumRequired(p)
    /\ proposal[p].votesFor > proposal[p].votesAgainst

FinalizeProposal(p) ==
    /\ StatusIs(p, "Active")
    /\ now > proposal[p].endsAt
    /\ proposal' = [proposal EXCEPT ![p].status = IF Carried(p) THEN "Passed" ELSE "Rejected"]
    /\ UNCHANGED <<now, stakeSources, knownVoters, snapshot, creationStake, voted>>

ExecuteProposal(p) ==
    /\ StatusIs(p, "Passed")
    /\ now >= proposal[p].endsAt + TimelockPeriod
    /\ proposal' = [proposal EXCEPT ![p].status = "Executed"]
    /\ UNCHANGED <<now, stakeSources, knownVoters, snapshot, creationStake, voted>>

Cancellable(p) == StatusIs(p, "Active")

CancelProposal(v, p) ==
    /\ Cancellable(p)
    /\ proposal[p].proposer = v
    /\ proposal' = [proposal EXCEPT ![p].status = "Cancelled"]
    /\ UNCHANGED <<now, stakeSources, knownVoters, snapshot, creationStake, voted>>

-----------------------------------------------------------------------------
SetTotalStaked(total) ==
    /\ quorumTotal' = total
    /\ UNCHANGED <<now, poolNamed, poolStake, stakeBalance, knownVoters, ballotVars>>

SetStakingPool ==
    /\ poolNamed' = TRUE
    /\ UNCHANGED <<now, poolStake, stakeBalance, quorumTotal, knownVoters, ballotVars>>

SetVoterStake(v, stake) ==
    /\ stakeBalance' = [stakeBalance EXCEPT ![v] = stake]
    /\ knownVoters' = knownVoters \cup {v}
    /\ UNCHANGED <<now, poolNamed, poolStake, quorumTotal, ballotVars>>

\* Stakers stake and unstake in the staking pool.  Bound: its balances start to
\* matter, and to move, when governance reads them.
PoolMoves(v, stake) ==
    /\ poolNamed
    /\ poolStake' = [poolStake EXCEPT ![v] = stake]
    /\ UNCHANGED <<now, poolNamed, stakeBalance, quorumTotal, knownVoters, ballotVars>>

GovTick == Tick /\ UNCHANGED govVars

GovNext ==
    \/ GovTick
    \/ SetStakingPool
    \/ \E total \in Totals : SetTotalStaked(total)
    \/ \E v \in Voters, stake \in Stakes : SetVoterStake(v, stake) \/ PoolMoves(v, stake)
    \/ \E p \in ProposalIds :
        \/ FinalizeProposal(p) \/ ExecuteProposal(p)
        \/ \E v \in Voters : CreateProposal(v, p) \/ CancelProposal(v, p)
        \/ \E v \in Voters, support \in BOOLEAN : Vote(v, p, support)

GovSpec == now = 0 /\ GovInit /\ [][GovNext]_<<now, govVars>>

-----------------------------------------------------------------------------
\* Entries have the types they are stored with, ids are handed out in order, and
\* every proposal has the snapshot of a proposer who was allowed to propose.  What
\* is in a snapshot is the stake at the creation.
GovTypeOK ==
    /\ poolNamed \in BOOLEAN /\ quorumTotal \in Nat
    /\ poolStake \in [Voters -> Stakes] /\ stakeBalance \in [Voters -> Stakes]
    /\ knownVoters \subseteq Voters
    /\ proposal \in [ProposalIds -> Ballots \cup {None}]
    /\ snapshot \in [ProposalIds -> [Voters -> Stakes \cup {None}]]
    /\ voted \in [ProposalIds -> SUBSET Voters]
    /\ creationStake \in [ProposalIds -> [Voters -> Stakes]]
    /\ \A p \in ProposalIds, v \in Voters : snapshot[p][v] \in {None, creationStake[p][v]}
    /\ \A p \in ProposalIds : Exists(p) =>
        /\ \A q \in 1..p : Exists(q)
        /\ snapshot[p][proposal[p].proposer] \in Stakes
        /\ snapshot[p][proposal[p].proposer] >= MinStake

\* The weight of v's vote: the stake at the creation of p, whatever happened to it
\* since, if v was known then, and nothing if not.
SnapshotWeight(p, v) == IF snapshot[p][v] = None THEN 0 ELSE creationStake[p][v]

\* The votes of a proposal are the stakes which those who voted had when it was
\* created, each counted once and only if governance knew the voter by then, while
\* the admin's entries, the pool and the other proposals' votes change.
VotesAreSnapshots ==
    \A p \in ProposalIds : Exists(p) =>
        proposal[p].votesFor + proposal[p].votesAgainst
            = SumFunctionOnSet([v \in Voters |-> SnapshotWeight(p, v)], voted[p])

\* What vote is documented to do: "Weight = voter's stake at time of proposal
\* creation".  The code counts 0 for a voter it did not know by then.
VotesWeighStake ==
    \A p \in ProposalIds : Exists(p) =>
        proposal[p].votesFor + proposal[p].votesAgainst = SumFunctionOnSet(creationStake[p], voted[p])

\* A proposal that passed still has, and always keeps, the majority and the quorum
\* of the total at its creation; it is executed only when its time lock is over.
VerdictJustified ==
    \A p \in ProposalIds : StatusIs(p, "Passed") \/ StatusIs(p, "Executed") =>
        /\ proposal[p].votesFor > proposal[p].votesAgainst
        /\ (proposal[p].votesFor + proposal[p].votesAgainst)
                >= (proposal[p].total * QuorumBps) \div FullBps
        /\ now > proposal[p].endsAt
        /\ StatusIs(p, "Executed") => now >= proposal[p].endsAt + TimelockPeriod

\* A verdict is final: it can only be executed, and its votes, voters and weights
\* no longer change; the weights are fixed from the creation on.
VerdictStands ==
    [][\A p \in ProposalIds : Exists(p) =>
        /\ snapshot'[p] = snapshot[p]
        /\ ~StatusIs(p, "Active") =>
            /\ voted'[p] = voted[p]
            /\ proposal'[p] \in {proposal[p]}
                    \cup (IF StatusIs(p, "Passed")
                          THEN {[proposal[p] EXCEPT !.status = "Executed"]} ELSE {})]_<<now, govVars>>
=============================================================================
