-------------------------- MODULE GovernanceProofs --------------------------
(* Theorems about those who decide: governance, timelock and multisig_admin, *)
(* for all voters, calls, signers, periods and any number of proposals.      *)
EXTENDS Governance, Timelock, MultisigAdmin, LedgerProofs

\* All that a step of governance may change.
GovState == <<now, govVars>>

\* What the proofs rest on: the clock and the types.
GovInv == now \in Nat /\ GovTypeOK

\* The proposals there are.
Created == {q \in ProposalIds : Exists(q)}

\* The next id is free, and all before it are taken.
LEMMA NewIdFree ==
    ASSUME GovTypeOK
    PROVE  NewId \notin Created /\ \A q \in 1 .. NewId - 1 : q \in Created
<1>1. MaxProposals \in Nat /\ Created \in SUBSET (1..MaxProposals)
  BY GovernanceAssumption DEF Created, ProposalIds
<1>2. \A p \in Created : \A q \in 1..p : q \in Created
  BY <1>1 DEF Created, ProposalIds, GovTypeOK
<1>3. Cardinality(Created) \in Nat /\ Created = 1..Cardinality(Created)
  BY <1>1, <1>2, IdsInOrder
<1>4. NewId = Cardinality(Created) + 1
  BY DEF NewId, Created
<1> QED
  BY <1>3, <1>4

\* Initially there are no proposals.
LEMMA GovInit1 == now = 0 /\ GovInit => GovInv /\ VerdictJustified
<1> SUFFICES ASSUME now = 0, GovInit PROVE GovInv /\ VerdictJustified
  OBVIOUS
<1>1. \A p \in ProposalIds : ~Exists(p)
  BY DEF GovInit, Exists
<1>2. poolNamed \in BOOLEAN /\ quorumTotal \in Nat /\ knownVoters \subseteq Voters
  BY GovernanceAssumption DEF GovInit
<1>3. poolStake \in [Voters -> Stakes] /\ stakeBalance \in [Voters -> Stakes]
  BY GovernanceAssumption DEF GovInit
<1>4. proposal \in [ProposalIds -> Ballots \cup {None}] /\ voted \in [ProposalIds -> SUBSET Voters]
  BY DEF GovInit
<1>5. /\ snapshot \in [ProposalIds -> [Voters -> Stakes \cup {None}]]
      /\ creationStake \in [ProposalIds -> [Voters -> Stakes]]
      /\ \A p \in ProposalIds, v \in Voters : snapshot[p][v] \in {None, creationStake[p][v]}
  BY GovernanceAssumption DEF GovInit
<1>6. now \in Nat /\ VerdictJustified
  BY <1>1 DEF VerdictJustified, StatusIs
<1> QED
  BY <1>1, <1>2, <1>3, <1>4, <1>5, <1>6 DEF GovInv, GovTypeOK

\* A new proposal takes a free id.
LEMMA CreateKeeps ==
    ASSUME GovInv, NEW v \in Voters, NEW p \in ProposalIds, CreateProposal(v, p)
    PROVE  GovInv' /\ (VerdictJustified => VerdictJustified') /\ ~Exists(p)
<1> DEFINE new == [proposer |-> v, votesFor |-> 0, votesAgainst |-> 0, status |-> "Active",
                   endsAt |-> now + VotingPeriod, total |-> quorumTotal]
           snap == [w \in Voters |-> IF w \in Snapshotted(v) THEN StakeOf(w) ELSE None]
           held == [w \in Voters |-> StakeOf(w)]
<1>1. /\ p = NewId /\ StakeOf(v) >= MinStake /\ p \in Nat
      /\ proposal' = [proposal EXCEPT ![p] = new]
      /\ snapshot' = [snapshot EXCEPT ![p] = snap]
      /\ creationStake' = [creationStake EXCEPT ![p] = held]
      /\ knownVoters' = knownVoters \cup {v}
      /\ UNCHANGED <<now, stakeSources, voted>>
  BY DEF CreateProposal, ProposalIds
<1>2. ~Exists(p) /\ \A q \in 1 .. p - 1 : Exists(q)
  BY <1>1, NewIdFree DEF GovInv, Created
<1>3. new \in Ballots /\ new # None
  BY GovernanceAssumption DEF Ballots, Verdicts, GovInv, GovTypeOK
<1>4. \A w \in Voters : StakeOf(w) \in Stakes
  BY DEF StakeOf, GovInv, GovTypeOK
<1>5. /\ snap \in [Voters -> Stakes \cup {None}] /\ snap[v] = StakeOf(v)
      /\ held \in [Voters -> Stakes]
      /\ \A w \in Voters : snap[w] \in {None, held[w]}
  BY <1>4 DEF Snapshotted
<1>6. /\ proposal' \in [ProposalIds -> Ballots \cup {None}]
      /\ snapshot' \in [ProposalIds -> [Voters -> Stakes \cup {None}]]
      /\ creationStake' \in [ProposalIds -> [Voters -> Stakes]]
      /\ \A r \in ProposalIds, w \in Voters : snapshot'[r][w] \in {None, creationStake'[r][w]}
  <2> HIDE DEF new, snap, held
  <2> QED
    BY <1>1, <1>3, <1>5 DEF GovInv, GovTypeOK
<1>7. ASSUME NEW r \in ProposalIds, Exists(r)'
      PROVE  /\ \A q \in 1..r : Exists(q)'
             /\ snapshot'[r][proposal'[r].proposer] \in Stakes
             /\ snapshot'[r][proposal'[r].proposer] >= MinStake
  <2>1. CASE r = p
    <3>1. proposal'[r] = new /\ snapshot'[r] = snap
      BY <1>1, <2>1 DEF GovInv, GovTypeOK
    <3>2. \A q \in 1..r : Exists(q)'
      BY <1>1, <1>2, <1>3, <2>1, GovernanceAssumption DEF GovInv, GovTypeOK, Exists, ProposalIds
    <3> QED
      BY <3>1, <3>2, <1>1, <1>4, <1>5
  <2>2. CASE r # p
    <3>1. Exists(r) /\ proposal'[r] = proposal[r] /\ snapshot'[r] = snapshot[r]
      BY <1>1, <1>7, <2>2 DEF GovInv, GovTypeOK, Exists
    <3>2. \A q \in 1..r : Exists(q)'
      BY <1>1, <1>3, <3>1, GovernanceAssumption DEF GovInv, GovTypeOK, Exists, ProposalIds
    <3> QED
      BY <3>1, <3>2 DEF GovInv, GovTypeOK
  <2> QED
    BY <2>1, <2>2
<1>8. GovTypeOK'
  BY <1>1, <1>6, <1>7 DEF GovInv, GovTypeOK, stakeSources
<1>9. ASSUME VerdictJustified PROVE VerdictJustified'
  BY <1>1, <1>3, <1>9 DEF VerdictJustified, StatusIs, Exists, GovInv, GovTypeOK
<1> QED
  BY <1>1, <1>2, <1>8, <1>9 DEF GovInv

\* Votes and verdicts change the entry of an existing proposal and keep its
\* proposer: this much keeps the types.
LEMMA BallotKeepsTypes ==
    ASSUME GovInv, NEW p \in ProposalIds, Exists(p),
           NEW new \in Ballots, new.proposer = proposal[p].proposer,
           proposal' = [proposal EXCEPT ![p] = new],
           voted' \in [ProposalIds -> SUBSET Voters],
           UNCHANGED <<now, stakeSources, knownVoters, snapshot, creationStake>>
    PROVE  GovInv'
<1>1. new # None
  BY GovernanceAssumption
<1>2. \A r \in ProposalIds : Exists(r)' <=> Exists(r)
  BY <1>1 DEF Exists, GovInv, GovTypeOK
<1>3. \A r \in ProposalIds : \A q \in 1..r : q \in ProposalIds
  BY GovernanceAssumption DEF ProposalIds
<1>4. \A r \in ProposalIds : Exists(r)' => proposal'[r].proposer = proposal[r].proposer
  BY DEF GovInv, GovTypeOK
<1>5. proposal' \in [ProposalIds -> Ballots \cup {None}]
  BY DEF GovInv, GovTypeOK
<1>6. ASSUME NEW r \in ProposalIds, Exists(r)'
      PROVE  /\ \A q \in 1..r : Exists(q)'
             /\ snapshot'[r][proposal'[r].proposer] \in Stakes
             /\ snapshot'[r][proposal'[r].proposer] >= MinStake
  BY <1>2, <1>3, <1>4, <1>6 DEF GovInv, GovTypeOK
<1> QED
  BY <1>5, <1>6 DEF GovInv, GovTypeOK, stakeSources

\* A vote adds a natural weight to an active proposal.
LEMMA VoteKeeps ==
    ASSUME GovInv, NEW v \in Voters, NEW p \in ProposalIds, NEW support \in BOOLEAN,
           Vote(v, p, support)
    PROVE  GovInv' /\ (VerdictJustified => VerdictJustified')
<1> DEFINE new == [proposal[p] EXCEPT
                    !.votesFor = IF support THEN @ + Weight(p, v) ELSE @,
                    !.votesAgainst = IF support THEN @ ELSE @ + Weight(p, v)]
<1>1. Exists(p) /\ proposal[p] \in Ballots /\ proposal[p].status = "Active"
  BY DEF Vote, StatusIs, Exists, GovInv, GovTypeOK
<1>2. Weight(p, v) \in Nat
  <2>1. snapshot[p][v] \in Stakes \cup {None}
    BY DEF GovInv, GovTypeOK
  <2> QED
    BY <2>1, GovernanceAssumption DEF Weight
<1>3. /\ new \in Ballots /\ new.proposer = proposal[p].proposer /\ new.status = "Active"
      /\ proposal' = [proposal EXCEPT ![p] = new]
  <2>1. CASE support
    <3>1. /\ new = [proposal[p] EXCEPT !.votesFor = @ + Weight(p, v)]
          /\ proposal' = [proposal EXCEPT ![p] = new]
      BY <1>1, <2>1 DEF Vote, Ballots
    <3> QED
      BY <1>1, <1>2, <3>1 DEF Ballots
  <2>2. CASE ~support
    <3>1. /\ new = [proposal[p] EXCEPT !.votesAgainst = @ + Weight(p, v)]
          /\ proposal' = [proposal EXCEPT ![p] = new]
      BY <1>1, <2>2 DEF Vote, Ballots
    <3> QED
      BY <1>1, <1>2, <3>1 DEF Ballots
  <2> QED
    BY <2>1, <2>2
<1>4. voted' \in [ProposalIds -> SUBSET Voters] /\ UNCHANGED <<now, stakeSources, knownVoters, snapshot, creationStake>>
  BY DEF Vote, GovInv, GovTypeOK
<1>5. GovInv'
  BY <1>1, <1>3, <1>4, BallotKeepsTypes
<1>6. ASSUME VerdictJustified PROVE VerdictJustified'
  BY <1>3, <1>4, <1>6 DEF VerdictJustified, StatusIs, Exists, GovInv, GovTypeOK
<1> QED
  BY <1>5, <1>6

\* A new status of an existing proposal keeps the types.
LEMMA StatusKeepsTypes ==
    ASSUME GovInv, NEW p \in ProposalIds, Exists(p), NEW status \in Verdicts,
           proposal' = [proposal EXCEPT ![p].status = status],
           UNCHANGED <<now, stakeSources, knownVoters, snapshot, creationStake, voted>>
    PROVE  /\ GovInv'
           /\ proposal' = [proposal EXCEPT ![p] = [proposal[p] EXCEPT !.status = status]]
           /\ proposal[p] \in Ballots
<1>1. proposal[p] \in Ballots
  BY DEF Exists, GovInv, GovTypeOK
<1>2. /\ [proposal[p] EXCEPT !.status = status] \in Ballots
      /\ [proposal[p] EXCEPT !.status = status].proposer = proposal[p].proposer
  BY <1>1 DEF Ballots
<1>3. voted' \in [ProposalIds -> SUBSET Voters]
  BY DEF GovInv, GovTypeOK
<1> QED
  BY <1>1, <1>2, <1>3, BallotKeepsTypes

\* A verdict is justified when it is given.
LEMMA FinalizeKeeps ==
    ASSUME GovInv, NEW p \in ProposalIds, FinalizeProposal(p)
    PROVE  GovInv' /\ (VerdictJustified => VerdictJustified')
<1> DEFINE status == IF Carried(p) THEN "Passed" ELSE "Rejected"
           new == [proposal[p] EXCEPT !.status = status]
<1>1. /\ Exists(p) /\ status \in Verdicts /\ proposal[p].status = "Active" /\ now > proposal[p].endsAt
      /\ proposal' = [proposal EXCEPT ![p].status = status]
      /\ UNCHANGED <<now, stakeSources, knownVoters, snapshot, creationStake, voted>>
  BY DEF FinalizeProposal, StatusIs, Verdicts
<1>2. GovInv' /\ proposal' = [proposal EXCEPT ![p] = new] /\ proposal[p] \in Ballots
  BY <1>1, StatusKeepsTypes
<1>3. /\ new.status = status /\ new.votesFor = proposal[p].votesFor
      /\ new.votesAgainst = proposal[p].votesAgainst
      /\ new.endsAt = proposal[p].endsAt /\ new.total = proposal[p].total
  BY <1>2 DEF Ballots
<1>4. ASSUME VerdictJustified PROVE VerdictJustified'
  <2> SUFFICES ASSUME NEW r \in ProposalIds, StatusIs(r, "Passed")' \/ StatusIs(r, "Executed")'
               PROVE  /\ proposal'[r].votesFor > proposal'[r].votesAgainst
                      /\ (proposal'[r].votesFor + proposal'[r].votesAgainst)
                            >= (proposal'[r].total * QuorumBps) \div FullBps
                      /\ now' > proposal'[r].endsAt
                      /\ StatusIs(r, "Executed")' => now' >= proposal'[r].endsAt + TimelockPeriod
    BY DEF VerdictJustified
  <2>1. CASE r = p
    <3>1. proposal'[r] = new
      BY <1>2, <2>1 DEF GovInv, GovTypeOK
    <3>2. Carried(p) /\ status = "Passed" /\ ~StatusIs(r, "Executed")'
      BY <3>1, <1>3 DEF StatusIs
    <3> QED
      BY <1>1, <1>3, <3>1, <3>2 DEF Carried, QuorumRequired
  <2>2. CASE r # p
    BY <1>1, <1>2, <1>4, <2>2 DEF VerdictJustified, StatusIs, Exists, GovInv, GovTypeOK
  <2> QED
    BY <2>1, <2>2
<1> QED
  BY <1>2, <1>4

\* The execution of a passed proposal waits for the time lock.
LEMMA ExecuteKeeps ==
    ASSUME GovInv, NEW p \in ProposalIds, ExecuteProposal(p)
    PROVE  GovInv' /\ (VerdictJustified => VerdictJustified')
<1> DEFINE new == [proposal[p] EXCEPT !.status = "Executed"]
<1>1. /\ StatusIs(p, "Passed") /\ Exists(p)
      /\ now >= proposal[p].endsAt + TimelockPeriod
      /\ proposal' = [proposal EXCEPT ![p].status = "Executed"]
      /\ UNCHANGED <<now, stakeSources, knownVoters, snapshot, creationStake, voted>>
  BY DEF ExecuteProposal, StatusIs
<1>2. GovInv' /\ proposal' = [proposal EXCEPT ![p] = new] /\ proposal[p] \in Ballots
  BY <1>1, StatusKeepsTypes DEF Verdicts
<1>3. /\ new.votesFor = proposal[p].votesFor /\ new.votesAgainst = proposal[p].votesAgainst
      /\ new.endsAt = proposal[p].endsAt /\ new.total = proposal[p].total
  BY <1>2 DEF Ballots
<1>4. ASSUME VerdictJustified PROVE VerdictJustified'
  <2> SUFFICES ASSUME NEW r \in ProposalIds, StatusIs(r, "Passed")' \/ StatusIs(r, "Executed")'
               PROVE  /\ proposal'[r].votesFor > proposal'[r].votesAgainst
                      /\ (proposal'[r].votesFor + proposal'[r].votesAgainst)
                            >= (proposal'[r].total * QuorumBps) \div FullBps
                      /\ now' > proposal'[r].endsAt
                      /\ StatusIs(r, "Executed")' => now' >= proposal'[r].endsAt + TimelockPeriod
    BY DEF VerdictJustified
  <2>1. CASE r = p
    <3>1. proposal'[r] = new
      BY <1>2, <2>1 DEF GovInv, GovTypeOK
    <3> QED
      BY <1>1, <1>3, <1>4, <2>1, <3>1 DEF VerdictJustified
  <2>2. CASE r # p
    BY <1>1, <1>2, <1>4, <2>2 DEF VerdictJustified, StatusIs, Exists, GovInv, GovTypeOK
  <2> QED
    BY <2>1, <2>2
<1> QED
  BY <1>2, <1>4

\* Cancelling keeps both.
LEMMA CancelKeeps ==
    ASSUME GovInv, NEW v \in Voters, NEW p \in ProposalIds, CancelProposal(v, p)
    PROVE  GovInv' /\ (VerdictJustified => VerdictJustified')
<1>1. /\ Exists(p) /\ proposal' = [proposal EXCEPT ![p].status = "Cancelled"]
      /\ UNCHANGED <<now, stakeSources, knownVoters, snapshot, creationStake, voted>>
  BY DEF CancelProposal, Cancellable, StatusIs
<1>2. /\ GovInv' /\ proposal[p] \in Ballots
      /\ proposal' = [proposal EXCEPT ![p] = [proposal[p] EXCEPT !.status = "Cancelled"]]
  BY <1>1, StatusKeepsTypes DEF Verdicts
<1>3. [proposal[p] EXCEPT !.status = "Cancelled"].status = "Cancelled"
  BY <1>2 DEF Ballots
<1>4. ASSUME VerdictJustified PROVE VerdictJustified'
  BY <1>1, <1>2, <1>3, <1>4 DEF VerdictJustified, StatusIs, Exists, GovInv, GovTypeOK
<1> QED
  BY <1>2, <1>4

\* The admin, the pool and the clock touch no proposal.
LEMMA SettingsKeep ==
    ASSUME GovInv,
           \/ GovTick \/ SetStakingPool \/ UNCHANGED GovState
           \/ \E total \in Totals : SetTotalStaked(total)
           \/ \E v \in Voters, stake \in Stakes : SetVoterStake(v, stake) \/ PoolMoves(v, stake)
    PROVE  GovInv' /\ (VerdictJustified => VerdictJustified') /\ UNCHANGED ballotVars
<1>1. UNCHANGED ballotVars /\ (now' = now \/ now' = now + 1)
  BY DEF GovTick, Tick, SetStakingPool, SetTotalStaked, SetVoterStake, PoolMoves,
         GovState, govVars, ballotVars
<1>2. /\ poolNamed' \in BOOLEAN /\ quorumTotal' \in Nat
      /\ poolStake' \in [Voters -> Stakes] /\ stakeBalance' \in [Voters -> Stakes]
      /\ knownVoters' \subseteq Voters
  BY GovernanceAssumption
     DEF GovTick, Tick, SetStakingPool, SetTotalStaked, SetVoterStake, PoolMoves,
         GovState, govVars, stakeSources, GovInv, GovTypeOK
<1>3. GovInv'
  BY <1>1, <1>2 DEF GovInv, GovTypeOK, Exists, ballotVars
<1>4. ASSUME VerdictJustified PROVE VerdictJustified'
  <2> SUFFICES ASSUME NEW r \in ProposalIds, StatusIs(r, "Passed") \/ StatusIs(r, "Executed")
               PROVE  /\ now' > proposal[r].endsAt
                      /\ StatusIs(r, "Executed") => now' >= proposal[r].endsAt + TimelockPeriod
    BY <1>1, <1>4 DEF VerdictJustified, StatusIs, Exists, ballotVars
  <2>1. proposal[r] \in Ballots
    BY DEF StatusIs, Exists, GovInv, GovTypeOK
  <2> QED
    BY <1>1, <1>4, <2>1, GovernanceAssumption DEF VerdictJustified, Ballots, GovInv
<1> QED
  BY <1>1, <1>3, <1>4

\* Every step keeps both invariants.
LEMMA GovStep ==
    GovInv /\ [GovNext]_GovState => GovInv' /\ (VerdictJustified => VerdictJustified')
  BY CreateKeeps, VoteKeeps, FinalizeKeeps, ExecuteKeeps, CancelKeeps, SettingsKeep DEF GovNext

\* GovInv always holds.
LEMMA GovAlwaysInv == GovSpec => []GovInv
  BY GovInit1, GovStep, PTL DEF GovSpec, GovState

\* All entries are well typed and every proposal has its proposer's snapshot, for
\* any voters, stakes and totals.
THEOREM GovTypeCorrect == GovSpec => []GovTypeOK
<1>1. GovInv => GovTypeOK
  BY DEF GovInv
<1> QED
  BY <1>1, GovAlwaysInv, PTL

\* A passed or executed proposal has the majority, the quorum of the total at its
\* creation, and waited as long as it had to, for any quorum and periods.
THEOREM VerdictsJustified == GovSpec => []VerdictJustified
  BY GovInit1, GovStep, GovAlwaysInv, PTL DEF GovSpec, GovState

\* What a step may do to an existing proposal.
LEMMA VerdictStandsStep ==
    ASSUME GovInv, [GovNext]_GovState, NEW p \in ProposalIds, Exists(p)
    PROVE  /\ snapshot'[p] = snapshot[p]
           /\ ~StatusIs(p, "Active") =>
                /\ voted'[p] = voted[p]
                /\ proposal'[p] \in {proposal[p]}
                        \cup (IF StatusIs(p, "Passed")
                              THEN {[proposal[p] EXCEPT !.status = "Executed"]} ELSE {})
<1>0. proposal \in [ProposalIds -> Ballots \cup {None}]
      /\ voted \in [ProposalIds -> SUBSET Voters]
      /\ snapshot \in [ProposalIds -> [Voters -> Stakes \cup {None}]]
  BY DEF GovInv, GovTypeOK
<1>1. ASSUME NEW v \in Voters, NEW q \in ProposalIds, CreateProposal(v, q)
      PROVE  proposal'[p] = proposal[p] /\ snapshot'[p] = snapshot[p] /\ voted'[p] = voted[p]
  <2>1. q # p
    BY <1>1, CreateKeeps
  <2> QED
    BY <1>0, <1>1, <2>1 DEF CreateProposal
<1>2. ASSUME NEW v \in Voters, NEW q \in ProposalIds, NEW support \in BOOLEAN, Vote(v, q, support)
      PROVE  /\ snapshot'[p] = snapshot[p]
             /\ ~StatusIs(p, "Active") => proposal'[p] = proposal[p] /\ voted'[p] = voted[p]
  BY <1>0, <1>2 DEF Vote
<1>3. ASSUME NEW q \in ProposalIds,
             FinalizeProposal(q) \/ \E v \in Voters : CancelProposal(v, q)
      PROVE  /\ snapshot'[p] = snapshot[p] /\ voted'[p] = voted[p]
             /\ ~StatusIs(p, "Active") => proposal'[p] = proposal[p]
  BY <1>0, <1>3 DEF FinalizeProposal, CancelProposal, Cancellable
<1>4. ASSUME NEW q \in ProposalIds, ExecuteProposal(q)
      PROVE  /\ snapshot'[p] = snapshot[p] /\ voted'[p] = voted[p]
             /\ \/ proposal'[p] = proposal[p]
                \/ StatusIs(p, "Passed") /\ proposal'[p] = [proposal[p] EXCEPT !.status = "Executed"]
  BY <1>0, <1>4 DEF ExecuteProposal
<1>5. CASE \/ GovTick \/ SetStakingPool \/ UNCHANGED GovState
           \/ \E total \in Totals : SetTotalStaked(total)
           \/ \E v \in Voters, stake \in Stakes : SetVoterStake(v, stake) \/ PoolMoves(v, stake)
  BY <1>5, SettingsKeep DEF ballotVars
<1> QED
  BY <1>1, <1>2, <1>3, <1>4, <1>5 DEF GovNext

\* A verdict is final and a proposal's weights are fixed from its creation, for any
\* voters and any number of proposals.
THEOREM VerdictsStand == GovSpec => VerdictStands
<1>1. GovInv /\ [GovNext]_GovState
        => [\A p \in ProposalIds : Exists(p) =>
              /\ snapshot'[p] = snapshot[p]
              /\ ~StatusIs(p, "Active") =>
                  /\ voted'[p] = voted[p]
                  /\ proposal'[p] \in {proposal[p]}
                          \cup (IF StatusIs(p, "Passed")
                                THEN {[proposal[p] EXCEPT !.status = "Executed"]} ELSE {})]_<<now, govVars>>
  BY VerdictStandsStep
<1> QED
  BY <1>1, GovAlwaysInv, PTL DEF GovSpec, VerdictStands, GovState

\* The votes and the voters of a proposal belong together: also, nobody has voted
\* on what does not exist, so that a new proposal starts with no votes and no voters.
VotesInv == VotesAreSnapshots /\ \A p \in ProposalIds : ~Exists(p) => voted[p] = {}

\* The weights the snapshot gave the voters.
WeightsOf(p) == [v \in Voters |-> SnapshotWeight(p, v)]

\* Weights are natural numbers, given by the snapshot before and after a step.
LEMMA WeightsKnown ==
    ASSUME GovInv, GovInv', NEW p \in ProposalIds
    PROVE  /\ WeightsOf(p) \in [Voters -> Nat]
           /\ \A v \in Voters : WeightsOf(p)[v] = Weight(p, v)
           /\ snapshot'[p] = snapshot[p] => WeightsOf(p)' = WeightsOf(p)
           /\ IsFiniteSet(voted[p]) /\ voted[p] \in SUBSET Voters
<1>1. \A v \in Voters : snapshot[p][v] \in Stakes \cup {None}
  BY DEF GovInv, GovTypeOK
<1>2. \A v \in Voters : SnapshotWeight(p, v) \in Nat /\ SnapshotWeight(p, v) = Weight(p, v)
  BY <1>1, GovernanceAssumption DEF SnapshotWeight, Weight, GovInv, GovTypeOK
<1>3. voted[p] \in SUBSET Voters
  BY DEF GovInv, GovTypeOK
<1>4. IsFiniteSet(voted[p])
  BY <1>3, GovernanceAssumption, FS_Subset
<1>5. \A v \in Voters : WeightsOf(p)[v] = Weight(p, v)
  BY <1>2 DEF WeightsOf
<1>6. ASSUME snapshot'[p] = snapshot[p] PROVE WeightsOf(p)' = WeightsOf(p)
  <2>1. \A v \in Voters : SnapshotWeight(p, v)' = SnapshotWeight(p, v)
    BY <1>6, GovernanceAssumption DEF SnapshotWeight, GovInv, GovTypeOK
  <2> QED
    BY <2>1 DEF WeightsOf
<1> QED
  BY <1>2, <1>3, <1>4, <1>5, <1>6 DEF WeightsOf

\* A proposal whose votes, voters and snapshot stay as they are needs no more.
LEMMA VotesStay ==
    ASSUME GovInv, GovInv', VotesInv, NEW p \in ProposalIds, Exists(p)',
           Exists(p), snapshot'[p] = snapshot[p], voted'[p] = voted[p],
           proposal'[p].votesFor = proposal[p].votesFor,
           proposal'[p].votesAgainst = proposal[p].votesAgainst
    PROVE  proposal'[p].votesFor + proposal'[p].votesAgainst
                = SumFunctionOnSet(WeightsOf(p)', voted'[p])
<1>1. proposal[p].votesFor + proposal[p].votesAgainst = SumFunctionOnSet(WeightsOf(p), voted[p])
  BY DEF VotesInv, VotesAreSnapshots, WeightsOf
<1> QED
  BY <1>1, WeightsKnown

\* The votes stay the snapshots of those who voted.
LEMMA VotesStep ==
    ASSUME GovInv, GovInv', VotesInv, [GovNext]_GovState
    PROVE  VotesInv'
<1> DEFINE Counted(p) == /\ Exists(p)' => proposal'[p].votesFor + proposal'[p].votesAgainst
                                = SumFunctionOnSet(WeightsOf(p)', voted'[p])
                         /\ ~Exists(p)' => voted'[p] = {}
<1>0. /\ proposal \in [ProposalIds -> Ballots \cup {None}]
      /\ voted \in [ProposalIds -> SUBSET Voters]
      /\ snapshot \in [ProposalIds -> [Voters -> Stakes \cup {None}]]
  BY DEF GovInv, GovTypeOK
<1>1. ASSUME NEW p \in ProposalIds,
             proposal'[p] = proposal[p] /\ snapshot'[p] = snapshot[p] /\ voted'[p] = voted[p]
      PROVE  Counted(p)
  <2>1. CASE Exists(p)
    BY <1>1, <2>1, VotesStay DEF Exists
  <2>2. CASE ~Exists(p)
    BY <1>1, <2>2 DEF Exists, VotesInv
  <2> QED
    BY <2>1, <2>2
<1>2. ASSUME NEW v \in Voters, NEW q \in ProposalIds, CreateProposal(v, q), NEW p \in ProposalIds
      PROVE  Counted(p)
  <2>1. CASE p = q
    <3> DEFINE new == [proposer |-> v, votesFor |-> 0, votesAgainst |-> 0, status |-> "Active",
                       endsAt |-> now + VotingPeriod, total |-> quorumTotal]
    <3>a. proposal'[p] = new /\ voted' = voted
      BY <1>0, <1>2, <2>1 DEF CreateProposal
    <3>b. new \in Ballots
      BY GovernanceAssumption DEF Ballots, Verdicts, GovInv, GovTypeOK
    <3>c. new # None
      BY <3>b, GovernanceAssumption
    <3>d. voted[p] = {}
      BY <1>2, <2>1, CreateKeeps DEF VotesInv
    <3>1. /\ voted'[p] = {} /\ Exists(p)'
          /\ proposal'[p].votesFor = 0 /\ proposal'[p].votesAgainst = 0
      BY <3>a, <3>c, <3>d DEF Exists
    <3> QED
      BY <3>1, SumOfNone
  <2>2. CASE p # q
    <3>1. proposal'[p] = proposal[p] /\ snapshot'[p] = snapshot[p] /\ voted'[p] = voted[p]
      BY <1>0, <1>2, <2>2 DEF CreateProposal
    <3> QED
      BY <3>1, <1>1
  <2> QED
    BY <2>1, <2>2
<1>3. ASSUME NEW v \in Voters, NEW q \in ProposalIds, NEW support \in BOOLEAN, Vote(v, q, support),
             NEW p \in ProposalIds
      PROVE  Counted(p)
  <2>1. CASE p = q
    <3>1. /\ Exists(p) /\ v \notin voted[p] /\ voted'[p] = voted[p] \cup {v}
          /\ snapshot'[p] = snapshot[p]
      BY <1>0, <1>3, <2>1 DEF Vote, StatusIs
    <3>2. proposal[p] \in Ballots /\ proposal[p].votesFor \in Nat /\ proposal[p].votesAgainst \in Nat
      BY <1>0, <3>1 DEF Exists, Ballots
    <3>3. Weight(p, v) \in Nat /\ WeightsOf(p)[v] = Weight(p, v) /\ IsFiniteSet(voted[p])
      BY WeightsKnown
    <3>4. proposal'[p].votesFor + proposal'[p].votesAgainst
            = proposal[p].votesFor + proposal[p].votesAgainst + Weight(p, v)
      <4>1. CASE support
        <5>1. /\ proposal'[p].votesFor = proposal[p].votesFor + Weight(p, v)
              /\ proposal'[p].votesAgainst = proposal[p].votesAgainst
          BY <1>0, <1>3, <2>1, <3>2, <4>1 DEF Vote, Ballots
        <5> QED
          BY <5>1, <3>2, <3>3
      <4>2. CASE ~support
        <5>1. /\ proposal'[p].votesFor = proposal[p].votesFor
              /\ proposal'[p].votesAgainst = proposal[p].votesAgainst + Weight(p, v)
          BY <1>0, <1>3, <2>1, <3>2, <4>2 DEF Vote, Ballots
        <5> QED
          BY <5>1, <3>2, <3>3
      <4> QED
        BY <4>1, <4>2
    <3>5. proposal[p].votesFor + proposal[p].votesAgainst = SumFunctionOnSet(WeightsOf(p), voted[p])
      BY <3>1 DEF VotesInv, VotesAreSnapshots, WeightsOf
    <3>6. \A w \in voted[p] \cup {v} : WeightsOf(p)[w] \in Int
      BY WeightsKnown
    <3>7. SumFunctionOnSet(WeightsOf(p), voted[p] \cup {v})
            = SumFunctionOnSet(WeightsOf(p), voted[p]) + WeightsOf(p)[v]
      BY <3>1, <3>3, <3>6, SumWithOneMore
    <3>8. WeightsOf(p)' = WeightsOf(p)
      BY <3>1, WeightsKnown
    <3>9. Exists(p)'
      <4>1. proposal'[p] \in Ballots
        <5>1. CASE support
          <6>1. proposal'[p] = [proposal[p] EXCEPT !.votesFor = @ + Weight(p, v)]
            BY <1>0, <1>3, <2>1, <3>2, <5>1 DEF Vote, Ballots
          <6> QED
            BY <6>1, <3>2, <3>3 DEF Ballots
        <5>2. CASE ~support
          <6>1. proposal'[p] = [proposal[p] EXCEPT !.votesAgainst = @ + Weight(p, v)]
            BY <1>0, <1>3, <2>1, <3>2, <5>2 DEF Vote, Ballots
          <6> QED
            BY <6>1, <3>2, <3>3 DEF Ballots
        <5> QED
          BY <5>1, <5>2
      <4> QED
        BY <4>1, GovernanceAssumption DEF Exists
    <3> QED
      BY <3>1, <3>3, <3>4, <3>5, <3>7, <3>8, <3>9
  <2>2. CASE p # q
    <3>1. proposal'[p] = proposal[p] /\ snapshot'[p] = snapshot[p] /\ voted'[p] = voted[p]
      BY <1>0, <1>3, <2>2 DEF Vote
    <3> QED
      BY <3>1, <1>1
  <2> QED
    BY <2>1, <2>2
<1>4. ASSUME NEW q \in ProposalIds, NEW p \in ProposalIds,
             \/ FinalizeProposal(q) \/ ExecuteProposal(q)
             \/ \E v \in Voters : CancelProposal(v, q)
      PROVE  Counted(p)
  <2>1. /\ Exists(q) /\ UNCHANGED <<snapshot, voted>>
        /\ \E status \in Verdicts : proposal' = [proposal EXCEPT ![q].status = status]
        /\ UNCHANGED <<now, stakeSources, knownVoters, snapshot, creationStake, voted>>
    BY <1>4 DEF FinalizeProposal, ExecuteProposal, CancelProposal, Cancellable, StatusIs, Verdicts
  <2>2. CASE p = q
    <3>1. /\ proposal[p] \in Ballots /\ Exists(p)
          /\ proposal'[p].votesFor = proposal[p].votesFor
          /\ proposal'[p].votesAgainst = proposal[p].votesAgainst
      BY <1>0, <2>1, <2>2 DEF Ballots, Exists
    <3>2. proposal'[p] \in Ballots
      BY <1>0, <2>1, <2>2, <3>1 DEF Ballots
    <3>3. Exists(p)'
      BY <3>2, GovernanceAssumption DEF Exists
    <3> QED
      BY <2>1, <3>1, <3>3, VotesStay
  <2>3. CASE p # q
    BY <1>0, <1>1, <2>1, <2>3
  <2> QED
    BY <2>2, <2>3
<1>5. ASSUME \/ GovTick \/ SetStakingPool \/ UNCHANGED GovState
             \/ \E total \in Totals : SetTotalStaked(total)
             \/ \E v \in Voters, stake \in Stakes : SetVoterStake(v, stake) \/ PoolMoves(v, stake),
             NEW p \in ProposalIds
      PROVE  Counted(p)
  BY <1>1, <1>5, SettingsKeep DEF ballotVars
<1>6. \A p \in ProposalIds : Counted(p)
  BY <1>2, <1>3, <1>4, <1>5 DEF GovNext
<1> QED
  BY <1>6 DEF VotesInv, VotesAreSnapshots, WeightsOf

\* The votes of every proposal are the creation stakes of those who voted and were
\* known at its creation, each counted once, for any voters and stakes and however
\* these move: of the proofs above it needs only the types, and that what does not
\* exist has no voters.
THEOREM VotesStaySnapshots == GovSpec => []VotesAreSnapshots
<1>1. now = 0 /\ GovInit => VotesInv
  BY DEF GovInit, VotesInv, VotesAreSnapshots, Exists
<1>2. GovInv /\ GovInv' /\ VotesInv /\ [GovNext]_GovState => VotesInv'
  BY VotesStep
<1>3. VotesInv => VotesAreSnapshots
  BY DEF VotesInv
<1> QED
  BY <1>1, <1>2, <1>3, GovAlwaysInv, PTL DEF GovSpec, GovState

-----------------------------------------------------------------------------

\* What a Tick of the ledger adds to the state.
TimelockState == <<now, timelockVars>>

\* The clock, the types, and what relates an entry's key and life to the clock: the
\* executed keys are not later than now, and each entry was given its life when
\* its eta was at most MaxDelay away.
TimelockInv ==
    /\ now \in Nat
    /\ minDelay \in 1..MaxDelay /\ tlPaused \in BOOLEAN
    /\ queued \subseteq [call : Calls, eta : Nat, liveUntil : Nat]
    /\ ran \subseteq Calls \X Nat
    /\ \A e, f \in LiveEntries : e.call = f.call /\ e.eta = f.eta => e = f
    /\ \A k \in ran : k[2] <= now
    /\ \A e \in queued : e.eta <= e.liveUntil - EntryLife + MaxDelay

\* TimelockInv holds initially.
LEMMA TimelockInvInit == now = 0 /\ TimelockInit => TimelockInv
<1> SUFFICES ASSUME now = 0, TimelockInit PROVE TimelockInv
  OBVIOUS
<1>1. InitialDelay \in Nat /\ MaxDelay \in Nat /\ InitialDelay # 0 /\ InitialDelay <= MaxDelay
  BY TimelockAssumption
<1>2. minDelay \in 1..MaxDelay
  BY <1>1 DEF TimelockInit
<1>3. tlPaused \in BOOLEAN /\ queued = {} /\ ran = {} /\ LiveEntries = {} /\ now \in Nat
  BY DEF TimelockInit, LiveEntries
<1> QED
  BY <1>2, <1>3 DEF TimelockInv

\* The clock keeps TimelockInv: it only ends the life of entries.
LEMMA TimelockInvTick ==
    ASSUME TimelockInv, TimelockTick
    PROVE  TimelockInv'
  BY DEF TimelockInv, TimelockTick, Tick, timelockVars, LiveEntries

\* Queueing keeps TimelockInv: the new key was not live.
LEMMA TimelockInvQueue ==
    ASSUME TimelockInv, NEW call \in Calls, NEW delay \in Delays, QueueCall(call, delay)
    PROVE  TimelockInv'
<1> DEFINE new == [call |-> call, eta |-> now + delay, liveUntil |-> LifeEnd]
<1>1. /\ delay \in Nat /\ minDelay <= delay /\ delay <= MaxDelay
      /\ Entry(call, now + delay) = {}
      /\ queued' = LiveEntries \cup {new}
      /\ UNCHANGED <<now, minDelay, tlPaused, ran>>
  BY TimelockAssumption DEF QueueCall, DelayAllowed
<1>2. now \in Nat /\ EntryLife \in Nat /\ MaxDelay \in Nat /\ LifeEnd = now + EntryLife
  BY TimelockAssumption DEF TimelockInv, LifeEnd
<1>3. new \in [call : Calls, eta : Nat, liveUntil : Nat]
  BY <1>1, <1>2
<1>4. queued' \subseteq [call : Calls, eta : Nat, liveUntil : Nat]
  BY <1>1, <1>3 DEF TimelockInv, LiveEntries
<1>5. LiveEntries' \subseteq LiveEntries \cup {new}
  BY <1>1 DEF LiveEntries
<1>6. \A e \in LiveEntries : ~(e.call = new.call /\ e.eta = new.eta)
  BY <1>1 DEF Entry
<1>7. \A e, f \in LiveEntries' : e.call = f.call /\ e.eta = f.eta => e = f
  BY <1>5, <1>6 DEF TimelockInv
<1>8. new.eta <= new.liveUntil - EntryLife + MaxDelay
  BY <1>1, <1>2
<1>9. \A e \in queued' : e.eta <= e.liveUntil - EntryLife + MaxDelay
  BY <1>1, <1>8 DEF TimelockInv, LiveEntries
<1> QED
  BY <1>1, <1>4, <1>7, <1>9 DEF TimelockInv

\* Executing, cancelling and expiring an entry keep TimelockInv.
LEMMA TimelockInvRemove ==
    ASSUME TimelockInv, NEW e \in LiveEntries, ExecuteCall(e) \/ CancelCall(e) \/ ExpireCall(e)
    PROVE  TimelockInv'
<1>1. queued' = queued \ {e} /\ UNCHANGED <<now, minDelay, tlPaused>>
  BY DEF ExecuteCall, CancelCall, ExpireCall
<1>2. LiveEntries' \subseteq LiveEntries
  BY <1>1 DEF LiveEntries
<1>3. e \in [call : Calls, eta : Nat, liveUntil : Nat]
  BY DEF TimelockInv, LiveEntries
<1>4. ran' \subseteq Calls \X Nat /\ \A k \in ran' : k[2] <= now
  <2>1. CASE ExecuteCall(e)
    <3>1. ran' = ran \cup {<<e.call, e.eta>>} /\ e.eta <= now
      BY <2>1, <1>3 DEF ExecuteCall, TimelockInv
    <3> QED
      BY <3>1, <1>3 DEF TimelockInv
  <2>2. CASE CancelCall(e) \/ ExpireCall(e)
    BY <2>2 DEF CancelCall, ExpireCall, TimelockInv
  <2> QED
    BY <2>1, <2>2
<1> QED
  BY <1>1, <1>2, <1>4 DEF TimelockInv

\* The pause and the minimum delay keep TimelockInv.
LEMMA TimelockInvSettings ==
    ASSUME TimelockInv,
           \/ UnpauseTimelock
           \/ \E signers \in SUBSET Members : EmergencyPause(signers)
           \/ \E delay \in Delays : SetMinDelay(delay)
    PROVE  TimelockInv'
<1>1. UNCHANGED <<now, queued, ran>>
  BY DEF UnpauseTimelock, EmergencyPause, SetMinDelay
<1>2. tlPaused' \in BOOLEAN
  BY DEF TimelockInv, UnpauseTimelock, EmergencyPause, SetMinDelay
<1>3. minDelay' \in 1..MaxDelay
  <2>1. CASE UNCHANGED minDelay
    BY <2>1 DEF TimelockInv
  <2>2. ASSUME NEW delay \in Delays, SetMinDelay(delay) PROVE minDelay' \in 1..MaxDelay
    <3>1. delay \in Nat /\ MaxDelay \in Nat
      BY TimelockAssumption
    <3> QED
      BY <2>2, <3>1 DEF SetMinDelay, MinDelayRaised
  <2> QED
    BY <2>1, <2>2 DEF UnpauseTimelock, EmergencyPause
<1> QED
  BY <1>1, <1>2, <1>3 DEF TimelockInv, LiveEntries

\* TimelockInv is inductive.
LEMMA TimelockInvStep == TimelockInv /\ [TimelockNext]_TimelockState => TimelockInv'
<1> SUFFICES ASSUME TimelockInv, [TimelockNext]_TimelockState PROVE TimelockInv'
  OBVIOUS
<1>1. CASE TimelockTick
  BY <1>1, TimelockInvTick
<1>2. ASSUME NEW call \in Calls, NEW delay \in Delays, QueueCall(call, delay) PROVE TimelockInv'
  BY <1>2, TimelockInvQueue
<1>3. ASSUME NEW e \in LiveEntries, ExecuteCall(e) \/ CancelCall(e) \/ ExpireCall(e)
      PROVE  TimelockInv'
  BY <1>3, TimelockInvRemove
<1>4. CASE \/ UnpauseTimelock
           \/ \E signers \in SUBSET Members : EmergencyPause(signers)
           \/ \E delay \in Delays : SetMinDelay(delay)
  BY <1>4, TimelockInvSettings
<1>5. CASE UNCHANGED TimelockState
  BY <1>5 DEF TimelockInv, LiveEntries, TimelockState, timelockVars
<1> QED
  BY <1>1, <1>2, <1>3, <1>4, <1>5 DEF TimelockNext

\* TimelockInv always holds.
LEMMA TimelockAlwaysInv == TimelockSpec => []TimelockInv
  BY TimelockInvInit, TimelockInvStep, PTL DEF TimelockSpec, TimelockState

-----------------------------------------------------------------------------
\* The minimum delay stays positive and within the maximum, and a key is queued at
\* most once at a time, for all calls, members and delays.
THEOREM TimelockTypeCorrect == TimelockSpec => []TimelockTypeOK
<1>1. TimelockInv => TimelockTypeOK
  BY DEF TimelockInv, TimelockTypeOK, Entry
<1> QED
  BY <1>1, TimelockAlwaysInv, PTL

\* A step keeps RunsOnce: a new eta lies in the future, the executed ones do not,
\* and no other live entry has the key of the one that is executed.
LEMMA RunsOnceStep ==
    TimelockInv /\ RunsOnce /\ [TimelockNext]_TimelockState => RunsOnce'
<1> SUFFICES ASSUME TimelockInv, RunsOnce, [TimelockNext]_TimelockState PROVE RunsOnce'
  OBVIOUS
<1>1. ASSUME NEW call \in Calls, NEW delay \in Delays, QueueCall(call, delay) PROVE RunsOnce'
  <2> DEFINE new == [call |-> call, eta |-> now + delay, liveUntil |-> LifeEnd]
  <2>1. delay \in Nat /\ delay >= 1 /\ now \in Nat
    BY <1>1, TimelockAssumption DEF QueueCall, DelayAllowed, TimelockInv
  <2>2. LiveEntries' \subseteq LiveEntries \cup {new} /\ ran' = ran
    BY <1>1 DEF QueueCall, LiveEntries
  <2>3. <<new.call, new.eta>> \notin ran
    <3> SUFFICES ASSUME <<call, now + delay>> \in ran PROVE FALSE
      OBVIOUS
    <3>1. now + delay <= now
      BY DEF TimelockInv
    <3> QED
      BY <3>1, <2>1
  <2> QED
    BY <2>2, <2>3 DEF RunsOnce
<1>2. ASSUME NEW e \in LiveEntries, ExecuteCall(e) PROVE RunsOnce'
  <2>1. queued' = queued \ {e} /\ now' = now /\ ran' = ran \cup {<<e.call, e.eta>>}
    BY <1>2 DEF ExecuteCall
  <2>2. \A f \in LiveEntries' : f \in LiveEntries /\ f # e
    BY <2>1 DEF LiveEntries
  <2>3. \A f \in LiveEntries : <<f.call, f.eta>> = <<e.call, e.eta>> => f = e
    BY DEF TimelockInv
  <2> QED
    BY <2>1, <2>2, <2>3 DEF RunsOnce
<1>3. ASSUME NEW e \in LiveEntries, CancelCall(e) \/ ExpireCall(e) PROVE RunsOnce'
  BY <1>3 DEF CancelCall, ExpireCall, RunsOnce, LiveEntries
<1>4. CASE TimelockTick
  <2>1. queued' = queued /\ ran' = ran /\ now' = now + 1 /\ now \in Nat
    BY <1>4 DEF TimelockTick, Tick, timelockVars, TimelockInv
  <2>2. \A e \in queued : e.liveUntil \in Nat
    BY DEF TimelockInv
  <2>3. LiveEntries' \subseteq LiveEntries
    BY <2>1, <2>2 DEF LiveEntries
  <2> QED
    BY <2>1, <2>3 DEF RunsOnce
<1>5. CASE \/ UnpauseTimelock
           \/ \E signers \in SUBSET Members : EmergencyPause(signers)
           \/ \E delay \in Delays : SetMinDelay(delay)
           \/ UNCHANGED TimelockState
  BY <1>5 DEF UnpauseTimelock, EmergencyPause, SetMinDelay, TimelockState, timelockVars,
              RunsOnce, LiveEntries
<1> QED
  BY <1>1, <1>2, <1>3, <1>4, <1>5 DEF TimelockNext

\* No key that was executed is ever queued again, for all calls and delays: this is
\* what the positive minimum delay is for.
THEOREM CallsRunOnce == TimelockSpec => []RunsOnce
<1>1. TimelockInit => RunsOnce
  BY DEF TimelockInit, RunsOnce, LiveEntries
<1> QED
  BY <1>1, TimelockAlwaysInv, RunsOnceStep, PTL DEF TimelockSpec, TimelockState
-----------------------------------------------------------------------------
\* A step that is neither a cancellation nor later than an entry's grace period
\* leaves the entry in the queue or executes it.
LEMMA QueuedThroughGraceStep ==
    ASSUME TimelockInv, TimelockInv', [TimelockNext]_TimelockState, LifeCoversDelays,
           NEW e \in LiveEntries, ~CancelCall(e), ~(now' > e.eta + GracePeriod)
    PROVE  e \in LiveEntries' \/ <<e.call, e.eta>> \in ran'
<1>1. /\ e \in queued /\ now <= e.liveUntil /\ now \in Nat /\ now' \in Nat
      /\ e.eta \in Nat /\ e.liveUntil \in Nat
      /\ e.eta <= e.liveUntil - EntryLife + MaxDelay
  BY DEF TimelockInv, LiveEntries
<1>2. MaxDelay \in Nat /\ GracePeriod \in Nat /\ EntryLife \in Nat
  BY TimelockAssumption
<1>3. now' <= e.liveUntil
  BY <1>1, <1>2 DEF LifeCoversDelays
<1>4. SUFFICES e \in queued' \/ <<e.call, e.eta>> \in ran'
  BY <1>3 DEF LiveEntries
<1>5. ASSUME NEW call \in Calls, NEW delay \in Delays, QueueCall(call, delay) PROVE e \in queued'
  BY <1>5 DEF QueueCall
<1>6. ASSUME NEW f \in LiveEntries, ExecuteCall(f)
      PROVE  e \in queued' \/ <<e.call, e.eta>> \in ran'
  BY <1>6, <1>1 DEF ExecuteCall
<1>7. ASSUME NEW f \in LiveEntries, CancelCall(f) PROVE e \in queued'
  BY <1>7, <1>1 DEF CancelCall
<1>8. ASSUME NEW f \in LiveEntries, ExpireCall(f) PROVE e \in queued'
  <2>1. queued' = queued \ {f} /\ now' = now /\ now > f.eta + GracePeriod
    BY <1>8 DEF ExpireCall, Overdue
  <2>2. e # f
    BY <2>1
  <2> QED
    BY <2>1, <2>2, <1>1
<1>9. CASE \/ TimelockTick
           \/ UnpauseTimelock
           \/ \E signers \in SUBSET Members : EmergencyPause(signers)
           \/ \E delay \in Delays : SetMinDelay(delay)
           \/ UNCHANGED TimelockState
  BY <1>1, <1>9 DEF TimelockTick, UnpauseTimelock, EmergencyPause, SetMinDelay,
                    TimelockState, timelockVars
<1> QED
  BY <1>5, <1>6, <1>7, <1>8, <1>9 DEF TimelockNext

\* Where the life of an entry covers the longest delay and the grace period, no
\* entry leaves the queue before the end of its grace period unless it is executed
\* or cancelled, for all delays the admin may choose.
THEOREM QueueKeepsCalls == TimelockSpec => QueuedThroughGrace
<1>1. TimelockInv /\ TimelockInv' /\ [TimelockNext]_TimelockState
        => [LifeCoversDelays => \A e \in LiveEntries :
                \/ e \in LiveEntries'
                \/ <<e.call, e.eta>> \in ran'
                \/ CancelCall(e)
                \/ now' > e.eta + GracePeriod]_<<now, timelockVars>>
  BY QueuedThroughGraceStep
<1> QED
  BY <1>1, TimelockAlwaysInv, PTL DEF TimelockSpec, QueuedThroughGrace, TimelockState

-----------------------------------------------------------------------------

\* All that a step of multisig_admin may change.
MultisigState == <<now, multisigVars>>

\* What all proofs rest on: the types with the order of the ids, and the clock.
MultisigInv == now \in Nat /\ MultisigTypeOK

\* The motions there are.
Tabled == {q \in MotionIds : motion[q] # None}

\* The next id is free, and all before it are taken: the count of the taken ones
\* can stand for the counter of the code.
LEMMA NextIdFree ==
    ASSUME MultisigTypeOK
    PROVE  /\ NextId \notin Tabled
           /\ \A q \in 1 .. NextId - 1 : q \in Tabled
<1>1. MaxMotions \in Nat /\ Tabled \in SUBSET (1..MaxMotions)
  BY MultisigAssumption DEF Tabled, MotionIds
<1>2. \A p \in Tabled : \A q \in 1..p : q \in Tabled
  BY <1>1 DEF Tabled, MotionIds, MultisigTypeOK
<1>3. Cardinality(Tabled) \in Nat /\ Tabled = 1..Cardinality(Tabled)
  BY <1>1, <1>2, IdsInOrder
<1>4. NextId = Cardinality(Tabled) + 1
  BY DEF NextId, Tabled
<1> QED
  BY <1>3, <1>4

\* The approvals of a proposal are finitely many.
LEMMA ApprovalCounts ==
    ASSUME NEW set \in SUBSET Signers
    PROVE  IsFiniteSet(set) /\ Cardinality(set) \in Nat
  BY MultisigAssumption, FS_Subset, FS_CardinalityType

\* Initially the invariants hold.
LEMMA MultisigInit1 == now = 0 /\ MultisigInit => MultisigInv /\ ExecutedApproved
  BY MultisigAssumption DEF MultisigInit, MultisigInv, MultisigTypeOK, ExecutedApproved

\* A proposal takes the next id and starts without approvals.
LEMMA ProposeKeeps ==
    ASSUME MultisigInv, NEW p \in MotionIds, NEW expiry \in Expiries, Propose(p, expiry)
    PROVE  MultisigInv' /\ (ExecutedApproved => ExecutedApproved') /\ motion[p] = None
<1>1. p = NextId /\ MaxMotions \in Nat /\ p \in Nat
  BY MultisigAssumption DEF Propose, MotionIds
<1>2. motion[p] = None /\ \A q \in 1 .. p - 1 : motion[q] # None
  BY <1>1, NextIdFree DEF MultisigInv, Tabled
<1> DEFINE new == [expiry |-> expiry, status |-> "Pending", approvalCount |-> 0]
<1>3. new \in Motions /\ new # None
  BY MultisigAssumption DEF Motions
<1>4. motion' = [motion EXCEPT ![p] = new] /\ approvals' = [approvals EXCEPT ![p] = {}] /\ now' = now
  BY DEF Propose
<1>5. motion' \in [MotionIds -> Motions \cup {None}] /\ approvals' \in [MotionIds -> SUBSET Signers]
  BY <1>3, <1>4 DEF MultisigInv, MultisigTypeOK
<1>6. \A r \in MotionIds : motion'[r] # None => \A q \in 1..r : motion'[q] # None
  <2> SUFFICES ASSUME NEW r \in MotionIds, motion'[r] # None, NEW q \in 1..r
               PROVE  motion'[q] # None
    OBVIOUS
  <2>1. q \in MotionIds
    BY <1>1 DEF MotionIds
  <2>2. CASE r = p
    BY <2>1, <2>2, <1>1, <1>2, <1>3, <1>4 DEF MultisigInv, MultisigTypeOK
  <2>3. CASE r # p
    BY <2>1, <2>3, <1>3, <1>4 DEF MultisigInv, MultisigTypeOK
  <2> QED
    BY <2>2, <2>3
<1>7. ASSUME ExecutedApproved PROVE ExecutedApproved'
  <2>1. Cardinality({}) = 0
    BY FS_EmptySet
  <2> QED
    BY <1>4, <1>7, <2>1 DEF ExecutedApproved, MultisigInv, MultisigTypeOK
<1> QED
  BY <1>2, <1>4, <1>5, <1>6, <1>7 DEF MultisigInv, MultisigTypeOK

\* New approvals of a pending proposal keep the types and the stored count.
LEMMA SetApprovalsKeeps ==
    ASSUME MultisigInv, NEW p \in MotionIds, NEW set \in SUBSET Signers, Pending(p),
           SetApprovals(p, set), UNCHANGED now
    PROVE  MultisigInv' /\ (ExecutedApproved => ExecutedApproved')
<1>1. Cardinality(set) \in Nat
  BY ApprovalCounts
<1>2. motion[p] \in Motions /\ motion[p].status = "Pending"
  BY DEF Pending, MultisigInv, MultisigTypeOK
<1> DEFINE new == [motion[p] EXCEPT !.approvalCount = Cardinality(set)]
<1>3. /\ motion' = [motion EXCEPT ![p] = new]
      /\ approvals' = [approvals EXCEPT ![p] = set]
      /\ new \in Motions /\ new.status = "Pending" /\ new.approvalCount = Cardinality(set)
  BY <1>1, <1>2 DEF SetApprovals, Motions
<1>4. new # None
  BY <1>3, MultisigAssumption
<1>5. MultisigTypeOK'
  BY <1>2, <1>3, <1>4, MultisigAssumption DEF MultisigInv, MultisigTypeOK, MotionIds
<1>6. ASSUME ExecutedApproved PROVE ExecutedApproved'
  BY <1>3, <1>6 DEF ExecutedApproved, MultisigInv, MultisigTypeOK
<1> QED
  BY <1>5, <1>6 DEF MultisigInv

\* A new status of a pending proposal keeps the types; if it is Executed, the
\* approvals suffice.
LEMMA StatusKeeps ==
    ASSUME MultisigInv, NEW p \in MotionIds, Pending(p),
           NEW status \in {"Executed", "Cancelled"},
           motion' = [motion EXCEPT ![p].status = status],
           status = "Executed" => Cardinality(approvals[p]) >= Threshold,
           UNCHANGED <<now, approvals>>
    PROVE  MultisigInv' /\ (ExecutedApproved => ExecutedApproved')
<1>1. motion[p] \in Motions /\ motion[p] # None
  BY DEF Pending, MultisigInv, MultisigTypeOK
<1> DEFINE new == [motion[p] EXCEPT !.status = status]
<1>2. /\ motion' = [motion EXCEPT ![p] = new]
      /\ new \in Motions /\ new.status = status /\ new.approvalCount = motion[p].approvalCount
  BY <1>1 DEF Motions
<1>3. new # None
  BY <1>2, MultisigAssumption
<1>4. MultisigTypeOK'
  BY <1>1, <1>2, <1>3, MultisigAssumption DEF MultisigInv, MultisigTypeOK, MotionIds
<1>5. ASSUME ExecutedApproved PROVE ExecutedApproved'
  BY <1>1, <1>2, <1>5 DEF ExecutedApproved, MultisigInv, MultisigTypeOK
<1> QED
  BY <1>4, <1>5 DEF MultisigInv

\* Every step keeps both invariants.
LEMMA MultisigStep ==
    MultisigInv /\ [MultisigNext]_MultisigState
        => MultisigInv' /\ (ExecutedApproved => ExecutedApproved')
<1> SUFFICES ASSUME MultisigInv, [MultisigNext]_MultisigState
             PROVE  MultisigInv' /\ (ExecutedApproved => ExecutedApproved')
  OBVIOUS
<1>1. CASE MultisigTick \/ UNCHANGED MultisigState
  BY <1>1 DEF MultisigTick, Tick, MultisigState, multisigVars, MultisigInv, MultisigTypeOK,
              ExecutedApproved
<1>2. ASSUME NEW p \in MotionIds, NEW expiry \in Expiries, Propose(p, expiry)
      PROVE  MultisigInv' /\ (ExecutedApproved => ExecutedApproved')
  BY <1>2, ProposeKeeps
<1>3. ASSUME NEW p \in MotionIds, NEW s \in Signers, Approve(s, p) \/ RevokeApproval(s, p)
      PROVE  MultisigInv' /\ (ExecutedApproved => ExecutedApproved')
  <2>1. approvals[p] \cup {s} \in SUBSET Signers /\ approvals[p] \ {s} \in SUBSET Signers
    BY DEF MultisigInv, MultisigTypeOK
  <2>2. Pending(p) /\ UNCHANGED now
    BY <1>3 DEF Approve, RevokeApproval, Revocable
  <2>3. SetApprovals(p, approvals[p] \cup {s}) \/ SetApprovals(p, approvals[p] \ {s})
    BY <1>3 DEF Approve, RevokeApproval
  <2> QED
    BY <2>1, <2>2, <2>3, SetApprovalsKeeps
<1>4. ASSUME NEW p \in MotionIds, ExecuteMotion(p)
      PROVE  MultisigInv' /\ (ExecutedApproved => ExecutedApproved')
  BY <1>4, StatusKeeps DEF ExecuteMotion, Executable
<1>5. ASSUME NEW p \in MotionIds, CancelMotion(p)
      PROVE  MultisigInv' /\ (ExecutedApproved => ExecutedApproved')
  BY <1>5, StatusKeeps DEF CancelMotion
<1> QED
  BY <1>1, <1>2, <1>3, <1>4, <1>5 DEF MultisigNext

\* MultisigInv always holds.
LEMMA MultisigAlwaysInv == MultisigSpec => []MultisigInv
  BY MultisigInit1, MultisigStep, PTL DEF MultisigSpec, MultisigState

\* Proposals are well typed and their ids handed out in order, for all signers.
THEOREM MultisigTypeCorrect == MultisigSpec => []MultisigTypeOK
<1>1. MultisigInv => MultisigTypeOK
  BY DEF MultisigInv
<1> QED
  BY <1>1, MultisigAlwaysInv, PTL

\* An executed proposal has, and keeps, at least the threshold of approvals, and the
\* stored count is the number of approvals, for any signers and threshold.
THEOREM MultisigExecutedApproved == MultisigSpec => []ExecutedApproved
  BY MultisigInit1, MultisigStep, MultisigAlwaysInv, PTL DEF MultisigSpec, MultisigState

\* What may still happen to a proposal after its expiry.
LEMMA ExpiredStep ==
    ASSUME MultisigInv, [MultisigNext]_MultisigState,
           NEW p \in MotionIds, motion[p] # None, motion'[p] # motion[p], ~InTime(p)
    PROVE  motion'[p] = [motion[p] EXCEPT !.status = "Cancelled"]
<1>0. motion \in [MotionIds -> Motions \cup {None}]
  BY DEF MultisigInv, MultisigTypeOK
<1>1. CASE MultisigTick \/ UNCHANGED MultisigState
  BY <1>1 DEF MultisigTick, MultisigState, multisigVars
<1>2. ASSUME NEW q \in MotionIds, NEW expiry \in Expiries, Propose(q, expiry) PROVE FALSE
  <2>1. motion[q] = None /\ q # p
    BY <1>2, ProposeKeeps
  <2> QED
    BY <1>0, <1>2, <2>1 DEF Propose
<1>3. ASSUME NEW q \in MotionIds, NEW s \in Signers, Approve(s, q) \/ RevokeApproval(s, q) PROVE FALSE
  BY <1>0, <1>3 DEF Approve, RevokeApproval, Revocable, SetApprovals
<1>4. ASSUME NEW q \in MotionIds, ExecuteMotion(q) PROVE FALSE
  BY <1>0, <1>4 DEF ExecuteMotion, Executable
<1>5. ASSUME NEW q \in MotionIds, CancelMotion(q)
      PROVE  motion'[p] = [motion[p] EXCEPT !.status = "Cancelled"]
  BY <1>0, <1>5 DEF CancelMotion
<1> QED
  BY <1>1, <1>2, <1>3, <1>4, <1>5 DEF MultisigNext

\* After its expiry a proposal is never approved, unapproved or executed.
THEOREM ExpiredProposalsNeverRun == MultisigSpec => ExpiredNeverRuns
<1>1. MultisigInv /\ [MultisigNext]_MultisigState
        => [\A p \in MotionIds : motion[p] # None /\ motion'[p] # motion[p] /\ ~InTime(p)
                => motion'[p] = [motion[p] EXCEPT !.status = "Cancelled"]]_<<now, multisigVars>>
  BY ExpiredStep
<1> QED
  BY <1>1, MultisigAlwaysInv, PTL DEF MultisigSpec, ExpiredNeverRuns, MultisigState
=============================================================================
