# A formal model of the Shelterflex contracts

TLA+ modules, TLC configurations and TLAPS proofs for the Soroban contracts of
this repository. Every definition is translated from the Rust source;
`PROJECT.json` names, for each one, the lines it stands for.

## 1. The system

The workspace is a set of Soroban contracts. A contract is called by invoking
one of its entry points; the host runs an invocation to its end before the next
one starts, and undoes all of its writes when it returns an error or panics.
There are no threads and no messages: what interleaves is *invocations* by
different parties (tenants, landlords, stakers, operators, admins, anybody) and
the passing of ledger time. The hard part is therefore long sequences of legal
calls, time windows, settings that change while something is under way, money
that is recorded in several places, and entries left behind by one path that
another path trips over.

| Component | State | Operations | How it interacts | What makes it correct |
|---|---|---|---|---|
| `deal_escrow` | balance, depositor, `DealState`, pending rent release, dispute, lifecycle per deal; resolver, windows, pause, circuit breaker with drain proposal; storage schema | deposit, release (three-way split), request / challenge / resolve / two timeouts of a rent release, configuration, freeze / drain, lifecycle, migration, upgrade | token contract; upgrade core | the tokens are the sum of the deals; a rent release is paid once, to the right party, at the right time; locks, releases and disputes belong together |
| `staking_pool` | stakes as separate deposits, per-user balance, total, lock period, operator, pause | stake, unstake, set_operator / admin / lock period, pause, upgrade | token contract; upgrade core; read by `governance` | the three copies of the money agree with the tokens; locked deposits stay; oldest first |
| `mvp_staking_pool` | stake, used stake, reward index and claimable per user | stake, unstake, utilise, fund, claim, a getter that settles | token contract; upgrade core | stakes are never paid out as rewards, nor rewards as stakes |
| `staking_rewards` | stake and reward index per user, cumulative index, dust, total funded | stake, unstake, fund / distribute, claim, roles, an upgrade protocol of its own | none (accounts only) | settling never changes what was earned; what is claimable was funded, but for the dust |
| `epoch_rewards` | epochs, index, stakes, banked rewards | stake, fund, seal, claim | none | epochs are sealed in order; what is earned was funded |
| `stake_delegation` | stake, delegations per delegator, stake and index per delegatee, commission, two kinds of pending exit | stake, delegate, revoke by epoch, undelegate by cooldown, slash, fund, claim | slashing authority | nobody delegates more than is staked; past rewards are not changed by a slash or a new rate |
| `soroban_upgrade_governance_core` | admin, guardian, delay, version, schema, pending proposal | propose, execute, emergency, cancel, set guardian / delay | linked into seven contracts | a proposal fits the version in force; code changes only after the delay or with the guardian |
| `governance` | proposals, votes, stake snapshots | create, vote, finalise, execute, cancel | reads `staking_pool` | one vote per staker with the weight recorded at the creation, execution after the time lock |
| `timelock` | queued calls, delays, pause | queue, execute, cancel, expire, pause | calls any contract | executed only between eta and the end of the grace period, at most once |
| `multisig_admin` | proposals, approvals | propose, approve, revoke, execute, cancel | none | executed only with enough approvals standing, before expiry |
| `slashing_module` | evidence, slash records, jail, approvals, challenge window | submit, reveal, propose, finalise, cancel, unjail | operator contract | one slash per evidence, only after the window, an unjail approval for the jailing at hand |
| `bond_collateral` | collateral positions, thresholds, inspectors' bonds, locks | deposit, issue, redeem, withdraw, liquidate, lock, slash | oracle, token, slashing module | collateral is booked and paid once; a liquidation that leaves something leaves it no worse covered; a locked bond stays |
| `rent_wallet` | balance, cap and month record per user, roles, pause | credit, debit, caps, upgrade | upgrade core | no debit beyond balance or monthly cap |
| `rent_to_own` | deals, payments, defaults, equity | register, pay, complete, default, settle, transfer | upgrade core | every payment is split into rent and equity once, equity is settled once |
| `rent_schedule` | instalments per deal | create, record payment, mark overdue, waive | none | what is paid of an instalment is what was recorded, paid and waived exclude each other |
| `rent_payments` | receipts per deal, index | record, list by pages | none | one receipt per id, pages show every receipt once |
| `transaction-receipt-contract` | receipts, indexes by deal and party, counter | record, normalise references | none | one receipt per transaction id, listed wherever it belongs |
| `tenant_reputation` | score, decay | record, decay | none | a score falls only by decay |
| `vesting_schedule` | schedule per beneficiary | create, claim, revoke | none | claimed never exceeds vested |
| `inspector_bond` | bonds, pending slashes | stake, unstake, slash, propose / finalise / cancel a slash | none (accounts only) | money leaves a bond for a reason: unlocked, slashed, or due |
| `whistleblower_rewards` | allocations with a hold window | allocate, revoke, claim | token, upgrade core | claimed once, not during the hold |
| `oracle_price_feeds` | sources, reports, feed | add / remove source, update, read | read by `bond_collateral` | a price has its quorum, is fresh and is what the majority says |
| `contract_access` | roles, delegations, proposals | two-step role changes, delegation | none | a delegated permission ends with the role it comes from |
| `allowlist_registry`, `upgradeable_proxy`, `schema_registry`, `reentrancy_guard` | members; code and pending changes; versions and receipts; depth counters | see the crates | none | migrations form one chain; two-step changes are confirmed as proposed |
| `soroban_*` libraries | a flag or nothing | guards | linked in | seen in the guards of the modules |

`PROJECT.json` lists every crate with its status, and the hazards of the code
with the properties aimed at them.

## 2. Modules

One action is one entry point. Its guard is the conjunction of everything that
makes the entry point return an error or panic: since such an invocation leaves
no trace, a refused call is simply a disabled action. The reentrancy flag is set
and reset inside one invocation and is never seen set between two; it has no
variable. Calls of the token contract are part of the action that makes them,
and fail when the payer's balance does not cover them. A variable carries its
storage key's name, prefixed where several contracts have the same key.

**Shared.** `LedgerClock`: the clock, absent entries, basis points. `StakeLedger`:
users, amounts, token transfers and index shares of the staking contracts.
`Parties`: callers and amounts of the contracts about tenancies. `UpgradeTerms`:
signatories, hashes and delays of the two upgrade protocols.

**Money.** `CustodyVault` is an abstract specification: a book with one entry per
account, one holding of tokens; an entry moves only together with the holding, by
the same amount, and is never overdrawn. `DealEscrow`, `StakingPool` and
`MvpStakingPool` implement it (`INSTANCE CustodyVault WITH ...`): `book` is mapped
to the balances of the deals, the balances of the stakers, or the stakes plus one
account for the rewards not yet claimed; `holding` is the contract's balance in
the token contract.

* **`DealEscrow`** models `deal_escrow` but for its upgrade entry points. `token`
  is the token contract, `frozenAt` a history variable (time of the last
  freeze). `Init` is the state `init` leaves or, for `StartSchemas` below 3, the
  storage of an older deployment that is about to be migrated. Recipients are
  users: no test or caller of the code pays the contract to itself, and tokens
  sent to the contract outside its entry points are not modelled.
* **`StakingPool`**. Each stake is a slot `deposit[u][i]`; `unstake` is the
  slot-wise effect of the loop of the code (`SlotAfter`), which is how it stays
  without recursion. `poolOperator` has three kinds of value: absent (`None`), an
  address, and `Void`, the stored form of `Option::None`, which the getter cannot
  read back. A stake under an operator needs two signatures, the operator's and,
  for the token transfer, the user's.
* **`MvpStakingPool`**, with the getter `claimable` as an action, since it writes.
* **`StakingRewards`** and **`EpochRewards`**, with their scale as a parameter.
* **`StakeDelegation`**: stakes, delegations with their reverse index, the two
  ways out of a delegation, the slash of a staker and of a delegatee, the reward
  index with commissions. The loops over delegators and delegatees are sums and
  functions over sets.

**Administration.**

* **`UpgradeGovernance`** models the upgrade library together with the thin entry
  points of the contracts that use it. What a contract adds (does it pass a
  version, check the schema, demand a guardian, hold back on pause, hand over) is a
  record per contract; the variable `entry` is the record of the one at hand.
  `signers` is a history variable: who signed the last invocation. A
  contract that passes version 0, such as `deal_escrow`, gets neither a
  proposal nor an emergency upgrade past the check of versions (section 3).
* **`RewardsUpgrade`**: the entry points `staking_rewards` has of its own. The
  time of execution is fixed with the proposal, unlike in the library.
* **`Governance`**; the pool whose stakes it reads is the variable `poolStake`,
  which moves on its own. The snapshot at a creation holds the stakes of the *known*
  voters only (`knownVoters`); the history variable `creationStake` remembers the
  stake of everybody. **`Timelock`** with the life of its temporary storage
  entries: an entry whose life has ended is gone, whatever the queue meant to do
  with it. **`MultisigAdmin`**.
* **`SlashingModule`**; its entry point `slash` is an operator, because only the
  bond contract may call it. **`BondCollateral`** is composed with it:
  `ExecuteSlash` is one invocation over both contracts. Liquidation takes any price
  the oracle may answer, of any sign, and any time of the answer. The health ratio it
  looks at keeps only the low bits of the exact one (`HealthRatio`, `Truncated`): the
  code casts it to 32 bits, and `RatioModulus` stands for 2^32. The ratio that
  `issue_bond` and `withdraw_collateral` look at (`calculate_collateral_ratio`) is a
  float and is cast with saturation; it is compared exactly.

**Tenancies, persons, platform.** One module per contract: `RentWallet`,
`RentToOwn`, `RentSchedule`, `RentPayments`, `TransactionReceipts`,
`TenantReputation`, `VestingSchedule`, `InspectorBond`, `WhistleblowerRewards`,
`OraclePriceFeeds`, `ContractAccess`, `UpgradeableProxy`, `AllowlistRegistry`,
`SchemaRegistry`, `ReentrancyGuard`. History variables are named in their
comments (for instance `cappedDebits`, what was debited under a cap). `RentSchedule`
starts a schedule with whatever instalments the caller hands over, as the code does:
any amount due, any amount paid and any status; the history variable `opening`
remembers them. `RentPayments`
has the reader of its paged list as an actor of its own: what one page returned is
kept while receipts are added, and the next page is read from its cursor.

**Proofs.** One module for each group of contracts. `DealEscrowProofs`;
`StakingProofs` (the four staking contracts); `DelegationProofs`;
`GovernanceProofs` (`Governance`, `Timelock`, `MultisigAdmin`);
`AdministrationProofs` (the two upgrade protocols, `SlashingModule`,
`BondCollateral`, and the composition `MCAdministration`); `TenancyProofs` (the
contracts of `MCTenancy`, and their composition). `LedgerProofs` holds what they
share: ids in order, the principle of the least counterexample, sums over finite
sets, quotients.

**`MC*`** modules name the model values and symmetries of the runs. `MCStaking`,
`MCAdministration` and `MCTenancy` put many contracts side by side. These share no
variable but the clock, so each behaviour follows one of them, chosen by the
variable `part`, and no interleaving is lost: a step of one leaves what the
properties of another read as it is. Of `SlashingModule` and `BondCollateral`,
which share the record of inspectors' slashes, the part `inspectors` runs both
sides of that record. A composite property such as `PaymentsAccounted` is the
conjunction of properties of several parts.

Some definitions stand directly before the one whose name they extend (`Banked`
and `BankedAgain`, `NextInLine` and `NextInLineOfCaller`): they are deliberately
wrong variants that no action uses, and show that the property listed with them in
`PROJECT.json` can be violated.

## 3. Runs

| Run | Question | Bounds |
|---|---|---|
| `EscrowDeal` | the rent-release protocol, the breaker, one deal; safety, action properties and liveness | 2 users with 1 token each, windows and delays of 1 and 2, time 0..2 |
| `EscrowCustody` | two deals sharing one token account, starting from schema 1 or 2 and migrating; the lifecycle of one | legacy amounts 0 and 1, time 0..1, the money of the deals is the only money |
| `EscrowOrphan` | does a pending release keep its lock? (no) | as `EscrowDeal` |
| `Staking` | stakes, locks, unstakes over several deposits; used stakes; rewards under any order of staking, funding, sealing, claiming | 2 users, amounts 1 and 2, scale 3, 2 units staked, 3 funded, 3 deposits each, lock periods 0..3 of which 0..2 are allowed, 2 epochs, time 0..2 |
| `EpochSeal` | does a sealed epoch promise no more than it was funded with? (no) | scale 4, 3 units |
| `Delegation` | stakes, delegations, both exits, both slashes, commissions | 2 users, 2 delegatees, 2 units staked, 2 delegations, 1 request under way, index up to 1, epochs 0..2, time 0..1 |
| `DelegationStake` | is a delegatee's stake what is delegated to it? (no) | same |
| `Administration` | votes; queue; approvals; upgrades; slashes; collateral; inspectors' bonds | see below |
| `Tenancy` | the fifteen contracts about tenancies, persons and the platform | see below |
| `VoteWeight` | does a vote weigh the stake at the creation of the proposal? (no) | as `Administration` |
| `SoundLiquidated` | are only positions below the threshold liquidated? (no) | as `Administration` |
| `RoleLastAdmin` | does a revocation leave an admin? (no) | as `Tenancy`, with `Admin` the only role given |

`Administration` has 2 voters with stakes 0 and 2, totals 2 and 6 (so that the
quorum of one half is met by one voter or by none), 1 proposal, voting and
time-lock periods of 1; 2 calls, delays 0..2 of which 1..2 are allowed, grace 1,
storage life 3; 3 signers, threshold 2, 2 proposals; the upgrade entry points of
`staking_pool`, `bond_collateral`, `deal_escrow` and `rent_to_own` (the other
three have the record of one of these) and of `staking_rewards`, 2 signatories, 2
hashes, delays 0..2, versions up to 3; 1 piece of evidence, 2 slashes, 1 actor,
penalties of a half and of more than the whole, windows 0 and 1; 2 owners with 4
tokens, 2 positions, bonds up to 3, prices below nothing, of nothing, parity and one
and a half, thresholds of 120 and 250 percent, ratios that wrap at 256 instead of 2^32
(so that a bond of 1 covered by 3 is above both thresholds and wraps below them),
keeper rewards of nothing and of the
maximal half; 1 inspector with 2 disputes and 2 recorded slashes; time 0..3.

`Tenancy` has 2 parties, a whole of 10 basis points, amounts 1 and 2, balances up to
2, months of 2 and time 0..2 (so that one month ends), caps 0 (none), 1 and 2; 3
payments of a deal towards values of 2 and 3 with forfeitures of none and three
tenths; 2 instalments that may share their number, each with 0 or 2 due, 0 or 1 paid beforehand
and any status; 4 receipts, one deal with the key
that stands for the counter of another list, two spellings of one reference and one
that is refused; 2 allocations, hold windows 0 and 1; 2 slashes of one bond, a
penalty rate above the whole; 3 reporters with 2 sequence numbers, prices of 0, 1 and 2, a
quorum of 0 and 2; one delegated permission and two of the roles; 5 versions of which two share an
id, because `version_id` multiplies with 2 here instead of 1000; recursion depths on
both sides of the limit.

The bounds are small but reach the cases that matter: windows that are
reconfigured while a release is pending (two lengths), both sides of each
boundary (`now` equal to, before and after an end), two deals competing for one
account, an unstake over three deposits of which some are locked and the last
is split, a dust carried over several fundings with a stake that does not
divide the scale, an epoch sealed late, a price at which a liquidation leaves
something of the position. In `EscrowDeal` and `EscrowCustody` one user also holds
the roles of admin and operator: no property tells the roles apart, and every other
caller is the other user. In `EscrowDeal` the lifecycle, which touches no other
state, stands still (`Managed = {}`).

What the bounds leave out:

* In `EscrowDeal` a challenge in the very last second of its window, and a challenge
  of a release requested late, do not happen: their windows would end after
  `MaxTime`. The theorems about releases (`RentReleasesClose`, `RentEntriesAlwaysAgree`)
  hold for all times.
* `Delegation` has one request under way at a time, so TLC never sees both ways out
  of a delegation at once; the theorems of `DelegationProofs` hold for any number.
* `QueuedThroughGrace` assumes that a queued entry lives at least as long as the
  longest delay and the grace period together. A deployment with a shorter life can
  lose a call that was queued in time; no property covers it.
* `PagesComplete` compares what a reader of pages has seen with a prefix of the
  list. It does not catch a page that says too early that there is no next one, and
  it speaks of the lists by deal.

`CHECK_DEADLOCK FALSE` is set everywhere: nothing obliges anybody to call a
contract, and at `MaxTime` with spent tokens no call may be possible.

The six runs that end in a violation are real disagreements between the code
and what it says of itself; `findings` in `PROJECT.json` quotes both sides.

* A direct release takes the whole balance and the lock away under a pending
  rent release; the entry can then neither be settled nor replaced.
* The stake of a delegatee, on which rewards are paid, drifts from what is
  delegated to it: through exits whose request is older than a slash, and
  through the rounding of a slash.
* `epoch_rewards` computes what an epoch made claimable with the stake at the seal;
  stake that came after the funding raises it past what was funded. Nobody is paid
  too much by it (`EarningsFunded`).
* `contract_access` counts its admins when a revocation is proposed, not when it is
  confirmed: of two admins both can be revoked, if both revocations are proposed before
  the first is confirmed. (Assigning another role to the only admin is a second way to
  lose it, which the comment does not speak of and the run leaves aside.)
* `governance` promises the stake at the creation of a proposal as the weight of a
  vote. It records the stakes of the known voters only, those an admin entered and
  those who proposed before: who just staked in the staking pool votes with weight 0,
  and has then voted.
* `bond_collateral` cuts the health ratio of a position to 32 bits. A position covered
  more than 2^32 percent looks unsound and can be liquidated.

Further disagreements were met that no run is about:

* `staking_rewards` carries on a dust that has in part been distributed already:
  more becomes claimable than was funded, by up to one unit per funding.
  `OverpaidPerFunding` shows that bound; the test
  `sum_claimable_never_exceeds_total_funded` (`staking_rewards/src/tests.rs`) does
  not meet such a case.
* `staking_pool/README.md` (lines 415 and 419-427) says that each new stake resets the
  lock timer of the user's *entire* staked balance. The code keeps a time with every
  deposit, and a new one locks only itself: of the 100 tokens of its example, staked at
  1000 for an hour, all can be unstaked at 4600, although 50 more were staked at 2000.
  `DepositsInOrder` states what the code does.
* The operator of `staking_pool` can be set but not removed: `set_operator(None)`
  (`lib.rs` 407-437) stores `Option::None`, which `get_operator` (139) cannot read:
  stake, unstake and `set_operator` itself fail from then on. The comment at 236
  says that without an operator the user authorizes.
* `deal_escrow`, `mvp_staking_pool` and `whistleblower_rewards` propose and force their
  upgrades with version 0 ("deal_escrow doesn't use versioning, so we use version 0",
  `deal_escrow/src/lib.rs` 1014), which the library refuses (`lib.rs` 95: the version in
  force plus one). The test `propose_upgrade_stores_pending` (`deal_escrow/src/lib.rs`
  2167) expects the proposal to succeed.
* `create_schedule` of `rent_schedule` checks nothing of the instalments it stores: one
  may be overpaid, marked as paid with nothing paid, or negative. What holds of a
  schedule (`InstalmentsAccounted`) is therefore relative to how it began.
* `whistleblower_rewards` says of `set_hold_window` that it "only affects future
  allocations", but the window is read when rewards are claimed.
* `inspector_bond` speaks of cancelling "during the challenge window" and of unstaking
  without active jobs; neither is checked. A proposed slash does not hold a bond
  whose lock is over.
* `rent_to_own` says that while paused every entry point that changes state is
  refused; proposing, executing and forcing an upgrade are not. `bond_collateral` says
  the same (`lib.rs` 1227), with the same exception. In `rent_to_own`, payments past the
  number required leave a deal that can no longer be completed.
* `oracle_price_feeds` has a time-weighted price over observations no entry point
  writes, and compares a report with the caller's own last one before the feed's.
* `transaction-receipt-contract` compares the address on `pause` and `unpause` without
  asking for its signature.

## 4. Fairness

Only `DealEscrow!FairSpec` assumes any: ledgers keep closing (`WF` of `Tick`), the admin lifts a pause again
(`WF` of `Unpause`: otherwise every settlement may be paused for ever), and the
two timeouts, which anybody may call and the party to be paid has reason to,
are called again and again while possible (`SF`, because pauses disable them in
between). The resolver is *not* assumed to answer and nobody is assumed to
challenge. Time stops at `MaxTime`; requests and challenges are bounded so that
their windows end within it.

## 5. Proofs

All theorems hold for every value of the constants that satisfies the modules' own
assumptions, hence for any number of parties, deals, proposals and receipts, any
amounts, rates, periods and prices; TLC evaluates the assumptions in the runs. Each
safety invariant and each action property of a passing run is stated by a theorem;
what is left to TLC alone is listed at the end of this section. Theorems about a
component are stated over its own specification; where a property of a run is a
conjunction over several components (`StakingTypeOK`, `StakesInCustody`,
`AdminTypeOK`, `UpgradesGuarded`, `TenancyTypeOK`, `PaymentsAccounted`,
`RecordsAgree`, `ClaimsPaidOnce`), it is also proved for the composition.

The assumptions are facts about what is deployed. `EscrowAssumption`,
`StakeLedgerAssumption`, `BondAssumption` and their like say that sets of parties are
finite, amounts positive and defaults within their own limits; `UpgradeAssumption`
says that the contracts that compare their schema with their version store the same
number as both, as their `init` does.

**Shared lemmas (`LedgerProofs`).** The provers cannot use an induction theorem that
takes a predicate. `LeastCounterexample` replaces it: of the finite sets for which a
given fact fails, one has no smaller one among its subsets. The facts about sums
follow: a sum exists and does not depend on the order in which the fold picks its
elements (`SumsExist`, `SumsUnique`), an element can be split off (`SumOfMember`),
one changed entry changes the sum by as much (`SumOfUpdate`), sums add over disjoint
sets, scale and compare termwise (`SumOfUnion`, `SumIsLinear`, `SumScaled`,
`SumCompares`). `QuotientRounds` is what they need of rounding: a quotient times
its divisor is within one divisor of the dividend. `IdsInOrder` shows that a set of
ids that has, with an id, all smaller ones is `1..Cardinality`: it is why "the next
id" of a contract with a counter is free.

**`DealEscrowProofs`**, from `EscrowAssumption` alone:

* `TypeCorrect`: `TypeOK` is inductive; every other proof uses it.
* `BooksAlwaysAgree`: `BooksAgree` is inductive on its own (relative to
  `TypeOK`), because each action that writes one copy of a balance writes the
  other, and `PutDealState` checks the rest.
* `DisputesHaveReleases`, `DrainsBelongToFreeze`: inductive.
* `ThawsWait` follows from the drain invariant: a drain is executed at least the
  delay after its proposal, which was made at or after the freeze.
* `RentReleasesClose`, `FrozenPaysRentOnly`: each step that closes a release or
  lowers a balance is one of four actions; `BooksAgree` and the settlement's own
  lock check give the exact amount.
* `LocksHaveReleases`, `OrphansStay` hold for deployments that start on schema 3
  (a migration can write a lock that has no release). The invariant says in
  addition that the schema stays 3, so that no migration is possible.
  `RentEntriesAlwaysAgree` joins `DisputesHaveReleases` and `LocksHaveReleases`.
* `EscrowImplementsVault`: initial states map to initial states, each step to a
  `Receive`, a `Pay` or a stutter. That no account is overdrawn comes from
  `BooksAgree`: what is paid is locked, and what is locked is covered.

**`StakingProofs`**. `StakingInv` joins one invariant per contract; a step of the
instance is a step of one contract and at most a tick for the others.

* `PoolStakesBacked`: `PoolInv` is the types and the property. The work is in
  `unstake`: over the slots it is a sum whose terms shrink by as much as was asked
  for, oldest first, which `SlotAfter` gives term by term. `PoolDepositsInOrder`
  reads off the same terms that a locked slot loses nothing.
* `PoolKeepsCustody`, `MvpKeepsCustody`, `StakesKeptInCustody`: the refinements of
  `CustodyVault`. For `mvp_staking_pool` the reward account must never be overdrawn,
  and that is the inductive part of `MvpInv`: *owed* rewards, claimable and not
  yet settled, counted in units of `1 / SCALE`, never exceed what is left of the
  fundings. A settlement moves what is owed to what is claimable and rounds down;
  a funding raises the index by a quotient, so that the sum of what is owed grows
  by no more than the funding.
* `EarningsFromFundingOnly`, `OverpaidAtMostPerFunding`: `RewardsInv` bounds what is
  owed together with the dust by the fundings *plus one unit per funding*: the code
  adds the dust to a funding after a part of it was distributed, and this is the
  least bound that is inductive.
* `EarningsAlwaysFunded`: `EpochInv` bounds what the stakers have claimed, may claim
  and are still owed by the index, together, by what was funded in all epochs. Seals
  change none of it; `EpochChain` says that the epochs are sealed in order and follow
  each other in time, and what they carry over is the sum of the fundings.

**`DelegationProofs`**. The invariant is `TypeOK /\ SummariesExact /\ DelegatedCovered`
and none of the three is inductive without the others: what a slash takes from a
stake is taken from the total alike only because no delegation exceeds its owner's
stake, and that stays so because the reverse index names every delegation that a
slash has to cut. `PastIsSettled` shows step by step that what a delegatee may claim
is changed by fundings and claims only: each entry point settles before it changes
a stake, a rate or a delegation.

**`GovernanceProofs`**:

* `VerdictsJustified` by induction (a verdict is given on the condition; later steps
  change neither votes nor the total it was given on, and the clock only advances),
  `VerdictsStand` as an action property. Both need the type invariant, and it needs
  the proposer's snapshot as a strengthening.
* `VotesStaySnapshots`: the sums of a proposal are those of what its voters had staked at
  its creation as far as they were known, and 0 of the others (`SnapshotWeight`). The
  type invariant joins each stored snapshot to the history variable `creationStake`; the
  induction then needs that nobody has voted on a proposal that
  does not exist, so that a new one starts with two empty sums.
* `CallsRunOnce`: `RunsOnce` is not inductive: the invariant adds that an executed
  key has its eta in the past and that the minimum delay is positive, so that what is
  queued now lies in the future. `QueueKeepsCalls` adds that entries live at least to
  the end of their grace period.
* `MultisigExecutedApproved` needs that the stored count is the number of approvals
  while a proposal is pending; `ExpiredProposalsNeverRun` is an action property.

**`AdministrationProofs`**:

* `CodeChangesGuarded` for the library and `RewardsCodeChangesGuarded` for
  `staking_rewards`. The first rests on `UpInv`, of which one conjunct does the work:
  what is pending is for the version after the one in force, so that executing it
  raises the version by one. The second needs only that the stored time is the delay
  of that day after the proposal.
* `LockedBondsStay`. Only three entry points touch an inspector's bond or the record
  of its slashes (`PositionsApart`, `RecordApart`), and the slash writes both with
  one amount.
* `SlashesStayJustified`: `SlashDetails` says the property piece by piece. The one
  that matters is that a piece of evidence has at most one *standing* slash
  (`Backing`), and is known exactly as long as it has; a cancellation gives back
  both at once. What is counted against an address is a sum over its final slashes,
  which only grow.
* `CollateralStaysBooked`: a liquidation takes the seized part and the keeper's reward
  from the position and from the total alike; the reward fits into what is seized
  because the cap is at most half (`RewardWithinSeized`), and the rest into the
  collateral (`SeizedWithinCollateral`). Each step changes one entry of the sum.
* `LiquidationsRepair`: of a liquidation that leaves something of the position, for
  prices of any sign. It does not say that the position deserved it: the guard on the
  health ratio is not used, and `SoundLiquidated` shows that the guard lets sound
  positions through. What is seized is less than the collateral, therefore the
  collateral is worth its bonds (`WorthTheBonds`), and the share of bonds retired is
  no less than the share of collateral seized, up to the rounding of one unit
  (`ShareRetired`). Two inequalities between products carry it, with a common factor
  divided out (`CommonFactor`).
* `AdminTypesCorrect`, `UpgradesStayGuarded`: `AdminInv` has, for each part, the
  invariant of its contract. Where the schema is compared with the version, the types
  say that there is at most one upgrade: the schema never follows.

**`TenancyProofs`**, one section per contract:

* `MonthlyCapsHold`: the invariant says that the contract's monthly record is the
  history of capped debits, and that the running month is one of the recorded ones
  (`PeriodsGrow`, a fact about whole periods). A capped debit then checks the sum.
* `RevocationsReach`: only the two confirmations change a role, and only that of
  their subject (`OneRoleReaches`); a delegation counts while its delegator's own
  role grants the permission, so nothing passes along a chain.
* `MigrationsStayChained`: the history alone is not inductive. `SchemaInv` adds the
  order of the ids along it, from which it follows that no version returns.
  Only that `version_id` is a number is used, not what it is.
* `BondLossesJustified`: one lemma per entry point that touches a bond; `PenaltyFits`
  gives that a penalty never exceeds the bond, so that a direct slash takes
  exactly what it says.
* `VestingStaysKept`: what is vested never shrinks with time, because a quotient is
  monotone in its dividend, and a claim takes what is vested less what was claimed.
* `EquityStaysAccounted`: a payment is one more term of the sum; a split of the equity
  is a part and the rest, so nothing is lost to rounding.
* `InstalmentsStayAccounted`: relative to the `opening` of a schedule. An instalment stored as paid
  or waived stays what it was; of any other, what is paid only grows, up to what is due,
  and it becomes paid or waived with the amounts to show for it. Several instalments may share a number and with it one
  waiver; the invariant holds because the code always finds the first of a number, so
  that no other one is ever waived.
* `RewardsStayPaidOnce`: a claim takes from the allocations oldest first, each what is
  open of it and still wanted (`ClaimTakes`). That these parts sum up to the claim is
  shown at the least number of allocations for which it would fail (`LeastNumber`).
* `ReceiptsStayUnique`, `PagesStayComplete`: receipts are appended with growing
  timestamps and counters, so the insertion sort of the reader leaves a list as it
  is; then a cursor points to the last receipt of a prefix, and the next page
  starts right after it whatever was appended.
* `IndexesStayInAgreement`: a receipt is appended to the lists it belongs to in the
  step that records it, and nobody lists what is already recorded.
* `ScoresFade`: decay is a product and a quotient, both monotone in the time.
* `PricesFollow`, for prices that are any integers, 0 and negative ones included:
  finitely many reports have a largest price (`LargestValue`) and hence
  a k-th one for each k (`KthValue`), so the median exists; if more than half of the
  reports agree, the middle one is among them (`MajorityInTheMiddle`).
* `TenancyTypesCorrect`, `PaymentsStayAccounted`, `RecordsStayInAgreement`,
  `ClaimsStayPaidOnce`: `TenancyInv` joins the invariants of the fifteen contracts, and a
  step is a step of one of them and at most a tick for the others (`TenancyClock`,
  `OthersRest`).

**Only model-checked.** Liveness (`ReleaseCloses`): fairness and `ENABLED` are out of
the prover's reach. The six runs that end in a violation have nothing to prove. The
theorems speak of an abstraction in which integers do not overflow: the code traps
there and undoes the invocation. `ExpiredNeverRuns`, `VerdictStands`,
`OrphanStays` and the halves of the composite properties are proved and not among
the properties of a run by themselves.

## 6. What could follow

`oracle_price_feeds` is modelled for one pair and could be composed with
`BondCollateral`, whose price is any answer today; `governance` could read
`StakingPool` instead of a pool that moves on its own. An abstract specification worth
stating is a reward pool whose claims never exceed what was funded, which
`mvp_staking_pool` and `epoch_rewards` implement and `staking_rewards` does not: the
parts of `MvpInv`, `EpochInv` and `RewardsInv` about what is owed are its refinement
mappings.

## 7. Not modelled

Events, evidence strings, transaction ids, hashing and encoding of receipts;
the archival of persistent storage entries and its renewal (`soroban_storage_ttl`; they
are restored with their values, temporary entries are modelled in `Timelock`); the cost
of an invocation and the limits on it; overflow of `i128` and `u64`, which traps
and undoes the invocation; what a deployed upgrade does to the storage; `get_twap` of
`oracle_price_feeds`, which reads what nothing writes. Crates without a module (the
guards and traits of the `soroban_*` libraries, the build check `module_tree_check`, the
property tests `formal_properties.rs`) are listed in `PROJECT.json` with the reason.
