-------------------------- MODULE DealEscrowProofs --------------------------
(***************************************************************************)
(* What TLAPS proves of DealEscrow, for every value of its constants.      *)
(***************************************************************************)
EXTENDS DealEscrow, TLAPS

\* The DealState an invocation works on is one, stored or stood in for.
LEMMA GetDealStateType ==
    ASSUME TypeOK, NEW d \in Deals
    PROVE  GetDealState(d) \in DealStates
  BY DEF TypeOK, GetDealState, ZeroState, DealStates

\* Writing a DealState of integers that passes the check keeps the type.
LEMMA PutDealStateType ==
    ASSUME TypeOK, NEW d \in Deals, NEW s \in [total : Int, locked : Int, pending : Int],
           PutDealState(d, s)
    PROVE  dealState' \in [Deals -> DealStates \cup {None}]
  <1>1. s \in DealStates
    BY DEF PutDealState, DealInvariants, DealStates
  <1> QED
    BY <1>1 DEF PutDealState, TypeOK

\* A transfer between two accounts keeps the token balances natural.
LEMMA TransferType ==
    ASSUME TypeOK, NEW from \in Users \cup {Escrow}, NEW to \in Users \cup {Escrow},
           NEW amount \in Nat, Transfer(from, to, amount)
    PROVE  token' \in [Users \cup {Escrow} -> Nat]
  BY DEF TypeOK, Transfer

-----------------------------------------------------------------------------
\* Settling keeps the type, whoever is paid.
LEMMA SettleType ==
    ASSUME TypeOK, NEW d \in Deals, NEW recipient \in Users, Settle(d, recipient)
    PROVE  TypeOK'
  <1> DEFINE s == SettledState(d)
  <1>1. pendingRelease[d] \in Releases
    BY DEF Settle, TypeOK
  <1>2. GetDealState(d) \in DealStates
    BY GetDealStateType
  <1>3. SettledBalance(d) \in Int
    BY <1>1, <1>2 DEF SettledBalance, DealStates, Releases
  <1>4. s \in [total : Int, locked : Int, pending : Int] /\ s.total = SettledBalance(d)
    BY <1>3 DEF SettledState, ZeroState
  <1>5. dealState' \in [Deals -> DealStates \cup {None}] /\ SettledBalance(d) >= 0
    BY <1>4, PutDealStateType DEF Settle, PutDealState, DealInvariants
  <1>6. token' \in [Users \cup {Escrow} -> Nat]
    BY <1>1, TransferType DEF Settle, Releases
  <1>7. dealBalance' \in [Deals -> Nat]
    BY <1>3, <1>5 DEF Settle, TypeOK
  <1>8. pendingRelease' \in [Deals -> Releases \cup {None}]
    BY DEF Settle, TypeOK
  <1>9. dispute' \in [Deals -> Disputes \cup {None}]
    BY DEF Settle, SettledDispute, TypeOK
  <1>10. UNCHANGED <<now, paused, configVars, breakerVars, depositor, lifecycle, schemaVars>>
    BY DEF Settle
  <1> QED
    BY <1>5, <1>6, <1>7, <1>8, <1>9, <1>10 DEF TypeOK, configVars, breakerVars, schemaVars

\* Opening a release keeps the type.
LEMMA RequestType ==
    ASSUME TypeOK, NEW caller, NEW d \in Deals, NEW to \in Users, NEW amount \in Amounts,
           RequestRentRelease(caller, d, to, amount)
    PROVE  TypeOK'
  <1> DEFINE s == [GetDealState(d) EXCEPT !.locked = amount, !.pending = amount]
  <1>1. amount \in Nat \ {0} /\ challengeWindow \in Nat /\ now \in Nat
    BY EscrowAssumption DEF TypeOK
  <1>2. s \in [total : Int, locked : Int, pending : Int]
    <2>1. GetDealState(d) \in [total : Nat, locked : Nat, pending : Nat]
      BY GetDealStateType DEF DealStates
    <2>2. s \in [total : Nat, locked : Nat, pending : Nat]
      BY <2>1, <1>1 DEF s
    <2> QED
      BY <2>2
  <1>3. dealState' \in [Deals -> DealStates \cup {None}]
    BY <1>2, PutDealStateType DEF RequestRentRelease
  <1>4. pendingRelease' \in [Deals -> Releases \cup {None}]
    BY <1>1 DEF RequestRentRelease, TypeOK, Releases
  <1> QED
    BY <1>3, <1>4 DEF RequestRentRelease, TypeOK, configVars, breakerVars, schemaVars

\* A deposit keeps the type.
LEMMA DepositType ==
    ASSUME TypeOK, NEW d \in Deals, NEW from \in Users, NEW amount \in Amounts,
           Deposit(from, d, amount)
    PROVE  TypeOK'
  <1> DEFINE s == [GetDealState(d) EXCEPT !.total = CreditedBalance(d, amount)]
  <1>1. amount \in Nat /\ CreditedBalance(d, amount) \in Nat
    BY EscrowAssumption DEF TypeOK, CreditedBalance
  <1>2. s \in [total : Int, locked : Int, pending : Int]
    BY <1>1, GetDealStateType DEF DealStates
  <1>3. dealState' \in [Deals -> DealStates \cup {None}]
    BY <1>2, PutDealStateType DEF Deposit
  <1>4. token' \in [Users \cup {Escrow} -> Nat]
    BY <1>1, TransferType DEF Deposit
  <1>5. dealBalance' \in [Deals -> Nat] /\ depositor' \in [Deals -> Users \cup {None}]
    BY <1>1 DEF Deposit, TypeOK
  <1> QED
    BY <1>3, <1>4, <1>5 DEF Deposit, TypeOK, configVars, breakerVars, rentVars, schemaVars

\* A direct release keeps the type: the shares are natural numbers.
LEMMA ReleaseType ==
    ASSUME TypeOK, NEW caller, NEW d \in Deals, NEW split \in Splits(d), NEW to \in Users,
           NEW platform \in Users, NEW reporter \in Users,
           Release(caller, d, split, to, platform, reporter)
    PROVE  TypeOK'
  <1>1. split.principal \in Nat /\ split.platform \in Nat /\ split.reporter \in Nat
    BY DEF Splits, TypeOK
  <1>2. dealBalance[d] \in Nat
    BY DEF TypeOK
  <1>3. token' \in [Users \cup {Escrow} -> Nat]
    BY <1>1, <1>2 DEF Release, TypeOK
  <1>4. dealState' \in [Deals -> DealStates \cup {None}]
    BY PutDealStateType DEF Release, ReleasedState, ZeroState
  <1> QED
    BY <1>3, <1>4 DEF Release, TypeOK, configVars, breakerVars, rentVars, schemaVars

\* A migration keeps the type.
LEMMA MigrateType ==
    ASSUME TypeOK, NEW caller, NEW from, NEW ids \in SUBSET Deals,
           MigrateStorageSchema(caller, from, ids)
    PROVE  TypeOK'
  <1> DEFINE migrated(d) == [total   |-> dealBalance[d],
                             locked  |-> IF from = 2 THEN legacy[d].locked ELSE 0,
                             pending |-> IF from = 2 THEN legacy[d].pending ELSE 0]
  <1>1. \A d \in Deals : migrated(d) \in DealStates
    BY DEF TypeOK, DealStates
  <1>2. dealState' \in [Deals -> DealStates \cup {None}]
    BY <1>1 DEF MigrateStorageSchema, TypeOK
  <1> QED
    BY <1>2 DEF MigrateStorageSchema, TypeOK, configVars, breakerVars, rentVars

-----------------------------------------------------------------------------
\* Every invocation, and the passing of time, keeps the type.
LEMMA TypeStep ==
    ASSUME TypeOK, [Next]_vars
    PROVE  TypeOK'
  <1> USE DEF configVars, breakerVars, bookVars, rentVars, schemaVars
  <1>1. CASE Tick
    BY <1>1, EscrowAssumption DEF Tick, TypeOK
  <1>2. CASE AdminNext
    <2> PICK caller \in Callers :
          \/ Pause(caller)
          \/ Unpause(caller)
          \/ Freeze(caller)
          \/ \E r \in Callers : SetResolver(caller, r)
          \/ \E challenge, timeout \in Windows :
               ConfigureDisputeWindows(caller, challenge, timeout)
          \/ \E hash \in Hashes : ProposeDrain(caller, hash) \/ ExecuteDrain(caller, hash)
          \/ \E delay \in Windows : SetRecoveryDelay(caller, delay)
      BY <1>2 DEF AdminNext
    <2>1. CASE Pause(caller) \/ Unpause(caller)
      BY <2>1 DEF Pause, Unpause, TypeOK
    <2>2. CASE Freeze(caller)
      BY <2>2 DEF Freeze, TypeOK
    <2>3. ASSUME NEW r \in Callers, SetResolver(caller, r) PROVE TypeOK'
      BY <2>3 DEF SetResolver, TypeOK
    <2>4. ASSUME NEW challenge \in Windows, NEW timeout \in Windows,
                 ConfigureDisputeWindows(caller, challenge, timeout)
          PROVE  TypeOK'
      BY <2>4 DEF ConfigureDisputeWindows, TypeOK
    <2>5. ASSUME NEW hash \in Hashes, ProposeDrain(caller, hash) PROVE TypeOK'
      BY <2>5 DEF ProposeDrain, TypeOK, Drains
    <2>6. ASSUME NEW hash \in Hashes, ExecuteDrain(caller, hash) PROVE TypeOK'
      BY <2>6 DEF ExecuteDrain, DrainAfterExecution, BreakerAfterExecution, TypeOK
    <2>7. ASSUME NEW delay \in Windows, SetRecoveryDelay(caller, delay) PROVE TypeOK'
      BY <2>7 DEF SetRecoveryDelay, TypeOK
    <2> QED
      BY <2>1, <2>2, <2>3, <2>4, <2>5, <2>6, <2>7
  <1>3. CASE MigrationNext
    BY <1>3, MigrateType DEF MigrationNext
  <1>4. ASSUME NEW d \in Deals, MoneyNext(d) PROVE TypeOK'
    BY <1>4, DepositType, ReleaseType DEF MoneyNext
  <1>5. ASSUME NEW d \in Deals, RentNext(d) PROVE TypeOK'
    <2>1. ASSUME NEW caller \in Callers, ChallengeRentRelease(caller, d) PROVE TypeOK'
      BY <2>1 DEF ChallengeRentRelease, TypeOK, Disputes
    <2>2. ASSUME NEW recipient \in Users, Settle(d, recipient) PROVE TypeOK'
      BY <2>2, SettleType
    <2>3. pendingRelease[d] # None => pendingRelease[d].to \in Users
      BY DEF TypeOK, Releases
    <2>4. depositor[d] # None => depositor[d] \in Users
      BY DEF TypeOK
    <2>5. ASSUME NEW caller \in Callers, NEW outcome, ResolveRentDispute(caller, d, outcome)
          PROVE  TypeOK'
      BY <2>5, <2>2, <2>3, <2>4 DEF ResolveRentDispute, Settle
    <2>6. CASE SettleRentReleaseTimeout(d)
      BY <2>6, <2>2, <2>3 DEF SettleRentReleaseTimeout
    <2>7. CASE SettleDisputeTimeout(d)
      BY <2>7, <2>2, <2>4 DEF SettleDisputeTimeout, Settle
    <2> QED
      BY <1>5, <2>1, <2>5, <2>6, <2>7, RequestType DEF RentNext
  <1>6. ASSUME NEW d \in Deals, LifecycleNext(d) PROVE TypeOK'
    BY <1>6 DEF LifecycleNext, ActivateDeal, CompleteDeal, DefaultDeal, MoveLifecycle,
                TypeOK, Lifecycle
  <1>7. CASE UNCHANGED vars
    BY <1>7 DEF vars, TypeOK
  <1> QED
    BY <1>1, <1>2, <1>3, <1>4, <1>5, <1>6, <1>7 DEF Next

\* A deployment starts well typed.
LEMMA TypeInit == Init => TypeOK
  <1> SUFFICES ASSUME Init PROVE TypeOK
    OBVIOUS
  <1>1. /\ Windows \subseteq Nat /\ LegacyAmounts \subseteq Nat /\ StartSchemas \subseteq 1..3
        /\ MaxTime \in Nat /\ Supply \in Nat /\ Escrow \notin Users
    BY EscrowAssumption
  <1>2. dealBalance \in [Deals -> Nat]
    <2>1. dealBalance \in IF schema = 3 THEN {[d \in Deals |-> 0]}
                         ELSE [Deals -> LegacyAmounts]
      BY DEF Init
    <2>2. CASE schema = 3
      BY <2>1, <2>2
    <2>3. CASE schema # 3
      <3>1. dealBalance \in [Deals -> LegacyAmounts]
        BY <2>1, <2>3
      <3> QED
        BY <1>1, <3>1
    <2> QED
      BY <2>2, <2>3
  <1>3. legacy \in [Deals -> [locked : Nat, pending : Nat]]
    <2>1. legacy \in IF schema # 2 THEN {[d \in Deals |-> [locked |-> 0, pending |-> 0]]}
                    ELSE [Deals -> [locked : LegacyAmounts, pending : LegacyAmounts]]
      BY DEF Init
    <2>2. [locked : LegacyAmounts, pending : LegacyAmounts]
            \subseteq [locked : Nat, pending : Nat]
      BY <1>1
    <2> QED
      BY <2>1, <2>2
  <1>4. depositor \in [Deals -> Users \cup {None}]
    <2>1. depositor \in IF schema = 3 THEN {[d \in Deals |-> None]}
                       ELSE [Deals -> Users \cup {None}]
      BY DEF Init
    <2> QED
      BY <2>1
  <1>5. token \in [Users \cup {Escrow} -> Nat]
    BY <1>1 DEF Init
  <1>6. /\ dealState \in [Deals -> DealStates \cup {None}]
        /\ pendingRelease \in [Deals -> Releases \cup {None}]
        /\ dispute \in [Deals -> Disputes \cup {None}]
        /\ lifecycle \in [Deals -> Lifecycle]
    BY DEF Init, Lifecycle
  <1>7. now \in 0..MaxTime /\ frozenAt \in 0..now /\ schema \in 1..3
    BY <1>1 DEF Init
  <1>8. /\ paused \in BOOLEAN
        /\ resolver \in Callers \cup {None}
        /\ challengeWindow \in Windows \ {0} /\ disputeTimeout \in Windows \ {0}
        /\ breaker \in {"Unfrozen", "Frozen"}
        /\ pendingDrain \in Drains \cup {None} /\ recoveryDelay \in Windows
    BY DEF Init
  <1> QED
    BY <1>2, <1>3, <1>4, <1>5, <1>6, <1>7, <1>8 DEF TypeOK

\* Type correctness: every reachable state has the shape the code reads back.
THEOREM TypeCorrect == Spec => []TypeOK
  BY TypeInit, TypeStep, PTL DEF Spec

-----------------------------------------------------------------------------
\* With agreeing books the DealState of every deal carries its balance.
LEMMA TotalIsBalance ==
    ASSUME TypeOK, BooksAgree, NEW d \in Deals
    PROVE  GetDealState(d).total = dealBalance[d]
  BY DEF BooksAgree, GetDealState, ZeroState

\* One deal's DealState and balance change together, the others' stay.
LEMMA BooksStep ==
    ASSUME TypeOK, BooksAgree, NEW d \in Deals, NEW s, PutDealState(d, s),
           NEW b, s.total = b, dealBalance' = [dealBalance EXCEPT ![d] = b]
    PROVE  BooksAgree'
  <1> SUFFICES ASSUME NEW e \in Deals, dealState'[e] # None
               PROVE  dealState'[e].total = dealBalance'[e] /\ DealInvariants(dealState'[e])
    BY DEF BooksAgree, DealInvariants
  <1>1. CASE e = d
    BY <1>1 DEF PutDealState, TypeOK
  <1>2. CASE e # d
    BY <1>2 DEF PutDealState, TypeOK, BooksAgree
  <1> QED
    BY <1>1, <1>2

\* Every invocation keeps the two copies of the balances equal.
LEMMA BooksPreserved ==
    ASSUME TypeOK, BooksAgree, [Next]_vars
    PROVE  BooksAgree'
  <1>1. ASSUME UNCHANGED bookVars PROVE BooksAgree'
    BY <1>1 DEF bookVars, BooksAgree, DealInvariants
  <1>2. ASSUME NEW d \in Deals, NEW recipient, Settle(d, recipient) PROVE BooksAgree'
    <2>1. SettledState(d).total = SettledBalance(d)
      BY DEF SettledState, ZeroState
    <2> QED
      BY <1>2, <2>1, BooksStep DEF Settle
  <1>3. ASSUME NEW d \in Deals, MoneyNext(d) PROVE BooksAgree'
    <2>1. ASSUME NEW from, NEW amount, Deposit(from, d, amount) PROVE BooksAgree'
      <3> DEFINE s == [GetDealState(d) EXCEPT !.total = CreditedBalance(d, amount)]
      <3>1. s.total = CreditedBalance(d, amount)
        BY GetDealStateType DEF DealStates
      <3> QED
        BY <2>1, <3>1, BooksStep DEF Deposit
    <2>2. ASSUME NEW caller, NEW split, NEW to, NEW platform, NEW reporter,
                 Release(caller, d, split, to, platform, reporter)
          PROVE  BooksAgree'
      <3>1. ReleasedState(d).total = 0
        BY DEF ReleasedState, ZeroState
      <3> QED
        BY <2>2, <3>1, BooksStep DEF Release
    <2> QED
      BY <1>3, <2>1, <2>2 DEF MoneyNext
  <1>4. ASSUME NEW d \in Deals, RentNext(d) PROVE BooksAgree'
    <2>1. ASSUME NEW caller, NEW to, NEW amount, RequestRentRelease(caller, d, to, amount)
          PROVE  BooksAgree'
      <3> DEFINE s == [GetDealState(d) EXCEPT !.locked = amount, !.pending = amount]
      <3>1. s.total = dealBalance[d]
        BY TotalIsBalance, GetDealStateType DEF DealStates
      <3>2. dealBalance' = [dealBalance EXCEPT ![d] = dealBalance[d]]
        BY <2>1 DEF RequestRentRelease, TypeOK
      <3> QED
        BY <2>1, <3>1, <3>2, BooksStep DEF RequestRentRelease
    <2>2. ASSUME NEW caller, ChallengeRentRelease(caller, d) PROVE BooksAgree'
      BY <2>2, <1>1 DEF ChallengeRentRelease
    <2> QED
      BY <1>4, <1>2, <2>1, <2>2 DEF RentNext, ResolveRentDispute, SettleRentReleaseTimeout,
                                   SettleDisputeTimeout
  <1>5. CASE MigrationNext
    <2> PICK caller \in Callers, from \in 1..2, ids \in SUBSET Deals :
          MigrateStorageSchema(caller, from, ids)
      BY <1>5 DEF MigrationNext
    <2> SUFFICES ASSUME NEW e \in Deals, dealState'[e] # None
                 PROVE  dealState'[e].total = dealBalance'[e] /\ DealInvariants(dealState'[e])
      BY DEF BooksAgree, DealInvariants
    <2>1. CASE e \in ids
      BY <2>1 DEF MigrateStorageSchema
    <2>2. CASE e \notin ids
      BY <2>2 DEF MigrateStorageSchema, BooksAgree
    <2> QED
      BY <2>1, <2>2
  <1>6. CASE AdminNext
    BY <1>6, <1>1 DEF AdminNext, Pause, Unpause, Freeze, SetResolver, ConfigureDisputeWindows,
                      ProposeDrain, ExecuteDrain, SetRecoveryDelay
  <1>7. ASSUME NEW d \in Deals, LifecycleNext(d) PROVE BooksAgree'
    BY <1>7, <1>1 DEF LifecycleNext, ActivateDeal, CompleteDeal, DefaultDeal, MoveLifecycle
  <1>8. CASE Tick \/ UNCHANGED vars
    BY <1>8, <1>1 DEF Tick, vars
  <1> QED
    BY <1>3, <1>4, <1>5, <1>6, <1>7, <1>8 DEF Next

\* The two copies of every deal's balance agree in every reachable state.
THEOREM BooksAlwaysAgree == Spec => []BooksAgree
  <1>1. Init => BooksAgree
    BY DEF Init, BooksAgree
  <1> QED
    BY <1>1, TypeCorrect, BooksPreserved, PTL DEF Spec

-----------------------------------------------------------------------------
\* What the administrative actions have in common for the proofs below.
LEMMA AdminFrame ==
    ASSUME AdminNext
    PROVE  UNCHANGED <<now, token, bookVars, rentVars, lifecycle, schemaVars>>
  BY DEF AdminNext, Pause, Unpause, Freeze, SetResolver, ConfigureDisputeWindows,
         ProposeDrain, ExecuteDrain, SetRecoveryDelay

\* The three calls that settle a release do nothing beyond Settle.
LEMMA RentCases ==
    ASSUME TypeOK, NEW d \in Deals, RentNext(d)
    PROVE  \/ \E caller \in Callers, to \in Users, amount \in Amounts :
                RequestRentRelease(caller, d, to, amount)
           \/ \E caller \in Callers : ChallengeRentRelease(caller, d)
           \/ /\ dispute[d] # None /\ resolver # None
              /\ \/ Settle(d, pendingRelease[d].to)
                 \/ Settle(d, depositor[d])
           \/ /\ dispute[d] = None /\ now >= pendingRelease[d].challengeEnd
              /\ Settle(d, pendingRelease[d].to)
           \/ dispute[d] # None /\ Settle(d, depositor[d])
  BY DEF RentNext, ResolveRentDispute, SettleRentReleaseTimeout, SettleDisputeTimeout,
         Uncontested

\* No invocation leaves a dispute without its release.
LEMMA DisputePreserved ==
    ASSUME TypeOK, DisputeHasRelease, [Next]_vars
    PROVE  DisputeHasRelease'
  <1>1. ASSUME UNCHANGED <<depositor, rentVars>>, now' >= now, now' \in Nat
        PROVE  DisputeHasRelease'
    BY <1>1 DEF DisputeHasRelease, rentVars, TypeOK, Disputes
  <1>2. now \in Nat
    BY EscrowAssumption DEF TypeOK
  <1>3. CASE Tick \/ UNCHANGED vars
    BY <1>1, <1>2, <1>3 DEF Tick, vars, bookVars
  <1>4. CASE AdminNext
    BY <1>1, <1>2, <1>4, AdminFrame DEF bookVars
  <1>5. CASE MigrationNext
    BY <1>1, <1>2, <1>5 DEF MigrationNext, MigrateStorageSchema
  <1>6. ASSUME NEW d \in Deals, LifecycleNext(d) PROVE DisputeHasRelease'
    BY <1>1, <1>2, <1>6 DEF LifecycleNext, ActivateDeal, CompleteDeal, DefaultDeal,
                            MoveLifecycle, bookVars
  <1>7. ASSUME NEW d \in Deals, MoneyNext(d) PROVE DisputeHasRelease'
    <2>1. ASSUME NEW from \in Users, NEW amount \in Amounts, Deposit(from, d, amount)
          PROVE  DisputeHasRelease'
      BY <2>1, EscrowAssumption DEF Deposit, DisputeHasRelease, rentVars, TypeOK, Callers
    <2>2. ASSUME NEW caller, NEW split, NEW to, NEW platform, NEW reporter,
                 Release(caller, d, split, to, platform, reporter)
          PROVE  DisputeHasRelease'
      BY <1>1, <1>2, <2>2 DEF Release
    <2> QED
      BY <1>7, <2>1, <2>2 DEF MoneyNext
  <1>8. ASSUME NEW d \in Deals, RentNext(d) PROVE DisputeHasRelease'
    <2>1. ASSUME NEW caller \in Callers, NEW to \in Users, NEW amount \in Amounts,
                 RequestRentRelease(caller, d, to, amount)
          PROVE  DisputeHasRelease'
      BY <2>1 DEF RequestRentRelease, DisputeHasRelease, TypeOK
    <2>2. ASSUME NEW caller \in Callers, ChallengeRentRelease(caller, d)
          PROVE  DisputeHasRelease'
      BY <1>2, <2>2 DEF ChallengeRentRelease, DisputeHasRelease, bookVars, TypeOK
    <2>3. ASSUME NEW recipient, Settle(d, recipient) PROVE DisputeHasRelease'
      BY <2>3 DEF Settle, SettledDispute, DisputeHasRelease, TypeOK
    <2> QED
      BY <1>8, <2>1, <2>2, <2>3, RentCases
  <1> QED
    BY <1>3, <1>4, <1>5, <1>6, <1>7, <1>8 DEF Next

\* A dispute always has its release, opened in time.
THEOREM DisputesHaveReleases == Spec => []DisputeHasRelease
  <1>1. Init => DisputeHasRelease
    BY DEF Init, DisputeHasRelease
  <1> QED
    BY <1>1, TypeCorrect, DisputePreserved, PTL DEF Spec

-----------------------------------------------------------------------------
\* Only the breaker's own entry points touch the breaker.
LEMMA BreakerFrame ==
    ASSUME [Next]_vars, ~AdminNext
    PROVE  UNCHANGED breakerVars
  BY ZenonT(60)
     DEF Next, vars, Tick, MigrationNext, MigrateStorageSchema, MoneyNext, Deposit, Release,
         RentNext, RequestRentRelease, ChallengeRentRelease, ResolveRentDispute,
         SettleRentReleaseTimeout, SettleDisputeTimeout, Settle, LifecycleNext,
         ActivateDeal, CompleteDeal, DefaultDeal, MoveLifecycle

\* Time does not run backwards.
LEMMA TimeAdvances ==
    ASSUME TypeOK, [Next]_vars
    PROVE  now \in Nat /\ now' \in Nat /\ now' >= now
  <1>1. now \in Nat
    BY EscrowAssumption DEF TypeOK
  <1>2. now' = now \/ now' = now + 1
    BY AdminFrame, ZenonT(60)
       DEF Next, vars, Tick, MigrationNext, MigrateStorageSchema, MoneyNext, Deposit, Release,
           RentNext, RequestRentRelease, ChallengeRentRelease, ResolveRentDispute,
           SettleRentReleaseTimeout, SettleDisputeTimeout, Settle, LifecycleNext,
           ActivateDeal, CompleteDeal, DefaultDeal, MoveLifecycle
  <1> QED
    BY <1>1, <1>2

\* No invocation lets a drain proposal outlive its freeze.
LEMMA DrainPreserved ==
    ASSUME TypeOK, DrainHasFreeze, [Next]_vars
    PROVE  DrainHasFreeze'
  <1>1. CASE ~AdminNext
    BY <1>1, BreakerFrame, TimeAdvances DEF breakerVars, DrainHasFreeze, TypeOK, Drains
  <1>2. CASE AdminNext
    <2> PICK caller \in Callers :
          \/ Pause(caller)
          \/ Unpause(caller)
          \/ Freeze(caller)
          \/ \E r \in Callers : SetResolver(caller, r)
          \/ \E challenge, timeout \in Windows :
               ConfigureDisputeWindows(caller, challenge, timeout)
          \/ \E hash \in Hashes : ProposeDrain(caller, hash) \/ ExecuteDrain(caller, hash)
          \/ \E delay \in Windows : SetRecoveryDelay(caller, delay)
      BY <1>2 DEF AdminNext
    <2>1. ASSUME UNCHANGED <<now, breaker, pendingDrain, frozenAt>> PROVE DrainHasFreeze'
      BY <2>1 DEF DrainHasFreeze
    <2>2. CASE Freeze(caller)
      BY <2>2 DEF Freeze, DrainHasFreeze
    <2>3. ASSUME NEW hash \in Hashes, ProposeDrain(caller, hash) PROVE DrainHasFreeze'
      BY <2>3, EscrowAssumption DEF ProposeDrain, DrainHasFreeze, TypeOK
    <2>4. ASSUME NEW hash \in Hashes, ExecuteDrain(caller, hash) PROVE DrainHasFreeze'
      BY <2>4 DEF ExecuteDrain, DrainAfterExecution, DrainHasFreeze
    <2> QED
      BY <2>1, <2>2, <2>3, <2>4 DEF Pause, Unpause, SetResolver, ConfigureDisputeWindows,
                                    SetRecoveryDelay, breakerVars
  <1> QED
    BY <1>1, <1>2

\* A drain proposal belongs to the freeze in force.
THEOREM DrainsBelongToFreeze == Spec => []DrainHasFreeze
  <1>1. Init => DrainHasFreeze
    BY DEF Init, DrainHasFreeze
  <1> QED
    BY <1>1, TypeCorrect, DrainPreserved, PTL DEF Spec

\* The freeze lasts the recovery delay, counted from the freeze: the only
\* step that lifts it waits the delay from a proposal made during the freeze.
THEOREM ThawsWait == Spec => ThawWaits
  <1>1. ASSUME TypeOK, DrainHasFreeze, [Next]_vars, breaker = "Frozen", breaker' # "Frozen"
        PROVE  now >= frozenAt + recoveryDelay
    <2>1. AdminNext
      BY <1>1, BreakerFrame DEF breakerVars
    <2>2. PICK caller \in Callers, hash \in Hashes : ExecuteDrain(caller, hash)
      BY <1>1, <2>1 DEF AdminNext, Pause, Unpause, Freeze, SetResolver,
                        ConfigureDisputeWindows, ProposeDrain, SetRecoveryDelay, breakerVars
    <2>3. now >= pendingDrain.at + recoveryDelay /\ frozenAt <= pendingDrain.at
      BY <1>1, <2>2 DEF ExecuteDrain, DrainHasFreeze
    <2>4. /\ now \in Nat /\ frozenAt \in Nat /\ recoveryDelay \in Nat
          /\ pendingDrain.at \in Nat
      BY <1>1, <2>2, EscrowAssumption DEF ExecuteDrain, TypeOK, Drains
    <2> QED
      BY <2>3, <2>4
  <1>2. TypeOK /\ DrainHasFreeze /\ [Next]_vars
          => [breaker = "Frozen" /\ breaker' # "Frozen" => now >= frozenAt + recoveryDelay]_vars
    BY <1>1
  <1> QED
    BY <1>2, TypeCorrect, DrainsBelongToFreeze, PTL DEF Spec, ThawWaits

-----------------------------------------------------------------------------
\* A deal's balance moves only together with the escrow's tokens.
LEMMA SettlePays ==
    ASSUME TypeOK, BooksAgree, NEW d \in Deals, NEW recipient \in Users,
           Settle(d, recipient)
    PROVE  /\ pendingRelease[d].amount \in Nat \ {0}
           /\ token'[recipient] - token[recipient] = pendingRelease[d].amount
           /\ token[Escrow] - token'[Escrow] = pendingRelease[d].amount
           /\ dealBalance' = [dealBalance EXCEPT ![d] = @ - pendingRelease[d].amount]
           /\ dealBalance'[d] >= 0
           /\ pendingRelease' = [pendingRelease EXCEPT ![d] = None]
  <1>1. pendingRelease[d].amount \in Nat \ {0} /\ dealBalance[d] \in Nat
    BY DEF Settle, TypeOK, Releases
  <1>2. SettledBalance(d) = dealBalance[d] - pendingRelease[d].amount
    BY TotalIsBalance DEF SettledBalance
  <1>3. SettledBalance(d) >= 0
    BY DEF Settle, PutDealState, DealInvariants, SettledState, ZeroState
  <1>4. recipient # Escrow
    BY EscrowAssumption
  <1>5. /\ token'[recipient] = token[recipient] + pendingRelease[d].amount
        /\ token'[Escrow] = token[Escrow] - pendingRelease[d].amount
    BY <1>4 DEF Settle, Transfer, TypeOK
  <1>6. token[recipient] \in Nat /\ token[Escrow] \in Nat
    BY DEF TypeOK
  <1> QED
    BY <1>1, <1>2, <1>3, <1>5, <1>6 DEF Settle, TypeOK

\* The deal_escrow contract keeps its deals' money as CustodyVault demands:
\* no invocation moves the money of two deals, or moves it differently in the
\* books and in the token contract.
LEMMA VaultStep ==
    ASSUME TypeOK, BooksAgree, [Next]_vars
    PROVE  [Vault!VaultNext]_(Vault!vaultVars)
  <1> USE DEF Vault!VaultNext, Vault!vaultVars, Vault!Receive, Vault!Pay, Vault!Moves
  <1>1. ASSUME UNCHANGED <<dealBalance, token>> PROVE [Vault!VaultNext]_(Vault!vaultVars)
    BY <1>1
  <1>2. ASSUME NEW d \in Deals, MoneyNext(d) PROVE [Vault!VaultNext]_(Vault!vaultVars)
    <2>1. ASSUME NEW from \in Users, NEW amount \in Amounts, Deposit(from, d, amount)
          PROVE  Vault!Receive(d)
      <3>1. /\ amount \in Nat \ {0} /\ from # Escrow
            /\ token[Escrow] \in Nat /\ dealBalance[d] \in Nat
        BY EscrowAssumption DEF TypeOK
      <3>2. token'[Escrow] = token[Escrow] + amount
        BY <2>1, <3>1 DEF Deposit, Transfer, TypeOK
      <3>3. dealBalance' = [dealBalance EXCEPT ![d] = dealBalance[d] + amount]
        BY <2>1 DEF Deposit, CreditedBalance
      <3> QED
        BY <3>1, <3>2, <3>3 DEF TypeOK
    <2>2. ASSUME NEW caller, NEW split, NEW to, NEW platform, NEW reporter,
                 Release(caller, d, split, to, platform, reporter)
          PROVE  Vault!Pay(d)
      <3>1. /\ token'[Escrow] = token[Escrow] - dealBalance[d]
            /\ dealBalance' = [dealBalance EXCEPT ![d] = 0] /\ dealBalance[d] > 0
        BY <2>2 DEF Release, TypeOK
      <3>2. token[Escrow] \in Nat /\ dealBalance[d] \in Nat
        BY DEF TypeOK
      <3> QED
        BY <3>1, <3>2 DEF TypeOK
    <2> QED
      BY <1>2, <2>1, <2>2 DEF MoneyNext
  <1>3. ASSUME NEW d \in Deals, RentNext(d) PROVE [Vault!VaultNext]_(Vault!vaultVars)
    <2>1. ASSUME NEW recipient \in Users, Settle(d, recipient) PROVE Vault!Pay(d)
      <3>1. token[Escrow] \in Nat /\ token'[Escrow] \in Nat /\ dealBalance[d] \in Nat
        BY <2>1, SettleType DEF TypeOK
      <3> QED
        BY <2>1, <3>1, SettlePays DEF TypeOK
    <2>2. ASSUME NEW recipient, Settle(d, recipient),
                 recipient \in {pendingRelease[d].to, depositor[d]}
          PROVE  Vault!Pay(d)
      <3>1. recipient \in Users
        BY <2>2 DEF Settle, TypeOK, Releases
      <3> QED
        BY <2>1, <2>2, <3>1
    <2>3. ASSUME NEW caller, NEW to, NEW amount, RequestRentRelease(caller, d, to, amount)
          PROVE  UNCHANGED <<dealBalance, token>>
      BY <2>3 DEF RequestRentRelease
    <2>4. ASSUME NEW caller, ChallengeRentRelease(caller, d)
          PROVE  UNCHANGED <<dealBalance, token>>
      BY <2>4 DEF ChallengeRentRelease, bookVars
    <2> QED
      BY <1>1, <1>3, <2>2, <2>3, <2>4, RentCases
  <1>4. CASE AdminNext
    BY <1>1, <1>4, AdminFrame DEF bookVars
  <1>5. CASE MigrationNext
    BY <1>1, <1>5 DEF MigrationNext, MigrateStorageSchema
  <1>6. ASSUME NEW d \in Deals, LifecycleNext(d) PROVE UNCHANGED <<dealBalance, token>>
    BY <1>6 DEF LifecycleNext, ActivateDeal, CompleteDeal, DefaultDeal, MoveLifecycle, bookVars
  <1>7. CASE Tick \/ UNCHANGED vars
    BY <1>1, <1>7 DEF Tick, vars, bookVars
  <1> QED
    BY <1>1, <1>2, <1>3, <1>4, <1>5, <1>6, <1>7 DEF Next

\* deal_escrow implements CustodyVault.
THEOREM EscrowImplementsVault == Spec => ImplementsVault
  <1>1. Init => Vault!VaultInit
    BY TypeInit DEF Init, TypeOK, TotalOf, Vault!VaultInit
  <1> QED
    BY <1>1, TypeCorrect, BooksAlwaysAgree, VaultStep, PTL
       DEF Spec, ImplementsVault, Vault!VaultSpec

-----------------------------------------------------------------------------
\* Which invocations touch the pending releases, and how.
LEMMA ReleaseFrame ==
    ASSUME TypeOK, [Next]_vars, NEW e \in Deals, pendingRelease[e] # None
    PROVE  \/ pendingRelease'[e] = pendingRelease[e]
           \/ /\ pendingRelease'[e] = None /\ dispute[e] # None /\ resolver # None
              /\ Settle(e, pendingRelease[e].to) \/ Settle(e, depositor[e])
           \/ /\ pendingRelease'[e] = None /\ dispute[e] = None
              /\ now >= pendingRelease[e].challengeEnd /\ Settle(e, pendingRelease[e].to)
           \/ /\ pendingRelease'[e] = None /\ dispute[e] # None
              /\ Settle(e, depositor[e])
  <1>1. ASSUME NEW d \in Deals, RentNext(d), pendingRelease'[e] # pendingRelease[e]
        PROVE  d = e /\ pendingRelease'[e] = None /\ \E r : Settle(e, r)
    <2>1. ASSUME NEW recipient, Settle(d, recipient)
          PROVE  d = e /\ pendingRelease'[e] = None
      BY <1>1, <2>1 DEF Settle, TypeOK
    <2>2. ASSUME NEW caller, NEW to, NEW amount, RequestRentRelease(caller, d, to, amount)
          PROVE  FALSE
      BY <1>1, <2>2 DEF RequestRentRelease, TypeOK
    <2>3. ASSUME NEW caller, ChallengeRentRelease(caller, d) PROVE FALSE
      BY <1>1, <2>3 DEF ChallengeRentRelease
    <2> QED
      BY <1>1, <2>1, <2>2, <2>3, RentCases
  <1>2. ASSUME NEW d \in Deals, ~RentNext(d), [Next]_vars,
               \A c \in Deals : ~RentNext(c)
        PROVE  pendingRelease' = pendingRelease
    BY <1>2, AdminFrame DEF Next, vars, rentVars, Tick, MigrationNext, MigrateStorageSchema,
                            MoneyNext, Deposit, Release, LifecycleNext, ActivateDeal,
                            CompleteDeal, DefaultDeal, MoveLifecycle
  <1>3. ASSUME NEW d \in Deals, RentNext(d), d = e, pendingRelease'[e] # pendingRelease[e]
        PROVE  \/ /\ dispute[e] # None /\ resolver # None
                  /\ Settle(e, pendingRelease[e].to) \/ Settle(e, depositor[e])
               \/ /\ dispute[e] = None /\ now >= pendingRelease[e].challengeEnd
                  /\ Settle(e, pendingRelease[e].to)
               \/ dispute[e] # None /\ Settle(e, depositor[e])
    <2>1. ASSUME NEW caller, NEW to, NEW amount, RequestRentRelease(caller, d, to, amount)
          PROVE  FALSE
      BY <1>3, <2>1 DEF RequestRentRelease
    <2>2. ASSUME NEW caller, ChallengeRentRelease(caller, d) PROVE FALSE
      BY <1>3, <2>2 DEF ChallengeRentRelease
    <2> QED
      BY <1>3, <2>1, <2>2, RentCases
  <1> QED
    BY <1>1, <1>2, <1>3

\* A rent release closes in one of the three ways the protocol has, and takes
\* exactly its amount out of its deal.
THEOREM RentReleasesClose == Spec => RentReleaseCloses
  <1>1. ASSUME TypeOK, BooksAgree, [Next]_vars,
               NEW d \in Deals, pendingRelease[d] # None, pendingRelease'[d] = None
        PROVE  /\ dealBalance[d] - dealBalance'[d] = pendingRelease[d].amount
               /\ \/ /\ dispute[d] = None /\ now >= pendingRelease[d].challengeEnd
                     /\ token'[pendingRelease[d].to] - token[pendingRelease[d].to]
                           = pendingRelease[d].amount
                  \/ /\ dispute[d] # None
                     /\ token'[depositor[d]] - token[depositor[d]] = pendingRelease[d].amount
                  \/ /\ dispute[d] # None /\ resolver # None
                     /\ token'[pendingRelease[d].to] - token[pendingRelease[d].to]
                           = pendingRelease[d].amount
    <2>1. ASSUME NEW r, r \in {pendingRelease[d].to, depositor[d]}, Settle(d, r)
          PROVE  /\ dealBalance[d] - dealBalance'[d] = pendingRelease[d].amount
                 /\ token'[r] - token[r] = pendingRelease[d].amount
      <3>1. r \in Users
        BY <1>1, <2>1 DEF Settle, TypeOK, Releases
      <3>2. /\ pendingRelease[d].amount \in Nat
            /\ dealBalance'[d] = dealBalance[d] - pendingRelease[d].amount
            /\ token'[r] - token[r] = pendingRelease[d].amount
        BY <1>1, <2>1, <3>1, SettlePays DEF TypeOK
      <3>3. dealBalance[d] \in Nat
        BY <1>1 DEF TypeOK
      <3> QED
        BY <3>2, <3>3
    <2> QED
      BY <1>1, <2>1, ReleaseFrame
  <1>2. TypeOK /\ BooksAgree /\ [Next]_vars =>
          [\A d \in Deals :
             pendingRelease[d] # None /\ pendingRelease'[d] = None =>
                LET p == pendingRelease[d]
                    paid(a) == token'[a] - token[a] = p.amount
                IN
                /\ dealBalance[d] - dealBalance'[d] = p.amount
                /\ \/ dispute[d] = None /\ now >= p.challengeEnd /\ paid(p.to)
                   \/ dispute[d] # None /\ paid(depositor[d])
                   \/ dispute[d] # None /\ resolver # None /\ paid(p.to)]_vars
    BY <1>1
  <1> QED
    BY <1>2, TypeCorrect, BooksAlwaysAgree, PTL DEF Spec, RentReleaseCloses

-----------------------------------------------------------------------------
\* A deployment that starts on schema 3 never migrates.
LEMMA NoMigration ==
    ASSUME StartSchemas = {3}
    PROVE  Spec => [](schema = 3)
  <1>1. Init => schema = 3
    BY DEF Init
  <1>2. schema = 3 /\ [Next]_vars => (schema = 3)'
    BY AdminFrame, ZenonT(60)
       DEF Next, vars, schemaVars, Tick, MigrationNext, MigrateStorageSchema, MoneyNext,
           Deposit, Release, RentNext, RequestRentRelease, ChallengeRentRelease,
           ResolveRentDispute, SettleRentReleaseTimeout, SettleDisputeTimeout, Settle,
           LifecycleNext, ActivateDeal, CompleteDeal, DefaultDeal, MoveLifecycle
  <1> QED
    BY <1>1, <1>2, PTL DEF Spec

\* On schema 3, an invocation leaves a deal's lock alone, takes it off, or
\* sets it for the release it opens.
LEMMA LockFrame ==
    ASSUME TypeOK, schema = 3, [Next]_vars, NEW e \in Deals
    PROVE  \/ /\ GetDealState(e)'.locked = GetDealState(e).locked
              /\ pendingRelease'[e] = pendingRelease[e]
           \/ GetDealState(e)'.locked = 0
           \/ /\ pendingRelease[e] = None /\ pendingRelease'[e] # None
              /\ GetDealState(e)'.locked = pendingRelease'[e].amount
  <1> DEFINE Same == /\ GetDealState(e)'.locked = GetDealState(e).locked
                     /\ pendingRelease'[e] = pendingRelease[e]
  <1>1. ASSUME UNCHANGED <<dealState, dealBalance, pendingRelease>> PROVE Same
    BY <1>1 DEF GetDealState, ZeroState
  <1>2. ASSUME NEW d \in Deals, MoneyNext(d) PROVE Same \/ GetDealState(e)'.locked = 0
    <2>1. ASSUME NEW from, NEW amount \in Amounts, Deposit(from, d, amount) PROVE Same
      <3> DEFINE s == [GetDealState(d) EXCEPT !.total = CreditedBalance(d, amount)]
      <3>1. dealState' = [dealState EXCEPT ![d] = s] /\ s # None
        <4>1. CreditedBalance(d, amount) \in Nat
          BY EscrowAssumption DEF CreditedBalance, TypeOK
        <4>2. s \in DealStates
          BY <4>1, GetDealStateType DEF DealStates
        <4> QED
          BY <2>1, <4>2, EscrowAssumption DEF Deposit, PutDealState
      <3>2. s.locked = GetDealState(d).locked
        BY GetDealStateType DEF DealStates
      <3>3. CASE e = d
        BY <2>1, <3>1, <3>2, <3>3 DEF Deposit, rentVars, GetDealState, TypeOK
      <3>4. CASE e # d
        BY <2>1, <3>1, <3>4 DEF Deposit, rentVars, GetDealState, ZeroState, TypeOK
      <3> QED
        BY <3>3, <3>4
    <2>2. ASSUME NEW caller, NEW split, NEW to, NEW platform, NEW reporter,
                 Release(caller, d, split, to, platform, reporter)
          PROVE  Same \/ GetDealState(e)'.locked = 0
      <3>1. /\ dealState' = [dealState EXCEPT ![d] = ZeroState]
            /\ dealBalance' = [dealBalance EXCEPT ![d] = 0]
            /\ pendingRelease' = pendingRelease
        BY <2>2 DEF Release, PutDealState, ReleasedState, rentVars
      <3> QED
        BY <3>1 DEF GetDealState, ZeroState, TypeOK
    <2> QED
      BY <1>2, <2>1, <2>2 DEF MoneyNext
  <1>3. ASSUME NEW d \in Deals, NEW s, PutDealState(d, s), s # None
        PROVE  /\ d = e => GetDealState(e)'.locked = s.locked
               /\ d # e /\ dealBalance'[e] = dealBalance[e]
                    => GetDealState(e)'.locked = GetDealState(e).locked
    BY <1>3 DEF PutDealState, GetDealState, ZeroState, TypeOK
  <1>4. ASSUME NEW d \in Deals, NEW recipient, Settle(d, recipient)
        PROVE  Same \/ GetDealState(e)'.locked = 0
    <2>1. SettledState(d).locked = 0 /\ SettledState(d) # None
      <3>1. SettledBalance(d) \in Nat
        BY <1>4, GetDealStateType
           DEF Settle, PutDealState, DealInvariants, SettledState, ZeroState, SettledBalance,
               DealStates, TypeOK, Releases
      <3>2. SettledState(d) \in DealStates
        BY <3>1 DEF SettledState, ZeroState, DealStates
      <3> QED
        BY <3>2, EscrowAssumption DEF SettledState, ZeroState
    <2>2. e # d => dealBalance'[e] = dealBalance[e] /\ pendingRelease'[e] = pendingRelease[e]
      BY <1>4 DEF Settle, TypeOK
    <2> QED
      BY <1>3, <1>4, <2>1, <2>2 DEF Settle
  <1>5. ASSUME NEW d \in Deals, NEW caller, NEW to \in Users, NEW amount \in Amounts,
               RequestRentRelease(caller, d, to, amount)
        PROVE  \/ Same
               \/ /\ pendingRelease[e] = None /\ pendingRelease'[e] # None
                  /\ GetDealState(e)'.locked = pendingRelease'[e].amount
    <2> DEFINE s == [GetDealState(d) EXCEPT !.locked = amount, !.pending = amount]
    <2>1. amount \in Nat \ {0} /\ now + challengeWindow \in Nat
      BY EscrowAssumption DEF TypeOK
    <2>2. s.locked = amount /\ s # None
      <3>1. GetDealState(d) \in [total : Nat, locked : Nat, pending : Nat]
        BY GetDealStateType DEF DealStates
      <3>2. s \in [total : Nat, locked : Nat, pending : Nat]
        BY <2>1, <3>1
      <3>3. s.locked = amount
        BY <3>1
      <3> QED
        BY <3>2, <3>3, EscrowAssumption DEF DealStates
    <2>3. CASE d = e
      <3>1. pendingRelease'[e] = [to |-> to, amount |-> amount,
                                  challengeEnd |-> now + challengeWindow]
        BY <1>5, <2>3 DEF RequestRentRelease, TypeOK
      <3>2. pendingRelease'[e] \in Releases
        BY <2>1, <3>1 DEF Releases
      <3>3. pendingRelease'[e] # None /\ pendingRelease'[e].amount = amount
        BY <3>1, <3>2, EscrowAssumption
      <3> QED
        BY <1>3, <1>5, <2>2, <2>3, <3>3 DEF RequestRentRelease
    <2>4. CASE d # e
      BY <1>3, <1>5, <2>2, <2>4 DEF RequestRentRelease, TypeOK
    <2> QED
      BY <2>3, <2>4
  <1>6. ASSUME NEW d \in Deals, NEW caller, ChallengeRentRelease(caller, d) PROVE Same
    BY <1>1, <1>6 DEF ChallengeRentRelease, bookVars
  <1>7. CASE MigrationNext
    BY <1>7 DEF MigrationNext, MigrateStorageSchema
  <1>8. CASE AdminNext
    BY <1>1, <1>8, AdminFrame DEF bookVars, rentVars
  <1>9. ASSUME NEW d \in Deals, LifecycleNext(d) PROVE Same
    BY <1>1, <1>9 DEF LifecycleNext, ActivateDeal, CompleteDeal, DefaultDeal, MoveLifecycle,
                      bookVars, rentVars
  <1>10. CASE Tick \/ UNCHANGED vars
    BY <1>1, <1>10 DEF Tick, vars, bookVars, rentVars
  <1>11. ASSUME NEW d \in Deals, RentNext(d)
         PROVE  \/ Same \/ GetDealState(e)'.locked = 0
                \/ /\ pendingRelease[e] = None /\ pendingRelease'[e] # None
                   /\ GetDealState(e)'.locked = pendingRelease'[e].amount
    BY <1>4, <1>5, <1>6, <1>11, RentCases
  <1> QED
    BY <1>2, <1>7, <1>8, <1>9, <1>10, <1>11 DEF Next

\* On schema 3, locked money always has the rent release it is locked for.
THEOREM LocksHaveReleases ==
    ASSUME StartSchemas = {3}
    PROVE  Spec => []LockHasRelease
  <1>1. Init => LockHasRelease
    <2> SUFFICES ASSUME Init, NEW d \in Deals PROVE GetDealState(d).locked = 0
      BY DEF LockHasRelease
    <2> QED
      BY DEF Init, GetDealState, ZeroState
  <1>2. TypeOK /\ schema = 3 /\ LockHasRelease /\ [Next]_vars => LockHasRelease'
    BY LockFrame DEF LockHasRelease
  <1> QED
    BY <1>1, <1>2, TypeCorrect, NoMigration, PTL DEF Spec

\* On schema 3, lock, release and dispute of a deal are always about one request.
THEOREM RentEntriesAlwaysAgree ==
    ASSUME StartSchemas = {3}
    PROVE  Spec => []RentEntriesAgree
  BY LocksHaveReleases, DisputesHaveReleases, PTL DEF RentEntriesAgree

\* An orphaned release stays orphaned: nothing pays, renews or removes it.
THEOREM OrphansStay ==
    ASSUME StartSchemas = {3}
    PROVE  Spec => OrphanStays
  <1>1. ASSUME TypeOK, schema = 3, [Next]_vars, NEW d \in Deals, Orphaned(d)
        PROVE  Orphaned(d)'
    <2>1. pendingRelease'[d] = pendingRelease[d]
      BY <1>1, ReleaseFrame DEF Orphaned, Settle, LockMatches
    <2>2. GetDealState(d)'.locked \in {GetDealState(d).locked, 0}
      BY <1>1, <2>1, LockFrame DEF Orphaned
    <2>3. pendingRelease[d].amount # 0
      BY <1>1 DEF Orphaned, TypeOK, Releases
    <2> QED
      BY <1>1, <2>1, <2>2, <2>3 DEF Orphaned
  <1>2. TypeOK /\ schema = 3 /\ [Next]_vars
          => [\A d \in Deals : Orphaned(d) => Orphaned(d)']_vars
    BY <1>1
  <1> QED
    BY <1>2, TypeCorrect, NoMigration, PTL DEF Spec, OrphanStays

-----------------------------------------------------------------------------
\* While the breaker is frozen only the settlement of a rent release takes
\* money out of a deal: the direct release, which takes all of it, is blocked.
THEOREM FrozenPaysRentOnly == Spec => FrozenPaysOnlyRent
  <1>1. ASSUME TypeOK, BooksAgree, [Next]_vars, breaker = "Frozen",
               NEW e \in Deals, dealBalance'[e] < dealBalance[e]
        PROVE  /\ pendingRelease[e] # None /\ pendingRelease'[e] = None
               /\ dealBalance[e] - dealBalance'[e] = pendingRelease[e].amount
    <2>1. dealBalance[e] \in Nat /\ dealBalance' # dealBalance
      BY <1>1 DEF TypeOK
    <2>2. PICK d \in Deals : MoneyNext(d) \/ RentNext(d)
      BY <1>1, <2>1, AdminFrame
         DEF Next, vars, bookVars, Tick, MigrationNext, MigrateStorageSchema, LifecycleNext,
             ActivateDeal, CompleteDeal, DefaultDeal, MoveLifecycle
    <2>3. CASE MoneyNext(d)
      <3>1. ASSUME NEW from, NEW amount \in Amounts, Deposit(from, d, amount) PROVE FALSE
        <4>1. amount \in Nat /\ dealBalance[d] \in Nat
          BY <1>1, EscrowAssumption DEF TypeOK
        <4>2. dealBalance' = [dealBalance EXCEPT ![d] = dealBalance[d] + amount]
          BY <3>1 DEF Deposit, CreditedBalance
        <4> QED
          BY <1>1, <2>1, <4>1, <4>2 DEF TypeOK
      <3>2. ASSUME NEW caller, NEW split, NEW to, NEW platform, NEW reporter,
                   Release(caller, d, split, to, platform, reporter)
            PROVE  FALSE
        BY <1>1, <3>2 DEF Release, NotFrozen
      <3> QED
        BY <2>3, <3>1, <3>2 DEF MoneyNext
    <2>4. CASE RentNext(d)
      <3>1. ASSUME NEW r, r \in {pendingRelease[d].to, depositor[d]}, Settle(d, r)
            PROVE  /\ pendingRelease[e] # None /\ pendingRelease'[e] = None
                   /\ dealBalance[e] - dealBalance'[e] = pendingRelease[e].amount
        <4>1. r \in Users /\ pendingRelease[d] # None
          BY <1>1, <3>1 DEF Settle, TypeOK, Releases
        <4>2. /\ pendingRelease[d].amount \in Nat
              /\ dealBalance' = [dealBalance EXCEPT ![d] = @ - pendingRelease[d].amount]
              /\ pendingRelease' = [pendingRelease EXCEPT ![d] = None]
          BY <1>1, <3>1, <4>1, SettlePays
        <4>3. d = e
          BY <1>1, <2>1, <4>2 DEF TypeOK
        <4> QED
          BY <1>1, <2>1, <4>1, <4>2, <4>3 DEF TypeOK
      <3>2. ASSUME NEW caller, NEW to, NEW amount, RequestRentRelease(caller, d, to, amount)
            PROVE  FALSE
        BY <2>1, <3>2 DEF RequestRentRelease
      <3>3. ASSUME NEW caller, ChallengeRentRelease(caller, d) PROVE FALSE
        BY <2>1, <3>3 DEF ChallengeRentRelease, bookVars
      <3> QED
        BY <1>1, <2>4, <3>1, <3>2, <3>3, RentCases
    <2> QED
      BY <2>2, <2>3, <2>4
  <1>2. TypeOK /\ BooksAgree /\ [Next]_vars =>
          [\A d \in Deals :
             breaker = "Frozen" /\ dealBalance'[d] < dealBalance[d] =>
                /\ pendingRelease[d] # None /\ pendingRelease'[d] = None
                /\ dealBalance[d] - dealBalance'[d] = pendingRelease[d].amount]_vars
    BY <1>1
  <1> QED
    BY <1>2, TypeCorrect, BooksAlwaysAgree, PTL DEF Spec, FrozenPaysOnlyRent

=============================================================================
