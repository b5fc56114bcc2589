------------------------------ MODULE Timelock ------------------------------
(***************************************************************************)
(* The timelock contract: the admin queues calls, anybody executes them    *)
(* between eta and the end of the grace period, the admin cancels or       *)
(* expires them, members pause the execution together.                     *)
(*                                                                         *)
(* The queue is in temporary storage: the host deletes an entry whose life *)
(* is over.  Every entry point that reads an entry either removes it or    *)
(* fails, so the life given when the call was queued is never extended.    *)
(* An entry is keyed by the hash of the call and its eta, modelled as the  *)
(* pair.  A call that fails undoes its execution.  init is the only writer *)
(* of the admin, so admin actions carry no caller.                         *)
(***************************************************************************)
EXTENDS LedgerClock, FiniteSets

CONSTANTS
    Calls,          \* target, function and arguments
    Members,        \* the multisig members init stores
    InitialDelay,   \* the min_delay init stores
    MaxDelay,       \* the max_delay init stores
    Delays,         \* delays the admin passes
    GracePeriod,    \* GRACE_PERIOD, 14 days
    EntryLife       \* TEMPORARY_BUMP_TO, 30 days

ASSUME TimelockAssumption ==
    /\ {InitialDelay, MaxDelay, GracePeriod, EntryLife} \subseteq Nat /\ Delays \subseteq Nat
    /\ InitialDelay # 0 /\ InitialDelay <= MaxDelay

VARIABLES
    minDelay,
    tlPaused,       \* Paused
    queued,         \* the Queued entries, with the end of their lives
    ran             \* history: the calls executed, with their eta

timelockVars == <<minDelay, tlPaused, queued, ran>>

TimelockInit == minDelay = InitialDelay /\ tlPaused = FALSE /\ queued = {} /\ ran = {}

LiveEntries == {e \in queued : now <= e.liveUntil}

Entry(call, eta) == {e \in LiveEntries : e.call = call /\ e.eta = eta}

DelayAllowedUpTo(delay) == delay <= MaxDelay
DelayAllowed(delay) == minDelay <= delay /\ delay <= MaxDelay

\* The host's clock for the entry: set_temporary extends it to EntryLife.
LifeEndOfDelay == now + MaxDelay
LifeEnd == now + EntryLife

QueueCall(call, delay) ==
    /\ DelayAllowed(delay)
    /\ Entry(call, now + delay) = {}
    /\ queued' = LiveEntries \cup {[call |-> call, eta |-> now + delay, liveUntil |-> LifeEnd]}
    /\ UNCHANGED <<now, minDelay, tlPaused, ran>>

ExecuteCall(e) ==
    /\ ~tlPaused
    /\ now >= e.eta
    /\ now <= e.eta + GracePeriod
    /\ queued' = queued \ {e}
    /\ ran' = ran \cup {<<e.call, e.eta>>}
    /\ UNCHANGED <<now, minDelay, tlPaused>>

CancelCall(e) ==
    /\ queued' = queued \ {e}
    /\ UNCHANGED <<now, minDelay, tlPaused, ran>>

Overdue(e) == now > e.eta + GracePeriod

ExpireCall(e) ==
    /\ Overdue(e)
    /\ queued' = queued \ {e}
    /\ UNCHANGED <<now, minDelay, tlPaused, ran>>

\* Every member named signs; the host refuses a second signature of the same one.
EmergencyPause(signers) ==
    /\ Cardinality(signers) >= 2
    /\ signers \subseteq Members
    /\ tlPaused' = TRUE
    /\ UNCHANGED <<now, minDelay, queued, ran>>

UnpauseTimelock ==
    /\ tlPaused' = FALSE
    /\ UNCHANGED <<now, minDelay, queued, ran>>

MinDelayRaised(delay) == delay # 0 /\ minDelay <= delay /\ delay <= MaxDelay

SetMinDelay(delay) ==
    /\ MinDelayRaised(delay)
    /\ minDelay' = delay
    /\ UNCHANGED <<now, tlPaused, queued, ran>>

TimelockTick == Tick /\ UNCHANGED timelockVars

TimelockNext ==
    \/ TimelockTick
    \/ UnpauseTimelock
    \/ \E call \in Calls, delay \in Delays : QueueCall(call, delay)
    \/ \E e \in LiveEntries : ExecuteCall(e) \/ CancelCall(e) \/ ExpireCall(e)
    \/ \E signers \in SUBSET Members : EmergencyPause(signers)
    \/ \E delay \in Delays : SetMinDelay(delay)

TimelockSpec == now = 0 /\ TimelockInit /\ [][TimelockNext]_<<now, timelockVars>>

-----------------------------------------------------------------------------
\* The minimum delay stays a positive one the admin may use, and no two live
\* entries have the same key.
TimelockTypeOK ==
    /\ minDelay \in 1..MaxDelay /\ tlPaused \in BOOLEAN
    /\ queued \subseteq [call : Calls, eta : Nat, liveUntil : Nat]
    /\ ran \subseteq Calls \X Nat
    /\ \A e \in LiveEntries : Entry(e.call, e.eta) = {e}

\* A call queued once is executed at most once: no call gets the key of one that
\* was executed, so nobody can use an execution to justify a second one.
RunsOnce == \A e \in LiveEntries : <<e.call, e.eta>> \notin ran

\* The condition on the deployment that docs/contracts/STORAGE_TTL.md, lines 103 to
\* 107, names and init does not check.
LifeCoversDelays == MaxDelay + GracePeriod <= EntryLife

\* Under that condition, and unless the admin cancels it, a queued call stays
\* executable up to the last second of its grace period, for every delay the
\* admin may choose: the host does not delete it earlier.
QueuedThroughGrace ==
    [][LifeCoversDelays => \A e \in LiveEntries :
        \/ e \in LiveEntries'
        \/ <<e.call, e.eta>> \in ran'
        \/ CancelCall(e)
        \/ now' > e.eta + GracePeriod]_<<now, timelockVars>>
=============================================================================
