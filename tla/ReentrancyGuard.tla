-------------------------- MODULE ReentrancyGuard --------------------------
(***************************************************************************)
(* The reentrancy_guard contract: counters of nested calls by contract and *)
(* entry point, which other contracts raise and lower.                     *)
(* Left out: events.                                                       *)
(***************************************************************************)
EXTENDS Parties

CONSTANTS
    EntryPoints,    \* entry points of the guarded contracts
    Depths,         \* depths the admin passes to set_max_call_depth
    DefaultDepth,   \* what init stores, 5
    DepthLimit      \* the largest depth that is accepted, 20

ASSUME GuardAssumption ==
    Depths \subseteq Nat /\ DepthLimit \in Nat \ {0} /\ DefaultDepth \in 1..DepthLimit

VARIABLES guardAdmin, maxDepth, guarded, allowed, depth

guardVars == <<guardAdmin, maxDepth, guarded, allowed, depth>>

\* The guarded contracts are among the parties.
GuardInit ==
    /\ guardAdmin = Admin /\ maxDepth = DefaultDepth
    /\ guarded = {} /\ allowed = {}
    /\ depth = [c \in Parties |-> [e \in EntryPoints |-> 0]]

-----------------------------------------------------------------------------
DepthLeftInclusive(c, e) == depth[c][e] <= maxDepth
DepthLeft(c, e) == depth[c][e] < maxDepth

\* By anybody; an allowed entry point is not counted.
Enter(c, e) ==
    /\ c \in guarded
    /\ e \notin allowed => DepthLeft(c, e)
    /\ depth' = IF e \in allowed THEN depth ELSE [depth EXCEPT ![c][e] = @ + 1]
    /\ UNCHANGED <<guardAdmin, maxDepth, guarded, allowed>>

Exit(c, e) ==
    /\ c \in guarded
    /\ e \notin allowed => depth[c][e] > 0
    /\ depth' = IF e \in allowed THEN depth ELSE [depth EXCEPT ![c][e] = @ - 1]
    /\ UNCHANGED <<guardAdmin, maxDepth, guarded, allowed>>

SetMaxCallDepth(by, d) ==
    /\ by = guardAdmin
    /\ d \in 1..DepthLimit
    /\ maxDepth' = d
    /\ UNCHANGED <<guardAdmin, guarded, allowed, depth>>

\* activate_guard and deactivate_guard; the counters stay.
SetGuard(by, c, on) ==
    /\ by = guardAdmin
    /\ guarded' = IF on THEN guarded \cup {c} ELSE guarded \ {c}
    /\ UNCHANGED <<guardAdmin, maxDepth, allowed, depth>>

AllowPattern(by, e) ==
    /\ by = guardAdmin
    /\ e \notin allowed
    /\ allowed' = allowed \cup {e}
    /\ UNCHANGED <<guardAdmin, maxDepth, guarded, depth>>

DisallowPattern(by, e) ==
    /\ by = guardAdmin
    /\ allowed' = allowed \ {e}
    /\ UNCHANGED <<guardAdmin, maxDepth, guarded, depth>>

SetGuardAdmin(by, a) ==
    /\ by = guardAdmin
    /\ guardAdmin' = a
    /\ UNCHANGED <<maxDepth, guarded, allowed, depth>>

GuardNext ==
    /\ \/ \E c \in Parties, e \in EntryPoints : Enter(c, e) \/ Exit(c, e)
       \/ \E by \in Callers :
            \/ \E d \in Depths : SetMaxCallDepth(by, d)
            \/ \E c \in Parties, on \in BOOLEAN : SetGuard(by, c, on)
            \/ \E e \in EntryPoints : AllowPattern(by, e) \/ DisallowPattern(by, e)
            \/ \E a \in Callers : SetGuardAdmin(by, a)
    /\ UNCHANGED now

GuardSpec == now = 0 /\ GuardInit /\ [][GuardNext]_<<now, guardVars>>

-----------------------------------------------------------------------------
\* Entries have the types the getters read.  A counter that is raised as long
\* as it is below the maximum in force, while maxima change and calls are open,
\* stays within the limit of all maxima and never drops below zero.
GuardTypeOK ==
    /\ guardAdmin \in Callers /\ maxDepth \in 1..DepthLimit
    /\ guarded \subseteq Parties /\ allowed \subseteq EntryPoints
    /\ depth \in [Parties -> [EntryPoints -> 0..DepthLimit]]
=============================================================================
