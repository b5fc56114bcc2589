--------------------------- MODULE SlashingModule ---------------------------
(***************************************************************************)
(* The slashing module: slashes of staked balances, filed with the hash of *)
(* some evidence or as a plain proposal, that become final after a         *)
(* challenge window unless the admin cancels them; jail and its end; and   *)
(* the record of the slashes of inspectors' bonds, which the bond contract *)
(* reports (Slash, an operator for the module of that contract).           *)
(*                                                                         *)
(* init is the only writer of the admin, who may also propose and finalise *)
(* slashes: these carry no caller.  A revelation is an invocation with the *)
(* evidence that hashes to the commitment.                                 *)
(***************************************************************************)
EXTENDS LedgerClock, FiniteSets, Functions, Sequences

CONSTANTS
    Actors,         \* whose staked balances are slashed
    Reporters,      \* addresses the admin enables as submitters
    Commitments,    \* hashes of evidence and salt
    Offences,       \* those with a tier
    DefaultTier,    \* penalty in basis points by offence
    Tiers,          \* penalties the admin and proposers pass
    Balances,       \* balances the admin enters
    Windows,        \* challenge windows
    DefaultWindow,  \* 604_800 seconds
    Inspectors,
    MaxSlashes,     \* bound on the slashes filed
    MaxReports      \* bound on the slashes recorded for an inspector

SlashIds == 1 .. MaxSlashes

Slashes == [actor : Actors, amount : Nat, deadline : Nat,
            status : {"Pending", "Finalized", "Cancelled"}, evidence : Commitments \cup {None}]

ASSUME SlashingAssumption ==
    /\ IsFiniteSet(Actors) /\ Balances \subseteq Nat /\ Windows \subseteq Nat /\ DefaultWindow \in Nat
    /\ Tiers \subseteq Nat /\ DefaultTier \in [Offences -> Nat]
    /\ None \notin Commitments /\ None \notin Nat /\ None \notin Slashes
    /\ {MaxSlashes, MaxReports} \subseteq Nat

VARIABLES
    submitters,     \* who has a Submitter entry that is true
    tierBps, maxSlashBps,
    challengeWindow,
    stakedBalance,
    pendingSlash,   \* PendingSlash by id; evidence is None unless it is a validator's
    revealed,       \* the ids with CommitmentRevealed
    slashRecord,    \* SlashRecord by commitment: the amount taken
    slashedAmount, slashCount,
    jailed, unjailApproval,
    slashPaused,
    bondNamed,      \* BondContract is set
    slashHistory    \* InspectorSlashHistory: the amounts

slashSettings == <<submitters, tierBps, maxSlashBps, challengeWindow, slashPaused>>
verdictVars   == <<pendingSlash, revealed, slashRecord>>
tollVars      == <<stakedBalance, slashedAmount, slashCount>>
jailVars      == <<jailed, unjailApproval>>
reportVars    == <<bondNamed, slashHistory>>
slashingVars  == <<slashSettings, verdictVars, tollVars, jailVars, reportVars>>

SlashingInit ==
    /\ submitters = {} /\ tierBps = DefaultTier /\ maxSlashBps = FullBps
    /\ challengeWindow = DefaultWindow /\ slashPaused = FALSE
    /\ pendingSlash = [id \in SlashIds |-> None] /\ revealed = {}
    /\ slashRecord = [c \in Commitments |-> None]
    /\ stakedBalance = [a \in Actors |-> 0] /\ slashedAmount = [a \in Actors |-> 0]
    /\ slashCount = [a \in Actors |-> 0]
    /\ jailed = {} /\ unjailApproval = {}
    /\ bondNamed = FALSE /\ slashHistory = [i \in Inspectors |-> <<>>]

Lesser(m, n) == IF m <= n THEN m ELSE n

Filed(id) == pendingSlash[id] # None

InStatus(id, status) == Filed(id) /\ pendingSlash[id].status = status

ByEvidence(id) == pendingSlash[id].evidence # None

-----------------------------------------------------------------------------
\* A tier may exceed the whole: no slash takes more than there is.
SlashAmount(a, bps) == Lesser((stakedBalance[a] * bps) \div FullBps, stakedBalance[a])

FileSlash(id, a, bps, evidence) ==
    /\ id = Cardinality({j \in SlashIds : Filed(j)}) + 1
    /\ stakedBalance[a] # 0
    /\ pendingSlash' = [pendingSlash EXCEPT ![id] =
            [actor |-> a, amount |-> SlashAmount(a, bps), deadline |-> now + challengeWindow,
             status |-> "Pending", evidence |-> evidence]]
    /\ UNCHANGED <<now, slashSettings, revealed, tollVars, jailVars, reportVars>>

\* The commitment must be new.
UnusedUnlessPunished(c) == slashRecord[c] \in {None, 0}
Unused(c) == slashRecord[c] = None

SubmitEvidence(id, c, a, offence) ==
    /\ submitters # {}
    /\ Unused(c)
    /\ a \notin jailed
    /\ tierBps[offence] # 0
    /\ FileSlash(id, a, Lesser(tierBps[offence], maxSlashBps), c)
    /\ slashRecord' = [slashRecord EXCEPT ![c] = 0]

ProposeSlash(id, a, bps) ==
    /\ SlashAmount(a, Lesser(bps, maxSlashBps)) > 0
    /\ FileSlash(id, a, Lesser(bps, maxSlashBps), None)
    /\ UNCHANGED slashRecord

RevealEvidence(id) ==
    /\ submitters # {}
    /\ InStatus(id, "Pending") /\ ByEvidence(id)
    /\ revealed' = revealed \cup {id}
    /\ UNCHANGED <<now, slashSettings, pendingSlash, slashRecord, tollVars, jailVars, reportVars>>

\* What is slashed now: the balance may have fallen since the slash was filed.
Taken(id) == Lesser(pendingSlash[id].amount, stakedBalance[pendingSlash[id].actor])

FinalizeSlash(id) ==
    LET a == pendingSlash[id].actor
        c == pendingSlash[id].evidence
    IN  /\ InStatus(id, "Pending")
        /\ now >= pendingSlash[id].deadline
        /\ ByEvidence(id) => id \in revealed
        /\ pendingSlash' = [pendingSlash EXCEPT ![id].status = "Finalized"]
        /\ stakedBalance' = [stakedBalance EXCEPT ![a] = @ - Taken(id)]
        /\ slashedAmount' = [slashedAmount EXCEPT ![a] = @ + Taken(id)]
        /\ IF ByEvidence(id)
           THEN /\ slashCount' = [slashCount EXCEPT ![a] = @ + 1]
                /\ slashRecord' = [slashRecord EXCEPT ![c] = Taken(id)]
                /\ jailed' = jailed \cup {a}
           ELSE UNCHANGED <<slashCount, slashRecord, jailed>>
        /\ UNCHANGED <<now, slashSettings, revealed, unjailApproval, reportVars>>

\* A cancelled slash frees its commitment.
CancelSlash(id) ==
    /\ InStatus(id, "Pending")
    /\ pendingSlash' = [pendingSlash EXCEPT ![id].status = "Cancelled"]
    /\ slashRecord' = [c \in Commitments |->
            IF c = pendingSlash[id].evidence THEN None ELSE slashRecord[c]]
    /\ revealed' = revealed \ {id}
    /\ UNCHANGED <<now, slashSettings, tollVars, jailVars, reportVars>>

-----------------------------------------------------------------------------
ApproveUnjail(a) ==
    /\ ~slashPaused
    /\ a \in jailed
    /\ unjailApproval' = unjailApproval \cup {a}
    /\ UNCHANGED <<now, slashSettings, verdictVars, tollVars, jailed, reportVars>>

ApprovalUsed(a) == unjailApproval \ {a}

Unjail(a) ==
    /\ ~slashPaused
    /\ a \in jailed /\ a \in unjailApproval
    /\ unjailApproval' = ApprovalUsed(a)
    /\ jailed' = jailed \ {a}
    /\ UNCHANGED <<now, slashSettings, verdictVars, tollVars, reportVars>>

-----------------------------------------------------------------------------
SetSubmitter(s, enabled) ==
    /\ ~slashPaused
    /\ submitters' = IF enabled THEN submitters \cup {s} ELSE submitters \ {s}
    /\ UNCHANGED <<now, tierBps, maxSlashBps, challengeWindow, slashPaused,
                   verdictVars, tollVars, jailVars, reportVars>>

ConfigureTiers(tiers, max) ==
    /\ tierBps' = tiers /\ maxSlashBps' = max
    /\ UNCHANGED <<now, submitters, challengeWindow, slashPaused,
                   verdictVars, tollVars, jailVars, reportVars>>

SetChallengeWindow(window) ==
    /\ challengeWindow' = window
    /\ UNCHANGED <<now, submitters, tierBps, maxSlashBps, slashPaused,
                   verdictVars, tollVars, jailVars, reportVars>>

SetSlashPaused(paused) ==
    /\ slashPaused' = paused
    /\ UNCHANGED <<now, submitters, tierBps, maxSlashBps, challengeWindow,
                   verdictVars, tollVars, jailVars, reportVars>>

SetStakedBalance(a, balance) ==
    /\ ~slashPaused
    /\ stakedBalance' = [stakedBalance EXCEPT ![a] = balance]
    /\ UNCHANGED <<now, slashSettings, verdictVars, slashedAmount, slashCount, jailVars, reportVars>>

SetBondContract ==
    /\ ~slashPaused
    /\ bondNamed' = TRUE
    /\ UNCHANGED <<now, slashSettings, verdictVars, tollVars, jailVars, slashHistory>>

\* slash, called by the bond contract: the rest of its invocation is there.
Slash(inspector, amount) ==
    /\ ~slashPaused
    /\ bondNamed
    /\ amount > 0
    /\ Len(slashHistory[inspector]) < MaxReports
    /\ slashHistory' = [slashHistory EXCEPT ![inspector] = Append(@, amount)]
    /\ UNCHANGED <<slashSettings, verdictVars, tollVars, jailVars, bondNamed>>

SlashingTick == Tick /\ UNCHANGED slashingVars

SlashingNext ==
    \/ SlashingTick
    \/ SetBondContract
    \/ \E paused \in BOOLEAN : SetSlashPaused(paused)
    \/ \E s \in Reporters, enabled \in BOOLEAN : SetSubmitter(s, enabled)
    \/ \E tiers \in [Offences -> Tiers], max \in Tiers : ConfigureTiers(tiers, max)
    \/ \E window \in Windows : SetChallengeWindow(window)
    \/ \E a \in Actors :
        \/ ApproveUnjail(a) \/ Unjail(a)
        \/ \E balance \in Balances : SetStakedBalance(a, balance)
    \/ \E id \in SlashIds :
        \/ RevealEvidence(id) \/ FinalizeSlash(id) \/ CancelSlash(id)
        \/ \E a \in Actors, bps \in Tiers : ProposeSlash(id, a, bps)
        \/ \E c \in Commitments, a \in Actors, o \in Offences : SubmitEvidence(id, c, a, o)

SlashingSpec == now = 0 /\ SlashingInit /\ [][SlashingNext]_<<now, slashingVars>>

-----------------------------------------------------------------------------
\* Balances never fall below zero, ids are handed out in order, and nobody who is
\* free holds an approval that would end the next jailing in advance.
SlashingTypeOK ==
    /\ submitters \subseteq Reporters /\ slashPaused \in BOOLEAN /\ bondNamed \in BOOLEAN
    /\ tierBps \in [Offences -> Nat] /\ {maxSlashBps, challengeWindow} \subseteq Nat
    /\ stakedBalance \in [Actors -> Nat] /\ slashedAmount \in [Actors -> Nat]
    /\ slashCount \in [Actors -> Nat]
    /\ pendingSlash \in [SlashIds -> Slashes \cup {None}]
    /\ \A id \in SlashIds : Filed(id) => \A j \in 1..id : Filed(j)
    /\ slashRecord \in [Commitments -> Nat \cup {None}]
    /\ revealed \subseteq {id \in SlashIds : Filed(id)}
    /\ unjailApproval \subseteq jailed /\ jailed \subseteq Actors
    /\ slashHistory \in [Inspectors -> Seq(Nat)]

AmountOf(id) == IF Filed(id) THEN pendingSlash[id].amount ELSE 0

FinalSlashes(a) == {id \in SlashIds : InStatus(id, "Finalized") /\ pendingSlash[id].actor = a}

\* Those proven by evidence; those that stand on a piece of evidence.
Proven(a) == {id \in FinalSlashes(a) : ByEvidence(id)}

Standing(c) == {id \in SlashIds : Filed(id) /\ pendingSlash[id].evidence = c
                                  /\ ~InStatus(id, "Cancelled")}

\* Whatever the order of filing, revealing, cancelling and finalising: a piece of
\* evidence stands behind at most one slash that is not cancelled, and is known
\* exactly as long as it does; a final slash had its window and its revelation;
\* the totals, counts and the jail follow from the final slashes.
SlashesJustified ==
    /\ \A c \in Commitments :
        Cardinality(Standing(c)) = IF slashRecord[c] = None THEN 0 ELSE 1
    /\ \A id \in SlashIds : InStatus(id, "Finalized") =>
        /\ now >= pendingSlash[id].deadline
        /\ ByEvidence(id) =>
            /\ id \in revealed
            /\ slashRecord[pendingSlash[id].evidence] <= pendingSlash[id].amount
    /\ \A a \in Actors :
        /\ slashCount[a] = Cardinality(Proven(a))
        /\ a \in jailed => Proven(a) # {}
        /\ slashedAmount[a] <= SumFunctionOnSet([id \in SlashIds |-> AmountOf(id)], FinalSlashes(a))
=============================================================================
