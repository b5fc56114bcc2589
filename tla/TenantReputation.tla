-------------------------- MODULE TenantReputation --------------------------
(***************************************************************************)
(* The tenant_reputation contract: a score per tenant, clamped when it is  *)
(* written and decayed when it is read.                                    *)
(* Left out: events, the component scores, which nothing reads, and the    *)
(* cut of the period count to 32 bits.                                     *)
(***************************************************************************)
EXTENDS Parties

CONSTANTS
    RepOperator,    \* the operator init stores
    Scores,         \* scores and bounds callers pass
    DecayRates, DecayPeriods

Reputations == [score : Scores, updated : Nat]

ASSUME ReputationAssumption ==
    Scores \cup DecayRates \cup DecayPeriods \subseteq Nat

VARIABLES
    repPaused, reputation, decay, bounds    \* decay: rate and period; bounds: min and max

repVars == <<repPaused, reputation, decay, bounds>>

RepInit ==
    /\ repPaused = FALSE
    /\ reputation = [t \in Parties |-> None]
    /\ decay = [rate |-> 0, period |-> 1]
    /\ bounds \in [min : {0}, max : Scores]

-----------------------------------------------------------------------------
\* clamp_score: above all, not more than the maximum.
Clamped(score) == AtMost(IF score > bounds.min THEN score ELSE bounds.min, bounds.max)

Periods(rec) == IF decay.period = 0 THEN 0 ELSE (now - rec.updated) \div decay.period

LessWrapping(score, loss) == IF score >= loss THEN score - loss ELSE 2^16 + score - loss
\* saturating_sub
Less(score, loss) == IF score > loss THEN score - loss ELSE 0

\* compute_decayed_score; the maximum does not apply to a read.
DecayedScore(rec) ==
    LET rest == Less(rec.score, Periods(rec) * decay.rate)
    IN  IF decay.rate = 0 \/ Periods(rec) = 0 THEN rec.score
        ELSE IF rest > bounds.min THEN rest ELSE bounds.min

UpdateReputation(by, t, score) ==
    /\ ~repPaused
    /\ by = Admin \/ by = RepOperator
    /\ reputation' = [reputation EXCEPT ![t] = [score |-> Clamped(score), updated |-> now]]
    /\ UNCHANGED <<repPaused, decay, bounds>>

RevokeReputation(by, t) ==
    /\ by = Admin
    /\ reputation' = [reputation EXCEPT ![t] = None]
    /\ UNCHANGED <<repPaused, decay, bounds>>

SetDecayConfig(by, rate, period) ==
    /\ by = Admin
    /\ decay' = [rate |-> rate, period |-> period]
    /\ UNCHANGED <<repPaused, reputation, bounds>>

\* Any two scores; those stored keep their value.
SetScoreBounds(by, min, max) ==
    /\ by = Admin
    /\ bounds' = [min |-> min, max |-> max]
    /\ UNCHANGED <<repPaused, reputation, decay>>

SetRepPaused(by, flag) ==
    /\ by = Admin
    /\ repPaused' = flag
    /\ UNCHANGED <<reputation, decay, bounds>>

RepNext ==
    \/ Tick /\ UNCHANGED repVars
    \/ /\ \E by \in Callers \cup {RepOperator} :
            \/ \E t \in Parties : \/ \E score \in Scores : UpdateReputation(by, t, score)
                                  \/ RevokeReputation(by, t)
            \/ \E rate \in DecayRates, period \in DecayPeriods : SetDecayConfig(by, rate, period)
            \/ \E min, max \in Scores : SetScoreBounds(by, min, max)
            \/ \E flag \in BOOLEAN : SetRepPaused(by, flag)
       /\ UNCHANGED now

RepSpec == now = 0 /\ RepInit /\ [][RepNext]_<<now, repVars>>

-----------------------------------------------------------------------------
\* Entries have the types the getters read.
RepTypeOK ==
    /\ repPaused \in BOOLEAN
    /\ \A t \in Parties : reputation[t] \in Reputations \cup {None}
    /\ decay \in [rate : DecayRates \cup {0}, period : DecayPeriods \cup {1}]
    /\ bounds \in [min : Scores \cup {0}, max : Scores]

\* Reading a score decays it lazily: as time passes the score read never rises,
\* and never falls below the floor, whatever the periods that elapsed unread;
\* unless the floor was raised above the score that is stored.
ScoresOnlyDecay ==
    [][now' > now => \A t \in Parties :
         LET rec == reputation[t] IN rec # None /\ rec.score >= bounds.min =>
            /\ DecayedScore(rec)' <= DecayedScore(rec)
            /\ DecayedScore(rec)' >= bounds.min]_<<now, repVars>>
=============================================================================
