-------------------------- MODULE VestingSchedule --------------------------
(***************************************************************************)
(* The vesting_schedule contract: a schedule per beneficiary, which vests  *)
(* linearly and is claimable from its cliff on, until it is revoked.  The  *)
(* contract keeps accounts only: it moves no tokens, and its reentrancy    *)
(* guard, taken when the work is done, is never found taken.               *)
(* Left out: events.                                                       *)
(***************************************************************************)
EXTENDS Parties

VARIABLES
    vestAdmin, vestPaused,
    vesting,        \* VestingSchedule by beneficiary
    released        \* history: by beneficiary, what claim and revoke reported

vestVars == <<vestAdmin, vestPaused, vesting, released>>

Times == 0..MaxTime

VestingSchedules == [total : Amounts, claimed : Nat, start : Times, end : Times, cliff : Times,
                     revocable : BOOLEAN, revoked : BOOLEAN]

ASSUME VestingAssumption == None \notin VestingSchedules

VestInit ==
    /\ vestAdmin = Admin /\ vestPaused = FALSE
    /\ vesting = [b \in Parties |-> None]
    /\ released = [b \in Parties |-> 0]

-----------------------------------------------------------------------------
\* calculate_vested_amount
Vested(s, t) ==
    IF t < s.start THEN 0
    ELSE IF t >= s.end THEN s.total
    ELSE ((t - s.start) * s.total) \div (s.end - s.start)

\* calculate_claimable_amount
Claimable(s, t) == IF t < s.cliff THEN 0 ELSE Vested(s, t) - s.claimed

\* Also while paused, and with times in the past.
CreateVestingSchedule(by, b, total, start, end, cliff, revocable) ==
    /\ by = vestAdmin
    /\ start < end /\ cliff \in start..end
    /\ vesting[b] = None
    /\ vesting' = [vesting EXCEPT ![b] =
          [total |-> total, claimed |-> 0, start |-> start, end |-> end, cliff |-> cliff,
           revocable |-> revocable, revoked |-> FALSE]]
    /\ UNCHANGED <<vestAdmin, vestPaused, released>>

ClaimVested(b) ==
    /\ ~vestPaused
    /\ vesting[b] # None /\ ~vesting[b].revoked
    /\ Claimable(vesting[b], now) > 0
    /\ vesting' = [vesting EXCEPT ![b].claimed = @ + Claimable(vesting[b], now)]
    /\ released' = [released EXCEPT ![b] = @ + Claimable(vesting[b], now)]
    /\ UNCHANGED <<vestAdmin, vestPaused>>

\* What is vested and was not claimed in time goes back to the admin as well.
RevokeVesting(by, b) ==
    /\ by = vestAdmin
    /\ vesting[b] # None /\ vesting[b].revocable /\ ~vesting[b].revoked
    /\ vesting' = [vesting EXCEPT ![b].revoked = TRUE]
    /\ released' = [released EXCEPT ![b] = @ + vesting[b].total - vesting[b].claimed]
    /\ UNCHANGED <<vestAdmin, vestPaused>>

SetVestAdmin(by, a) ==
    /\ by = vestAdmin
    /\ vestAdmin' = a
    /\ UNCHANGED <<vestPaused, vesting, released>>

SetVestPaused(by, flag) ==
    /\ by = vestAdmin
    /\ vestPaused' = flag
    /\ UNCHANGED <<vestAdmin, vesting, released>>

VestNext ==
    \/ Tick /\ UNCHANGED vestVars
    \/ /\ \/ \E b \in Parties : ClaimVested(b)
          \/ \E by \in Callers :
               \/ \E b \in Parties :
                    \/ \E total \in Amounts, start, end, cliff \in Times, revocable \in BOOLEAN :
                         CreateVestingSchedule(by, b, total, start, end, cliff, revocable)
                    \/ RevokeVesting(by, b)
               \/ \E a \in Callers : SetVestAdmin(by, a)
               \/ \E flag \in BOOLEAN : SetVestPaused(by, flag)
       /\ UNCHANGED now

VestSpec == now = 0 /\ VestInit /\ [][VestNext]_<<now, vestVars>>

-----------------------------------------------------------------------------
\* Entries have the types the getters read.
VestTypeOK ==
    /\ vestAdmin \in Callers /\ vestPaused \in BOOLEAN
    /\ \A b \in Parties : vesting[b] \in VestingSchedules \cup {None} /\ released[b] \in Nat

\* Whenever claims come, at the cliff, between two roundings, after the end or
\* around a pause, a beneficiary never has more than what is vested, nor
\* anything before the cliff, and with what a revocation gives back the total
\* is released once.
VestingKept ==
    \A b \in Parties : vesting[b] # None => LET s == vesting[b] IN
        /\ s.claimed <= Vested(s, now)
        /\ now < s.cliff => s.claimed = 0
        /\ released[b] = IF s.revoked THEN s.total ELSE s.claimed
=============================================================================
