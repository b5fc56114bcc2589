------------------------- MODULE MCStakeDelegation -------------------------
(* Instances of StakeDelegation for TLC. *)
EXTENDS StakeDelegation, TLC

CONSTANTS alice, bob, val1, val2, slasher

MCUsers       == {alice, bob}
MCDelegatees  == {val1, val2}
MCAuthorities == {slasher}

AddressSymmetry == Permutations(MCUsers) \cup Permutations(MCDelegatees)
=============================================================================
