---------------------------- MODULE MCDealEscrow ----------------------------
(* Instances of DealEscrow for TLC. *)
EXTENDS DealEscrow, TLC

CONSTANTS d1, d2, tenant, landlord, admin

MCOneDeal  == {d1}
MCTwoDeals == {d1, d2}
MCUsers    == {tenant, landlord}

DealSymmetry == Permutations(Deals)
=============================================================================
