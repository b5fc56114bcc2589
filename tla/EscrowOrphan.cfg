\* What settle_release_inner takes for granted about the lock.
SPECIFICATION Spec
CONSTANTS
    d1 = d1  d2 = d2  tenant = tenant  landlord = landlord  admin = admin
    Deals <- MCOneDeal
    Users <- MCUsers
    Admin = admin
    Operator = landlord
    Escrow = escrow
    None = None
    Amounts = {1}
    Windows = {1}
    Hashes = {}
    Supply = 1
    StartSchemas = {3}
    LegacyAmounts = {0}
    Managed = {}
    MaxTime = 2
INVARIANTS PendingReleaseBacked
CHECK_DEADLOCK FALSE
