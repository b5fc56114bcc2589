\* One deal: the rent-release protocol and the circuit breaker, with windows and delays of several lengths.
\* One of the users also holds both roles, so that fewer callers are told apart.
SPECIFICATION FairSpec
CONSTANTS
    d1 = d1  d2 = d2  tenant = tenant  landlord = landlord  admin = admin
    Deals <- MCOneDeal
    Users <- MCUsers
    Admin = landlord
    Operator = landlord
    Escrow = escrow
    None = None
    Amounts = {1}
    Windows = {1, 2}
    Hashes = {h1}
    Supply = 1
    StartSchemas = {3}
    LegacyAmounts = {0}
    Managed = {}
    MaxTime = 2
INVARIANTS TypeOK RentEntriesAgree
PROPERTIES RentReleaseCloses FrozenPaysOnlyRent ThawWaits ReleaseCloses
CHECK_DEADLOCK FALSE
