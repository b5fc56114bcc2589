\* Two deals sharing one token account, on deployments that start on any schema.
\* One of the users also holds both roles, so that fewer callers are told apart.
SPECIFICATION Spec
CONSTANTS
    d1 = d1  d2 = d2  tenant = tenant  landlord = landlord  admin = admin
    Deals <- MCTwoDeals
    Users = {tenant}
    Admin = tenant
    Operator = tenant
    Escrow = escrow
    None = None
    Amounts = {1}
    Windows = {1}
    Hashes = {}
    Supply = 0
    StartSchemas = {1, 2}
    LegacyAmounts = {0, 1}
    Managed <- MCOneDeal
    MaxTime = 1
INVARIANTS BooksAgree
PROPERTIES ImplementsVault
CHECK_DEADLOCK FALSE
