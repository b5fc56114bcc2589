--------------------------- MODULE ContractAccess ---------------------------
(***************************************************************************)
(* The contract_access contract: roles that the admin proposes and a       *)
(* second approver confirms, and permissions delegated to one address at a *)
(* time.                                                                   *)
(* Left out: events.                                                       *)
(***************************************************************************)
EXTENDS Parties

CONSTANTS
    SecondApprover, \* the approver init stores
    Permissions,    \* the permissions callers delegate and use
    RolesGiven      \* the roles the admin proposes

Roles == {"Admin", "Operator", "User", "Auditor"}

ASSUME AccessAssumption == RolesGiven \subseteq Roles

Funds   == {"CreditFunds", "DebitFunds", "TransferFunds"}
Staking == {"Stake", "Unstake"}

\* permission_matrix, its Admin row being every permission.
Matrix(role) ==
    CASE role = "Admin"    -> Permissions
      [] role = "Operator" -> Funds \cup Staking \cup {"ReadBalance", "ReadAuditLog"}
      [] role = "User"     -> Staking \cup {"ReadBalance"}
      [] role = "Auditor"  -> {"ReadBalance", "ReadAuditLog"}

VARIABLES
    roleOf,         \* Roles
    roleProposal,   \* Proposals by subject: a role, or "revoke" for u32::MAX
    delegated       \* Delegations by delegatee

accessVars == <<roleOf, roleProposal, delegated>>

AccessInit ==
    /\ roleOf = [a \in Callers |-> IF a = Admin THEN "Admin" ELSE None]
    /\ roleProposal = [a \in Callers |-> None]
    /\ delegated = [a \in Callers |-> None]

-----------------------------------------------------------------------------
\* has_permission_internal, has_delegation and has_permission.
RoleGrants(a, p) == roleOf[a] # None /\ p \in Matrix(roleOf[a])

HasDelegationAsGiven(a, p) == delegated[a] # None /\ delegated[a].permission = p
HasDelegation(a, p) ==
    delegated[a] # None /\ delegated[a].permission = p /\ RoleGrants(delegated[a].delegator, p)

HasPermission(a, p) == RoleGrants(a, p) \/ HasDelegation(a, p)

ProposeAssignRole(by, subject, role) ==
    /\ by = Admin
    /\ roleProposal' = [roleProposal EXCEPT ![subject] = role]
    /\ UNCHANGED <<roleOf, delegated>>

\* A proposed revocation, too, is confirmed here: as the role Auditor.
ConfirmAssignRole(by, subject) ==
    /\ by = SecondApprover
    /\ roleProposal[subject] # None
    /\ roleOf' = [roleOf EXCEPT ![subject] =
          IF roleProposal[subject] = "revoke" THEN "Auditor" ELSE roleProposal[subject]]
    /\ roleProposal' = [roleProposal EXCEPT ![subject] = None]
    /\ UNCHANGED delegated

AdminCount == Cardinality({a \in Callers : roleOf[a] = "Admin"})

\* The admins are counted now, and not again when it is confirmed.
ProposeRevokeRole(by, subject) ==
    /\ by = Admin
    /\ roleOf[subject] = "Admin" => AdminCount > 1
    /\ roleProposal' = [roleProposal EXCEPT ![subject] = "revoke"]
    /\ UNCHANGED <<roleOf, delegated>>

ConfirmRevokeRole(by, subject) ==
    /\ by = SecondApprover
    /\ roleProposal[subject] = "revoke"
    /\ roleOf' = [roleOf EXCEPT ![subject] = None]
    /\ roleProposal' = [roleProposal EXCEPT ![subject] = None]
    /\ UNCHANGED delegated

\* Also of a permission the delegator has by delegation only.
DelegatePermission(by, delegatee, p) ==
    /\ HasPermission(by, p)
    /\ delegated' = [delegated EXCEPT ![delegatee] = [delegator |-> by, permission |-> p]]
    /\ UNCHANGED <<roleOf, roleProposal>>

RevokeDelegation(by, delegatee) ==
    /\ delegated[delegatee] # None
    /\ by = Admin \/ by = delegated[delegatee].delegator
    /\ delegated' = [delegated EXCEPT ![delegatee] = None]
    /\ UNCHANGED <<roleOf, roleProposal>>

AccessNext ==
    /\ \E by \in Callers \cup {SecondApprover}, a \in Callers :
         \/ ProposeRevokeRole(by, a) \/ ConfirmRevokeRole(by, a)
         \/ \E role \in RolesGiven : ProposeAssignRole(by, a, role)
         \/ ConfirmAssignRole(by, a)
         \/ RevokeDelegation(by, a)
         \/ by \in Callers /\ \E p \in Permissions : DelegatePermission(by, a, p)
    /\ UNCHANGED now

AccessSpec == now = 0 /\ AccessInit /\ [][AccessNext]_<<now, accessVars>>

-----------------------------------------------------------------------------
\* Entries have the types the getters read.
AccessTypeOK ==
    /\ roleOf \in [Callers -> Roles \cup {None}]
    /\ roleProposal \in [Callers -> Roles \cup {"revoke", None}]
    /\ delegated \in [Callers -> [delegator : Callers, permission : Permissions] \cup {None}]

\* A role change reaches everybody who had a permission through it: whoever
\* gains a permission by it is the subject or was delegated it by the subject,
\* and once the subject has lost it, nobody has it by the subject's delegation,
\* along no chain of delegations.
RevocationReaches ==
    [][\A s \in Callers : roleOf'[s] # roleOf[s] => \A p \in Permissions, a \in Callers :
         /\ HasPermission(a, p)' /\ ~HasPermission(a, p) =>
              a = s \/ (delegated[a] # None /\ delegated[a].delegator = s)
         /\ ~RoleGrants(s, p)' /\ delegated[a] # None /\ delegated[a].delegator = s =>
              (HasPermission(a, p)' => RoleGrants(a, p)')]_accessVars

\* "Prevents revoking the last Admin": a revocation that is confirmed as one leaves
\* an admin.
LastAdminNotRevoked ==
    [][\A s \in Callers :
        ConfirmRevokeRole(SecondApprover, s) /\ roleOf[s] = "Admin" => AdminCount' > 0]_accessVars
=============================================================================
