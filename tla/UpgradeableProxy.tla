-------------------------- MODULE UpgradeableProxy --------------------------
(***************************************************************************)
(* The upgradeable_proxy contract: an upgrade the admin proposes and a     *)
(* second approver confirms by naming the same code.                       *)
(* Left out: events, and the store of values anybody may set.              *)
(***************************************************************************)
EXTENDS Parties

CONSTANTS
    ProxyApprover,  \* the second approver init stores
    ProxyCodes,     \* wasm hashes
    MaxVersion      \* bound on the version counter

ASSUME ProxyAssumption == MaxVersion \in Nat \ {0}

VARIABLES
    proxyAdmin, proxyPending, proxyVersion, proxyCode

proxyVars == <<proxyAdmin, proxyPending, proxyVersion, proxyCode>>

ProxyInit ==
    /\ proxyAdmin = Admin /\ proxyPending = None /\ proxyVersion = 1
    /\ proxyCode = None

-----------------------------------------------------------------------------
\* Replaces a proposal that is pending.
ProposeProxyUpgrade(by, code) ==
    /\ by = proxyAdmin
    /\ proxyPending' = code
    /\ UNCHANGED <<proxyAdmin, proxyVersion, proxyCode>>

\* Whoever is admin by then.  Bound: MaxVersion.
ConfirmProxyUpgrade(by, code) ==
    /\ by = ProxyApprover
    /\ proxyPending # None /\ proxyPending = code
    /\ proxyVersion < MaxVersion
    /\ proxyPending' = None
    /\ proxyVersion' = proxyVersion + 1
    /\ proxyCode' = code
    /\ UNCHANGED proxyAdmin

CancelProxyUpgrade(by) ==
    /\ by = proxyAdmin
    /\ proxyPending' = None
    /\ UNCHANGED <<proxyAdmin, proxyVersion, proxyCode>>

TransferProxyAdmin(by, a) ==
    /\ by = proxyAdmin
    /\ proxyAdmin' = a
    /\ UNCHANGED <<proxyPending, proxyVersion, proxyCode>>

ProxyNext ==
    /\ \E by \in Callers \cup {ProxyApprover} :
         \/ \E code \in ProxyCodes : ProposeProxyUpgrade(by, code) \/ ConfirmProxyUpgrade(by, code)
         \/ CancelProxyUpgrade(by)
         \/ \E a \in Callers : TransferProxyAdmin(by, a)
    /\ UNCHANGED now

ProxySpec == now = 0 /\ ProxyInit /\ [][ProxyNext]_<<now, proxyVars>>

-----------------------------------------------------------------------------
\* Entries have the types the getters read.
ProxyTypeOK ==
    /\ proxyAdmin \in Callers /\ proxyPending \in ProxyCodes \cup {None}
    /\ proxyVersion \in 1..MaxVersion /\ proxyCode \in ProxyCodes \cup {None}
=============================================================================
