------------------------- MODULE AllowlistRegistry -------------------------
(***************************************************************************)
(* The allowlist_registry contract: entries with an expiry time.           *)
(* Left out: events and labels.                                            *)
(***************************************************************************)
EXTENDS Parties

\* 0 means no expiry.
Expiries == 0..MaxTime

VARIABLE registry   \* Registry, by address

AllowInit == registry = [a \in Parties |-> None]

-----------------------------------------------------------------------------
Expired(entry) == entry # 0 /\ entry <= now

\* Replaces an entry the address has.
AddEntry(by, a, expiry) ==
    /\ by = Admin
    /\ ~Expired(expiry)
    /\ registry' = [registry EXCEPT ![a] = expiry]

RemoveEntry(by, a) ==
    /\ by = Admin
    /\ registry[a] # None
    /\ registry' = [registry EXCEPT ![a] = None]

\* entries: a list of addresses with expiries, of which the last one of an
\* address counts that has not expired.
BulkAdd(by, entries) ==
    /\ by = Admin
    /\ registry' = [a \in Parties |->
          LET valid == {i \in DOMAIN entries : entries[i][1] = a /\ ~Expired(entries[i][2])}
          IN  IF valid = {} THEN registry[a]
              ELSE entries[CHOOSE i \in valid : \A j \in valid : j <= i][2]]

AllowNext ==
    \/ Tick /\ UNCHANGED registry
    \/ /\ \E by \in Callers :
            \/ \E a \in Parties : \/ \E expiry \in Expiries : AddEntry(by, a, expiry)
                                  \/ RemoveEntry(by, a)
            \/ \E entries \in [1..2 -> Parties \X Expiries] : BulkAdd(by, entries)
       /\ UNCHANGED now

AllowSpec == now = 0 /\ AllowInit /\ [][AllowNext]_<<now, registry>>

-----------------------------------------------------------------------------
\* Entries have the types the getters read.
AllowTypeOK == registry \in [Parties -> Expiries \cup {None}]
=============================================================================
