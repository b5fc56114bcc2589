------------------------ MODULE TransactionReceipts ------------------------
(***************************************************************************)
(* The transaction-receipt-contract: receipts an operator records, one for *)
(* every external payment reference, with an index by deal and one by      *)
(* user.                                                                   *)
(* Left out: events, the fields of a receipt no entry point looks at, and  *)
(* the refusal of amounts that are not positive and of unknown types.      *)
(***************************************************************************)
EXTENDS Parties

CONSTANTS
    RawReferences,  \* pairs of a source and a reference as callers write them
    Canonical,      \* the canonical reference of each; None when it is refused
    RecordDeals     \* deal ids

\* A tx_id is the hash of the canonical reference.
TxIds == {Canonical[raw] : raw \in RawReferences} \ {None}

Records == [deal : RecordDeals, from : Parties \cup {None}, to : Parties \cup {None},
            timestamp : Nat]

ASSUME ReceiptsAssumption == DOMAIN Canonical = RawReferences /\ None \notin Records

VARIABLES
    recordOperator, recordsPaused,
    recorded,       \* Receipt by tx_id
    dealIndex,      \* DealIndex by deal, DealCount being its length
    userIndex       \* UserIndex by user, UserCount being its length

recordVars == <<recordOperator, recordsPaused, recorded, dealIndex, userIndex>>

RecordsInit ==
    /\ recordOperator \in Callers /\ recordsPaused = FALSE
    /\ recorded = [id \in TxIds |-> None]
    /\ dealIndex = [d \in RecordDeals |-> <<>>]
    /\ userIndex = [u \in Parties |-> <<>>]

-----------------------------------------------------------------------------
Accepted(raw) == Canonical[raw] # None

Fresh(id, d) == recorded[id] = None

\* One entry for each role; a user who pays himself has two.
UserIndexAfter(id, from, to) ==
    [u \in Parties |-> userIndex[u] \o (IF u = from THEN <<id>> ELSE <<>>)
                                    \o (IF u = to THEN <<id>> ELSE <<>>)]

\* metadata: what the hash passed is, if there is one.
RecordReceipt(by, raw, d, from, to, metadata) ==
    /\ by = recordOperator
    /\ ~recordsPaused
    /\ Accepted(raw)
    /\ metadata # "mismatch"
    /\ LET id == Canonical[raw] IN
       /\ Fresh(id, d)
       /\ recorded' = [recorded EXCEPT ![id] =
                         [deal |-> d, from |-> from, to |-> to, timestamp |-> now]]
       /\ dealIndex' = [dealIndex EXCEPT ![d] = Append(@, id)]
       /\ userIndex' = UserIndexAfter(id, from, to)
    /\ UNCHANGED <<recordOperator, recordsPaused>>

SetRecordOperator(by, a) ==
    /\ by = Admin
    /\ recordOperator' = a
    /\ UNCHANGED <<recordsPaused, recorded, dealIndex, userIndex>>

\* require_admin compares the address that is passed; nobody has to sign.
SetRecordsPaused(named, flag) ==
    /\ named = Admin
    /\ recordsPaused' = flag
    /\ UNCHANGED <<recordOperator, recorded, dealIndex, userIndex>>

RecordsNext ==
    \/ Tick /\ UNCHANGED recordVars
    \/ /\ \E by \in Callers :
            \/ \E raw \in RawReferences, d \in RecordDeals,
                  from, to \in Parties \cup {None}, metadata \in {"none", "match", "mismatch"} :
                    RecordReceipt(by, raw, d, from, to, metadata)
            \/ \E a \in Callers : SetRecordOperator(by, a)
            \/ \E flag \in BOOLEAN : SetRecordsPaused(by, flag)
       /\ UNCHANGED now

RecordsSpec == now = 0 /\ RecordsInit /\ [][RecordsNext]_<<now, recordVars>>

-----------------------------------------------------------------------------
\* Entries have the types the getters read.
RecordsTypeOK ==
    /\ recordOperator \in Callers /\ recordsPaused \in BOOLEAN
    /\ \A id \in TxIds : recorded[id] \in Records \cup {None}
    /\ \A d \in RecordDeals : dealIndex[d] \in Seq(TxIds)
    /\ \A u \in Parties : userIndex[u] \in Seq(TxIds)

\* However a payment's reference is written, and for whichever deal it is
\* submitted again, it is listed once, under the deal its receipt names and
\* under the users its receipt names; lists are in the order of recording.
IndexesAgree ==
    /\ \A d \in RecordDeals :
         /\ Range(dealIndex[d]) = {id \in TxIds : recorded[id] # None /\ recorded[id].deal = d}
         /\ \A i, j \in DOMAIN dealIndex[d] : i < j =>
              /\ dealIndex[d][i] # dealIndex[d][j]
              /\ recorded[dealIndex[d][i]].timestamp <= recorded[dealIndex[d][j]].timestamp
    /\ \A u \in Parties :
         Range(userIndex[u]) = {id \in TxIds :
            recorded[id] # None /\ u \in {recorded[id].from, recorded[id].to}}
=============================================================================
