----------------------------- MODULE RentToOwn -----------------------------
(***************************************************************************)
(* The rent_to_own contract: deals whose tenant accumulates equity by      *)
(* payments, until the deal is completed, or defaults and is settled; the  *)
(* tenant's position may be transferred.  The contract keeps accounts      *)
(* only.  Its upgrade entry points are modelled in UpgradeGovernance.      *)
(* Left out: events, and monthly_equity_usdc, which nothing reads.         *)
(***************************************************************************)
EXTENDS Parties

CONSTANTS
    RtoDeals,       \* deal ids
    Values,         \* property values
    Required,       \* numbers of payments required
    ForfeitureRates,\* forfeiture_bps values init is called with
    MaxPayments     \* bound on the payments of a deal

\* payments stands for the Payment entries 1 .. payments_made.
RtoEntries == [tenant : Parties, value : Values, equity : Nat, required : Required,
               payments : Seq(Nat), status : {"Active", "Completed", "Defaulted"}]

Settlements == [refundable : Nat, forfeited : Nat, settled : BOOLEAN]

ASSUME RentToOwnAssumption ==
    /\ Values \subseteq Nat \ {0} /\ Required \subseteq Nat /\ MaxPayments \in Nat
    /\ ForfeitureRates \subseteq 0..FullBps
    /\ None \notin RtoEntries \cup Settlements

VARIABLES
    rtoPaused, forfeitureBps, rtoDeal, settlement,
    returned        \* history: by deal, what settle_default has declared owed

rtoVars == <<rtoPaused, forfeitureBps, rtoDeal, settlement, returned>>

RtoInit ==
    /\ rtoPaused = FALSE /\ forfeitureBps \in ForfeitureRates
    /\ rtoDeal = [d \in RtoDeals |-> None] /\ settlement = [d \in RtoDeals |-> None]
    /\ returned = [d \in RtoDeals |-> 0]

-----------------------------------------------------------------------------
\* Every entry point that changes a deal: by the admin, not while paused.
RtoGate(by) == Admin \in by /\ ~rtoPaused

RtoIn(d, status) == rtoDeal[d] # None /\ rtoDeal[d].status = status

RegisterDeal(by, d, tenant, value, required) ==
    /\ RtoGate(by)
    /\ rtoDeal[d] = None
    /\ rtoDeal' = [rtoDeal EXCEPT ![d] =
          [tenant |-> tenant, value |-> value, equity |-> 0, required |-> required,
           payments |-> <<>>, status |-> "Active"]]
    /\ UNCHANGED <<rtoPaused, forfeitureBps, settlement, returned>>

\* Nothing limits the payments to those required.  Bound: MaxPayments.
RecordEquityPayment(by, d, amount) ==
    /\ RtoGate(by)
    /\ RtoIn(d, "Active")
    /\ rtoDeal[d].equity + amount <= rtoDeal[d].value
    /\ Len(rtoDeal[d].payments) < MaxPayments
    /\ rtoDeal' = [rtoDeal EXCEPT ![d].equity = @ + amount,
                                  ![d].payments = Append(@, amount)]
    /\ UNCHANGED <<rtoPaused, forfeitureBps, settlement, returned>>

\* With one payment too many the deal cannot be completed any more.
CompleteRtoDeal(by, d) ==
    /\ RtoGate(by)
    /\ RtoIn(d, "Active")
    /\ Len(rtoDeal[d].payments) = rtoDeal[d].required
    /\ rtoDeal' = [rtoDeal EXCEPT ![d].status = "Completed"]
    /\ UNCHANGED <<rtoPaused, forfeitureBps, settlement, returned>>

\* equity_split: what is forfeited is rounded down, the tenant gets the rest.
EquitySplitTwice(equity) ==
    [refundable |-> (equity * (FullBps - forfeitureBps)) \div FullBps,
     forfeited |-> (equity * forfeitureBps) \div FullBps, settled |-> FALSE]
EquitySplit(equity) ==
    LET forfeited == (equity * forfeitureBps) \div FullBps
    IN  [refundable |-> equity - forfeited, forfeited |-> forfeited, settled |-> FALSE]

DefaultRtoDeal(by, d) ==
    /\ RtoGate(by)
    /\ RtoIn(d, "Active")
    /\ rtoDeal' = [rtoDeal EXCEPT ![d].status = "Defaulted"]
    /\ settlement' = [settlement EXCEPT ![d] = EquitySplit(rtoDeal[d].equity)]
    /\ UNCHANGED <<rtoPaused, forfeitureBps, returned>>

SettleDefault(by, d) ==
    /\ RtoGate(by)
    /\ RtoIn(d, "Defaulted")
    /\ settlement[d] # None /\ ~settlement[d].settled
    /\ settlement' = [settlement EXCEPT ![d].settled = TRUE]
    /\ returned' = [returned EXCEPT ![d] =
                      @ + settlement[d].refundable + settlement[d].forfeited]
    /\ UNCHANGED <<rtoPaused, forfeitureBps, rtoDeal>>

\* The admin and the tenant sign.
TransferPosition(by, from, to, d) ==
    /\ RtoGate(by) /\ from \in by
    /\ RtoIn(d, "Active") /\ rtoDeal[d].tenant = from /\ from # to
    /\ rtoDeal' = [rtoDeal EXCEPT ![d].tenant = to]
    /\ UNCHANGED <<rtoPaused, forfeitureBps, settlement, returned>>

SetRtoPaused(by, flag) ==
    /\ Admin \in by
    /\ rtoPaused' = flag
    /\ UNCHANGED <<forfeitureBps, rtoDeal, settlement, returned>>

RtoNext ==
    /\ \E by \in {{a, b} : a, b \in Callers} :
         \/ \E d \in RtoDeals :
              \/ \E tenant \in Parties, value \in Values, required \in Required :
                   RegisterDeal(by, d, tenant, value, required)
              \/ \E amount \in Amounts : RecordEquityPayment(by, d, amount)
              \/ CompleteRtoDeal(by, d) \/ DefaultRtoDeal(by, d) \/ SettleDefault(by, d)
              \/ \E from, to \in Parties : TransferPosition(by, from, to, d)
         \/ \E flag \in BOOLEAN : SetRtoPaused(by, flag)
    /\ UNCHANGED now

RtoSpec == now = 0 /\ RtoInit /\ [][RtoNext]_<<now, rtoVars>>

-----------------------------------------------------------------------------
\* Entries have the types the getters read.
RtoTypeOK ==
    /\ rtoPaused \in BOOLEAN /\ forfeitureBps \in ForfeitureRates
    /\ \A d \in RtoDeals :
         /\ rtoDeal[d] \in RtoEntries \cup {None}
         /\ settlement[d] \in Settlements \cup {None}
         /\ returned[d] \in Nat

\* Equity is what the payments came to, through transfers of the position, and
\* never exceeds the property's value; a default splits it without losing a
\* unit to rounding, and it is settled at most once.
EquityAccounted ==
    \A d \in RtoDeals : rtoDeal[d] # None =>
        LET deal == rtoDeal[d] IN
        /\ deal.equity = SumOver(deal.payments, DOMAIN deal.payments)
        /\ deal.equity <= deal.value
        /\ (settlement[d] # None) = (deal.status = "Defaulted")
        /\ settlement[d] # None =>
             /\ settlement[d].refundable + settlement[d].forfeited = deal.equity
             /\ returned[d] = IF settlement[d].settled THEN deal.equity ELSE 0
=============================================================================
