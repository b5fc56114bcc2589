-------------------------- MODULE OraclePriceFeeds --------------------------
(***************************************************************************)
(* The oracle_price_feeds contract, for one pair: a feed that the admin    *)
(* and the operator update while no source is registered, and the median   *)
(* of fresh reports once sources are.                                      *)
(* get_twap is left out: no entry point writes the observations it reads.  *)
(* Left out too: events, and the overflow of the deviation.                *)
(***************************************************************************)
EXTENDS Parties

CONSTANTS
    OracleOperator, \* the operator init stores
    Prices,         \* what callers report, unchecked
    Thresholds,     \* staleness thresholds
    Deviations,     \* max_deviation_bps values
    Quorums,
    MaxSequence,    \* bound on the sequence numbers of updates
    MaxReporters    \* bound on the addresses that report

Reporters == Callers \cup {OracleOperator}

Reports == [price : Prices, at : Nat, seq : 1..MaxSequence]

ASSUME OracleAssumption ==
    /\ Prices \subseteq Int /\ None \notin Int /\ Thresholds \cup Deviations \cup Quorums \subseteq Nat
    /\ MaxSequence \in Nat /\ MaxReporters \in Nat

VARIABLES
    sources,        \* Sources
    priceQuorum, staleAfter, maxDeviation,
    report,         \* SourceData by caller, kept when a source is removed
    feed            \* Feed and Sequence, written while there are no sources

oracleTerms == <<sources, priceQuorum, staleAfter, maxDeviation>>
oracleVars  == <<oracleTerms, report, feed>>

OracleInit ==
    /\ sources = {} /\ priceQuorum = 1
    /\ staleAfter \in Thresholds /\ maxDeviation \in Deviations
    /\ report = [r \in Reporters |-> None] /\ feed = None

-----------------------------------------------------------------------------
MayReport(by) ==
    IF sources = {} THEN by = Admin \/ by = OracleOperator ELSE by \in sources

\* A caller's own sequence rises, and without sources the feed's as well.
NextInLineOfCaller(by, seq) == report[by] # None => seq > report[by].seq
NextInLine(by, seq) ==
    /\ report[by] # None => seq > report[by].seq
    /\ sources = {} /\ feed # None => seq > feed.seq

Apart(p, q) == IF p > q THEN p - q ELSE q - p

\* The bound applies to the caller's own last price; to the feed's only if the
\* caller has none.  After a price of 0 every price is accepted.
WithinDeviation(by, price) ==
    LET last == IF report[by] # None THEN report[by].price
                ELSE IF sources = {} /\ feed # None THEN feed.price ELSE price
    IN  last # 0 => (Apart(price, last) * FullBps) \div Apart(last, 0) <= maxDeviation

\* Bounds: MaxSequence, MaxReporters.
UpdatePrice(by, price, seq) ==
    /\ MayReport(by)
    /\ NextInLine(by, seq)
    /\ WithinDeviation(by, price)
    /\ Cardinality({r \in Reporters : report[r] # None} \cup {by}) <= MaxReporters
    /\ LET r == [price |-> price, at |-> now, seq |-> seq] IN
       /\ report' = [report EXCEPT ![by] = r]
       /\ feed' = IF sources = {} THEN r ELSE feed
    /\ UNCHANGED oracleTerms

AddSource(by, s) ==
    /\ by = Admin
    /\ sources' = sources \cup {s}
    /\ UNCHANGED <<priceQuorum, staleAfter, maxDeviation, report, feed>>

RemoveSource(by, s) ==
    /\ by = Admin
    /\ sources' = sources \ {s}
    /\ UNCHANGED <<priceQuorum, staleAfter, maxDeviation, report, feed>>

SetOracleQuorum(by, q) ==
    /\ by = Admin
    /\ priceQuorum' = q
    /\ UNCHANGED <<sources, staleAfter, maxDeviation, report, feed>>

SetStaleness(by, threshold) ==
    /\ by = Admin
    /\ staleAfter' = threshold
    /\ UNCHANGED <<sources, priceQuorum, maxDeviation, report, feed>>

SetMaxDeviation(by, bps) ==
    /\ by = Admin
    /\ maxDeviation' = bps
    /\ UNCHANGED <<sources, priceQuorum, staleAfter, report, feed>>

OracleNext ==
    \/ Tick /\ UNCHANGED oracleVars
    \/ /\ \E by \in Reporters :
            \/ \E price \in Prices, seq \in 1..MaxSequence : UpdatePrice(by, price, seq)
            \/ \E s \in Callers : AddSource(by, s) \/ RemoveSource(by, s)
            \/ \E q \in Quorums : SetOracleQuorum(by, q)
            \/ \E threshold \in Thresholds : SetStaleness(by, threshold)
            \/ \E bps \in Deviations : SetMaxDeviation(by, bps)
       /\ UNCHANGED now

OracleSpec == now = 0 /\ OracleInit /\ [][OracleNext]_<<now, oracleVars>>

-----------------------------------------------------------------------------
\* get_price: None where it panics.
FreshReport(r) == r # None /\ now - r.at <= staleAfter

FreshSources == {s \in sources : FreshReport(report[s])}

\* The prices of ss in ascending order, and the k-th of them.
KthPrice(ss, k) ==
    CHOOSE p \in Prices :
        /\ Cardinality({s \in ss : report[s].price < p}) < k
        /\ Cardinality({s \in ss : report[s].price <= p}) >= k

\* Towards 0, as integers are divided in Rust.
Halved(n) == IF n < 0 THEN -((-n) \div 2) ELSE n \div 2

Median(ss) ==
    LET n == Cardinality(ss) IN
    IF n % 2 = 1 THEN KthPrice(ss, n \div 2 + 1)
    ELSE Halved(KthPrice(ss, n \div 2) + KthPrice(ss, n \div 2 + 1))

\* With a quorum of 0 and no fresh report the median has nothing to index.
GetPrice ==
    IF sources = {}
    THEN IF FreshReport(feed) THEN feed.price ELSE None
    ELSE IF Cardinality(FreshSources) >= priceQuorum /\ FreshSources # {}
         THEN Median(FreshSources) ELSE None

\* is_stale
IsStale ==
    IF sources = {} THEN ~FreshReport(feed) ELSE Cardinality(FreshSources) < priceQuorum

-----------------------------------------------------------------------------
\* Entries have the types the getters read.
OracleTypeOK ==
    /\ sources \subseteq Callers /\ priceQuorum \in Quorums \cup {1}
    /\ staleAfter \in Thresholds /\ maxDeviation \in Deviations
    /\ \A r \in Reporters : report[r] \in Reports \cup {None}
    /\ feed \in Reports \cup {None}

\* The feed never goes back, whoever updates it and whatever sources came and
\* went meanwhile: an update has a later sequence number than the last, so an
\* update that arrives late is refused even from another caller.
FeedMovesForward ==
    [][feed # None /\ feed' # feed => feed'.seq > feed.seq /\ feed'.at >= feed.at]_oracleVars

\* A price is to be had exactly when is_stale denies it (with a quorum), and a
\* majority of sources that report honestly cannot be outvoted: if more than
\* half of the fresh reports agree on a price, that is the price.
PriceIsMajority ==
    /\ priceQuorum > 0 => (GetPrice = None) = IsStale
    /\ \A p \in Prices :
         /\ sources # {} /\ GetPrice # None
         /\ 2 * Cardinality({s \in FreshSources : report[s].price = p}) > Cardinality(FreshSources)
         => GetPrice = p
=============================================================================
