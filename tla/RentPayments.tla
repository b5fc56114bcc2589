---------------------------- MODULE RentPayments ----------------------------
(***************************************************************************)
(* The rent_payments contract: receipts appended per deal, one per payment *)
(* reference, and a client who pages through the receipts of a deal with   *)
(* cursors while new ones come in.                                         *)
(* Left out: events, payer and amount of a receipt, and the wrapping of    *)
(* the 64-bit counter.                                                     *)
(***************************************************************************)
EXTENDS Parties

CONSTANTS
    ReceiptDeals,   \* deal ids
    CounterDeal,    \* the deal id 2^64 - 1, whose count is the global counter
    References,     \* payment references
    Limits,         \* page sizes the client asks for
    MaxReceipts     \* bound on the receipts of all deals

CountedDeals == ReceiptDeals \cup {CounterDeal}

\* A tx_id is the timestamp, then the counter, in big-endian bytes.
Cursors == [timestamp : Nat, counter : Nat]

Receipts == [id : Nat, timestamp : Nat, counter : Nat, reference : References]

Readers == [deal : ReceiptDeals, cursor : Cursors \cup {None}, got : Seq(Receipts), done : BOOLEAN]

ASSUME PaymentsAssumption ==
    /\ Limits \subseteq 1..100 /\ MaxReceipts \in Nat
    /\ None \notin Cursors /\ None \notin Readers

VARIABLES
    payPaused,
    receipts,       \* Receipts by deal
    receiptCount,   \* ReceiptCount by deal
    usedReference,  \* UsedReference: pairs of deal and reference
    reader          \* the client: deal, cursor, the receipts got so far, is it done

payVars == <<payPaused, receipts, receiptCount, usedReference, reader>>

PayInit ==
    /\ payPaused = FALSE
    /\ receipts = [d \in ReceiptDeals |-> <<>>]
    /\ receiptCount = [d \in CountedDeals |-> 0]
    /\ usedReference = {}
    /\ reader = None

-----------------------------------------------------------------------------
\* The two counters a receipt takes, the deal's and the global one: for the
\* deal CounterDeal they are one entry, taken twice.
ReceiptId(d) == receiptCount[d] + 1

GlobalCounter(d) == receiptCount[CounterDeal] + (IF d = CounterDeal THEN 2 ELSE 1)

\* The admin has to sign.  Bound: MaxReceipts.
CreateReceipt(d, reference) ==
    /\ ~payPaused
    /\ <<d, reference>> \notin usedReference
    /\ receiptCount[CounterDeal] < MaxReceipts
    /\ receiptCount' = [receiptCount EXCEPT ![d] = ReceiptId(d),
                                            ![CounterDeal] = GlobalCounter(d)]
    /\ receipts' = [receipts EXCEPT ![d] = Append(@,
          [id |-> ReceiptId(d), timestamp |-> now, counter |-> GlobalCounter(d),
           reference |-> reference])]
    /\ usedReference' = usedReference \cup {<<d, reference>>}
    /\ UNCHANGED <<payPaused, reader>>

\* By the admin.
SetPayPaused(flag) ==
    /\ payPaused' = flag
    /\ UNCHANGED <<receipts, receiptCount, usedReference, reader>>

-----------------------------------------------------------------------------
\* list_receipts_by_deal.
Before(r, s) == r.timestamp < s.timestamp \/ (r.timestamp = s.timestamp /\ r.counter < s.counter)

\* Where the insertion sort puts the i-th receipt: it keeps the order of equals.
SortedPlace(d, i) ==
    LET r == receipts[d]
    IN  Cardinality({j \in DOMAIN r : Before(r[j], r[i]) \/ (j <= i /\ ~Before(r[i], r[j]))})

Listed(d) ==
    [k \in DOMAIN receipts[d] |->
        receipts[d][CHOOSE i \in DOMAIN receipts[d] : SortedPlace(d, i) = k]]

\* Where a page starts: at the first receipt after the cursor, or at the end.
PageStartAtCursor(d, cursor) ==
    Cardinality({i \in DOMAIN Listed(d) :
        cursor # None /\ Before(Listed(d)[i], cursor)}) + 1
PageStart(d, cursor) ==
    Cardinality({i \in DOMAIN Listed(d) :
        cursor # None /\ ~Before(cursor, Listed(d)[i])}) + 1

PageEnd(d, cursor, limit) == AtMost(PageStart(d, cursor) + limit - 1, Len(receipts[d]))

Page(d, cursor, limit) ==
    SubSeq(Listed(d), PageStart(d, cursor), PageEnd(d, cursor, limit))

CursorOf(r) == [timestamp |-> r.timestamp, counter |-> r.counter]

StartReading(d) ==
    /\ reader = None
    /\ reader' = [deal |-> d, cursor |-> None, got |-> <<>>, done |-> FALSE]
    /\ UNCHANGED <<payPaused, receipts, receiptCount, usedReference>>

\* One call; the client goes on from next_cursor for as long as has_next.
ReadPage(limit) ==
    /\ reader # None /\ ~reader.done
    /\ LET d    == reader.deal
           page == Page(d, reader.cursor, limit)
           more == PageEnd(d, reader.cursor, limit) < Len(receipts[d]) /\ page # <<>>
       IN  reader' = [reader EXCEPT
                        !.got = @ \o page, !.done = ~more,
                        !.cursor = IF more THEN CursorOf(page[Len(page)]) ELSE @]
    /\ UNCHANGED <<payPaused, receipts, receiptCount, usedReference>>

PayNext ==
    \/ Tick /\ UNCHANGED payVars
    \/ /\ \/ \E d \in ReceiptDeals : \/ \E reference \in References : CreateReceipt(d, reference)
                                     \/ StartReading(d)
          \/ \E flag \in BOOLEAN : SetPayPaused(flag)
          \/ \E limit \in Limits : ReadPage(limit)
       /\ UNCHANGED now

PaySpec == now = 0 /\ PayInit /\ [][PayNext]_<<now, payVars>>

-----------------------------------------------------------------------------
\* Entries have the types the getters read.
PayTypeOK ==
    /\ payPaused \in BOOLEAN
    /\ \A d \in ReceiptDeals : receipts[d] \in Seq(Receipts)
    /\ receiptCount \in [CountedDeals -> Nat]
    /\ usedReference \subseteq ReceiptDeals \X References
    /\ reader \in Readers \cup {None}

\* A client who pages through a deal gets its receipts in order, each once and
\* none skipped, whatever is appended between two pages and for whichever deal.
PagesComplete ==
    reader # None =>
        /\ Len(reader.got) <= Len(receipts[reader.deal])
        /\ reader.got = SubSeq(receipts[reader.deal], 1, Len(reader.got))

\* A payment reference has one receipt in its deal, and no two receipts of any
\* deals share a counter, the part of the tx_id that tells them apart.
ReceiptsUnique ==
    \A d, e \in ReceiptDeals : \A i \in DOMAIN receipts[d], j \in DOMAIN receipts[e] :
        <<d, i>> # <<e, j>> =>
            /\ receipts[d][i].counter # receipts[e][j].counter
            /\ d = e => /\ receipts[d][i].reference # receipts[e][j].reference
                        /\ receipts[d][i].id # receipts[e][j].id
=============================================================================
