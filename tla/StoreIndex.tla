------------------------------ MODULE StoreIndex ------------------------------
(***************************************************************************)
(* The sparse index of one instrument: how a thread of ./ingest builds it   *)
(* block by block (ingest.cpp), how Store answers from it (store.h) and how *)
(* sim trades prices a position with those answers (trades.cpp).            *)
(*                                                                         *)
(* Times and prices are small integers: the code only compares them, except *)
(* for the differences of prices in pnl and mae, which are given per unit.  *)
(* std::upper_bound and std::lower_bound are taken at their word.           *)
(***************************************************************************)
EXTENDS StoreFormat, FiniteSetsExt

CONSTANTS
    Strides,            \* records per block that a store may be written with
    MaxRecords,         \* bound: records of the instrument
    Times, Prices       \* timestamps and prices a record may have

ASSUME StridesPositive == Strides \subseteq Nat \ {0}
ASSUME MaxRecordsNat == MaxRecords \in Nat
ASSUME TimesPricesInt == Times \subseteq Int /\ Prices \subseteq Int

VARIABLES
    stride,             \* header_.stride
    time, price,        \* the records, in the order of the raw files
    i,                  \* first record of the next block
    at,                 \* where its entry goes
    sparse,             \* first timestamp of every block
    ranges              \* lowest and highest price of every block

indexVars == <<stride, time, price, i, at, sparse, ranges>>

count == Cardinality(DOMAIN time)
nEntries == NumOfIndexEntries(count, stride)
Block == 0 .. nEntries - 1

Lesser(a, b) == IF a <= b THEN a ELSE b

\* The thread has read the instrument and found its timestamps strictly increasing.
Init ==
    /\ stride \in Strides
    /\ \E c \in 0 .. MaxRecords :
          /\ time \in {f \in [0 .. c - 1 -> Times] : \A k \in 1 .. c - 1 : f[k - 1] < f[k]}
          /\ price \in [0 .. c - 1 -> Prices]
    /\ i = 0 /\ at = 0
    /\ sparse = [b \in Block |-> 0]
    /\ ranges = [b \in Block |-> [minPrice |-> 0, maxPrice |-> 0]]

PricesOf(records) == {price[k] : k \in records}

\* One turn of the loop that fills the instrument's slices of the block arrays.
IndexBlock ==
    /\ i < count
    /\ LET block == PricesOf(i .. Lesser(i + stride, count) - 1)
       IN  /\ sparse' = [sparse EXCEPT ![at] = time[i]]
           /\ ranges' = [ranges EXCEPT ![at] = [minPrice |-> Min(block), maxPrice |-> Max(block)]]
    /\ at' = at + 1
    /\ i' = i + stride
    /\ UNCHANGED <<stride, time, price>>

\* The index is written and stores are opened on it.
Indexed == i >= count
Serve == Indexed /\ UNCHANGED indexVars

Next == IndexBlock \/ Serve

Spec == Init /\ [][Next]_indexVars

-----------------------------------------------------------------------------
(* The lookups of Store. *)

\* std::upper_bound and std::lower_bound over positions from .. to - 1 of f.
UpperBound(f, from, to, t) == Min({k \in from .. to - 1 : f[k] > t} \cup {to})
LowerBound(f, from, to, t) == Min({k \in from .. to - 1 : f[k] >= t} \cup {to})

\* A slip: the last record of a block is left out of the search.
ButLastOfBlock(lo) == Lesser(lo + stride - 1, count)
BlockEnd(lo) == Lesser(lo + stride, count)

\* Last record at or before t, or -1.
LastAtOrBefore(t) ==
    LET after == UpperBound(sparse, 0, nEntries, t)
        lo == (after - 1) * stride
    IN  IF count = 0 \/ after = 0 THEN -1
        ELSE UpperBound(time, lo, BlockEnd(lo), t) - 1

\* First record at or after t, or -1.
FirstAtOrAfter(t) ==
    LET first == LowerBound(sparse, 0, nEntries, t)
        lo == (first - 1) * stride
        pos == LowerBound(time, lo, BlockEnd(lo), t)
    IN  IF count = 0 THEN -1
        ELSE IF first = 0 THEN 0
        ELSE IF pos = count THEN -1 ELSE pos

\* A slip: the block that end lies in counts as whole.
BlockAfter(end) == ((end + stride - 1) \div stride) * stride
TailStart(end) == (end \div stride) * stride
HeadEnd(begin) == ((begin + stride - 1) \div stride) * stride

\* The blocks that lie inside begin .. end - 1, and the records there that no such block has.
Inside(begin, end) == HeadEnd(begin) \div stride .. TailStart(end) \div stride - 1
Ragged(begin, end) ==
    IF HeadEnd(begin) >= TailStart(end) THEN begin .. end - 1
    ELSE begin .. HeadEnd(begin) - 1 \cup TailStart(end) .. end - 1

\* Lowest and highest price of records begin .. end - 1, from whole blocks where possible.
PriceExtrema(begin, end) ==
    LET seen == {price[begin]} \cup PricesOf(Ragged(begin, end))
    IN  [lo |-> Min(seen \cup {ranges[b].minPrice : b \in Inside(begin, end)}),
         hi |-> Max(seen \cup {ranges[b].maxPrice : b \in Inside(begin, end)})]

-----------------------------------------------------------------------------
(* sim trades. *)

\* A slip: positions whose entry snaps behind their exit are priced all the same.
Missing(first, last) == first < 0 \/ last < 0
Unresolved(first, last) == first < 0 \/ last < 0 \/ last < first

\* --mae blocks asks the index, --mae scan reads every record held.
Extrema(mode, first, last) ==
    IF mode = "blocks" THEN PriceExtrema(first, last + 1)
    ELSE [lo |-> Min(PricesOf(first .. last)), hi |-> Max(PricesOf(first .. last))]

NotPriced == [ok |-> FALSE, first |-> -1, last |-> -1, pnl |-> 0, mae |-> 0]

\* priceTrade for one unit: side is 1 for a long position, -1 for a short one.
PriceTrade(side, entry, exit, mode) ==
    LET first == FirstAtOrAfter(entry)
        last == LastAtOrBefore(exit)
        ends == Extrema(mode, first, last)
        loss == IF side > 0 THEN price[first] - ends.lo ELSE ends.hi - price[first]
    IN  IF Unresolved(first, last) THEN NotPriced
        ELSE [ok |-> TRUE, first |-> first, last |-> last,
              pnl |-> side * (price[last] - price[first]),
              mae |-> IF loss > 0 THEN loss ELSE 0]

-----------------------------------------------------------------------------
(* Properties. *)

Record == 0 .. count - 1

Before(t) == {k \in Record : time[k] <= t}
After(t) == {k \in Record : time[k] >= t}

\* The two-level search finds what a scan of all records would: the last one at or before t
\* and the first one at or after t, whatever block they are in and however ragged the last
\* block is.
SnapsExact ==
    Indexed => \A t \in Times :
        /\ LastAtOrBefore(t) = IF Before(t) = {} THEN -1 ELSE Max(Before(t))
        /\ FirstAtOrAfter(t) = IF After(t) = {} THEN -1 ELSE Min(After(t))

\* Block minima and maxima plus the ragged ends give the extrema of exactly the records asked
\* for.
ExtremaExact ==
    Indexed => \A end \in 1 .. count : \A begin \in 0 .. end - 1 :
        PriceExtrema(begin, end) = [lo |-> Min(PricesOf(begin .. end - 1)),
                                    hi |-> Max(PricesOf(begin .. end - 1))]

Held(entry, exit) == Before(exit) \cap After(entry)

\* A position is priced exactly if some record lies within it, and then from the first to the
\* last such record; both modes find its deepest loss over every second held, which is never
\* less than the loss it realises.
TradesPriced ==
    Indexed => \A entry, exit \in Times, side \in {1, -1}, mode \in {"blocks", "scan"} :
        LET trade == PriceTrade(side, entry, exit, mode)
            held == Held(entry, exit)
            losses == {side * (price[trade.first] - price[k]) : k \in held}
        IN  /\ trade.ok <=> held # {}
            /\ trade.ok => /\ trade.first = Min(held) /\ trade.last = Max(held)
                           /\ trade.mae = Max(losses \cup {0})
                           /\ trade.pnl + trade.mae >= 0

(* The inductive invariant (StoreIndexProofs). *)

RecordsOf(b) == b * stride .. BlockEnd(b * stride) - 1

\* The records ascend, and the blocks before the next one have their entries.
IndexInv ==
    /\ stride \in Strides /\ count \in Nat
    /\ time \in [Record -> Times] /\ price \in [Record -> Prices]
    /\ \A j, k \in Record : j < k => time[j] < time[k]
    /\ at \in 0 .. nEntries /\ i = at * stride
    /\ DOMAIN sparse = Block /\ DOMAIN ranges = Block
    /\ \A b \in 0 .. at - 1 :
          /\ sparse[b] = time[b * stride]
          /\ ranges[b] = [minPrice |-> Min(PricesOf(RecordsOf(b))), maxPrice |-> Max(PricesOf(RecordsOf(b)))]
=============================================================================
