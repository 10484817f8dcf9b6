-------------------------------- MODULE Layout --------------------------------
(***************************************************************************)
(* Pass 1 of ./ingest: the position every instrument gets in data.db and in *)
(* the block arrays of index.idx, before any thread writes.  The raw tree is *)
(* known by the number of records of each instrument over all days.         *)
(***************************************************************************)
EXTENDS StoreFormat

CONSTANTS
    Stride,             \* --stride: records per index block
    Counts,             \* record counts an instrument may have
    MaxInstruments      \* bound: the largest number of instruments in a raw tree

ASSUME StridePositive == Stride \in Nat \ {0}
ASSUME CountsNat == Counts \subseteq Nat
ASSUME InstrumentsNat == MaxInstruments \in Nat

VARIABLES
    n,                  \* layout.nInstruments
    count,              \* records of each instrument, from the file sizes
    id,                 \* next instrument to place
    cursor,             \* first free record of data.db
    table,              \* position, record count and first block of each instrument
    totalRecords, totalEntries

layoutVars == <<n, count, id, cursor, table, totalRecords, totalEntries>>

Entry == [first : Nat, count : Nat, firstIndex : Nat]
NoEntry == [first |-> 0, count |-> 0, firstIndex |-> 0]

Init ==
    /\ n = 0 /\ count = [i \in {} |-> 0] /\ table = [i \in {} |-> NoEntry]
    /\ id = 0 /\ cursor = 0 /\ totalRecords = 0 /\ totalEntries = 0

\* A new ingest process has scanned a raw tree of m instruments with c[i] records each.
Scan(m, c) ==
    /\ n' = m
    /\ count' = c
    /\ table' = [i \in 0 .. m - 1 |-> NoEntry]
    /\ id' = 0 /\ cursor' = 0 /\ totalRecords' = 0 /\ totalEntries' = 0

\* One turn of the layout loop: instruments with records start on an alignment boundary.
Place ==
    /\ id < n
    /\ LET first == IF count[id] > 0 THEN AlignUp(cursor) ELSE cursor
       IN  /\ table' = [table EXCEPT ![id] =
                   [first |-> first, count |-> count[id], firstIndex |-> totalEntries]]
           /\ cursor' = first + count[id]
    /\ totalRecords' = totalRecords + count[id]
    /\ totalEntries' = totalEntries + NumOfIndexEntries(count[id], Stride)
    /\ id' = id + 1
    /\ UNCHANGED <<n, count>>

Raws(m) == [0 .. m - 1 -> Counts]

Next ==
    \/ \E m \in 0 .. MaxInstruments : \E c \in Raws(m) : Scan(m, c)
    \/ Place

Spec == Init /\ [][Next]_layoutVars

LayoutDone == id = n

\* Length of data.db in records, padding included.
DataRecords == AlignUp(cursor)

-----------------------------------------------------------------------------

Placed == 0 .. id - 1
HasRecords(i) == i \in Placed /\ table[i].count > 0
RecordsEnd(i) == table[i].first + table[i].count
SliceEnd(i) == IF i + 1 \in Placed THEN table[i + 1].firstIndex ELSE totalEntries

\* So many blocks are exactly what c records need: the last one starts at a record and no
\* record is left over.
Exactly(blocks, c) ==
    /\ blocks >= 0
    /\ c <= blocks * Stride
    /\ blocks > 0 => (blocks - 1) * Stride < c

\* The alignment units of data.db that hold records of instrument i.
Pages(i) == table[i].first \div Align .. (RecordsEnd(i) - 1) \div Align

\* The variables have the types of the locals of run().
LayoutTypeOK ==
    /\ n \in Nat /\ id \in 0 .. n
    /\ count \in [0 .. n - 1 -> Nat]
    /\ table \in [0 .. n - 1 -> Entry]
    /\ cursor \in Nat /\ totalRecords \in Nat /\ totalEntries \in Nat

\* No alignment unit of data.db holds records of two instruments, so threads that write
\* different instruments never write into the same page (store_format.h: "concurrent
\* unaligned writes to a shared page lost data").
PagesDisjoint ==
    \A i, j \in Placed : i # j /\ HasRecords(i) /\ HasRecords(j) => Pages(i) \cap Pages(j) = {}

\* The slices of the block arrays that the threads fill follow each other without gap or
\* overlap up to totalEntries, the size of the arrays, and each has exactly the blocks that
\* the instrument's records need.
SlicesTile == \A i \in Placed : Exactly(SliceEnd(i) - table[i].firstIndex, table[i].count)

\* Every record lies inside the length data.db is given by ftruncate.
FitsFile == \A i \in Placed : RecordsEnd(i) <= DataRecords

(* The inductive invariant (IngestProofs): the cursor is behind every placed instrument, *)
(* and an alignment boundary lies between any two.                                       *)

RecordsBehind == \A i \in Placed : RecordsEnd(i) <= cursor

BoundaryBetween ==
    \A i, j \in Placed : i < j /\ HasRecords(j) =>
        \E k \in Nat : RecordsEnd(i) <= k * Align /\ k * Align <= table[j].first

LayoutInv == LayoutTypeOK /\ RecordsBehind /\ BoundaryBetween /\ SlicesTile
=============================================================================
