----------------------------- MODULE StoreFormat -----------------------------
(* The arithmetic of the store files that writer and reader share: store_format.h. *)
EXTENDS Integers

CONSTANT Align          \* kDataAlignRecords: records per alignment unit of data.db

ASSUME AlignPositive == Align \in Nat \ {0}

\* Slips: no alignment at all, rounding down, and whole blocks only.
Unaligned(records) == records
AlignDown(records) == (records \div Align) * Align
AlignUp(records) == ((records + Align - 1) \div Align) * Align

WholeBlocks(count, stride) == count \div stride
NumOfIndexEntries(count, stride) == (count + stride - 1) \div stride
=============================================================================
