----------------------------- MODULE IngestProofs -----------------------------
(***************************************************************************)
(* Proofs about Layout for every alignment, stride, number of instruments  *)
(* and record counts, and about Ingest, which uses it, for any number of    *)
(* threads and ingests, whatever fails and wherever a process dies.         *)
(***************************************************************************)
EXTENDS Ingest, IntegerLemmas, FiniteSetTheorems

(* The layout. *)

\* AlignUp returns an alignment boundary that is not below its argument.
LEMMA AlignUpFacts ==
    ASSUME NEW r \in Nat
    PROVE  AlignUp(r) \in Nat /\ r <= AlignUp(r) /\ \E k \in Nat : AlignUp(r) = k * Align
  <1> DEFINE q == (r + Align - 1) \div Align
  <1>1. q \in Nat /\ r <= q * Align
    BY AlignPositive, DivideUp
  <1> HIDE DEF q
  <1>2. q * Align \in Nat
    BY <1>1, AlignPositive
  <1>3. AlignUp(r) = q * Align
    BY DEF AlignUp, q
  <1> QED
    BY <1>1, <1>2, <1>3

\* NumOfIndexEntries returns the number of blocks that c records fill, the last one perhaps partly.
LEMMA EntriesFacts ==
    ASSUME NEW c \in Nat
    PROVE  NumOfIndexEntries(c, Stride) \in Nat /\ Exactly(NumOfIndexEntries(c, Stride), c)
  <1> DEFINE q == NumOfIndexEntries(c, Stride)
  <1>1. q \in Nat /\ c <= q * Stride /\ q * Stride < c + Stride
    BY StridePositive, DivideUp DEF NumOfIndexEntries
  <1> HIDE DEF q
  <1>2. (q - 1) * Stride = q * Stride - Stride
    BY <1>1, StridePositive
  <1>3. (q - 1) * Stride < c
    BY <1>1, <1>2, StridePositive
  <1> QED
    BY <1>1, <1>3 DEF q, Exactly

-----------------------------------------------------------------------------

\* Nothing is placed initially.
LEMMA LayoutInit == Init => LayoutInv
  BY DEF Init, LayoutInv, LayoutTypeOK, RecordsBehind, BoundaryBetween, SlicesTile, Placed

\* A new scan forgets what was placed.
LEMMA LayoutScan ==
    ASSUME NEW m \in 0 .. MaxInstruments, NEW c \in Raws(m), Scan(m, c)
    PROVE  LayoutInv'
  <1>1. LayoutTypeOK'
    <2>1. m \in Nat /\ n' = m /\ id' = 0 /\ id' \in 0 .. n'
      BY InstrumentsNat DEF Scan
    <2>2. count' \in [0 .. n' - 1 -> Nat]
      BY <2>1, CountsNat DEF Scan, Raws
    <2>3. table' \in [0 .. n' - 1 -> Entry]
      BY <2>1 DEF Scan, Entry, NoEntry
    <2> QED
      BY <2>1, <2>2, <2>3 DEF Scan, LayoutTypeOK
  <1>2. Placed' = {}
    BY DEF Scan, Placed
  <1> QED
    BY <1>1, <1>2 DEF LayoutInv, RecordsBehind, BoundaryBetween, SlicesTile

\* Placing one instrument keeps the others apart: it starts on a boundary at or after the cursor.
LEMMA LayoutPlace == ASSUME LayoutInv, Place PROVE LayoutInv'
  <1> DEFINE first == IF count[id] > 0 THEN AlignUp(cursor) ELSE cursor
             new == [first |-> first, count |-> count[id], firstIndex |-> totalEntries]
             blocks == NumOfIndexEntries(count[id], Stride)
  <1>1. LayoutTypeOK
    BY DEF LayoutInv
  <1>2. id \in 0 .. n - 1 /\ id \in Nat /\ n \in Nat /\ count[id] \in Nat /\ cursor \in Nat /\ totalEntries \in Nat
    BY <1>1 DEF Place, LayoutTypeOK
  <1>3. first \in Nat /\ cursor <= first /\ (count[id] > 0 => \E k \in Nat : first = k * Align)
    BY <1>2, AlignUpFacts
  <1>4. blocks \in Nat /\ Exactly(blocks, count[id])
    BY <1>2, EntriesFacts
  <1> HIDE DEF blocks
  <1>5. /\ table' = [table EXCEPT ![id] = new]
        /\ cursor' = first + count[id]
        /\ totalEntries' = totalEntries + blocks
        /\ totalRecords' = totalRecords + count[id]
        /\ id' = id + 1
        /\ UNCHANGED <<n, count>>
    BY DEF Place, blocks
  <1> HIDE DEF first
  <1>6. LayoutTypeOK'
    <2>1. id' \in 0 .. n'
      BY <1>2, <1>5
    <2>2. new \in Entry
      BY <1>2, <1>3 DEF Entry
    <2>3. table' \in [0 .. n' - 1 -> Entry] /\ count' \in [0 .. n' - 1 -> Nat]
      BY <1>1, <1>5, <2>2 DEF LayoutTypeOK
    <2>4. cursor' \in Nat /\ totalRecords' \in Nat /\ totalEntries' \in Nat
      BY <1>1, <1>2, <1>3, <1>4, <1>5 DEF LayoutTypeOK
    <2> QED
      BY <1>2, <1>5, <2>1, <2>3, <2>4 DEF LayoutTypeOK
  <1>7. /\ table'[id] = new
        /\ \A i \in Placed : table'[i] = table[i] /\ table[i] \in Entry
        /\ Placed' = Placed \cup {id}
        /\ \A i \in Placed : i < id
    BY <1>1, <1>2, <1>5 DEF LayoutTypeOK, Placed
  <1>8. RecordsBehind'
    BY <1>2, <1>3, <1>5, <1>7 DEF LayoutInv, RecordsBehind, RecordsEnd, Entry
  <1>9. BoundaryBetween'
    <2> SUFFICES ASSUME NEW i \in Placed', NEW j \in Placed', i < j, HasRecords(j)'
                 PROVE  (\E k \in Nat : RecordsEnd(i) <= k * Align /\ k * Align <= table[j].first)'
      BY DEF BoundaryBetween
    <2>1. i \in Placed /\ i \in Int /\ j \in Int
      BY <1>2, <1>7 DEF Placed
    <2>2. CASE j \in Placed
      BY <1>7, <2>1, <2>2 DEF LayoutInv, BoundaryBetween, HasRecords, RecordsEnd
    <2>3. CASE j = id
      <3>1. PICK k \in Nat : first = k * Align
        BY <1>3, <1>7, <2>3 DEF HasRecords
      <3>2. RecordsEnd(i) \in Nat /\ RecordsEnd(i) <= cursor
        BY <1>7, <2>1 DEF LayoutInv, RecordsBehind, RecordsEnd, Entry
      <3>3. RecordsEnd(i)' = RecordsEnd(i) /\ table'[j].first = first
        BY <1>7, <2>1, <2>3 DEF RecordsEnd
      <3> QED
        BY <1>2, <1>3, <3>1, <3>2, <3>3
    <2> QED
      BY <1>7, <2>2, <2>3
  <1>10. SlicesTile'
    <2>1. PICK me \in Nat : me = id        \* a constant: SliceEnd(id)' would mean SliceEnd(id')'
      BY <1>2
    <2>2. SliceEnd(me)' = totalEntries'
      BY <1>2, <1>5, <1>7, <2>1 DEF SliceEnd, Placed
    <2>3. \A i \in Placed : SliceEnd(i)' = SliceEnd(i)
      BY <1>1, <1>2, <1>5, <1>7 DEF SliceEnd, Placed, LayoutTypeOK
    <2>4. Exactly(SliceEnd(me)' - table'[me].firstIndex, table'[me].count)
      BY <1>2, <1>4, <1>5, <1>7, <2>1, <2>2
    <2>5. \A i \in Placed : Exactly(SliceEnd(i)' - table'[i].firstIndex, table'[i].count)
      BY <1>7, <2>3 DEF LayoutInv, SlicesTile
    <2> QED
      BY <1>7, <2>1, <2>4, <2>5 DEF SlicesTile
  <1> QED
    BY <1>6, <1>8, <1>9, <1>10 DEF LayoutInv

\* The layout loop keeps its invariant whatever the record counts.
THEOREM LayoutInvariant == Spec => []LayoutInv
  <1>1. LayoutInv /\ UNCHANGED layoutVars => LayoutInv'
    BY DEF layoutVars, LayoutInv, LayoutTypeOK, RecordsBehind, BoundaryBetween, SlicesTile, Placed,
        HasRecords, RecordsEnd, SliceEnd
  <1>2. LayoutInv /\ [Next]_layoutVars => LayoutInv'
    BY <1>1, LayoutScan, LayoutPlace DEF Next
  <1> QED
    BY <1>2, LayoutInit, PTL DEF Spec

\* An alignment boundary between two instruments separates their pages.
LEMMA BoundarySeparates ==
    ASSUME LayoutInv, NEW i \in Placed, NEW j \in Placed, i < j, HasRecords(i), HasRecords(j)
    PROVE  Pages(i) \cap Pages(j) = {}
  <1>1. PICK k \in Nat : RecordsEnd(i) <= k * Align /\ k * Align <= table[j].first
    BY DEF LayoutInv, BoundaryBetween
  <1>2. /\ table[i].first \in Nat /\ RecordsEnd(i) \in Nat /\ RecordsEnd(i) > 0
        /\ table[j].first \in Nat /\ RecordsEnd(j) \in Nat /\ RecordsEnd(j) > 0
        /\ table[j].first < RecordsEnd(j)
    BY DEF LayoutInv, LayoutTypeOK, Entry, Placed, RecordsEnd, HasRecords
  <1> DEFINE low == (RecordsEnd(i) - 1) \div Align
             high == table[j].first \div Align
  <1>3. k * Align \in Nat
    BY AlignPositive
  <1>4. low < k /\ low \in Int
    <2>1. RecordsEnd(i) - 1 \in Nat /\ RecordsEnd(i) - 1 < k * Align
      BY <1>1, <1>2, <1>3
    <2> QED
      BY ONLY <2>1, AlignPositive, PageBefore
  <1>5. k <= high /\ high \in Int
    BY ONLY <1>1, <1>2, AlignPositive, PageFrom
  <1> HIDE DEF low, high
  <1>6. \A p \in table[i].first \div Align .. low : \A q \in high .. (RecordsEnd(j) - 1) \div Align : p # q
    BY <1>4, <1>5
  <1> QED
    BY <1>6 DEF Pages, low, high

\* Threads that write different instruments never write into the same alignment unit.
THEOREM LayoutPagesDisjoint == Spec => []PagesDisjoint
  <1>1. LayoutInv => PagesDisjoint
    <2> SUFFICES ASSUME LayoutInv, NEW i \in Placed, NEW j \in Placed, i # j, HasRecords(i), HasRecords(j)
                 PROVE  Pages(i) \cap Pages(j) = {}
      BY DEF PagesDisjoint
    <2>1. i \in Int /\ j \in Int
      BY DEF Placed
    <2>2. CASE i < j
      BY <2>2, BoundarySeparates
    <2>3. CASE j < i
      BY <2>3, BoundarySeparates
    <2> QED
      BY <2>1, <2>2, <2>3
  <1> QED
    BY <1>1, LayoutInvariant, PTL

\* The slices of the block arrays tile them, one block per Stride records.
THEOREM LayoutSlicesTile == Spec => []SlicesTile
  <1>1. LayoutInv => SlicesTile
    BY DEF LayoutInv
  <1> QED
    BY <1>1, LayoutInvariant, PTL

\* No record lies beyond the length given to data.db.
THEOREM LayoutFitsFile == Spec => []FitsFile
  <1>1. LayoutInv => FitsFile
    <2> SUFFICES ASSUME LayoutInv, NEW i \in Placed PROVE RecordsEnd(i) <= DataRecords
      BY DEF FitsFile
    <2>1. RecordsEnd(i) \in Int /\ cursor \in Nat /\ RecordsEnd(i) <= cursor
      BY DEF LayoutInv, LayoutTypeOK, RecordsBehind, RecordsEnd, Entry, Placed
    <2> QED
      BY <2>1, AlignUpFacts DEF DataRecords
  <1> QED
    BY <1>1, LayoutInvariant, PTL

-----------------------------------------------------------------------------
(* The ingest. *)

\* A step that leaves the layout alone leaves what is computed from it alone.
LEMMA SameLayout ==
    ASSUME UNCHANGED layoutVars
    PROVE  /\ n' = n /\ count' = count /\ Instruments' = Instruments
           /\ DataRecords' = DataRecords /\ LayoutDone' = LayoutDone
           /\ LayoutTypeOK => LayoutTypeOK'
  BY DEF layoutVars, Instruments, DataRecords, LayoutDone, LayoutTypeOK

\* The files carry numbers of ingests.
LEMMA NumbersTyped ==
    ASSUME IngestTypeOK
    PROVE  /\ ingest \in Nat
           /\ \A k \in Kind : tmp[k].by \in Nat /\ final[k].by \in Nat /\ handle[k].by \in Nat
  <1>1. \A f \in FileType : f.by \in Nat
    BY IngestsNat DEF FileType
  <1> QED
    BY <1>1, IngestsNat DEF IngestTypeOK

\* Where there is no file, no ingest has written one.
LEMMA AbsentBy == Absent.by = 0 /\ Absent.n = 0
  BY DEF Absent

\* Only an ingest that begins, a rename and a reader touch what LatestFiles is about.
LEMMA LatestFilesKept ==
    ASSUME LatestFiles, UNCHANGED <<layoutVars, ingest, final, rpc, handle>>
    PROVE  LatestFiles'
  <1>1. Instruments' = Instruments
    BY SameLayout
  <1> QED
    BY <1>1 DEF LatestFiles, Whole

\* The layout keeps its invariant while processes come and go.
LEMMA IngestLayout == SpecIngest => []LayoutInv
  <1>1. InitIngest => LayoutInv
    BY LayoutInit DEF InitIngest
  <1>2. LayoutInv /\ UNCHANGED layoutVars => LayoutInv'
    BY DEF layoutVars, LayoutInv, LayoutTypeOK, RecordsBehind, BoundaryBetween, SlicesTile, Placed,
        HasRecords, RecordsEnd, SliceEnd
  <1>3. LayoutInv /\ [NextIngest]_vars => LayoutInv'
    <2> SUFFICES ASSUME LayoutInv, [NextIngest]_vars PROVE LayoutInv'
      OBVIOUS
    <2>1. ASSUME NEW m \in 0 .. MaxInstruments, NEW c \in Raws(m), NEW bad, Start(m, c, bad)
          PROVE  LayoutInv'
      BY <2>1, LayoutScan DEF Start
    <2>2. CASE LayOut
      BY <2>2, LayoutPlace DEF LayOut
    <2>3. CASE UNCHANGED layoutVars
      BY <1>2, <2>3
    <2>4. CASE MainStep
      BY <2>2, <2>3, <2>4 DEF MainStep, CreateFiles, JoinPool, WriteIndex, WriteSegments, Rename
    <2>5. ASSUME NEW w \in Worker, WorkerStep(w) PROVE LayoutInv'
      BY <2>3, <2>5 DEF WorkerStep, Poll, Claim, Read, Write, Catch
    <2>6. CASE ReaderStep
      BY <2>3, <2>6 DEF ReaderStep, OpenIndex, OpenData, OpenSegments, Map, CloseStore
    <2>7. CASE Die \/ \E i \in Instruments : ChangeRaw(i)
      BY <2>3, <2>7 DEF Die, ChangeRaw
    <2>8. CASE UNCHANGED vars
      BY <2>3, <2>8 DEF vars
    <2> QED
      BY <2>1, <2>4, <2>5, <2>6, <2>7, <2>8 DEF NextIngest
  <1> QED
    BY <1>1, <1>3, PTL DEF SpecIngest

\* What this ingest writes are files of the directory.
LEMMA FileTyped ==
    ASSUME IngestTypeOK, n <= MaxInstruments
    PROVE  DataRecords \in Nat /\ File(DataRecords, filled) \in FileType /\ File(0, filled) \in FileType
  <1>1. cursor \in Nat /\ n \in Nat
    BY DEF IngestTypeOK, LayoutTypeOK
  <1>2. DataRecords \in Nat
    BY <1>1, AlignUpFacts DEF DataRecords
  <1>3. filled \in SUBSET (0 .. MaxInstruments - 1)
    BY <1>1, InstrumentsNat DEF IngestTypeOK, Instruments
  <1>4. ingest \in 0 .. MaxIngests
    BY DEF IngestTypeOK
  <1> QED
    BY <1>1, <1>2, <1>3, <1>4 DEF File, FileType

\* What a step must see to for the types, beside the layout.
LEMMA TypeKept ==
    ASSUME IngestTypeOK, LayoutTypeOK', Instruments' = Instruments,
           phase' \in {"idle", "layout", "pool", "index", "segments", "rename1", "rename2", "rename3"},
           pcw' = pcw \/ pcw' = [w \in Worker |-> "done"],
           tmp' = tmp \/ tmp' \in [Kind -> FileType], final' = final \/ final' \in [Kind -> FileType],
           UNCHANGED <<ingest, nextId, failed, firstError, cur, filled, unsorted, changed, stale, rpc, handle>>
    PROVE  IngestTypeOK'
  <1>1. pcw' \in [Worker -> {"poll", "claim", "read", "write", "throw", "done"}]
    BY DEF IngestTypeOK
  <1>2. \A w \in Worker : pcw'[w] \in {"read", "write", "throw"} => cur'[w] \in Instruments'
    BY DEF IngestTypeOK
  <1>3. tmp' \in [Kind -> FileType] /\ final' \in [Kind -> FileType]
    BY DEF IngestTypeOK
  <1> QED
    BY <1>1, <1>2, <1>3 DEF IngestTypeOK

-----------------------------------------------------------------------------
\* A directory without a store, and no process.
LEMMA IngestInit == InitIngest => IngestInv
  <1> SUFFICES ASSUME InitIngest PROVE IngestInv
    OBVIOUS
  <1>1. /\ phase = "idle" /\ ingest = 0 /\ nextId = 0 /\ failed = FALSE /\ firstError = FALSE
        /\ pcw = [w \in Worker |-> "done"] /\ cur = [w \in Worker |-> 0]
        /\ filled = {} /\ unsorted = {} /\ changed = {} /\ stale = {} /\ rpc = "closed"
        /\ tmp = [k \in Kind |-> Absent] /\ final = [k \in Kind |-> Absent] /\ handle = [k \in Kind |-> Absent]
    BY DEF InitIngest
  <1>2. LayoutTypeOK /\ n = 0
    BY LayoutInit DEF LayoutInv, Init, InitIngest
  <1>3. Absent \in FileType
    BY IngestsNat DEF Absent, FileType
  <1>4. IngestTypeOK
    <2>1. \A w \in Worker : pcw[w] = "done" /\ pcw \in [Worker -> {"poll", "claim", "read", "write", "throw", "done"}]
          /\ cur \in [Worker -> Nat]
      BY <1>1
    <2>2. tmp \in [Kind -> FileType] /\ final \in [Kind -> FileType] /\ handle \in [Kind -> FileType]
      BY <1>1, <1>3
    <2>3. pcw \in [Worker -> {"poll", "claim", "read", "write", "throw", "done"}] /\ cur \in [Worker -> Nat]
      BY <1>1
    <2>4. ingest \in 0 .. MaxIngests /\ nextId \in Nat
      BY <1>1, IngestsNat
    <2> QED
      BY <1>1, <1>2, <2>1, <2>2, <2>3, <2>4 DEF IngestTypeOK
  <1>5. WorkersApart /\ NothingSkipped /\ FilesBuilt /\ LatestFiles
    <2>1. WorkersApart /\ NothingSkipped /\ FilesBuilt
      BY <1>1 DEF WorkersApart, NothingSkipped, FilesBuilt, Building, AtWork
    <2>2. \A k \in Kind : final[k] = Absent /\ handle[k] = Absent
      BY <1>1
    <2>3. LatestFiles
      BY <1>1, <2>2, AbsentBy DEF LatestFiles
    <2> QED
      BY <2>1, <2>3
  <1>6. n <= MaxInstruments
    BY <1>2, InstrumentsNat
  <1> QED
    BY <1>1, <1>4, <1>5, <1>6 DEF IngestInv

-----------------------------------------------------------------------------
(* The main thread. *)

\* A new ingest has no threads; the directory is what earlier ones left.
LEMMA StartKeeps ==
    ASSUME NEW m \in 0 .. MaxInstruments, NEW c \in Raws(m), NEW bad, IngestInv, Start(m, c, bad)
    PROVE  IngestInv'
  <1> USE DEF IngestInv
  <1>1. /\ phase = "idle" /\ phase' = "layout" /\ ingest < MaxIngests /\ ingest' = ingest + 1
        /\ nextId' = 0 /\ failed' = FALSE /\ firstError' = FALSE /\ filled' = {} /\ unsorted' = bad
        /\ changed' = {} /\ stale' = {} /\ cur' = [w \in Worker |-> 0]
        /\ UNCHANGED <<pcw, tmp, final, rpc, handle>>
    BY DEF Start, dirVars, readerVars
  <1>2. n' = m /\ n' \in Nat /\ n' <= MaxInstruments /\ Instruments' = 0 .. m - 1
    BY InstrumentsNat DEF Start, Scan, Instruments
  <1>3. bad \subseteq Instruments'
    BY <1>2 DEF Start
  <1>4. LayoutTypeOK'
    BY LayoutScan DEF Start, LayoutInv
  <1>5. \A w \in Worker : pcw[w] = "done"
    BY <1>1 DEF WorkersApart
  <1>6. ingest \in Nat /\ ingest' \in 0 .. MaxIngests /\ ingest' > 0 /\ (ingest' = 1 => ingest = 0)
    BY <1>1, IngestsNat DEF IngestTypeOK
  <1>7. IngestTypeOK'
    BY <1>1, <1>3, <1>4, <1>5, <1>6 DEF IngestTypeOK
  <1>8. WorkersApart' /\ NothingSkipped'
    BY <1>1, <1>5 DEF WorkersApart, NothingSkipped, AtWork
  <1>9. FilesBuilt' /\ LatestFiles'
    <2>1. FilesBuilt'
      BY <1>1 DEF FilesBuilt, Building
    <2>2. \A k \in Kind : /\ final[k].by <= ingest /\ final[k].by \in Nat
                          /\ handle[k].by <= ingest /\ handle[k].by \in Nat
      BY NumbersTyped DEF LatestFiles
    <2>3. \A k \in Kind : /\ final'[k].by <= ingest' /\ handle'[k].by <= ingest'
                          /\ final'[k].by # ingest' /\ handle'[k].by # ingest'
      BY <1>1, <1>6, <2>2
    <2>4. LatestFiles'
      BY <1>6, <2>3 DEF LatestFiles
    <2> QED
      BY <2>1, <2>4
  <1> QED
    BY <1>1, <1>2, <1>6, <1>7, <1>8, <1>9

\* The layout places instruments; no thread has claimed any.
LEMMA LayOutKeeps == ASSUME LayoutInv, IngestInv, LayOut PROVE IngestInv'
  <1> USE DEF IngestInv
  <1>1. /\ phase = "layout" /\ n' = n
        /\ UNCHANGED <<phase, ingest, nextId, failed, firstError, pcw, cur, filled, unsorted>>
        /\ UNCHANGED <<changed, stale, tmp, final, rpc, handle>>
    BY DEF LayOut, Place, poolVars, rawVars, dirVars, readerVars
  <1>2. Instruments' = Instruments
    BY <1>1 DEF Instruments
  <1>3. LayoutTypeOK'
    BY LayoutPlace DEF LayOut, LayoutInv
  <1>4. IngestTypeOK'
    BY <1>1, <1>2, <1>3 DEF IngestTypeOK
  <1>5. WorkersApart' /\ NothingSkipped'
    BY <1>1, <1>2 DEF WorkersApart, NothingSkipped, AtWork
  <1>6. FilesBuilt' /\ LatestFiles'
    BY <1>1, <1>2 DEF FilesBuilt, LatestFiles, Building, Whole
  <1> QED
    BY <1>1, <1>2, <1>4, <1>5, <1>6

\* The pool has at least one thread, and begins with nothing claimed.
LEMMA CreateFilesKeeps == ASSUME IngestInv, CreateFiles PROVE IngestInv'
  <1> USE DEF IngestInv
  <1>1. /\ phase = "layout" /\ phase' = "pool" /\ LayoutDone
        /\ tmp' = [tmp EXCEPT !["data"] = File(DataRecords, {}), !["index"] = File(0, {})]
        /\ UNCHANGED <<layoutVars, ingest, nextId, failed, firstError, cur, filled, unsorted>>
        /\ UNCHANGED <<changed, stale, final, rpc, handle>>
    BY DEF CreateFiles, rawVars, readerVars
  <1>2. PICK started \in SUBSET Worker :
            /\ Cardinality(started) = PoolSize
            /\ pcw' = [w \in Worker |-> IF w \in started THEN "poll" ELSE "done"]
    BY DEF CreateFiles
  <1>3. started # {}
    <2>1. n \in Nat
      BY DEF IngestTypeOK, LayoutTypeOK
    <2>2. Cardinality(Worker) \in Nat /\ Cardinality(Worker) # 0
      BY WorkersFinite, WorkersExist, FS_EmptySet, FS_CardinalityType
    <2>3. PoolSize # 0
      BY <2>1, <2>2 DEF PoolSize
    <2> QED
      BY <1>2, <2>3, FS_EmptySet
  <1>4. n' = n /\ Instruments' = Instruments /\ DataRecords' = DataRecords /\ LayoutDone' /\ LayoutTypeOK'
    BY <1>1, SameLayout DEF IngestTypeOK
  <1>5. n \in Nat /\ DataRecords \in Nat /\ nextId = 0 /\ ingest \in 0 .. MaxIngests
    <2>1. cursor \in Nat /\ n \in Nat
      BY DEF IngestTypeOK, LayoutTypeOK
    <2> QED
      BY <1>1, <2>1, AlignUpFacts DEF IngestTypeOK, DataRecords, NothingSkipped
  <1>6. File(DataRecords, {}) \in FileType /\ File(0, {}) \in FileType
    BY <1>5 DEF File, FileType
  <1>7. tmp' \in [Kind -> FileType] /\ tmp'["data"] = File(DataRecords, {})
    BY <1>1, <1>6 DEF IngestTypeOK, Kind
  <1>8. pcw' \in [Worker -> {"poll", "claim", "read", "write", "throw", "done"}]
        /\ \A w \in Worker : pcw'[w] \in {"poll", "done"}
    BY <1>2
  <1>9. IngestTypeOK'
    <2>1. \A w \in Worker : pcw'[w] \notin {"read", "write", "throw"}
      BY <1>8
    <2>2. UNCHANGED <<nextId, failed, firstError, cur, filled, unsorted, changed, stale, final, rpc, handle, ingest>>
      BY <1>1
    <2>3. tmp' \in [Kind -> FileType]
      BY <1>7
    <2>4. phase' = "pool" /\ LayoutTypeOK' /\ Instruments' = Instruments
          /\ pcw' \in [Worker -> {"poll", "claim", "read", "write", "throw", "done"}]
      BY <1>1, <1>4, <1>8
    <2>5. IngestTypeOK
      OBVIOUS
    <2> HIDE DEF IngestInv
    <2> QED
      BY <2>1, <2>2, <2>3, <2>4, <2>5 DEF IngestTypeOK
  <1>10. WorkersApart' /\ NothingSkipped'
    <2>1. \E w \in Worker : pcw'[w] # "done"
      BY <1>2, <1>3
    <2>2. NothingSkipped'
      BY <1>1, <1>4, <1>5, <2>1 DEF NothingSkipped, Instruments
    <2>3. WorkersApart'
      BY <1>1, <1>8 DEF WorkersApart, AtWork
    <2> QED
      BY <2>2, <2>3
  <1>11. FilesBuilt'
    <2> HIDE DEF IngestInv
    <2>1. tmp'["data"].by = ingest' /\ tmp'["data"].length = DataRecords' /\ tmp'["data"].has = {}
      <3>1. ingest' = ingest /\ DataRecords' = DataRecords
        BY <1>1, <1>4
      <3>2. tmp'["data"] = [by |-> ingest, length |-> DataRecords, n |-> n, has |-> {}]
        BY <1>7 DEF File
      <3> QED
        BY <3>1, <3>2
    <2> QED
      BY <1>1, <1>4, <2>1 DEF FilesBuilt, Building
  <1>12. LatestFiles'
    BY <1>1, LatestFilesKept
  <1> QED
    BY <1>1, <1>4, <1>9, <1>10, <1>11, <1>12

\* All threads are gone. Without an error everything was claimed and is copied.
LEMMA JoinPoolKeeps == ASSUME IngestInv, JoinPool PROVE IngestInv'
  <1> USE DEF IngestInv
  <1>1. /\ phase = "pool" /\ phase' = (IF ~firstError THEN "index" ELSE "idle")
        /\ \A w \in Worker : pcw[w] = "done"
        /\ UNCHANGED <<layoutVars, ingest, nextId, failed, firstError, pcw, cur, filled, unsorted>>
        /\ UNCHANGED <<changed, stale, tmp, final, rpc, handle>>
    BY DEF JoinPool, GoesOn, poolVars, rawVars, dirVars, readerVars
  <1>2. n' = n /\ Instruments' = Instruments /\ DataRecords' = DataRecords /\ LayoutDone' = LayoutDone /\ LayoutTypeOK'
    BY <1>1, SameLayout DEF IngestTypeOK
  <1>3. IngestTypeOK'
    BY <1>1, <1>2 DEF IngestTypeOK
  <1>4. WorkersApart' /\ NothingSkipped'
    BY <1>1, <1>2 DEF WorkersApart, NothingSkipped, AtWork
  <1>5. ASSUME ~firstError PROVE unsorted = {} /\ filled = Instruments /\ Whole(tmp["data"]) /\ LayoutDone
    <2>1. n <= nextId /\ n \in Nat /\ nextId \in Nat
      BY <1>1, <1>5 DEF NothingSkipped, IngestTypeOK, LayoutTypeOK
    <2>2. \A i \in Instruments : i < nextId
      BY <2>1 DEF Instruments
    <2>3. \A i \in Instruments : Copied(i)
      BY <1>1, <1>5, <2>2 DEF NothingSkipped, AtWork
    <2>4. filled = Instruments /\ tmp["data"].has = Instruments /\ unsorted = {}
      BY <1>1, <2>3 DEF Copied, IngestTypeOK, FilesBuilt
    <2> QED
      BY <1>1, <2>4 DEF FilesBuilt, Whole
  <1>6. FilesBuilt'
    BY <1>1, <1>2, <1>5 DEF FilesBuilt, Building, Whole
  <1>7. LatestFiles'
    BY <1>1, LatestFilesKept
  <1> QED
    BY <1>1, <1>2, <1>3, <1>4, <1>6, <1>7

\* From here to the next claim: the main thread is alone, with all instruments copied.
LEMMA AloneKeeps ==
    ASSUME IngestInv, phase # "pool", phase' \notin {"layout", "pool"},
           phase' \in Building => phase \in Building,
           UNCHANGED <<layoutVars, ingest, poolVars, rawVars>>
    PROVE  /\ n' = n /\ Instruments' = Instruments /\ DataRecords' = DataRecords /\ LayoutTypeOK'
           /\ WorkersApart' /\ NothingSkipped'
           /\ phase' \in Building => LayoutDone' /\ ~failed' /\ unsorted' = {} /\ filled' = Instruments'
  <1> USE DEF IngestInv
  <1>1. UNCHANGED <<nextId, failed, firstError, pcw, cur, filled, unsorted, changed, stale>>
    BY DEF poolVars, rawVars
  <1>2. n' = n /\ Instruments' = Instruments /\ DataRecords' = DataRecords /\ LayoutDone' = LayoutDone /\ LayoutTypeOK'
    BY SameLayout DEF IngestTypeOK
  <1>3. WorkersApart'
    BY <1>1 DEF WorkersApart, AtWork
  <1>4. NothingSkipped'
    BY DEF NothingSkipped
  <1> QED
    BY <1>1, <1>2, <1>3, <1>4 DEF FilesBuilt

\* The index is whole: every instrument is in, or the pool would have failed.
LEMMA WriteIndexKeeps == ASSUME IngestInv, WriteIndex PROVE IngestInv'
  <1> USE DEF IngestInv
  <1> DEFINE new == File(DataRecords, filled)
  <1>1. /\ phase = "index" /\ phase' = "segments" /\ tmp' = [tmp EXCEPT !["index"] = new]
        /\ UNCHANGED <<layoutVars, ingest, poolVars, rawVars, final, rpc, handle>>
    BY DEF WriteIndex, readerVars
  <1>2. /\ n' = n /\ Instruments' = Instruments /\ DataRecords' = DataRecords /\ LayoutTypeOK'
        /\ WorkersApart' /\ NothingSkipped'
        /\ LayoutDone' /\ ~failed' /\ unsorted' = {} /\ filled' = Instruments'
    BY <1>1, AloneKeeps DEF Building
  <1>3. new.by = ingest /\ new.has = Instruments /\ new.length = DataRecords /\ new \in FileType
    BY <1>1, FileTyped DEF File, FilesBuilt, Building
  <1> HIDE DEF new
  <1>4. /\ tmp' \in [Kind -> FileType] /\ tmp'["data"] = tmp["data"] /\ tmp'["index"] = new
    BY <1>1, <1>3 DEF IngestTypeOK, Kind
  <1>5. UNCHANGED <<nextId, failed, firstError, pcw, cur, filled, unsorted, changed, stale>>
    BY <1>1 DEF poolVars, rawVars
  <1>6. IngestTypeOK'
    BY <1>1, <1>2, <1>4, <1>5, TypeKept
  <1>7. FilesBuilt'
    BY <1>1, <1>2, <1>3, <1>4 DEF FilesBuilt, Building, Whole
  <1>8. LatestFiles'
    BY <1>1, LatestFilesKept
  <1> QED
    BY <1>1, <1>2, <1>5, <1>6, <1>7, <1>8

\* And so are the segments.
LEMMA WriteSegmentsKeeps == ASSUME IngestInv, WriteSegments PROVE IngestInv'
  <1> USE DEF IngestInv
  <1> DEFINE new == File(0, filled)
  <1>1. /\ phase = "segments" /\ phase' = "rename1" /\ tmp' = [tmp EXCEPT !["segments"] = new]
        /\ UNCHANGED <<layoutVars, ingest, poolVars, rawVars, final, rpc, handle>>
    BY DEF WriteSegments, readerVars
  <1>2. /\ n' = n /\ Instruments' = Instruments /\ DataRecords' = DataRecords /\ LayoutTypeOK'
        /\ WorkersApart' /\ NothingSkipped'
        /\ LayoutDone' /\ ~failed' /\ unsorted' = {} /\ filled' = Instruments'
    BY <1>1, AloneKeeps DEF Building
  <1>3. new.by = ingest /\ new.has = Instruments /\ new \in FileType
    BY <1>1, FileTyped DEF File, FilesBuilt, Building
  <1> HIDE DEF new
  <1>4. /\ tmp' \in [Kind -> FileType] /\ tmp'["data"] = tmp["data"] /\ tmp'["index"] = tmp["index"]
        /\ tmp'["segments"] = new
    BY <1>1, <1>3 DEF IngestTypeOK, Kind
  <1>5. UNCHANGED <<nextId, failed, firstError, pcw, cur, filled, unsorted, changed, stale>>
    BY <1>1 DEF poolVars, rawVars
  <1>6. IngestTypeOK'
    BY <1>1, <1>2, <1>4, <1>5, TypeKept
  <1>7. FilesBuilt'
    BY <1>1, <1>2, <1>3, <1>4 DEF FilesBuilt, Building, Whole
  <1>8. LatestFiles'
    BY <1>1, LatestFilesKept
  <1> QED
    BY <1>1, <1>2, <1>5, <1>6, <1>7, <1>8

\* A rename moves a file that is whole, and the other two stay where they are.
LEMMA RenameKeeps == ASSUME IngestInv, NEW i \in 1 .. 3, Rename(i) PROVE IngestInv'
  <1> USE DEF IngestInv
  <1>1. PICK k \in Kind :
            /\ \/ i = 1 /\ phase = "rename1" /\ phase' = "rename2" /\ k = "data"
               \/ i = 2 /\ phase = "rename2" /\ phase' = "rename3" /\ k = "segments"
               \/ i = 3 /\ phase = "rename3" /\ phase' = "idle" /\ k = "index"
            /\ final' = [final EXCEPT ![k] = tmp[k]] /\ tmp' = [tmp EXCEPT ![k] = Absent]
            /\ UNCHANGED <<layoutVars, ingest, poolVars, rawVars, rpc, handle>>
    <2>1. UNCHANGED <<layoutVars, ingest, poolVars, rawVars, rpc, handle>>
      BY DEF Rename, readerVars
    <2>2. CASE i = 1
      BY <2>1, <2>2 DEF Rename, RenameOrder, Kind
    <2>3. CASE i = 2
      BY <2>1, <2>3 DEF Rename, RenameOrder, Kind
    <2>4. CASE i = 3
      BY <2>1, <2>4 DEF Rename, RenameOrder, Kind
    <2> QED
      BY <2>2, <2>3, <2>4
  <1>2. /\ n' = n /\ Instruments' = Instruments /\ DataRecords' = DataRecords /\ LayoutTypeOK'
        /\ WorkersApart' /\ NothingSkipped'
        /\ phase' \in Building => LayoutDone' /\ ~failed' /\ unsorted' = {} /\ filled' = Instruments'
    BY <1>1, AloneKeeps DEF Building
  <1>3. Whole(tmp[k])
    BY <1>1 DEF FilesBuilt, Building
  <1>4. Absent \in FileType
    BY IngestsNat DEF Absent, FileType
  <1>5. /\ tmp' \in [Kind -> FileType] /\ final' \in [Kind -> FileType] /\ final'[k] = tmp[k]
        /\ \A j \in Kind : j # k => tmp'[j] = tmp[j] /\ final'[j] = final[j]
    BY <1>1, <1>4 DEF IngestTypeOK
  <1>6. UNCHANGED <<nextId, failed, firstError, pcw, cur, filled, unsorted, changed, stale>>
    BY <1>1 DEF poolVars, rawVars
  <1>7. IngestTypeOK'
    BY <1>1, <1>2, <1>5, <1>6, TypeKept
  <1>8. FilesBuilt'
    BY <1>1, <1>2, <1>3, <1>5 DEF FilesBuilt, Building, Whole, Kind
  <1>9. LatestFiles'
    <2>1. ingest # 0
      BY <1>1 DEF IngestTypeOK
    <2> QED
      <3>1. ingest \in Nat /\ final'[k].by = ingest /\ final'[k].has = Instruments
        BY <1>3, <1>5, NumbersTyped DEF Whole
      <3>2. \A j \in Kind : /\ final'[j].by <= ingest /\ handle[j].by <= ingest
                            /\ final'[j].by = ingest => final'[j].has = Instruments
                            /\ handle[j].by = ingest => handle[j].has = Instruments
        <4>1. \A j \in Kind : /\ final[j].by <= ingest /\ handle[j].by <= ingest
                              /\ final[j].by = ingest => final[j].has = Instruments
                              /\ handle[j].by = ingest => handle[j].has = Instruments
          <5>1. ingest > 0
            BY <2>1, <3>1
          <5> QED
            BY <5>1 DEF LatestFiles, Whole
        <4> QED
          BY <1>5, <3>1, <4>1
      <3> QED
        BY <1>1, <1>2, <2>1, <3>2 DEF LatestFiles, Whole
  <1> QED
    BY <1>1, <1>2, <1>6, <1>7, <1>8, <1>9

\* A process dies with its threads; what it has published stays.
LEMMA DieKeeps == ASSUME IngestInv, Die PROVE IngestInv'
  <1> USE DEF IngestInv
  <1>1. /\ phase' = "idle" /\ pcw' = [w \in Worker |-> "done"]
        /\ UNCHANGED <<layoutVars, ingest, nextId, failed, firstError, cur, filled, unsorted>>
        /\ UNCHANGED <<changed, stale, tmp, final, rpc, handle>>
    BY DEF Die, rawVars, dirVars, readerVars
  <1>2. n' = n /\ Instruments' = Instruments /\ LayoutTypeOK'
    BY <1>1, SameLayout DEF IngestTypeOK
  <1>3. IngestTypeOK'
    BY <1>1, <1>2, TypeKept
  <1>4. WorkersApart' /\ NothingSkipped' /\ FilesBuilt'
    BY <1>1 DEF WorkersApart, NothingSkipped, FilesBuilt, AtWork, Building
  <1>5. LatestFiles'
    BY <1>1, LatestFilesKept
  <1> QED
    BY <1>1, <1>2, <1>3, <1>4, <1>5

-----------------------------------------------------------------------------
(* The threads of the pool. *)

\* A step of thread w moves w alone.
LEMMA OneMoves ==
    ASSUME IngestInv, NEW w \in Worker, pcw[w] # "done",
           NEW to \in {"poll", "claim", "read", "write", "throw", "done"}, pcw' = [pcw EXCEPT ![w] = to]
    PROVE  /\ phase = "pool" /\ pcw'[w] = to /\ \A v \in Worker : v # w => pcw'[v] = pcw[v]
           /\ pcw' \in [Worker -> {"poll", "claim", "read", "write", "throw", "done"}]
  BY DEF IngestInv, IngestTypeOK, WorkersApart

\* While the pool runs and the files are left alone, the files stay what they are.
LEMMA PoolFilesKept ==
    ASSUME FilesBuilt, phase = "pool",
           UNCHANGED <<layoutVars, phase, ingest, tmp>>, filled \subseteq filled'
    PROVE  FilesBuilt'
  <1>1. DataRecords' = DataRecords /\ LayoutDone' = LayoutDone
    BY SameLayout
  <1> QED
    BY <1>1 DEF FilesBuilt, Building

\* A thread that leaves the loop has seen failed set or everything claimed.
LEMMA PollKeeps == ASSUME IngestInv, NEW w \in Worker, Poll(w) PROVE IngestInv'
  <1>0. /\ IngestTypeOK /\ n <= MaxInstruments /\ failed = firstError /\ filled \cap unsorted = {}
        /\ WorkersApart /\ NothingSkipped /\ FilesBuilt /\ LatestFiles
    BY DEF IngestInv
  <1> DEFINE to == IF failed THEN "done" ELSE "claim"
  <1>1. /\ pcw[w] = "poll" /\ pcw' = [pcw EXCEPT ![w] = to]
        /\ UNCHANGED <<layoutVars, phase, ingest, nextId, failed, firstError, cur, filled, unsorted>>
        /\ UNCHANGED <<changed, stale, tmp, final, rpc, handle>>
    BY DEF Poll, rawVars, dirVars, readerVars
  <1>2. /\ phase = "pool" /\ pcw'[w] = to /\ \A v \in Worker : v # w => pcw'[v] = pcw[v]
        /\ pcw' \in [Worker -> {"poll", "claim", "read", "write", "throw", "done"}]
    BY <1>1, OneMoves
  <1>3. n' = n /\ Instruments' = Instruments /\ LayoutTypeOK'
    BY <1>0, <1>1, SameLayout DEF IngestTypeOK
  <1>4. \A v \in Worker : pcw'[v] \in {"read", "write", "throw"} => pcw[v] = pcw'[v]
    BY <1>2
  <1>5. IngestTypeOK'
    BY <1>0, <1>1, <1>2, <1>3, <1>4 DEF IngestTypeOK
  <1>6. WorkersApart'
    BY <1>0, <1>1, <1>2, <1>4 DEF WorkersApart, AtWork
  <1>7. NothingSkipped'
    <2>1. (\E v \in Worker : pcw'[v] # "done") \/ failed
      BY <1>2
    <2>2. \A i \in Instruments : i < nextId =>
              Copied(i) \/ failed \/ \E v \in Worker : pcw'[v] \in {"read", "write", "throw"} /\ cur[v] = i
      BY <1>0, <1>1, <1>2 DEF NothingSkipped, AtWork
    <2> QED
      BY <1>1, <1>2, <1>3, <2>1, <2>2 DEF NothingSkipped, AtWork, Copied
  <1>8. FilesBuilt' /\ LatestFiles'
    BY <1>0, <1>1, <1>2, PoolFilesKept, LatestFilesKept
  <1> QED
    BY <1>0, <1>1, <1>3, <1>5, <1>6, <1>7, <1>8 DEF IngestInv

\* fetch_add hands every instrument to one thread.
LEMMA ClaimKeeps == ASSUME IngestInv, NEW w \in Worker, Claim(w) PROVE IngestInv'
  <1>0. /\ IngestTypeOK /\ n <= MaxInstruments /\ failed = firstError /\ filled \cap unsorted = {}
        /\ WorkersApart /\ NothingSkipped /\ FilesBuilt /\ LatestFiles
    BY DEF IngestInv
  <1> DEFINE to == IF nextId < n THEN "read" ELSE "done"
  <1>1. /\ pcw[w] = "claim" /\ pcw' = [pcw EXCEPT ![w] = to]
        /\ nextId' = nextId + 1 /\ cur' = [cur EXCEPT ![w] = nextId]
        /\ UNCHANGED <<layoutVars, phase, ingest, failed, firstError, filled, unsorted>>
        /\ UNCHANGED <<changed, stale, tmp, final, rpc, handle>>
    BY DEF Claim, MoreInstruments, rawVars, dirVars, readerVars
  <1>2. /\ phase = "pool" /\ pcw'[w] = to /\ \A v \in Worker : v # w => pcw'[v] = pcw[v]
        /\ pcw' \in [Worker -> {"poll", "claim", "read", "write", "throw", "done"}]
    BY <1>1, OneMoves
  <1>3. n' = n /\ Instruments' = Instruments /\ LayoutTypeOK'
    BY <1>0, <1>1, SameLayout DEF IngestTypeOK
  <1>4. nextId \in Nat /\ n \in Nat /\ cur \in [Worker -> Nat]
    BY <1>0 DEF IngestTypeOK, LayoutTypeOK
  <1>5. /\ cur' \in [Worker -> Nat] /\ cur'[w] = nextId /\ \A v \in Worker : v # w => cur'[v] = cur[v]
    BY <1>1, <1>4
  <1>6. pcw'[w] \in {"read", "write", "throw"} => nextId \in Instruments /\ pcw'[w] = "read"
    BY <1>2, <1>4 DEF Instruments
  <1>7. IngestTypeOK'
    <2>1. \A v \in Worker : pcw'[v] \in {"read", "write", "throw"} => cur'[v] \in Instruments
      BY <1>0, <1>2, <1>5, <1>6 DEF IngestTypeOK
    <2>2. nextId' \in Nat
      BY <1>1, <1>4
    <2> QED
      BY <1>0, <1>1, <1>2, <1>3, <1>5, <2>1, <2>2 DEF IngestTypeOK
  <1>8. WorkersApart'
    <2>1. \A v \in Worker : pcw'[v] # "done" => phase' = "pool"
      BY <1>1, <1>2
    <2>2. \A v \in Worker : v # w /\ pcw'[v] \in {"read", "write", "throw"} =>
              pcw[v] = pcw'[v] /\ cur'[v] = cur[v] /\ cur[v] < nextId /\ cur[v] \in Nat
      BY <1>0, <1>2, <1>4, <1>5 DEF WorkersApart, AtWork
    <2>3. \A v \in Worker : pcw'[v] \in {"read", "write", "throw"} => cur'[v] < nextId'
      BY <1>1, <1>4, <1>5, <2>2
    <2>4. ASSUME NEW u \in Worker, NEW v \in Worker, cur'[u] = cur'[v],
                 pcw'[u] \in {"read", "write", "throw"}, pcw'[v] \in {"read", "write", "throw"}
          PROVE  u = v
      <3>1. CASE u # w /\ v # w
        BY <1>0, <2>2, <2>4, <3>1 DEF WorkersApart, AtWork
      <3>2. CASE u = w /\ v # w
        BY <1>4, <1>5, <2>2, <2>4, <3>2
      <3>3. CASE u # w /\ v = w
        BY <1>4, <1>5, <2>2, <2>4, <3>3
      <3> QED
        BY <3>1, <3>2, <3>3
    <2>5. \A v \in Worker : pcw'[v] = "write" => cur'[v] \in filled
      BY <1>0, <1>2, <2>2 DEF WorkersApart
    <2> QED
      BY <1>1, <2>1, <2>3, <2>4, <2>5 DEF WorkersApart, AtWork
  <1>9. NothingSkipped'
    <2>1. (\E v \in Worker : pcw'[v] # "done") \/ n <= nextId'
      BY <1>1, <1>2, <1>4
    <2>2. ASSUME NEW i \in Instruments, i < nextId'
          PROVE  Copied(i) \/ failed \/ \E v \in Worker : pcw'[v] \in {"read", "write", "throw"} /\ cur'[v] = i
      <3>1. i < nextId \/ i = nextId
        BY <1>1, <1>4, <2>2 DEF Instruments
      <3>2. CASE i < nextId
        <4>1. \A v \in Worker : AtWork(v) => v # w
          BY <1>1 DEF AtWork
        <4> QED
          BY <1>0, <1>2, <1>5, <3>2, <4>1 DEF NothingSkipped, AtWork
      <3>3. CASE i = nextId
        BY <1>2, <1>4, <1>5, <3>3 DEF Instruments
      <3> QED
        BY <3>1, <3>2, <3>3
    <2> QED
      BY <1>1, <1>2, <1>3, <2>1, <2>2 DEF NothingSkipped, AtWork, Copied
  <1>10. FilesBuilt' /\ LatestFiles'
    BY <1>0, <1>1, <1>2, PoolFilesKept, LatestFilesKept
  <1> QED
    BY <1>0, <1>1, <1>3, <1>7, <1>8, <1>9, <1>10 DEF IngestInv

\* A thread accepts its own instrument, or refuses it and throws.
LEMMA ReadKeeps == ASSUME IngestInv, NEW w \in Worker, Read(w) PROVE IngestInv'
  <1>0. /\ IngestTypeOK /\ n <= MaxInstruments /\ failed = firstError /\ filled \cap unsorted = {}
        /\ WorkersApart /\ NothingSkipped /\ FilesBuilt /\ LatestFiles
    BY DEF IngestInv
  <1>1. /\ pcw[w] = "read" /\ stale' = stale \cup ({cur[w]} \cap changed)
        /\ UNCHANGED <<layoutVars, phase, ingest, nextId, failed, firstError, cur, unsorted>>
        /\ UNCHANGED <<changed, tmp, final, rpc, handle>>
    BY DEF Read, dirVars, readerVars
  <1>2. PICK to \in {"write", "throw"} :
            /\ pcw' = [pcw EXCEPT ![w] = to]
            /\ \/ to = "write" /\ filled' = filled \cup {cur[w]} /\ cur[w] \notin unsorted
               \/ to = "throw" /\ filled' = filled
    BY DEF Read, Accepts
  <1>3. /\ phase = "pool" /\ pcw'[w] = to /\ \A v \in Worker : v # w => pcw'[v] = pcw[v]
        /\ pcw' \in [Worker -> {"poll", "claim", "read", "write", "throw", "done"}]
    BY <1>1, <1>2, OneMoves
  <1>4. n' = n /\ Instruments' = Instruments /\ LayoutTypeOK'
    BY <1>0, <1>1, SameLayout DEF IngestTypeOK
  <1>5. cur[w] \in Instruments
    BY <1>0, <1>1 DEF IngestTypeOK
  <1>6. \A v \in Worker : pcw'[v] \in {"read", "write", "throw"} <=> pcw[v] \in {"read", "write", "throw"}
    BY <1>1, <1>3
  <1>7. IngestTypeOK'
    <2>1. filled' \subseteq Instruments /\ stale' \subseteq changed
      BY <1>0, <1>1, <1>2, <1>5 DEF IngestTypeOK
    <2> QED
      BY <1>0, <1>1, <1>3, <1>4, <1>6, <2>1 DEF IngestTypeOK
  <1>8. WorkersApart'
    <2>1. \A v \in Worker : pcw'[v] = "write" => cur[v] \in filled'
      BY <1>0, <1>2, <1>3 DEF WorkersApart
    <2> QED
      BY <1>0, <1>1, <1>3, <1>6, <2>1 DEF WorkersApart, AtWork
  <1>9. NothingSkipped'
    <2>1. \E v \in Worker : pcw'[v] # "done"
      BY <1>3
    <2>2. \A i \in Instruments : i < nextId =>
              Copied(i)' \/ failed \/ \E v \in Worker : pcw'[v] \in {"read", "write", "throw"} /\ cur[v] = i
      BY <1>0, <1>1, <1>2, <1>3, <1>6 DEF NothingSkipped, AtWork, Copied
    <2> QED
      BY <1>1, <1>3, <1>4, <2>1, <2>2 DEF NothingSkipped, AtWork
  <1>10. FilesBuilt' /\ LatestFiles'
    BY <1>0, <1>1, <1>2, <1>3, PoolFilesKept, LatestFilesKept
  <1>11. filled' \cap unsorted' = {}
    BY <1>0, <1>1, <1>2
  <1> QED
    BY <1>0, <1>1, <1>3, <1>4, <1>7, <1>8, <1>9, <1>10, <1>11 DEF IngestInv

\* A thread that has written an instrument it had accepted has copied it.
LEMMA WriteKeeps == ASSUME IngestInv, NEW w \in Worker, Write(w) PROVE IngestInv'
  <1>0. /\ IngestTypeOK /\ n <= MaxInstruments /\ failed = firstError /\ filled \cap unsorted = {}
        /\ WorkersApart /\ NothingSkipped /\ FilesBuilt /\ LatestFiles
    BY DEF IngestInv
  <1>1. /\ pcw[w] = "write"
        /\ UNCHANGED <<layoutVars, phase, ingest, nextId, failed, firstError, cur, filled, unsorted>>
        /\ UNCHANGED <<changed, stale, final, rpc, handle>>
    BY DEF Write, rawVars, readerVars
  <1>2. PICK to \in {"poll", "throw"} :
            /\ pcw' = [pcw EXCEPT ![w] = to]
            /\ \/ to = "poll" /\ tmp' = [tmp EXCEPT !["data"].has = @ \cup {cur[w]}]
               \/ to = "throw" /\ tmp' = tmp
    BY DEF Write
  <1>3. /\ phase = "pool" /\ pcw'[w] = to /\ \A v \in Worker : v # w => pcw'[v] = pcw[v]
        /\ pcw' \in [Worker -> {"poll", "claim", "read", "write", "throw", "done"}]
    BY <1>1, <1>2, OneMoves
  <1>4. n' = n /\ Instruments' = Instruments /\ DataRecords' = DataRecords /\ LayoutDone' = LayoutDone /\ LayoutTypeOK'
    BY <1>0, <1>1, SameLayout DEF IngestTypeOK
  <1>5. cur[w] \in Instruments /\ cur[w] \in filled /\ cur[w] \in 0 .. MaxInstruments - 1
    BY <1>0, <1>1, InstrumentsNat DEF IngestTypeOK, LayoutTypeOK, WorkersApart, Instruments
  <1>6. /\ tmp' \in [Kind -> FileType]
        /\ tmp'["data"].by = tmp["data"].by /\ tmp'["data"].length = tmp["data"].length
        /\ tmp'["data"].has = (IF to = "poll" THEN tmp["data"].has \cup {cur[w]} ELSE tmp["data"].has)
    <2>1. tmp \in [Kind -> FileType] /\ "data" \in Kind
      BY <1>0 DEF IngestTypeOK, Kind
    <2>2. tmp["data"] \in FileType
      BY <2>1
    <2> DEFINE new == [tmp["data"] EXCEPT !.has = @ \cup {cur[w]}]
    <2>3. new \in FileType /\ new.by = tmp["data"].by /\ new.length = tmp["data"].length
          /\ new.has = tmp["data"].has \cup {cur[w]}
      BY <1>5, <2>2 DEF FileType
    <2>4. CASE to = "poll"
      <3>1. tmp' = [tmp EXCEPT !["data"] = new]
        BY <1>2, <2>4
      <3> HIDE DEF new
      <3> QED
        BY <2>1, <2>3, <2>4, <3>1
    <2>5. CASE to = "throw"
      BY <1>2, <2>1, <2>5
    <2> QED
      BY <2>4, <2>5
  <1>7. \A v \in Worker : v # w => (pcw'[v] \in {"read", "write", "throw"} <=> pcw[v] \in {"read", "write", "throw"})
    BY <1>1, <1>3
  <1>8. \A v \in Worker : pcw'[v] \in {"read", "write", "throw"} => pcw[v] \in {"read", "write", "throw"}
    BY <1>1, <1>3
  <1>9. IngestTypeOK'
    BY <1>0, <1>1, <1>3, <1>4, <1>6, <1>8 DEF IngestTypeOK
  <1>10. WorkersApart'
    <2>1. \A v \in Worker : pcw'[v] = "write" => pcw[v] = "write"
      BY <1>3
    <2> QED
      BY <1>0, <1>1, <1>3, <1>8, <2>1 DEF WorkersApart, AtWork
  <1>11. NothingSkipped'
    <2>1. \E v \in Worker : pcw'[v] # "done"
      BY <1>3
    <2>2. ASSUME NEW i \in Instruments, i < nextId
          PROVE  \/ i \in filled /\ i \in tmp'["data"].has
                 \/ failed
                 \/ \E v \in Worker : pcw'[v] \in {"read", "write", "throw"} /\ cur[v] = i
      <3>1. CASE Copied(i) \/ failed
        BY <1>6, <3>1 DEF Copied
      <3>2. ASSUME NEW v \in Worker, AtWork(v), cur[v] = i
            PROVE  \/ i \in filled /\ i \in tmp'["data"].has
                   \/ \E u \in Worker : pcw'[u] \in {"read", "write", "throw"} /\ cur[u] = i
        <4>1. CASE v # w
          BY <1>7, <3>2, <4>1 DEF AtWork
        <4>2. CASE v = w
          BY <1>2, <1>3, <1>5, <1>6, <3>2, <4>2
        <4> QED
          BY <4>1, <4>2
      <3> QED
        BY <1>0, <1>3, <2>2, <3>1, <3>2 DEF NothingSkipped
    <2> QED
      BY <1>1, <1>3, <1>4, <2>1, <2>2 DEF NothingSkipped, AtWork, Copied
  <1>12. FilesBuilt'
    <2>1. tmp'["data"].has \subseteq filled
      BY <1>0, <1>3, <1>5, <1>6 DEF FilesBuilt
    <2> QED
      BY <1>0, <1>1, <1>3, <1>4, <1>6, <2>1 DEF FilesBuilt, Building
  <1>13. LatestFiles'
    BY <1>0, <1>1, LatestFilesKept
  <1> QED
    BY <1>0, <1>1, <1>3, <1>4, <1>9, <1>10, <1>11, <1>12, <1>13 DEF IngestInv

\* The handler sets failed, which excuses the instrument given up.
LEMMA CatchKeeps == ASSUME IngestInv, NEW w \in Worker, Catch(w) PROVE IngestInv'
  <1>0. /\ IngestTypeOK /\ n <= MaxInstruments /\ failed = firstError /\ filled \cap unsorted = {}
        /\ WorkersApart /\ NothingSkipped /\ FilesBuilt /\ LatestFiles
    BY DEF IngestInv
  <1>1. /\ pcw[w] = "throw" /\ pcw' = [pcw EXCEPT ![w] = "done"] /\ failed' = TRUE /\ firstError' = TRUE
        /\ UNCHANGED <<layoutVars, phase, ingest, nextId, cur, filled, unsorted>>
        /\ UNCHANGED <<changed, stale, tmp, final, rpc, handle>>
    BY DEF Catch, AfterError, rawVars, dirVars, readerVars
  <1>2. /\ phase = "pool" /\ pcw'[w] = "done" /\ \A v \in Worker : v # w => pcw'[v] = pcw[v]
        /\ pcw' \in [Worker -> {"poll", "claim", "read", "write", "throw", "done"}]
    BY <1>1, OneMoves
  <1>3. n' = n /\ Instruments' = Instruments /\ LayoutTypeOK'
    BY <1>0, <1>1, SameLayout DEF IngestTypeOK
  <1>4. \A v \in Worker : pcw'[v] # "done" => pcw[v] = pcw'[v]
    BY <1>2
  <1>5. IngestTypeOK'
    BY <1>0, <1>1, <1>2, <1>3, <1>4 DEF IngestTypeOK
  <1>6. WorkersApart'
    BY <1>0, <1>1, <1>2, <1>4 DEF WorkersApart, AtWork
  <1>7. NothingSkipped'
    BY <1>1, <1>2 DEF NothingSkipped
  <1>8. FilesBuilt' /\ LatestFiles'
    BY <1>0, <1>1, <1>2, PoolFilesKept, LatestFilesKept
  <1> QED
    BY <1>0, <1>1, <1>2, <1>3, <1>5, <1>6, <1>7, <1>8 DEF IngestInv

-----------------------------------------------------------------------------
(* The surroundings. *)

\* A raw file that changes has no part in what is in the temporary files.
LEMMA ChangeRawKeeps == ASSUME IngestInv, NEW i \in Instruments, ChangeRaw(i) PROVE IngestInv'
  <1>0. /\ IngestTypeOK /\ n <= MaxInstruments /\ failed = firstError /\ filled \cap unsorted = {}
        /\ (phase # "idle" => ingest > 0) /\ WorkersApart /\ NothingSkipped /\ FilesBuilt /\ LatestFiles
    BY DEF IngestInv
  <1>1. /\ changed' = changed \cup {i}
        /\ UNCHANGED <<layoutVars, phase, ingest, nextId, failed, firstError, pcw, cur, filled, unsorted>>
        /\ UNCHANGED <<stale, tmp, final, rpc, handle>>
    BY DEF ChangeRaw, poolVars, dirVars, readerVars
  <1>2. n' = n /\ Instruments' = Instruments /\ DataRecords' = DataRecords /\ LayoutDone' = LayoutDone /\ LayoutTypeOK'
    BY <1>0, <1>1, SameLayout DEF IngestTypeOK
  <1>3. IngestTypeOK'
    BY <1>0, <1>1, <1>2 DEF IngestTypeOK
  <1>4. WorkersApart' /\ NothingSkipped'
    BY <1>0, <1>1, <1>2 DEF WorkersApart, NothingSkipped, AtWork, Copied
  <1>5. FilesBuilt' /\ LatestFiles'
    BY <1>0, <1>1, <1>2, LatestFilesKept DEF FilesBuilt, Building, Whole
  <1> QED
    BY <1>0, <1>1, <1>2, <1>3, <1>4, <1>5 DEF IngestInv

\* A reader changes nothing but what it has mapped.
LEMMA ReaderKeeps ==
    ASSUME IngestInv, UNCHANGED <<layoutVars, phase, ingest, poolVars, rawVars, dirVars>>,
           rpc' \in {"closed", "index", "data", "open"}, handle' \in [Kind -> FileType], LatestFiles'
    PROVE  IngestInv'
  <1>0. /\ IngestTypeOK /\ n <= MaxInstruments /\ failed = firstError /\ filled \cap unsorted = {}
        /\ (phase # "idle" => ingest > 0) /\ WorkersApart /\ NothingSkipped /\ FilesBuilt
    BY DEF IngestInv
  <1>1. /\ UNCHANGED <<phase, ingest, nextId, failed, firstError, pcw, cur, filled, unsorted, changed>>
        /\ UNCHANGED <<stale, tmp, final>>
    BY DEF poolVars, rawVars, dirVars
  <1>2. n' = n /\ Instruments' = Instruments /\ DataRecords' = DataRecords /\ LayoutDone' = LayoutDone /\ LayoutTypeOK'
    BY <1>0, SameLayout DEF IngestTypeOK
  <1>3. IngestTypeOK'
    BY <1>0, <1>1, <1>2 DEF IngestTypeOK
  <1>4. WorkersApart' /\ NothingSkipped'
    BY <1>0, <1>1, <1>2 DEF WorkersApart, NothingSkipped, AtWork, Copied
  <1>5. FilesBuilt'
    BY <1>0, <1>1, <1>2 DEF FilesBuilt, Building, Whole
  <1> QED
    BY <1>0, <1>1, <1>2, <1>3, <1>4, <1>5 DEF IngestInv

\* The reader maps a published file under the next of its handles.
LEMMA MapKeeps ==
    ASSUME IngestInv, NEW k \in Kind, final[k] # Absent, NEW from, NEW to, Map(k, from, to),
           <<k, from, to>> \in {<<"index", "closed", "index">>, <<"data", "index", "data">>,
                                <<"segments", "data", "open">>}
    PROVE  IngestInv'
  <1>0. IngestTypeOK /\ LatestFiles
    BY DEF IngestInv
  <1>1. /\ rpc = from /\ rpc' = to /\ handle' = [handle EXCEPT ![k] = final[k]]
        /\ UNCHANGED <<layoutVars, phase, ingest, poolVars, rawVars, dirVars>> /\ final' = final /\ ingest' = ingest
    BY DEF Map, dirVars
  <1>2. /\ handle' \in [Kind -> FileType] /\ handle'[k] = final[k]
        /\ \A j \in Kind : j # k => handle'[j] = handle[j]
    BY <1>0, <1>1 DEF IngestTypeOK
  <1>3. Instruments' = Instruments
    BY <1>1, SameLayout
  <1>4. LatestFiles'
    <2>1. \A j \in Kind : (ingest = 0 => final'[j] = Absent /\ handle'[j] = Absent)
      BY <1>0, <1>1, <1>2 DEF LatestFiles
    <2>2. \A j \in Kind : final'[j].by <= ingest /\ handle'[j].by <= ingest
      BY <1>0, <1>1, <1>2 DEF LatestFiles
    <2>3. ingest > 0 => \A j \in Kind : /\ final'[j].by = ingest => Whole(final'[j])
                                        /\ handle'[j].by = ingest => Whole(handle'[j])
      BY <1>0, <1>1, <1>2 DEF LatestFiles
    <2> QED
      BY <1>1, <1>3, <2>1, <2>2, <2>3 DEF LatestFiles, Whole
  <1> QED
    BY <1>1, <1>2, <1>4, ReaderKeeps

\* A reader maps what is published at that moment, which in a first ingest is whole.
LEMMA ReaderStepKeeps == ASSUME IngestInv, ReaderStep PROVE IngestInv'
  <1>1. CASE OpenIndex
    BY <1>1, MapKeeps DEF OpenIndex, Kind
  <1>2. CASE OpenData
    BY <1>2, MapKeeps DEF OpenData, Kind
  <1>3. CASE OpenSegments
    BY <1>3, MapKeeps DEF OpenSegments, Kind
  <1>4. CASE CloseStore
    <2>1. /\ rpc' = "closed" /\ handle' = [k \in Kind |-> Absent] /\ final' = final /\ ingest' = ingest
          /\ UNCHANGED <<layoutVars, phase, ingest, poolVars, rawVars, dirVars>>
      BY <1>4 DEF CloseStore, dirVars
    <2>2. Absent \in FileType
      BY IngestsNat DEF Absent, FileType
    <2>3. LatestFiles'
      <3>1. Instruments' = Instruments
        BY <2>1, SameLayout
      <3>2. LatestFiles
        BY DEF IngestInv
      <3> QED
        <4>1. /\ \A k \in Kind : handle'[k] = Absent
              /\ ingest \in Nat
          BY <2>1, NumbersTyped DEF IngestInv
        <4>2. \A k \in Kind : handle'[k].by <= ingest /\ (ingest > 0 => handle'[k].by # ingest)
          BY <4>1, AbsentBy
        <4> QED
          BY <2>1, <3>1, <3>2, <4>1, <4>2 DEF LatestFiles, Whole
    <2> QED
      BY <2>1, <2>2, <2>3, ReaderKeeps
  <1> QED
    BY <1>1, <1>2, <1>3, <1>4 DEF ReaderStep

\* The invariant speaks of the variables only.
LEMMA IngestStutter == ASSUME IngestInv, UNCHANGED vars PROVE IngestInv'
  <1>1. UNCHANGED <<layoutVars, phase, ingest, poolVars, rawVars, dirVars, rpc, handle>> /\ UNCHANGED <<final>>
    BY DEF vars, readerVars, dirVars
  <1>2. LatestFiles /\ rpc \in {"closed", "index", "data", "open"} /\ handle \in [Kind -> FileType]
    BY DEF IngestInv, IngestTypeOK
  <1>3. LatestFiles'
    BY <1>1, <1>2, LatestFilesKept
  <1> QED
    BY <1>1, <1>2, <1>3, ReaderKeeps

\* Every step of an ingest, its threads and a reader keeps the invariant.
LEMMA IngestStep == LayoutInv /\ IngestInv /\ [NextIngest]_vars => IngestInv'
  <1> SUFFICES ASSUME LayoutInv, IngestInv, [NextIngest]_vars PROVE IngestInv'
    OBVIOUS
  <1>1. ASSUME NEW m \in 0 .. MaxInstruments, NEW c \in Raws(m), NEW bad, Start(m, c, bad)
        PROVE  IngestInv'
    BY <1>1, StartKeeps
  <1>2. CASE MainStep
    BY <1>2, LayOutKeeps, CreateFilesKeeps, JoinPoolKeeps, WriteIndexKeeps, WriteSegmentsKeeps, RenameKeeps
       DEF MainStep
  <1>3. CASE Die
    BY <1>3, DieKeeps
  <1>4. ASSUME NEW w \in Worker, WorkerStep(w) PROVE IngestInv'
    BY <1>4, PollKeeps, ClaimKeeps, ReadKeeps, WriteKeeps, CatchKeeps DEF WorkerStep
  <1>5. ASSUME NEW i \in Instruments, ChangeRaw(i) PROVE IngestInv'
    BY <1>5, ChangeRawKeeps
  <1>6. CASE ReaderStep
    BY <1>6, ReaderStepKeeps
  <1>7. CASE UNCHANGED vars
    BY <1>7, IngestStutter
  <1> QED
    BY <1>1, <1>2, <1>3, <1>4, <1>5, <1>6, <1>7 DEF NextIngest

\* The invariant holds with that of the layout, which Ingest extends.
LEMMA IngestInvariant == SpecIngest => []IngestInv
  <1> QED
    BY IngestInit, IngestStep, IngestLayout, PTL DEF SpecIngest

-----------------------------------------------------------------------------
\* The locals of run(), the directory and a reader keep their types, and a thread that works on an
\* instrument works on one that exists, for any number of threads that claim with fetch_add.
THEOREM IngestTypesOK == SpecIngest => []IngestTypeOK
  <1>1. IngestInv => IngestTypeOK
    BY DEF IngestInv
  <1> QED
    BY <1>1, IngestInvariant, PTL

\* Two threads never write into one alignment unit of data.db at the same time, nor beyond the
\* length the file was given: fetch_add keeps their instruments apart, the layout the units.
THEOREM IngestWritersApart == SpecIngest => []WritersApart
  <1>1. LayoutInv /\ IngestInv => WritersApart
    <2> SUFFICES ASSUME LayoutInv, IngestInv, NEW w \in Worker, NEW v \in Worker, pcw[w] = "write"
                 PROVE  /\ RecordsEnd(cur[w]) <= tmp["data"].length
                        /\ w # v /\ pcw[v] = "write" /\ HasRecords(cur[w]) /\ HasRecords(cur[v]) =>
                              Pages(cur[w]) \cap Pages(cur[v]) = {}
      BY DEF WritersApart
    <2>1. phase = "pool" /\ cur[w] \in Instruments /\ AtWork(w)
      BY DEF IngestInv, IngestTypeOK, WorkersApart, AtWork
    <2>2. LayoutDone /\ tmp["data"].length = DataRecords
      BY <2>1 DEF IngestInv, FilesBuilt
    <2>3. cur[w] \in Placed
      BY <2>1, <2>2 DEF Instruments, Placed, LayoutDone
    <2>4. RecordsEnd(cur[w]) <= DataRecords
      <3>1. RecordsEnd(cur[w]) <= cursor /\ cursor \in Nat
        BY <2>3 DEF LayoutInv, LayoutTypeOK, RecordsBehind
      <3>2. table[cur[w]] \in Entry
        BY <2>2, <2>3 DEF LayoutInv, LayoutTypeOK, Placed, LayoutDone
      <3>3. RecordsEnd(cur[w]) \in Int
        BY <3>2 DEF RecordsEnd, Entry
      <3>4. cursor <= DataRecords /\ DataRecords \in Int
        BY <3>1, AlignUpFacts DEF DataRecords
      <3> QED
        BY <3>1, <3>3, <3>4
    <2>5. ASSUME w # v, pcw[v] = "write", HasRecords(cur[w]), HasRecords(cur[v])
          PROVE  Pages(cur[w]) \cap Pages(cur[v]) = {}
      <3>1. cur[w] # cur[v] /\ cur[w] \in Placed /\ cur[v] \in Placed /\ cur[w] \in Int /\ cur[v] \in Int
        BY <2>1, <2>5 DEF IngestInv, WorkersApart, AtWork, HasRecords, Placed
      <3>2. CASE cur[w] < cur[v]
        BY <2>5, <3>1, <3>2, BoundarySeparates
      <3>3. CASE cur[v] < cur[w]
        BY <2>5, <3>1, <3>3, BoundarySeparates
      <3> QED
        BY <3>1, <3>2, <3>3
    <2> QED
      BY <2>2, <2>4, <2>5
  <1> QED
    BY <1>1, IngestLayout, IngestInvariant, PTL

\* No file is published before all three are complete and every instrument was accepted, whatever
\* fails and whichever threads see it: a process that dies earlier leaves the old files alone.
THEOREM IngestPublishesOnlyWhole == SpecIngest => PublishesOnlyWhole
  <1>1. IngestInv /\ [NextIngest]_vars =>
            [final' # final =>
                /\ unsorted = {} /\ ~failed
                /\ \A k \in Kind : Whole(tmp[k]) \/ Whole(final[k])
                /\ tmp["index"].length = DataRecords]_final
    <2> SUFFICES ASSUME IngestInv, [NextIngest]_vars, final' # final
                 PROVE  /\ unsorted = {} /\ ~failed
                        /\ \A k \in Kind : Whole(tmp[k]) \/ Whole(final[k])
                        /\ tmp["index"].length = DataRecords
      OBVIOUS
    <2>1. phase \in {"rename1", "rename2", "rename3"}
      <3>1. ASSUME NEW i \in 1 .. 3, Rename(i) PROVE phase \in {"rename1", "rename2", "rename3"}
        BY <3>1 DEF Rename
      <3>2. CASE UNCHANGED vars
        BY <3>2 DEF vars, dirVars
      <3>3. ASSUME NEW m, NEW c, NEW bad, Start(m, c, bad) PROVE FALSE
        BY <3>3 DEF Start, dirVars
      <3>4. ASSUME NEW w \in Worker, WorkerStep(w) PROVE FALSE
        BY <3>4 DEF WorkerStep, Poll, Claim, Read, Write, Catch, dirVars
      <3>5. ~ReaderStep
        BY DEF ReaderStep, OpenIndex, OpenData, OpenSegments, Map, CloseStore, dirVars
      <3>6. ~Die /\ \A i \in Instruments : ~ChangeRaw(i)
        BY DEF Die, ChangeRaw, dirVars
      <3>7. ~LayOut /\ ~CreateFiles /\ ~JoinPool /\ ~WriteIndex /\ ~WriteSegments
        BY DEF LayOut, CreateFiles, JoinPool, WriteIndex, WriteSegments, dirVars
      <3> QED
        BY <3>1, <3>2, <3>3, <3>4, <3>5, <3>6, <3>7 DEF NextIngest, MainStep
    <2>2. FilesBuilt
      BY DEF IngestInv
    <2> QED
      BY <2>1, <2>2 DEF FilesBuilt, Building, Kind
  <1> QED
    BY <1>1, IngestInvariant, PTL DEF SpecIngest, PublishesOnlyWhole

\* A rename publishes a file of this ingest, of which no published file is newer, and only after
\* those that must not be older.
LEMMA RenameInOrder ==
    ASSUME IngestInv, PublishedInOrder, NEW i \in 1 .. 3, Rename(i)
    PROVE  PublishedInOrder'
  <1>0. IngestTypeOK /\ FilesBuilt
    BY DEF IngestInv
  <1>1. /\ phase = <<"rename1", "rename2", "rename3">>[i]
        /\ final' = [final EXCEPT ![RenameOrder[i]] = tmp[RenameOrder[i]]]
        /\ ingest' = ingest /\ rpc' = rpc /\ handle' = handle
    BY DEF Rename, readerVars
  <1>2. /\ ingest \in Nat
        /\ \A k \in Kind : tmp[k].by \in Nat /\ final[k].by \in Nat /\ handle[k].by \in Nat
        /\ \A k \in Kind : final[k].by <= ingest
    BY <1>0, NumbersTyped DEF IngestInv, LatestFiles
  <1>3. DOMAIN final = Kind
    BY <1>0 DEF IngestTypeOK
  <1>4. CASE i = 1
    <2>1. phase = "rename1" /\ final' = [final EXCEPT !["data"] = tmp["data"]] /\ tmp["data"].by = ingest
      BY <1>0, <1>1, <1>4 DEF RenameOrder, FilesBuilt, Whole
    <2>2. /\ final'["data"].by = ingest
          /\ final'["segments"] = final["segments"] /\ final'["index"] = final["index"]
      BY <1>3, <2>1 DEF Kind
    <2> QED
      BY <1>1, <1>2, <2>2 DEF PublishedInOrder, Kind
  <1>5. CASE i = 2
    <2>1. /\ phase = "rename2" /\ final' = [final EXCEPT !["segments"] = tmp["segments"]]
          /\ tmp["segments"].by = ingest /\ final["data"].by = ingest
      BY <1>0, <1>1, <1>5 DEF RenameOrder, FilesBuilt, Whole
    <2>2. /\ final'["segments"].by = ingest
          /\ final'["data"] = final["data"] /\ final'["index"] = final["index"]
      BY <1>3, <2>1 DEF Kind
    <2> QED
      BY <1>1, <1>2, <2>1, <2>2 DEF PublishedInOrder, Kind
  <1>6. CASE i = 3
    <2>1. /\ phase = "rename3" /\ final' = [final EXCEPT !["index"] = tmp["index"]]
          /\ tmp["index"].by = ingest /\ final["data"].by = ingest /\ final["segments"].by = ingest
      BY <1>0, <1>1, <1>6 DEF RenameOrder, FilesBuilt, Building, Whole
    <2>2. /\ final'["index"].by = ingest
          /\ final'["data"] = final["data"] /\ final'["segments"] = final["segments"]
      BY <1>3, <2>1 DEF Kind
    <2> QED
      BY <1>1, <1>2, <2>1, <2>2 DEF PublishedInOrder, Kind
  <1> QED
    BY <1>4, <1>5, <1>6

\* The reader goes from the file that is published last to those published before it.
LEMMA ReaderInOrder ==
    ASSUME IngestInv, PublishedInOrder, ReaderStep
    PROVE  PublishedInOrder'
  <1>0. /\ IngestTypeOK /\ DOMAIN handle = Kind
        /\ ingest \in Nat
        /\ \A k \in Kind : final[k].by \in Nat /\ handle[k].by \in Nat
    BY NumbersTyped DEF IngestInv, IngestTypeOK
  <1>1. final' = final /\ ingest' = ingest
    BY DEF ReaderStep, OpenIndex, OpenData, OpenSegments, Map, CloseStore, dirVars
  <1>2. CASE OpenIndex
    <2>1. rpc' = "index" /\ handle' = [handle EXCEPT !["index"] = final["index"]]
      BY <1>2 DEF OpenIndex, Map
    <2>2. handle'["index"] = final["index"]
      BY <1>0, <2>1 DEF Kind
    <2> QED
      BY <1>0, <1>1, <2>1, <2>2 DEF PublishedInOrder, Kind
  <1>3. CASE OpenData
    <2>1. rpc' = "data" /\ handle' = [handle EXCEPT !["data"] = final["data"]]
      BY <1>3 DEF OpenData, Map
    <2>2. handle'["data"] = final["data"] /\ handle'["index"] = handle["index"]
      BY <1>0, <2>1 DEF Kind
    <2> QED
      BY <1>0, <1>1, <2>1, <2>2 DEF PublishedInOrder, Kind
  <1>4. CASE OpenSegments
    <2>1. rpc = "data" /\ rpc' = "open" /\ handle' = [handle EXCEPT !["segments"] = final["segments"]]
      BY <1>4 DEF OpenSegments, Map
    <2>2. /\ handle'["segments"] = final["segments"] /\ handle'["data"] = handle["data"]
          /\ handle'["index"] = handle["index"]
      BY <1>0, <2>1 DEF Kind
    <2> QED
      BY <1>0, <1>1, <2>1, <2>2 DEF PublishedInOrder, Kind
  <1>5. CASE CloseStore
    <2>1. rpc' = "closed" /\ handle'["index"].by = 0
      BY <1>5 DEF CloseStore, Absent, Kind
    <2> QED
      BY <1>0, <1>1, <2>1 DEF PublishedInOrder, Kind
  <1> QED
    BY <1>2, <1>3, <1>4, <1>5 DEF ReaderStep

\* No other step touches published files or the reader, and the numbers of ingests grow.
LEMMA PublishedStep == IngestInv /\ PublishedInOrder /\ [NextIngest]_vars => PublishedInOrder'
  <1> SUFFICES ASSUME IngestInv, PublishedInOrder, [NextIngest]_vars PROVE PublishedInOrder'
    OBVIOUS
  <1>1. ASSUME UNCHANGED <<final, rpc, handle>>, ingest' = ingest \/ ingest' = ingest + 1
        PROVE  PublishedInOrder'
    <2>1. ingest \in Nat /\ \A k \in Kind : final[k].by \in Nat
      BY NumbersTyped DEF IngestInv
    <2> QED
      BY <1>1, <2>1 DEF PublishedInOrder
  <1>2. ASSUME NEW m, NEW c, NEW bad, Start(m, c, bad) PROVE PublishedInOrder'
    BY <1>1, <1>2 DEF Start, dirVars, readerVars
  <1>3. CASE LayOut \/ CreateFiles \/ JoinPool \/ WriteIndex \/ WriteSegments
    BY <1>1, <1>3 DEF LayOut, CreateFiles, JoinPool, WriteIndex, WriteSegments, dirVars, readerVars
  <1>4. CASE Die
    BY <1>1, <1>4 DEF Die, dirVars, readerVars
  <1>5. ASSUME NEW w \in Worker, WorkerStep(w) PROVE PublishedInOrder'
    BY <1>1, <1>5 DEF WorkerStep, Poll, Claim, Read, Write, Catch, dirVars, readerVars
  <1>6. ASSUME NEW i \in Instruments, ChangeRaw(i) PROVE PublishedInOrder'
    BY <1>1, <1>6 DEF ChangeRaw, dirVars, readerVars
  <1>7. CASE UNCHANGED vars
    BY <1>1, <1>7 DEF vars, dirVars, readerVars
  <1> QED
    BY <1>2, <1>3, <1>4, <1>5, <1>6, <1>7, RenameInOrder, ReaderInOrder DEF NextIngest, MainStep

\* Whatever ingests went before and wherever they died, a store that opens has no index newer than
\* its records and segments, and with the index of the latest ingest it is that ingest's, complete:
\* index.idx is published last and opened first.
THEOREM IngestIndexGoesLast == SpecIngest => []IndexGoesLast
  <1>1. InitIngest => PublishedInOrder
    BY DEF InitIngest, PublishedInOrder, Absent, Kind
  <1>2. IngestInv /\ PublishedInOrder => IndexGoesLast
    <2> SUFFICES ASSUME IngestInv, PublishedInOrder, rpc = "open"
                 PROVE  /\ handle["index"].by <= handle["data"].by
                        /\ handle["index"].by <= handle["segments"].by
                        /\ handle["index"].by = ingest => OpenedStoreIsOne
      BY DEF IndexGoesLast
    <2>1. /\ handle["index"].by <= handle["data"].by
          /\ handle["index"].by <= handle["segments"].by
      BY DEF PublishedInOrder
    <2>2. ASSUME handle["index"].by = ingest, handle["index"].n > 0 PROVE OpenedStoreIsOne
      <3>1. LatestFiles /\ ingest \in Nat /\ \A k \in Kind : handle[k].by \in Nat
        BY NumbersTyped DEF IngestInv
      <3>2. ingest # 0
        BY <2>2, <3>1 DEF LatestFiles, Absent, Kind
      <3>3. handle["data"].by = ingest /\ handle["segments"].by = ingest
        BY <2>1, <2>2, <3>1 DEF LatestFiles, Kind
      <3>4. Whole(handle["data"]) /\ Whole(handle["index"])
        BY <2>2, <3>1, <3>2, <3>3 DEF LatestFiles, Kind
      <3> QED
        BY <2>2, <3>3, <3>4 DEF OpenedStoreIsOne, Whole
    <2> QED
      BY <2>1, <2>2 DEF OpenedStoreIsOne
  <1> QED
    BY <1>1, <1>2, PublishedStep, IngestInvariant, PTL DEF SpecIngest

=============================================================================
