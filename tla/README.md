# A TLA+ model of the second-resolution equity simulator

The repository has three programs that hand files to each other and one that shows results:

```
./gen ──raw/day/id.bin──▶ ./ingest ──data.db, index.idx, segments.idx──▶ ./sim ──runs.jsonl──▶ dashboard
generator.cpp             ingest.cpp                                     trades | snapshot | strategy
```

`gen` writes one file per instrument and day on background threads. `ingest` copies the records
of every instrument into one contiguous place of a store, several instruments at a time, and
publishes the store with renames. `sim` opens a store and answers from it with a pool of threads.
The modules here model these programs at the level of their shared state: threads, files,
buffers and counters. Quotations and line numbers refer to the sources beside this directory.

## Inventory

| part (source) | state it keeps | operations | talks to | what is hard |
|---|---|---|---|---|
| `ThreadPool` (sim_common.h) | mutex, two condition variables, `fn_`, `total_`, `chunk_`, `next_`, `pending_`, `generation_`, `stop_` | `run`, `drain`, `workerLoop`, destructor | every parallel loop of `sim` | `drain` reads plain fields without the mutex; late and spurious wake-ups; shutdown |
| store format and layout (store_format.h, pass 1 of ingest.cpp) | `table`, `cursor`, totals | `alignUp`, `numOfIndexEntries`, the placement loop | threads of `ingest`, `Store` | threads that share a page; empty instruments; boundaries |
| ingest pipeline (ingest.cpp) | `nextId`, `failed`, `firstError`, block arrays, three temporary and three published files | scan, place, create, copy per instrument, join, index, segments, three renames | raw tree, `Store` in other processes | errors on one of many threads, death at any point, re-ingest, raw files that change |
| `Store` (store.h) | three mappings | open, close, `lastAtOrBefore`, `firstAtOrAfter`, `priceExtrema`, `segmentContaining` | `sim` | opening while an ingest renames; block boundaries |
| trades (trades.cpp) | text per chunk, count of unresolved | `priceTrade`, the loop over chunks | `Store`, `ThreadPool` | snapping across gaps, block extrema against a scan |
| snapshot (snapshot.cpp) | one row buffer | `snapshotRow` per timestamp, write | `Store`, `ThreadPool` | the buffer is reused; one parallel loop after the other |
| strategy, one segment (strategy.cpp) | ring, slot, sums, position, reused record buffer | one turn per record | `Store` | incremental sums; competing exits; thread-local state that outlives a segment |
| strategy, parallel (strategy.cpp) | mutex, `finished`, `nextEmit`, `pending`, `groups`, `error`, file | simulate, hand over, emit in id order, close, summary | `ThreadPool` | results out of order, errors, results left behind, writes that fall short |
| generator (generator.cpp) | deque of futures, per-instrument price process | `submit`, `reapOldest`, `drain`, `writeFile`, reverters.txt, `generateDay` | file system | late exceptions, bounded memory, exit under running threads; dropped seconds, breaks and nights in the price |
| calendar (config.cpp) | regions, sessions, holidays | `local2utc`, `utc2local`, `isTradingDay`, `parseRegion` | gen, ingest | one change of offset; sessions past midnight |
| command line, run log, dashboard (sim_main.cpp, sim_common.h, serve.py) | runs.jsonl | append one line, poll and render | several processes | lines that interleave or are cut short; a line for a run that failed |

What makes each part correct:

* ThreadPool: each index goes to the body once; `run` returns after the last body and never
  later than it must; no field is rewritten under a reader; threads end when the pool does.
* Layout: no two instruments in one alignment unit, block slices without gap or overlap, all
  records inside the file.
* Ingest: nothing incomplete is published; a reader never puts parts of two ingests together;
  every ingest ends.
* Store and trades: the two-level search and the block extrema answer as a scan would.
* Strategy: the trades of the definition in README of the repository, in id order, all of them
  or an error.
* Trades and snapshot, in parallel: the output is that of one thread; an old output is given up
  only for a new one.
* Run log: one line per run that succeeded, whole, and shown.
* Generator: bounded writers, no write error lost, quiet at exit.
* Calendar: what gen stamps is increasing and comes back to its local second; the price moves on
  over dropped seconds, breaks and nights; a segment is a session, however many seconds were
  dropped.

## Modules

| module | models | extends / uses |
|---|---|---|
| `ParallelFor` | what `ThreadPool::run` promises: a loop over indices | |
| `ThreadPool` | the pool itself; `PF == INSTANCE ParallelFor WITH ...` | refines `ParallelFor` |
| `ThreadPoolProofs` | theorems about `ThreadPool` | |
| `StoreFormat` | `alignUp`, `numOfIndexEntries` | |
| `Layout` | pass 1 of ingest | `StoreFormat` |
| `Ingest` | an ingest process, the store directory, a reader that opens it | `Layout` |
| `IngestProofs` | theorems about `Layout` and `Ingest` | |
| `StoreIndex` | the block index of one instrument, the lookups, `priceTrade` | `StoreFormat` |
| `StoreIndexProofs` | theorems about `StoreIndex` | |
| `SerialStrategy` | the promise that output does not depend on thread timing | |
| `StrategyRun`, `MCStrategyRun` | `cmdStrategy`; its regions | `ParallelFor`; refines `SerialStrategy` |
| `StrategySegment`, `MCStrategySegment` | `runInstrument` and `strategyOnSegment`; its parameter sets | |
| `StrategyProofs` | theorems about `StrategyRun` and `StrategySegment`, and the refinement of `SerialStrategy` | `IntegerLemmas` |
| `SimCommand` | what the commands of sim have in common: refusal, the parallel loop, one output | `ParallelFor` |
| `TradesRun` | `cmdTrades` | `SimCommand` |
| `SnapshotRun` | `cmdSnapshot` | `SimCommand` |
| `RunLog` | `runs.jsonl`: concurrent appends, and the page that reads them | |
| `SimRun` | a sim process, others beside it, the log and the page, put together | `TradesRun`, `SnapshotRun`, `RunLog` |
| `SimRunProofs` | theorems about `SimRun` and its parts | `IntegerLemmas` |
| `Generator` | `run`, `AsyncWriter` and `writeFile` of gen | |
| `GeneratorProofs` | theorems about `Generator` | |
| `Calendar`, `MCCalendar` | time zones, sessions, the timestamps and the price process of gen, the segments of ingest, `segmentContaining`; its parameter sets | |
| `CalendarProofs` | theorems about `Calendar` | |
| `IntegerLemmas` | what several proofs need: least elements, division, loops that filter a sequence | |

**ThreadPool.** `pc` says where each thread is. A critical section is one action guarded by
`MutexFree`; only the section in which `run` publishes a loop spans two actions (`Call` locks,
`Publish` writes and unlocks), so that `NoSharedRace` can say that no worker is in `drain` while
the caller may write. A thread that waits on a condition variable is `"asleep"`;
`NotifyAllWorkers`, `Leave` (for `notify_one`) and `Spurious` wake it. `AwaitStart` and `AwaitDone`
test the predicate under the mutex and go to sleep in the same step, as `wait` does. `doing` holds
the chunk and the body a thread is executing; `seen` is the generation a worker remembers. `calls` numbers the calls of `run` and so names the
`std::function` that `fn_` points to.

**Layout, Ingest.** `Scan` is `scanRaw`, with the number of records of every instrument as input;
`Place` is one turn of the layout loop. In `Ingest` a file is known by the ingest that wrote it,
the length that matters to `Store`'s checks, and the instruments it holds. `pcw` is the state of
each pool thread: `Poll` and `Claim` are the two halves of the loop condition, separate because
`failed` may be set in between; `Read` may throw, `Write` may throw, `Catch` is the handler.
`Die` ends the process anywhere. `OpenIndex`, `OpenData` and `OpenSegments` are the three
`mapFile` calls of the reader with the checks that follow each.

**StoreIndex.** `IndexBlock` is one turn of the loop that fills a thread's slice of the arrays;
the lookups do not change anything and are operators. `std::upper_bound` and `std::lower_bound`
are the first position that compares greater (or not less).

**StrategyRun.** The pool is taken as the `ParallelFor` it implements, with chunks of one index in
any order. What an instrument trades, and whether its simulation throws, is an input (`rows`,
`fails`). `HandOver` takes `m`, `EmitNext` is one turn of the loop under `m`, `Unlock` releases it.
`sums` records what was added to the sums of each group and in which order, since additions of
floating-point numbers do not commute; `GroupOf` follows the ids through `loadConfig`,
`regionIndexOf` of ingest and `regionOf`. `Fwrite` may drop a part of its text: `lost` remembers it,
the code does not. `StartPool`, `CloseTrades` and `WriteSummary` are the calling thread.

**SimCommand, TradesRun, SnapshotRun.** `step` is where the calling thread is, `at` the index each
pool thread works on. An input is a sequence of lines that are blank, malformed, or carry
what the command needs to know of them; a record of the output names the line or the timestamp it
is for. `OpenResults` and `OpenRows` empty the output file (`opened`). `PriceRow` is one turn of the
inner loop of a chunk, `EndChunk` the addition to the shared count; `BeginRow`, `LookUp` and
`AppendRow` are the fill, one lookup and the write of `snapshotRow` and its caller.

**RunLog, SimRun.** A line is two pieces, so that it can be torn. `AppendLine` is one call of the
system: the standard library hands `f.write` of the whole line on at once. `CutShort` is the append that a
full disk cuts, and `Kill` ends a process before it. `Readable` is what `render` of the page makes of the
text: it skips what does not parse, also a line that stands behind the stump of another one. In
`SimRun` the process `Me` goes through trades or snapshot step by step; of strategy it knows that it is
refused, or opens its file, and then returns or throws (`StrategyMain`), for the rest is `StrategyRun`. `FinishSim`
ties the result of any of the three to the log; the other processes only end, one way or the other.

**StrategySegment.** `BeginSegment` reads a segment over the start of the reused buffer, `Second` is
one turn of the record loop with all its branches. z is never divided out: with
d = W x - sum and v = W sumSq - sum², z > k is decided on integers (`Above`, `AtLeast`). The
properties recompute everything from the records.

**Generator.** The producer submits file after file; `Reap` is `reapOldest`, `Exit` the
destruction of the deque, in which each future that has not been asked waits for its own thread (`Joined`);
that no other thread is left is the second half of `SuccessIsComplete`. Each thread is `Open` and `Close`.

**Calendar.** The region is chosen in `Init` among those `parseRegion` accepts. `Second`,
`NextSession` and `NextDay` are the loops of `run` and `generateDay`. `walk` is the price process by
what it has added up: seconds, nights, and the seconds of the mean-reverting part. A record carries the day and
the session it was written for, which only the properties read. `Check` is the comparison of
timestamps in ingest, `Cut` one turn of the loop over days and sessions. A record is stamped with
the offset at the start of its session, a segment ends with the offset at its end, as in the code.
Two things the code does not check are named and asked for where a property needs them:
`QuietChange`, that nothing trades within as many hours of the change as it shifts (the comment at
config.cpp:65 says so of the shipped regions), and `DaysApart`, that a session that runs past
midnight (`parseTimeOfDay` accepts 24:59) ends before the next day's first.

## Runs

Each passing run has the `*.cfg` with the name of its module. Three further runs show where the code does not do what a line of it says.

| run | distinct states | what it shows |
|---|---|---|
| `pool` | 81,156 | three workers, three calls of lengths 0, 1 and 5 with chunk 0 (raised to 1) and 2, then the destructor |
| `layout` | 3,711 | up to four instruments of 0, 1, 3, 4 or 9 records with alignment 4 and stride 3, scanned again at any time |
| `ingest` | 391,022 | two ingests into one directory with two threads each, up to two instruments, all failures, deaths and a reader |
| `ingest_mixed` | violation | a reader gets the old index with the new data.db |
| `ingest_rawchange` | violation | raw files that changed after the scan are published |
| `strategy` | 362,580 | three threads, no or three instruments with up to two trades, any of which may fail, two groups, writes that fall short |
| `strategy_fulldisk` | violation | a trades file with a hole is reported as success |
| `sim` | 224,936 | trades of up to three lines in chunks of two, or snapshots of up to two lines over up to three instruments with rows of two, on two threads, or strategy from outside; a second process; refusals, failed writes, kills and the page |
| `store_index` | 38,235 | every instrument of up to five records at times 1 to 6 with three prices, strides 1, 2 and 3 |
| `segment` | 168,257 | one or two segments of together five records, with dropped seconds; windows 1 to 4 |
| `calendar` | 433,932 | one or two sessions between 0 and 7 in a day of 6, offsets that move forward, backward or not at all on the second or third of three days, a week day off, a holiday, a dropped second |
| `generator` | 2,946 | up to six files, three in flight, any of which may fail |

Why the bounds are enough. *pool*: the hazards need a worker that is late by one generation while
others are done (two calls; the third shows that a worker late in the second does no harm), a
chunk boundary inside the loop and one at its end. *layout*: the counts straddle both divisors:
empty, less than a block, exactly a block, exactly an alignment unit, more than two. *ingest*: two
threads are what it takes to fail while another one claims or writes; the second ingest
meets every state in which the first can have left the directory. *strategy*: three threads and
three instruments allow any order of completion, and `FlushAt = 1` makes the text buffer spill in
the middle; two instruments share a group and the third is in no region. *sim*: two threads and a last chunk that is not
full; two timestamps, in either order, so that the second row could show the first; fewer, as many and more
instruments than a row has room for; two processes are what a torn or cut line takes. *store_index*: with stride 2 and five records there are two whole blocks and a ragged
one. *segment*: a window is filled, moves on and wraps around; the second segment starts with
the ring as the first has left it. *calendar*: the
days before, at and after the change, two sessions for the gap within a day, one time past
midnight, local seconds on both sides of 1970-01-01, and a session of one second that one drop
empties; the third day has a night with and one without a day off before it. *generator*: twice as many files as may be in flight.

`ingest` and its two companions
(`ingest_mixed`, `ingest_rawchange`) do not check for deadlock: a process that has ended, with no
further ingest allowed, is a state in which nothing happens. The other modules have an explicit
step for their end (`Gone`, `Ended`, `Done`, `Serve`), so that a deadlock is an error; in `sim` the page
polls for ever and `ShowsUp` says that the processes end.

**Properties.** A type invariant is checked where it says more than types (`TypeOK`, `IngestTypeOK`,
`GeneratorTypeOK`); `LayoutTypeOK` and `CalendarTypeOK` are parts of invariants that are proved.

* pool: `NoSharedRace`, `BodyAlive`, `NextBounded`, `ImplementsParallelFor`; `JoinsEveryRun`, that a worker
  enters `drain` only for the generation after its last one and exits only after the latest;
  `RunReturns` and `ShutdownEnds` under fairness.
* layout: `PagesDisjoint`, `SlicesTile`, `FitsFile`.
* ingest: `WritersApart`, `PublishesOnlyWhole`, `IndexGoesLast`; `IngestEnds`.
* strategy: `ImplementsSerial`, `NothingStranded`, `SuccessIsComplete`; `StrategyEnds`.
* store_index: `SnapsExact`, `ExtremaExact`, `TradesPriced`.
* segment: `SumsOfWindow`, `TradesAsDefined`.
* sim: `PricedAsSerial` of trades, `RowsFromScratch` of snapshot, `OldOutputKept` of both; `LinesApart`;
  `ShownIsTrue`, that the page shows only runs whose command has returned, and that a run of trades or snapshot
  shown has a complete output (of strategy that is false: `FailedWriteReported`); `ShowsUp`.
* calendar: `PriceAdvances`, `NothingRefused`, `LocalTimeKept`, `SegmentsAreSessions`, `LiveSessionFound`.
* generator: `WritesBounded`, `SuccessIsComplete`; `GeneratorEnds`.

**What does not hold.** `OpenedStoreIsOne` fails in a directory that has been ingested into before:
ingest.cpp:384 says "Index last: a store only exists once index.idx does", but the old
index.idx is still there while data.db and segments.idx are renamed, and `Store` compares sizes
only, which the padding to 64 KiB makes equal easily. `IndexGoesLast` is the part that holds, in a directory
of any history: an index is never newer than the records and segments it is used with, and a store opened with the
index of the latest ingest is that ingest's and whole. So is any store in a directory used once.
`RawChangeRefused` fails because the comparison that guards "raw files changed during ingest"
(ingest.cpp:257) compares two sums of the same scanned sizes. `FailedWriteReported` fails because
the results of `fwrite` are not looked at (strategy.cpp:190, 229, 254) and `fclose` (strategy.cpp:255)
reports only what it cannot flush itself: with glibc, a write that was dropped while the disk was full
leaves no trace once there is room again. `cmdSnapshot` checks its writes.

## Fairness

Weak fairness per thread: the scheduler runs what can run. Nothing obliges the caller of the pool
to call `run` or the destructor, a user to start an ingest, or a wait to end spuriously.
Critical sections are single steps, so a thread that wants the mutex is
enabled until it has it and weak fairness is all that is needed; the code asks for each mutex a
bounded number of times per index, so a fair lock is not assumed beyond that. File operations and
bodies are assumed to come to an end. In `SimRun` the page is left open and polls (`setInterval`, every two
seconds); no process has to be killed, and no write has to fail.

## Proofs

TLAPS checks every safety property that a passing run checks, and both refinements, for every
value of the constants: every number of workers, threads, instruments, files and processes, every loop
length and chunk, alignment, stride and row width, every period, every region `parseRegion` accepts,
every window and all prices.

| theorem | says |
|---|---|
| `PoolTypeOK`, `PoolNoSharedRace`, `PoolBodyAlive`, `PoolJoinsEveryRun`, `PoolNextBounded` | the properties of the same names |
| `PoolImplementsParallelFor` | the refinement, initial states and steps |
| `LayoutPagesDisjoint`, `LayoutSlicesTile`, `LayoutFitsFile` | the properties of the same names |
| `IngestTypesOK`, `IngestWritersApart`, `IngestPublishesOnlyWhole`, `IngestIndexGoesLast` | `IngestTypeOK` and the properties of the same names |
| `StoreSnapsExact`, `StoreExtremaExact`, `StoreTradesPriced` | the properties of the same names |
| `StrategyNothingStranded`, `StrategySuccessIsComplete` | `NothingStranded`, `SuccessIsComplete` of strategy |
| `StrategyImplementsSerial` | the refinement of `SerialStrategy`, initial states and steps |
| `SegmentSums`, `SegmentTrades` | `SumsOfWindow`, `TradesAsDefined` |
| `SimPricesAsSerial`, `SimRowsFromScratch`, `SimKeepsOldOutput`, `SimLinesApart`, `SimShownIsTrue` | `PricedAsSerial`, `RowsFromScratch`, `OldOutputKept`, `LinesApart`, `ShownIsTrue` |
| `GeneratorDequeOK`, `GeneratorWritesBounded`, `GeneratorSuccessIsComplete` | `GeneratorTypeOK`, `WritesBounded`, `SuccessIsComplete` of gen |
| `CalendarPriceAdvances`, `CalendarNothingRefused`, `CalendarLocalTimeKept`, `CalendarSegmentsAreSessions`, `CalendarLiveSessionFound` | the properties of the same names |

The assumptions are those the modules name: finitely many workers of the pool and threads of ingest, of
which `--threads 0` leaves one; the caller of the pool not among its workers and `NoThread` no thread;
natural parameters; alignment, stride, row width, rows per chunk, window, the length of a day and the
limit of writers in flight positive; prices of a segment and the gaps between its records positive;
offsets, dates, timestamps and z thresholds integers. The
bounds of the runs (`MaxCalls`, `MaxRows` and the like) are any natural number.

Below, one paragraph per component says why the properties are not inductive and what is. Every invariant
was checked by TLC on the run of its module before it was proved.

*The pool* (`IInv` in `ThreadPool`). None of the properties is inductive. The invariant counts who
owes the current generation: `Owing` are the workers that have not joined it or not left it, and
`PendingCounts` says that `pending_` is their number. `SeenCurrent` bounds how far a worker may
be behind, so `run` returns (`AwaitDone`, `pending_ = 0`) only when nobody owes, and
`QuietOutside` follows: nobody is in `drain` when the next call writes. So a worker that tests the
predicate can join no generation but the next one; that it has been in all of them when it exits takes
`StopOutside` besides, that the destructor runs outside `run`. For the refinement,
`ChunksHeld` and `ChunksApart` say that chunks lie below `next_` and do not overlap, and
`CallerDrained` that the caller waits only after `next_` has passed `total_`. There is one lemma
per action; a step maps to `Begin` (Publish), `Take` (Claim), `Complete` (Finish), `Return`
(AwaitDone) or a stutter. `OvershootCounted` bounds `next_`: a thread that claims past the end leaves
`drain` and cannot come back in the same generation, so there is one chunk too many per thread that
has left (`Overshot`), and the chunk that reaches the end.

*The layout* (`LayoutInv`). Records end at or before the cursor (`RecordsBehind`), and an alignment
boundary lies between any instrument and any later one with records (`BoundaryBetween`);
`BoundarySeparates` turns the boundary into disjoint units. The arithmetic of rounding up is the
lemma `DivideUp`.

*Ingest* (`IngestInv`, with `LayoutInv`). `Read`, `Write`, `Catch` and the loop condition of several
threads interleave, so the invariant says what is left when they have all gone: `WorkersApart`, each
thread at work has an instrument of its own, claimed and, if it writes, accepted; `NothingSkipped`, whatever
has been claimed is copied, in work, or `failed` is set, and the last thread does not leave
before everything is claimed or `failed` is set. Joining the threads therefore yields a complete data.db or an
exception, and `FilesBuilt` carries the three files, each temporary until its rename, through the
rest. `LatestFiles` says that what is published or mapped of the latest ingest is whole, for
a rename only moves whole files and an earlier ingest's are told apart by their number. `PublishedInOrder` orders the
numbers: of index.idx, segments.idx and data.db each is of no later ingest than the next, at every moment, and a
reader maps index.idx first, so nothing it maps afterwards can be older. Together they give `IndexGoesLast`. That writers keep to their units is `WorkersApart`, `PagesDisjoint` and
`FitsFile` put together.

*The index* (`IndexInv`). The blocks filled so far have the first timestamp and the extrema of their
records. What `upper_bound` and `lower_bound` return on the sorted block array, and then inside one block, is
the first position past an initial interval; the two together are the answer of a scan. A range
decomposes into a ragged head, whole blocks and a ragged tail, for every stride, or lies inside
one or two blocks; the extrema of a union are those of the parts. Both ways of `priceTrade` come down to the same
extreme.

*The strategy, in parallel* (`StrategyInv`). `HeldToEmit` ties the mutex to the thread that emits, `WorkApart` the
instruments in work to the threads, one each. `HandedOver` says that an instrument that is
`Through` the loop, or whose thread emits, has been emitted or waits in `finished`, and `ErrorKept` that
a failed one has left its error. A thread frees `m` only when the next slot is empty, which keeps
`NothingStranded`; when the pool returns nobody holds `m` and all is handed over, so nothing can wait
and `nextEmit` is the number of instruments. The refinement adds `EmittedInOrder`: a slot of
`finished` holds what its instrument has to emit, and `sums` are, group by group and in this order, the
rows in `file` and `pending`. `EmitNext` maps to `Emit` of `SerialStrategy`, what ends the command to
`Conclude` or, before the loop, `Refuse`, and every other step to a stutter; that a group's rows after one more instrument are the earlier ones and its own is
`OfGroupAppend`.

*The strategy, one segment* (`SegmentInv`). The loop never looks at the window it has sums of, so
the invariant says where the window is: `RingHolds`, the ring has the last prices of this segment, the
oldest at `slot` once it is full, and before that only what lies below `slot` belongs to it. The price
subtracted is then the one that leaves `Window`. `SumsOfWindow` speaks of sums over finite sets
(`SumFunctionOnSet`); `SumFacts` gives the value for the empty set and for one element more, and the
shift of a window by one record follows. `TradesPast` puts the position after all trades of the
segment, which with `Walk` makes `TradesAsDefined` inductive, since `d` and `v` of the loop are `D(i)` and
`V(i)`.

*Trades, snapshot and the log* (`SimInv`). It is `TradesInv` or `SnapshotInv` if one of these commands runs,
and `LogInv`; strategy needs no more than that a process at the log has a command that returned. In `TradesInv`, `ChunkRight` says that a chunk's rows are the serial ones up to where its
thread is, `BadRight` that a thread's own count is that of the rows it has met, and `unresolved`
counts the chunks that have been added (`Counted`); the chunks in order, joined, are the rows in order
(`JoinedInOrder`). In `SnapshotInv`, `RowSoFar` says that cells are either filled afresh or looked up for the
current timestamp, so nothing of an earlier row can be left at `AppendRow`. `LogInv` says that a process that has not
yet written has its whole line before it, and that a line that is complete in the log is of a process that
succeeded, which ties `shown` to `verdict`.

*The generator* (`GeneratorInv`). Neither property is inductive: that few threads write follows from
the deque being short only if every thread at work is in it. The invariant says that the deque
is the window `Oldest .. submitted - 1` of the files (`Window`), that what is behind it has been
written (`BehindWritten`, for `reapOldest` waits for the oldest and lets no failed one pass) and
that what lies ahead has not been started (`NotStarted`). So the threads at work are in the window,
which `MaxInFlight` bounds, and a deque drained to nothing leaves every file written. A future that has been
asked belongs to a thread that has ended (`SpentEnded`): the destructor of the deque, which waits
for the others, waits for every thread at work.

*The calendar* (`CalendarInv`, `PriceInv`, `CutInv`). Timestamps in UTC do not grow with the loops: the offset changes
under them. Local seconds do, so the invariant bounds those: every record lies before the local
second `Reached` (`AllBehind`, which needs `DaysApart`), and it is the UTC second of its local one
(`AllStamped`). `FloorDivFloors` and `DateAtLeast` turn the dates of `floorDiv` into a comparison
with the second of the change; `OrderKept` then carries the order of two records over to UTC,
because `QuietChange` leaves more room between the two sides of the change than it shifts.
`ThereAndBack` is the same argument for `utc2local`. `PriceInv` says what the walk has added up between
two records (`WalkReached`), whichever seconds were dropped: time from the open of the day, breaks
included, and one jump per earlier trading day. `CutInv` says that the segments cut so far are, in order,
the sessions passed that have records (`CutInOrder`). A lower bound on a sorted file is where an
initial interval ends, so two of them, at the start of a session and at its end, enclose its records
exactly; that the end of one session is not after the start of a later one also in UTC is the
argument of `QuietChange` once more.

**Only model-checked** are the liveness properties (`RunReturns`, `ShutdownEnds`, `IngestEnds`, `StrategyEnds`,
`ShowsUp`, `GeneratorEnds`): liveness under fairness is out of the prover's reach. Induction over naturals
is done with least elements of sets of naturals (`IntegerLemmas`). The provers cannot expand
`SelectSeq`, which selects by an operator, so where a theorem speaks of such a loop (`TradesTo`,
`StampsTo`, `OfGroup`) the models write it as a recursive function over positions.

## Mutations

Definitions introduced as slips are mistakes a maintainer could make; nothing in the models uses
them. Put in the place of the definition that follows them, each makes TLC report a property:

| slip | for | found by |
|---|---|---|
| `StartIfEverPublished`, `StartUnlessStopped` | `MayStart` | `TypeOK` and `JoinsEveryRun`, `ShutdownEnds` |
| `OutstandingOneShort`, `OutstandingAwake` | `Outstanding` | `NoSharedRace`, `JoinsEveryRun` |
| `AllClaimed` | `AllDone` | `BodyAlive` |
| `DrainAgain` | `AfterDrain` | `NextBounded` |
| `AdvanceByOne` | `Advance` | `ImplementsParallelFor` |
| `NotifyOneWorker` | `NotifyAllWorkers` | `RunReturns` |
| `WholeBlocks` | `NumOfIndexEntries` | `SlicesTile` |
| `Unaligned`, `AlignDown` | `AlignUp` | `PagesDisjoint`, `WritersApart`, `FitsFile` |
| `MoreOrEqual` | `MoreInstruments` | `IngestTypeOK` |
| `IndexFirst` | `RenameOrder` | `IndexGoesLast` |
| `AcceptsAny` | `Accepts` | `PublishesOnlyWhole` |
| `AfterErrorRetry` | `AfterError` | `IngestEnds` |
| `TryAgain` | `AfterRecord` | `StrategyEnds` |
| `LeaveAnyway` | `NothingToEmit` | `NothingStranded` |
| `Ignored` | `Rethrown` | `SuccessIsComplete` |
| `FlushUncleared` | `FlushWhenLong` | `ImplementsSerial` |
| `ButLastOfBlock` | `BlockEnd` | `SnapsExact` |
| `BlockAfter` | `TailStart` | `ExtremaExact` |
| `Missing` | `Unresolved` | `TradesPriced` |
| `HeldPast` | `Held` | `TradesAsDefined` |
| `WindowKept` | `WindowCleared` | `SumsOfWindow` |
| `ReapAny`, `CarriesOn` | `Reapable`, `AfterThrow` | `WritesBounded`, `GeneratorTypeOK` |
| `AdvancedIfKept`, `AfterChange`, `DateOfUtc` | `Advanced`, `InDst`, `ProbedDate` | `PriceAdvances`, `NothingRefused`, `LocalTimeKept` |
| `FirstAfter`, `EndsAtOrAfter` | `FirstAtOrAfter`, `EndsAfter` | `SegmentsAreSessions`, `LiveSessionFound` |
| `StopAtOne`, `WriteAgain` | `Drained`, `FailedWrite` | `SuccessIsComplete`, `GeneratorEnds` |
| `WholeChunks` | `NChunks` | `PricedAsSerial` |
| `FilledOnce` | `Filled` | `RowsFromScratch` |
| `RejectedTooLate` | `Rejected` | `OldOutputKept` |
| `OnePiece`, `LogsAnyway`, `AllOrNone` | `OneWrite`, `AfterCommand`, `Readable` | `LinesApart`, `ShownIsTrue`, `ShowsUp` |

## Left out, and why

* Bodies that throw out of `ThreadPool::run`: the bodies in this repository throw only for lack of
  memory, and `cmdStrategy` catches inside its body.
* Power failure: nothing is synced, so what a file system keeps is not decided by this code. Death
  of the process is modelled.
* Floating point: prices and thresholds are integers. The relative floor under the variance exists
  for rounding only.
* Magic numbers, versions and byte layout of the files; parsing and formatting of text beyond
  whether a line is accepted.
* Widths of integers: seconds, nanoseconds and positions stay far below 64 bits for any date a raw
  directory can name. The holding time of the strategy is read from the command line and not
  checked against overflow.
* The Sharpe ratio of the summary, and the latency statistics of snapshot.
* The random numbers of the generator. With the same seed, a dropped second shifts all later draws of its
  instrument, since it skips the draw of the volume; the model says what a price is made of, not
  which numbers were drawn.
* Two ingests into one store at the same time: they would write the same temporary files, and nothing in the
  code looks for it.
* Benchmarks and tests: they were read as what the code is expected to do.

## Plan

The components that are part of the program are modelled and their safety properties proved. What is left:

1. The strategy's holding time with the width it has in the code.
2. `SimRun` over `ThreadPool` itself. Here each loop goes through the promise of `ParallelFor`, which the pool
   is proved to keep.
3. Bodies that throw for lack of memory out of `ThreadPool::run`.
