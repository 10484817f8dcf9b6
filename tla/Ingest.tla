-------------------------------- MODULE Ingest --------------------------------
(***************************************************************************)
(* ./ingest and the store directory it shares with readers.  An ingest     *)
(* process lays out the store (Layout), lets a pool of threads copy the    *)
(* instruments into data.db.tmp, writes index.idx.tmp and segments.idx.tmp *)
(* and renames the three files, the index last.  It may die at any point:  *)
(* killed, or by an exception in run().  A later ingest may use the same   *)
(* directory.  A reader is the constructor of Store: it opens the index,   *)
(* then data.db, then segments.idx, and checks sizes only.                 *)
(*                                                                         *)
(* A file is known by the ingest that wrote it, the length its header or   *)
(* ftruncate gives, the number of instruments it is made for, and the      *)
(* instruments it holds.                                                   *)
(***************************************************************************)
EXTENDS Layout, FiniteSets

CONSTANTS
    Worker,             \* threads of the ingest pool: --threads of them at most
    MaxIngests,         \* bound: ingest processes started on the directory
    RawChanges          \* whether the raw tree may change while it is ingested

ASSUME IngestsNat == MaxIngests \in Nat
ASSUME WorkersFinite == IsFiniteSet(Worker)
ASSUME WorkersExist == Worker # {}      \* run() makes --threads 0 at least one
ASSUME ChangesFlag == RawChanges \in BOOLEAN

VARIABLES
    phase,              \* where run() is, "idle" when there is no process
    ingest,             \* number of the latest ingest process
    nextId, failed, firstError,
    pcw, cur,           \* per thread: state, and instrument it works on
    filled,             \* instruments whose index slice and segments are in memory
    unsorted,           \* instruments whose raw timestamps are not increasing
    changed,            \* instruments whose raw files changed since the scan
    stale,              \* instruments read after such a change
    tmp, final,         \* the files of the store directory, before and after the renames
    rpc, handle         \* the reader: how far it is, and the files it has mapped

poolVars == <<nextId, failed, firstError, pcw, cur, filled>>
rawVars == <<unsorted, changed, stale>>
dirVars == <<tmp, final>>
readerVars == <<rpc, handle>>
vars == <<layoutVars, phase, ingest, poolVars, rawVars, dirVars, readerVars>>

Instruments == 0 .. n - 1

Kind == {"data", "segments", "index"}
Absent == [by |-> 0, length |-> 0, n |-> 0, has |-> {}]
File(length, has) == [by |-> ingest, length |-> length, n |-> n, has |-> has]

\* std::min(opt.threads, max(n, 1)) threads; which of the names does not matter.
PoolSize == LET wanted == IF n = 0 THEN 1 ELSE n
            IN  IF wanted < Cardinality(Worker) THEN wanted ELSE Cardinality(Worker)

InitIngest ==
    /\ Init
    /\ phase = "idle" /\ ingest = 0
    /\ nextId = 0 /\ failed = FALSE /\ firstError = FALSE
    /\ pcw = [w \in Worker |-> "done"] /\ cur = [w \in Worker |-> 0]
    /\ filled = {} /\ unsorted = {} /\ changed = {} /\ stale = {}
    /\ tmp = [k \in Kind |-> Absent] /\ final = [k \in Kind |-> Absent]
    /\ rpc = "closed" /\ handle = [k \in Kind |-> Absent]

-----------------------------------------------------------------------------
(* The main thread of run(). *)

\* scanRaw found m instruments with c[i] records; the files of bad are not time-sorted.
Start(m, c, bad) ==
    /\ phase = "idle"
    /\ ingest < MaxIngests
    /\ Scan(m, c)
    /\ bad \subseteq {i \in 0 .. m - 1 : c[i] > 1}
    /\ phase' = "layout"
    /\ ingest' = ingest + 1
    /\ nextId' = 0 /\ failed' = FALSE /\ firstError' = FALSE
    /\ filled' = {} /\ unsorted' = bad /\ changed' = {} /\ stale' = {}
    /\ cur' = [w \in Worker |-> 0]
    /\ UNCHANGED <<pcw, dirVars, readerVars>>

LayOut ==
    /\ phase = "layout"
    /\ Place
    /\ UNCHANGED <<phase, ingest, poolVars, rawVars, dirVars, readerVars>>

\* Opens data.db.tmp and index.idx.tmp with O_TRUNC, sets their lengths, starts the threads.
CreateFiles ==
    /\ phase = "layout"
    /\ LayoutDone
    /\ tmp' = [tmp EXCEPT !["data"] = File(DataRecords, {}), !["index"] = File(0, {})]
    /\ \E started \in SUBSET Worker :
          /\ Cardinality(started) = PoolSize
          /\ pcw' = [w \in Worker |-> IF w \in started THEN "poll" ELSE "done"]
    /\ phase' = "pool"
    /\ UNCHANGED <<layoutVars, ingest, nextId, failed, firstError, cur, filled, rawVars, final, readerVars>>

GoesOn == ~firstError

\* All threads joined: rethrow the first error, or go on to the index.
JoinPool ==
    /\ phase = "pool"
    /\ \A w \in Worker : pcw[w] = "done"
    /\ phase' = IF GoesOn THEN "index" ELSE "idle"
    /\ UNCHANGED <<layoutVars, ingest, poolVars, rawVars, dirVars, readerVars>>

WriteIndex ==
    /\ phase = "index"
    /\ tmp' = [tmp EXCEPT !["index"] = File(DataRecords, filled)]
    /\ phase' = "segments"
    /\ UNCHANGED <<layoutVars, ingest, poolVars, rawVars, final, readerVars>>

WriteSegments ==
    /\ phase = "segments"
    /\ tmp' = [tmp EXCEPT !["segments"] = File(0, filled)]
    /\ phase' = "rename1"
    /\ UNCHANGED <<layoutVars, ingest, poolVars, rawVars, final, readerVars>>

\* A slip: the index is published first.
IndexFirst == <<"index", "data", "segments">>
RenameOrder == <<"data", "segments", "index">>

\* One of the three renames at the end of run().
Rename(i) ==
    /\ phase = <<"rename1", "rename2", "rename3">>[i]
    /\ LET k == RenameOrder[i]
       IN  /\ final' = [final EXCEPT ![k] = tmp[k]]
           /\ tmp' = [tmp EXCEPT ![k] = Absent]
    /\ phase' = <<"rename2", "rename3", "idle">>[i]
    /\ UNCHANGED <<layoutVars, ingest, poolVars, rawVars, readerVars>>

\* The process is killed, or a call of the main thread throws; the files stay as they are.
Die ==
    /\ phase # "idle"
    /\ phase' = "idle"
    /\ pcw' = [w \in Worker |-> "done"]
    /\ UNCHANGED <<layoutVars, ingest, nextId, failed, firstError, cur, filled, rawVars, dirVars, readerVars>>

-----------------------------------------------------------------------------
(* The threads of the pool. *)

\* The loop condition's first half: stop if some thread has failed.
Poll(w) ==
    /\ pcw[w] = "poll"
    /\ pcw' = [pcw EXCEPT ![w] = IF failed THEN "done" ELSE "claim"]
    /\ UNCHANGED <<layoutVars, phase, ingest, nextId, failed, firstError, cur, filled, rawVars, dirVars, readerVars>>

\* A slip: one instrument too many.
MoreOrEqual == nextId <= n
MoreInstruments == nextId < n

\* Its second half: (id = nextId.fetch_add(1)) < n.
Claim(w) ==
    /\ pcw[w] = "claim"
    /\ nextId' = nextId + 1
    /\ cur' = [cur EXCEPT ![w] = nextId]
    /\ pcw' = [pcw EXCEPT ![w] = IF MoreInstruments THEN "read" ELSE "done"]
    /\ UNCHANGED <<layoutVars, phase, ingest, failed, firstError, filled, rawVars, dirVars, readerVars>>

\* A slip: the order of the timestamps is not looked at.
AcceptsAny(i) == TRUE

\* The checks on the records read.  The count compared with the scan's is itself computed
\* from the scanned sizes, so only the order of the timestamps can be refused here.
RecordsRead(i) == count[i]
Accepts(i) == RecordsRead(i) = table[i].count /\ i \notin unsorted

\* The instrument's files are read and checked, its blocks and segments computed; a short
\* read (the file shrank) or a refused record throws.
Read(w) ==
    /\ pcw[w] = "read"
    /\ stale' = stale \cup ({cur[w]} \cap changed)
    /\ \/ /\ Accepts(cur[w])
          /\ filled' = filled \cup {cur[w]}
          /\ pcw' = [pcw EXCEPT ![w] = "write"]
       \/ /\ count[cur[w]] > 0
          /\ UNCHANGED filled
          /\ pcw' = [pcw EXCEPT ![w] = "throw"]
    /\ UNCHANGED <<layoutVars, phase, ingest, nextId, failed, firstError, cur, unsorted, changed, dirVars, readerVars>>

\* pwrite of all its records, and with --verify their read-back; either may throw.
Write(w) ==
    /\ pcw[w] = "write"
    /\ \/ /\ tmp' = [tmp EXCEPT !["data"].has = @ \cup {cur[w]}]
          /\ pcw' = [pcw EXCEPT ![w] = "poll"]
       \/ /\ count[cur[w]] > 0
          /\ UNCHANGED tmp
          /\ pcw' = [pcw EXCEPT ![w] = "throw"]
    /\ UNCHANGED <<layoutVars, phase, ingest, nextId, failed, firstError, cur, filled, rawVars, final, readerVars>>

\* A slip: the handler sits inside the loop and the thread tries the instrument again.
AfterErrorRetry == "read"
AfterError == "done"

\* The catch block, under errorMutex.
Catch(w) ==
    /\ pcw[w] = "throw"
    /\ firstError' = TRUE
    /\ failed' = TRUE
    /\ pcw' = [pcw EXCEPT ![w] = AfterError]
    /\ UNCHANGED <<layoutVars, phase, ingest, nextId, cur, filled, rawVars, dirVars, readerVars>>

-----------------------------------------------------------------------------
(* The surroundings: the raw tree, and a reader of the store. *)

\* Somebody appends to or replaces the raw files of instrument i (sizes did not shrink).
ChangeRaw(i) ==
    /\ RawChanges
    /\ phase \in {"layout", "pool"}
    /\ i \notin changed
    /\ changed' = changed \cup {i}
    /\ UNCHANGED <<layoutVars, phase, ingest, poolVars, unsorted, stale, dirVars, readerVars>>

\* Store::Store maps one file after the other; what it maps stays mapped across renames.
Map(k, from, to) ==
    /\ rpc = from
    /\ rpc' = to
    /\ handle' = [handle EXCEPT ![k] = final[k]]
    /\ UNCHANGED <<layoutVars, phase, ingest, poolVars, rawVars, dirVars>>

OpenIndex == final["index"] # Absent /\ Map("index", "closed", "index")
OpenData == final["data"].length = handle["index"].length /\ final["data"] # Absent
            /\ Map("data", "index", "data")
OpenSegments == final["segments"].n = handle["index"].n /\ final["segments"] # Absent
                /\ Map("segments", "data", "open")

\* A check fails and the constructor throws, or the store is destroyed.
CloseStore ==
    /\ rpc # "closed"
    /\ rpc' = "closed"
    /\ handle' = [k \in Kind |-> Absent]
    /\ UNCHANGED <<layoutVars, phase, ingest, poolVars, rawVars, dirVars>>

MainStep == LayOut \/ CreateFiles \/ JoinPool \/ WriteIndex \/ WriteSegments \/ \E i \in 1 .. 3 : Rename(i)
WorkerStep(w) == Poll(w) \/ Claim(w) \/ Read(w) \/ Write(w) \/ Catch(w)
ReaderStep == OpenIndex \/ OpenData \/ OpenSegments \/ CloseStore

NextIngest ==
    \/ \E m \in 0 .. MaxInstruments : \E c \in Raws(m) : \E bad \in SUBSET (0 .. m - 1) : Start(m, c, bad)
    \/ MainStep
    \/ Die
    \/ \E w \in Worker : WorkerStep(w)
    \/ \E i \in Instruments : ChangeRaw(i)
    \/ ReaderStep

SpecIngest == InitIngest /\ [][NextIngest]_vars

\* The threads of a living process keep running; nothing makes anybody start an ingest.
FairSpecIngest == SpecIngest /\ WF_vars(MainStep) /\ \A w \in Worker : WF_vars(WorkerStep(w))

-----------------------------------------------------------------------------
(* Properties. *)

FileType == [by : 0 .. MaxIngests, length : Nat, n : Nat, has : SUBSET (0 .. MaxInstruments - 1)]

\* Types of the locals of run(), of the directory and of the reader; a thread that works on
\* an instrument works on one that exists.
IngestTypeOK ==
    /\ LayoutTypeOK
    /\ phase \in {"idle", "layout", "pool", "index", "segments", "rename1", "rename2", "rename3"}
    /\ ingest \in 0 .. MaxIngests
    /\ nextId \in Nat /\ failed \in BOOLEAN /\ firstError \in BOOLEAN
    /\ pcw \in [Worker -> {"poll", "claim", "read", "write", "throw", "done"}]
    /\ cur \in [Worker -> Nat]
    /\ \A w \in Worker : pcw[w] \in {"read", "write", "throw"} => cur[w] \in Instruments
    /\ filled \subseteq Instruments /\ unsorted \subseteq Instruments
    /\ changed \subseteq Instruments /\ stale \subseteq changed
    /\ tmp \in [Kind -> FileType] /\ final \in [Kind -> FileType]
    /\ rpc \in {"closed", "index", "data", "open"}
    /\ handle \in [Kind -> FileType]

\* Two threads never write into the same alignment unit of data.db at the same time, and all
\* they write lies inside the length the file was given.
WritersApart ==
    \A w, v \in Worker : pcw[w] = "write" =>
        /\ RecordsEnd(cur[w]) <= tmp["data"].length
        /\ w # v /\ pcw[v] = "write" /\ HasRecords(cur[w]) /\ HasRecords(cur[v]) =>
              Pages(cur[w]) \cap Pages(cur[v]) = {}

Whole(file) == file.by = ingest /\ file.has = Instruments

\* Nothing is published before everything is written: the first published file changes only
\* when all three files of this ingest are complete and no instrument was refused.
PublishesOnlyWhole ==
    [][final' # final =>
        /\ unsorted = {} /\ ~failed
        /\ \A k \in Kind : Whole(tmp[k]) \/ Whole(final[k])
        /\ tmp["index"].length = DataRecords]_final

\* A store with instruments that could be opened is the store of one ingest: its index,
\* records and segments belong together.  ingest.cpp: "Index last: a store only exists once
\* index.idx does."
OpenedStoreIsOne ==
    rpc = "open" /\ handle["index"].n > 0 =>
                    /\ handle["data"].by = handle["index"].by
                    /\ handle["segments"].by = handle["index"].by
                    /\ handle["data"].has = handle["index"].has

\* What is true of it however many ingests there have been, some of which may have died between
\* two renames: whenever the reader mapped what, the index it goes by is not newer than its records
\* and segments, and if it is the latest ingest's, the store is that ingest's.  In a directory
\* used once there is no other.
IndexGoesLast ==
    rpc = "open" =>
        /\ handle["index"].by <= handle["data"].by /\ handle["index"].by <= handle["segments"].by
        /\ handle["index"].by = ingest => OpenedStoreIsOne

\* A changed raw file is noticed: no store is published that was built from files read after
\* they changed.  ingest.cpp throws "raw files changed during ingest".
RawChangeRefused == [][final'["index"] # final["index"] => stale = {}]_final

\* An ingest always ends, published or not, whatever its threads meet.
IngestEnds == phase # "idle" ~> phase = "idle"

(* The inductive invariant (IngestProofs). *)

AtWork(w) == pcw[w] \in {"read", "write", "throw"}
Copied(i) == i \in filled /\ i \in tmp["data"].has

\* There are threads only while the pool runs; each works on an instrument of its own, claimed
\* before, and writes only what it has accepted.
WorkersApart ==
    /\ \A w \in Worker : pcw[w] # "done" => phase = "pool"
    /\ \A w \in Worker : AtWork(w) => cur[w] < nextId
    /\ \A w, v \in Worker : AtWork(w) /\ AtWork(v) /\ cur[w] = cur[v] => w = v
    /\ \A w \in Worker : pcw[w] = "write" => cur[w] \in filled

\* What has been claimed is copied or being worked on, unless a thread has failed; and the last
\* thread leaves only when everything is claimed.
NothingSkipped ==
    /\ phase = "layout" => nextId = 0
    /\ phase = "pool" =>
        /\ \A i \in Instruments : i < nextId =>
               Copied(i) \/ failed \/ \E w \in Worker : AtWork(w) /\ cur[w] = i
        /\ (\E w \in Worker : pcw[w] # "done") \/ failed \/ n <= nextId

Building == {"index", "segments", "rename1", "rename2", "rename3"}

\* The three files, each where the steps up to phase have put it.
FilesBuilt ==
    /\ phase \in {"pool"} \cup Building => LayoutDone
    /\ phase = "pool" => /\ tmp["data"].by = ingest /\ tmp["data"].length = DataRecords
                         /\ tmp["data"].has \subseteq filled
    /\ phase \in Building => ~failed /\ unsorted = {} /\ filled = Instruments
    /\ phase \in {"index", "segments", "rename1"} => Whole(tmp["data"])
    /\ phase \in {"rename2", "rename3"} => Whole(final["data"])
    /\ phase \in Building \ {"index"} => Whole(tmp["index"]) /\ tmp["index"].length = DataRecords
    /\ phase \in {"rename1", "rename2"} => Whole(tmp["segments"])
    /\ phase = "rename3" => Whole(final["segments"])

\* No file is of an ingest to come; what is published or mapped of the latest one is whole.
LatestFiles ==
    /\ ingest = 0 => \A k \in Kind : final[k] = Absent /\ handle[k] = Absent
    /\ \A k \in Kind : final[k].by <= ingest /\ handle[k].by <= ingest
    /\ ingest > 0 => \A k \in Kind : /\ final[k].by = ingest => Whole(final[k])
                                     /\ handle[k].by = ingest => Whole(handle[k])

IngestInv ==
    /\ IngestTypeOK /\ n <= MaxInstruments
    /\ failed = firstError /\ filled \cap unsorted = {} /\ (phase # "idle" => ingest > 0)
    /\ WorkersApart /\ NothingSkipped /\ FilesBuilt /\ LatestFiles

\* Published files are of no later ingest than those renamed before them, and the reader's index
\* of none later than what it can still map.  With IngestInv, this is inductive.
PublishedInOrder ==
    /\ final["index"].by <= final["segments"].by /\ final["segments"].by <= final["data"].by
    /\ handle["index"].by <= final["segments"].by
    /\ rpc \in {"data", "open"} => handle["index"].by <= handle["data"].by
    /\ rpc = "open" => handle["index"].by <= handle["segments"].by
=============================================================================
