------------------------------ MODULE StrategyRun ------------------------------
(***************************************************************************)
(* The parallel part of cmdStrategy (strategy.cpp).  The instruments are a *)
(* parallel loop (ParallelFor, which ThreadPool implements) with chunk 1;  *)
(* each thread simulates its instrument, hands the trades over under the   *)
(* mutex m and, still holding it, emits every instrument whose turn has    *)
(* come: into the text buffer pending, the sums, and now and then the file. *)
(*                                                                         *)
(* What strategyOnSegment trades is abstracted to the number of rows, which *)
(* the store and the parameters determine.  A sum is the sequence of what   *)
(* was added up, for the order of floating-point additions matters.         *)
(*                                                                         *)
(* An fwrite that falls short drops what it could not write.  Its result is *)
(* not looked at, and the fclose at the end may still succeed: glibc reports *)
(* there what it fails to flush, not what failed before.                    *)
(***************************************************************************)
EXTENDS ParallelFor, Sequences, FiniteSets

CONSTANTS
    Thread,             \* the pool's threads, the caller included
    NoThread,           \* m when nobody holds it
    MaxRows,            \* bound: trades of one instrument
    FlushAt,            \* pending is written out when it holds more rows (in the code: 4 MiB)
    RegionSizes,        \* nStocks of every region of region.yaml, in its order
    Reverters           \* ids listed in the reverters file

ASSUME SizesNat == Sizes \subseteq Nat
ASSUME BoundsNat == MaxRows \in Nat /\ FlushAt \in Nat
ASSUME RegionSizesNat == RegionSizes \in Seq(Nat)
ASSUME NoThreadApart == NoThread \notin Thread

VARIABLES
    step,               \* where cmdStrategy is: "begin", "pool", "close", "summary" or "end"
    pc, cur,            \* per thread: state, and instrument it works on
    m,                  \* holder of the mutex
    rows,               \* input: trades runInstrument finds for each instrument
    fails,              \* input: instruments for which it throws after those
    finished,           \* per instrument, the trades handed over and not yet emitted
    nextEmit,
    pending,            \* text not yet written
    file,               \* text handed to fwrite for the trades file
    lost,               \* whether an fwrite has dropped some of it
    sums,               \* per group, the rows that were added to its sums, in that order
    error,              \* whether some thread has recorded an exception
    verdict             \* how cmdStrategy ended: "none", "ok" or "failed"

outVars == <<nextEmit, pending, file, lost, sums>>
inputVars == <<rows, fails>>
loopVars == <<status, todo, busy>>
strategyVars == <<loopVars, inputVars, step, pc, cur, m, finished, outVars, error, verdict>>

size == Cardinality(DOMAIN rows)

Empty == -1             \* std::nullopt in a slot of finished
RowsOf(id, r) == [k \in 1 .. r |-> <<id, k>>]

-----------------------------------------------------------------------------
(* Groups of the summary. *)

NoGroup == -1

\* loadConfig numbers the stocks through, region after region.
firstSecurityId[r \in DOMAIN RegionSizes] ==
    IF r = 1 THEN 0 ELSE firstSecurityId[r - 1] + RegionSizes[r - 1]

\* regionIndexOf: the first region whose range has id, if there is one.
RegionsOf(id) ==
    {r \in DOMAIN RegionSizes : firstSecurityId[r] <= id /\ id < firstSecurityId[r] + RegionSizes[r]}

\* loadReverters: the flag of a listed instrument.
Flag(id) == IF id \in Reverters THEN 1 ELSE 0

\* groups[region * 2 + reverter[id]], regions counted from 0.
Groups == 0 .. 2 * Len(RegionSizes) - 1
GroupOf(id) ==
    IF RegionsOf(id) = {} THEN NoGroup
    ELSE LET r == CHOOSE r \in RegionsOf(id) : \A q \in RegionsOf(id) : r <= q
         IN  2 * (r - 1) + Flag(id)

-----------------------------------------------------------------------------
InitStrategy ==
    /\ Init
    /\ \E n \in Sizes : rows \in [0 .. n - 1 -> 0 .. MaxRows]
    /\ fails \in SUBSET DOMAIN rows
    /\ pc = [t \in Thread |-> "idle"] /\ cur = [t \in Thread |-> 0]
    /\ m = NoThread
    /\ finished = [id \in DOMAIN rows |-> Empty]
    /\ nextEmit = 0 /\ pending = <<>> /\ file = <<>> /\ lost = FALSE
    /\ step = "begin" /\ sums = [g \in Groups |-> <<>>]
    /\ error = FALSE /\ verdict = "none"

\* An option or the store is refused, or the reverters file or the output cannot be opened;
\* else the header goes into the stream's buffer and pool.run(n, 1, ...) is called, which
\* returns at once for n = 0.
StartPool ==
    /\ step = "begin"
    /\ \/ /\ step' = "end" /\ verdict' = "failed"
          /\ UNCHANGED loopVars
       \/ /\ IF size = 0 THEN step' = "close" /\ UNCHANGED loopVars
                         ELSE step' = "pool" /\ Begin(size)
          /\ UNCHANGED verdict
    /\ UNCHANGED <<inputVars, pc, cur, m, finished, outVars, error>>

\* A thread gets the next instrument from the pool.
TakeInstrument(t, id) ==
    /\ pc[t] = "idle"
    /\ Take({id})
    /\ pc' = [pc EXCEPT ![t] = "run"]
    /\ cur' = [cur EXCEPT ![t] = id]
    /\ UNCHANGED <<inputVars, step, m, finished, outVars, error, verdict>>

\* runInstrument finds the trades of all segments, or throws and leaves those found so far.
RunInstrument(t) ==
    /\ pc[t] = "run"
    /\ pc' = [pc EXCEPT ![t] = IF cur[t] \in fails THEN "catch" ELSE "hand"]
    /\ UNCHANGED <<loopVars, inputVars, step, cur, m, finished, outVars, error, verdict>>

\* A slip: the handler tries the instrument again.
TryAgain == "run"
AfterRecord == "hand"

\* The catch block: keep the first error, under a lock of m of its own.
Record(t) ==
    /\ pc[t] = "catch"
    /\ m = NoThread
    /\ error' = TRUE
    /\ pc' = [pc EXCEPT ![t] = AfterRecord]
    /\ UNCHANGED <<loopVars, inputVars, step, cur, m, finished, outVars, verdict>>

\* Lock m and move the trades into the instrument's slot, also those of a failed one.
HandOver(t) ==
    /\ pc[t] = "hand"
    /\ m = NoThread
    /\ m' = t
    /\ finished' = [finished EXCEPT ![cur[t]] = rows[cur[t]]]
    /\ pc' = [pc EXCEPT ![t] = "emit"]
    /\ UNCHANGED <<loopVars, inputVars, step, cur, outVars, error, verdict>>

TurnHasCome == nextEmit < size /\ finished[nextEmit] # Empty

\* fwrite of text, which may fall short when there is more than fits the stream's buffer.
Fwrite(text) == file' = file \o text /\ lost' \in (IF text = <<>> THEN {lost} ELSE {lost, TRUE})
Keep(text) == pending' = text /\ UNCHANGED <<file, lost>>

\* A slip: the buffer is written but not cleared.
FlushUncleared(text) == Fwrite(text) /\ pending' = text
FlushWhenLong(text) == IF Len(text) > FlushAt THEN Fwrite(text) /\ pending' = <<>> ELSE Keep(text)

\* One turn of the loop under m: emit(nextEmit, ...), empty the slot, advance.
EmitNext(t) ==
    LET new == RowsOf(nextEmit, finished[nextEmit])
    IN  /\ pc[t] = "emit"
        /\ TurnHasCome
        /\ FlushWhenLong(pending \o new)
        /\ sums' = [g \in DOMAIN sums |-> IF g = GroupOf(nextEmit) THEN sums[g] \o new ELSE sums[g]]
        /\ finished' = [finished EXCEPT ![nextEmit] = Empty]
        /\ nextEmit' = nextEmit + 1
        /\ UNCHANGED <<loopVars, inputVars, step, pc, cur, m, error, verdict>>

\* A slip: the thread may leave with slots left whose turn has come.
LeaveAnyway == TRUE
NothingToEmit == ~TurnHasCome

\* The loop ends, m is released, the body returns to the pool.
Unlock(t) ==
    /\ pc[t] = "emit"
    /\ NothingToEmit
    /\ m' = NoThread
    /\ Complete({cur[t]})
    /\ pc' = [pc EXCEPT ![t] = "idle"]
    /\ UNCHANGED <<inputVars, step, cur, finished, outVars, error, verdict>>

PoolReturns ==
    /\ Return
    /\ step' = "close"
    /\ UNCHANGED <<inputVars, pc, cur, m, finished, outVars, error, verdict>>

\* A slip: the recorded error is not rethrown.
Ignored == FALSE
Rethrown == error

\* After the pool: rethrow the first error, or write the rest and close the file.
CloseTrades ==
    /\ step = "close"
    /\ IF Rethrown
       THEN step' = "end" /\ verdict' = "failed" /\ UNCHANGED outVars
       ELSE /\ Fwrite(pending) /\ pending' = <<>>
            /\ \/ step' = "summary" /\ UNCHANGED verdict
               \/ step' = "end" /\ verdict' = "failed"
            /\ UNCHANGED <<nextEmit, sums>>
    /\ UNCHANGED <<loopVars, inputVars, pc, cur, m, finished, error>>

\* The summary of the groups is written, or cannot be.
WriteSummary ==
    /\ step = "summary"
    /\ step' = "end" /\ verdict' \in {"ok", "failed"}
    /\ UNCHANGED <<loopVars, inputVars, pc, cur, m, finished, outVars, error>>

MainStep == StartPool \/ PoolReturns \/ CloseTrades \/ WriteSummary

ThreadStep(t) ==
    \/ \E id \in todo : TakeInstrument(t, id)
    \/ RunInstrument(t) \/ Record(t) \/ HandOver(t) \/ EmitNext(t) \/ Unlock(t)

\* The command has ended; without this step that state would be a deadlock.
Ended == verdict # "none" /\ UNCHANGED strategyVars

NextStrategy == MainStep \/ (\E t \in Thread : ThreadStep(t)) \/ Ended

SpecStrategy == InitStrategy /\ [][NextStrategy]_strategyVars

\* Every thread that can run is run; m is asked for finitely often, so no thread starves.
FairSpecStrategy ==
    /\ SpecStrategy
    /\ WF_strategyVars(MainStep)
    /\ \A t \in Thread : WF_strategyVars(ThreadStep(t))

-----------------------------------------------------------------------------
(* Properties. *)

Serial == INSTANCE SerialStrategy WITH upto <- nextEmit, out <- file \o pending

\* Whatever the threads' timing, the rows leave in the order, and with the verdict, of a run
\* that takes the instruments one by one: no row lost, doubled or out of order, and the sums of
\* every group are added up in the order of its rows in the file.
ImplementsSerial == Serial!Spec

\* Whenever m is free, the instrument whose turn it is has not been handed over yet: nobody
\* leaves behind trades that no later thread would emit.
NothingStranded == m = NoThread /\ nextEmit < size => finished[nextEmit] = Empty

\* A command that reports success met no error and has handed every row to the file.
SuccessIsComplete ==
    verdict = "ok" => /\ fails = {}
                      /\ pending = <<>> /\ nextEmit = size

\* What the check behind fclose is there for, "failed to write" (strategy.cpp:255): a command
\* that reports success has a trades file in which nothing is missing.
FailedWriteReported == verdict = "ok" => ~lost

\* The command ends, whichever instruments fail.
StrategyEnds == <>(verdict # "none")

(* The inductive invariant (StrategyProofs). *)

Instrument == DOMAIN rows
Working(t) == pc[t] # "idle"

\* The variables have their types; instruments are numbered from 0.
StrategyTypeOK ==
    /\ size \in Nat /\ Instrument = 0 .. size - 1 /\ rows \in [Instrument -> Nat]
    /\ step \in {"begin", "pool", "close", "summary", "end"}
    /\ pc \in [Thread -> {"idle", "run", "catch", "hand", "emit"}] /\ cur \in [Thread -> Nat]
    /\ finished \in [Instrument -> Nat \cup {Empty}]
    /\ m \in Thread \cup {NoThread} /\ nextEmit \in 0 .. size
    /\ error \in BOOLEAN /\ verdict \in {"none", "ok", "failed"}

\* m is held while results are emitted.
HeldToEmit == \A t \in Thread : pc[t] = "emit" <=> m = t

\* The instruments in work are those of the threads at work, each its own; outside of the loop
\* there are none.
WorkApart ==
    /\ todo \subseteq Instrument /\ busy \subseteq Instrument /\ todo \cap busy = {}
    /\ \A t \in Thread : Working(t) => cur[t] \in busy
    /\ \A id \in busy : \E t \in Thread : Working(t) /\ cur[t] = id
    /\ \A t, u \in Thread : Working(t) /\ Working(u) /\ cur[t] = cur[u] => t = u
    /\ status = "running" <=> step = "pool"
    /\ status # "running" => todo = {} /\ busy = {}

\* What has been through the loop, or is about to leave it.
Through(id) ==
    \/ id \notin todo \cup busy
    \/ \E t \in Thread : pc[t] = "emit" /\ cur[t] = id

\* It is emitted or waits for its turn, and if it has failed, that is recorded.
HandedOver ==
    step \in {"pool", "close", "summary"} =>
        \A id \in Instrument : Through(id) => id < nextEmit \/ finished[id] # Empty
ErrorKept ==
    step \in {"pool", "close", "summary"} =>
        /\ \A id \in fails : Through(id) => error
        /\ \A t \in Thread : pc[t] = "hand" /\ cur[t] \in fails => error

Concluded ==
    /\ verdict # "none" <=> step = "end"
    /\ step \in {"close", "summary"} => nextEmit = size
    /\ step = "summary" => pending = <<>> /\ ~error /\ fails = {}

StrategyInv ==
    /\ StrategyTypeOK /\ fails \subseteq Instrument
    /\ HeldToEmit /\ WorkApart /\ HandedOver /\ ErrorKept /\ Concluded
    /\ NothingStranded /\ SuccessIsComplete

\* The output so far is that of the instruments emitted so far, in what is still to be written and
\* in every sum, and what waits is what the instrument has to emit.
EmittedInOrder ==
    /\ step = "begin" => nextEmit = 0
    /\ pending \in Seq(Nat \X Nat) /\ file \in Seq(Nat \X Nat)
    /\ \A id \in Instrument : finished[id] \in {Empty, rows[id]}
    /\ sums = [g \in Groups |-> Serial!OfGroup(g, file \o pending)]
=============================================================================
