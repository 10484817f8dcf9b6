----------------------------- MODULE SnapshotRun -----------------------------
(***************************************************************************)
(* cmdSnapshot (snapshot.cpp): for every timestamp of the input the last    *)
(* known price of every instrument, looked up in parallel into one row      *)
(* buffer that is used again and again, and appended to the output file.    *)
(*                                                                         *)
(* A last known price is named by the timestamp it was asked for (StoreIndex *)
(* says which record it comes from).  The timestamps need not ascend.       *)
(***************************************************************************)
EXTENDS SimCommand

CONSTANTS
    MaxStamps,          \* bound: lines of the input
    Times,              \* timestamps
    Never,              \* later than all of them
    Width               \* kSnapshotWidth

ASSUME MaxStampsNat == MaxStamps \in Nat
ASSUME WidthPositive == Width \in Nat \ {0}

VARIABLES
    since,              \* per instrument of the store, the time of its first record
    row                 \* the row buffer

snapshotOwn == <<since, row>>

NaN == -2

\* A line is blank, malformed, or a timestamp.
StampLines == [kind : {"blank", "malformed"}, ts : {Never}] \cup [kind : {"stamp"}, ts : Times]

\* A store may hold fewer instruments than a row, as many, or more.
InitSnapshotOwn ==
    /\ \E n \in 0 .. Width + 1 : since \in [0 .. n - 1 -> {1, Never}]
    /\ row = [id \in 0 .. Width - 1 |-> 0]
InitSnapshot ==
    /\ InitCommand
    /\ lines \in UNION {[1 .. n -> StampLines] : n \in 0 .. MaxStamps}
    /\ InitSnapshotOwn

-----------------------------------------------------------------------------
\* parseTimestamps.
StampsParse == \A k \in DOMAIN lines : lines[k].kind # "malformed"

\* The timestamps of the first k lines, in order: the vector the loop over the lines fills.
StampsTo[k \in 0 .. Len(lines)] ==
    IF k = 0 THEN <<>>
    ELSE IF lines[k].kind = "stamp" THEN Append(StampsTo[k - 1], lines[k].ts)
    ELSE StampsTo[k - 1]
Stamps == StampsTo[Len(lines)]

\* store.nInstruments().
NInstruments == Cardinality(DOMAIN since)

\* lastKnownPrice(id, ts, ...) finds one.
HasPrice(id, ts) == since[id] <= ts

ParseTimestamps ==
    /\ step = "begin" /\ Live
    /\ UNCHANGED snapshotOwn
    /\ IF StampsParse
       THEN step' = "open" /\ UNCHANGED <<loopVars, at, lines, opened, out, verdict>>
       ELSE Rejected

OpenRows ==
    /\ step = "open" /\ Live
    /\ UNCHANGED <<loopVars, at, lines, out, snapshotOwn>>
    /\ \/ opened' = TRUE /\ step' = "row" /\ UNCHANGED verdict
       \/ End("failed") /\ UNCHANGED opened

\* The timestamp of the row that is being built.
Current == Stamps[Len(out) + 1]

\* A slip: the buffer is not filled anew.
FilledOnce == IF out = <<>> THEN [id \in 0 .. Width - 1 |-> NaN] ELSE row
Filled == [id \in 0 .. Width - 1 |-> NaN]

\* snapshotRow: fill the buffer, start the loop over the instruments.
BeginRow ==
    /\ step = "row" /\ Live
    /\ Len(out) < Len(Stamps)
    /\ row' = Filled
    /\ RunPool(IF NInstruments < Width THEN NInstruments ELSE Width, "append")
    /\ UNCHANGED <<at, lines, opened, out, verdict, since>>

TakeInstrument(t, id) == TakeIndex(t, id) /\ UNCHANGED snapshotOwn

LookUp(t) ==
    /\ at[t] # Nothing /\ Live
    /\ row' = IF HasPrice(at[t], Current) THEN [row EXCEPT ![at[t]] = Current] ELSE row
    /\ LeaveIndex(t)
    /\ UNCHANGED since

AppendRow ==
    /\ step = "append" /\ Live
    /\ \/ out' = Append(out, row) /\ step' = "row" /\ UNCHANGED verdict
       \/ End("failed") /\ UNCHANGED out
    /\ UNCHANGED <<loopVars, at, lines, opened, snapshotOwn>>

CloseRows ==
    /\ step = "row" /\ Live
    /\ Len(out) = Len(Stamps)
    /\ \E v \in {"ok", "failed"} : End(v)
    /\ UNCHANGED <<loopVars, at, lines, opened, out, snapshotOwn>>

SnapshotMain ==
    \/ Refuse /\ UNCHANGED snapshotOwn
    \/ ParseTimestamps \/ OpenRows \/ BeginRow
    \/ PoolReturns("append") /\ UNCHANGED snapshotOwn
    \/ AppendRow \/ CloseRows

SnapshotThread(t) == (\E id \in todo : TakeInstrument(t, id)) \/ LookUp(t)

-----------------------------------------------------------------------------
(* Properties. *)

\* The snapshot at ts as a command of its own would take it.
FromScratch(ts) ==
    [id \in 0 .. Width - 1 |-> IF id < NInstruments /\ HasPrice(id, ts) THEN ts ELSE NaN]

\* Whatever rows the buffer held before, every row in the file is that of its timestamp taken
\* from scratch, none missing from a command that succeeds.
SnapshotsFromScratch ==
    /\ Len(out) <= Len(Stamps)
    /\ \A k \in DOMAIN out : out[k] = FromScratch(Stamps[k])
    /\ verdict = "ok" => Len(out) = Len(Stamps)

(* The inductive invariant (SimRunProofs). *)

\* What the row buffer holds while some instruments are yet to be looked up.
RowSoFar == row = [id \in 0 .. Width - 1 |-> IF id \in todo \cup busy THEN NaN ELSE FromScratch(Current)[id]]

SnapshotInv ==
    /\ LoopInv
    /\ step \in {"begin", "open", "row", "pool", "append", "end"}
    /\ lines \in UNION {[1 .. n -> StampLines] : n \in 0 .. MaxStamps}
    /\ \E n \in 0 .. Width + 1 : since \in [0 .. n - 1 -> {1, Never}]
    /\ step = "begin" => ~opened
    /\ opened \/ step \notin {"begin", "end"} => StampsParse
    /\ step = "pool" => todo \cup busy \subseteq (0 .. NInstruments - 1) \cap (0 .. Width - 1)
    /\ step \in {"pool", "append"} => Len(out) < Len(Stamps) /\ RowSoFar
    /\ out \in Seq([0 .. Width - 1 -> Times \cup {NaN}])
    /\ SnapshotsFromScratch
=============================================================================
