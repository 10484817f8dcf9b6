------------------------------ MODULE TradesRun ------------------------------
(***************************************************************************)
(* cmdTrades (trades.cpp): the positions of a CSV file are priced in chunks *)
(* by a pool of threads, each into a text of its own; the texts are joined  *)
(* in the order of the input and written at once.                           *)
(*                                                                         *)
(* What a position is worth is the matter of StoreIndex.  Here a line of    *)
(* the input is blank, malformed, or a position that can be priced or not;  *)
(* alpha says that it begins with a letter.  A row of the output names the  *)
(* line it is for.                                                          *)
(***************************************************************************)
EXTENDS SimCommand

CONSTANTS
    MaxTrades,          \* bound: lines of the input
    RowsPerChunk        \* kRowsPerChunk

ASSUME MaxTradesNat == MaxTrades \in Nat
ASSUME RowsPositive == RowsPerChunk \in Nat \ {0}

VARIABLES
    chunks,             \* rows of every chunk
    bad,                \* per thread, the positions of its chunk it could not price
    unresolved          \* the shared count of them

tradesOwn == <<chunks, bad, unresolved>>

\* Only the first line's first letter is ever looked at.
TradeFiles ==
    {f \in UNION {[1 .. n -> [alpha : BOOLEAN, kind : {"blank", "malformed", "priced", "unresolved"}]] :
                    n \in 0 .. MaxTrades} :
        \A k \in DOMAIN f : f[k].alpha => k = 1 /\ f[k].kind # "blank"}

InitTradesOwn == chunks = <<>> /\ bad = [t \in Thread |-> 0] /\ unresolved = 0
InitTrades == InitCommand /\ lines \in TradeFiles /\ InitTradesOwn

-----------------------------------------------------------------------------
(* parseTrades. *)

\* The first line is a header when it begins with a letter, whatever follows.
IsHeader(k) == k = 1 /\ lines[k].alpha
TradesParse == \A k \in DOMAIN lines : lines[k].kind = "malformed" => IsHeader(k)

\* The positions of the first k lines, in order: the vector the loop over the lines fills.
TradesTo[k \in 0 .. Len(lines)] ==
    IF k = 0 THEN <<>>
    ELSE IF lines[k].kind # "blank" /\ ~IsHeader(k) THEN Append(TradesTo[k - 1], k)
    ELSE TradesTo[k - 1]
Trades == TradesTo[Len(lines)]
IsUnresolved(k) == lines[k].kind = "unresolved"

-----------------------------------------------------------------------------
(* The command. *)

\* A slip: a last chunk that is not full is forgotten.
WholeChunks == Len(Trades) \div RowsPerChunk
NChunks == (Len(Trades) + RowsPerChunk - 1) \div RowsPerChunk

ParseTrades ==
    /\ step = "begin" /\ Live
    /\ UNCHANGED <<bad, unresolved>>
    /\ IF TradesParse
       THEN /\ RunPool(NChunks, "join")
            /\ chunks' = [c \in 0 .. NChunks - 1 |-> <<>>]
            /\ UNCHANGED <<at, lines, opened, out, verdict>>
       ELSE Rejected /\ UNCHANGED chunks

TakeChunk(t, c) ==
    /\ TakeIndex(t, c)
    /\ bad' = [bad EXCEPT ![t] = 0]
    /\ UNCHANGED <<chunks, unresolved>>

\* The next position of the thread's chunk, and whether there is one.
NextRow(t) == at[t] * RowsPerChunk + Len(chunks[at[t]]) + 1
InChunk(t) == NextRow(t) <= Len(Trades) /\ Len(chunks[at[t]]) < RowsPerChunk

PriceRow(t) ==
    /\ at[t] # Nothing /\ Live
    /\ InChunk(t)
    /\ LET k == Trades[NextRow(t)]
       IN  /\ chunks' = [chunks EXCEPT ![at[t]] = Append(@, k)]
           /\ bad' = [bad EXCEPT ![t] = IF IsUnresolved(k) THEN @ + 1 ELSE @]
    /\ UNCHANGED <<commandVars, unresolved>>

\* unresolved is atomic: the addition is one step.
EndChunk(t) ==
    /\ at[t] # Nothing /\ Live
    /\ ~InChunk(t)
    /\ unresolved' = unresolved + bad[t]
    /\ LeaveIndex(t)
    /\ UNCHANGED <<chunks, bad>>

\* The chunks one after the other.
Joined == FlattenSeq([c \in 1 .. Cardinality(DOMAIN chunks) |-> chunks[c - 1]])

\* writeFile truncates the file, or cannot open it ...
OpenResults ==
    /\ step = "join" /\ Live
    /\ UNCHANGED <<loopVars, at, lines, out, tradesOwn>>
    /\ \/ opened' = TRUE /\ step' = "write" /\ UNCHANGED verdict
       \/ End("failed") /\ UNCHANGED opened

\* ... and writes everything, or a part and throws.
WriteResults ==
    /\ step = "write" /\ Live
    /\ out' \in Prefixes(Joined)
    /\ \/ out' = Joined /\ End("ok")
       \/ End("failed")
    /\ UNCHANGED <<loopVars, at, lines, opened, tradesOwn>>

TradesMain ==
    \/ Refuse /\ UNCHANGED tradesOwn
    \/ ParseTrades
    \/ PoolReturns("join") /\ UNCHANGED tradesOwn
    \/ OpenResults \/ WriteResults

TradesThread(t) == (\E c \in todo : TakeChunk(t, c)) \/ PriceRow(t) \/ EndChunk(t)

-----------------------------------------------------------------------------
(* Properties. *)

\* Whichever thread priced which chunk, and whenever, a command that succeeds has written what
\* a single thread would have: one row per position in the order of the input, and the count of
\* positions without a price is exact.
TradesAsSerial ==
    verdict = "ok" => /\ out = Trades
                      /\ unresolved = Cardinality({j \in DOMAIN Trades : IsUnresolved(Trades[j])})

(* The inductive invariant (SimRunProofs). *)

Chunk == 0 .. NChunks - 1
ChunkOf(j) == (j - 1) \div RowsPerChunk
BadRows(rows) == {j \in rows : IsUnresolved(Trades[j])}

\* The rows of chunk c that have been priced, and all rows of the chunks that are through.
Priced(c) == c * RowsPerChunk + 1 .. c * RowsPerChunk + Len(chunks[c])
Counted == {j \in 1 .. Len(Trades) : ChunkOf(j) \notin todo \cup busy}

\* A chunk has its positions in order, and all of them when no thread has it to do or is at it.
ChunkRight(c) ==
    /\ chunks[c] \in Seq(Nat)
    /\ Len(chunks[c]) <= RowsPerChunk /\ c * RowsPerChunk + Len(chunks[c]) <= Len(Trades)
    /\ \A j \in 1 .. Len(chunks[c]) : chunks[c][j] = Trades[c * RowsPerChunk + j]
    /\ c \in todo => chunks[c] = <<>>
    /\ c \notin todo \cup busy => \/ Len(chunks[c]) = RowsPerChunk
                                  \/ c * RowsPerChunk + Len(chunks[c]) = Len(Trades)

\* A thread has counted the positions without a price among the rows of its chunk so far.
BadRight == \A t \in Thread : at[t] # Nothing => bad[t] = Cardinality(BadRows(Priced(at[t])))

TradesInv ==
    /\ LoopInv
    /\ step \in {"begin", "pool", "join", "write", "end"}
    /\ lines \in TradeFiles
    /\ bad \in [Thread -> Nat] /\ unresolved \in Nat
    /\ step = "begin" => chunks = <<>> /\ unresolved = 0
    /\ step \in {"pool", "join", "write"} =>
          /\ TradesParse
          /\ DOMAIN chunks = Chunk /\ (\A c \in Chunk : ChunkRight(c)) /\ todo \cup busy \subseteq Chunk
          /\ unresolved = Cardinality(BadRows(Counted))
    /\ BadRight
    /\ opened => step \in {"write", "end"} /\ TradesParse /\ Joined = Trades
    /\ TradesAsSerial
=============================================================================
