---------------------------- MODULE StrategySegment ----------------------------
(***************************************************************************)
(* The mean-reversion strategy on one instrument (strategy.cpp):            *)
(* runInstrument reads segment after segment into a buffer that is reused,  *)
(* strategyOnSegment walks over the records of each with a ring buffer and  *)
(* running sums of the last window prices.                                  *)
(*                                                                         *)
(* Prices are integers, so z is decided exactly: with d and v below,        *)
(* z = d / sqrt(v).  The double arithmetic of the code, its rounding and    *)
(* the relative floor under the variance that rounding calls for are left   *)
(* out; thresholds are integers too.                                        *)
(***************************************************************************)
EXTENDS Integers, Sequences, FiniteSetsExt

CONSTANTS
    Params,             \* [window, entry, exit, maxHold]: StrategyParams
    Prices, Gaps,       \* prices, and seconds from one record to the next
    Notional,           \* money per position (10000.0 in the code)
    MaxSegments,        \* bound: segments of the instrument
    MaxRecords          \* bound: records of two segments in a row

ASSUME ParamsValid == Params \subseteq [window : Nat \ {0}, entry : Int, exit : Int, maxHold : Nat]
ASSUME RecordsPositive == Prices \subseteq Nat \ {0} /\ Gaps \subseteq Nat \ {0} /\ Notional \in Nat
ASSUME SegmentBoundsNat == MaxSegments \in Nat /\ MaxRecords \in Nat

VARIABLES
    p,                  \* the parameters of the run
    seg,                \* segments begun
    buf,                \* the reused buffer of records [time, price]
    n,                  \* records of the segment, at the start of buf
    i,                  \* next record
    ring, slot, sum, sumSq,
    open, side, qty, entry,     \* the position: qty units since the record entry of the segment
    out                 \* trades so far

windowVars == <<ring, slot, sum, sumSq>>
positionVars == <<open, side, qty, entry>>
segmentVars == <<p, seg, buf, n, i, windowVars, positionVars, out>>

NoRecord == [time |-> 0, price |-> 1]
BufSize == Cardinality(DOMAIN buf)

InitSegment ==
    /\ p \in Params
    /\ seg = 0 /\ n = 0 /\ i = 0
    /\ buf = [k \in {} |-> NoRecord]
    /\ ring = [k \in 0 .. p.window - 1 |-> 0] /\ slot = 0 /\ sum = 0 /\ sumSq = 0
    /\ open = FALSE /\ side = 0 /\ qty = 0 /\ entry = 0
    /\ out = <<>>

Longer(a, b) == IF a >= b THEN a ELSE b

\* Timestamps of a segment, given the gaps between its records.  Only their differences within
\* a segment matter, so every segment starts at time 1.
Times(gap) == [k \in {0} \cup DOMAIN gap |-> 1 + MapThenSumSet(LAMBDA j : gap[j], 1 .. k)]

\* A slip: ring, slot and sums go on from the segment before.
WindowKept == UNCHANGED windowVars
WindowCleared == ring' = [k \in 0 .. p.window - 1 |-> 0] /\ slot' = 0 /\ sum' = 0 /\ sumSq' = 0

\* runInstrument turns to its next segment: grow the buffer if need be, read the records over
\* its start, and enter strategyOnSegment.
BeginSegment(price, gap) ==
    /\ i = n
    /\ seg < MaxSegments
    /\ LET size == Cardinality(DOMAIN price)
           time == Times(gap)
       IN  /\ buf' = [k \in 0 .. Longer(BufSize, size) - 1 |->
                        IF k < size THEN [time |-> time[k], price |-> price[k]] ELSE buf[k]]
           /\ n' = size
    /\ seg' = seg + 1 /\ i' = 0
    /\ WindowCleared
    /\ open' = FALSE /\ side' = 0 /\ qty' = 0 /\ entry' = 0
    /\ UNCHANGED <<p, out>>

-----------------------------------------------------------------------------
(* z against a threshold k, for z = d / sqrt(v) and v > 0. *)

Above(d, v, k) == IF k >= 0 THEN d > 0 /\ d * d > k * k * v ELSE d >= 0 \/ d * d < k * k * v
AtLeast(d, v, k) == IF k >= 0 THEN d >= 0 /\ d * d >= k * k * v ELSE d >= 0 \/ d * d <= k * k * v

X(k) == buf[k].price - buf[0].price

\* The sums without the price that leaves the window.
Remainder ==
    IF i >= p.window THEN [sum |-> sum - ring[slot], sumSq |-> sumSq - ring[slot] * ring[slot]]
                     ELSE [sum |-> sum, sumSq |-> sumSq]

\* Entry conditions of a record: above the threshold go short, below it go long.
EntrySide(d, v) == IF Above(d, v, p.entry) THEN -1 ELSE IF Above(-d, v, p.entry) THEN 1 ELSE 0
ZExit(s, d, v) == IF s > 0 THEN AtLeast(d, v, p.exit) ELSE AtLeast(-d, v, p.exit)

IsLast == i + 1 = n

\* A slip: a position may outlive its maximum holding time by one record.
HeldPast == buf[i].time - buf[entry].time > p.maxHold
Held == buf[i].time - buf[entry].time >= p.maxHold

Trade(s, q, from, to) ==
    [seg |-> seg, from |-> from, to |-> to, side |-> s, qty |-> q,
     pnl |-> s * q * (buf[to].price - buf[from].price)]

\* One turn of the loop over the records.
Second ==
    /\ i < n
    /\ LET x == X(i)
           newSum == Remainder.sum + x
           newSq == Remainder.sumSq + x * x
           d == p.window * x - newSum
           v == p.window * newSq - newSum * newSum
           signal == i + 1 >= p.window /\ v > 0
           units == Notional \div buf[i].price
       IN  /\ ring' = [ring EXCEPT ![slot] = x]
           /\ sum' = newSum /\ sumSq' = newSq
           /\ slot' = IF slot + 1 = p.window THEN 0 ELSE slot + 1
           /\ IF open
              THEN /\ IF (signal /\ ZExit(side, d, v)) \/ Held \/ IsLast
                      THEN open' = FALSE /\ out' = Append(out, Trade(side, qty, entry, i))
                      ELSE UNCHANGED <<open, out>>
                   /\ UNCHANGED <<side, qty, entry>>
              ELSE /\ IF signal /\ ~IsLast /\ EntrySide(d, v) # 0
                      THEN /\ side' = EntrySide(d, v)
                           /\ qty' = units
                           /\ open' = (units >= 1)
                           /\ entry' = IF units >= 1 THEN i ELSE entry
                      ELSE UNCHANGED positionVars
                   /\ UNCHANGED out
    /\ i' = i + 1
    /\ UNCHANGED <<p, seg, buf, n>>

\* The instrument has no further segment.
Done == i = n /\ UNCHANGED segmentVars

NextSegment ==
    \/ \E size \in 1 .. MaxRecords - n :
          \E price \in [0 .. size - 1 -> Prices], gap \in [1 .. size - 1 -> Gaps] : BeginSegment(price, gap)
    \/ Second
    \/ Done

SpecSegment == InitSegment /\ [][NextSegment]_segmentVars

-----------------------------------------------------------------------------
(* Properties.  The definitions read the records afresh, with neither ring nor sums. *)

Window(k) == Longer(0, k + 1 - p.window) .. k

\* The sums over the records in S of their prices, and of the squares.
SumOver(S) == SumFunctionOnSet([k \in 0 .. n - 1 |-> X(k)], S)
SquaresOver(S) == SumFunctionOnSet([k \in 0 .. n - 1 |-> X(k) * X(k)], S)

\* The running sums are those of the last window prices recorded in this segment, in whatever
\* order the ring holds them and whatever an earlier segment left in it.
SumsOfWindow == sum = SumOver(Window(i - 1)) /\ sumSq = SquaresOver(Window(i - 1))

D(k) == p.window * X(k) - SumOver(Window(k))
V(k) == p.window * SquaresOver(Window(k)) - SumOver(Window(k)) * SumOver(Window(k))
Signal(k) == k + 1 >= p.window /\ V(k) > 0

\* What README says of the strategy, record by record.
Enters(k, s) == /\ Signal(k) /\ k < n - 1 /\ buf[k].price <= Notional
                /\ Above(-s * D(k), V(k), p.entry)
Leaves(k, s, from) == \/ Signal(k) /\ AtLeast(s * D(k), V(k), p.exit)
                      \/ buf[k].time - buf[from].time >= p.maxHold
                      \/ k = n - 1

Mine == {k \in DOMAIN out : out[k].seg = seg}
Occupied == (UNION {out[k].from .. out[k].to : k \in Mine}) \cup (IF open THEN entry .. i - 1 ELSE {})

\* Every trade enters and leaves at the records the definition names and at none before: no
\* position is opened late, kept past its first exit, reopened in its exit second, carried
\* into another segment, or missed.
TradesAsDefined ==
    /\ \A k \in Mine :
          /\ Enters(out[k].from, out[k].side)
          /\ out[k].from < out[k].to /\ Leaves(out[k].to, out[k].side, out[k].from)
          /\ \A j \in out[k].from + 1 .. out[k].to - 1 : ~Leaves(j, out[k].side, out[k].from)
    /\ \A k \in Mine : k + 1 \in DOMAIN out => out[k].to < out[k + 1].from
    /\ open => /\ Enters(entry, side)
               /\ \A j \in entry + 1 .. i - 1 : ~Leaves(j, side, entry)
    /\ \A j \in (0 .. i - 1) \ Occupied : ~Enters(j, 1) /\ ~Enters(j, -1)

(* The inductive invariant (StrategyProofs). *)

\* The records at hand are at the start of the buffer, and the walk is among them.
Walk ==
    /\ p \in Params /\ seg \in Nat /\ n \in Nat /\ i \in 0 .. n
    /\ BufSize \in Nat /\ n <= BufSize /\ DOMAIN buf = 0 .. BufSize - 1
    /\ \A k \in DOMAIN buf : buf[k].price \in Prices

\* The ring holds the last prices of this segment, the oldest of them at slot once it is full.
RingHolds ==
    /\ DOMAIN ring = 0 .. p.window - 1
    /\ slot \in 0 .. p.window - 1 /\ slot <= i
    /\ i < p.window => slot = i
    /\ \A j \in 0 .. slot - 1 : ring[j] = X(i - slot + j)
    /\ i >= p.window => \A j \in slot .. p.window - 1 : ring[j] = X(i - slot + j - p.window)

\* A position was opened at an earlier record, after the trades of the segment so far.
TradesPast ==
    /\ out \in Seq([seg : Nat, from : Nat, to : Nat, side : {1, -1}, qty : Nat, pnl : Int])
    /\ open \in BOOLEAN /\ qty \in Nat
    /\ \A k \in DOMAIN out : out[k].seg <= seg
    /\ \A k \in Mine : out[k].to < i
    /\ open => /\ entry \in 0 .. i - 1 /\ side \in {1, -1}
               /\ \A k \in Mine : out[k].to < entry

SegmentInv == Walk /\ RingHolds /\ SumsOfWindow /\ TradesPast /\ TradesAsDefined
=============================================================================
