------------------------------ MODULE Calendar -------------------------------
(***************************************************************************)
(* The trading calendar of a region (config.cpp) and the two programs that  *)
(* rely on it: ./gen, which stamps the records of an instrument second by   *)
(* second (generator.cpp), and ./ingest, which cuts them into the sessions  *)
(* of segments.idx (ingest.cpp) that Store::segmentContaining searches      *)
(* (store.h). Both read the same region.yaml.                               *)
(*                                                                         *)
(* A second is the unit of time; the factor 10^9 of the stored nanoseconds  *)
(* is left out. Day numbers and offsets may be negative, as in the code.    *)
(***************************************************************************)
EXTENDS Integers, Sequences, FiniteSets

CONSTANTS
    Day,                    \* kSecondsPerDay
    TimesOfDay,             \* what parseTimeOfDay may return; 24:59 lies after the end of the day
    MaxSessions,            \* bound: sessions of a day
    StdOffsets, DstOffsets, \* utc2localOffsetSec, utc2localDstOffsetSec
    ChangeDays,             \* dates at which DST may start
    TradeWeeks,             \* sets of week days on which a region may trade
    HolidaySets,            \* sets of dates on which it may not
    FirstDay, LastDay,      \* the run period
    MaxDrops                \* bound: seconds that are dropped in a run

ASSUME DayPositive == Day \in Nat \ {0}
ASSUME TimesOfDayNat == TimesOfDay \subseteq Nat
ASSUME OffsetsInt == StdOffsets \subseteq Int /\ DstOffsets \subseteq Int
ASSUME DatesInt == ChangeDays \subseteq Int /\ FirstDay \in Int /\ LastDay \in Int
ASSUME BoundsNat == MaxSessions \in Nat /\ MaxDrops \in Nat

VARIABLES
    region,     \* the parsed region
    phase,      \* "generate", "check", "cut", then "serve", or "refused" by ./ingest
    day, k, i,  \* day, session and second the loops have reached
    drops,      \* seconds dropped so far
    file,       \* the records of the instrument in the order of the day files
    segments,   \* segments[id] of ./ingest
    walk,       \* the instrument's price process, see below
    prices      \* the state of it that each record of file was priced from

priceVars == <<walk, prices>>
vars == <<region, phase, day, k, i, drops, file, segments, priceVars>>

-----------------------------------------------------------------------------
(* Dates and time zones: config.cpp. *)

\* Integer division of C++, which truncates, and the repair of it.
Truncated(a, b) == IF a >= 0 THEN a \div b ELSE -((-a) \div b)
FloorDiv(a, b) ==
    LET q == Truncated(a, b)
    IN  IF q * b # a /\ a < 0 THEN q - 1 ELSE q

DayOfWeek(d) == (d + 4) % 7     \* 1970-01-01 was a Thursday

\* A slip: the day of the change still has the standard offset.
AfterChange(r, d) == r.hasDst /\ d > r.dstRangeStart
InDst(r, d) == r.hasDst /\ d >= r.dstRangeStart
Offset(r, d) == IF InDst(r, d) THEN r.dst ELSE r.std

Local2Utc(r, local) == local - Offset(r, FloorDiv(local, Day))

\* A slip: the date is taken from UTC, without the offset.
DateOfUtc(r, utc) == FloorDiv(utc, Day)
ProbedDate(r, utc) == FloorDiv(utc + r.std, Day)
Utc2Local(r, utc) == utc + Offset(r, ProbedDate(r, utc))

IsTradingDay(r, d) == DayOfWeek(d) \in r.tradeDays /\ d \notin r.holidays

Session == [start : TimesOfDay, end : TimesOfDay]
SessionLists == UNION {[1 .. n -> Session] : n \in 1 .. MaxSessions}

\* What parseRegion lets pass.
Accepts(sessions) ==
    \A s \in DOMAIN sessions :
        /\ sessions[s].start < sessions[s].end
        /\ s > 1 => sessions[s - 1].end <= sessions[s].start

-----------------------------------------------------------------------------
(* ./gen: generateDay for every day of the period. *)

Init ==
    /\ \E sessions \in SessionLists, std \in StdOffsets, dst \in DstOffsets, hasDst \in BOOLEAN,
          change \in ChangeDays, tradeDays \in TradeWeeks, holidays \in HolidaySets :
          /\ Accepts(sessions)
          /\ region = [sessions |-> sessions, std |-> std, dst |-> dst, hasDst |-> hasDst,
                       dstRangeStart |-> change, tradeDays |-> tradeDays, holidays |-> holidays]
    /\ phase = "generate"
    /\ day = FirstDay /\ k = 1 /\ i = 0
    /\ drops = 0
    /\ file = <<>> /\ segments = <<>>
    /\ walk = [seconds |-> 0, nights |-> 0, ou |-> 0, hasTraded |-> FALSE] /\ prices = <<>>

Sessions == region.sessions
Midnight(d) == d * Day
StartUtc(d, s) == Local2Utc(region, Midnight(d) + Sessions[s].start)
EndUtc(d, s) == Local2Utc(region, Midnight(d) + Sessions[s].end)
Length(s) == Sessions[s].end - Sessions[s].start

InSession == day <= LastDay /\ IsTradingDay(region, day) /\ k <= Len(Sessions)

SecondsLeft(s) == i < Length(s)

\* The price of an instrument is what has been added up since the start price: normal steps with
\* the variance of so many seconds, so many overnight jumps, and the steps of the mean-reverting
\* part since it was last reset. A session begins with a jump, but the first of all does not.
Opened ==
    IF i > 0 THEN walk
    ELSE [seconds |-> IF walk.hasTraded /\ k > 1
                      THEN walk.seconds + (Sessions[k].start - Sessions[k - 1].end) ELSE walk.seconds,
          nights |-> IF walk.hasTraded /\ k = 1 THEN walk.nights + 1 ELSE walk.nights,
          ou |-> 0, hasTraded |-> TRUE]
Stepped == [Opened EXCEPT !.seconds = @ + 1, !.ou = @ + 1]

\* A slip: the price waits where a second is dropped.
AdvancedIfKept(dropped) == IF dropped THEN walk ELSE Stepped
Advanced(dropped) == Stepped

\* One second of a session: a record is written or dropped. The day and the session are
\* recorded with it for the properties.
Second(dropped) ==
    /\ phase = "generate" /\ InSession /\ SecondsLeft(k)
    /\ i' = i + 1
    /\ walk' = Advanced(dropped)
    /\ IF dropped THEN drops < MaxDrops /\ drops' = drops + 1 /\ UNCHANGED <<file, prices>>
       ELSE /\ file' = Append(file, [utc |-> StartUtc(day, k) + i, day |-> day, session |-> k])
            /\ prices' = Append(prices, walk')
            /\ UNCHANGED drops
    /\ UNCHANGED <<region, phase, day, k, segments>>

NextSession ==
    /\ phase = "generate" /\ InSession /\ ~SecondsLeft(k)
    /\ k' = k + 1 /\ i' = 0
    /\ UNCHANGED <<region, phase, day, drops, file, segments, priceVars>>

\* The day's file is written; a day without trading has an empty one.
NextDay ==
    /\ phase = "generate" /\ day <= LastDay /\ ~InSession
    /\ day' = day + 1 /\ k' = 1 /\ i' = 0
    /\ UNCHANGED <<region, phase, drops, file, segments, priceVars>>

Generated ==
    /\ phase = "generate" /\ day > LastDay
    /\ phase' = "check"
    /\ UNCHANGED <<region, day, k, i, drops, file, segments, priceVars>>

-----------------------------------------------------------------------------
(* ./ingest: the check of the timestamps and the loop over days and sessions. *)

StrictlyIncreasing == \A p \in 2 .. Len(file) : file[p - 1].utc < file[p].utc

Check ==
    /\ phase = "check"
    /\ phase' = IF StrictlyIncreasing THEN "cut" ELSE "refused"
    /\ day' = FirstDay /\ k' = 1 /\ i' = 0
    /\ UNCHANGED <<region, drops, file, segments, priceVars>>

\* std::lower_bound on the records, whose positions begin at 0. A slip: std::upper_bound.
FirstAfter(t) == Cardinality({p \in DOMAIN file : file[p].utc <= t})
FirstAtOrAfter(t) == Cardinality({p \in DOMAIN file : file[p].utc < t})

SegmentOf(d, s) ==
    [startNs |-> StartUtc(d, s), endNs |-> EndUtc(d, s),
     begin |-> FirstAtOrAfter(StartUtc(d, s)), end |-> FirstAtOrAfter(EndUtc(d, s)),
     day |-> d, session |-> s]

\* One session of one trading day becomes a segment if it has records.
Cut ==
    /\ phase = "cut" /\ InSession
    /\ LET segment == SegmentOf(day, k)
       IN  segments' = IF segment.begin < segment.end THEN Append(segments, segment) ELSE segments
    /\ k' = k + 1
    /\ UNCHANGED <<region, phase, day, i, drops, file, priceVars>>

CutNextDay ==
    /\ phase = "cut" /\ day <= LastDay /\ ~InSession
    /\ day' = day + 1 /\ k' = 1
    /\ UNCHANGED <<region, phase, i, drops, file, segments, priceVars>>

Finished ==
    /\ phase = "cut" /\ day > LastDay
    /\ phase' = "serve"
    /\ UNCHANGED <<region, day, k, i, drops, file, segments, priceVars>>

Ended == phase \in {"serve", "refused"} /\ UNCHANGED vars

Next ==
    \/ \E dropped \in BOOLEAN : Second(dropped)
    \/ NextSession \/ NextDay \/ Generated
    \/ Check \/ Cut \/ CutNextDay \/ Finished
    \/ Ended

Spec == Init /\ [][Next]_vars

-----------------------------------------------------------------------------
(* Store::segmentContaining; 0 stands for nullptr. *)

\* A slip: the session's end counts as in session.
EndsAtOrAfter(s, t) == t <= segments[s].endNs
EndsAfter(s, t) == t < segments[s].endNs

SegmentContaining(t) ==
    LET s == Cardinality({p \in DOMAIN segments : segments[p].startNs <= t})
    IN  IF s > 0 /\ EndsAfter(s, t) THEN s ELSE 0

-----------------------------------------------------------------------------
(* Properties. *)

\* The variables have their types; i never passes the end of a session.
CalendarTypeOK ==
    /\ region.sessions \in SessionLists /\ Accepts(region.sessions)
    /\ region.std \in Int /\ region.dst \in Int
    /\ region.hasDst \in BOOLEAN /\ region.dstRangeStart \in Int
    /\ phase \in {"generate", "check", "cut", "serve", "refused"}
    /\ day \in Int /\ FirstDay <= day
    /\ k \in 1 .. Len(Sessions) + 1
    /\ i \in Nat /\ (phase = "generate" /\ k <= Len(Sessions) => i <= Length(k))
    /\ drops \in 0 .. MaxDrops
    /\ file \in Seq([utc : Int, day : Int, session : DOMAIN Sessions])

TradingDaysBefore(d) == Cardinality({e \in FirstDay .. d - 1 : IsTradingDay(region, e)})

\* "The price process advances every second of every segment; dropped seconds only lose their
\* record" (generator.cpp:129): whatever was dropped before, a record's price has moved by the
\* whole time from the open of each trading day to its close, or to the record, breaks included,
\* and by one jump per night between trading days; the mean-reverting part has its session only.
PriceAdvances ==
    \A p \in DOMAIN file :
        LET d == file[p].day
            s == Sessions[file[p].session]
            second == file[p].utc - StartUtc(d, file[p].session)
            open == Sessions[1].start
            close == Sessions[Len(Sessions)].end
        IN  /\ prices[p].nights = TradingDaysBefore(d)
            /\ prices[p].seconds =
                    TradingDaysBefore(d) * (close - open) + s.start + second + 1 - open
            /\ prices[p].ou = second + 1

\* What the comments on DST ask of a region: config.cpp, "within hours of the changeover, when
\* nothing trades". The hours are as many as the offset changes by, on either side of midnight.
\* On a day without trading, such as a Sunday, the offset may change at any time.
Change == region.dstRangeStart * Day
Shift == IF region.dst >= region.std THEN region.dst - region.std ELSE region.std - region.dst
QuietChange ==
    region.hasDst /\ region.dst # region.std =>
        \A d \in FirstDay .. LastDay, s \in DOMAIN Sessions :
            \/ ~IsTradingDay(region, d)
            \/ Midnight(d) + Sessions[s].end <= Change - Shift
            \/ Midnight(d) + Sessions[s].start >= Change + Shift

\* Sessions that run past midnight must not reach the next day's first session. parseRegion
\* does not ask for it.
DaysApart == Sessions[Len(Sessions)].end <= Day + Sessions[1].start

Regular == QuietChange /\ DaysApart

\* What ./gen writes for a regular region, the days around the change of offset included,
\* ./ingest accepts: timestamps increase strictly from day to day and session to session.
NothingRefused == Regular => phase # "refused"

\* The way back agrees: converted to local time with an offset probed from the standard one,
\* every record lies in the session and on the date it was generated for, because nothing trades
\* around the change (config.cpp, utc2local).
LocalTimeKept ==
    QuietChange => \A p \in DOMAIN file :
        LET local == Utc2Local(region, file[p].utc) - Midnight(file[p].day)
            session == Sessions[file[p].session]
        IN  session.start <= local /\ local < session.end

Served == phase = "serve"

RecordsOf(d, s) == {p \in DOMAIN file : file[p].day = d /\ file[p].session = s}

\* Segments come from the calendar, not from gaps: each has exactly the records that were
\* generated for its session, however many of them were dropped, every record is in a segment,
\* and segments follow each other in time.
SegmentsAreSessions ==
    Served /\ Regular =>
        /\ \A s \in DOMAIN segments :
              segments[s].begin + 1 .. segments[s].end = RecordsOf(segments[s].day, segments[s].session)
        /\ \A p \in DOMAIN file : \E s \in DOMAIN segments :
              p \in segments[s].begin + 1 .. segments[s].end
        /\ \A s, t \in DOMAIN segments : s < t => segments[s].endNs <= segments[t].startNs

TradedSessions ==
    {ds \in (FirstDay .. LastDay) \X DOMAIN Sessions :
        IsTradingDay(region, ds[1]) /\ RecordsOf(ds[1], ds[2]) # {}}
Live(t) == {ds \in TradedSessions : StartUtc(ds[1], ds[2]) <= t /\ t < EndUtc(ds[1], ds[2])}
Instants == UNION {StartUtc(ds[1], ds[2]) - 1 .. EndUtc(ds[1], ds[2]) : ds \in TradedSessions}

\* segmentContaining names the session that contains t, and none in a gap, on a day without
\* trading or in a session without data.
LiveSessionFound ==
    Served /\ Regular => \A t \in Instants :
        LET s == SegmentContaining(t)
        IN  Live(t) = IF s = 0 THEN {} ELSE {<<segments[s].day, segments[s].session>>}

(* The inductive invariant (CalendarProofs), in local time, which no change of offset disturbs. *)

\* The local second the generator has reached, and past which no record lies yet.
Reached ==
    IF k <= Len(Sessions) THEN Midnight(day) + Sessions[k].start + i
    ELSE Midnight(day) + Sessions[Len(Sessions)].end

\* The second of its session that a record stands for, and that second in local time.
SecondOf(r) == r.utc - StartUtc(r.day, r.session)
Local(r) == Midnight(r.day) + Sessions[r.session].start + SecondOf(r)

\* A record that stands for a second of a session of a trading day.
Stamped(r) ==
    /\ r.day \in FirstDay .. LastDay /\ IsTradingDay(region, r.day)
    /\ SecondOf(r) \in 0 .. Length(r.session) - 1

AllStamped == \A p \in DOMAIN file : Stamped(file[p])
AllBehind == phase = "generate" => \A p \in DOMAIN file : Local(file[p]) < Reached

NoSessionBegun == ~IsTradingDay(region, day) => k = 1 /\ i = 0

InOrder == \A p, q \in DOMAIN file : p < q => file[p].utc < file[q].utc

CalendarInv ==
    /\ CalendarTypeOK
    /\ AllStamped
    /\ phase = "generate" => NoSessionBegun
    /\ phase = "refused" => ~StrictlyIncreasing
    /\ DaysApart => AllBehind
    /\ Regular => InOrder

\* The walk in the course of a day: what PriceAdvances says of the records, and where it stands now.
Today == k > 1 \/ i > 0
DayLength == Sessions[Len(Sessions)].end - Sessions[1].start
TimeReached == IF i > 0 THEN Sessions[k].start + i
               ELSE IF k > 1 THEN Sessions[k - 1].end ELSE Sessions[1].start

WalkReached ==
    /\ walk.hasTraded <=> TradingDaysBefore(day) > 0 \/ Today
    /\ walk.nights = IF TradingDaysBefore(day) = 0 \/ Today THEN TradingDaysBefore(day)
                     ELSE TradingDaysBefore(day) - 1
    /\ walk.seconds = TradingDaysBefore(day) * DayLength + TimeReached - Sessions[1].start
    /\ i > 0 => walk.ou = i
    /\ k > Len(Sessions) => i = 0

PriceInv ==
    /\ walk \in [seconds : Int, nights : Int, ou : Int, hasTraded : BOOLEAN]
    /\ prices \in Seq([seconds : Int, nights : Int, ou : Int, hasTraded : BOOLEAN])
    /\ Len(prices) = Len(file)
    /\ phase = "generate" => WalkReached
    /\ PriceAdvances

\* The sessions ./ingest has passed, and what it has cut of them, in their order.
Passed == {ds \in (FirstDay .. LastDay) \X DOMAIN Sessions :
              IsTradingDay(region, ds[1]) /\ (ds[1] < day \/ (ds[1] = day /\ ds[2] < k))}
HasRecords(ds) == SegmentOf(ds[1], ds[2]).begin < SegmentOf(ds[1], ds[2]).end
Earlier(a, b) == a.day < b.day \/ (a.day = b.day /\ a.session < b.session)

CutInOrder ==
    /\ \A s \in DOMAIN segments : \E ds \in Passed :
          HasRecords(ds) /\ segments[s] = SegmentOf(ds[1], ds[2])
    /\ \A ds \in Passed : HasRecords(ds) => \E s \in DOMAIN segments : segments[s] = SegmentOf(ds[1], ds[2])
    /\ \A s, t \in DOMAIN segments : s < t => Earlier(segments[s], segments[t])

CutInv ==
    /\ segments \in Seq([startNs : Int, endNs : Int, begin : Int, end : Int, day : Int, session : Int])
    /\ phase \in {"generate", "check"} => segments = <<>>
    /\ phase \in {"cut", "serve"} => CutInOrder
    /\ phase = "serve" => day > LastDay
=============================================================================
