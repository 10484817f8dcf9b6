---------------------------- MODULE CalendarProofs ----------------------------
(***************************************************************************)
(* Proofs about Calendar for every length of the day, every region that     *)
(* parseRegion accepts, every period and any number of dropped seconds.     *)
(***************************************************************************)
EXTENDS Calendar, FiniteSetTheorems, IntegerLemmas, TLAPS

\* floorDiv rounds towards minus infinity, also for seconds before 1970.
LEMMA FloorDivFloors ==
    ASSUME NEW a \in Int
    PROVE  /\ FloorDiv(a, Day) \in Int
           /\ FloorDiv(a, Day) * Day <= a
           /\ a < FloorDiv(a, Day) * Day + Day
  <1>1. CASE a >= 0
    <2> DEFINE q == a \div Day
    <2>1. q \in Nat /\ q * Day <= a /\ a < q * Day + Day
      <3> DEFINE m == a % Day
      <3>1. q \in Nat /\ m \in 0 .. Day - 1 /\ a = Day * q + m
        BY <1>1, DayPositive
      <3>2. Day * q = q * Day
        BY <3>1, DayPositive
      <3> HIDE DEF q, m
      <3> QED
        BY <3>1, <3>2, DayPositive
    <2>2. FloorDiv(a, Day) = q
      BY <1>1 DEF FloorDiv, Truncated
    <2> QED
      BY <2>1, <2>2
  <1>2. CASE a < 0
    <2> DEFINE q == (-a) \div Day
    <2>1. q \in Nat /\ q * Day <= -a /\ -a < q * Day + Day
      <3> DEFINE m == (-a) % Day
      <3>1. q \in Nat /\ m \in 0 .. Day - 1 /\ -a = Day * q + m
        BY <1>2, DayPositive
      <3>2. Day * q = q * Day
        BY <3>1, DayPositive
      <3> HIDE DEF q, m
      <3> QED
        BY <3>1, <3>2, DayPositive
    <2>2. FloorDiv(a, Day) = IF (-q) * Day # a THEN (-q) - 1 ELSE -q
      BY <1>2 DEF FloorDiv, Truncated
    <2> HIDE DEF q
    <2>3. (-q) * Day = -(q * Day) /\ ((-q) - 1) * Day = -(q * Day) - Day /\ q * Day \in Nat
      BY <2>1, DayPositive
    <2> QED
      BY <2>1, <2>2, <2>3, DayPositive
  <1> QED
    BY <1>1, <1>2

\* A local second has a date at or after c exactly if it is not before the midnight c begins with.
LEMMA DateAtLeast ==
    ASSUME NEW a \in Int, NEW c \in Int
    PROVE  FloorDiv(a, Day) >= c <=> a >= c * Day
  <1> DEFINE q == FloorDiv(a, Day)
  <1>1. q \in Int /\ q * Day <= a /\ a < q * Day + Day
    BY FloorDivFloors
  <1> HIDE DEF q
  <1>2. ASSUME q >= c PROVE a >= c * Day
    <2>1. q * Day >= c * Day
      BY <1>1, <1>2, DayPositive
    <2> QED
      BY <1>1, <2>1, DayPositive
  <1>3. ASSUME q < c PROVE a < c * Day
    <2>1. (q + 1) * Day <= c * Day
      BY <1>1, <1>3, DayPositive
    <2>2. (q + 1) * Day = q * Day + Day
      BY <1>1, DayPositive
    <2> QED
      BY <1>1, <2>1, <2>2, DayPositive
  <1>4. c * Day \in Int
    BY DayPositive
  <1> QED
    BY <1>1, <1>2, <1>3, <1>4 DEF q

\* The offset of a local second, told from the second of the change.
OffsetAt(local) == IF region.hasDst /\ local >= Change THEN region.dst ELSE region.std

\* It is the one that local2utc subtracts.
LEMMA OffsetFacts ==
    ASSUME CalendarTypeOK, NEW local \in Int
    PROVE  /\ Offset(region, FloorDiv(local, Day)) = OffsetAt(local)
           /\ OffsetAt(local) \in Int
           /\ Local2Utc(region, local) = local - OffsetAt(local)
           /\ Change \in Int
  <1>1. FloorDiv(local, Day) >= region.dstRangeStart <=> local >= Change
    BY DateAtLeast DEF CalendarTypeOK, Change
  <1>2. region.std \in Int /\ region.dst \in Int /\ region.hasDst \in BOOLEAN
    BY DEF CalendarTypeOK
  <1>3. Offset(region, FloorDiv(local, Day)) = OffsetAt(local)
    BY <1>1 DEF Offset, InDst, OffsetAt
  <1>4. OffsetAt(local) \in Int
    BY <1>2 DEF OffsetAt
  <1>5. Change \in Int
    BY DayPositive DEF CalendarTypeOK, Change
  <1> QED
    BY <1>3, <1>4, <1>5 DEF Local2Utc

\* Away from the change of offset, the way from local time to UTC and back ends where it began,
\* although utc2local probes the date with the standard offset.
LEMMA ThereAndBack ==
    ASSUME CalendarTypeOK, NEW local \in Int,
           region.hasDst => local < Change \/ local >= Change + Shift
    PROVE  Utc2Local(region, Local2Utc(region, local)) = local
  <1> DEFINE utc == local - OffsetAt(local)
  <1>1. Local2Utc(region, local) = utc /\ OffsetAt(local) \in Int /\ Change \in Int
    BY OffsetFacts
  <1>2. region.std \in Int /\ region.dst \in Int /\ region.hasDst \in BOOLEAN
    BY DEF CalendarTypeOK
  <1>3. utc + region.std \in Int
    BY <1>1, <1>2
  <1>4. Offset(region, ProbedDate(region, utc)) = OffsetAt(utc + region.std)
    BY <1>3, OffsetFacts DEF ProbedDate
  <1>5. OffsetAt(utc + region.std) = OffsetAt(local)
    BY <1>1, <1>2, <1>3 DEF OffsetAt, Shift
  <1> QED
    BY <1>1, <1>4, <1>5 DEF Utc2Local

-----------------------------------------------------------------------------

\* The bounds of a session are natural and in order.
LEMMA SessionBounds ==
    ASSUME CalendarTypeOK, NEW s \in DOMAIN Sessions
    PROVE  /\ Sessions[s].start \in Nat /\ Sessions[s].end \in Nat
           /\ Sessions[s].start < Sessions[s].end
           /\ Length(s) = Sessions[s].end - Sessions[s].start /\ Length(s) \in Nat
  <1>1. PICK n \in 1 .. MaxSessions : Sessions \in [1 .. n -> Session]
    BY DEF CalendarTypeOK, SessionLists, Sessions
  <1>2. Sessions[s].start \in Nat /\ Sessions[s].end \in Nat
    BY <1>1, TimesOfDayNat DEF Session
  <1>3. Sessions[s].start < Sessions[s].end
    BY DEF CalendarTypeOK, Accepts, Sessions
  <1> QED
    BY <1>2, <1>3 DEF Length

\* The bounds of a session are natural, and its first second has a midnight and a UTC second.
LEMMA SessionFacts ==
    ASSUME CalendarTypeOK, NEW d \in Int, NEW s \in DOMAIN Sessions
    PROVE  /\ Sessions[s].start \in Nat /\ Sessions[s].end \in Nat
           /\ Sessions[s].start < Sessions[s].end
           /\ Length(s) = Sessions[s].end - Sessions[s].start
           /\ Midnight(d) \in Int
           /\ StartUtc(d, s) = (Midnight(d) + Sessions[s].start) - OffsetAt(Midnight(d) + Sessions[s].start)
           /\ OffsetAt(Midnight(d) + Sessions[s].start) \in Int
           /\ StartUtc(d, s) \in Int
  <1>2. /\ Sessions[s].start \in Nat /\ Sessions[s].end \in Nat
        /\ Sessions[s].start < Sessions[s].end
        /\ Length(s) = Sessions[s].end - Sessions[s].start
    BY SessionBounds
  <1>4. Midnight(d) \in Int
    BY DayPositive DEF Midnight
  <1>5. Midnight(d) + Sessions[s].start \in Int
    BY <1>2, <1>4
  <1>6. /\ StartUtc(d, s) = (Midnight(d) + Sessions[s].start) - OffsetAt(Midnight(d) + Sessions[s].start)
        /\ OffsetAt(Midnight(d) + Sessions[s].start) \in Int
    <2> DEFINE m == Midnight(d) + Sessions[s].start
    <2>1. Local2Utc(region, m) = m - OffsetAt(m) /\ OffsetAt(m) \in Int
      BY <1>5, OffsetFacts
    <2>2. StartUtc(d, s) = Local2Utc(region, m)
      BY DEF StartUtc
    <2> QED
      BY <2>1, <2>2
  <1> QED
    BY <1>2, <1>4, <1>5, <1>6

Rec == [utc : Int, day : Int, session : DOMAIN Sessions]

\* The local second of a stamped record lies in its session, and one offset separates it from UTC.
LEMMA StampFacts ==
    ASSUME CalendarTypeOK, NEW r \in Rec, Stamped(r)
    PROVE  LET m == Midnight(r.day) + Sessions[r.session].start
           IN  /\ m \in Int /\ OffsetAt(m) \in Int /\ Local(r) \in Int
               /\ Local(r) = r.utc + OffsetAt(m)
               /\ m <= Local(r) /\ Local(r) < Midnight(r.day) + Sessions[r.session].end
               /\ Midnight(r.day) + Sessions[r.session].end \in Int
  <1> DEFINE m == Midnight(r.day) + Sessions[r.session].start
  <1>1. r.day \in Int /\ r.session \in DOMAIN Sessions /\ r.utc \in Int
    BY DEF Rec
  <1>2. /\ Sessions[r.session].start \in Nat /\ Sessions[r.session].end \in Nat
        /\ Length(r.session) = Sessions[r.session].end - Sessions[r.session].start
        /\ Midnight(r.day) \in Int
        /\ StartUtc(r.day, r.session) = m - OffsetAt(m)
        /\ OffsetAt(m) \in Int
    BY <1>1, SessionFacts
  <1>3. Local(r) = m + (r.utc - StartUtc(r.day, r.session))
    BY DEF Local, SecondOf
  <1>4. r.utc - StartUtc(r.day, r.session) \in 0 .. Length(r.session) - 1
    BY DEF Stamped, SecondOf
  <1> QED
    BY <1>1, <1>2, <1>3, <1>4

\* A trading day's session lies on one side of the change, at a distance.
LEMMA OneSide ==
    ASSUME CalendarTypeOK, QuietChange, NEW d \in FirstDay .. LastDay, IsTradingDay(region, d),
           NEW s \in DOMAIN Sessions, region.hasDst, region.dst # region.std
    PROVE  \/ Midnight(d) + Sessions[s].end <= Change - Shift
           \/ Midnight(d) + Sessions[s].start >= Change + Shift
  BY DEF QuietChange

\* A record of a region that is quiet around the change has the offset of its own second.
LEMMA StampOffset ==
    ASSUME CalendarTypeOK, QuietChange, NEW r \in Rec, Stamped(r)
    PROVE  /\ Local(r) \in Int /\ OffsetAt(Local(r)) \in Int
           /\ r.utc = Local(r) - OffsetAt(Local(r))
           /\ region.hasDst /\ region.dst # region.std =>
                  Local(r) < Change - Shift \/ Local(r) >= Change + Shift
  <1> DEFINE m == Midnight(r.day) + Sessions[r.session].start
             e == Midnight(r.day) + Sessions[r.session].end
  <1>1. /\ m \in Int /\ e \in Int /\ OffsetAt(m) \in Int /\ Local(r) \in Int
        /\ Local(r) = r.utc + OffsetAt(m)
        /\ m <= Local(r) /\ Local(r) < e
    BY StampFacts
  <1>2. r.utc \in Int /\ r.session \in DOMAIN Sessions
    BY DEF Rec
  <1>3. Change \in Int /\ OffsetAt(Local(r)) \in Int
    BY <1>1, OffsetFacts
  <1>4. region.std \in Int /\ region.dst \in Int /\ region.hasDst \in BOOLEAN
    BY DEF CalendarTypeOK
  <1>5. Shift \in Nat
    BY <1>4 DEF Shift
  <1>6. region.hasDst /\ region.dst # region.std => e <= Change - Shift \/ m >= Change + Shift
    BY <1>2, OneSide DEF Stamped
  <1> HIDE DEF m, e
  <1>7. OffsetAt(Local(r)) = OffsetAt(m)
    BY <1>1, <1>3, <1>4, <1>5, <1>6 DEF OffsetAt
  <1> QED
    BY <1>1, <1>2, <1>3, <1>5, <1>6, <1>7

\* Such records have the order of their local seconds.
LEMMA OrderKept ==
    ASSUME CalendarTypeOK, QuietChange, NEW r \in Rec, NEW t \in Rec, Stamped(r), Stamped(t),
           Local(r) < Local(t)
    PROVE  r.utc < t.utc
  <1>1. /\ Local(r) \in Int /\ r.utc = Local(r) - OffsetAt(Local(r))
        /\ Local(t) \in Int /\ t.utc = Local(t) - OffsetAt(Local(t))
    BY StampOffset
  <1>2. region.hasDst /\ region.dst # region.std =>
            /\ Local(r) < Change - Shift \/ Local(r) >= Change + Shift
            /\ Local(t) < Change - Shift \/ Local(t) >= Change + Shift
    BY StampOffset
  <1>3. region.std \in Int /\ region.dst \in Int /\ region.hasDst \in BOOLEAN /\ Change \in Int
    BY <1>1, OffsetFacts DEF CalendarTypeOK
  <1> QED
    BY <1>1, <1>2, <1>3 DEF OffsetAt, Shift

-----------------------------------------------------------------------------

\* The sessions of an accepted region are a sequence that is not empty.
LEMMA SessionsSeq ==
    ASSUME CalendarTypeOK
    PROVE  /\ Len(Sessions) \in Nat \ {0}
           /\ DOMAIN Sessions = 1 .. Len(Sessions)
           /\ \A s \in DOMAIN Sessions : s > 1 => Sessions[s - 1].end <= Sessions[s].start
  <1>1. PICK n \in 1 .. MaxSessions : Sessions \in [1 .. n -> Session]
    BY DEF CalendarTypeOK, SessionLists, Sessions
  <1>2. Len(Sessions) = n
    BY <1>1, BoundsNat
  <1> QED
    BY <1>1, <1>2, BoundsNat DEF CalendarTypeOK, Accepts, Sessions

\* What is said of a record depends on the region alone.
LEMMA RecordKept ==
    ASSUME UNCHANGED region, NEW r
    PROVE  /\ Stamped(r)' <=> Stamped(r)
           /\ Local(r)' = Local(r)
  BY DEF Stamped, Local, SecondOf, StartUtc, Midnight, Length, Sessions

\* So is what a region is asked for, and its sessions and trading days.
LEMMA RegionKept ==
    ASSUME UNCHANGED region
    PROVE  /\ Sessions' = Sessions
           /\ (Regular <=> Regular') /\ (DaysApart <=> DaysApart') /\ (QuietChange <=> QuietChange')
           /\ \A d : Midnight(d)' = Midnight(d)
           /\ \A s : Length(s)' = Length(s)
           /\ \A d : IsTradingDay(region, d)' <=> IsTradingDay(region, d)
  BY DEF Sessions, Regular, DaysApart, QuietChange, Midnight, Length, Change, Shift

\* The local second that is reached after a step.
LEMMA ReachedNext ==
    ASSUME UNCHANGED region
    PROVE  Reached' = IF k' <= Len(Sessions) THEN Midnight(day') + Sessions[k'].start + i'
                      ELSE Midnight(day') + Sessions[Len(Sessions)].end
  BY DEF Reached, Midnight, Sessions

\* Nothing is generated initially.
LEMMA CalendarInit == Init => CalendarInv
  <1> SUFFICES ASSUME Init PROVE CalendarInv
    OBVIOUS
  <1>1. PICK sessions \in SessionLists, std \in StdOffsets, dst \in DstOffsets, hasDst \in BOOLEAN,
             change \in ChangeDays, tradeDays \in TradeWeeks, holidays \in HolidaySets :
          /\ Accepts(sessions)
          /\ region = [sessions |-> sessions, std |-> std, dst |-> dst, hasDst |-> hasDst,
                       dstRangeStart |-> change, tradeDays |-> tradeDays, holidays |-> holidays]
    BY DEF Init
  <1>2. /\ region.sessions \in SessionLists /\ Accepts(region.sessions)
        /\ region.std \in Int /\ region.dst \in Int
        /\ region.hasDst \in BOOLEAN /\ region.dstRangeStart \in Int
    BY <1>1, OffsetsInt, DatesInt
  <1>3. PICK n \in 1 .. MaxSessions : Sessions \in [1 .. n -> Session]
    BY <1>2 DEF SessionLists, Sessions
  <1>4. Len(Sessions) \in Nat /\ Len(Sessions) >= 1 /\ 1 \in DOMAIN Sessions
    BY <1>3, BoundsNat
  <1>5. Length(1) \in Nat
    <2>1. Sessions[1] \in Session /\ Sessions[1].start < Sessions[1].end
      BY <1>2, <1>3, <1>4 DEF Accepts, Sessions
    <2>2. Sessions[1].start \in Nat /\ Sessions[1].end \in Nat
      BY <2>1, TimesOfDayNat DEF Session
    <2> QED
      BY <2>1, <2>2 DEF Length
  <1>6. CalendarTypeOK
    BY <1>2, <1>4, <1>5, DatesInt, BoundsNat DEF Init, CalendarTypeOK
  <1> QED
    BY <1>6 DEF Init, CalendarInv, AllStamped, AllBehind, NoSessionBegun, InOrder

\* One second of a session: what is appended lies behind no record, in local time and so in UTC.
LEMMA CalendarSecond ==
    ASSUME CalendarInv, NEW dropped \in BOOLEAN, Second(dropped)
    PROVE  CalendarInv'
  <1> DEFINE new == [utc |-> StartUtc(day, k) + i, day |-> day, session |-> k]
  <1>1. /\ phase = "generate" /\ phase' = "generate" /\ InSession /\ SecondsLeft(k)
        /\ i' = i + 1 /\ UNCHANGED <<region, day, k, segments>>
        /\ \/ file' = file /\ drops < MaxDrops /\ drops' = drops + 1
           \/ file' = Append(file, new) /\ drops' = drops
    BY DEF Second
  <1>2. /\ CalendarTypeOK /\ AllStamped /\ NoSessionBegun
        /\ DaysApart => AllBehind
        /\ Regular => InOrder
    BY <1>1 DEF CalendarInv
  <1>3. /\ k \in DOMAIN Sessions /\ k <= Len(Sessions) /\ k \in Nat /\ Len(Sessions) \in Nat
        /\ day \in FirstDay .. LastDay /\ day \in Int /\ i \in Nat
        /\ IsTradingDay(region, day)
        /\ drops \in 0 .. MaxDrops /\ file \in Seq(Rec)
    BY <1>1, <1>2, SessionsSeq, DatesInt DEF CalendarTypeOK, InSession, Rec
  <1>4. i < Length(k) /\ Length(k) \in Nat /\ StartUtc(day, k) \in Int /\ Midnight(day) \in Int
        /\ Sessions[k].start \in Nat
    <2>1. i < Length(k)
      BY <1>1 DEF SecondsLeft
    <2>2. Length(k) \in Nat /\ Sessions[k].start \in Nat
      BY <1>2, <1>3, SessionBounds
    <2>3. StartUtc(day, k) \in Int /\ Midnight(day) \in Int
      BY <1>2, <1>3, SessionFacts
    <2> QED
      BY <2>1, <2>2, <2>3
  <1>5. new \in Rec
    BY <1>3, <1>4 DEF Rec
  <1>6. Stamped(new) /\ Local(new) = Reached /\ Reached \in Int /\ Reached' = Reached + 1
    <2>1. SecondOf(new) = i
      BY <1>3, <1>4 DEF SecondOf
    <2>2. Stamped(new)
      BY <1>3, <1>4, <2>1 DEF Stamped
    <2>3. Local(new) = Reached /\ Reached \in Int
      BY <1>3, <1>4, <2>1 DEF Local, Reached
    <2>4. Reached' = Reached + 1
      <3>1. Reached = Midnight(day) + Sessions[k].start + i
        BY <1>3 DEF Reached
      <3>2. Reached' = Midnight(day) + Sessions[k].start + (i + 1)
        BY <1>1, <1>3, ReachedNext
      <3>3. Midnight(day) \in Int /\ Sessions[k].start \in Int /\ i \in Int
        BY <1>3, <1>4
      <3> QED
        BY <3>1, <3>2, <3>3
    <2> QED
      BY <2>2, <2>3, <2>4
  <1> HIDE DEF new
  <1>7. /\ file' \in Seq(Rec)
        /\ \A p \in DOMAIN file' : (p \in DOMAIN file /\ file'[p] = file[p]) \/ file'[p] = new
        /\ \A p, q \in DOMAIN file' : p < q => p \in DOMAIN file /\ file'[p] = file[p]
        /\ \A p \in DOMAIN file : file[p] \in Rec
    <2>1. CASE file' = file
      BY <1>3, <2>1
    <2>2. CASE file' = Append(file, new)
      <3>1. /\ Len(file) \in Nat /\ DOMAIN file = 1 .. Len(file)
            /\ file' \in Seq(Rec) /\ DOMAIN file' = 1 .. Len(file) + 1
            /\ file'[Len(file) + 1] = new
            /\ \A p \in DOMAIN file : file'[p] = file[p] /\ file[p] \in Rec
        BY <1>3, <1>5, <2>2
      <3> QED
        BY <3>1
    <2> QED
      BY <1>1, <2>1, <2>2
  <1>8. CalendarTypeOK'
    <2>1. Length(k)' = Length(k) /\ Sessions' = Sessions
      BY <1>1, RegionKept
    <2>2. i' \in Nat /\ i' <= Length(k)
      BY <1>1, <1>3, <1>4
    <2>3. drops' \in 0 .. MaxDrops
      BY <1>1, <1>3, BoundsNat
    <2> QED
      BY <1>1, <1>2, <1>7, <2>1, <2>2, <2>3 DEF CalendarTypeOK, Rec
  <1>9. AllStamped'
    BY <1>1, <1>2, <1>6, <1>7, RecordKept DEF AllStamped
  <1>10. ASSUME DaysApart PROVE AllBehind'
    BY <1>1, <1>2, <1>5, <1>6, <1>7, <1>10, RecordKept, StampFacts DEF AllBehind, AllStamped
  <1>11. ASSUME Regular PROVE InOrder'
    <2> SUFFICES ASSUME NEW p \in DOMAIN file', NEW q \in DOMAIN file', p < q
                 PROVE  file'[p].utc < file'[q].utc
      BY DEF InOrder
    <2>1. p \in DOMAIN file /\ file'[p] = file[p] /\ file[p] \in Rec
      BY <1>7
    <2>2. CASE q \in DOMAIN file /\ file'[q] = file[q]
      BY <1>2, <1>11, <2>1, <2>2 DEF InOrder
    <2>3. CASE file'[q] = new
      <3>1. Stamped(file[p]) /\ Local(file[p]) < Local(new)
        BY <1>1, <1>2, <1>6, <1>11, <2>1 DEF Regular, AllStamped, AllBehind
      <3> QED
        BY <1>2, <1>5, <1>6, <1>11, <2>1, <2>3, <3>1, OrderKept DEF Regular
    <2> QED
      BY <1>7, <2>2, <2>3
  <1>12. NoSessionBegun'
    BY <1>1, <1>3 DEF NoSessionBegun
  <1>13. (DaysApart' => AllBehind') /\ (Regular' => InOrder')
    BY <1>1, <1>10, <1>11, RegionKept
  <1> QED
    BY <1>1, <1>8, <1>9, <1>12, <1>13 DEF CalendarInv

\* The bound moves up in local time when a session or a day ends.
LEMMA CalendarNextSession == ASSUME CalendarInv, NextSession PROVE CalendarInv'
  <1>1. /\ phase = "generate" /\ phase' = "generate" /\ InSession /\ ~SecondsLeft(k)
        /\ k' = k + 1 /\ i' = 0 /\ UNCHANGED <<region, day, drops, file, segments>>
    BY DEF NextSession
  <1>2. /\ CalendarTypeOK /\ AllStamped
        /\ DaysApart => AllBehind
        /\ Regular => InOrder
    BY <1>1 DEF CalendarInv
  <1>3. /\ k \in DOMAIN Sessions /\ k <= Len(Sessions) /\ k \in Nat /\ Len(Sessions) \in Nat
        /\ DOMAIN Sessions = 1 .. Len(Sessions)
        /\ day \in Int /\ i = Length(k) /\ Length(k) = Sessions[k].end - Sessions[k].start
        /\ Sessions[k].start \in Nat /\ Sessions[k].end \in Nat /\ Midnight(day) \in Int
        /\ IsTradingDay(region, day)
        /\ file \in Seq(Rec)
    <2>1. /\ k \in DOMAIN Sessions /\ k <= Len(Sessions) /\ k \in Nat /\ Len(Sessions) \in Nat
          /\ DOMAIN Sessions = 1 .. Len(Sessions) /\ i \in Nat /\ i <= Length(k)
          /\ day \in Int /\ IsTradingDay(region, day) /\ file \in Seq(Rec)
      BY <1>1, <1>2, SessionsSeq DEF CalendarTypeOK, InSession, Rec
    <2>2. /\ Length(k) = Sessions[k].end - Sessions[k].start
          /\ Sessions[k].start \in Nat /\ Sessions[k].end \in Nat /\ Midnight(day) \in Int
      BY <1>2, <2>1, SessionFacts
    <2> QED
      BY <1>1, <2>1, <2>2 DEF SecondsLeft
  <1>4. ASSUME k < Len(Sessions)
        PROVE  /\ k + 1 \in DOMAIN Sessions /\ Sessions[k].end <= Sessions[k + 1].start
               /\ Sessions[k + 1].start \in Nat /\ Length(k + 1) \in Nat
    <2>1. k + 1 \in DOMAIN Sessions /\ (k + 1) - 1 = k
      BY <1>3, <1>4
    <2>2. Sessions[k].end <= Sessions[k + 1].start
      BY <1>2, <1>3, <2>1, SessionsSeq
    <2>3. Sessions[k + 1].start \in Nat /\ Length(k + 1) \in Nat
      BY <1>2, <2>1, SessionBounds
    <2> QED
      BY <2>1, <2>2, <2>3
  <1>5. Sessions' = Sessions
    BY <1>1 DEF Sessions
  <1>6. Reached \in Int /\ Reached' \in Int /\ Reached <= Reached'
    <2>3. Reached = Midnight(day) + Sessions[k].start + i
      BY <1>3 DEF Reached
    <2>1. CASE k < Len(Sessions)
      <3>1. Reached' = Midnight(day) + Sessions[k + 1].start
        BY <1>1, <1>3, <1>4, <2>1, ReachedNext
      <3>2. /\ Midnight(day) \in Int /\ Sessions[k].start \in Int /\ i \in Int
            /\ Sessions[k + 1].start \in Int
            /\ Sessions[k].start + i <= Sessions[k + 1].start
        BY <1>3, <1>4, <2>1
      <3> QED
        BY <2>3, <3>1, <3>2
    <2>2. CASE k = Len(Sessions)
      <3>1. Reached' = Midnight(day) + Sessions[k].end
        BY <1>1, <1>3, <2>2, ReachedNext
      <3> QED
        BY <1>3, <2>3, <3>1
    <2> QED
      BY <1>3, <2>1, <2>2
  <1>7. CalendarTypeOK'
    <2>1. k' \in 1 .. Len(Sessions) + 1
      BY <1>1, <1>3
    <2>2. k' <= Len(Sessions) => 0 <= Length(k')
      BY <1>1, <1>3, <1>4
    <2>3. Length(k)' = Length(k')
      BY <1>1 DEF Length, Sessions
    <2> QED
      BY <1>1, <1>2, <1>5, <2>1, <2>2, <2>3 DEF CalendarTypeOK
  <1>8. ASSUME DaysApart PROVE AllBehind'
    BY <1>1, <1>2, <1>3, <1>6, <1>8, RecordKept, StampFacts DEF AllBehind, AllStamped
  <1>9. AllStamped' /\ InOrder' = InOrder /\ NoSessionBegun'
    BY <1>1, <1>2, <1>3, RecordKept DEF AllStamped, InOrder, NoSessionBegun
  <1> QED
    BY <1>1, <1>2, <1>7, <1>8, <1>9, RegionKept DEF CalendarInv

\* The bound moves up by a day; a day without trading leaves no session behind.
LEMMA CalendarNextDay == ASSUME CalendarInv, NextDay PROVE CalendarInv'
  <1>1. /\ phase = "generate" /\ phase' = "generate" /\ day <= LastDay /\ ~InSession
        /\ day' = day + 1 /\ k' = 1 /\ i' = 0 /\ UNCHANGED <<region, drops, file, segments>>
    BY DEF NextDay
  <1>2. /\ CalendarTypeOK /\ AllStamped /\ NoSessionBegun
        /\ DaysApart => AllBehind
        /\ Regular => InOrder
    BY <1>1 DEF CalendarInv
  <1>3. /\ k \in 1 .. Len(Sessions) + 1 /\ Len(Sessions) \in Nat \ {0}
        /\ DOMAIN Sessions = 1 .. Len(Sessions)
        /\ day \in Int /\ FirstDay <= day /\ i \in Nat
        /\ file \in Seq(Rec)
    BY <1>2, SessionsSeq DEF CalendarTypeOK, Rec
  <1>4. /\ Sessions[1].start \in Nat /\ Length(1) \in Nat
        /\ Sessions[Len(Sessions)].end \in Nat
    BY <1>2, <1>3, SessionBounds
  <1>5. Midnight(day) \in Int /\ Midnight(day + 1) = Midnight(day) + Day
    BY <1>3, DayPositive DEF Midnight
  <1>6. Reached' = Midnight(day) + Day + Sessions[1].start
    <2>1. Reached' = Midnight(day + 1) + Sessions[1].start + 0
      BY <1>1, <1>3, ReachedNext
    <2> QED
      BY <1>4, <1>5, <2>1, DayPositive
  <1>7. ASSUME DaysApart PROVE Reached \in Int /\ Reached' \in Int /\ Reached <= Reached'
    <2>1. CASE IsTradingDay(region, day)
      <3>1. k = Len(Sessions) + 1
        BY <1>1, <1>3, <2>1 DEF InSession
      <3>2. Reached = Midnight(day) + Sessions[Len(Sessions)].end
        BY <1>3, <3>1 DEF Reached
      <3>3. Sessions[Len(Sessions)].end <= Day + Sessions[1].start
        BY <1>7 DEF DaysApart
      <3> DEFINE m == Midnight(day)
                 a == Sessions[1].start
                 e == Sessions[Len(Sessions)].end
      <3>4. /\ m \in Int /\ a \in Nat /\ e \in Nat /\ Day \in Nat /\ e <= Day + a
            /\ Reached = m + e /\ Reached' = m + Day + a
        BY <1>4, <1>5, <1>6, <3>2, <3>3, DayPositive
      <3> HIDE DEF m, a, e
      <3> QED
        BY ONLY <3>4
    <2>2. CASE ~IsTradingDay(region, day)
      <3>1. k = 1 /\ i = 0
        BY <1>2, <2>2 DEF NoSessionBegun
      <3>2. Reached = Midnight(day) + Sessions[1].start + 0
        BY <1>3, <3>1 DEF Reached
      <3> QED
        BY <1>4, <1>5, <1>6, <3>2, DayPositive
    <2> QED
      BY <2>1, <2>2
  <1>8. CalendarTypeOK'
    <2>1. Sessions' = Sessions /\ Length(k)' = Length(1)
      BY <1>1 DEF Length, Sessions
    <2>2. day' \in Int /\ FirstDay <= day'
      BY <1>1, <1>3, DatesInt
    <2>3. k' \in 1 .. Len(Sessions) + 1
      BY <1>1, <1>3
    <2> QED
      BY <1>1, <1>2, <1>4, <2>1, <2>2, <2>3 DEF CalendarTypeOK
  <1>9. ASSUME DaysApart PROVE AllBehind'
    BY <1>1, <1>2, <1>3, <1>7, <1>9, RecordKept, StampFacts DEF AllBehind, AllStamped
  <1>10. AllStamped' /\ InOrder' = InOrder /\ NoSessionBegun'
    BY <1>1, <1>2, RecordKept DEF AllStamped, InOrder, NoSessionBegun
  <1> QED
    BY <1>1, <1>2, <1>8, <1>9, <1>10, RegionKept DEF CalendarInv

\* Steps that touch no record: the generator ends, ./ingest cuts segments or ends.
LEMMA CalendarQuiet ==
    ASSUME CalendarInv, UNCHANGED <<region, file>>, CalendarTypeOK',
           phase' # "generate", phase' = "refused" => ~StrictlyIncreasing
    PROVE  CalendarInv'
  <1>1. AllStamped' /\ AllBehind' /\ InOrder' = InOrder /\ StrictlyIncreasing' = StrictlyIncreasing
    BY RecordKept DEF CalendarInv, AllStamped, AllBehind, InOrder, StrictlyIncreasing
  <1> QED
    BY <1>1, RegionKept DEF CalendarInv

\* None of the other actions appends a record.
LEMMA CalendarRest ==
    ASSUME CalendarInv, Generated \/ Check \/ Cut \/ CutNextDay \/ Finished \/ Ended
    PROVE  CalendarInv'
  <1>1. CalendarTypeOK /\ Len(Sessions) \in Nat \ {0} /\ k \in 1 .. Len(Sessions) + 1
    BY SessionsSeq DEF CalendarInv, CalendarTypeOK
  <1>2. UNCHANGED <<region, file>> /\ phase' # "generate"
    BY DEF Generated, Check, Cut, CutNextDay, Finished, Ended, vars
  <1>3. phase' = "refused" => ~StrictlyIncreasing
    BY DEF CalendarInv, Generated, Check, Cut, CutNextDay, Finished, Ended, vars
  <1>4. Sessions' = Sessions
    BY <1>2 DEF Sessions
  <1>5. CalendarTypeOK'
    <2>1. CASE Generated \/ Finished \/ Ended
      BY <1>1, <1>2, <1>4, <2>1 DEF CalendarTypeOK, Generated, Finished, Ended, vars
    <2>2. CASE Check
      BY <1>1, <1>2, <1>4, <2>2, DatesInt DEF CalendarTypeOK, Check
    <2>3. CASE Cut
      <3>1. k' \in 1 .. Len(Sessions) + 1
        BY <1>1, <2>3 DEF Cut, InSession
      <3> QED
        BY <1>1, <1>2, <1>4, <2>3, <3>1 DEF CalendarTypeOK, Cut
    <2>4. CASE CutNextDay
      BY <1>1, <1>2, <1>4, <2>4, DatesInt DEF CalendarTypeOK, CutNextDay
    <2> QED
      BY <2>1, <2>2, <2>3, <2>4
  <1> QED
    BY <1>2, <1>3, <1>5, CalendarQuiet

\* The generator and the cutting loop keep the invariant, whatever the region and the period.
THEOREM CalendarInvariant == Spec => []CalendarInv
  <1>1. CalendarInv /\ UNCHANGED vars => CalendarInv'
    <2> SUFFICES ASSUME CalendarInv, UNCHANGED vars PROVE CalendarInv'
      OBVIOUS
    <2>1. UNCHANGED <<region, phase, day, k, i, drops, file, segments>>
      BY DEF vars
    <2> QED
      BY <2>1 DEF CalendarInv, CalendarTypeOK, AllStamped, AllBehind, NoSessionBegun, InOrder,
          StrictlyIncreasing, Regular, DaysApart, QuietChange, Reached, Stamped, Local, SecondOf,
          StartUtc, Midnight, Length, Sessions, Change, Shift
  <1>2. CalendarInv /\ [Next]_vars => CalendarInv'
    BY <1>1, CalendarSecond, CalendarNextSession, CalendarNextDay, CalendarRest DEF Next
  <1> QED
    BY <1>2, CalendarInit, PTL DEF Spec

\* The timestamps a regular region produces pass the check of ./ingest, also across the day on
\* which the offset changes.
THEOREM CalendarNothingRefused == Spec => []NothingRefused
  <1>1. CalendarInv => NothingRefused
    <2> SUFFICES ASSUME CalendarInv, Regular PROVE StrictlyIncreasing
      BY DEF CalendarInv, NothingRefused
    <2>1. InOrder /\ file \in Seq(Rec)
      BY DEF CalendarInv, CalendarTypeOK, Rec
    <2> QED
      BY <2>1 DEF InOrder, StrictlyIncreasing
  <1> QED
    BY <1>1, CalendarInvariant, PTL

\* Every generated record is converted back to a second of the session it was generated for.
THEOREM CalendarLocalTimeKept == Spec => []LocalTimeKept
  <1>1. CalendarInv => LocalTimeKept
    <2> SUFFICES ASSUME CalendarInv, QuietChange, NEW p \in DOMAIN file
                 PROVE  LET local == Utc2Local(region, file[p].utc) - Midnight(file[p].day)
                            session == Sessions[file[p].session]
                        IN  session.start <= local /\ local < session.end
      BY DEF LocalTimeKept
    <2>1. PICK r \in Rec : r = file[p] /\ Stamped(r)
      <3>1. file \in Seq(Rec) /\ Stamped(file[p])
        BY DEF CalendarInv, CalendarTypeOK, AllStamped, Rec
      <3>2. file[p] \in Rec
        BY <3>1
      <3> QED
        BY <3>1, <3>2
    <2>2. CalendarTypeOK
      BY DEF CalendarInv
    <2>3. /\ Local(r) \in Int /\ OffsetAt(Local(r)) \in Int
          /\ r.utc = Local(r) - OffsetAt(Local(r))
          /\ region.hasDst /\ region.dst # region.std =>
                 Local(r) < Change - Shift \/ Local(r) >= Change + Shift
      BY <2>1, <2>2, StampOffset
    <2>4. Utc2Local(region, r.utc) = Local(r)
      <3>1. r.utc = Local2Utc(region, Local(r)) /\ Change \in Int
        BY <2>2, <2>3, OffsetFacts
      <3>2. Shift \in Nat /\ (region.dst = region.std => Shift = 0)
        <4>1. region.std \in Int /\ region.dst \in Int
          BY <2>2 DEF CalendarTypeOK
        <4> QED
          BY <4>1 DEF Shift
      <3>3. region.hasDst => Local(r) < Change \/ Local(r) >= Change + Shift
        BY <2>3, <3>1, <3>2
      <3> QED
        BY <2>2, <2>3, <3>1, <3>3, ThereAndBack
    <2>5. /\ Midnight(r.day) + Sessions[r.session].start <= Local(r)
          /\ Local(r) < Midnight(r.day) + Sessions[r.session].end
      BY <2>1, <2>2, StampFacts
    <2>6. Midnight(r.day) \in Int /\ Sessions[r.session].start \in Nat /\ Sessions[r.session].end \in Nat
      BY <2>2, SessionFacts DEF Rec
    <2> QED
      BY <2>1, <2>3, <2>4, <2>5, <2>6
  <1> QED
    BY <1>1, CalendarInvariant, PTL

-----------------------------------------------------------------------------
(* The price process. *)

Walk == [seconds : Int, nights : Int, ou : Int, hasTraded : BOOLEAN]

\* How many trading days lie before a day: none before the first, one more after each.
LEMMA TradingDays ==
    /\ TradingDaysBefore(FirstDay) = 0
    /\ \A d \in Int :
          /\ TradingDaysBefore(d) \in Nat
          /\ FirstDay <= d => TradingDaysBefore(d + 1) = IF IsTradingDay(region, d)
                                                         THEN TradingDaysBefore(d) + 1 ELSE TradingDaysBefore(d)
  <1> DEFINE T(d) == {e \in FirstDay .. d - 1 : IsTradingDay(region, e)}
  <1>1. \A d \in Int : IsFiniteSet(T(d)) /\ Cardinality(T(d)) \in Nat
    <2> TAKE d \in Int
    <2>1. IsFiniteSet(FirstDay .. d - 1)
      BY DatesInt, FS_Interval
    <2>2. IsFiniteSet(T(d))
      BY <2>1, FS_Subset
    <2> QED
      BY <2>2, FS_CardinalityType
  <1>2. T(FirstDay) = {}
    BY DatesInt
  <1>3. ASSUME NEW d \in Int, FirstDay <= d
        PROVE  Cardinality(T(d + 1)) = IF IsTradingDay(region, d) THEN Cardinality(T(d)) + 1 ELSE Cardinality(T(d))
    <2>1. FirstDay .. (d + 1) - 1 = (FirstDay .. d - 1) \cup {d}
      BY <1>3, DatesInt
    <2>2. CASE IsTradingDay(region, d)
      <3>1. T(d + 1) = T(d) \cup {d}
        BY <2>1, <2>2
      <3>2. d \notin T(d)
        BY DatesInt
      <3> HIDE DEF T
      <3>3. Cardinality(T(d) \cup {d}) = Cardinality(T(d)) + 1
        BY <1>1, <3>2, FS_AddElement
      <3> QED
        BY <2>2, <3>1, <3>3
    <2>3. CASE ~IsTradingDay(region, d)
      <3>1. T(d + 1) = T(d)
        BY <2>1, <2>3
      <3> QED
        BY <2>3, <3>1
    <2> QED
      BY <2>2, <2>3
  <1>4. Cardinality(T(FirstDay)) = 0
    BY <1>2, FS_EmptySet
  <1> QED
    BY <1>1, <1>3, <1>4 DEF TradingDaysBefore

\* What PriceAdvances says of one record, which depends on nothing else that changes.
Priced(r, w) ==
    /\ w.nights = TradingDaysBefore(r.day)
    /\ w.seconds = TradingDaysBefore(r.day) * DayLength + Sessions[r.session].start + SecondOf(r) + 1
                   - Sessions[1].start
    /\ w.ou = SecondOf(r) + 1

\* PriceAdvances says it of every record.
LEMMA PricedEach == PriceAdvances <=> \A p \in DOMAIN file : Priced(file[p], prices[p])
  BY DEF PriceAdvances, Priced, DayLength, SecondOf

\* While the region stays, so does the meaning of it.
LEMMA PricedKept ==
    ASSUME UNCHANGED region
    PROVE  /\ \A d : TradingDaysBefore(d)' = TradingDaysBefore(d)
           /\ \A r, w : Priced(r, w)' <=> Priced(r, w)
           /\ DayLength' = DayLength
  <1>1. \A d : TradingDaysBefore(d)' = TradingDaysBefore(d)
    BY DEF TradingDaysBefore
  <1>2. DayLength' = DayLength /\ \A r : SecondOf(r)' = SecondOf(r)
    BY DEF DayLength, SecondOf, StartUtc, Midnight, Sessions
  <1> QED
    BY <1>1, <1>2 DEF Priced, Sessions

\* A step that moves neither the walk nor the records.
LEMMA PriceQuiet ==
    ASSUME PriceInv, UNCHANGED <<region, file, walk, prices>>, phase' = "generate" => WalkReached'
    PROVE  PriceInv'
  <1>1. PriceAdvances'
    <2>1. (\A p \in DOMAIN file : Priced(file[p], prices[p]))'
      BY PricedEach, PricedKept DEF PriceInv
    <2> QED
      BY <2>1 DEF PriceAdvances, Priced, DayLength, SecondOf
  <1> QED
    BY <1>1 DEF PriceInv

\* Where the walk stands, in terms that are plain numbers.
LEMMA WalkFacts ==
    ASSUME CalendarInv, PriceInv, phase = "generate", day \in Int, k \in DOMAIN Sessions
    PROVE  /\ TradingDaysBefore(day) \in Nat /\ TradingDaysBefore(day) * DayLength \in Int
           /\ Sessions[1].start \in Nat /\ Sessions[k].start \in Nat
           /\ k \in Nat /\ k >= 1 /\ i \in Nat
           /\ walk.seconds \in Int /\ walk.nights \in Int /\ walk.ou \in Int /\ walk.hasTraded \in BOOLEAN
           /\ k > 1 => Sessions[k - 1].end \in Nat
  <1>1. CalendarTypeOK
    BY DEF CalendarInv
  <1>2. /\ Len(Sessions) \in Nat \ {0} /\ DOMAIN Sessions = 1 .. Len(Sessions)
    BY <1>1, SessionsSeq
  <1>3. \A s \in DOMAIN Sessions : Sessions[s].start \in Nat /\ Sessions[s].end \in Nat
    BY <1>1, SessionBounds
  <1>4. TradingDaysBefore(day) \in Nat
    BY TradingDays
  <1>5. DayLength \in Int
    <2>1. 1 \in DOMAIN Sessions /\ Len(Sessions) \in DOMAIN Sessions
      BY <1>2
    <2> QED
      BY <1>3, <2>1 DEF DayLength
  <1>6. k > 1 => k - 1 \in DOMAIN Sessions
    BY <1>2
  <1>7. walk.seconds \in Int /\ walk.nights \in Int /\ walk.ou \in Int /\ walk.hasTraded \in BOOLEAN
    BY DEF PriceInv
  <1>8. i \in Nat
    BY <1>1 DEF CalendarTypeOK
  <1> QED
    BY <1>2, <1>3, <1>4, <1>5, <1>6, <1>7, <1>8

\* The two parts of the walk that a second moves.
LEMMA StepFields ==
    ASSUME NEW w \in Walk, w.hasTraded, NEW r, r = [w EXCEPT !.seconds = w.seconds + 1, !.ou = w.ou + 1]
    PROVE  /\ r.seconds = w.seconds + 1 /\ r.nights = w.nights /\ r.ou = w.ou + 1 /\ r.hasTraded
           /\ r \in Walk
  <1>1. r.seconds = w.seconds + 1 /\ r.nights = w.nights /\ r.ou = w.ou + 1
    BY DEF Walk
  <1>2. r.hasTraded = w.hasTraded
    BY DEF Walk
  <1>3. w.seconds + 1 \in Int /\ w.ou + 1 \in Int
    BY DEF Walk
  <1>4. r \in Walk
    BY <1>3 DEF Walk
  <1> QED
    BY <1>1, <1>2, <1>4

\* A second moves the walk, whether its record is kept or dropped.
LEMMA SteppedReached ==
    ASSUME CalendarInv, PriceInv, phase = "generate", day \in Int, k \in DOMAIN Sessions
    PROVE  /\ Stepped \in Walk
           /\ Stepped.hasTraded
           /\ Stepped.nights = TradingDaysBefore(day)
           /\ Stepped.seconds = TradingDaysBefore(day) * DayLength + Sessions[k].start + i + 1 - Sessions[1].start
           /\ Stepped.ou = i + 1
  <1> DEFINE n == TradingDaysBefore(day)
             c == n * DayLength
  <1>1. /\ n \in Nat /\ c \in Int
        /\ Sessions[1].start \in Nat /\ Sessions[k].start \in Nat
        /\ k \in Nat /\ k >= 1 /\ i \in Nat
        /\ walk.seconds \in Int /\ walk.nights \in Int /\ walk.ou \in Int /\ walk.hasTraded \in BOOLEAN
        /\ k > 1 => Sessions[k - 1].end \in Nat
    BY WalkFacts
  <1>2. /\ walk.hasTraded <=> n > 0 \/ Today
        /\ walk.nights = IF n = 0 \/ Today THEN n ELSE n - 1
        /\ walk.seconds = c + TimeReached - Sessions[1].start
        /\ i > 0 => walk.ou = i
        /\ walk \in Walk
    BY DEF PriceInv, WalkReached, Walk
  <1> HIDE DEF c, n
  <1>3. /\ Opened \in Walk /\ Opened.hasTraded
        /\ Stepped.seconds = Opened.seconds + 1 /\ Stepped.nights = Opened.nights
        /\ Stepped.ou = Opened.ou + 1 /\ Stepped.hasTraded
        /\ Stepped \in Walk
    <2>1. Opened \in Walk /\ Opened.hasTraded
      <3>1. CASE i > 0
        <4>1. Opened = walk /\ Today
          BY <3>1 DEF Opened, Today
        <4> QED
          BY <1>2, <4>1
      <3>2. CASE ~(i > 0)
        <4> DEFINE s == IF walk.hasTraded /\ k > 1
                        THEN walk.seconds + (Sessions[k].start - Sessions[k - 1].end) ELSE walk.seconds
                   m == IF walk.hasTraded /\ k = 1 THEN walk.nights + 1 ELSE walk.nights
        <4>1. s \in Int /\ m \in Int
          BY <1>1
        <4>2. Opened = [seconds |-> s, nights |-> m, ou |-> 0, hasTraded |-> TRUE]
          BY <3>2 DEF Opened
        <4> HIDE DEF s, m
        <4> QED
          BY <4>1, <4>2 DEF Walk
      <3> QED
        BY <3>1, <3>2
    <2>2. Stepped = [Opened EXCEPT !.seconds = Opened.seconds + 1, !.ou = Opened.ou + 1]
      BY DEF Stepped
    <2> QED
      BY <2>1, <2>2, StepFields
  <1>4. CASE i > 0
    <2>1. Opened = walk /\ Today /\ TimeReached = Sessions[k].start + i
      BY <1>4 DEF Opened, Today, TimeReached
    <2>2. walk.hasTraded /\ walk.nights = n /\ walk.ou = i
          /\ walk.seconds = c + (Sessions[k].start + i) - Sessions[1].start
      BY <1>1, <1>2, <1>4, <2>1
    <2> QED
      BY <1>1, <1>2, <1>3, <2>1, <2>2 DEF c, n, Walk
  <1>5. CASE i = 0 /\ k > 1
    <2>1. Today /\ TimeReached = Sessions[k - 1].end
      BY <1>5 DEF Today, TimeReached
    <2>2. walk.hasTraded /\ walk.nights = n
          /\ walk.seconds = c + Sessions[k - 1].end - Sessions[1].start
      BY <1>1, <1>2, <1>5, <2>1
    <2>3. Opened = [seconds |-> walk.seconds + (Sessions[k].start - Sessions[k - 1].end), nights |-> walk.nights,
                    ou |-> 0, hasTraded |-> TRUE]
      <3>1. ~(i > 0) /\ k # 1
        BY <1>1, <1>5
      <3> QED
        BY <1>5, <2>2, <3>1 DEF Opened
    <2> QED
      BY <1>1, <1>3, <1>5, <2>2, <2>3 DEF c, n, Walk
  <1>6. CASE i = 0 /\ k = 1
    <2>1. ~Today /\ TimeReached = Sessions[1].start
      BY <1>6 DEF Today, TimeReached
    <2>2. walk.seconds = c
      BY <1>1, <1>2, <2>1
    <2>3. Opened.seconds = walk.seconds /\ Opened.ou = 0 /\ Opened.hasTraded
          /\ Opened.nights = IF walk.hasTraded THEN walk.nights + 1 ELSE walk.nights
      BY <1>1, <1>6 DEF Opened
    <2>4. Opened.nights = n
      <3>1. CASE n > 0
        BY <1>1, <1>2, <2>1, <2>3, <3>1
      <3>2. CASE n = 0
        <4>1. ~walk.hasTraded /\ walk.nights = 0
          BY <1>1, <1>2, <2>1, <3>2
        <4> QED
          BY <2>3, <3>2, <4>1
      <3> QED
        BY <1>1, <3>1, <3>2
    <2> QED
      BY <1>1, <1>3, <1>6, <2>2, <2>3, <2>4 DEF c, n, Walk
  <1>7. i > 0 \/ (i = 0 /\ k > 1) \/ (i = 0 /\ k = 1)
    BY <1>1
  <1> QED
    BY <1>4, <1>5, <1>6, <1>7

\* A second of a session: the walk moves, and a record that is kept is priced from where it stands.
LEMMA PriceSecond ==
    ASSUME CalendarInv, CalendarInv', PriceInv, NEW dropped \in BOOLEAN, Second(dropped)
    PROVE  PriceInv'
  <1> DEFINE new == [utc |-> StartUtc(day, k) + i, day |-> day, session |-> k]
  <1>1. /\ phase = "generate" /\ phase' = "generate" /\ InSession
        /\ i' = i + 1 /\ UNCHANGED <<region, day, k>>
        /\ walk' = Stepped
        /\ \/ file' = file /\ prices' = prices
           \/ file' = Append(file, new) /\ prices' = Append(prices, walk')
    BY DEF Second, Advanced
  <1>2. CalendarTypeOK
    BY DEF CalendarInv
  <1>3. /\ k \in DOMAIN Sessions /\ day \in Int /\ i \in Nat
        /\ file \in Seq(Rec)
        /\ StartUtc(day, k) \in Int
    <2>1. k \in DOMAIN Sessions /\ day \in Int /\ i \in Nat /\ file \in Seq(Rec)
      BY <1>1, <1>2, SessionsSeq DEF CalendarTypeOK, InSession, Rec
    <2> QED
      BY <1>2, <2>1, SessionFacts
  <1>4. /\ Stepped \in Walk
        /\ Stepped.hasTraded
        /\ Stepped.nights = TradingDaysBefore(day)
        /\ Stepped.seconds = TradingDaysBefore(day) * DayLength + Sessions[k].start + i + 1 - Sessions[1].start
        /\ Stepped.ou = i + 1
    BY <1>1, <1>3, SteppedReached
  <1>5. /\ TradingDaysBefore(day) \in Nat /\ TradingDaysBefore(day) * DayLength \in Int
        /\ Sessions[1].start \in Nat /\ Sessions[k].start \in Nat
    BY <1>1, <1>3, WalkFacts
  <1>6. WalkReached'
    <2>1. Today' /\ TimeReached' = Sessions[k].start + (i + 1)
      BY <1>1, <1>3 DEF Today, TimeReached, Sessions
    <2>2. TradingDaysBefore(day)' = TradingDaysBefore(day) /\ DayLength' = DayLength /\ Sessions' = Sessions
      BY <1>1, PricedKept, RegionKept
    <2>3. Stepped.seconds = TradingDaysBefore(day) * DayLength + (Sessions[k].start + (i + 1)) - Sessions[1].start
      <3> DEFINE c == TradingDaysBefore(day) * DayLength
      <3>1. /\ Stepped.seconds = c + Sessions[k].start + i + 1 - Sessions[1].start
            /\ c \in Int /\ Sessions[k].start \in Int /\ Sessions[1].start \in Int /\ i \in Int
        BY <1>3, <1>4, <1>5
      <3> HIDE DEF c
      <3>2. Stepped.seconds = c + (Sessions[k].start + (i + 1)) - Sessions[1].start
        BY <3>1
      <3> QED
        BY <3>2 DEF c
    <2> QED
      BY <1>1, <1>3, <1>4, <2>1, <2>2, <2>3 DEF WalkReached
  <1>7. Priced(new, walk')
    <2>1. SecondOf(new) = i
      BY <1>3 DEF SecondOf
    <2> QED
      BY <1>1, <1>4, <2>1 DEF Priced
  <1> HIDE DEF new
  <1>8. /\ prices' \in Seq(Walk) /\ Len(prices') = Len(file')
        /\ \A p \in DOMAIN file' : \/ p \in DOMAIN file /\ file'[p] = file[p] /\ prices'[p] = prices[p]
                                   \/ file'[p] = new /\ prices'[p] = walk'
    <2>1. prices \in Seq(Walk) /\ Len(prices) = Len(file)
      BY DEF PriceInv, Walk
    <2>2. CASE file' = file /\ prices' = prices
      BY <2>1, <2>2
    <2>3. CASE file' = Append(file, new) /\ prices' = Append(prices, walk')
      <3>1. Len(file) \in Nat /\ DOMAIN file = 1 .. Len(file) /\ DOMAIN file' = 1 .. Len(file) + 1
            /\ Len(file') = Len(file) + 1
            /\ file'[Len(file) + 1] = new /\ \A p \in 1 .. Len(file) : file'[p] = file[p]
        BY <1>3, <2>3
      <3>2. prices' \in Seq(Walk) /\ Len(prices') = Len(prices) + 1
            /\ prices'[Len(prices) + 1] = walk' /\ \A p \in 1 .. Len(prices) : prices'[p] = prices[p]
        BY <1>1, <1>4, <2>1, <2>3
      <3> QED
        BY <2>1, <3>1, <3>2
    <2> QED
      BY <1>1, <2>2, <2>3
  <1>9. PriceAdvances'
    <2>1. ASSUME NEW p \in DOMAIN file' PROVE Priced(file'[p], prices'[p])
      <3>1. \A q \in DOMAIN file : Priced(file[q], prices[q])
        BY PricedEach DEF PriceInv
      <3> QED
        BY <1>7, <1>8, <2>1, <3>1
    <2>2. (\A p \in DOMAIN file : Priced(file[p], prices[p]))'
      BY <1>1, <2>1, PricedKept
    <2> QED
      BY <2>2 DEF PriceAdvances, Priced, DayLength, SecondOf
  <1> QED
    BY <1>1, <1>4, <1>6, <1>8, <1>9 DEF PriceInv, Walk

\* At the end of a session the walk has reached its close.
LEMMA PriceNextSession == ASSUME CalendarInv, PriceInv, NextSession PROVE PriceInv'
  <1>1. /\ phase = "generate" /\ phase' = "generate" /\ InSession /\ ~SecondsLeft(k)
        /\ k' = k + 1 /\ i' = 0 /\ UNCHANGED <<region, day, file, walk, prices>>
    BY DEF NextSession, priceVars
  <1>2. CalendarTypeOK
    BY DEF CalendarInv
  <1>3. /\ k \in DOMAIN Sessions /\ k \in Nat /\ k >= 1 /\ day \in Int
        /\ i = Length(k) /\ Length(k) = Sessions[k].end - Sessions[k].start
        /\ Sessions[k].start \in Nat /\ Sessions[k].end \in Nat /\ Sessions[k].start < Sessions[k].end
    <2>1. k \in DOMAIN Sessions /\ k \in Nat /\ k >= 1 /\ day \in Int /\ i \in Nat /\ i <= Length(k)
      BY <1>1, <1>2, SessionsSeq DEF CalendarTypeOK, InSession
    <2>2. /\ Length(k) = Sessions[k].end - Sessions[k].start /\ Length(k) \in Nat
          /\ Sessions[k].start \in Nat /\ Sessions[k].end \in Nat /\ Sessions[k].start < Sessions[k].end
      BY <1>2, <2>1, SessionBounds
    <2> QED
      BY <1>1, <2>1, <2>2 DEF SecondsLeft
  <1>4. Today /\ Today' /\ TimeReached = Sessions[k].end /\ TimeReached' = Sessions[k].end
    <2>1. i > 0 /\ Sessions[k].start + i = Sessions[k].end /\ (k + 1) - 1 = k /\ k + 1 > 1
      BY <1>3
    <2> QED
      BY <1>1, <2>1 DEF Today, TimeReached, Sessions
  <1>5. TradingDaysBefore(day)' = TradingDaysBefore(day) /\ DayLength' = DayLength /\ Sessions' = Sessions
    BY <1>1, PricedKept, RegionKept
  <1>6. WalkReached'
    BY <1>1, <1>4, <1>5 DEF PriceInv, WalkReached
  <1> QED
    BY <1>1, <1>6, PriceQuiet

\* At the end of a trading day it has moved by the length of the day; another day leaves it alone.
LEMMA PriceNextDay == ASSUME CalendarInv, PriceInv, NextDay PROVE PriceInv'
  <1>1. /\ phase = "generate" /\ phase' = "generate" /\ day <= LastDay /\ ~InSession
        /\ day' = day + 1 /\ k' = 1 /\ i' = 0 /\ UNCHANGED <<region, file, walk, prices>>
    BY DEF NextDay, priceVars
  <1>2. CalendarTypeOK /\ NoSessionBegun
    BY <1>1 DEF CalendarInv
  <1>3. /\ k \in 1 .. Len(Sessions) + 1 /\ Len(Sessions) \in Nat \ {0}
        /\ DOMAIN Sessions = 1 .. Len(Sessions)
        /\ day \in Int /\ FirstDay <= day /\ i \in Nat
    BY <1>2, SessionsSeq DEF CalendarTypeOK
  <1>4. Sessions[1].start \in Nat /\ Sessions[Len(Sessions)].end \in Nat
    BY <1>2, <1>3, SessionBounds
  <1> DEFINE n == TradingDaysBefore(day)
             L == DayLength
  <1>5. n \in Nat /\ TradingDaysBefore(day + 1) = IF IsTradingDay(region, day) THEN n + 1 ELSE n
    BY <1>3, TradingDays
  <1>6. ~Today' /\ TimeReached' = Sessions[1].start
    BY <1>1 DEF Today, TimeReached, Sessions
  <1>7. TradingDaysBefore(day)' = TradingDaysBefore(day + 1) /\ DayLength' = L /\ Sessions' = Sessions
    BY <1>1, PricedKept, RegionKept
  <1>8. /\ walk.hasTraded <=> n > 0 \/ Today
        /\ walk.nights = IF n = 0 \/ Today THEN n ELSE n - 1
        /\ walk.seconds = n * L + TimeReached - Sessions[1].start
    BY <1>1 DEF PriceInv, WalkReached
  <1>9. CASE IsTradingDay(region, day)
    <2>1. k = Len(Sessions) + 1
      BY <1>1, <1>3, <1>9 DEF InSession
    <2>2. i = 0 /\ k > 1 /\ k - 1 = Len(Sessions)
      BY <1>1, <1>3, <2>1 DEF PriceInv, WalkReached
    <2>3. Today /\ TimeReached = Sessions[Len(Sessions)].end
      BY <2>2 DEF Today, TimeReached
    <2>4. L = Sessions[Len(Sessions)].end - Sessions[1].start /\ L \in Int
      BY <1>4 DEF DayLength
    <2>5. walk.hasTraded /\ walk.nights = n /\ walk.seconds = n * L + L
      <3> DEFINE c == n * L
      <3>1. c \in Int
        BY <1>5, <2>4
      <3>2. walk.seconds = c + Sessions[Len(Sessions)].end - Sessions[1].start
        BY <1>8, <2>3
      <3> HIDE DEF c, n, L
      <3>3. walk.seconds = c + L
        BY <1>4, <2>4, <3>1, <3>2
      <3>4. walk.hasTraded /\ walk.nights = n
        BY <1>8, <2>3
      <3> QED
        BY <3>3, <3>4 DEF c
    <2>6. (n + 1) * L = n * L + L /\ n * L \in Int
      BY <1>5, <2>4
    <2>7. WalkReached'
      <3> DEFINE m == n + 1
      <3>1. m \in Nat /\ m > 0 /\ TradingDaysBefore(day)' = m /\ m - 1 = n
        BY <1>5, <1>7, <1>9
      <3>2. walk'.seconds = m * L + Sessions[1].start - Sessions[1].start
        <4> DEFINE c == m * L
        <4>1. c \in Int /\ walk'.seconds = c
          BY <1>1, <2>4, <2>5, <2>6, <3>1
        <4> HIDE DEF c
        <4>2. c = c + Sessions[1].start - Sessions[1].start
          BY <1>4, <4>1
        <4> QED
          BY <4>1, <4>2 DEF c
      <3>3. walk'.hasTraded /\ walk'.nights = n
        BY <1>1, <2>5
      <3> HIDE DEF m, n, L
      <3>4. walk'.seconds = (TradingDaysBefore(day) * DayLength + TimeReached - Sessions[1].start)'
        BY <1>6, <1>7, <3>1, <3>2
      <3>5. walk'.hasTraded <=> (TradingDaysBefore(day) > 0 \/ Today)'
        BY <3>1, <3>3
      <3>6. walk'.nights = (IF TradingDaysBefore(day) = 0 \/ Today THEN TradingDaysBefore(day)
                           ELSE TradingDaysBefore(day) - 1)'
        BY <1>6, <3>1, <3>3
      <3> QED
        BY <1>1, <1>3, <1>7, <3>4, <3>5, <3>6 DEF WalkReached
    <2> QED
      BY <1>1, <2>7, PriceQuiet
  <1>10. CASE ~IsTradingDay(region, day)
    <2>1. ~Today /\ TimeReached = Sessions[1].start
      BY <1>2, <1>10 DEF NoSessionBegun, Today, TimeReached
    <2>2. WalkReached'
      BY <1>1, <1>5, <1>6, <1>7, <1>8, <1>10, <2>1 DEF WalkReached
    <2> QED
      BY <1>1, <2>2, PriceQuiet
  <1> QED
    BY <1>9, <1>10

\* Nothing has moved initially.
LEMMA PriceInit == Init => PriceInv
  <1> SUFFICES ASSUME Init PROVE PriceInv
    OBVIOUS
  <1>1. /\ phase = "generate" /\ day = FirstDay /\ k = 1 /\ i = 0 /\ file = <<>> /\ prices = <<>>
        /\ walk = [seconds |-> 0, nights |-> 0, ou |-> 0, hasTraded |-> FALSE]
    BY DEF Init
  <1>2. CalendarTypeOK
    BY CalendarInit DEF CalendarInv
  <1>3. Len(Sessions) \in Nat \ {0} /\ DOMAIN Sessions = 1 .. Len(Sessions)
    BY <1>2, SessionsSeq
  <1>4. Sessions[1].start \in Nat /\ Sessions[Len(Sessions)].end \in Nat
    BY <1>2, <1>3, SessionBounds
  <1>5. TradingDaysBefore(day) = 0
    BY <1>1, TradingDays
  <1>6. DayLength \in Int
    BY <1>4 DEF DayLength
  <1>7. ~Today /\ TimeReached = Sessions[1].start
    BY <1>1 DEF Today, TimeReached
  <1>8. WalkReached
    <2>1. TradingDaysBefore(day) * DayLength + TimeReached - Sessions[1].start = 0
      BY <1>4, <1>5, <1>6, <1>7
    <2> QED
      BY <1>1, <1>5, <1>7, <2>1 DEF WalkReached
  <1> QED
    BY <1>1, <1>8 DEF PriceInv, PriceAdvances

\* The invariant of the price process, together with the one of the records.
THEOREM CalendarPriceInvariant == Spec => []PriceInv
  <1>1. CalendarInv /\ CalendarInv' /\ PriceInv /\ [Next]_vars => PriceInv'
    <2> SUFFICES ASSUME CalendarInv, CalendarInv', PriceInv, [Next]_vars PROVE PriceInv'
      OBVIOUS
    <2>1. CASE UNCHANGED vars
      <3>1. UNCHANGED <<region, phase, day, k, i, file, walk, prices>>
        BY <2>1 DEF vars, priceVars
      <3>2. phase' = "generate" => WalkReached'
        BY <3>1, PricedKept DEF PriceInv, WalkReached, Today, TimeReached, Sessions
      <3> QED
        BY <3>1, <3>2, PriceQuiet
    <2>2. ASSUME NEW dropped \in BOOLEAN, Second(dropped) PROVE PriceInv'
      BY <2>2, PriceSecond
    <2>3. CASE NextSession
      BY <2>3, PriceNextSession
    <2>4. CASE NextDay
      BY <2>4, PriceNextDay
    <2>5. CASE Generated \/ Check \/ Cut \/ CutNextDay \/ Finished
      BY <2>5, PriceQuiet DEF Generated, Check, Cut, CutNextDay, Finished, priceVars
    <2> QED
      BY <2>1, <2>2, <2>3, <2>4, <2>5 DEF Next, Ended
  <1> QED
    BY <1>1, PriceInit, CalendarInvariant, PTL DEF Spec

\* The price of a record has moved by all the time between the first session's open and it, and
\* by a jump a night, however many of the seconds in between were dropped.
THEOREM CalendarPriceAdvances == Spec => []PriceAdvances
  <1>1. PriceInv => PriceAdvances
    BY DEF PriceInv
  <1> QED
    BY <1>1, CalendarPriceInvariant, PTL

-----------------------------------------------------------------------------
(* The segments that ./ingest cuts. *)

Segment == [startNs : Int, endNs : Int, begin : Int, end : Int, day : Int, session : Int]

\* A session of a day on which the region trades.
Traded(d, s) == d \in FirstDay .. LastDay /\ s \in DOMAIN Sessions /\ IsTradingDay(region, d)

\* The records before an instant are finitely many.
LEMMA FoundAt ==
    ASSUME CalendarTypeOK, NEW t \in Int
    PROVE  /\ FirstAtOrAfter(t) \in Nat
           /\ DOMAIN file = 1 .. Len(file) /\ Len(file) \in Nat
           /\ \A p \in DOMAIN file : file[p] \in Rec
           /\ IsFiniteSet({p \in DOMAIN file : file[p].utc < t})
  <1>1. file \in Seq(Rec)
    BY DEF CalendarTypeOK, Rec
  <1>2. DOMAIN file = 1 .. Len(file) /\ Len(file) \in Nat /\ \A p \in DOMAIN file : file[p] \in Rec
    BY <1>1
  <1>3. IsFiniteSet(DOMAIN file)
    BY <1>2, FS_Interval
  <1>4. IsFiniteSet({p \in DOMAIN file : file[p].utc < t})
    BY <1>3, FS_Subset
  <1> QED
    BY <1>2, <1>4, FS_CardinalityType DEF FirstAtOrAfter

\* The close of a session in UTC, when no change of offset lies in it.
LEMMA CloseUtc ==
    ASSUME CalendarTypeOK, NEW d \in Int, NEW s \in DOMAIN Sessions
    PROVE  /\ EndUtc(d, s) = (Midnight(d) + Sessions[s].end) - OffsetAt(Midnight(d) + Sessions[s].end)
           /\ OffsetAt(Midnight(d) + Sessions[s].end) \in Int
           /\ EndUtc(d, s) \in Int
  <1> DEFINE m == Midnight(d) + Sessions[s].end
  <1>1. m \in Int
    BY SessionFacts
  <1>2. Local2Utc(region, m) = m - OffsetAt(m) /\ OffsetAt(m) \in Int
    BY <1>1, OffsetFacts
  <1>3. EndUtc(d, s) = Local2Utc(region, m)
    BY DEF EndUtc
  <1> QED
    BY <1>1, <1>2, <1>3

\* The fields of a segment are integers.
LEMMA SegmentTyped ==
    ASSUME CalendarTypeOK, NEW d \in Int, NEW s \in DOMAIN Sessions
    PROVE  SegmentOf(d, s) \in Segment
  <1>1. StartUtc(d, s) \in Int /\ EndUtc(d, s) \in Int
    BY SessionFacts, CloseUtc
  <1>2. FirstAtOrAfter(StartUtc(d, s)) \in Int /\ FirstAtOrAfter(EndUtc(d, s)) \in Int
    <2>1. ASSUME NEW t \in Int PROVE FirstAtOrAfter(t) \in Nat
      BY ONLY CalendarTypeOK, <2>1, FoundAt
    <2> QED
      BY <1>1, <2>1
  <1>3. s \in Int
    BY SessionsSeq
  <1> QED
    BY <1>1, <1>2, <1>3 DEF SegmentOf, Segment

\* A segment depends on the region and the records.
LEMMA SegmentKept ==
    ASSUME UNCHANGED <<region, file>>
    PROVE  /\ \A d, s : SegmentOf(d, s)' = SegmentOf(d, s)
           /\ \A ds : HasRecords(ds)' <=> HasRecords(ds)
           /\ \A a, b : Earlier(a, b)' <=> Earlier(a, b)
  <1>1. \A d, s : SegmentOf(d, s)' = SegmentOf(d, s)
    BY DEF SegmentOf, StartUtc, EndUtc, FirstAtOrAfter, Midnight, Sessions
  <1> QED
    BY <1>1 DEF HasRecords, Earlier

\* A step that moves neither the segments nor the sessions passed.
LEMMA CutQuiet ==
    ASSUME CutInv, UNCHANGED <<region, file, segments>>, Passed' = Passed,
           phase' \in {"generate", "check"} => segments = <<>>,
           phase' \in {"cut", "serve"} => CutInOrder,
           phase' = "serve" => day' > LastDay
    PROVE  CutInv'
  BY SegmentKept DEF CutInv, CutInOrder

\* The generator has cut nothing.
LEMMA CutNothing ==
    ASSUME CutInv, phase \in {"generate", "check"}, phase' \in {"generate", "check"}, UNCHANGED segments
    PROVE  CutInv'
  BY DEF CutInv

\* ./ingest begins before the first session.
LEMMA CutBegins == ASSUME CalendarInv, CutInv, Check PROVE CutInv'
  <1>1. /\ phase' = IF StrictlyIncreasing THEN "cut" ELSE "refused"
        /\ day' = FirstDay /\ k' = 1 /\ segments = <<>> /\ UNCHANGED <<region, segments>>
    BY DEF Check, CutInv
  <1>2. Passed' = {}
    <2>1. Len(Sessions) \in Nat /\ DOMAIN Sessions' = 1 .. Len(Sessions)
      BY <1>1, SessionsSeq DEF CalendarInv, Sessions
    <2> SUFFICES ASSUME NEW ds \in (FirstDay .. LastDay) \X DOMAIN Sessions'
                 PROVE  ~(ds[1] < FirstDay \/ (ds[1] = FirstDay /\ ds[2] < 1))
      BY <1>1 DEF Passed
    <2> QED
      BY <2>1, DatesInt
  <1>3. CutInOrder'
    BY <1>1, <1>2 DEF CutInOrder
  <1>4. phase' \in {"cut", "refused"}
    BY <1>1
  <1> QED
    BY <1>1, <1>3, <1>4 DEF CutInv

\* A session is passed: it becomes a segment if it has records.
LEMMA CutCuts == ASSUME CalendarInv, CutInv, Cut PROVE CutInv'
  <1> DEFINE new == SegmentOf(day, k)
  <1>1. /\ phase = "cut" /\ phase' = "cut" /\ InSession
        /\ segments' = IF new.begin < new.end THEN Append(segments, new) ELSE segments
        /\ k' = k + 1 /\ UNCHANGED <<region, day, file>>
    BY DEF Cut
  <1>2. CalendarTypeOK /\ CutInOrder /\ segments \in Seq(Segment)
    BY <1>1 DEF CalendarInv, CutInv, Segment
  <1>3. /\ k \in DOMAIN Sessions /\ k \in Nat /\ day \in Int /\ day \in FirstDay .. LastDay
        /\ IsTradingDay(region, day)
        /\ DOMAIN Sessions = 1 .. Len(Sessions) /\ Len(Sessions) \in Nat
    BY <1>1, <1>2, SessionsSeq, DatesInt DEF CalendarTypeOK, InSession
  <1>4. new \in Segment /\ new.day = day /\ new.session = k
    BY <1>2, <1>3, SegmentTyped DEF SegmentOf
  <1>5. Passed' = Passed \cup {<<day, k>>}
    <2>1. ASSUME NEW ds \in (FirstDay .. LastDay) \X DOMAIN Sessions
          PROVE  (ds[1] < day \/ (ds[1] = day /\ ds[2] < k + 1))
                   <=> (ds[1] < day \/ (ds[1] = day /\ ds[2] < k)) \/ ds = <<day, k>>
      <3>1. ds[1] \in Int /\ ds[2] \in Int /\ ds = <<ds[1], ds[2]>>
        BY <1>3, DatesInt
      <3>2. ds = <<day, k>> <=> ds[1] = day /\ ds[2] = k
        BY <3>1
      <3>3. ds[2] < k + 1 <=> ds[2] < k \/ ds[2] = k
        BY <1>3, <3>1
      <3> QED
        BY <3>2, <3>3
    <2>2. <<day, k>> \in (FirstDay .. LastDay) \X DOMAIN Sessions /\ <<day, k>>[1] = day /\ <<day, k>>[2] = k
      BY <1>3
    <2>3. Sessions' = Sessions
      BY <1>1 DEF Sessions
    <2>4. Passed' = {ds \in (FirstDay .. LastDay) \X DOMAIN Sessions :
                        IsTradingDay(region, ds[1]) /\ (ds[1] < day \/ (ds[1] = day /\ ds[2] < k + 1))}
      BY <1>1, <2>3 DEF Passed
    <2> QED
      BY <1>3, <2>1, <2>2, <2>4, Zenon DEF Passed
  <1>6. \A d, s : SegmentOf(d, s)' = SegmentOf(d, s)
    BY <1>1, SegmentKept
  <1>7. /\ \A ds : HasRecords(ds)' <=> HasRecords(ds)
        /\ \A a, b : Earlier(a, b)' <=> Earlier(a, b)
    BY <1>1, SegmentKept
  <1>8. HasRecords(<<day, k>>) <=> new.begin < new.end
    BY DEF HasRecords
  <1> HIDE DEF new
  <1>9. CASE ~(new.begin < new.end)
    <2>1. segments' = segments /\ ~HasRecords(<<day, k>>)
      BY <1>1, <1>8, <1>9
    <2>2. CutInOrder'
      BY <1>2, <1>5, <1>6, <1>7, <2>1 DEF CutInOrder
    <2> QED
      BY <1>1, <1>2, <2>1, <2>2 DEF CutInv, Segment
  <1>10. CASE new.begin < new.end
    <2>1. /\ segments' \in Seq(Segment) /\ Len(segments) \in Nat
          /\ DOMAIN segments = 1 .. Len(segments) /\ DOMAIN segments' = 1 .. Len(segments) + 1
          /\ segments'[Len(segments) + 1] = new
          /\ \A s \in DOMAIN segments : segments'[s] = segments[s]
      BY <1>1, <1>2, <1>4, <1>10
    <2>2. /\ DOMAIN segments \subseteq DOMAIN segments' /\ Len(segments) + 1 \in DOMAIN segments'
          /\ \A s \in DOMAIN segments' : s \in DOMAIN segments \/ s = Len(segments) + 1
      BY <2>1
    <2>3. <<day, k>> \in Passed' /\ HasRecords(<<day, k>>) /\ new = SegmentOf(<<day, k>>[1], <<day, k>>[2])
      BY <1>5, <1>8, <1>10 DEF new
    <2>4. ASSUME NEW s \in DOMAIN segments'
          PROVE  \E ds \in Passed' : HasRecords(ds)' /\ segments'[s] = SegmentOf(ds[1], ds[2])'
      <3>1. CASE s = Len(segments) + 1
        BY <1>6, <1>7, <2>1, <2>3, <3>1
      <3>2. CASE s \in DOMAIN segments
        BY <1>2, <1>5, <1>6, <1>7, <2>1, <3>2 DEF CutInOrder
      <3> QED
        BY <2>2, <3>1, <3>2
    <2>5. ASSUME NEW ds \in Passed', HasRecords(ds)'
          PROVE  \E s \in DOMAIN segments' : segments'[s] = SegmentOf(ds[1], ds[2])'
      <3>1. CASE ds = <<day, k>>
        BY <1>6, <2>1, <2>2, <2>3, <3>1
      <3>2. CASE ds \in Passed
        <4>1. PICK s \in DOMAIN segments : segments[s] = SegmentOf(ds[1], ds[2])
          BY <1>2, <1>7, <2>5, <3>2 DEF CutInOrder
        <4> QED
          BY <1>6, <2>1, <2>2, <4>1
      <3> QED
        BY <1>5, <3>1, <3>2
    <2>6. ASSUME NEW s \in DOMAIN segments', NEW t \in DOMAIN segments', s < t
          PROVE  Earlier(segments'[s], segments'[t])
      <3>1. s \in DOMAIN segments
        BY <2>1, <2>6
      <3>2. CASE t \in DOMAIN segments
        BY <1>2, <2>1, <2>6, <3>1, <3>2 DEF CutInOrder
      <3>3. CASE t = Len(segments) + 1
        <4>1. PICK ds \in Passed : segments[s] = SegmentOf(ds[1], ds[2])
          BY <1>2, <3>1 DEF CutInOrder
        <4>2. ds[1] < day \/ (ds[1] = day /\ ds[2] < k)
          BY DEF Passed
        <4>3. segments[s].day = ds[1] /\ segments[s].session = ds[2]
          BY <4>1 DEF SegmentOf
        <4> QED
          BY <1>4, <2>1, <3>1, <3>3, <4>2, <4>3 DEF Earlier
      <3> QED
        BY <2>2, <3>2, <3>3
    <2>7. CutInOrder'
      BY <1>7, <2>4, <2>5, <2>6 DEF CutInOrder
    <2> QED
      BY <1>1, <2>1, <2>7 DEF CutInv, Segment
  <1> QED
    BY <1>9, <1>10

\* The day is over when all its sessions are passed, or has none.
LEMMA CutGoesOn == ASSUME CalendarInv, CutInv, CutNextDay PROVE CutInv'
  <1>1. /\ phase = "cut" /\ phase' = "cut" /\ day <= LastDay /\ ~InSession
        /\ day' = day + 1 /\ k' = 1 /\ UNCHANGED <<region, file, segments>>
    BY DEF CutNextDay
  <1>2. /\ k \in 1 .. Len(Sessions) + 1 /\ Len(Sessions) \in Nat /\ day \in Int
        /\ DOMAIN Sessions = 1 .. Len(Sessions) /\ Sessions' = Sessions
    BY <1>1, SessionsSeq DEF CalendarInv, CalendarTypeOK, Sessions
  <1>3. IsTradingDay(region, day) => k = Len(Sessions) + 1
    BY <1>1, <1>2 DEF InSession
  <1>4. ASSUME NEW ds \in (FirstDay .. LastDay) \X DOMAIN Sessions, IsTradingDay(region, ds[1])
        PROVE  (ds[1] < day + 1 \/ (ds[1] = day + 1 /\ ds[2] < 1))
                  <=> (ds[1] < day \/ (ds[1] = day /\ ds[2] < k))
    <2>1. ds[1] \in Int /\ ds[2] \in 1 .. Len(Sessions)
      BY <1>2, DatesInt
    <2>2. ds[1] = day => ds[2] < k
      BY <1>2, <1>3, <1>4, <2>1
    <2> QED
      BY <1>2, <2>1, <2>2
  <1>5. Passed' = {ds \in (FirstDay .. LastDay) \X DOMAIN Sessions :
                      IsTradingDay(region, ds[1]) /\ (ds[1] < day + 1 \/ (ds[1] = day + 1 /\ ds[2] < 1))}
    BY <1>1, <1>2 DEF Passed
  <1>6. Passed' = Passed
    BY <1>4, <1>5, Zenon DEF Passed
  <1> QED
    BY <1>1, <1>6, CutQuiet DEF CutInv

\* What ./ingest has cut are the sessions it has passed that have records, in their order.
THEOREM CalendarCutInvariant == Spec => []CutInv
  <1>1. Init => CutInv
    BY DEF Init, CutInv
  <1>2. CalendarInv /\ CutInv /\ [Next]_vars => CutInv'
    <2> SUFFICES ASSUME CalendarInv, CutInv, [Next]_vars PROVE CutInv'
      OBVIOUS
    <2>1. CASE UNCHANGED vars
      <3>1. UNCHANGED <<region, phase, day, k, file, segments>>
        BY <2>1 DEF vars
      <3>2. Passed' = Passed
        BY <3>1 DEF Passed, Sessions
      <3> QED
        BY <3>1, <3>2, CutQuiet DEF CutInv
    <2>2. ASSUME NEW dropped \in BOOLEAN, Second(dropped) PROVE CutInv'
      BY <2>2, CutNothing DEF Second
    <2>3. CASE NextSession \/ NextDay \/ Generated
      BY <2>3, CutNothing DEF NextSession, NextDay, Generated
    <2>4. CASE Check
      BY <2>4, CutBegins
    <2>5. CASE Cut
      BY <2>5, CutCuts
    <2>6. CASE CutNextDay
      BY <2>6, CutGoesOn
    <2>7. CASE Finished
      <3>1. phase = "cut" /\ phase' = "serve" /\ day' = day /\ day > LastDay
            /\ UNCHANGED <<region, file, k, segments>>
        BY <2>7 DEF Finished
      <3>2. Passed' = Passed
        BY <3>1 DEF Passed, Sessions
      <3> QED
        BY <3>1, <3>2, CutQuiet DEF CutInv
    <2> QED
      BY <2>1, <2>2, <2>3, <2>4, <2>5, <2>6, <2>7 DEF Next, Ended
  <1> QED
    BY <1>1, <1>2, CalendarInvariant, PTL DEF Spec

-----------------------------------------------------------------------------
(* What the segments hold, and what segmentContaining finds in them. *)

\* A set of positions that has every position before each of its own is an initial interval, and
\* its size tells where it ends.
LEMMA InitialInterval ==
    ASSUME NEW n \in Nat, NEW S \in SUBSET (1 .. n), \A p \in S : \A q \in 1 .. n : q < p => q \in S
    PROVE  Cardinality(S) \in 0 .. n /\ S = 1 .. Cardinality(S)
  <1> DEFINE T == {x \in Nat : x + 1 \notin S}
  <1>1. n \in T
    BY n + 1 \notin 1 .. n
  <1>2. PICK m \in T : \A x \in T : m <= x
    BY <1>1, LeastNatural
  <1>3. m \in Nat /\ m <= n /\ m + 1 \notin S
    BY <1>1, <1>2
  <1>4. S = 1 .. m
    <2>1. ASSUME NEW p \in 1 .. m PROVE p \in S
      <3>1. p - 1 \in Nat /\ p - 1 < m /\ (p - 1) + 1 = p
        BY <1>3, <2>1
      <3>2. p - 1 \notin T
        BY <1>2, <1>3, <3>1
      <3> QED
        BY <3>1, <3>2
    <2>2. ASSUME NEW p \in S PROVE p \in 1 .. m
      <3>1. p \in 1 .. n /\ p # m + 1
        BY <1>3, <2>2
      <3>2. ASSUME m + 1 < p PROVE FALSE
        <4>1. m + 1 \in 1 .. n
          BY <1>3, <3>1, <3>2
        <4> QED
          BY <1>3, <2>2, <3>2, <4>1
      <3> QED
        BY <1>3, <3>1, <3>2
    <2> QED
      BY <2>1, <2>2
  <1>5. Cardinality(1 .. m) = m
    BY <1>3, FS_Interval
  <1> QED
    BY <1>3, <1>4, <1>5

\* What lower_bound finds: the records before an instant are those up to the position.
LEMMA FoundBefore ==
    ASSUME CalendarTypeOK, InOrder, NEW t \in Int
    PROVE  /\ FirstAtOrAfter(t) \in 0 .. Len(file)
           /\ \A p \in DOMAIN file : file[p].utc < t <=> p <= FirstAtOrAfter(t)
  <1> DEFINE S == {p \in DOMAIN file : file[p].utc < t}
             c == Cardinality(S)
  <1>1. DOMAIN file = 1 .. Len(file) /\ Len(file) \in Nat /\ \A p \in DOMAIN file : file[p].utc \in Int
    BY FoundAt DEF Rec
  <1>2. \A p \in S : \A q \in 1 .. Len(file) : q < p => q \in S
    BY <1>1 DEF InOrder
  <1>3. S \in SUBSET (1 .. Len(file))
    BY <1>1
  <1>4. FirstAtOrAfter(t) = c
    BY DEF FirstAtOrAfter
  <1>5. \A p \in DOMAIN file : file[p].utc < t <=> p \in S
    OBVIOUS
  <1> HIDE DEF S
  <1>6. c \in 0 .. Len(file) /\ S = 1 .. c
    BY <1>1, <1>2, <1>3, InitialInterval
  <1> HIDE DEF c
  <1>7. \A p \in 1 .. Len(file) : p \in 1 .. c <=> p <= c
    BY <1>1, <1>6
  <1> QED
    BY <1>1, <1>4, <1>5, <1>6, <1>7

\* Later sessions of a day begin after earlier ones have ended.
LEMMA SessionsApart ==
    ASSUME CalendarTypeOK, NEW s \in DOMAIN Sessions, NEW t \in DOMAIN Sessions, s < t
    PROVE  Sessions[s].end <= Sessions[t].start
  <1>1. DOMAIN Sessions = 1 .. Len(Sessions) /\ Len(Sessions) \in Nat
    BY SessionsSeq
  <1>2. \A q \in DOMAIN Sessions : /\ Sessions[q].start \in Nat /\ Sessions[q].end \in Nat
                                   /\ Sessions[q].start < Sessions[q].end
    BY SessionBounds
  <1>3. \A q \in DOMAIN Sessions : q > 1 => Sessions[q - 1].end <= Sessions[q].start
    BY SessionsSeq
  <1> DEFINE U == {j \in Nat : s + 1 + j \in DOMAIN Sessions => Sessions[s].end <= Sessions[s + 1 + j].start}
  <1>4. 0 \in U
    <2>1. s + 1 + 0 \in DOMAIN Sessions => s + 1 > 1 /\ (s + 1) - 1 = s /\ s + 1 + 0 = s + 1
      BY <1>1
    <2> QED
      BY <1>3, <2>1
  <1>5. ASSUME NEW j \in Nat, j \in U PROVE j + 1 \in U
    <2> DEFINE a == s + 1 + j
               b == s + 1 + (j + 1)
    <2> SUFFICES ASSUME b \in DOMAIN Sessions PROVE Sessions[s].end <= Sessions[b].start
      OBVIOUS
    <2>1. a \in DOMAIN Sessions /\ b > 1 /\ b - 1 = a
      BY <1>1
    <2>2. Sessions[s].end <= Sessions[a].start
      BY <1>5, <2>1
    <2>3. Sessions[a].end <= Sessions[b].start
      BY <1>3, <2>1
    <2> HIDE DEF a, b
    <2> QED
      BY <1>2, <2>1, <2>2, <2>3
  <1>6. Nat \subseteq U
    <2> HIDE DEF U
    <2> QED
      BY <1>4, <1>5, NaturalsIn
  <1>7. t - (s + 1) \in Nat /\ s + 1 + (t - (s + 1)) = t
    BY <1>1
  <1> QED
    BY <1>6, <1>7

\* Of two sessions of a region whose days are apart, the earlier ends before the later begins.
LEMMA LocalApart ==
    ASSUME CalendarTypeOK, DaysApart, NEW d \in Int, NEW s \in DOMAIN Sessions,
           NEW e \in Int, NEW t \in DOMAIN Sessions, d < e \/ (d = e /\ s < t)
    PROVE  Midnight(d) + Sessions[s].end <= Midnight(e) + Sessions[t].start
  <1>1. Midnight(d) \in Int /\ Midnight(e) \in Int
    BY SessionFacts
  <1>2. \A q \in DOMAIN Sessions : /\ Sessions[q].start \in Nat /\ Sessions[q].end \in Nat
                                   /\ Sessions[q].start < Sessions[q].end
    BY SessionBounds
  <1>3. CASE d = e /\ s < t
    <2>1. Sessions[s].end <= Sessions[t].start
      BY <1>3, SessionsApart
    <2> QED
      BY <1>1, <1>2, <1>3, <2>1
  <1>4. CASE d < e
    <2>1. Midnight(d) + Day <= Midnight(e)
      <3>1. (d + 1) * Day <= e * Day /\ (d + 1) * Day = d * Day + Day
        BY <1>4, DayPositive
      <3> QED
        BY <3>1 DEF Midnight
    <2> DEFINE n == Len(Sessions)
    <2>2. n \in Nat \ {0} /\ DOMAIN Sessions = 1 .. n
      BY SessionsSeq
    <2>3. 1 \in DOMAIN Sessions /\ n \in DOMAIN Sessions
      BY <2>2
    <2>4. Sessions[s].end <= Sessions[n].end
      <3>1. s = n \/ s < n
        BY <2>2
      <3>2. s < n => Sessions[s].end <= Sessions[n].start
        BY <2>3, SessionsApart
      <3> QED
        BY <1>2, <2>3, <3>1, <3>2
    <2>5. Sessions[1].start <= Sessions[t].start
      <3>1. t = 1 \/ 1 < t
        BY <2>2
      <3>2. 1 < t => Sessions[1].end <= Sessions[t].start
        BY <2>3, SessionsApart
      <3> QED
        BY <1>2, <2>3, <3>1, <3>2
    <2>6. Sessions[n].end <= Day + Sessions[1].start
      BY DEF DaysApart
    <2> HIDE DEF n
    <2> QED
      BY <1>1, <1>2, <2>1, <2>3, <2>4, <2>5, <2>6, DayPositive
  <1> QED
    BY <1>3, <1>4

\* A session in which the offset does not change has one offset, and is a distance away from the
\* change.
LEMMA TradedFacts ==
    ASSUME CalendarTypeOK, QuietChange, NEW d, NEW s, Traded(d, s)
    PROVE  LET m == Midnight(d) + Sessions[s].start
               e == Midnight(d) + Sessions[s].end
           IN  /\ d \in Int /\ s \in DOMAIN Sessions
               /\ m \in Int /\ e \in Int /\ m < e
               /\ OffsetAt(m) \in Int
               /\ StartUtc(d, s) = m - OffsetAt(m) /\ EndUtc(d, s) = e - OffsetAt(m)
               /\ region.hasDst /\ region.dst # region.std => e <= Change - Shift \/ m >= Change + Shift
               /\ Change \in Int /\ Shift \in Nat
               /\ StartUtc(d, s) \in Int /\ EndUtc(d, s) \in Int
  <1> DEFINE m == Midnight(d) + Sessions[s].start
             e == Midnight(d) + Sessions[s].end
  <1>1. d \in FirstDay .. LastDay /\ d \in Int /\ s \in DOMAIN Sessions /\ IsTradingDay(region, d)
    BY DatesInt DEF Traded
  <1>2. /\ Sessions[s].start \in Nat /\ Sessions[s].end \in Nat /\ Sessions[s].start < Sessions[s].end
        /\ Midnight(d) \in Int
        /\ StartUtc(d, s) = m - OffsetAt(m) /\ OffsetAt(m) \in Int
    BY <1>1, SessionFacts
  <1>3. EndUtc(d, s) = e - OffsetAt(e) /\ OffsetAt(e) \in Int
    BY <1>1, CloseUtc
  <1>4. m \in Int /\ e \in Int /\ m < e
    BY <1>2
  <1>5. Change \in Int
    BY <1>4, OffsetFacts
  <1>6. region.std \in Int /\ region.dst \in Int /\ region.hasDst \in BOOLEAN
    BY DEF CalendarTypeOK
  <1>7. Shift \in Nat /\ (region.dst # region.std => Shift > 0)
    BY <1>6 DEF Shift
  <1>8. region.hasDst /\ region.dst # region.std => e <= Change - Shift \/ m >= Change + Shift
    BY <1>1, OneSide
  <1> HIDE DEF m, e
  <1>9. OffsetAt(e) = OffsetAt(m)
    BY <1>4, <1>5, <1>6, <1>7, <1>8 DEF OffsetAt
  <1> QED
    BY <1>1, <1>2, <1>3, <1>4, <1>5, <1>7, <1>8, <1>9 DEF m, e

\* So in UTC, too, the earlier session ends before the later begins.
LEMMA UtcApart ==
    ASSUME CalendarTypeOK, Regular, NEW d, NEW s, Traded(d, s), NEW f, NEW t, Traded(f, t),
           d < f \/ (d = f /\ s < t)
    PROVE  EndUtc(d, s) <= StartUtc(f, t)
  <1> DEFINE m == Midnight(d) + Sessions[s].start
             e == Midnight(d) + Sessions[s].end
             n == Midnight(f) + Sessions[t].start
             g == Midnight(f) + Sessions[t].end
  <1>1. QuietChange /\ DaysApart
    BY DEF Regular
  <1>2. /\ d \in Int /\ s \in DOMAIN Sessions
        /\ m \in Int /\ e \in Int /\ m < e /\ OffsetAt(m) \in Int
        /\ EndUtc(d, s) = e - OffsetAt(m)
        /\ region.hasDst /\ region.dst # region.std => e <= Change - Shift \/ m >= Change + Shift
        /\ Change \in Int /\ Shift \in Nat
    BY <1>1, TradedFacts
  <1>3. /\ f \in Int /\ t \in DOMAIN Sessions
        /\ n \in Int /\ g \in Int /\ n < g /\ OffsetAt(n) \in Int
        /\ StartUtc(f, t) = n - OffsetAt(n)
        /\ region.hasDst /\ region.dst # region.std => g <= Change - Shift \/ n >= Change + Shift
    BY <1>1, TradedFacts
  <1>4. e <= n
    BY <1>1, <1>2, <1>3, LocalApart
  <1>5. region.std \in Int /\ region.dst \in Int /\ region.hasDst \in BOOLEAN
    BY DEF CalendarTypeOK
  <1> HIDE DEF m, e, n, g
  <1>6. CASE OffsetAt(m) = OffsetAt(n)
    BY <1>2, <1>3, <1>4, <1>6
  <1>7. CASE OffsetAt(m) # OffsetAt(n)
    <2>1. region.hasDst /\ region.dst # region.std
      BY <1>5, <1>7 DEF OffsetAt
    <2>2. e <= Change - Shift /\ n >= Change + Shift
      BY <1>2, <1>3, <1>4, <1>5, <1>7, <2>1 DEF OffsetAt
    <2>3. OffsetAt(n) - OffsetAt(m) <= Shift
      BY <1>5, <2>1 DEF OffsetAt, Shift
    <2> QED
      BY <1>2, <1>3, <2>2, <2>3
  <1> QED
    BY <1>6, <1>7

\* The records of a session are those between its open and its close.
LEMMA RecordsBetween ==
    ASSUME CalendarTypeOK, AllStamped, Regular, NEW d, NEW s, Traded(d, s), NEW p \in DOMAIN file
    PROVE  p \in RecordsOf(d, s) <=> StartUtc(d, s) <= file[p].utc /\ file[p].utc < EndUtc(d, s)
  <1> DEFINE r == file[p]
  <1>1. r \in Rec /\ Stamped(r)
    <2>1. file \in Seq(Rec)
      BY DEF CalendarTypeOK, Rec
    <2> QED
      BY <2>1 DEF AllStamped
  <1>2. r.day \in Int /\ r.session \in DOMAIN Sessions /\ r.utc \in Int /\ Traded(r.day, r.session)
    BY <1>1, DatesInt DEF Rec, Stamped, Traded
  <1>3. /\ d \in Int /\ s \in DOMAIN Sessions /\ StartUtc(d, s) \in Int /\ EndUtc(d, s) \in Int
        /\ StartUtc(r.day, r.session) \in Int /\ EndUtc(r.day, r.session) \in Int
    BY <1>2, TradedFacts DEF Regular
  <1>4. StartUtc(r.day, r.session) <= r.utc /\ r.utc < EndUtc(r.day, r.session)
    <2> DEFINE m == Midnight(r.day) + Sessions[r.session].start
               e == Midnight(r.day) + Sessions[r.session].end
    <2>1. /\ m \in Int /\ OffsetAt(m) \in Int /\ Local(r) \in Int
          /\ Local(r) = r.utc + OffsetAt(m) /\ m <= Local(r) /\ Local(r) < e /\ e \in Int
      BY <1>1, StampFacts
    <2>2. StartUtc(r.day, r.session) = m - OffsetAt(m) /\ EndUtc(r.day, r.session) = e - OffsetAt(m)
      BY <1>2, TradedFacts DEF Regular
    <2> HIDE DEF m, e, r
    <2> QED
      BY <1>2, <2>1, <2>2
  <1>5. p \in RecordsOf(d, s) <=> r.day = d /\ r.session = s
    BY DEF RecordsOf
  <1>6. DOMAIN Sessions \subseteq Int
    BY SessionsSeq
  <1>7. CASE r.day = d /\ r.session = s
    BY <1>4, <1>5, <1>7
  <1>8. CASE r.day < d \/ (r.day = d /\ r.session < s)
    <2>1. EndUtc(r.day, r.session) <= StartUtc(d, s)
      BY <1>2, <1>8, UtcApart
    <2> QED
      BY <1>2, <1>3, <1>4, <1>5, <1>6, <1>8, <2>1
  <1>9. CASE d < r.day \/ (d = r.day /\ s < r.session)
    <2>1. EndUtc(d, s) <= StartUtc(r.day, r.session)
      BY <1>2, <1>9, UtcApart
    <2> QED
      BY <1>2, <1>3, <1>4, <1>5, <1>6, <1>9, <2>1
  <1> QED
    BY <1>2, <1>3, <1>6, <1>7, <1>8, <1>9

\* A segment that was cut belongs to a session that was traded, and holds its records.
LEMMA CutHolds ==
    ASSUME CalendarInv, CutInv, Served, Regular, NEW s \in DOMAIN segments
    PROVE  LET g == segments[s]
           IN  /\ Traded(g.day, g.session)
               /\ g = SegmentOf(g.day, g.session) /\ g.begin < g.end
               /\ g.begin + 1 .. g.end = RecordsOf(g.day, g.session)
               /\ RecordsOf(g.day, g.session) # {}
  <1>1. CalendarTypeOK /\ AllStamped /\ InOrder /\ CutInOrder
    BY DEF CalendarInv, CutInv, Served
  <1>2. PICK ds \in Passed : HasRecords(ds) /\ segments[s] = SegmentOf(ds[1], ds[2])
    BY <1>1 DEF CutInOrder
  <1> DEFINE d == ds[1]
             q == ds[2]
             g == SegmentOf(d, q)
  <1>3. Traded(d, q)
    BY <1>2 DEF Passed, Traded
  <1>4. /\ g.begin = FirstAtOrAfter(StartUtc(d, q)) /\ g.end = FirstAtOrAfter(EndUtc(d, q))
        /\ g.day = d /\ g.session = q /\ g.begin < g.end
    BY <1>2 DEF SegmentOf, HasRecords
  <1>5. StartUtc(d, q) \in Int /\ EndUtc(d, q) \in Int
    BY <1>1, <1>3, TradedFacts DEF Regular
  <1>6. /\ g.begin \in 0 .. Len(file) /\ g.end \in 0 .. Len(file)
        /\ \A p \in DOMAIN file : file[p].utc < StartUtc(d, q) <=> p <= g.begin
        /\ \A p \in DOMAIN file : file[p].utc < EndUtc(d, q) <=> p <= g.end
    BY <1>1, <1>4, <1>5, FoundBefore
  <1>7. DOMAIN file = 1 .. Len(file) /\ Len(file) \in Nat /\ \A p \in DOMAIN file : file[p].utc \in Int
    BY <1>1, <1>5, FoundAt DEF Rec
  <1>8. \A p \in DOMAIN file :
            p \in RecordsOf(d, q) <=> StartUtc(d, q) <= file[p].utc /\ file[p].utc < EndUtc(d, q)
    BY <1>1, <1>3, RecordsBetween
  <1>9. RecordsOf(d, q) \subseteq DOMAIN file
    BY DEF RecordsOf
  <1> HIDE DEF d, q, g
  <1>10. g.begin + 1 .. g.end = RecordsOf(d, q)
    <2>1. ASSUME NEW p \in DOMAIN file PROVE p \in g.begin + 1 .. g.end <=> p \in RecordsOf(d, q)
      <3>1. p \in g.begin + 1 .. g.end <=> ~(p <= g.begin) /\ p <= g.end
        BY <1>6, <1>7
      <3>2. ~(file[p].utc < StartUtc(d, q)) <=> StartUtc(d, q) <= file[p].utc
        BY <1>5, <1>7
      <3> QED
        BY <1>6, <1>8, <3>1, <3>2
    <2>2. g.begin + 1 .. g.end \subseteq DOMAIN file
      BY <1>6, <1>7
    <2> QED
      BY <1>9, <2>1, <2>2
  <1>11. g.end \in g.begin + 1 .. g.end
    BY <1>4, <1>6
  <1> QED
    BY <1>2, <1>3, <1>4, <1>10, <1>11 DEF d, q, g

\* Every session that was traded and has records was cut.
LEMMA CutAll ==
    ASSUME CalendarInv, CutInv, Served, Regular, NEW d, NEW q, Traded(d, q), RecordsOf(d, q) # {}
    PROVE  \E s \in DOMAIN segments : segments[s] = SegmentOf(d, q)
  <1>1. CalendarTypeOK /\ AllStamped /\ InOrder /\ CutInOrder /\ day > LastDay /\ day \in Int
    BY DEF CalendarInv, CutInv, Served, CalendarTypeOK
  <1>2. <<d, q>> \in Passed
    <2>1. d \in FirstDay .. LastDay /\ q \in DOMAIN Sessions /\ IsTradingDay(region, d) /\ d < day
      BY <1>1, DatesInt DEF Traded
    <2> QED
      BY <2>1 DEF Passed
  <1>3. PICK p \in DOMAIN file : p \in RecordsOf(d, q)
    BY DEF RecordsOf
  <1>4. StartUtc(d, q) <= file[p].utc /\ file[p].utc < EndUtc(d, q)
    BY <1>1, <1>3, RecordsBetween
  <1>5. StartUtc(d, q) \in Int /\ EndUtc(d, q) \in Int
    BY <1>1, TradedFacts DEF Regular
  <1> DEFINE b == FirstAtOrAfter(StartUtc(d, q))
             e == FirstAtOrAfter(EndUtc(d, q))
  <1>6. /\ b \in 0 .. Len(file) /\ e \in 0 .. Len(file)
        /\ file[p].utc < StartUtc(d, q) <=> p <= b
        /\ file[p].utc < EndUtc(d, q) <=> p <= e
    BY <1>1, <1>5, FoundBefore
  <1>7. DOMAIN file = 1 .. Len(file) /\ Len(file) \in Nat /\ file[p].utc \in Int
    BY <1>1, <1>5, FoundAt DEF Rec
  <1>8. SegmentOf(d, q).begin = b /\ SegmentOf(d, q).end = e
    BY DEF SegmentOf
  <1> HIDE DEF b, e
  <1>9. b < e
    BY <1>4, <1>5, <1>6, <1>7
  <1>10. HasRecords(<<d, q>>)
    BY <1>8, <1>9 DEF HasRecords
  <1> QED
    BY <1>1, <1>2, <1>10 DEF CutInOrder

\* Earlier segments end before later ones begin.
LEMMA CutFollows ==
    ASSUME CalendarInv, CutInv, Served, Regular,
           NEW s \in DOMAIN segments, NEW t \in DOMAIN segments, s < t
    PROVE  segments[s].endNs <= segments[t].startNs
  <1>1. CalendarTypeOK /\ CutInOrder
    BY DEF CalendarInv, CutInv, Served
  <1> DEFINE g == segments[s]
             h == segments[t]
  <1>2. Traded(g.day, g.session) /\ g = SegmentOf(g.day, g.session)
    BY CutHolds
  <1>3. Traded(h.day, h.session) /\ h = SegmentOf(h.day, h.session)
    BY CutHolds
  <1>4. Earlier(g, h)
    BY <1>1 DEF CutInOrder
  <1>5. g.endNs = EndUtc(g.day, g.session)
    BY <1>2 DEF SegmentOf
  <1>6. h.startNs = StartUtc(h.day, h.session)
    BY <1>3 DEF SegmentOf
  <1> QED
    BY <1>1, <1>2, <1>3, <1>4, <1>5, <1>6, UtcApart DEF Earlier

\* segments.idx has the sessions of the calendar, with exactly the records generated for each.
THEOREM CalendarSegmentsAreSessions == Spec => []SegmentsAreSessions
  <1>1. CalendarInv /\ CutInv => SegmentsAreSessions
    <2> SUFFICES ASSUME CalendarInv, CutInv, Served, Regular
                 PROVE  /\ \A s \in DOMAIN segments :
                              segments[s].begin + 1 .. segments[s].end = RecordsOf(segments[s].day, segments[s].session)
                        /\ \A p \in DOMAIN file : \E s \in DOMAIN segments :
                              p \in segments[s].begin + 1 .. segments[s].end
                        /\ \A s, t \in DOMAIN segments : s < t => segments[s].endNs <= segments[t].startNs
      BY DEF SegmentsAreSessions
    <2>1. \A s \in DOMAIN segments :
              segments[s].begin + 1 .. segments[s].end = RecordsOf(segments[s].day, segments[s].session)
      BY CutHolds
    <2>2. ASSUME NEW p \in DOMAIN file
          PROVE  \E s \in DOMAIN segments : p \in segments[s].begin + 1 .. segments[s].end
      <3> DEFINE r == file[p]
      <3>1. r \in Rec /\ Stamped(r)
        <4>1. file \in Seq(Rec) /\ AllStamped
          BY DEF CalendarInv, CalendarTypeOK, Rec
        <4> QED
          BY <4>1 DEF AllStamped
      <3>2. Traded(r.day, r.session)
        BY <3>1 DEF Rec, Stamped, Traded
      <3>3. p \in RecordsOf(r.day, r.session)
        BY DEF RecordsOf
      <3>4. PICK s \in DOMAIN segments : segments[s] = SegmentOf(r.day, r.session)
        BY <3>2, <3>3, CutAll
      <3>5. segments[s].day = r.day /\ segments[s].session = r.session
        BY <3>4 DEF SegmentOf
      <3> QED
        BY <2>1, <3>3, <3>5
    <2>3. \A s, t \in DOMAIN segments : s < t => segments[s].endNs <= segments[t].startNs
      BY CutFollows
    <2> QED
      BY <2>1, <2>2, <2>3
  <1> QED
    BY <1>1, CalendarInvariant, CalendarCutInvariant, PTL

\* The segments that begin no later than an instant come first.
LEMMA BegunFirst ==
    ASSUME CalendarInv, CutInv, Served, Regular, NEW t \in Int
    PROVE  LET n == Cardinality({p \in DOMAIN segments : segments[p].startNs <= t})
           IN  /\ n \in 0 .. Len(segments) /\ Len(segments) \in Nat
               /\ DOMAIN segments = 1 .. Len(segments)
               /\ \A p \in DOMAIN segments : segments[p].startNs <= t <=> p <= n
  <1> DEFINE S == {p \in DOMAIN segments : segments[p].startNs <= t}
             n == Cardinality(S)
  <1>1. segments \in Seq(Segment)
    BY DEF CutInv, Segment
  <1>2. DOMAIN segments = 1 .. Len(segments) /\ Len(segments) \in Nat
    BY <1>1
  <1>3. \A p \in DOMAIN segments : segments[p].startNs \in Int /\ segments[p].endNs \in Int
    <2>1. \A p \in DOMAIN segments : segments[p] \in Segment
      BY <1>1
    <2> QED
      BY <2>1 DEF Segment
  <1>4. \A p \in DOMAIN segments : segments[p].startNs <= segments[p].endNs
    <2> SUFFICES ASSUME NEW p \in DOMAIN segments PROVE segments[p].startNs <= segments[p].endNs
      OBVIOUS
    <2> DEFINE g == segments[p]
    <2>1. Traded(g.day, g.session) /\ g = SegmentOf(g.day, g.session)
      BY CutHolds
    <2>2. g.startNs = StartUtc(g.day, g.session) /\ g.endNs = EndUtc(g.day, g.session)
      BY <2>1 DEF SegmentOf
    <2>3. LET m == Midnight(g.day) + Sessions[g.session].start
              e == Midnight(g.day) + Sessions[g.session].end
          IN  /\ m \in Int /\ e \in Int /\ m < e /\ OffsetAt(m) \in Int
              /\ StartUtc(g.day, g.session) = m - OffsetAt(m) /\ EndUtc(g.day, g.session) = e - OffsetAt(m)
      BY <2>1, TradedFacts DEF Regular, CalendarInv
    <2> QED
      BY <2>2, <2>3
  <1>5. \A p, q \in DOMAIN segments : q < p => segments[q].endNs <= segments[p].startNs
    BY CutFollows
  <1>6. ASSUME NEW p \in S, NEW q \in 1 .. Len(segments), q < p PROVE q \in S
    <2>1. q \in DOMAIN segments /\ p \in DOMAIN segments /\ segments[p].startNs <= t
      BY <1>2
    <2>2. segments[q].startNs <= segments[q].endNs /\ segments[q].endNs <= segments[p].startNs
      BY <1>4, <1>5, <1>6, <2>1
    <2>3. segments[q].startNs <= t
      BY <1>3, <2>1, <2>2
    <2> QED
      BY <2>1, <2>3
  <1>7. S \in SUBSET (1 .. Len(segments))
    BY <1>2
  <1>8. \A p \in DOMAIN segments : segments[p].startNs <= t <=> p \in S
    OBVIOUS
  <1>9. n \in 0 .. Len(segments) /\ S = 1 .. n
    <2> HIDE DEF S
    <2> QED
      BY <1>2, <1>6, <1>7, InitialInterval
  <1> HIDE DEF n
  <1>10. \A p \in DOMAIN segments : p \in S <=> p <= n
    BY <1>2, <1>9
  <1> QED
    BY <1>2, <1>8, <1>9, <1>10 DEF n

\* A session is live when an instant lies in it; it is the last of the segments that have begun.
LEMMA LiveIsCut ==
    ASSUME CalendarInv, CutInv, Served, Regular, NEW t \in Int, NEW ds \in Live(t)
    PROVE  LET s == SegmentContaining(t)
           IN  s # 0 /\ ds = <<segments[s].day, segments[s].session>>
  <1> DEFINE n == Cardinality({p \in DOMAIN segments : segments[p].startNs <= t})
  <1>1. /\ n \in 0 .. Len(segments) /\ Len(segments) \in Nat /\ DOMAIN segments = 1 .. Len(segments)
        /\ \A p \in DOMAIN segments : segments[p].startNs <= t <=> p <= n
    BY BegunFirst
  <1>2. SegmentContaining(t) = IF n > 0 /\ t < segments[n].endNs THEN n ELSE 0
    BY DEF SegmentContaining, EndsAfter
  <1> HIDE DEF n
  <1>3. /\ ds \in (FirstDay .. LastDay) \X DOMAIN Sessions /\ IsTradingDay(region, ds[1])
        /\ RecordsOf(ds[1], ds[2]) # {}
        /\ StartUtc(ds[1], ds[2]) <= t /\ t < EndUtc(ds[1], ds[2])
    BY DEF Live, TradedSessions
  <1>4. Traded(ds[1], ds[2]) /\ ds = <<ds[1], ds[2]>>
    BY <1>3 DEF Traded
  <1>5. PICK q \in DOMAIN segments : segments[q] = SegmentOf(ds[1], ds[2])
    BY <1>3, <1>4, CutAll
  <1>6. /\ segments[q].startNs = StartUtc(ds[1], ds[2]) /\ segments[q].endNs = EndUtc(ds[1], ds[2])
        /\ segments[q].day = ds[1] /\ segments[q].session = ds[2]
    BY <1>5 DEF SegmentOf
  <1>7. q <= n /\ q \in Nat /\ q >= 1 /\ n \in Nat /\ n \in DOMAIN segments
    BY <1>1, <1>3, <1>6
  <1>8. ASSUME q < n PROVE FALSE
    <2>1. segments[q].endNs <= segments[n].startNs
      BY <1>7, <1>8, CutFollows
    <2>2. segments[n].startNs <= t
      BY <1>1, <1>7
    <2>3. segments[n].startNs \in Int /\ segments[q].endNs \in Int
      <3>1. segments \in Seq(Segment)
        BY DEF CutInv, Segment
      <3>2. segments[n] \in Segment /\ segments[q] \in Segment
        BY <1>7, <3>1
      <3> QED
        BY <3>2 DEF Segment
    <2> QED
      BY <1>3, <1>6, <2>1, <2>2, <2>3
  <1>9. q = n
    BY <1>7, <1>8
  <1>10. SegmentContaining(t) = n /\ n # 0
    BY <1>2, <1>3, <1>6, <1>7, <1>9
  <1> QED
    BY <1>4, <1>6, <1>9, <1>10

\* What segmentContaining returns is live.
LEMMA CutIsLive ==
    ASSUME CalendarInv, CutInv, Served, Regular, NEW t \in Int, SegmentContaining(t) # 0
    PROVE  LET s == SegmentContaining(t)
           IN  <<segments[s].day, segments[s].session>> \in Live(t)
  <1> DEFINE n == Cardinality({p \in DOMAIN segments : segments[p].startNs <= t})
             g == segments[n]
  <1>1. /\ n \in 0 .. Len(segments) /\ Len(segments) \in Nat /\ DOMAIN segments = 1 .. Len(segments)
        /\ \A p \in DOMAIN segments : segments[p].startNs <= t <=> p <= n
    BY BegunFirst
  <1>2. SegmentContaining(t) = n /\ n > 0 /\ t < g.endNs
    BY DEF SegmentContaining, EndsAfter
  <1> HIDE DEF n
  <1>3. n \in DOMAIN segments /\ g.startNs <= t
    BY <1>1, <1>2
  <1>4. Traded(g.day, g.session) /\ g = SegmentOf(g.day, g.session) /\ RecordsOf(g.day, g.session) # {}
    BY <1>3, CutHolds
  <1>5. g.startNs = StartUtc(g.day, g.session) /\ g.endNs = EndUtc(g.day, g.session)
    BY <1>4 DEF SegmentOf
  <1> HIDE DEF g
  <1>6. <<g.day, g.session>> \in TradedSessions
    BY <1>4 DEF TradedSessions, Traded
  <1>7. <<g.day, g.session>> \in Live(t)
    BY <1>2, <1>3, <1>5, <1>6 DEF Live
  <1> QED
    BY <1>2, <1>7 DEF g

\* segmentContaining names the session that contains an instant, and none where there is none.
THEOREM CalendarLiveSessionFound == Spec => []LiveSessionFound
  <1>1. CalendarInv /\ CutInv => LiveSessionFound
    <2> SUFFICES ASSUME CalendarInv, CutInv, Served, Regular, NEW t \in Instants
                 PROVE  LET s == SegmentContaining(t)
                        IN  Live(t) = IF s = 0 THEN {} ELSE {<<segments[s].day, segments[s].session>>}
      BY DEF LiveSessionFound
    <2>1. t \in Int
      <3>1. PICK ds \in TradedSessions : t \in StartUtc(ds[1], ds[2]) - 1 .. EndUtc(ds[1], ds[2])
        BY DEF Instants
      <3> QED
        BY <3>1
    <2>2. \A ds \in Live(t) : LET s == SegmentContaining(t)
                              IN  s # 0 /\ ds = <<segments[s].day, segments[s].session>>
      BY <2>1, LiveIsCut
    <2>3. LET s == SegmentContaining(t)
          IN  s # 0 => <<segments[s].day, segments[s].session>> \in Live(t)
      BY <2>1, CutIsLive
    <2> QED
      BY <2>2, <2>3
  <1> QED
    BY <1>1, CalendarInvariant, CalendarCutInvariant, PTL
=============================================================================
