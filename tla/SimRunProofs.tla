----------------------------- MODULE SimRunProofs -----------------------------
(***************************************************************************)
(* Proofs about SimRun, its two commands and the run log, for any number of *)
(* sim processes and pool threads, any input and any store.                 *)
(***************************************************************************)
EXTENDS SimRun, SequenceTheorems, FiniteSetTheorems, IntegerLemmas

-----------------------------------------------------------------------------
(* The run log. *)

\* What one process does with its line.
LogMove(p) == (\E ok \in BOOLEAN : Finish(p, ok)) \/ AppendLine(p) \/ CutShort(p) \/ Kill(p)

\* An empty log, and processes that have their line before them.
LEMMA LogInit == InitRunLog => LogInv
  BY DEF InitRunLog, LogInv, LinesApart

\* A process that goes on to log, or ends, leaves the log alone.
LEMMA FinishLog == ASSUME LogInv, NEW p \in Sim, NEW ok \in BOOLEAN, Finish(p, ok) PROVE LogInv'
  <1>1. AfterCommand(ok) \subseteq {"log", "unlogged", "failed"}
    BY DEF AfterCommand
  <1>2. PICK s \in {"log", "unlogged", "failed"} : sim' = [sim EXCEPT ![p] = s]
    BY <1>1 DEF Finish
  <1>3. sim[p] = "run" /\ UNCHANGED <<left, log, shown>>
    BY DEF Finish
  <1> QED
    BY <1>2, <1>3 DEF LogInv, LinesApart

\* A killed process writes no more.
LEMMA KillLog == ASSUME LogInv, NEW p \in Sim, Kill(p) PROVE LogInv'
  BY DEF LogInv, LinesApart, Kill

\* Pieces behind the end of the file leave the earlier ones where they are.
LEMMA Appended ==
    ASSUME NEW S, NEW s \in Seq(S), NEW t \in Seq(S)
    PROVE  /\ s \o t \in Seq(S) /\ Len(s \o t) = Len(s) + Len(t)
           /\ \A k \in 1 .. Len(s) : (s \o t)[k] = s[k]
           /\ \A k \in 1 .. Len(t) : (s \o t)[Len(s) + k] = t[k]
  OBVIOUS

\* A slice of a sequence.
LEMMA Slice ==
    ASSUME NEW S, NEW s \in Seq(S), NEW a \in 1 .. Len(s) + 1, NEW b \in a - 1 .. Len(s)
    PROVE  /\ SubSeq(s, a, b) \in Seq(S) /\ Len(SubSeq(s, a, b)) = b - a + 1
           /\ \A i \in 1 .. b - a + 1 : SubSeq(s, a, b)[i] = s[a + i - 1]
  BY SubSeqProperties

\* Every piece is some process's.
LEMMA PieceOf == ASSUME LogInv, NEW k \in DOMAIN log PROVE log[k].of \in Sim
  <1> DEFINE Piece == [of : Sim, last : BOOLEAN]
  <1>1. \A piece \in Piece : piece.of \in Sim
    OBVIOUS
  <1>2. log \in Seq(Piece)
    BY DEF LogInv
  <1> HIDE DEF Piece
  <1>3. log[k] \in Piece
    BY <1>2
  <1> QED
    BY <1>1, <1>3

\* A line comes with its opening right before its end, whatever the log ended with.
LEMMA AppendLineLog == ASSUME LogInv, NEW p \in Sim, AppendLine(p) PROVE LogInv'
  <1> DEFINE Piece == [of : Sim, last : BOOLEAN]
             n == Len(log)
  <1>1. /\ log \in Seq(Piece) /\ left[p] = Line(p) /\ sim[p] = "log"
        /\ sim \in [Sim -> {"run", "log", "exited", "unlogged", "failed", "killed"}] /\ DOMAIN left = Sim
    BY DEF LogInv, AppendLine
  <1>2. /\ Line(p) \in Seq(Piece) /\ Len(Line(p)) = 2
        /\ Line(p)[1] = Opening(p) /\ Line(p)[2] = Closing(p)
        /\ ~Opening(p).last /\ Closing(p).last /\ Closing(p).of = p
    BY DEF Line, Opening, Closing
  <1>3. log' = log \o Line(p) /\ left' = [left EXCEPT ![p] = <<>>]
    <2>1. OneWrite(p) = Line(p) /\ SubSeq(Line(p), Len(Line(p)) + 1, Len(Line(p))) = <<>>
      BY <1>1, <1>2 DEF OneWrite
    <2> QED
      BY <1>1, <2>1 DEF AppendLine
  <1>4. sim' = [sim EXCEPT ![p] = "exited"] /\ UNCHANGED shown
    BY <1>1, <1>3 DEF AppendLine
  <1>5. /\ log' \in Seq(Piece) /\ Len(log') = n + 2 /\ n \in Nat
        /\ \A k \in 1 .. n : log'[k] = log[k]
        /\ log'[n + 1] = Opening(p) /\ log'[n + 2] = Closing(p)
    <2> HIDE DEF Piece
    <2>1. log \in Seq(Piece) /\ Line(p) \in Seq(Piece) /\ log' = log \o Line(p)
      BY <1>1, <1>2, <1>3
    <2>2. /\ log' \in Seq(Piece) /\ Len(log') = n + Len(Line(p)) /\ n \in Nat
          /\ \A k \in 1 .. n : log'[k] = log[k]
          /\ \A k \in 1 .. Len(Line(p)) : log'[n + k] = Line(p)[k]
      BY <2>1, Appended
    <2>3. log'[n + 1] = Line(p)[1] /\ log'[n + 2] = Line(p)[2]
      BY <1>2, <2>2
    <2> QED
      BY <1>2, <2>2, <2>3
  <1>6. \A k \in DOMAIN log' : k \in 1 .. n \/ k = n + 1 \/ k = n + 2
    BY <1>5
  <1>7. DOMAIN log = 1 .. n
    BY <1>1
  <1> HIDE DEF n
  <1>8. LinesApart'
    <2> SUFFICES ASSUME NEW k \in DOMAIN log', log'[k].last
                 PROVE  k > 1 /\ log'[k - 1] = Opening(log'[k].of)
      BY DEF LinesApart, Opening
    <2>1. CASE k \in 1 .. n
      <3>1. k > 1 /\ log[k - 1] = Opening(log[k].of)
        BY <1>5, <1>7, <2>1 DEF LogInv, LinesApart
      <3> QED
        BY <1>5, <2>1, <3>1
    <2>2. CASE k = n + 1
      BY <1>2, <1>5, <2>2
    <2>3. CASE k = n + 2
      BY <1>2, <1>5, <2>3
    <2> QED
      BY <1>6, <2>1, <2>2, <2>3
  <1>9. ASSUME NEW k \in DOMAIN log', log'[k].last PROVE sim'[log'[k].of] = "exited"
    <2>1. CASE k \in 1 .. n
      <3>1. log'[k] = log[k]
        BY <1>5, <2>1
      <3>2. log[k].last /\ k \in DOMAIN log
        BY <1>7, <1>9, <2>1, <3>1, Zenon
      <3>3. sim[log[k].of] = "exited"
        BY <3>2 DEF LogInv
      <3>4. log[k].of \in Sim
        BY <3>2, PieceOf
      <3> QED
        BY <1>1, <1>4, <3>1, <3>3, <3>4
    <2>2. CASE k = n + 1
      BY <1>2, <1>5, <1>9, <2>2
    <2>3. CASE k = n + 2
      BY <1>1, <1>2, <1>4, <1>5, <2>3
    <2> QED
      BY <1>6, <2>1, <2>2, <2>3
  <1>10. shown' \subseteq Sim /\ \A q \in shown' : sim'[q] = "exited"
    BY <1>1, <1>4 DEF LogInv
  <1>11. sim' \in [Sim -> {"run", "log", "exited", "unlogged", "failed", "killed"}]
    BY <1>1, <1>4
  <1>12. DOMAIN left' = Sim /\ \A q \in Sim : sim'[q] \in {"run", "log"} => left'[q] = Line(q)
    BY <1>1, <1>3, <1>4 DEF LogInv
  <1> QED
    BY <1>5, <1>8, <1>9, <1>10, <1>11, <1>12 DEF LogInv, Line, Opening, Closing

\* A full disk leaves nothing of a line, or its opening without its end.
LEMMA CutShortLog == ASSUME LogInv, NEW p \in Sim, CutShort(p) PROVE LogInv'
  <1> DEFINE Piece == [of : Sim, last : BOOLEAN]
             n == Len(log)
  <1>1. /\ log \in Seq(Piece) /\ left[p] = Line(p) /\ sim[p] = "log"
        /\ sim \in [Sim -> {"run", "log", "exited", "unlogged", "failed", "killed"}] /\ DOMAIN left = Sim
    BY DEF LogInv, CutShort
  <1>2. /\ Line(p) \in Seq(Piece) /\ Len(Line(p)) = 2
        /\ Line(p)[1] = Opening(p) /\ ~Opening(p).last
    BY DEF Line, Opening, Closing
  <1>3. PICK part \in Prefixes(Line(p)) \ {Line(p)} :
            /\ log' = log \o part
            /\ left' = [left EXCEPT ![p] = SubSeq(@, Len(part) + 1, Len(@))]
    BY <1>1 DEF CutShort
  <1>4. sim' = [sim EXCEPT ![p] = "exited"] /\ UNCHANGED shown
    BY DEF CutShort
  <1>5. part \in Seq(Piece) /\ Len(part) < 2 /\ \A k \in 1 .. Len(part) : part[k] = Opening(p)
    <2>1. PICK m \in 0 .. 2 : part = SubSeq(Line(p), 1, m)
      BY <1>2, <1>3 DEF Prefixes
    <2>2. part \in Seq(Piece) /\ Len(part) = m /\ \A k \in 1 .. m : part[k] = Line(p)[k]
      <3> HIDE DEF Piece
      <3>1. /\ part \in Seq(Piece) /\ Len(part) = m - 1 + 1
            /\ \A k \in 1 .. m - 1 + 1 : part[k] = Line(p)[1 + k - 1]
        BY <1>2, <2>1, Slice
      <3> QED
        BY <3>1
    <2>3. m # 2
      <3>1. m = 2 => part = Line(p)
        BY <1>2, <2>2, SeqEqual
      <3> QED
        BY <1>3, <3>1
    <2> QED
      BY <1>2, <2>2, <2>3
  <1>6. /\ log' \in Seq(Piece) /\ Len(log') = n + Len(part) /\ n \in Nat
        /\ \A k \in 1 .. n : log'[k] = log[k]
        /\ \A k \in 1 .. Len(part) : log'[n + k] = part[k]
    BY <1>1, <1>3, <1>5, Appended, LenProperties
  <1>7. DOMAIN log = 1 .. n
    BY <1>1
  <1> HIDE DEF n
  <1>8. ASSUME NEW k \in DOMAIN log', log'[k].last PROVE k \in 1 .. n
    <2>1. k \in 1 .. n + Len(part)
      BY <1>6
    <2>2. ASSUME k > n PROVE FALSE
      <3>1. k = n + 1 /\ 1 \in 1 .. Len(part)
        BY <1>5, <1>6, <2>1, <2>2
      <3>2. log'[k] = Opening(p)
        BY <1>5, <1>6, <3>1
      <3> QED
        BY <1>2, <1>8, <3>2
    <2> QED
      BY <1>6, <2>1, <2>2
  <1>9. LinesApart'
    <2> SUFFICES ASSUME NEW k \in DOMAIN log', log'[k].last
                 PROVE  k > 1 /\ log'[k - 1] = Opening(log'[k].of)
      BY DEF LinesApart, Opening
    <2>1. k \in 1 .. n
      BY <1>8
    <2>2. k > 1 /\ log[k - 1] = Opening(log[k].of)
      BY <1>6, <1>7, <2>1 DEF LogInv, LinesApart
    <2> QED
      BY <1>6, <2>1, <2>2
  <1>10. ASSUME NEW k \in DOMAIN log', log'[k].last PROVE sim'[log'[k].of] = "exited"
    <2>1. k \in 1 .. n
      BY <1>8, <1>10
    <2>2. log'[k] = log[k]
      BY <1>6, <2>1
    <2>3. log[k].last /\ k \in DOMAIN log
      BY <1>7, <1>10, <2>1, <2>2
    <2>4. sim[log[k].of] = "exited"
      BY <2>3 DEF LogInv
    <2>5. log[k].of \in Sim
      BY <2>3, PieceOf
    <2> QED
      BY <1>1, <1>4, <2>2, <2>4, <2>5
  <1>11. shown' \subseteq Sim /\ \A q \in shown' : sim'[q] = "exited"
    BY <1>1, <1>4 DEF LogInv
  <1>12. sim' \in [Sim -> {"run", "log", "exited", "unlogged", "failed", "killed"}]
    BY <1>1, <1>4
  <1>13. DOMAIN left' = Sim /\ \A q \in Sim : sim'[q] \in {"run", "log"} => left'[q] = Line(q)
    BY <1>1, <1>3, <1>4 DEF LogInv
  <1> QED
    BY <1>6, <1>9, <1>10, <1>11, <1>12, <1>13 DEF LogInv, Line, Opening, Closing

\* A line that the page can read has its end in the file.
LEMMA PollLogKeeps == ASSUME LogInv, PollLog PROVE LogInv'
  <1>1. ASSUME NEW p \in Sim, Parses(p) PROVE sim[p] = "exited"
    <2>1. PICK k \in DOMAIN log : k > 1 /\ SubSeq(log, k - 1, k) = Line(p)
      BY <1>1 DEF Parses
    <2>2. log \in Seq([of : Sim, last : BOOLEAN]) /\ k - 1 \in 1 .. Len(log) /\ k \in 1 .. Len(log)
      BY <2>1 DEF LogInv
    <2>3. SubSeq(log, k - 1, k)[2] = log[k]
      <3> DEFINE a == k - 1
      <3>1. a \in 1 .. Len(log) + 1 /\ k \in a - 1 .. Len(log) /\ 2 \in 1 .. k - a + 1 /\ a + 2 - 1 = k
        BY <2>2
      <3> HIDE DEF a
      <3>2. SubSeq(log, a, k)[2] = log[a + 2 - 1]
        BY <2>2, <3>1, Slice
      <3> QED
        BY <3>1, <3>2 DEF a
    <2>4. Line(p)[2] = Closing(p) /\ Closing(p).last /\ Closing(p).of = p
      BY DEF Line, Closing
    <2>5. log[k].last /\ log[k].of = p
      BY <2>1, <2>3, <2>4, Zenon
    <2> QED
      BY <2>5, Zenon DEF LogInv
  <1>2. shown' = Readable /\ UNCHANGED <<sim, left, log>>
    BY DEF PollLog
  <1> QED
    BY <1>1, <1>2 DEF LogInv, LinesApart, Readable

\* The invariant speaks of the log, the processes and the page only.
LEMMA LogUnchanged == ASSUME LogInv, UNCHANGED logVars PROVE LogInv'
  BY DEF LogInv, LinesApart, logVars

\* Every step of one process at the log keeps the invariant.
LEMMA LogMoves == ASSUME LogInv, NEW p \in Sim, LogMove(p) PROVE LogInv'
  BY FinishLog, AppendLineLog, CutShortLog, KillLog DEF LogMove

-----------------------------------------------------------------------------
(* The loop of a command. *)

\* No loop is running and no thread has an index.
LEMMA LoopInit == InitCommand => LoopInv
  <1> SUFFICES ASSUME InitCommand PROVE LoopInv
    OBVIOUS
  <1>1. status = "idle" /\ todo = {} /\ busy = {} /\ step = "begin" /\ verdict = "none" /\ opened \in BOOLEAN
    BY DEF InitCommand, Init
  <1>2. at \in [Thread -> Int] /\ \A t \in Thread : at[t] = Nothing
    BY DEF InitCommand, Nothing
  <1> QED
    BY <1>1, <1>2 DEF LoopInv

\* Outside the pool only the calling thread moves.
LEMMA LoopAlone ==
    ASSUME LoopInv, UNCHANGED <<loopVars, at>>, step # "pool", step' # "pool", opened' \in BOOLEAN,
           verdict' \in {"none", "ok", "failed", "killed"},
           verdict' \in {"ok", "failed"} <=> step' = "end"
    PROVE  LoopInv'
  BY DEF LoopInv, loopVars, Nothing

\* A killed process does nothing more.
LEMMA LoopKilled ==
    ASSUME LoopInv, UNCHANGED <<loopVars, step, at, opened>>, verdict = "none", verdict' \in {"none", "killed"}
    PROVE  LoopInv'
  BY DEF LoopInv, loopVars, Nothing

\* The invariant of the loop speaks of nothing else.
LEMMA LoopUnchanged ==
    ASSUME LoopInv, UNCHANGED <<loopVars, step, at, opened, verdict>>
    PROVE  LoopInv'
  BY DEF LoopInv, loopVars, Nothing

\* The loop starts with all its indices to do and every thread idle.
LEMMA LoopRuns ==
    ASSUME LoopInv, NEW n \in Nat, NEW next, RunPool(n, next), step \notin {"pool", "end"},
           next \notin {"pool", "end"}, UNCHANGED <<at, opened, verdict>>
    PROVE  LoopInv'
  <1>1. /\ status = "idle" /\ busy = {} /\ \A t \in Thread : at[t] = Nothing
        /\ at' \in [Thread -> Int] /\ opened' \in BOOLEAN
        /\ verdict' \in {"none", "ok", "failed", "killed"} /\ verdict' \notin {"ok", "failed"}
    BY DEF LoopInv
  <1>2. CASE n = 0
    <2>1. step' = next /\ UNCHANGED <<status, todo, busy>>
      BY <1>2 DEF RunPool, loopVars
    <2> QED
      BY <1>1, <2>1 DEF LoopInv
  <1>3. CASE n # 0
    <2>1. step' = "pool" /\ status' = "running" /\ todo' = 0 .. n - 1 /\ busy' = {}
      BY <1>3 DEF RunPool, Begin
    <2> QED
      BY <1>1, <2>1 DEF LoopInv
  <1> QED
    BY <1>2, <1>3

\* The loop returns when no thread has an index.
LEMMA LoopReturns ==
    ASSUME LoopInv, NEW next, next \notin {"pool", "end"}, PoolReturns(next)
    PROVE  LoopInv'
  BY DEF LoopInv, PoolReturns, Return, Nothing, Live

\* A thread takes an index that no other has.
LEMMA LoopTakes ==
    ASSUME LoopInv, NEW t \in Thread, NEW k, TakeIndex(t, k)
    PROVE  LoopInv'
  <1>1. status = "running" /\ k \in todo /\ at[t] = Nothing /\ verdict = "none"
    BY DEF TakeIndex, Take, Live
  <1>2. todo' = todo \ {k} /\ busy' = busy \cup {k} /\ at' = [at EXCEPT ![t] = k]
    BY DEF TakeIndex, Take
  <1>3. UNCHANGED <<status, step, opened, verdict>>
    BY DEF TakeIndex, Take
  <1>4. k \in Nat /\ k \notin busy /\ k # Nothing
    BY <1>1 DEF LoopInv, Nothing
  <1>5. at' \in [Thread -> Int] /\ at'[t] = k /\ \A u \in Thread \ {t} : at'[u] = at[u]
    BY <1>2, <1>4 DEF LoopInv
  <1>6. \A u \in Thread : at'[u] # Nothing => at'[u] \in busy'
    BY <1>2, <1>5 DEF LoopInv
  <1>7. ASSUME NEW u \in Thread, NEW w \in Thread, at'[u] # Nothing, at'[u] = at'[w] PROVE u = w
    <2>1. \A v \in Thread : at[v] # k
      BY <1>4 DEF LoopInv
    <2>2. CASE u # t /\ w # t
      BY <1>5, <1>7, <2>2 DEF LoopInv
    <2> QED
      BY <1>5, <1>7, <2>1, <2>2
  <1>8. todo' \subseteq Nat /\ busy' \subseteq Nat /\ todo' \cap busy' = {}
    BY <1>1, <1>2, <1>4 DEF LoopInv
  <1>9. status' = "running" /\ step' = "pool" /\ verdict' = "none" /\ opened' \in BOOLEAN
    BY <1>1, <1>3 DEF LoopInv
  <1> QED
    BY <1>5, <1>6, <1>7, <1>8, <1>9 DEF LoopInv

\* A thread gives up its index, and only its own.
LEMMA LoopLeaves ==
    ASSUME LoopInv, NEW t \in Thread, at[t] # Nothing, LeaveIndex(t)
    PROVE  LoopInv'
  <1>1. status = "running" /\ busy' = busy \ {at[t]} /\ at' = [at EXCEPT ![t] = Nothing]
    BY DEF LeaveIndex, Complete
  <1>2. UNCHANGED <<status, todo, step, opened, verdict>>
    BY DEF LeaveIndex, Complete
  <1>3. at' \in [Thread -> Int] /\ at'[t] = Nothing /\ \A u \in Thread \ {t} : at'[u] = at[u]
    BY <1>1 DEF LoopInv, Nothing
  <1>4. \A u \in Thread : at'[u] # Nothing => at'[u] \in busy'
    BY <1>1, <1>3 DEF LoopInv
  <1>5. \A u, w \in Thread : at'[u] # Nothing /\ at'[u] = at'[w] => u = w
    BY <1>3 DEF LoopInv
  <1>6. todo' \subseteq Nat /\ busy' \subseteq Nat /\ todo' \cap busy' = {}
    BY <1>1, <1>2 DEF LoopInv
  <1>7. status' = "running" /\ step' = "pool" /\ opened' \in BOOLEAN
    BY <1>1, <1>2 DEF LoopInv
  <1>8. verdict' \in {"none", "ok", "failed", "killed"} /\ (verdict' \in {"ok", "failed"} <=> step' = "end")
    BY <1>2 DEF LoopInv
  <1> QED
    BY <1>3, <1>4, <1>5, <1>6, <1>7, <1>8 DEF LoopInv

-----------------------------------------------------------------------------
(* Snapshot. *)

\* The timestamps are a sequence of times.
LEMMA StampsTyped ==
    ASSUME lines \in UNION {[1 .. n -> StampLines] : n \in 0 .. MaxStamps}
    PROVE  Stamps \in Seq(Times)
  <1>1. PICK n \in 0 .. MaxStamps : lines \in [1 .. n -> StampLines]
    OBVIOUS
  <1>2. Len(lines) = n /\ n \in Nat
    BY <1>1, MaxStampsNat
  <1>3. \A k \in 1 .. n : lines[k].kind = "stamp" => lines[k].ts \in Times
    BY <1>1 DEF StampLines
  <1> DEFINE keep == [k \in 1 .. n |-> lines[k].kind = "stamp"]
             T == Times \cup {Never}
             x == [k \in 1 .. n |-> lines[k].ts]
  <1>4. keep \in [1 .. n -> BOOLEAN] /\ x \in [1 .. n -> T]
    BY <1>1 DEF StampLines
  <1>5. \A k \in 1 .. n : keep[k] => x[k] \in Times
    BY <1>3
  <1> DEFINE Loop(g) == [k \in 0 .. Len(lines) |->
                            IF k = 0 THEN <<>>
                            ELSE IF lines[k].kind = "stamp" THEN Append(g[k - 1], lines[k].ts) ELSE g[k - 1]]
  <1>6. ASSUME NEW g PROVE g = Loop(g) <=> Gathers(g, n, x, keep)
    <2>1. \A k \in 0 .. n : k # 0 => keep[k] = (lines[k].kind = "stamp") /\ x[k] = lines[k].ts
      OBVIOUS
    <2> HIDE DEF keep, x
    <2>2. ASSUME NEW k \in 0 .. n
          PROVE  (IF k = 0 THEN <<>>
                  ELSE IF lines[k].kind = "stamp" THEN Append(g[k - 1], lines[k].ts) ELSE g[k - 1]) =
                 (IF k = 0 THEN <<>> ELSE IF keep[k] THEN Append(g[k - 1], x[k]) ELSE g[k - 1])
      BY <2>1
    <2>3. Loop(g) = [k \in 0 .. n |-> IF k = 0 THEN <<>>
                                    ELSE IF keep[k] THEN Append(g[k - 1], x[k]) ELSE g[k - 1]]
      BY <1>2, <2>2
    <2> HIDE DEF Loop
    <2> QED
      BY <2>3 DEF Gathers
  <1>7. StampsTo = CHOOSE g : g = Loop(g)
    BY DEF StampsTo
  <1> HIDE DEF Loop, keep, x, T
  <1>8. PICK f : Gathers(f, n, x, keep)
    BY <1>2, <1>4, FilterExists
  <1>9. StampsTo = Loop(StampsTo)
    BY <1>6, <1>7, <1>8, Zenon
  <1>10. Gathers(StampsTo, n, x, keep)
    BY <1>6, <1>9
  <1>11. StampsTo[n] \in Seq(Times)
    BY <1>2, <1>4, <1>5, <1>10, FilterTyped
  <1> QED
    BY <1>2, <1>11 DEF Stamps

\* What is read from the input stays as long as the input does.
InputKept == UNCHANGED <<lines, since>>

\* What a snapshot reads is fixed by its input.
LEMMA StampsKept ==
    ASSUME InputKept
    PROVE  /\ Stamps' = Stamps /\ (StampsParse' <=> StampsParse) /\ NInstruments' = NInstruments
           /\ \A ts : FromScratch(ts)' = FromScratch(ts)
  BY DEF InputKept, Stamps, StampsTo, StampsParse, NInstruments, FromScratch, HasPrice

\* A store has finitely many instruments.
LEMMA InstrumentsTyped ==
    ASSUME SnapshotInv
    PROVE  NInstruments \in Nat
  <1>1. PICK n \in 0 .. Width + 1 : since \in [0 .. n - 1 -> {1, Never}]
    BY DEF SnapshotInv
  <1>2. DOMAIN since = 0 .. n - 1 /\ n \in Nat
    BY <1>1, WidthPositive
  <1>3. IsFiniteSet(0 .. n - 1)
    BY <1>2, FS_Interval
  <1> QED
    BY <1>2, <1>3, FS_CardinalityType DEF NInstruments

\* Every row taken from scratch is a row.
LEMMA ScratchTyped ==
    ASSUME NEW ts \in Times
    PROVE  FromScratch(ts) \in [0 .. Width - 1 -> Times \cup {NaN}]
  BY DEF FromScratch

\* Nothing is read, opened or written.
LEMMA SnapshotStarts == ASSUME InitSnapshot PROVE SnapshotInv
  <1>1. LoopInv
    BY LoopInit DEF InitSnapshot
  <1>2. step = "begin" /\ ~opened /\ out = <<>> /\ verdict = "none"
    BY DEF InitSnapshot, InitCommand
  <1>3. lines \in UNION {[1 .. n -> StampLines] : n \in 0 .. MaxStamps}
    BY DEF InitSnapshot
  <1>4. \E n \in 0 .. Width + 1 : since \in [0 .. n - 1 -> {1, Never}]
    BY DEF InitSnapshot, InitSnapshotOwn
  <1>5. Stamps \in Seq(Times)
    BY <1>3, StampsTyped
  <1>6. SnapshotsFromScratch /\ out \in Seq([0 .. Width - 1 -> Times \cup {NaN}])
    BY <1>2, <1>5 DEF SnapshotsFromScratch
  <1> QED
    BY <1>1, <1>2, <1>3, <1>4, <1>6 DEF SnapshotInv

\* A step that ends the command or goes on to a step without a row in the making.
LEMMA SnapshotGoesOn ==
    ASSUME SnapshotInv, LoopInv', InputKept, UNCHANGED out,
           step' \in {"begin", "open", "row", "end"},
           step' = "begin" => ~opened',
           opened' \/ step' \notin {"begin", "end"} => StampsParse,
           verdict' = "ok" => Len(out) = Len(Stamps)
    PROVE  SnapshotInv'
  <1>1. SnapshotsFromScratch'
    BY StampsKept DEF SnapshotInv, SnapshotsFromScratch
  <1> QED
    BY <1>1, StampsKept DEF SnapshotInv, InputKept

\* A refusal comes before the file is opened.
LEMMA SnapshotRefuses == ASSUME SnapshotInv, Refuse, UNCHANGED snapshotOwn PROVE SnapshotInv'
  <1>1. step = "begin" /\ step' = "end" /\ verdict' = "failed"
    BY DEF Refuse, Rejected, End
  <1>2. UNCHANGED <<loopVars, at, lines, opened, out>> /\ InputKept
    BY DEF Refuse, Rejected, snapshotOwn, InputKept
  <1>3. opened \in BOOLEAN /\ ~opened
    BY <1>1 DEF SnapshotInv, LoopInv
  <1>4. LoopInv'
    BY <1>1, <1>2, <1>3, LoopAlone DEF SnapshotInv
  <1> QED
    BY <1>1, <1>2, <1>3, <1>4, SnapshotGoesOn

\* Input that is accepted parses.
LEMMA SnapshotParses == ASSUME SnapshotInv, ParseTimestamps PROVE SnapshotInv'
  <1>1. step = "begin" /\ verdict = "none" /\ opened \in BOOLEAN /\ ~opened /\ LoopInv
    BY DEF ParseTimestamps, Live, SnapshotInv, LoopInv
  <1>2. UNCHANGED <<loopVars, at, lines, opened, out>> /\ InputKept
    BY DEF ParseTimestamps, Rejected, snapshotOwn, InputKept
  <1>3. \/ StampsParse /\ step' = "open" /\ verdict' = "none"
        \/ step' = "end" /\ verdict' = "failed"
    BY <1>1 DEF ParseTimestamps, Rejected, End
  <1>4. LoopInv'
    BY <1>1, <1>2, <1>3, LoopAlone
  <1> QED
    BY <1>1, <1>2, <1>3, <1>4, SnapshotGoesOn

\* The file is emptied only after that.
LEMMA SnapshotOpens == ASSUME SnapshotInv, OpenRows PROVE SnapshotInv'
  <1>1. step = "open" /\ verdict = "none" /\ opened \in BOOLEAN /\ LoopInv /\ StampsParse
    BY DEF OpenRows, Live, SnapshotInv, LoopInv
  <1>2. UNCHANGED <<loopVars, at, out>> /\ InputKept
    BY DEF OpenRows, snapshotOwn, InputKept
  <1>3. \/ opened' = TRUE /\ step' = "row" /\ verdict' = "none"
        \/ opened' = opened /\ step' = "end" /\ verdict' = "failed"
    BY <1>1 DEF OpenRows, End
  <1>4. LoopInv'
    BY <1>1, <1>2, <1>3, LoopAlone
  <1> QED
    BY <1>1, <1>2, <1>3, <1>4, SnapshotGoesOn

\* The command ends with a row per timestamp, or has failed.
LEMMA SnapshotCloses == ASSUME SnapshotInv, CloseRows PROVE SnapshotInv'
  <1>1. step = "row" /\ verdict = "none" /\ opened \in BOOLEAN /\ LoopInv /\ StampsParse
    BY DEF CloseRows, Live, SnapshotInv, LoopInv
  <1>2. UNCHANGED <<loopVars, at, out, opened>> /\ InputKept /\ Len(out) = Len(Stamps)
    BY DEF CloseRows, snapshotOwn, InputKept
  <1>3. step' = "end" /\ verdict' \in {"ok", "failed"}
    BY DEF CloseRows, End
  <1>4. LoopInv'
    BY <1>1, <1>2, <1>3, LoopAlone
  <1> QED
    BY <1>1, <1>2, <1>3, <1>4, SnapshotGoesOn

\* A step of a row in the making.
LEMMA SnapshotRowMoves ==
    ASSUME SnapshotInv, LoopInv', InputKept, UNCHANGED <<out, verdict>>, verdict # "ok",
           step \in {"row", "pool", "append"}, step' \in {"pool", "append"},
           step' = "pool" => todo' \cup busy' \subseteq (0 .. NInstruments - 1) \cap (0 .. Width - 1),
           Len(out) < Len(Stamps),
           row' = [id \in 0 .. Width - 1 |-> IF id \in todo' \cup busy' THEN NaN ELSE FromScratch(Current)[id]]
    PROVE  SnapshotInv'
  <1>1. SnapshotsFromScratch'
    BY StampsKept DEF SnapshotInv, SnapshotsFromScratch
  <1>2. Current' = Current /\ FromScratch(Current)' = FromScratch(Current)
    BY StampsKept DEF Current, InputKept, FromScratch, HasPrice, NInstruments
  <1>3. RowSoFar'
    BY <1>2 DEF RowSoFar
  <1> QED
    BY <1>1, <1>3, StampsKept DEF SnapshotInv, InputKept

\* The fill: every cell is NaN and every instrument of the row to do.
LEMMA SnapshotBegins == ASSUME SnapshotInv, BeginRow PROVE SnapshotInv'
  <1> DEFINE m == IF NInstruments < Width THEN NInstruments ELSE Width
  <1>1. step = "row" /\ verdict = "none" /\ status = "idle" /\ todo = {} /\ busy = {} /\ LoopInv
    BY DEF BeginRow, Live, SnapshotInv, LoopInv
  <1>2. NInstruments \in Nat /\ Width \in Nat /\ m \in Nat /\ m <= NInstruments /\ m <= Width
    BY InstrumentsTyped, WidthPositive
  <1>3. \A id \in 0 .. Width - 1 : id \notin 0 .. m - 1 => ~(id < NInstruments)
    BY <1>2
  <1>4. RunPool(m, "append") /\ UNCHANGED <<at, opened, out, verdict>> /\ InputKept /\ row' = Filled
    BY DEF BeginRow, InputKept
  <1> HIDE DEF m
  <1>5. \/ step' = "append" /\ todo' = {} /\ busy' = {} /\ 0 .. m - 1 = {}
        \/ step' = "pool" /\ todo' = 0 .. m - 1 /\ busy' = {}
    BY <1>1, <1>2, <1>4 DEF RunPool, Begin, loopVars
  <1>6. LoopInv'
    BY <1>1, <1>2, <1>4, LoopRuns
  <1>7. todo' \cup busy' = 0 .. m - 1
    BY <1>5
  <1>8. row' = [id \in 0 .. Width - 1 |-> IF id \in todo' \cup busy' THEN NaN ELSE FromScratch(Current)[id]]
    BY <1>3, <1>4, <1>7 DEF Filled, FromScratch
  <1>9. todo' \cup busy' \subseteq (0 .. NInstruments - 1) \cap (0 .. Width - 1)
    BY <1>2, <1>7
  <1>10. Len(out) < Len(Stamps)
    BY DEF BeginRow
  <1> QED
    BY <1>1, <1>4, <1>5, <1>6, <1>8, <1>9, <1>10, SnapshotRowMoves

\* An instrument that is being looked up is still without its cell.
LEMMA SnapshotTakes ==
    ASSUME SnapshotInv, NEW t \in Thread, NEW id, TakeInstrument(t, id)
    PROVE  SnapshotInv'
  <1>1. TakeIndex(t, id) /\ UNCHANGED <<out, verdict, row, step>> /\ InputKept /\ verdict = "none"
    BY DEF TakeInstrument, TakeIndex, snapshotOwn, InputKept, Live
  <1>2. status = "running" /\ step = "pool" /\ LoopInv
    BY <1>1 DEF TakeIndex, Take, SnapshotInv, LoopInv
  <1>3. todo' \cup busy' = todo \cup busy
    BY <1>1 DEF TakeIndex, Take
  <1>4. LoopInv'
    BY <1>1, <1>2, LoopTakes
  <1> QED
    BY <1>1, <1>2, <1>3, <1>4, SnapshotRowMoves DEF SnapshotInv, RowSoFar

\* A lookup sets the cell of its instrument for the current timestamp.
LEMMA SnapshotLooksUp ==
    ASSUME SnapshotInv, NEW t \in Thread, LookUp(t)
    PROVE  SnapshotInv'
  <1> DEFINE id == at[t]
  <1>1. LeaveIndex(t) /\ at[t] # Nothing /\ verdict = "none" /\ LoopInv
    BY DEF LookUp, Live, SnapshotInv
  <1>2. UNCHANGED <<out, verdict, step>> /\ InputKept
    BY DEF LookUp, LeaveIndex, InputKept
  <1>3. status = "running" /\ step = "pool" /\ todo' = todo /\ busy' = busy \ {id} /\ id \in busy /\ id \notin todo
    BY <1>1 DEF LeaveIndex, Complete, LoopInv
  <1>4. LoopInv'
    BY <1>1, LoopLeaves
  <1>5. /\ todo \cup busy \subseteq (0 .. NInstruments - 1) \cap (0 .. Width - 1)
        /\ Len(out) < Len(Stamps)
        /\ row = [i \in 0 .. Width - 1 |-> IF i \in todo \cup busy THEN NaN ELSE FromScratch(Current)[i]]
    BY <1>3 DEF SnapshotInv, RowSoFar
  <1>6. row' = IF HasPrice(id, Current) THEN [row EXCEPT ![id] = Current] ELSE row
    BY DEF LookUp
  <1> HIDE DEF id
  <1>7. id \in 0 .. Width - 1 /\ id < NInstruments
    BY <1>3, <1>5, InstrumentsTyped
  <1>8. FromScratch(Current)[id] = IF HasPrice(id, Current) THEN Current ELSE NaN
    BY <1>7 DEF FromScratch
  <1>9. row' = [i \in 0 .. Width - 1 |-> IF i \in todo' \cup busy' THEN NaN ELSE FromScratch(Current)[i]]
    BY <1>3, <1>5, <1>6, <1>7, <1>8
  <1> QED
    BY <1>1, <1>2, <1>3, <1>4, <1>5, <1>9, SnapshotRowMoves

\* When the loop returns every cell is that of the timestamp.
LEMMA SnapshotReturns ==
    ASSUME SnapshotInv, PoolReturns("append"), UNCHANGED snapshotOwn
    PROVE  SnapshotInv'
  <1>1. /\ step = "pool" /\ step' = "append" /\ verdict = "none"
        /\ UNCHANGED <<todo, busy, out, verdict, row>> /\ InputKept /\ LoopInv
    BY DEF PoolReturns, Return, Live, snapshotOwn, InputKept, SnapshotInv
  <1>2. LoopInv'
    BY <1>1, LoopReturns
  <1> QED
    BY <1>1, <1>2, SnapshotRowMoves DEF SnapshotInv, RowSoFar

\* The row written is that of the next timestamp.
LEMMA SnapshotAppends == ASSUME SnapshotInv, AppendRow PROVE SnapshotInv'
  <1>1. step = "append" /\ verdict = "none" /\ status = "idle" /\ todo = {} /\ busy = {} /\ LoopInv
    BY DEF AppendRow, Live, SnapshotInv, LoopInv
  <1>2. UNCHANGED <<loopVars, at, opened>> /\ InputKept /\ opened \in BOOLEAN
    BY <1>1 DEF AppendRow, snapshotOwn, InputKept, LoopInv
  <1>3. StampsParse /\ Len(out) < Len(Stamps) /\ Stamps \in Seq(Times)
    BY <1>1, StampsTyped DEF SnapshotInv
  <1>4. CASE out' = Append(out, row) /\ step' = "row" /\ UNCHANGED verdict
    <2> DEFINE n == Len(out)
               Row == [0 .. Width - 1 -> Times \cup {NaN}]
    <2>1. out \in Seq(Row) /\ n \in Nat /\ Current = Stamps[n + 1] /\ Current \in Times
      BY <1>3 DEF SnapshotInv, Current
    <2>2. FromScratch(Current) \in Row
      BY <2>1, ScratchTyped
    <2>3. row = FromScratch(Current)
      <3>1. row = [id \in 0 .. Width - 1 |-> FromScratch(Current)[id]]
        BY <1>1 DEF SnapshotInv, RowSoFar
      <3> QED
        BY <2>2, <3>1
    <2> HIDE DEF Row
    <2>4. /\ out' \in Seq(Row) /\ Len(out') = n + 1 /\ DOMAIN out' = 1 .. n + 1
          /\ out'[n + 1] = row /\ \A k \in 1 .. n : out'[k] = out[k]
      BY <1>4, <2>1, <2>2, <2>3, AppendProperties
    <2>5. \A k \in 1 .. n : out[k] = FromScratch(Stamps[k])
      BY <2>1 DEF SnapshotInv, SnapshotsFromScratch
    <2>6. \A k \in 1 .. n + 1 : out'[k] = FromScratch(Stamps[k])
      <3> SUFFICES ASSUME NEW k \in 1 .. n + 1 PROVE out'[k] = FromScratch(Stamps[k])
        OBVIOUS
      <3>1. k \in 1 .. n \/ k = n + 1
        BY <2>1
      <3> QED
        BY <2>1, <2>3, <2>4, <2>5, <3>1
    <2>7. \A k \in 1 .. n + 1 : out'[k] = FromScratch(Stamps[k])'
      BY <1>2, <2>6, StampsKept DEF FromScratch, HasPrice, NInstruments, InputKept
    <2>8. SnapshotsFromScratch'
      BY <1>1, <1>2, <1>3, <1>4, <2>1, <2>4, <2>7, StampsKept DEF SnapshotsFromScratch
    <2>9. LoopInv'
      BY <1>1, <1>2, <1>4, LoopAlone
    <2> QED
      BY <1>2, <1>3, <1>4, <2>4, <2>8, <2>9, StampsKept DEF SnapshotInv, InputKept, Row
  <1>5. CASE End("failed") /\ UNCHANGED out
    <2>1. LoopInv'
      BY <1>1, <1>2, <1>5, LoopAlone DEF End
    <2> QED
      BY <1>2, <1>3, <1>5, <2>1, SnapshotGoesOn DEF End
  <1> QED
    BY <1>4, <1>5 DEF AppendRow

\* The process is killed, or other processes move.
LEMMA SnapshotKilled ==
    ASSUME SnapshotInv, UNCHANGED <<loopVars, step, at, lines, opened, out, snapshotOwn>>,
           UNCHANGED verdict \/ (verdict = "none" /\ verdict' \in {"none", "killed"})
    PROVE  SnapshotInv'
  <1>1. InputKept /\ LoopInv
    BY DEF InputKept, snapshotOwn, SnapshotInv
  <1>2. LoopInv'
    BY <1>1, LoopKilled, LoopUnchanged
  <1>3. SnapshotsFromScratch'
    BY <1>1, StampsKept DEF SnapshotInv, SnapshotsFromScratch
  <1>4. Current' = Current /\ FromScratch(Current)' = FromScratch(Current)
    BY <1>1, StampsKept DEF Current, InputKept, FromScratch, HasPrice, NInstruments
  <1>5. RowSoFar' <=> RowSoFar
    BY <1>4 DEF RowSoFar, snapshotOwn, loopVars
  <1> QED
    BY <1>1, <1>2, <1>3, <1>5, StampsKept DEF SnapshotInv, InputKept, loopVars

\* Every step of snapshot.
LEMMA SnapshotSteps ==
    ASSUME SnapshotInv, SnapshotMain \/ \E t \in Thread : SnapshotThread(t)
    PROVE  SnapshotInv'
  <1>1. CASE SnapshotMain
    BY <1>1, SnapshotRefuses, SnapshotParses, SnapshotOpens, SnapshotBegins, SnapshotReturns,
       SnapshotAppends, SnapshotCloses DEF SnapshotMain
  <1>2. CASE \E t \in Thread : SnapshotThread(t)
    BY <1>2, SnapshotTakes, SnapshotLooksUp DEF SnapshotThread
  <1> QED
    BY <1>1, <1>2

-----------------------------------------------------------------------------
(* Trades: the input and its chunks. *)

\* Pieces of s, each beginning where the one before ends.
Pieces(p, n, s, end) ==
    /\ p = [i \in 1 .. n |-> p[i]] /\ end[0] = 0 /\ end[n] = Len(s)
    /\ \A i \in 0 .. n : end[i] \in 0 .. Len(s)
    /\ \A i \in 1 .. n : end[i - 1] <= end[i] /\ p[i] = SubSeq(s, end[i - 1] + 1, end[i])

\* A prefix and the piece behind it are a longer prefix.
LEMMA PrefixGrows ==
    ASSUME NEW S, NEW s \in Seq(S), NEW a \in 0 .. Len(s), NEW b \in a .. Len(s)
    PROVE  SubSeq(s, 1, a) \o SubSeq(s, a + 1, b) = SubSeq(s, 1, b)
  <1> DEFINE u == SubSeq(s, 1, a)
             v == SubSeq(s, a + 1, b)
             w == SubSeq(s, 1, b)
  <1>1. u \in Seq(S) /\ Len(u) = a /\ \A i \in 1 .. a : u[i] = s[i]
    <2>1. 1 \in 1 .. Len(s) + 1 /\ a \in 1 - 1 .. Len(s)
      OBVIOUS
    <2>2. u \in Seq(S) /\ Len(u) = a - 1 + 1 /\ \A i \in 1 .. a - 1 + 1 : u[i] = s[1 + i - 1]
      BY <2>1, Slice
    <2> HIDE DEF u
    <2> QED
      BY <2>2
  <1>2. v \in Seq(S) /\ Len(v) = b - a /\ \A i \in 1 .. b - a : v[i] = s[a + i]
    <2>1. a + 1 \in 1 .. Len(s) + 1 /\ b \in (a + 1) - 1 .. Len(s)
      OBVIOUS
    <2>2. v \in Seq(S) /\ Len(v) = b - (a + 1) + 1 /\ \A i \in 1 .. b - (a + 1) + 1 : v[i] = s[(a + 1) + i - 1]
      BY <2>1, Slice
    <2> HIDE DEF v
    <2> QED
      BY <2>2
  <1>3. w \in Seq(S) /\ Len(w) = b /\ \A i \in 1 .. b : w[i] = s[i]
    <2>1. 1 \in 1 .. Len(s) + 1 /\ b \in 1 - 1 .. Len(s)
      OBVIOUS
    <2>2. w \in Seq(S) /\ Len(w) = b - 1 + 1 /\ \A i \in 1 .. b - 1 + 1 : w[i] = s[1 + i - 1]
      BY <2>1, Slice
    <2> HIDE DEF w
    <2> QED
      BY <2>2
  <1> HIDE DEF u, v, w
  <1>4. /\ u \o v \in Seq(S) /\ Len(u \o v) = a + (b - a)
        /\ \A i \in 1 .. a : (u \o v)[i] = u[i]
        /\ \A i \in 1 .. b - a : (u \o v)[a + i] = v[i]
    <2>1. /\ u \o v \in Seq(S) /\ Len(u \o v) = Len(u) + Len(v)
          /\ \A i \in 1 .. Len(u) : (u \o v)[i] = u[i]
          /\ \A i \in 1 .. Len(v) : (u \o v)[Len(u) + i] = v[i]
      <3>1. u \in Seq(S) /\ v \in Seq(S)
        BY <1>1, <1>2
      <3> QED
        BY <3>1, Appended
    <2> QED
      BY <1>1, <1>2, <2>1
  <1>5. ASSUME NEW i \in 1 .. b PROVE (u \o v)[i] = w[i]
    <2>0. a \in Nat /\ b \in Nat /\ i \in Nat
      OBVIOUS
    <2>1. CASE i <= a
      BY <1>1, <1>3, <1>4, <2>0, <2>1
    <2>2. CASE i > a
      <3>1. i - a \in 1 .. b - a /\ a + (i - a) = i
        BY <2>0, <2>2
      <3>2. v[i - a] = s[a + (i - a)]
        BY <1>2, <3>1
      <3>3. (u \o v)[a + (i - a)] = v[i - a]
        BY <1>4, <3>1
      <3> QED
        BY <1>3, <3>1, <3>2, <3>3
    <2>3. i <= a \/ i > a
      BY <2>0
    <2> QED
      BY <2>1, <2>2, <2>3, Zenon
  <1>6. Len(u \o v) = Len(w)
    BY <1>3, <1>4
  <1>7. u \o v = w
    BY <1>3, <1>4, <1>5, <1>6, SeqEqual
  <1> QED
    BY <1>7 DEF u, v, w

\* Joining the pieces of a sequence gives the sequence.
LEMMA PiecesJoin ==
    ASSUME NEW S, NEW s \in Seq(S), NEW n \in Nat, n > 0, NEW p, NEW end, Pieces(p, n, s, end)
    PROVE  FlattenSeq(p) = s
  <1>1. /\ p = [i \in 1 .. n |-> p[i]] /\ end[0] = 0 /\ end[n] = Len(s)
        /\ \A i \in 0 .. n : end[i] \in 0 .. Len(s)
        /\ \A i \in 1 .. n : end[i - 1] <= end[i] /\ p[i] = SubSeq(s, end[i - 1] + 1, end[i])
    BY DEF Pieces
  <1>2. Len(p) = n
    BY <1>1
  <1>3. ASSUME NEW i \in 1 .. n
        PROVE  SubSeq(s, 1, end[i - 1]) \o p[i] = SubSeq(s, 1, end[i])
    <2>1. end[i - 1] \in 0 .. Len(s) /\ end[i] \in end[i - 1] .. Len(s)
      <3>1. i - 1 \in 0 .. n /\ i \in 0 .. n
        OBVIOUS
      <3> QED
        BY <1>1, <3>1
    <2>2. SubSeq(s, 1, end[i - 1]) \o SubSeq(s, end[i - 1] + 1, end[i]) = SubSeq(s, 1, end[i])
      BY <2>1, PrefixGrows
    <2> QED
      BY <1>1, <2>2
  <1>4. p[1] = SubSeq(s, 1, end[1])
    <2>1. 1 \in 1 .. n /\ 1 - 1 = 0 /\ 0 + 1 = 1
      OBVIOUS
    <2>2. p[1] = SubSeq(s, end[1 - 1] + 1, end[1])
      BY <1>1, <2>1
    <2> QED
      BY <1>1, <2>1, <2>2
  <1> DEFINE Body(f) == [i \in 1 .. Len(p) |-> IF i = 1 THEN p[i] ELSE f[i - 1] \o p[i]]
             g == [i \in 1 .. n |-> SubSeq(s, 1, end[i])]
  <1>5. g = Body(g)
    <2>1. ASSUME NEW i \in 1 .. n PROVE g[i] = IF i = 1 THEN p[i] ELSE g[i - 1] \o p[i]
      <3>1. CASE i = 1
        BY <1>4, <3>1
      <3>2. CASE i # 1
        <4>1. i - 1 \in 1 .. n
          BY <3>2
        <4>2. g[i - 1] = SubSeq(s, 1, end[i - 1]) /\ g[i] = SubSeq(s, 1, end[i])
          BY <4>1
        <4> QED
          BY <1>3, <3>2, <4>2
      <3> QED
        BY <3>1, <3>2
    <2>2. g = [i \in 1 .. n |-> g[i]]
      OBVIOUS
    <2> HIDE DEF g
    <2> QED
      BY <1>2, <2>1, <2>2
  <1>6. FlattenSeq(p) = (CHOOSE f : f = Body(f))[Len(p)]
    BY <1>2 DEF FlattenSeq
  <1> DEFINE f == CHOOSE h : h = Body(h)
  <1> HIDE DEF Body, g
  <1>7. f = Body(f)
    BY <1>5, Zenon
  <1>8. FlattenSeq(p) = f[n]
    BY <1>2, <1>6
  <1> HIDE DEF f
  <1>9. \A i \in 1 .. n : f[i] = IF i = 1 THEN p[i] ELSE f[i - 1] \o p[i]
    <2>1. Body(f) = [i \in 1 .. n |-> IF i = 1 THEN p[i] ELSE f[i - 1] \o p[i]]
      BY <1>2 DEF Body
    <2> QED
      BY <1>7, <2>1
  <1> DEFINE T == {i \in 0 .. n : i > 0 => f[i] = SubSeq(s, 1, end[i])}
  <1>10. 0 \in T
    OBVIOUS
  <1>11. ASSUME NEW i \in 1 .. n, i - 1 \in T PROVE i \in T
    <2>1. CASE i = 1
      BY <1>4, <1>9, <2>1
    <2>2. CASE i # 1
      <3>1. f[i - 1] = SubSeq(s, 1, end[i - 1])
        BY <1>11, <2>2
      <3>2. f[i] = SubSeq(s, 1, end[i])
        BY <1>3, <1>9, <2>2, <3>1
      <3> QED
        BY <3>2
    <2> QED
      BY <2>1, <2>2
  <1> HIDE DEF T
  <1>12. 0 .. n \subseteq T
    BY <1>10, <1>11, UpTo
  <1>13. f[n] = SubSeq(s, 1, Len(s))
    BY <1>1, <1>12 DEF T
  <1>14. SubSeq(s, 1, Len(s)) = s
    BY SubSeqFull
  <1> QED
    BY <1>8, <1>13, <1>14

\* The positions are a sequence of lines.
LEMMA TradesTyped == ASSUME lines \in TradeFiles PROVE Trades \in Seq(Nat)
  <1>1. PICK n \in 0 .. MaxTrades :
            lines \in [1 .. n -> [alpha : BOOLEAN, kind : {"blank", "malformed", "priced", "unresolved"}]]
    BY DEF TradeFiles
  <1>2. Len(lines) = n /\ n \in Nat
    BY <1>1, MaxTradesNat
  <1> DEFINE keep == [k \in 1 .. n |-> lines[k].kind # "blank" /\ ~IsHeader(k)]
             x == [k \in 1 .. n |-> k]
  <1>3. keep \in [1 .. n -> BOOLEAN] /\ x \in [1 .. n -> Nat] /\ \A k \in 1 .. n : keep[k] => x[k] \in Nat
    OBVIOUS
  <1> DEFINE Loop(g) == [k \in 0 .. Len(lines) |->
                            IF k = 0 THEN <<>>
                            ELSE IF lines[k].kind # "blank" /\ ~IsHeader(k) THEN Append(g[k - 1], k)
                            ELSE g[k - 1]]
  <1>4. ASSUME NEW g PROVE g = Loop(g) <=> Gathers(g, n, x, keep)
    <2>1. \A k \in 0 .. n : k # 0 => keep[k] = (lines[k].kind # "blank" /\ ~IsHeader(k)) /\ x[k] = k
      OBVIOUS
    <2> HIDE DEF keep, x
    <2>2. ASSUME NEW k \in 0 .. n
          PROVE  (IF k = 0 THEN <<>>
                  ELSE IF lines[k].kind # "blank" /\ ~IsHeader(k) THEN Append(g[k - 1], k) ELSE g[k - 1]) =
                 (IF k = 0 THEN <<>> ELSE IF keep[k] THEN Append(g[k - 1], x[k]) ELSE g[k - 1])
      BY <2>1
    <2>3. Loop(g) = [k \in 0 .. n |-> IF k = 0 THEN <<>>
                                    ELSE IF keep[k] THEN Append(g[k - 1], x[k]) ELSE g[k - 1]]
      BY <1>2, <2>2
    <2> HIDE DEF Loop
    <2> QED
      BY <2>3 DEF Gathers
  <1>5. TradesTo = CHOOSE g : g = Loop(g)
    BY DEF TradesTo
  <1> HIDE DEF Loop, keep, x
  <1>6. PICK f : Gathers(f, n, x, keep)
    BY <1>2, <1>3, FilterExists
  <1>7. TradesTo = Loop(TradesTo)
    BY <1>4, <1>5, <1>6, Zenon
  <1>8. Gathers(TradesTo, n, x, keep)
    BY <1>4, <1>7
  <1>9. TradesTo[n] \in Seq(Nat)
    BY <1>2, <1>3, <1>8, FilterTyped
  <1> QED
    BY <1>2, <1>9 DEF Trades

\* What trades reads is fixed by its input.
LEMMA TradesKept ==
    ASSUME UNCHANGED lines
    PROVE  /\ Trades' = Trades /\ (TradesParse' <=> TradesParse) /\ NChunks' = NChunks /\ Chunk' = Chunk
           /\ \A rows : BadRows(rows)' = BadRows(rows)
  BY DEF Trades, TradesTo, TradesParse, NChunks, Chunk, BadRows, IsUnresolved, IsHeader

\* There are just enough chunks for the positions.
LEMMA ChunkFacts ==
    ASSUME lines \in TradeFiles
    PROVE  /\ Trades \in Seq(Nat) /\ Len(Trades) \in Nat /\ DOMAIN Trades = 1 .. Len(Trades)
           /\ NChunks \in Nat /\ RowsPerChunk \in Nat \ {0}
           /\ Len(Trades) <= NChunks * RowsPerChunk /\ NChunks * RowsPerChunk < Len(Trades) + RowsPerChunk
  <1> DEFINE n == Len(Trades)
  <1>1. Trades \in Seq(Nat) /\ n \in Nat /\ DOMAIN Trades = 1 .. n
    BY TradesTyped
  <1> HIDE DEF n
  <1>2. (n + RowsPerChunk - 1) \div RowsPerChunk = NChunks
    BY DEF NChunks, n
  <1>3. NChunks \in Nat /\ n <= NChunks * RowsPerChunk /\ NChunks * RowsPerChunk < n + RowsPerChunk
    BY <1>1, <1>2, RowsPositive, DivideUp
  <1> QED
    BY <1>1, <1>3, RowsPositive DEF n

\* A smaller chunk ends no later than a greater one begins.
LEMMA ChunksOrdered ==
    ASSUME NEW r \in Nat, NEW c \in Int, NEW d \in Int, c <= d
    PROVE  c * r \in Int /\ d * r \in Int /\ c * r <= d * r /\ (c + 1) * r = c * r + r
  <1>1. c * r \in Int /\ d * r \in Int /\ (d - c) * r \in Int
    OBVIOUS
  <1>2. d * r = c * r + (d - c) * r
    OBVIOUS
  <1>3. (d - c) * r >= 0
    <2>1. d - c \in Nat
      OBVIOUS
    <2> DEFINE e == d - c
    <2> HIDE DEF e
    <2>2. e \in Nat => e * r \in Nat
      OBVIOUS
    <2> QED
      BY <2>1, <2>2 DEF e
  <1>4. (c + 1) * r = c * r + r
    OBVIOUS
  <1> QED
    BY <1>1, <1>2, <1>3, <1>4

\* The positions of a chunk.
LEMMA ChunkOfFacts ==
    ASSUME lines \in TradeFiles, NEW j \in 1 .. Len(Trades)
    PROVE  /\ ChunkOf(j) \in Chunk
           /\ \A c \in Chunk : ChunkOf(j) = c <=> c * RowsPerChunk < j /\ j <= c * RowsPerChunk + RowsPerChunk
  <1> DEFINE R == RowsPerChunk
             N == NChunks
             q == (j - 1) \div R
  <1>1. R \in Nat \ {0} /\ N \in Nat /\ j \in Nat /\ j - 1 \in Nat /\ j - 1 < N * R
    <2>1. j <= Len(Trades) /\ Len(Trades) \in Nat /\ Len(Trades) <= N * R /\ R \in Nat \ {0} /\ N \in Nat
      BY ChunkFacts
    <2>2. N * R \in Nat
      BY <2>1
    <2> DEFINE p == N * R
    <2> HIDE DEF p
    <2>3. p \in Nat /\ Len(Trades) <= p
      BY <2>1, <2>2 DEF p
    <2>4. j - 1 < p
      BY <2>1, <2>3
    <2> QED
      BY <2>1, <2>4 DEF p
  <1> HIDE DEF R, N
  <1>2. q \in Nat /\ q * R <= j - 1 /\ j - 1 < q * R + R
    BY <1>1, DivideDown
  <1>3. q < N
    BY <1>1, PageBefore
  <1> HIDE DEF q
  <1>4. ChunkOf(j) = q
    BY DEF ChunkOf, q, R
  <1>5. q \in Chunk
    BY <1>1, <1>2, <1>3 DEF Chunk, N
  <1>6. ASSUME NEW c \in Chunk PROVE q = c <=> c * R < j /\ j <= c * R + R
    <2>1. c \in Nat
      BY <1>1 DEF Chunk, N
    <2>2. ASSUME q = c PROVE c * R < j /\ j <= c * R + R
      <3> DEFINE p == c * R
      <3>1. p \in Nat /\ p <= j - 1 /\ j - 1 < p + R
        BY <1>1, <1>2, <2>1, <2>2
      <3> HIDE DEF p
      <3>2. p < j /\ j <= p + R
        BY <1>1, <3>1
      <3> QED
        BY <3>2 DEF p
    <2>3. ASSUME c < q PROVE ~(j <= c * R + R)
      <3>1. /\ c * R \in Int /\ q * R \in Int
            /\ (c + 1) * R = c * R + R /\ (c + 1) * R <= q * R
        BY <1>1, <1>2, <2>1, <2>3, ChunksOrdered
      <3> DEFINE a == c * R
                 b == q * R
      <3>2. a \in Int /\ b \in Int /\ a + R <= b /\ b <= j - 1
        BY <1>2, <3>1
      <3> HIDE DEF a, b
      <3>3. ~(j <= a + R)
        BY <1>1, <3>2
      <3> QED
        BY <3>3 DEF a
    <2>4. ASSUME q < c PROVE ~(c * R < j)
      <3>1. /\ c * R \in Int /\ q * R \in Int
            /\ (q + 1) * R = q * R + R /\ (q + 1) * R <= c * R
        BY <1>1, <1>2, <2>1, <2>4, ChunksOrdered
      <3> DEFINE a == c * R
                 b == q * R
      <3>2. a \in Int /\ b \in Int /\ b + R <= a /\ j - 1 < b + R
        BY <1>2, <3>1
      <3> HIDE DEF a, b
      <3>3. ~(a < j)
        BY <1>1, <3>2
      <3> QED
        BY <3>3 DEF a
    <2> QED
      BY <1>2, <2>1, <2>2, <2>3, <2>4
  <1> QED
    BY <1>4, <1>5, <1>6 DEF R

\* A chunk that nobody has to do any more ends where the next one begins, or with the input.
LEMMA ChunkThrough ==
    ASSUME lines \in TradeFiles, NEW c \in Chunk, ChunkRight(c), c \notin todo \cup busy
    PROVE  LET b == c * RowsPerChunk
               e == IF b + RowsPerChunk <= Len(Trades) THEN b + RowsPerChunk ELSE Len(Trades)
           IN  /\ b \in 0 .. Len(Trades) /\ e \in b .. Len(Trades)
               /\ Len(chunks[c]) = e - b
               /\ chunks[c] = SubSeq(Trades, b + 1, e)
  <1> DEFINE R == RowsPerChunk
             n == Len(Trades)
             b == c * R
             e == IF b + R <= n THEN b + R ELSE n
             m == Len(chunks[c])
  <1>1. Trades \in Seq(Nat) /\ n \in Nat /\ R \in Nat \ {0} /\ c \in Nat
    BY ChunkFacts DEF Chunk
  <1>2. b \in Nat
    BY <1>1
  <1>3. /\ chunks[c] \in Seq(Nat) /\ m \in Nat /\ m <= R /\ b + m <= n
        /\ (m = R \/ b + m = n) /\ \A j \in 1 .. m : chunks[c][j] = Trades[b + j]
    BY DEF ChunkRight
  <1> HIDE DEF R, n, b, m
  <1>4. b \in 0 .. n /\ e \in b .. n /\ m = e - b
    BY <1>1, <1>2, <1>3
  <1> HIDE DEF e
  <1>5. chunks[c] = SubSeq(Trades, b + 1, e)
    <2> DEFINE w == SubSeq(Trades, b + 1, e)
    <2>1. b + 1 \in 1 .. n + 1 /\ e \in (b + 1) - 1 .. n /\ e - (b + 1) + 1 = m
      BY <1>1, <1>2, <1>4
    <2>2. w \in Seq(Nat) /\ Len(w) = e - (b + 1) + 1 /\ \A i \in 1 .. e - (b + 1) + 1 : w[i] = Trades[(b + 1) + i - 1]
      BY <1>1, <2>1, Slice DEF n
    <2> HIDE DEF w
    <2>3. Len(w) = m /\ \A i \in 1 .. m : w[i] = Trades[(b + 1) + i - 1]
      BY <2>1, <2>2
    <2>4. \A i \in 1 .. m : w[i] = chunks[c][i]
      <3> SUFFICES ASSUME NEW i \in 1 .. m PROVE w[i] = chunks[c][i]
        OBVIOUS
      <3>1. (b + 1) + i - 1 = b + i
        BY <1>2
      <3> QED
        BY <1>3, <2>3, <3>1
    <2>5. chunks[c] = w
      BY <1>3, <2>2, <2>3, <2>4, SeqEqual DEF m
    <2> QED
      BY <2>5 DEF w
  <1> QED
    BY <1>4, <1>5 DEF R, n, b, e, m

\* When no chunk is to do or in work, the chunks one after another are all rows in order.
LEMMA JoinedInOrder ==
    ASSUME lines \in TradeFiles, DOMAIN chunks = Chunk, \A c \in Chunk : ChunkRight(c), todo = {}, busy = {}
    PROVE  Joined = Trades
  <1> DEFINE R == RowsPerChunk
             N == NChunks
             n == Len(Trades)
             p == [c \in 1 .. N |-> chunks[c - 1]]
  <1>1. /\ Trades \in Seq(Nat) /\ n \in Nat /\ N \in Nat /\ R \in Nat \ {0}
        /\ n <= N * R /\ N * R < n + R
    BY ChunkFacts
  <1>2. Joined = FlattenSeq(p)
    <2>1. Cardinality(0 .. N - 1) = N
      <3>1. Cardinality(0 .. N - 1) = IF 0 <= N - 1 THEN (N - 1) - 0 + 1 ELSE 0
        BY <1>1, FS_Interval
      <3> QED
        BY <1>1, <3>1
    <2>2. Cardinality(DOMAIN chunks) = N
      BY <2>1 DEF Chunk
    <2> QED
      BY <2>2 DEF Joined
  <1>3. CASE N = 0
    <2>1. n = 0 /\ Len(p) = 0 /\ p = <<>>
      BY <1>1, <1>3
    <2>2. Trades = <<>>
      BY <1>1, <2>1, EmptySeq
    <2>3. FlattenSeq(p) = p
      BY <2>1 DEF FlattenSeq
    <2> QED
      BY <1>2, <2>1, <2>2, <2>3
  <1>4. CASE N > 0
    <2> DEFINE end == [i \in 0 .. N |-> IF i * R <= n THEN i * R ELSE n]
    <2> HIDE DEF R, N, n
    <2>1. ASSUME NEW i \in 0 .. N PROVE i * R \in Nat /\ end[i] \in 0 .. n
      <3>1. i * R \in Nat
        BY <1>1
      <3> DEFINE a == i * R
      <3>2. end[i] = IF a <= n THEN a ELSE n
        OBVIOUS
      <3> HIDE DEF a, end
      <3>3. a \in Nat => (IF a <= n THEN a ELSE n) \in 0 .. n
        BY <1>1
      <3> QED
        BY <3>1, <3>2, <3>3 DEF a
    <2>2. end[0] = 0
      <3>1. 0 * R = 0 /\ 0 \in 0 .. N
        BY <1>1
      <3> QED
        BY <1>1, <3>1
    <2>3. end[N] = n
      <3> DEFINE a == N * R
      <3>1. a \in Nat /\ n <= a /\ N \in 0 .. N
        BY <1>1
      <3>2. end[N] = IF a <= n THEN a ELSE n
        BY <3>1
      <3> HIDE DEF a, end
      <3> QED
        BY <1>1, <3>1, <3>2
    <2>4. ASSUME NEW i \in 1 .. N
          PROVE  end[i - 1] <= end[i] /\ p[i] = SubSeq(Trades, end[i - 1] + 1, end[i])
      <3> DEFINE b == (i - 1) * R
                 e == IF b + R <= n THEN b + R ELSE n
      <3>1. i - 1 \in Chunk /\ i - 1 \in 0 .. N /\ i \in 0 .. N
        BY <1>1 DEF Chunk, N
      <3>2. i * R = b + R
        <4>1. i - 1 \in Int /\ i - 1 <= i - 1 /\ R \in Nat /\ (i - 1) + 1 = i
          BY <1>1
        <4>2. ((i - 1) + 1) * R = (i - 1) * R + R
          BY <4>1, ChunksOrdered
        <4> QED
          BY <4>1, <4>2
      <3>3. b \in 0 .. n /\ e \in b .. n /\ chunks[i - 1] = SubSeq(Trades, b + 1, e)
        BY <3>1, ChunkThrough DEF R, n
      <3>4. end[i - 1] = b
        <4>1. end[i - 1] = IF b <= n THEN b ELSE n
          BY <3>1
        <4> HIDE DEF b, end
        <4> QED
          BY <1>1, <3>3, <4>1
      <3>5. end[i] = e
        <4>1. end[i] = IF i * R <= n THEN i * R ELSE n
          BY <3>1
        <4> QED
          BY <3>2, <4>1
      <3> HIDE DEF b, e, end
      <3>6. b <= e
        BY <1>1, <3>3
      <3>7. p[i] = chunks[i - 1]
        OBVIOUS
      <3> QED
        BY <3>3, <3>4, <3>5, <3>6, <3>7
    <2>5. p = [i \in 1 .. N |-> p[i]]
      OBVIOUS
    <2> HIDE DEF end, p
    <2>6. Pieces(p, N, Trades, end)
      BY <2>1, <2>2, <2>3, <2>4, <2>5 DEF Pieces, n
    <2>7. FlattenSeq(p) = Trades
      BY <1>1, <1>4, <2>6, PiecesJoin
    <2> QED
      BY <1>2, <2>7
  <1> QED
    BY <1>1, <1>3, <1>4

-----------------------------------------------------------------------------
(* Trades: its steps. *)

\* Rows that could not be priced are among those of the interval.
LEMMA BadRowsFinite ==
    ASSUME NEW a \in Int, NEW b \in Int, NEW rows, rows \subseteq a .. b
    PROVE  IsFiniteSet(BadRows(rows)) /\ Cardinality(BadRows(rows)) \in Nat
  <1>1. BadRows(rows) \in SUBSET (a .. b) /\ IsFiniteSet(a .. b)
    BY FS_Interval DEF BadRows
  <1> QED
    BY <1>1, FS_Subset, FS_CardinalityType

\* The count of a positive number of chunks is begun with nothing counted.
LEMMA NothingCounted ==
    ASSUME lines \in TradeFiles, todo' = Chunk, UNCHANGED lines
    PROVE  Counted' = {}
  <1>1. ASSUME NEW j \in 1 .. Len(Trades) PROVE ChunkOf(j)' \in todo'
    BY ChunkOfFacts DEF ChunkOf
  <1> QED
    BY <1>1, TradesKept DEF Counted

\* The part of the invariant that is about the work once the input has been accepted.
Working ==
    /\ TradesParse
    /\ DOMAIN chunks = Chunk /\ (\A c \in Chunk : ChunkRight(c)) /\ todo \cup busy \subseteq Chunk
    /\ unresolved = Cardinality(BadRows(Counted))

\* A step of the calling thread alone.
LEMMA TradesGoesOn ==
    ASSUME TradesInv, LoopInv', UNCHANGED <<todo, busy, at, lines, tradesOwn>>,
           step' \in {"pool", "join", "write", "end"},
           step' # "end" => step \in {"pool", "join", "write"},
           opened' => step' \in {"write", "end"} /\ (opened \/ (TradesParse /\ Joined = Trades)),
           verdict' = "ok" => \/ verdict = "ok" /\ UNCHANGED out
                              \/ out' = Trades /\ unresolved = Cardinality(BadRows(DOMAIN Trades))
    PROVE  TradesInv'
  <1>1. Trades' = Trades /\ (TradesParse' <=> TradesParse) /\ Chunk' = Chunk /\ (Joined = Trades)' = (Joined = Trades)
    BY TradesKept DEF tradesOwn, Joined
  <1>2. (Working' <=> Working)
    BY TradesKept DEF Working, ChunkRight, Counted, ChunkOf, tradesOwn
  <1>3. \A c : Cardinality(BadRows(Priced(c)))' = Cardinality(BadRows(Priced(c)))
    BY TradesKept DEF Priced, tradesOwn, BadRows
  <1>4. step' # "end" => Working
    BY DEF TradesInv, Working
  <1>5. opened' => (TradesParse /\ Joined = Trades)'
    BY <1>1 DEF TradesInv
  <1>6. TradesAsSerial'
    BY <1>1 DEF TradesInv, TradesAsSerial, BadRows, IsUnresolved, tradesOwn
  <1>7. BadRight'
    BY <1>3 DEF TradesInv, BadRight, tradesOwn
  <1> QED
    BY <1>1, <1>2, <1>4, <1>5, <1>6, <1>7 DEF TradesInv, Working, tradesOwn

\* Nothing is read, opened or counted.
LEMMA TradesStarts == ASSUME InitTrades PROVE TradesInv
  <1>1. LoopInv
    BY LoopInit DEF InitTrades
  <1>2. step = "begin" /\ ~opened /\ verdict = "none" /\ \A t \in Thread : at[t] = Nothing
    BY DEF InitTrades, InitCommand
  <1>3. lines \in TradeFiles /\ chunks = <<>> /\ bad \in [Thread -> Nat] /\ unresolved = 0
    BY DEF InitTrades, InitTradesOwn
  <1> QED
    BY <1>1, <1>2, <1>3 DEF TradesInv, TradesAsSerial, BadRight

\* A refusal comes before the file is opened.
LEMMA TradesRefuses == ASSUME TradesInv, Refuse, UNCHANGED tradesOwn PROVE TradesInv'
  <1>1. step = "begin" /\ step' = "end" /\ verdict' = "failed"
    BY DEF Refuse, Rejected, End
  <1>2. UNCHANGED <<loopVars, at, lines, opened, out>>
    BY DEF Refuse, Rejected
  <1>3. opened \in BOOLEAN /\ ~opened
    BY <1>1 DEF TradesInv, LoopInv
  <1>4. LoopInv'
    BY <1>1, <1>2, <1>3, LoopAlone DEF TradesInv
  <1> QED
    BY <1>1, <1>2, <1>3, <1>4, TradesGoesOn DEF loopVars

\* Every chunk is empty and to do, and none is counted.
LEMMA TradesParses == ASSUME TradesInv, ParseTrades PROVE TradesInv'
  <1>1. /\ step = "begin" /\ verdict = "none" /\ LoopInv /\ lines \in TradeFiles
        /\ status = "idle" /\ todo = {} /\ busy = {} /\ opened \in BOOLEAN /\ ~opened
        /\ chunks = <<>> /\ unresolved = 0 /\ \A t \in Thread : at[t] = Nothing
    BY DEF ParseTrades, Live, TradesInv, LoopInv
  <1>2. UNCHANGED <<bad, unresolved, at, lines, opened, out>>
    BY DEF ParseTrades, Rejected
  <1>3. CASE TradesParse
    <2>1. RunPool(NChunks, "join") /\ UNCHANGED verdict /\ chunks' = [c \in Chunk |-> <<>>]
      BY <1>3 DEF ParseTrades, Chunk
    <2>2. NChunks \in Nat
      BY <1>1, ChunkFacts
    <2>3. LoopInv'
      BY <1>1, <1>2, <2>1, <2>2, LoopRuns
    <2>4. \/ NChunks = 0 /\ step' = "join" /\ todo' = {} /\ busy' = {}
          \/ step' = "pool" /\ todo' = Chunk /\ busy' = {}
      BY <1>1, <2>1 DEF RunPool, Begin, loopVars, Chunk
    <2>5. Counted' = {}
      <3>1. CASE NChunks = 0
        <4>1. Len(Trades) \in Nat /\ Len(Trades) <= NChunks * RowsPerChunk /\ RowsPerChunk \in Nat
          BY <1>1, ChunkFacts
        <4>2. Len(Trades) = 0
          BY <3>1, <4>1
        <4> QED
          BY <1>2, <4>2, TradesKept DEF Counted
      <3>2. CASE todo' = Chunk
        BY <1>1, <1>2, <3>2, NothingCounted
      <3> QED
        BY <2>4, <3>1, <3>2
    <2>6. ASSUME NEW c \in Chunk PROVE ChunkRight(c)'
      <3>1. c \in todo' /\ chunks'[c] = <<>>
        <4>1. NChunks # 0
          BY DEF Chunk
        <4> QED
          BY <2>1, <2>4, <4>1
      <3> DEFINE n == Len(Trades)
                 N == NChunks
                 R == RowsPerChunk
      <3>2. n \in Nat /\ N \in Nat /\ R \in Nat \ {0} /\ N * R < n + R
        BY <1>1, ChunkFacts
      <3> HIDE DEF n, N, R
      <3>3. c * R \in Int /\ c * R <= n
        <4>1. c \in Nat /\ c <= N - 1 /\ N - 1 \in Int
          BY <3>2 DEF Chunk, N
        <4>2. /\ c * R \in Int /\ (N - 1) * R \in Int /\ c * R <= (N - 1) * R
          BY <3>2, <4>1, ChunksOrdered
        <4>3. ((N - 1) + 1) * R = (N - 1) * R + R /\ (N - 1) + 1 = N
          BY <3>2, <4>1, ChunksOrdered
        <4> DEFINE a == c * R
                   b == (N - 1) * R
                   d == N * R
        <4>4. a \in Int /\ b \in Int /\ a <= b /\ d = b + R /\ d < n + R
          BY <3>2, <4>2, <4>3
        <4> HIDE DEF a, b, d
        <4>5. a \in Int /\ a <= n
          BY <3>2, <4>4
        <4> QED
          BY <4>5 DEF a
      <3>4. /\ chunks'[c] \in Seq(Nat) /\ Len(chunks'[c]) = 0
            /\ c * R + 0 = c * R
        BY <3>1, <3>3
      <3>5. Len(chunks'[c]) <= R /\ c * R + Len(chunks'[c]) <= n
        BY <3>2, <3>3, <3>4
      <3>6. Trades' = Trades
        BY <1>2, TradesKept
      <3> QED
        BY <3>1, <3>4, <3>5, <3>6 DEF ChunkRight, n, R
    <2>7. DOMAIN chunks' = Chunk' /\ todo' \cup busy' \subseteq Chunk'
      BY <1>2, <2>1, <2>4, TradesKept DEF Chunk
    <2>8. unresolved' = Cardinality(BadRows(Counted))'
      <3>1. BadRows(Counted)' = {}
        BY <2>5 DEF BadRows
      <3> QED
        BY <1>1, <1>2, <3>1, FS_EmptySet
    <2>9. Working'
      BY <1>2, <1>3, <2>6, <2>7, <2>8, TradesKept DEF Working
    <2>10. step' \in {"pool", "join"} /\ ~opened' /\ verdict' # "ok" /\ \A t \in Thread : at'[t] = Nothing
      BY <1>1, <1>2, <2>1, <2>4
    <2> QED
      BY <1>1, <1>2, <2>3, <2>9, <2>10 DEF TradesInv, Working, TradesAsSerial, BadRight
  <1>4. CASE ~TradesParse
    <2>1. step' = "end" /\ verdict' = "failed" /\ UNCHANGED <<loopVars, chunks>>
      BY <1>4 DEF ParseTrades, Rejected, End
    <2>2. LoopInv'
      BY <1>1, <1>2, <2>1, LoopAlone
    <2> QED
      BY <1>1, <1>2, <2>1, <2>2, TradesGoesOn DEF loopVars, tradesOwn
  <1> QED
    BY <1>3, <1>4

\* When the loop returns no chunk is to do or in work.
LEMMA TradesReturns ==
    ASSUME TradesInv, PoolReturns("join"), UNCHANGED tradesOwn
    PROVE  TradesInv'
  <1>1. /\ step = "pool" /\ step' = "join" /\ verdict = "none" /\ verdict' = verdict
        /\ UNCHANGED <<todo, busy, at, lines, opened, out>> /\ LoopInv
    BY DEF PoolReturns, Return, Live, TradesInv
  <1>2. LoopInv'
    BY <1>1, LoopReturns
  <1>3. ~opened
    BY <1>1 DEF TradesInv
  <1> QED
    BY <1>1, <1>2, <1>3, TradesGoesOn

\* The file is emptied when the text is ready and in order.
LEMMA TradesOpens == ASSUME TradesInv, OpenResults PROVE TradesInv'
  <1>1. step = "join" /\ verdict = "none" /\ LoopInv /\ todo = {} /\ busy = {} /\ opened \in BOOLEAN
    BY DEF OpenResults, Live, TradesInv, LoopInv
  <1>2. UNCHANGED <<loopVars, at, lines, out, tradesOwn>>
    BY DEF OpenResults
  <1>3. TradesParse /\ Joined = Trades
    BY <1>1, JoinedInOrder DEF TradesInv
  <1>4. \/ opened' = TRUE /\ step' = "write" /\ verdict' = "none"
        \/ opened' = opened /\ step' = "end" /\ verdict' = "failed"
    BY <1>1 DEF OpenResults, End
  <1>5. LoopInv'
    BY <1>1, <1>2, <1>4, LoopAlone
  <1> QED
    BY <1>1, <1>2, <1>3, <1>4, <1>5, TradesGoesOn DEF loopVars

\* A command that succeeds has written all of it.
LEMMA TradesWrites == ASSUME TradesInv, WriteResults PROVE TradesInv'
  <1>1. /\ step = "write" /\ verdict = "none" /\ LoopInv /\ todo = {} /\ busy = {} /\ opened \in BOOLEAN
        /\ lines \in TradeFiles
    BY DEF WriteResults, Live, TradesInv, LoopInv
  <1>2. UNCHANGED <<loopVars, at, lines, opened, tradesOwn>>
    BY DEF WriteResults
  <1>3. Joined = Trades
    BY <1>1, JoinedInOrder DEF TradesInv
  <1>4. step' = "end" /\ ((out' = Trades /\ verdict' = "ok") \/ verdict' = "failed")
    BY <1>3 DEF WriteResults, End
  <1>5. unresolved = Cardinality(BadRows(DOMAIN Trades))
    <2>1. Counted = DOMAIN Trades
      BY <1>1, ChunkFacts DEF Counted
    <2> QED
      BY <1>1, <2>1 DEF TradesInv
  <1>6. LoopInv'
    BY <1>1, <1>2, <1>4, LoopAlone
  <1> QED
    BY <1>1, <1>2, <1>4, <1>5, <1>6, TradesGoesOn DEF loopVars

\* The process is killed, or other processes move.
LEMMA TradesKilled ==
    ASSUME TradesInv, UNCHANGED <<loopVars, step, at, lines, opened, out, tradesOwn>>,
           UNCHANGED verdict \/ (verdict = "none" /\ verdict' \in {"none", "killed"})
    PROVE  TradesInv'
  <1>1. LoopInv'
    BY LoopKilled, LoopUnchanged DEF TradesInv
  <1>2. CASE step = "begin"
    <2>1. (TradesParse' <=> TradesParse) /\ (Joined = Trades)' = (Joined = Trades)
      BY TradesKept DEF tradesOwn, Joined
    <2>2. verdict' # "ok"
      BY <1>2 DEF TradesInv, LoopInv
    <2>3. ~opened /\ \A t \in Thread : at[t] = Nothing
      BY <1>2 DEF TradesInv, LoopInv
    <2> QED
      BY <1>1, <1>2, <2>1, <2>2, <2>3 DEF TradesInv, TradesAsSerial, BadRight, tradesOwn
  <1>3. CASE step # "begin"
    BY <1>1, <1>3, TradesGoesOn DEF TradesInv, loopVars
  <1> QED
    BY <1>2, <1>3

\* What the invariant says while the loop runs.
LEMMA TradesRunning ==
    ASSUME TradesInv, status = "running"
    PROVE  /\ step = "pool" /\ LoopInv /\ Working /\ lines \in TradeFiles
           /\ bad \in [Thread -> Nat] /\ unresolved \in Nat
           /\ \A t \in Thread : at[t] # Nothing => /\ at[t] \in busy /\ at[t] \in Chunk /\ at[t] \notin todo
                                                   /\ bad[t] = Cardinality(BadRows(Priced(at[t])))
  BY DEF TradesInv, LoopInv, Working, BadRight

\* A step of a thread.
LEMMA TradesThreadMoves ==
    ASSUME TradesInv, status = "running", LoopInv', Working',
           UNCHANGED <<step, lines, opened, out, verdict>>, verdict = "none",
           bad' \in [Thread -> Nat], unresolved' \in Nat,
           BadRight'
    PROVE  TradesInv'
  <1>1. step' = "pool"
    BY TradesRunning
  <1> QED
    BY <1>1 DEF TradesInv, Working, TradesAsSerial

\* A thread begins a chunk at its first row with a count of its own from zero.
LEMMA TradesTakes ==
    ASSUME TradesInv, NEW t \in Thread, NEW c \in todo, TakeChunk(t, c)
    PROVE  TradesInv'
  <1>1. /\ status = "running" /\ verdict = "none" /\ TakeIndex(t, c)
        /\ todo' = todo \ {c} /\ busy' = busy \cup {c} /\ at' = [at EXCEPT ![t] = c]
        /\ bad' = [bad EXCEPT ![t] = 0]
        /\ UNCHANGED <<step, lines, opened, out, verdict, chunks, unresolved>>
    BY DEF TakeChunk, TakeIndex, Take, Live
  <1>2. /\ step = "pool" /\ LoopInv /\ Working /\ lines \in TradeFiles
        /\ bad \in [Thread -> Nat] /\ unresolved \in Nat
        /\ \A u \in Thread : at[u] # Nothing => /\ at[u] \in busy /\ at[u] \in Chunk /\ at[u] \notin todo
                                                /\ bad[u] = Cardinality(BadRows(Priced(at[u])))
    BY <1>1, TradesRunning
  <1>3. LoopInv'
    BY <1>1, <1>2, LoopTakes
  <1>4. /\ Trades' = Trades /\ (TradesParse' <=> TradesParse) /\ Chunk' = Chunk
        /\ \A rows : BadRows(rows)' = BadRows(rows)
    BY <1>1, TradesKept
  <1>5. todo' \cup busy' = todo \cup busy
    BY <1>1
  <1>6. Counted' = Counted
    BY <1>1, <1>4, <1>5 DEF Counted, ChunkOf
  <1>7. \A d \in Chunk : ChunkRight(d)'
    BY <1>1, <1>2, <1>4, <1>5 DEF Working, ChunkRight
  <1>8. Working'
    BY <1>1, <1>2, <1>4, <1>5, <1>6, <1>7 DEF Working, BadRows, IsUnresolved
  <1>9. BadRight'
    <2> SUFFICES ASSUME NEW u \in Thread, at'[u] # Nothing
                 PROVE  bad'[u] = Cardinality(BadRows(Priced(at[u])))'
      BY DEF BadRight
    <2>1. CASE u = t
      <3>1. c \in Chunk /\ chunks[c] = <<>> /\ c \in Nat
        BY <1>2, ChunkFacts DEF Working, ChunkRight, Chunk
      <3>2. at'[u] = c /\ bad'[u] = 0
        BY <1>1, <1>2, <2>1 DEF LoopInv
      <3>3. Priced(at[u])' = {}
        <4>1. Len(chunks[c]) = 0 /\ c * RowsPerChunk \in Int
          BY <3>1, RowsPositive
        <4> DEFINE b == c * RowsPerChunk
        <4>2. b + 1 .. b + 0 = {}
          BY <4>1
        <4> QED
          BY <1>1, <3>2, <4>1, <4>2 DEF Priced
      <3>4. BadRows(Priced(at[u]))' = {}
        BY <3>3 DEF BadRows
      <3> QED
        BY <3>2, <3>4, FS_EmptySet
    <2>2. CASE u # t
      <3>1. at'[u] = at[u] /\ bad'[u] = bad[u] /\ at[u] # Nothing
        BY <1>1, <1>2, <2>2 DEF LoopInv
      <3>2. Priced(at[u])' = Priced(at[u])
        BY <1>1, <3>1 DEF Priced
      <3>3. BadRows(Priced(at[u]))' = BadRows(Priced(at[u]))
        BY <1>1, <1>4, <3>2 DEF BadRows, IsUnresolved
      <3> QED
        BY <1>2, <3>1, <3>3
    <2> QED
      BY <2>1, <2>2
  <1>10. bad' \in [Thread -> Nat]
    BY <1>1, <1>2
  <1> QED
    BY <1>1, <1>2, <1>3, <1>8, <1>9, <1>10, TradesThreadMoves

\* One row more, and one more in the count if it has no price.
LEMMA TradesPrices ==
    ASSUME TradesInv, NEW t \in Thread, PriceRow(t)
    PROVE  TradesInv'
  <1> DEFINE c == at[t]
             R == RowsPerChunk
             n == Len(Trades)
             m == Len(chunks[c])
             b == c * R
             k == Trades[b + m + 1]
  <1>1. /\ c # Nothing /\ verdict = "none"
        /\ UNCHANGED <<status, todo, busy, step, at, lines, opened, out, verdict, unresolved>>
        /\ chunks' = [chunks EXCEPT ![c] = Append(@, k)]
        /\ bad' = [bad EXCEPT ![t] = IF IsUnresolved(k) THEN @ + 1 ELSE @]
        /\ b + m + 1 <= n /\ m < R
    BY DEF PriceRow, InChunk, NextRow, Live, commandVars, loopVars
  <1>2. status = "running"
    BY <1>1 DEF TradesInv, LoopInv
  <1>3. /\ step = "pool" /\ LoopInv /\ Working /\ lines \in TradeFiles
        /\ bad \in [Thread -> Nat] /\ unresolved \in Nat
        /\ \A u \in Thread : at[u] # Nothing => /\ at[u] \in busy /\ at[u] \in Chunk /\ at[u] \notin todo
                                                /\ bad[u] = Cardinality(BadRows(Priced(at[u])))
    BY <1>2, TradesRunning
  <1>4. LoopInv'
    BY <1>1, <1>3, LoopUnchanged DEF loopVars
  <1>5. /\ Trades' = Trades /\ (TradesParse' <=> TradesParse) /\ Chunk' = Chunk
        /\ \A rows : BadRows(rows)' = BadRows(rows)
    BY <1>1, TradesKept
  <1>6. Counted' = Counted
    BY <1>1, <1>5 DEF Counted, ChunkOf
  <1>7. Trades \in Seq(Nat) /\ n \in Nat /\ R \in Nat \ {0} /\ c \in Chunk /\ c \in Nat /\ b \in Nat
    <2>1. c \in Nat /\ R \in Nat \ {0} /\ Trades \in Seq(Nat) /\ n \in Nat /\ c \in Chunk
      BY <1>1, <1>3, ChunkFacts DEF Chunk
    <2> QED
      BY <2>1
  <1>8. chunks[c] \in Seq(Nat) /\ m \in Nat /\ \A j \in 1 .. m : chunks[c][j] = Trades[b + j]
    <2>1. ChunkRight(c)
      BY <1>3, <1>7 DEF Working
    <2>2. chunks[c] \in Seq(Nat) /\ \A j \in 1 .. m : chunks[c][j] = Trades[b + j]
      BY <2>1 DEF ChunkRight
    <2> QED
      BY <2>2
  <1> HIDE DEF b, m, n, R
  <1>9. b + m + 1 \in 1 .. n /\ k \in Nat
    BY <1>1, <1>7, <1>8 DEF n
  <1>10. /\ chunks'[c] \in Seq(Nat) /\ Len(chunks'[c]) = m + 1
         /\ chunks'[c][m + 1] = k /\ \A j \in 1 .. m : chunks'[c][j] = chunks[c][j]
    <2>1. chunks'[c] = Append(chunks[c], k)
      BY <1>1, <1>3, <1>7 DEF Working
    <2> HIDE DEF k
    <2> QED
      BY <1>8, <1>9, <2>1, AppendProperties DEF m
  <1>11. \A d \in Chunk : d # c => chunks'[d] = chunks[d]
    BY <1>1, <1>3 DEF Working
  <1>12. ChunkRight(c)'
    <2>1. m + 1 <= R /\ b + (m + 1) <= n
      BY <1>1, <1>7, <1>8
    <2>2. ASSUME NEW j \in 1 .. m + 1 PROVE chunks'[c][j] = Trades[b + j]
      <3>1. j \in 1 .. m \/ j = m + 1
        BY <1>8
      <3>2. CASE j \in 1 .. m
        BY <1>8, <1>10, <3>2
      <3>3. CASE j = m + 1
        <4>1. b + (m + 1) = b + m + 1
          BY <1>7, <1>8
        <4> QED
          BY <1>10, <3>3, <4>1
      <3> QED
        BY <3>1, <3>2, <3>3
    <2>3. c \notin todo /\ c \in busy /\ UNCHANGED at
      BY <1>1, <1>3
    <2> HIDE DEF c
    <2>4. /\ Len(chunks'[c]) <= R /\ b + Len(chunks'[c]) <= n
          /\ \A j \in 1 .. Len(chunks'[c]) : chunks'[c][j] = Trades[b + j]
      BY <1>10, <2>1, <2>2
    <2>5. UNCHANGED <<todo, busy>>
      BY <1>1
    <2> SUFFICES ASSUME NEW d \in Chunk, d = c PROVE ChunkRight(d)'
      BY <1>7, <2>3 DEF c
    <2> QED
      BY <1>5, <1>10, <2>3, <2>4, <2>5 DEF ChunkRight, b, n, R
  <1>13. ASSUME NEW d \in Chunk PROVE ChunkRight(d)'
    <2>1. CASE d = c
      BY <1>1, <1>12, <2>1
    <2>2. CASE d # c
      <3>1. ChunkRight(d)
        BY <1>3 DEF Working
      <3> QED
        BY <1>1, <1>5, <1>11, <2>2, <3>1 DEF ChunkRight
    <2> QED
      BY <2>1, <2>2
  <1>14. Working'
    BY <1>1, <1>3, <1>5, <1>6, <1>13 DEF Working, BadRows, IsUnresolved
  <1>15. bad' \in [Thread -> Nat]
    BY <1>1, <1>3
  <1>16. BadRight'
    <2> SUFFICES ASSUME NEW u \in Thread, at'[u] # Nothing
                 PROVE  bad'[u] = Cardinality(BadRows(Priced(at[u])))'
      BY DEF BadRight
    <2>1. CASE u = t
      <3> DEFINE P == Priced(c)
      <3>1. P = b + 1 .. b + m
        BY DEF Priced, b, m, R
      <3>2. Priced(at[u])' = b + 1 .. b + (m + 1)
        <4>1. at'[u] = c /\ Len(chunks'[at'[u]]) = m + 1
          BY <1>1, <1>10, <2>1
        <4> QED
          BY <4>1 DEF Priced, b, R
      <3>3. b + 1 .. b + (m + 1) = P \cup {b + m + 1} /\ b + m + 1 \notin P
        <4> DEFINE e == b + m
        <4>1. e \in Int /\ b <= e /\ b + (m + 1) = e + 1 /\ P = b + 1 .. e
          BY <1>7, <1>8, <3>1
        <4> HIDE DEF e, P
        <4>2. b + 1 .. e + 1 = (b + 1 .. e) \cup {e + 1} /\ e + 1 \notin b + 1 .. e
          BY <1>7, <4>1
        <4> QED
          BY <4>1, <4>2 DEF e
      <3>4. BadRows(Priced(at[u]))' = BadRows(P) \cup (IF IsUnresolved(k) THEN {b + m + 1} ELSE {})
        <4>1. BadRows(Priced(at[u]))' = {j \in P \cup {b + m + 1} : IsUnresolved(Trades[j])}
          BY <1>1, <1>5, <3>2, <3>3 DEF BadRows, IsUnresolved
        <4> QED
          BY <4>1 DEF BadRows
      <3>5. IsFiniteSet(BadRows(P)) /\ b + m + 1 \notin BadRows(P)
        <4>1. b + 1 \in Int /\ b + m \in Int /\ P \subseteq b + 1 .. b + m
          BY <1>7, <1>8, <3>1
        <4> QED
          BY <3>3, <4>1, BadRowsFinite DEF BadRows
      <3>6. bad'[u] = (IF IsUnresolved(k) THEN bad[t] + 1 ELSE bad[t]) /\ bad[t] = Cardinality(BadRows(P))
        BY <1>1, <1>3, <2>1
      <3> HIDE DEF P, k
      <3>7. CASE IsUnresolved(k)
        BY <3>4, <3>5, <3>6, <3>7, FS_AddElement
      <3>8. CASE ~IsUnresolved(k)
        BY <3>4, <3>6, <3>8
      <3> QED
        BY <3>7, <3>8
    <2>2. CASE u # t
      <3>1. at'[u] = at[u] /\ bad'[u] = bad[u] /\ at[u] # Nothing /\ at[u] # c /\ at[u] \in Chunk
        BY <1>1, <1>3, <2>2 DEF LoopInv
      <3>2. Priced(at[u])' = Priced(at[u])
        BY <1>1, <1>11, <3>1 DEF Priced
      <3>3. BadRows(Priced(at[u]))' = BadRows(Priced(at[u]))
        BY <1>1, <1>5, <3>2 DEF BadRows, IsUnresolved
      <3> QED
        BY <1>3, <3>1, <3>3
    <2> QED
      BY <2>1, <2>2
  <1> QED
    BY <1>1, <1>2, <1>3, <1>4, <1>14, <1>15, <1>16, TradesThreadMoves

\* The positions of a chunk that is through are its rows.
LEMMA RowsOfChunk ==
    ASSUME lines \in TradeFiles, NEW c \in Chunk, ChunkRight(c),
           Len(chunks[c]) = RowsPerChunk \/ c * RowsPerChunk + Len(chunks[c]) = Len(Trades)
    PROVE  \A j \in 1 .. Len(Trades) : ChunkOf(j) = c <=> j \in Priced(c)
  <1> DEFINE R == RowsPerChunk
             n == Len(Trades)
             b == c * R
             m == Len(chunks[c])
  <1>1. n \in Nat /\ R \in Nat /\ b \in Int
    BY ChunkFacts DEF Chunk
  <1>2. m \in Nat /\ m <= R /\ b + m <= n /\ (m = R \/ b + m = n)
    BY DEF ChunkRight
  <1>3. \A j \in 1 .. n : ChunkOf(j) = c <=> b < j /\ j <= b + R
    BY ChunkOfFacts
  <1>4. Priced(c) = b + 1 .. b + m
    BY DEF Priced
  <1> HIDE DEF R, n, b, m
  <1>5. \A j \in 1 .. n : (b < j /\ j <= b + R) <=> j \in b + 1 .. b + m
    BY <1>1, <1>2
  <1> QED
    BY <1>3, <1>4, <1>5 DEF n

\* The count of a chunk is added once, with the chunk behind.
LEMMA TradesEnds ==
    ASSUME TradesInv, NEW t \in Thread, EndChunk(t)
    PROVE  TradesInv'
  <1> DEFINE c == at[t]
             R == RowsPerChunk
             n == Len(Trades)
  <1>1. /\ c # Nothing /\ verdict = "none" /\ status = "running" /\ ~InChunk(t) /\ LeaveIndex(t)
        /\ UNCHANGED <<todo, step, lines, opened, out, verdict, chunks, bad>>
        /\ busy' = busy \ {c} /\ at' = [at EXCEPT ![t] = Nothing]
        /\ unresolved' = unresolved + bad[t]
    BY DEF EndChunk, LeaveIndex, Complete, Live
  <1>2. /\ step = "pool" /\ LoopInv /\ Working /\ lines \in TradeFiles
        /\ bad \in [Thread -> Nat] /\ unresolved \in Nat
        /\ \A u \in Thread : at[u] # Nothing => /\ at[u] \in busy /\ at[u] \in Chunk /\ at[u] \notin todo
                                                /\ bad[u] = Cardinality(BadRows(Priced(at[u])))
    BY <1>1, TradesRunning
  <1>3. LoopInv'
    BY <1>1, <1>2, LoopLeaves
  <1>4. /\ Trades' = Trades /\ (TradesParse' <=> TradesParse) /\ Chunk' = Chunk
        /\ \A rows : BadRows(rows)' = BadRows(rows)
    BY <1>1, TradesKept
  <1>5. c \in Chunk /\ c \in busy /\ c \notin todo /\ ChunkRight(c)
    BY <1>1, <1>2 DEF Working
  <1>6. Len(chunks[c]) = R \/ c * R + Len(chunks[c]) = n
    <2> DEFINE b == c * R
               m == Len(chunks[c])
    <2>1. n \in Nat /\ R \in Nat /\ c \in Nat
      BY <1>2, <1>5, ChunkFacts DEF Chunk
    <2>2. b \in Int
      BY <2>1
    <2>3. chunks[c] \in Seq(Nat) /\ m <= R /\ b + m <= n
      BY <1>5 DEF ChunkRight
    <2>4. m \in Nat
      BY <2>3
    <2>5. ~(b + m + 1 <= n /\ m < R)
      BY <1>1 DEF InChunk, NextRow
    <2> HIDE DEF b, m, n, R
    <2>6. m = R \/ b + m = n
      BY <2>1, <2>2, <2>3, <2>4, <2>5
    <2> QED
      BY <2>6 DEF b, m
  <1>7. \A j \in 1 .. n : ChunkOf(j) = c <=> j \in Priced(c)
    BY <1>2, <1>5, <1>6, RowsOfChunk
  <1>8. Priced(c) \subseteq 1 .. n
    <2> DEFINE b == c * R
               m == Len(chunks[c])
    <2>1. n \in Nat /\ R \in Nat /\ c \in Nat
      BY <1>2, <1>5, ChunkFacts DEF Chunk
    <2>2. b \in Nat
      BY <2>1
    <2>3. chunks[c] \in Seq(Nat) /\ b + m <= n /\ Priced(c) = b + 1 .. b + m
      BY <1>5 DEF ChunkRight, Priced
    <2>4. m \in Nat
      BY <2>3
    <2> HIDE DEF b, m, n
    <2> QED
      BY <2>1, <2>2, <2>3, <2>4
  <1>9. \A d \in Chunk : ChunkRight(d)'
    <2> SUFFICES ASSUME NEW d \in Chunk PROVE ChunkRight(d)'
      OBVIOUS
    <2>1. ChunkRight(d)
      BY <1>2 DEF Working
    <2>2. d \notin todo' \cup busy' => \/ Len(chunks'[d]) = RowsPerChunk
                                       \/ d * RowsPerChunk + Len(chunks'[d]) = Len(Trades)'
      BY <1>1, <1>4, <1>6, <2>1 DEF ChunkRight
    <2>3. d \in todo' => chunks'[d] = <<>>
      BY <1>1, <2>1 DEF ChunkRight
    <2>4. /\ chunks'[d] \in Seq(Nat)
          /\ Len(chunks'[d]) <= RowsPerChunk /\ d * RowsPerChunk + Len(chunks'[d]) <= Len(Trades)'
          /\ \A j \in 1 .. Len(chunks'[d]) : chunks'[d][j] = Trades'[d * RowsPerChunk + j]
      BY <1>1, <1>4, <2>1 DEF ChunkRight
    <2> QED
      BY <2>2, <2>3, <2>4 DEF ChunkRight
  <1>10. Counted' = Counted \cup Priced(c) /\ Counted \cap Priced(c) = {}
    <2>1. Counted' = {j \in 1 .. n : ChunkOf(j) \notin todo \cup (busy \ {c})}
      BY <1>1, <1>4 DEF Counted, ChunkOf
    <2>2. Counted = {j \in 1 .. n : ChunkOf(j) \notin todo \cup busy}
      BY DEF Counted
    <2> HIDE DEF c, n
    <2> QED
      BY <1>5, <1>7, <1>8, <2>1, <2>2
  <1>11. unresolved' = Cardinality(BadRows(Counted))'
    <2> DEFINE A == BadRows(Counted)
               B == BadRows(Priced(c))
    <2>1. BadRows(Counted)' = A \cup B /\ A \cap B = {}
      BY <1>1, <1>4, <1>10 DEF BadRows, IsUnresolved
    <2>2. IsFiniteSet(A) /\ IsFiniteSet(B) /\ Cardinality(A) \in Nat /\ Cardinality(B) \in Nat
      <3>1. n \in Int /\ 1 \in Int /\ Counted \subseteq 1 .. n
        BY <1>2, ChunkFacts DEF Counted
      <3> QED
        BY <1>8, <3>1, BadRowsFinite
    <2>3. unresolved = Cardinality(A) /\ bad[t] = Cardinality(B)
      BY <1>1, <1>2 DEF Working
    <2> HIDE DEF A, B
    <2>4. Cardinality(A \cap B) = 0
      BY <2>1, FS_EmptySet
    <2>5. Cardinality(A \cup B) = Cardinality(A) + Cardinality(B) - Cardinality(A \cap B)
      BY <2>2, FS_Union
    <2>6. Cardinality(A \cup B) = Cardinality(A) + Cardinality(B)
      BY <2>2, <2>4, <2>5
    <2> QED
      BY <1>1, <2>1, <2>3, <2>6
  <1>12. Working'
    BY <1>1, <1>2, <1>4, <1>9, <1>11 DEF Working
  <1>13. bad' \in [Thread -> Nat] /\ unresolved' \in Nat
    BY <1>1, <1>2
  <1>14. BadRight'
    <2> SUFFICES ASSUME NEW u \in Thread, at'[u] # Nothing
                 PROVE  bad'[u] = Cardinality(BadRows(Priced(at[u])))'
      BY DEF BadRight
    <2>1. at'[u] = at[u] /\ at[u] # Nothing
      BY <1>1, <1>2 DEF LoopInv
    <2>2. Priced(at[u])' = Priced(at[u])
      BY <1>1, <2>1 DEF Priced
    <2>3. BadRows(Priced(at[u]))' = BadRows(Priced(at[u]))
      BY <1>1, <1>4, <2>2 DEF BadRows, IsUnresolved
    <2> QED
      BY <1>1, <1>2, <2>1, <2>3
  <1> QED
    BY <1>1, <1>2, <1>3, <1>12, <1>13, <1>14, TradesThreadMoves

\* Every step of trades.
LEMMA TradesSteps ==
    ASSUME TradesInv, TradesMain \/ \E t \in Thread : TradesThread(t)
    PROVE  TradesInv'
  <1>1. CASE TradesMain
    BY <1>1, TradesRefuses, TradesParses, TradesReturns, TradesOpens, TradesWrites DEF TradesMain
  <1>2. CASE \E t \in Thread : TradesThread(t)
    BY <1>2, TradesTakes, TradesPrices, TradesEnds DEF TradesThread
  <1> QED
    BY <1>1, <1>2

-----------------------------------------------------------------------------
(* The processes together. *)

\* The process, the others, the log and the page at their start.
LEMMA SimStarts == InitSim => SimInv
  <1> SUFFICES ASSUME InitSim PROVE SimInv
    OBVIOUS
  <1>1. LogInv /\ sim[Me] = "run"
    BY LogInit, MeIsSim DEF InitSim, InitRunLog
  <1>2. CASE command = "trades" /\ InitTrades
    BY <1>1, <1>2, TradesStarts DEF SimInv
  <1>3. CASE command = "snapshot" /\ InitSnapshot
    BY <1>1, <1>3, SnapshotStarts DEF SimInv
  <1>4. CASE command = "strategy"
    BY <1>1, <1>4 DEF SimInv
  <1> QED
    BY <1>2, <1>3, <1>4 DEF InitSim

\* The steps of the command keep its invariant and leave the log alone.
LEMMA CommandSteps ==
    ASSUME SimInv, MainStep \/ \E t \in Thread : PoolStep(t)
    PROVE  SimInv'
  <1>1. UNCHANGED <<logVars, command>>
    BY DEF MainStep, PoolStep, Others
  <1>2. LogInv' /\ sim' = sim
    BY <1>1, LogUnchanged DEF SimInv, logVars
  <1>3. command = "trades" => TradesInv'
    BY TradesSteps DEF SimInv, MainStep, PoolStep
  <1>4. command = "snapshot" => SnapshotInv'
    BY SnapshotSteps DEF SimInv, MainStep, PoolStep
  <1>5. verdict = "none"
    BY DEF MainStep, PoolStep, TradesMain, TradesThread, SnapshotMain, SnapshotThread, StrategyMain,
       OpenTrades, EndStrategy, Refuse, ParseTrades,
       PoolReturns, OpenResults, WriteResults, TakeChunk, TakeIndex, PriceRow, EndChunk, ParseTimestamps,
       OpenRows, BeginRow, AppendRow, CloseRows, TakeInstrument, LookUp, Live
  <1>6. sim[Me] \notin {"log", "unlogged", "exited"}
    BY <1>5 DEF SimInv
  <1> QED
    BY <1>1, <1>2, <1>3, <1>4, <1>6 DEF SimInv

\* The steps of the processes keep the log, and a command that has ended stays as it is.
LEMMA ProcessSteps ==
    ASSUME SimInv, NEW p \in Sim, FinishSim(p) \/ LogStep(p) \/ KillSim(p)
    PROVE  SimInv'
  <1>1. /\ UNCHANGED <<loopVars, step, at, lines, opened, out, tradesOwn, snapshotOwn, command>>
        /\ (UNCHANGED verdict \/ (verdict = "none" /\ verdict' \in {"none", "killed"}))
    BY DEF FinishSim, LogStep, KillSim, commandVars, Live
  <1>2. LogInv'
    BY LogMoves DEF SimInv, FinishSim, LogStep, KillSim, LogMove
  <1>3. (command = "trades" => TradesInv') /\ (command = "snapshot" => SnapshotInv')
    BY <1>1, TradesKilled, SnapshotKilled DEF SimInv
  <1>4. sim'[Me] \in {"log", "unlogged", "exited"} => verdict' = "ok"
    <2>1. sim \in [Sim -> {"run", "log", "exited", "unlogged", "failed", "killed"}]
      BY DEF SimInv, LogInv
    <2>2. CASE FinishSim(p)
      <3>1. PICK ok \in BOOLEAN : (p = Me => ok = (verdict = "ok")) /\ Finish(p, ok)
        BY <2>2 DEF FinishSim
      <3>2. UNCHANGED verdict
        BY <2>2 DEF FinishSim, commandVars
      <3>3. CASE p = Me
        <4>1. CASE ok
          BY <3>1, <3>2, <3>3, <4>1
        <4>2. CASE ~ok
          <5>1. sim' = [sim EXCEPT ![Me] = "failed"]
            BY <3>1, <3>3, <4>2 DEF Finish, AfterCommand
          <5> QED
            BY <2>1, <5>1, MeIsSim
        <4> QED
          BY <4>1, <4>2
      <3>4. CASE p # Me
        <4>1. sim'[Me] = sim[Me]
          BY <2>1, <3>1, <3>4, MeIsSim DEF Finish
        <4> QED
          BY <3>2, <4>1 DEF SimInv
      <3> QED
        BY <3>3, <3>4
    <2>3. CASE LogStep(p)
      <3>1. UNCHANGED verdict /\ sim[p] = "log" /\ \E s : sim' = [sim EXCEPT ![p] = s]
        BY <2>3 DEF LogStep, AppendLine, CutShort, commandVars
      <3>2. p # Me => sim'[Me] = sim[Me]
        BY <2>1, <3>1, MeIsSim
      <3> QED
        BY <3>1, <3>2 DEF SimInv
    <2>4. CASE KillSim(p)
      <3>1. sim' = [sim EXCEPT ![p] = "killed"] /\ verdict' = IF p = Me /\ Live THEN "killed" ELSE verdict
        BY <2>4 DEF KillSim, Kill
      <3>2. p # Me => sim'[Me] = sim[Me]
        BY <2>1, <3>1, MeIsSim
      <3>3. p = Me => sim'[Me] = "killed"
        BY <2>1, <3>1, MeIsSim
      <3> QED
        BY <3>1, <3>2, <3>3 DEF SimInv
    <2> QED
      BY <2>2, <2>3, <2>4
  <1> QED
    BY <1>1, <1>2, <1>3, <1>4 DEF SimInv

\* The page shows what it can read.
LEMMA PollSteps == ASSUME SimInv, Poll PROVE SimInv'
  <1>1. /\ UNCHANGED <<loopVars, step, at, lines, opened, out, tradesOwn, snapshotOwn, command>>
        /\ UNCHANGED <<verdict, sim>>
    BY DEF Poll, PollLog, commandVars
  <1>2. LogInv'
    BY PollLogKeeps DEF SimInv, Poll
  <1>3. (command = "trades" => TradesInv') /\ (command = "snapshot" => SnapshotInv')
    BY <1>1, TradesKilled, SnapshotKilled DEF SimInv
  <1> QED
    BY <1>1, <1>2, <1>3 DEF SimInv

\* The invariant speaks of the variables only.
LEMMA SimStutters == ASSUME SimInv, UNCHANGED simVars PROVE SimInv'
  <1>1. /\ UNCHANGED <<loopVars, step, at, lines, opened, out, tradesOwn, snapshotOwn, command>>
        /\ UNCHANGED <<verdict, sim>> /\ UNCHANGED logVars
    BY DEF simVars, commandVars, logVars
  <1>2. LogInv'
    BY <1>1, LogUnchanged DEF SimInv
  <1>3. (command = "trades" => TradesInv') /\ (command = "snapshot" => SnapshotInv')
    BY <1>1, TradesKilled, SnapshotKilled DEF SimInv
  <1> QED
    BY <1>1, <1>2, <1>3 DEF SimInv

\* Every step of the process, of the others and of the page keeps the invariant.
LEMMA SimInvariant == SpecSim => []SimInv
  <1>1. SimInv /\ [NextSim]_simVars => SimInv'
    BY CommandSteps, ProcessSteps, PollSteps, SimStutters DEF NextSim
  <1> QED
    BY <1>1, SimStarts, PTL DEF SpecSim

-----------------------------------------------------------------------------
(* The theorems. *)

\* Whichever thread prices which chunk and whenever, for any number of threads and any size of the
\* chunks: trades that succeeds has written the rows and the count of a single thread.
THEOREM SimPricesAsSerial == SpecSim => []PricedAsSerial
  <1>1. SimInv => PricedAsSerial
    BY DEF SimInv, TradesInv, PricedAsSerial
  <1> QED
    BY <1>1, SimInvariant, PTL

\* Whatever the row buffer held before, every row of a snapshot is that of its timestamp.
THEOREM SimRowsFromScratch == SpecSim => []RowsFromScratch
  <1>1. SimInv => RowsFromScratch
    BY DEF SimInv, SnapshotInv, RowsFromScratch
  <1> QED
    BY <1>1, SimInvariant, PTL

\* Trades and snapshot that refuse their input have not touched the output file of an earlier run.
THEOREM SimKeepsOldOutput == SpecSim => []OldOutputKept
  <1>1. SimInv => OldOutputKept
    BY DEF SimInv, TradesInv, SnapshotInv, OldOutputKept
  <1> QED
    BY <1>1, SimInvariant, PTL

\* Any number of runs append to one log, and no line ends in another one's middle.
THEOREM SimLinesApart == SpecSim => []LinesApart
  <1>1. SimInv => LinesApart
    BY DEF SimInv, LogInv
  <1> QED
    BY <1>1, SimInvariant, PTL

\* The dashboard shows a run only when its command has returned, and a run of trades or snapshot
\* then has a complete output.
THEOREM SimShownIsTrue == SpecSim => []ShownIsTrue
  <1>1. ASSUME SimInv, NEW p \in shown
        PROVE  sim[p] = "exited" /\ (p = Me => verdict = "ok" /\ OutputWhole)
    <2>1. sim[p] = "exited"
      BY <1>1 DEF SimInv, LogInv
    <2>2. ASSUME p = Me PROVE verdict = "ok" /\ OutputWhole
      <3>1. verdict = "ok"
        BY <1>1, <2>1, <2>2 DEF SimInv
      <3>2. command = "trades" => out = Trades
        BY <1>1, <3>1 DEF SimInv, TradesInv, TradesAsSerial
      <3>3. ASSUME command = "snapshot" PROVE out = [k \in DOMAIN Stamps |-> FromScratch(Stamps[k])]
        <4>1. /\ Stamps \in Seq(Times) /\ out \in Seq([0 .. Width - 1 -> Times \cup {NaN}])
              /\ Len(out) = Len(Stamps) /\ \A k \in DOMAIN out : out[k] = FromScratch(Stamps[k])
          BY <1>1, <3>1, <3>3, StampsTyped DEF SimInv, SnapshotInv, SnapshotsFromScratch
        <4>2. DOMAIN out = DOMAIN Stamps /\ out = [k \in DOMAIN out |-> out[k]]
          BY <4>1
        <4> QED
          BY <4>1, <4>2
      <3> QED
        BY <3>1, <3>2, <3>3 DEF OutputWhole
    <2> QED
      BY <2>1, <2>2
  <1>2. SimInv => ShownIsTrue
    BY <1>1 DEF ShownIsTrue
  <1> QED
    BY <1>2, SimInvariant, PTL

=============================================================================
