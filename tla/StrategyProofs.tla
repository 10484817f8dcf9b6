---------------------------- MODULE StrategyProofs ----------------------------
(***************************************************************************)
(* Proofs about the strategy: about StrategyRun for any number of threads,  *)
(* instruments and trades, any regions and any size of the text buffer;     *)
(* about StrategySegment for any window, thresholds, prices and number of   *)
(* records.  The sums of the latter are the library's, so what a sum over a *)
(* finite set is comes first.                                               *)
(***************************************************************************)
EXTENDS StrategyRun, StrategySegment, FiniteSetTheorems, IntegerLemmas, TLAPS

\* An action that leaves the instruments alone leaves their number alone.
LEMMA SameSize == ASSUME UNCHANGED rows PROVE size' = size /\ Instrument' = Instrument
  BY DEF size, Instrument

\* Nobody works, nothing is handed over.
LEMMA StrategyInit == InitStrategy => StrategyInv
  <1> SUFFICES ASSUME InitStrategy PROVE StrategyInv
    OBVIOUS
  <1>1. /\ status = "idle" /\ todo = {} /\ busy = {} /\ fails \subseteq DOMAIN rows
        /\ pc = [t \in Thread |-> "idle"] /\ cur = [t \in Thread |-> 0] /\ m = NoThread
        /\ finished = [id \in DOMAIN rows |-> Empty] /\ nextEmit = 0
        /\ step = "begin" /\ error = FALSE /\ verdict = "none"
    BY DEF InitStrategy, Init
  <1>2. PICK c \in Sizes : rows \in [0 .. c - 1 -> 0 .. MaxRows]
    BY DEF InitStrategy
  <1>3. c \in Nat /\ Instrument = 0 .. c - 1
    BY <1>2, SizesNat DEF Instrument
  <1>4. size = c
    <2>1. Cardinality(0 .. c - 1) = IF 0 > c - 1 THEN 0 ELSE (c - 1) - 0 + 1
      BY <1>3, FS_Interval
    <2> QED
      BY <1>3, <2>1 DEF size, Instrument
  <1>5. StrategyTypeOK /\ fails \subseteq Instrument
    <2>1. rows \in [Instrument -> Nat]
      <3>1. 0 .. MaxRows \subseteq Nat
        BY BoundsNat
      <3>2. rows \in [Instrument -> 0 .. MaxRows]
        BY <1>2, <1>3
      <3> QED
        BY <3>1, <3>2
    <2>2. finished \in [Instrument -> Nat \cup {Empty}]
      BY <1>1 DEF Instrument
    <2>3. /\ pc \in [Thread -> {"idle", "run", "catch", "hand", "emit"}] /\ cur \in [Thread -> Nat]
      BY <1>1
    <2>4. size \in Nat /\ Instrument = 0 .. size - 1 /\ nextEmit \in 0 .. size
      BY <1>1, <1>3, <1>4
    <2>5. fails \subseteq Instrument
      BY <1>1 DEF Instrument
    <2> QED
      BY <1>1, <2>1, <2>2, <2>3, <2>4, <2>5 DEF StrategyTypeOK
  <1>6. HeldToEmit /\ WorkApart
    BY <1>1, NoThreadApart DEF HeldToEmit, WorkApart, Working
  <1>7. HandedOver /\ ErrorKept
    BY <1>1 DEF HandedOver, ErrorKept
  <1>8. Concluded
    BY <1>1 DEF Concluded
  <1>9. NothingStranded
    BY <1>1, <1>3, <1>4 DEF NothingStranded, Instrument
  <1>10. SuccessIsComplete
    BY <1>1 DEF SuccessIsComplete
  <1> QED
    BY <1>5, <1>6, <1>7, <1>8, <1>9, <1>10 DEF StrategyInv

-----------------------------------------------------------------------------
(* One lemma per action. *)

\* Outside of the loop no thread is at work.
LEMMA IdleOutside ==
    ASSUME StrategyInv, step # "pool"
    PROVE  /\ todo = {} /\ busy = {} /\ status # "running"
           /\ \A t \in Thread : ~Working(t) /\ pc[t] = "idle"
  BY DEF StrategyInv, WorkApart, Working

\* The loop starts with every instrument to do.
LEMMA StartPoolKeeps == StrategyInv /\ StartPool => StrategyInv'
  <1> SUFFICES ASSUME StrategyInv, StartPool PROVE StrategyInv'
    OBVIOUS
  <1> USE DEF StrategyInv
  <1>1. /\ step = "begin" /\ UNCHANGED <<rows, fails, pc, cur, m, finished, error>>
        /\ UNCHANGED <<nextEmit, pending, file, lost, sums>>
    BY DEF StartPool, inputVars, outVars
  <1>2. size' = size /\ Instrument' = Instrument
    BY <1>1, SameSize
  <1>3. \A t \in Thread : pc[t] = "idle"
    BY <1>1, IdleOutside
  <1>4. todo = {} /\ busy = {} /\ status # "running"
    BY <1>1, IdleOutside
  <1>5. HeldToEmit' /\ NothingStranded'
    BY <1>1, <1>2 DEF HeldToEmit, NothingStranded
  <1>6. CASE step' = "end" /\ verdict' = "failed" /\ UNCHANGED loopVars
    <2>1. UNCHANGED <<status, todo, busy>>
      BY <1>6 DEF loopVars
    <2>2. StrategyTypeOK' /\ (fails \subseteq Instrument)'
      BY <1>1, <1>2, <1>6 DEF StrategyTypeOK
    <2>3. WorkApart'
      BY <1>1, <1>2, <1>6, <2>1 DEF WorkApart, Working
    <2>4. HandedOver' /\ ErrorKept' /\ Concluded' /\ SuccessIsComplete'
      BY <1>6 DEF HandedOver, ErrorKept, Concluded, SuccessIsComplete
    <2> QED
      BY <1>5, <2>2, <2>3, <2>4
  <1>7. CASE size = 0 /\ step' = "close" /\ UNCHANGED <<status, todo, busy, verdict>>
    <2>1. StrategyTypeOK' /\ (fails \subseteq Instrument)'
      BY <1>1, <1>2, <1>7 DEF StrategyTypeOK
    <2>2. WorkApart'
      BY <1>1, <1>2, <1>7 DEF WorkApart, Working
    <2>3. Instrument = {} /\ nextEmit = 0
      BY <1>7 DEF StrategyTypeOK
    <2>4. HandedOver' /\ ErrorKept'
      BY <1>1, <1>2, <1>3, <2>3 DEF HandedOver, ErrorKept
    <2>5. Concluded' /\ SuccessIsComplete'
      BY <1>1, <1>2, <1>7, <2>3 DEF Concluded, SuccessIsComplete
    <2> QED
      BY <1>5, <2>1, <2>2, <2>4, <2>5
  <1>8. CASE size # 0 /\ step' = "pool" /\ Begin(size) /\ UNCHANGED verdict
    <2>1. status' = "running" /\ todo' = Instrument /\ busy' = {}
      BY <1>8 DEF Begin, StrategyTypeOK
    <2>2. StrategyTypeOK' /\ (fails \subseteq Instrument)'
      BY <1>1, <1>2, <1>8 DEF StrategyTypeOK
    <2>3. WorkApart'
      BY <1>1, <1>2, <1>3, <1>8, <2>1 DEF WorkApart, Working
    <2>4. \A id \in Instrument : ~Through(id)'
      BY <1>1, <1>3, <2>1 DEF Through
    <2>5. HandedOver' /\ ErrorKept'
      BY <1>1, <1>2, <1>3, <2>4 DEF HandedOver, ErrorKept
    <2>6. Concluded' /\ SuccessIsComplete'
      BY <1>1, <1>8 DEF Concluded, SuccessIsComplete
    <2> QED
      BY <1>5, <2>2, <2>3, <2>5, <2>6
  <1> QED
    BY <1>6, <1>7, <1>8 DEF StartPool, loopVars

\* A thread takes an instrument that no other has.
LEMMA TakeKeeps ==
    ASSUME NEW t \in Thread, NEW id \in todo, StrategyInv, TakeInstrument(t, id)
    PROVE  StrategyInv'
  <1> USE DEF StrategyInv
  <1>1. /\ pc[t] = "idle" /\ status = "running" /\ status' = status
        /\ todo' = todo \ {id} /\ busy' = busy \cup {id}
        /\ pc' = [pc EXCEPT ![t] = "run"] /\ cur' = [cur EXCEPT ![t] = id]
        /\ UNCHANGED <<rows, fails, step, m, finished, nextEmit, pending, error, verdict>>
    BY DEF TakeInstrument, Take, inputVars, outVars
  <1>2. size' = size /\ Instrument' = Instrument /\ id \in Instrument /\ id \in Nat
    BY <1>1, SameSize DEF WorkApart, StrategyTypeOK
  <1>3. /\ pc'[t] = "run" /\ cur'[t] = id
        /\ \A u \in Thread : u # t => pc'[u] = pc[u] /\ cur'[u] = cur[u]
        /\ pc' \in [Thread -> {"idle", "run", "catch", "hand", "emit"}] /\ cur' \in [Thread -> Nat]
    BY <1>1, <1>2 DEF StrategyTypeOK
  <1>4. StrategyTypeOK' /\ (fails \subseteq Instrument)'
    BY <1>1, <1>2, <1>3 DEF StrategyTypeOK
  <1>5. HeldToEmit'
    BY <1>1, <1>3 DEF HeldToEmit
  <1>6. WorkApart'
    <2>1. /\ todo' \subseteq Instrument /\ busy' \subseteq Instrument /\ todo' \cap busy' = {}
          /\ status' = "running" <=> step' = "pool"
          /\ status' # "running" => todo' = {} /\ busy' = {}
      BY <1>1, <1>2 DEF WorkApart
    <2>2. \A u \in Thread : pc'[u] # "idle" => cur'[u] \in busy'
      BY <1>1, <1>3 DEF WorkApart, Working
    <2>3. \A x \in busy' : \E u \in Thread : pc'[u] # "idle" /\ cur'[u] = x
      BY <1>1, <1>3 DEF WorkApart, Working
    <2>4. \A u, v \in Thread : pc'[u] # "idle" /\ pc'[v] # "idle" /\ cur'[u] = cur'[v] => u = v
      BY <1>1, <1>3 DEF WorkApart, Working
    <2> QED
      BY <1>2, <2>1, <2>2, <2>3, <2>4 DEF WorkApart, Working
  <1>7. \A x : Through(x)' => Through(x)
    BY <1>1, <1>3 DEF Through
  <1>8. HandedOver' /\ ErrorKept'
    BY <1>1, <1>2, <1>3, <1>7 DEF HandedOver, ErrorKept
  <1>9. Concluded' /\ SuccessIsComplete' /\ NothingStranded'
    BY <1>1, <1>2 DEF Concluded, SuccessIsComplete, NothingStranded
  <1> QED
    BY <1>4, <1>5, <1>6, <1>8, <1>9

\* A thread that stays at work on its instrument and does not reach for results.
LEMMA InWorkKeeps ==
    ASSUME NEW t \in Thread, NEW to \in {"catch", "hand"}, StrategyInv,
           pc[t] \in {"run", "catch"}, pc' = [pc EXCEPT ![t] = to],
           error' \in BOOLEAN, error => error', to = "hand" /\ cur[t] \in fails => error',
           UNCHANGED <<loopVars, inputVars, step, cur, m, finished, outVars, verdict>>
    PROVE  StrategyInv'
  <1> USE DEF StrategyInv
  <1>1. /\ UNCHANGED <<status, todo, busy, rows, fails, step, cur, m, finished, nextEmit>>
        /\ UNCHANGED <<pending, verdict>>
    BY DEF loopVars, inputVars, outVars
  <1>2. size' = size /\ Instrument' = Instrument
    BY <1>1, SameSize
  <1>3. /\ pc'[t] = to /\ \A u \in Thread : u # t => pc'[u] = pc[u]
        /\ pc' \in [Thread -> {"idle", "run", "catch", "hand", "emit"}]
    BY DEF StrategyTypeOK
  <1>4. step = "pool"
    BY IdleOutside
  <1>5. StrategyTypeOK' /\ (fails \subseteq Instrument)'
    BY <1>1, <1>2, <1>3 DEF StrategyTypeOK
  <1>6. HeldToEmit'
    BY <1>1, <1>3 DEF HeldToEmit
  <1>7. WorkApart'
    <2>1. \A u \in Thread : pc'[u] # "idle" <=> pc[u] # "idle"
      BY <1>3
    <2> QED
      BY <1>1, <1>2, <2>1 DEF WorkApart, Working
  <1>8. \A x : Through(x)' => Through(x)
    BY <1>1, <1>3 DEF Through
  <1>9. HandedOver' /\ ErrorKept'
    BY <1>1, <1>2, <1>3, <1>8 DEF HandedOver, ErrorKept
  <1>10. Concluded' /\ SuccessIsComplete' /\ NothingStranded'
    BY <1>1, <1>2, <1>4 DEF Concluded, SuccessIsComplete, NothingStranded
  <1> QED
    BY <1>5, <1>6, <1>7, <1>9, <1>10

\* A simulation touches nothing that is shared.
LEMMA RunKeeps == ASSUME NEW t \in Thread, StrategyInv, RunInstrument(t) PROVE StrategyInv'
  <1>1. /\ pc[t] = "run" /\ UNCHANGED <<loopVars, inputVars, step, cur, m, finished, outVars, error, verdict>>
        /\ pc' = [pc EXCEPT ![t] = IF cur[t] \in fails THEN "catch" ELSE "hand"]
    BY DEF RunInstrument
  <1>2. error \in BOOLEAN
    BY DEF StrategyInv, StrategyTypeOK
  <1>3. CASE cur[t] \in fails
    BY <1>1, <1>2, <1>3, InWorkKeeps
  <1>4. CASE cur[t] \notin fails
    BY <1>1, <1>2, <1>4, InWorkKeeps
  <1> QED
    BY <1>3, <1>4

\* The handler records the error before it hands over.
LEMMA RecordKeeps == ASSUME NEW t \in Thread, StrategyInv, Record(t) PROVE StrategyInv'
  <1>1. /\ pc[t] = "catch" /\ UNCHANGED <<loopVars, inputVars, step, cur, m, finished, outVars, verdict>>
        /\ pc' = [pc EXCEPT ![t] = "hand"] /\ error' = TRUE
    BY DEF Record, AfterRecord
  <1> QED
    BY <1>1, InWorkKeeps

\* Results are handed over only under m, whose holder emits.
LEMMA HandOverKeeps == ASSUME NEW t \in Thread, StrategyInv, HandOver(t) PROVE StrategyInv'
  <1> USE DEF StrategyInv
  <1>1. /\ pc[t] = "hand" /\ m = NoThread /\ m' = t
        /\ finished' = [finished EXCEPT ![cur[t]] = rows[cur[t]]]
        /\ pc' = [pc EXCEPT ![t] = "emit"]
        /\ UNCHANGED <<status, todo, busy, rows, fails, step, cur, nextEmit, pending, error, verdict>>
    BY DEF HandOver, loopVars, inputVars, outVars
  <1>2. size' = size /\ Instrument' = Instrument
    BY <1>1, SameSize
  <1>3. /\ pc'[t] = "emit" /\ \A u \in Thread : u # t => pc'[u] = pc[u]
        /\ pc' \in [Thread -> {"idle", "run", "catch", "hand", "emit"}]
    BY <1>1 DEF StrategyTypeOK
  <1>4. step = "pool" /\ cur[t] \in Instrument
    BY <1>1, IdleOutside DEF WorkApart, Working
  <1>5. /\ finished' \in [Instrument -> Nat \cup {Empty}] /\ finished'[cur[t]] # Empty
        /\ \A x \in Instrument : x # cur[t] => finished'[x] = finished[x]
    <2>1. rows[cur[t]] \in Nat /\ rows[cur[t]] # Empty
      BY <1>4 DEF StrategyTypeOK, Empty
    <2> QED
      BY <1>1, <1>4, <2>1 DEF StrategyTypeOK
  <1>6. StrategyTypeOK' /\ (fails \subseteq Instrument)'
    BY <1>1, <1>2, <1>3, <1>5 DEF StrategyTypeOK
  <1>7. HeldToEmit'
    BY <1>1, <1>3, NoThreadApart DEF HeldToEmit
  <1>8. WorkApart'
    <2>1. \A u \in Thread : pc'[u] # "idle" <=> pc[u] # "idle"
      BY <1>1, <1>3
    <2> QED
      BY <1>1, <1>2, <2>1 DEF WorkApart, Working
  <1>9. \A x : Through(x)' => Through(x) \/ x = cur[t]
    BY <1>1, <1>3 DEF Through
  <1>10. HandedOver'
    BY <1>1, <1>2, <1>4, <1>5, <1>9 DEF HandedOver
  <1>11. ErrorKept'
    BY <1>1, <1>3, <1>4, <1>9 DEF ErrorKept
  <1>12. Concluded' /\ SuccessIsComplete'
    BY <1>1, <1>2, <1>4 DEF Concluded, SuccessIsComplete
  <1>13. NothingStranded'
    BY <1>1, NoThreadApart DEF NothingStranded
  <1> QED
    BY <1>6, <1>7, <1>8, <1>10, <1>11, <1>12, <1>13

\* One more instrument is emitted while m is held.
LEMMA EmitNextKeeps == ASSUME NEW t \in Thread, StrategyInv, EmitNext(t) PROVE StrategyInv'
  <1> USE DEF StrategyInv
  <1>1. /\ pc[t] = "emit" /\ nextEmit < size /\ nextEmit' = nextEmit + 1
        /\ finished' = [finished EXCEPT ![nextEmit] = Empty]
        /\ UNCHANGED <<status, todo, busy, rows, fails, step, pc, cur, m, error, verdict>>
    BY DEF EmitNext, TurnHasCome, loopVars, inputVars
  <1>2. size' = size /\ Instrument' = Instrument
    BY <1>1, SameSize
  <1>3. step = "pool" /\ m = t
    BY <1>1, IdleOutside DEF HeldToEmit
  <1>4. nextEmit \in Instrument /\ nextEmit' \in 0 .. size
    BY <1>1 DEF StrategyTypeOK
  <1>5. /\ finished' \in [Instrument -> Nat \cup {Empty}]
        /\ \A x \in Instrument : x # nextEmit => finished'[x] = finished[x]
    BY <1>1 DEF StrategyTypeOK
  <1>6. StrategyTypeOK' /\ (fails \subseteq Instrument)'
    BY <1>1, <1>2, <1>4, <1>5 DEF StrategyTypeOK
  <1>7. HeldToEmit' /\ ErrorKept'
    BY <1>1, <1>2 DEF HeldToEmit, ErrorKept, Through
  <1>8. WorkApart'
    BY <1>1, <1>2 DEF WorkApart, Working
  <1>9. \A x : Through(x)' <=> Through(x)
    BY <1>1 DEF Through
  <1>10. HandedOver'
    <2>1. \A x \in Instrument : x < nextEmit \/ x = nextEmit => x < nextEmit'
      BY <1>1, <1>4 DEF StrategyTypeOK
    <2>2. \A x \in Instrument : Through(x) => x < nextEmit \/ finished[x] # Empty
      BY <1>3 DEF HandedOver
    <2>3. \A x \in Instrument : Through(x) => x < nextEmit' \/ finished'[x] # Empty
      BY <1>5, <2>1, <2>2
    <2> QED
      BY <1>2, <1>9, <2>3 DEF HandedOver
  <1>11. Concluded' /\ SuccessIsComplete'
    BY <1>1, <1>2, <1>3 DEF Concluded, SuccessIsComplete
  <1>12. NothingStranded'
    BY <1>1, <1>3, NoThreadApart DEF NothingStranded
  <1> QED
    BY <1>6, <1>7, <1>8, <1>10, <1>11, <1>12

\* The holder of m leaves only when the next instrument has not been handed over.
LEMMA UnlockKeeps == ASSUME NEW t \in Thread, StrategyInv, Unlock(t) PROVE StrategyInv'
  <1> USE DEF StrategyInv
  <1>1. /\ pc[t] = "emit" /\ m' = NoThread /\ busy' = busy \ {cur[t]}
        /\ pc' = [pc EXCEPT ![t] = "idle"] /\ ~(nextEmit < size /\ finished[nextEmit] # Empty)
        /\ UNCHANGED <<status, todo, rows, fails, step, cur, finished, nextEmit, pending, error, verdict>>
    BY DEF Unlock, NothingToEmit, TurnHasCome, Complete, inputVars, outVars
  <1>2. size' = size /\ Instrument' = Instrument
    BY <1>1, SameSize
  <1>3. /\ pc'[t] = "idle" /\ \A u \in Thread : u # t => pc'[u] = pc[u]
        /\ pc' \in [Thread -> {"idle", "run", "catch", "hand", "emit"}]
    BY <1>1 DEF StrategyTypeOK
  <1>4. step = "pool" /\ m = t
    BY <1>1, IdleOutside DEF HeldToEmit
  <1>5. StrategyTypeOK' /\ (fails \subseteq Instrument)'
    BY <1>1, <1>2, <1>3 DEF StrategyTypeOK
  <1>6. HeldToEmit'
    BY <1>1, <1>3, <1>4, NoThreadApart DEF HeldToEmit
  <1>7. WorkApart'
    <2>1. /\ todo' \subseteq Instrument /\ busy' \subseteq Instrument /\ todo' \cap busy' = {}
          /\ status' = "running" <=> step' = "pool"
          /\ status' # "running" => todo' = {} /\ busy' = {}
      BY <1>1 DEF WorkApart
    <2>2. \A u \in Thread : pc'[u] # "idle" => u # t /\ pc[u] # "idle"
      BY <1>3
    <2>3. \A u \in Thread : pc'[u] # "idle" => cur'[u] \in busy'
      BY <1>1, <2>2 DEF WorkApart, Working
    <2>4. \A x \in busy' : \E u \in Thread : pc'[u] # "idle" /\ cur'[u] = x
      BY <1>1, <1>3 DEF WorkApart, Working
    <2>5. \A u, v \in Thread : pc'[u] # "idle" /\ pc'[v] # "idle" /\ cur'[u] = cur'[v] => u = v
      BY <1>1, <2>2 DEF WorkApart, Working
    <2> QED
      BY <1>2, <2>1, <2>3, <2>4, <2>5 DEF WorkApart, Working
  <1>8. \A x : Through(x)' => Through(x)
    BY <1>1, <1>3 DEF Through
  <1>9. HandedOver' /\ ErrorKept'
    BY <1>1, <1>2, <1>3, <1>8 DEF HandedOver, ErrorKept
  <1>10. Concluded' /\ SuccessIsComplete' /\ NothingStranded'
    BY <1>1, <1>2, <1>4 DEF Concluded, SuccessIsComplete, NothingStranded
  <1> QED
    BY <1>5, <1>6, <1>7, <1>9, <1>10

\* When the loop is done nobody holds m, all is handed over and nothing stranded: all is emitted.
LEMMA PoolReturnsKeeps == StrategyInv /\ PoolReturns => StrategyInv'
  <1> SUFFICES ASSUME StrategyInv, PoolReturns PROVE StrategyInv'
    OBVIOUS
  <1> USE DEF StrategyInv
  <1>1. /\ status = "running" /\ todo = {} /\ busy = {} /\ status' = "idle" /\ step' = "close"
        /\ UNCHANGED <<todo, busy, rows, fails, pc, cur, m, finished, nextEmit, pending, error, verdict>>
    BY DEF PoolReturns, Return, inputVars, outVars
  <1>2. size' = size /\ Instrument' = Instrument
    BY <1>1, SameSize
  <1>3. step = "pool" /\ \A t \in Thread : pc[t] = "idle"
    BY <1>1 DEF WorkApart, Working
  <1>4. m = NoThread
    BY <1>3 DEF HeldToEmit, StrategyTypeOK
  <1>5. nextEmit = size
    <2> SUFFICES ASSUME nextEmit # size PROVE FALSE
      OBVIOUS
    <2>1. nextEmit \in Instrument /\ nextEmit < size /\ ~(nextEmit < nextEmit)
      BY DEF StrategyTypeOK
    <2>2. Through(nextEmit)
      BY <1>1 DEF Through
    <2>3. finished[nextEmit] # Empty
      BY <1>3, <2>1, <2>2 DEF HandedOver
    <2> QED
      BY <1>4, <2>1, <2>3 DEF NothingStranded
  <1>6. StrategyTypeOK' /\ (fails \subseteq Instrument)'
    BY <1>1, <1>2 DEF StrategyTypeOK
  <1>7. HeldToEmit' /\ WorkApart'
    BY <1>1, <1>2, <1>3 DEF HeldToEmit, WorkApart, Working
  <1>8. HandedOver' /\ ErrorKept'
    BY <1>1, <1>2, <1>3 DEF HandedOver, ErrorKept, Through
  <1>9. Concluded' /\ SuccessIsComplete' /\ NothingStranded'
    BY <1>1, <1>2, <1>3, <1>5 DEF Concluded, SuccessIsComplete, NothingStranded
  <1> QED
    BY <1>6, <1>7, <1>8, <1>9

\* What the steps after the loop leave alone.
LEMMA AfterLoop ==
    ASSUME StrategyInv, step \in {"close", "summary"}, step' \in {"close", "summary", "end"},
           verdict' \in {"none", "ok", "failed"},
           UNCHANGED <<loopVars, inputVars, pc, cur, m, finished, nextEmit, error>>
    PROVE  /\ StrategyTypeOK' /\ (fails \subseteq Instrument)' /\ HeldToEmit' /\ WorkApart'
           /\ HandedOver' /\ ErrorKept' /\ NothingStranded'
           /\ size' = size /\ nextEmit' = size
  <1> USE DEF StrategyInv
  <1>1. UNCHANGED <<status, todo, busy, rows, fails>>
    BY DEF loopVars, inputVars
  <1>2. size' = size /\ Instrument' = Instrument
    BY <1>1, SameSize
  <1>3. StrategyTypeOK' /\ (fails \subseteq Instrument)'
    BY <1>1, <1>2 DEF StrategyTypeOK
  <1>4. HeldToEmit' /\ WorkApart'
    BY <1>1, <1>2 DEF HeldToEmit, WorkApart, Working
  <1>5. HandedOver' /\ ErrorKept' /\ NothingStranded'
    BY <1>1, <1>2 DEF HandedOver, ErrorKept, NothingStranded, Through
  <1> QED
    BY <1>2, <1>3, <1>4, <1>5 DEF Concluded

\* Without a recorded error no instrument has failed, for all have been through the loop.
LEMMA CloseTradesKeeps == StrategyInv /\ CloseTrades => StrategyInv'
  <1> SUFFICES ASSUME StrategyInv, CloseTrades PROVE StrategyInv'
    OBVIOUS
  <1> USE DEF StrategyInv
  <1>1. /\ step = "close" /\ step' \in {"summary", "end"}
        /\ UNCHANGED <<loopVars, inputVars, pc, cur, m, finished, nextEmit, error>>
    BY DEF CloseTrades, outVars
  <1>2. verdict = "none" /\ nextEmit = size
    BY <1>1 DEF Concluded
  <1>3. \/ step' = "end" /\ verdict' = "failed"
        \/ step' = "summary" /\ verdict' = "none" /\ pending' = <<>> /\ ~error
    BY <1>1, <1>2 DEF CloseTrades, Rethrown
  <1>4. /\ StrategyTypeOK' /\ (fails \subseteq Instrument)' /\ HeldToEmit' /\ WorkApart'
        /\ HandedOver' /\ ErrorKept' /\ NothingStranded' /\ nextEmit' = size'
    BY <1>1, <1>3, AfterLoop
  <1>5. ~error => fails = {}
    <2>1. \A id \in Instrument : Through(id)
      BY <1>1, IdleOutside DEF Through
    <2> QED
      BY <1>1, <2>1 DEF ErrorKept
  <1>6. fails' = fails /\ error' = error
    BY <1>1 DEF inputVars
  <1>7. Concluded' /\ SuccessIsComplete'
    BY <1>3, <1>4, <1>5, <1>6 DEF Concluded, SuccessIsComplete
  <1> QED
    BY <1>4, <1>7

\* Success is reported with every instrument emitted, none failed and no text pending.
LEMMA WriteSummaryKeeps == StrategyInv /\ WriteSummary => StrategyInv'
  <1> SUFFICES ASSUME StrategyInv, WriteSummary PROVE StrategyInv'
    OBVIOUS
  <1> USE DEF StrategyInv
  <1>1. /\ step = "summary" /\ step' = "end" /\ verdict' \in {"ok", "failed"}
        /\ UNCHANGED <<loopVars, inputVars, pc, cur, m, finished, nextEmit, pending, error>>
    BY DEF WriteSummary, outVars
  <1>2. /\ StrategyTypeOK' /\ (fails \subseteq Instrument)' /\ HeldToEmit' /\ WorkApart'
        /\ HandedOver' /\ ErrorKept' /\ NothingStranded' /\ nextEmit' = size'
    BY <1>1, AfterLoop
  <1>3. pending' = <<>> /\ fails' = {}
    BY <1>1 DEF Concluded, inputVars
  <1>4. Concluded' /\ SuccessIsComplete'
    BY <1>1, <1>2, <1>3 DEF Concluded, SuccessIsComplete
  <1> QED
    BY <1>2, <1>4

\* The invariant speaks of the variables only.
LEMMA StrategyStutter == StrategyInv /\ UNCHANGED strategyVars => StrategyInv'
  <1> SUFFICES ASSUME StrategyInv, UNCHANGED strategyVars PROVE StrategyInv'
    OBVIOUS
  <1> USE DEF StrategyInv
  <1>1. /\ UNCHANGED <<status, todo, busy, rows, fails, step, pc, cur, m, finished, nextEmit>>
        /\ UNCHANGED <<pending, error, verdict>>
    BY DEF strategyVars, loopVars, inputVars, outVars
  <1>2. size' = size /\ Instrument' = Instrument
    BY <1>1, SameSize
  <1>3. StrategyTypeOK' /\ (fails \subseteq Instrument)' /\ HeldToEmit' /\ WorkApart'
    BY <1>1, <1>2 DEF StrategyTypeOK, HeldToEmit, WorkApart, Working
  <1>4. HandedOver' /\ ErrorKept'
    BY <1>1, <1>2 DEF HandedOver, ErrorKept, Through
  <1>5. Concluded' /\ SuccessIsComplete' /\ NothingStranded'
    BY <1>1, <1>2 DEF Concluded, SuccessIsComplete, NothingStranded
  <1> QED
    BY <1>3, <1>4, <1>5

\* Every step of the command and its threads keeps the invariant.
LEMMA StrategyStep == StrategyInv /\ [NextStrategy]_strategyVars => StrategyInv'
  <1> SUFFICES ASSUME StrategyInv, [NextStrategy]_strategyVars PROVE StrategyInv'
    OBVIOUS
  <1>1. CASE MainStep
    BY <1>1, StartPoolKeeps, PoolReturnsKeeps, CloseTradesKeeps, WriteSummaryKeeps DEF MainStep
  <1>2. ASSUME NEW t \in Thread, ThreadStep(t) PROVE StrategyInv'
    BY <1>2, TakeKeeps, RunKeeps, RecordKeeps, HandOverKeeps, EmitNextKeeps, UnlockKeeps
       DEF ThreadStep
  <1>3. CASE UNCHANGED strategyVars
    BY <1>3, StrategyStutter
  <1> QED
    BY <1>1, <1>2, <1>3 DEF NextStrategy, Ended

\* The invariant of the parallel strategy.
LEMMA StrategyInvariant == SpecStrategy => []StrategyInv
  <1> QED
    BY StrategyInit, StrategyStep, PTL DEF SpecStrategy

-----------------------------------------------------------------------------
\* Whenever the mutex of cmdStrategy is free, the instrument whose turn it is has not been
\* handed over: with however many threads, nobody leaves the loop of emissions behind while
\* trades wait that no later thread would emit.
THEOREM StrategyNothingStranded == SpecStrategy => []NothingStranded
  <1>1. StrategyInv => NothingStranded
    BY DEF StrategyInv
  <1> QED
    BY <1>1, StrategyInvariant, PTL

\* A strategy command that reports success has simulated every instrument without an error and
\* has handed every row to the file, whatever the number and the timing of the threads.
THEOREM StrategySuccessIsComplete == SpecStrategy => []SuccessIsComplete
  <1>1. StrategyInv => SuccessIsComplete
    BY DEF StrategyInv
  <1> QED
    BY <1>1, StrategyInvariant, PTL

-----------------------------------------------------------------------------
(* StrategyRun implements SerialStrategy. *)

Row == Nat \X Nat

\* How the rows of a group are picked out of s, one by one.
Picks(f, g, s) ==
    /\ f[0] = <<>>
    /\ \A k \in 1 .. Len(s) : f[k] = IF GroupOf(s[k][1]) = g THEN Append(f[k - 1], s[k]) ELSE f[k - 1]
    /\ \A k \in 0 .. Len(s) : f[k] \in Seq(Row)

\* The rows of a group, as a loop over positions.
LEMMA OfGroupPicks ==
    ASSUME NEW g, NEW s \in Seq(Row)
    PROVE  \E f : Picks(f, g, s) /\ Serial!OfGroup(g, s) = f[Len(s)]
  <1> DEFINE Loop(f) == [k \in 0 .. Len(s) |->
                            IF k = 0 THEN <<>>
                            ELSE IF GroupOf(s[k][1]) = g THEN Append(f[k - 1], s[k]) ELSE f[k - 1]]
             c == Len(s)
             keep == [k \in 1 .. c |-> GroupOf(s[k][1]) = g]
             x == [k \in 1 .. c |-> s[k]]
             F == CHOOSE f : f = Loop(f)
  <1>1. Serial!OfGroup(g, s) = F[c]
    BY DEF Serial!OfGroup
  <1>2. c \in Nat /\ keep \in [1 .. c -> BOOLEAN] /\ x \in [1 .. c -> Row]
    OBVIOUS
  <1>3. \A k \in 1 .. c : (keep[k] <=> GroupOf(s[k][1]) = g) /\ x[k] = s[k]
    OBVIOUS
  <1>4. ASSUME NEW f PROVE f = Loop(f) <=> Gathers(f, c, x, keep)
    <2>1. \A k \in 0 .. c : k # 0 => (keep[k] <=> GroupOf(s[k][1]) = g) /\ x[k] = s[k]
      BY <1>2, <1>3
    <2> HIDE DEF keep, x
    <2>2. ASSUME NEW k \in 0 .. c
          PROVE  (IF k = 0 THEN <<>>
                  ELSE IF GroupOf(s[k][1]) = g THEN Append(f[k - 1], s[k]) ELSE f[k - 1]) =
                 (IF k = 0 THEN <<>> ELSE IF keep[k] THEN Append(f[k - 1], x[k]) ELSE f[k - 1])
      BY <2>1
    <2>3. Loop(f) = [k \in 0 .. c |-> IF k = 0 THEN <<>>
                                     ELSE IF keep[k] THEN Append(f[k - 1], x[k]) ELSE f[k - 1]]
      BY <2>2
    <2> HIDE DEF Loop
    <2> QED
      BY <2>3 DEF Gathers
  <1> HIDE DEF Loop, keep, x, c
  <1>5. PICK f : Gathers(f, c, x, keep)
    BY <1>2, FilterExists
  <1>6. F = Loop(F)
    BY <1>4, <1>5, Zenon
  <1> HIDE DEF F
  <1>7. Gathers(F, c, x, keep)
    BY <1>4, <1>6
  <1>8. /\ F[0] = <<>>
        /\ \A k \in 1 .. c : F[k] = IF keep[k] THEN Append(F[k - 1], x[k]) ELSE F[k - 1]
    BY <1>2, <1>7, FilterRound
  <1>9. \A k \in 0 .. c : F[k] \in Seq(Row)
    <2>1. \A k \in 1 .. c : keep[k] => x[k] \in Row
      BY <1>2
    <2> QED
      BY <1>2, <1>7, <2>1, FilterTyped
  <1>10. Picks(F, g, s)
    BY <1>3, <1>8, <1>9 DEF Picks, c
  <1> QED
    BY <1>1, <1>10 DEF c

\* Rows of one instrument.
LEMMA RowsOfIs ==
    ASSUME NEW id \in Nat, NEW r \in Nat
    PROVE  /\ RowsOf(id, r) \in Seq(Row) /\ Len(RowsOf(id, r)) = r
           /\ \A k \in 1 .. r : RowsOf(id, r)[k] = <<id, k>>
           /\ RowsOf(id, 0) = <<>>
           /\ \A k \in Nat : RowsOf(id, k + 1) = Append(RowsOf(id, k), <<id, k + 1>>)
  BY DEF RowsOf, Row

\* One sequence after another.
LEMMA Joined ==
    ASSUME NEW T, NEW s \in Seq(T), NEW t \in Seq(T)
    PROVE  /\ s \o t \in Seq(T) /\ Len(s \o t) = Len(s) + Len(t)
           /\ \A k \in 1 .. Len(s) : (s \o t)[k] = s[k]
           /\ \A k \in 1 .. Len(t) : (s \o t)[Len(s) + k] = t[k]
  OBVIOUS

\* Rows of one instrument more are among those of its group, and of no other.
LEMMA OfGroupAppend ==
    ASSUME NEW g, NEW s \in Seq(Row), NEW id \in Nat, NEW r \in Nat
    PROVE  Serial!OfGroup(g, s \o RowsOf(id, r)) =
               IF g = GroupOf(id) THEN Serial!OfGroup(g, s) \o RowsOf(id, r) ELSE Serial!OfGroup(g, s)
  <1> DEFINE t == RowsOf(id, r)
             u == s \o t
             L == Len(s)
             Taken(k) == IF g = GroupOf(id) THEN RowsOf(id, k) ELSE <<>>
  <1>1. t \in Seq(Row) /\ Len(t) = r /\ \A k \in 1 .. r : t[k] = <<id, k>>
    BY RowsOfIs
  <1> HIDE DEF t
  <1>a. L \in Nat
    OBVIOUS
  <1> HIDE DEF u, L
  <1>b. /\ s \o t \in Seq(Row) /\ Len(s \o t) = Len(s) + Len(t)
        /\ \A k \in 1 .. Len(s) : (s \o t)[k] = s[k]
        /\ \A k \in 1 .. Len(t) : (s \o t)[Len(s) + k] = t[k]
    <2>1. \A x \in Seq(Row), y \in Seq(Row) :
            /\ x \o y \in Seq(Row) /\ Len(x \o y) = Len(x) + Len(y)
            /\ \A k \in 1 .. Len(x) : (x \o y)[k] = x[k]
            /\ \A k \in 1 .. Len(y) : (x \o y)[Len(x) + k] = y[k]
      <3> HIDE DEF Row
      <3> QED
        BY Joined
    <2> QED
      BY <1>1, <2>1, Zenon
  <1>c. /\ u \in Seq(Row) /\ Len(u) = L + Len(t)
        /\ \A k \in 1 .. L : u[k] = s[k]
        /\ \A k \in 1 .. Len(t) : u[L + k] = t[k]
    BY <1>b, Zenon DEF u, L
  <1>2. u \in Seq(Row) /\ L \in Nat /\ Len(u) = L + r
    BY ONLY <1>1, <1>a, <1>c
  <1>3. \A k \in 1 .. L : u[k] = s[k]
    BY <1>c
  <1>4. \A k \in 1 .. r : u[L + k] = <<id, k>>
    <2>1. \A k \in 1 .. Len(t) : u[L + k] = t[k]
      BY <1>c
    <2> QED
      BY ONLY <1>1, <2>1
  <1>0. /\ g = GroupOf(id) => \A k : Taken(k) = RowsOf(id, k)
        /\ g # GroupOf(id) => \A k : Taken(k) = <<>>
    OBVIOUS
  <1> HIDE DEF Taken
  <1>5. PICK f : Picks(f, g, s) /\ Serial!OfGroup(g, s) = f[L]
    BY OfGroupPicks DEF L
  <1>6. PICK h : Picks(h, g, u) /\ Serial!OfGroup(g, u) = h[L + r]
    BY <1>2, OfGroupPicks
  <1>7. /\ f[0] = <<>>
        /\ \A k \in 1 .. L : f[k] = IF GroupOf(s[k][1]) = g THEN Append(f[k - 1], s[k]) ELSE f[k - 1]
        /\ f[L] \in Seq(Row)
    BY <1>2, <1>5 DEF Picks, L
  <1>8. /\ h[0] = <<>>
        /\ \A k \in 1 .. L + r : h[k] = IF GroupOf(u[k][1]) = g THEN Append(h[k - 1], u[k]) ELSE h[k - 1]
    BY <1>2, <1>6 DEF Picks
  <1>9. h[L] = f[L]
    <2> DEFINE T == {k \in 0 .. L : h[k] = f[k]}
    <2>1. 0 \in T
      BY <1>2, <1>7, <1>8
    <2>2. ASSUME NEW k \in 1 .. L, k - 1 \in T PROVE k \in T
      <3>1. k \in 1 .. L + r /\ k \in 0 .. L
        BY <1>2
      <3>2. h[k - 1] = f[k - 1] /\ u[k] = s[k]
        BY <1>3, <2>2
      <3> QED
        BY <1>7, <1>8, <3>1, <3>2
    <2>3. L \in 0 .. L
      BY <1>2
    <2> HIDE DEF T
    <2>4. L \in T
      BY <1>2, <2>1, <2>2, <2>3, UpTo
    <2> QED
      BY <2>4 DEF T
  <1>10. h[L + r] = f[L] \o Taken(r)
    <2> DEFINE T == {k \in 0 .. r : h[L + k] = f[L] \o Taken(k)}
    <2>1. 0 \in T
      <3>1. Taken(0) = <<>> /\ L + 0 = L /\ f[L] \o <<>> = f[L]
        <4>1. RowsOf(id, 0) = <<>>
          BY RowsOfIs
        <4>2. f[L] \o <<>> = f[L]
          BY <1>7
        <4>3. Taken(0) = <<>>
          BY <1>0, <4>1
        <4> QED
          BY <1>2, <4>2, <4>3
      <3>2. h[L + 0] = f[L] \o Taken(0)
        BY <1>9, <3>1
      <3> QED
        BY <3>2
    <2>2. ASSUME NEW k \in 1 .. r, k - 1 \in T PROVE k \in T
      <3>1. L + k \in 1 .. L + r /\ (L + k) - 1 = L + (k - 1) /\ k - 1 \in Nat /\ (k - 1) + 1 = k
        BY <1>2
      <3>2. u[L + k] = <<id, k>> /\ u[L + k][1] = id
        BY <1>4
      <3>3. h[L + (k - 1)] = f[L] \o Taken(k - 1)
        BY <2>2
      <3>4. h[L + k] = IF GroupOf(id) = g THEN Append(h[L + (k - 1)], <<id, k>>) ELSE h[L + (k - 1)]
        BY <1>8, <3>1, <3>2
      <3>5. CASE g = GroupOf(id)
        <4>1. Taken(k) = RowsOf(id, k) /\ Taken(k - 1) = RowsOf(id, k - 1)
          BY <1>0, <3>5
        <4>2. RowsOf(id, k) = Append(RowsOf(id, k - 1), <<id, k>>) /\ RowsOf(id, k - 1) \in Seq(Row)
          BY <3>1, RowsOfIs
        <4> DEFINE a == f[L]
                   b == RowsOf(id, k - 1)
                   e == <<id, k>>
        <4>3. e \in Row
          BY DEF Row
        <4>4. a \in Seq(Row) /\ b \in Seq(Row)
          BY <1>7, <4>2
        <4>5. h[L + k] = Append(a \o b, e) /\ Taken(k) = Append(b, e)
          BY <3>3, <3>4, <3>5, <4>1, <4>2
        <4> HIDE DEF a, b, e
        <4>6. Append(a \o b, e) = a \o Append(b, e)
          BY <4>3, <4>4
        <4>7. h[L + k] = a \o Taken(k)
          BY <4>5, <4>6
        <4> QED
          BY <4>7 DEF a
      <3>6. CASE g # GroupOf(id)
        <4>1. h[L + k] = h[L + (k - 1)]
          BY <3>4, <3>6
        <4>2. Taken(k) = <<>> /\ Taken(k - 1) = <<>>
          BY <1>0, <3>6
        <4> QED
          <5>1. h[L + k] = f[L] \o Taken(k)
            BY <3>3, <4>1, <4>2
          <5>2. k \in 0 .. r
            OBVIOUS
          <5> QED
            BY <5>1, <5>2
      <3> QED
        BY <3>5, <3>6
    <2>3. r \in 0 .. r
      OBVIOUS
    <2> HIDE DEF T
    <2>4. r \in T
      BY <2>1, <2>2, <2>3, UpTo
    <2> QED
      BY <2>4 DEF T
  <1>11. g # GroupOf(id) => f[L] \o Taken(r) = f[L]
    <2>1. f[L] \o <<>> = f[L]
      BY <1>7
    <2> QED
      BY <1>0, <2>1
  <1> QED
    BY <1>0, <1>5, <1>6, <1>9, <1>10, <1>11 DEF u, t

\* No rows, no rows of a group.
LEMMA OfGroupNone == \A g : Serial!OfGroup(g, <<>>) = <<>>
  <1> TAKE g
  <1>1. <<>> \in Seq(Row) /\ Len(<<>>) = 0
    OBVIOUS
  <1>2. PICK f : Picks(f, g, <<>>) /\ Serial!OfGroup(g, <<>>) = f[0]
    BY <1>1, OfGroupPicks
  <1> QED
    BY <1>2 DEF Picks

SerialStep == Serial!Emit \/ Serial!Conclude \/ Serial!Refuse

\* Steps on which the serial run does nothing.
LEMMA SerialQuiet ==
    ASSUME UNCHANGED <<rows, fails, nextEmit, pending, file, sums, verdict>>
    PROVE  UNCHANGED Serial!vars
  BY DEF Serial!vars

\* It speaks of the emitted output only.
LEMMA EmittedStays ==
    ASSUME EmittedInOrder, step' = "begin" => step = "begin",
           UNCHANGED <<rows, nextEmit, finished, pending, file, sums>>
    PROVE  EmittedInOrder'
  BY DEF EmittedInOrder, Instrument

\* The command is refused before the first instrument.
LEMMA StartPoolSimulates ==
    ASSUME StrategyInv, EmittedInOrder, StartPool
    PROVE  EmittedInOrder' /\ (SerialStep \/ UNCHANGED Serial!vars)
  <1>1. /\ step = "begin" /\ step' # "begin"
        /\ UNCHANGED <<rows, fails, nextEmit, finished, pending, file, sums>>
        /\ verdict' = "failed" \/ verdict' = verdict
    BY DEF StartPool, inputVars, outVars
  <1>2. EmittedInOrder'
    BY <1>1, EmittedStays
  <1>3. verdict = "none" /\ nextEmit = 0
    BY <1>1 DEF StrategyInv, Concluded, StrategyTypeOK, EmittedInOrder
  <1>4. CASE verdict' = "failed"
    <2>1. (file \o pending)' = file \o pending
      BY <1>1
    <2>2. Serial!Refuse
      BY <1>1, <1>3, <1>4, <2>1 DEF Serial!Refuse
    <2> QED
      BY <1>2, <2>2 DEF SerialStep
  <1>5. CASE verdict' = verdict
    BY <1>1, <1>2, <1>5, SerialQuiet
  <1> QED
    BY <1>1, <1>4, <1>5

\* The steps of the threads between two emissions are no steps of the serial run.
LEMMA QuietSimulates ==
    ASSUME StrategyInv, EmittedInOrder, NEW t \in Thread,
           \/ \E id \in todo : TakeInstrument(t, id)
           \/ RunInstrument(t) \/ Record(t) \/ Unlock(t) \/ PoolReturns
    PROVE  EmittedInOrder' /\ UNCHANGED Serial!vars
  <1>1. /\ step' = step \/ step' = "close"
        /\ UNCHANGED <<rows, fails, nextEmit, finished, pending, file, sums, verdict>>
    BY DEF TakeInstrument, RunInstrument, Record, Unlock, PoolReturns, inputVars, outVars
  <1> QED
    BY <1>1, EmittedStays, SerialQuiet

\* An instrument that is handed over waits with all its rows.
LEMMA HandOverSimulates ==
    ASSUME StrategyInv, EmittedInOrder, NEW t \in Thread, HandOver(t)
    PROVE  EmittedInOrder' /\ UNCHANGED Serial!vars
  <1>1. /\ finished' = [finished EXCEPT ![cur[t]] = rows[cur[t]]]
        /\ UNCHANGED <<step, rows, fails, nextEmit, pending, file, sums, verdict>>
    BY DEF HandOver, inputVars, outVars
  <1>2. Instrument' = Instrument /\ finished \in [Instrument -> Nat \cup {Empty}]
    BY <1>1 DEF Instrument, StrategyInv, StrategyTypeOK
  <1>3. \A id \in Instrument : finished'[id] \in {Empty, rows[id]}
    <2> TAKE id \in Instrument
    <2>1. CASE id = cur[t]
      BY <1>1, <1>2, <2>1
    <2>2. CASE id # cur[t]
      BY <1>1, <1>2, <2>2 DEF EmittedInOrder
    <2> QED
      BY <2>1, <2>2
  <1>4. EmittedInOrder'
    BY <1>1, <1>2, <1>3 DEF EmittedInOrder
  <1> QED
    BY <1>1, <1>4, SerialQuiet

\* One turn of the loop under m is the serial run's next instrument: its rows come after all
\* rows before, in the output and in the sums of its group.
LEMMA EmitNextSimulates ==
    ASSUME StrategyInv, EmittedInOrder, NEW t \in Thread, EmitNext(t)
    PROVE  EmittedInOrder' /\ SerialStep
  <1> DEFINE new == RowsOf(nextEmit, finished[nextEmit])
             was == file \o pending
  <1>1. /\ pc[t] = "emit" /\ nextEmit < size /\ finished[nextEmit] # Empty
        /\ nextEmit' = nextEmit + 1 /\ finished' = [finished EXCEPT ![nextEmit] = Empty]
        /\ FlushWhenLong(pending \o new)
        /\ sums' = [g \in DOMAIN sums |-> IF g = GroupOf(nextEmit) THEN sums[g] \o new ELSE sums[g]]
        /\ UNCHANGED <<rows, fails, step, verdict>>
    BY DEF EmitNext, TurnHasCome, inputVars
  <1>2. step = "pool" /\ verdict = "none"
    BY <1>1, IdleOutside DEF StrategyInv, Concluded, StrategyTypeOK
  <1>3. /\ nextEmit \in Nat /\ nextEmit \in Instrument /\ Instrument = 0 .. size - 1
        /\ rows \in [Instrument -> Nat] /\ finished \in [Instrument -> Nat \cup {Empty}]
    BY <1>1 DEF StrategyInv, StrategyTypeOK
  <1>4. finished[nextEmit] = rows[nextEmit] /\ rows[nextEmit] \in Nat
    BY <1>1, <1>3 DEF EmittedInOrder
  <1>5. pending \in Seq(Row) /\ file \in Seq(Row) /\ new \in Seq(Row) /\ was \in Seq(Row)
    <2>1. pending \in Seq(Row) /\ file \in Seq(Row)
      BY DEF EmittedInOrder, Row
    <2>2. new \in Seq(Row)
      BY <1>3, <1>4, RowsOfIs
    <2> QED
      BY <2>1, <2>2
  <1>6. new = RowsOf(nextEmit, rows[nextEmit])
    BY <1>4
  <1> HIDE DEF new
  <1>7. pending' \in Seq(Row) /\ file' \in Seq(Row) /\ file' \o pending' = was \o new
    <2>1. pending \o new \in Seq(Row) /\ <<>> \in Seq(Row)
      BY <1>5
    <2>2. file \o (pending \o new) = was \o new
      BY <1>5
    <2>3. CASE pending' = <<>> /\ file' = file \o (pending \o new)
      <3>1. file' \in Seq(Row) /\ file' \o <<>> = file'
        BY <1>5, <2>1, <2>3
      <3> QED
        BY <2>1, <2>2, <2>3, <3>1
    <2>4. CASE pending' = pending \o new /\ file' = file
      BY <1>5, <2>1, <2>2, <2>4
    <2> QED
      BY <1>1, <2>3, <2>4 DEF FlushWhenLong, Fwrite, Keep
  <1>8. sums = [g \in Groups |-> Serial!OfGroup(g, was)]
    BY DEF EmittedInOrder
  <1>9. \A g : Serial!OfGroup(g, was \o new) =
                  IF g = GroupOf(nextEmit) THEN Serial!OfGroup(g, was) \o new ELSE Serial!OfGroup(g, was)
    <2> DEFINE r == rows[nextEmit]
    <2>1. was \in Seq(Row) /\ r \in Nat /\ new = RowsOf(nextEmit, r)
      BY <1>4, <1>5, <1>6
    <2> HIDE DEF was, r
    <2>2. \A g : Serial!OfGroup(g, was \o RowsOf(nextEmit, r)) =
                    IF g = GroupOf(nextEmit) THEN Serial!OfGroup(g, was) \o RowsOf(nextEmit, r)
                                             ELSE Serial!OfGroup(g, was)
      BY <1>3, <2>1, OfGroupAppend
    <2> QED
      BY <2>1, <2>2
  <1> HIDE DEF was
  <1>10. sums' = [g \in Groups |-> Serial!OfGroup(g, was \o new)]
    <2>1. DOMAIN sums = Groups /\ \A g \in Groups : sums[g] = Serial!OfGroup(g, was)
      BY <1>8
    <2>2. \A g \in Groups : (IF g = GroupOf(nextEmit) THEN sums[g] \o new ELSE sums[g])
                               = Serial!OfGroup(g, was \o new)
      BY <1>9, <2>1
    <2> QED
      BY <1>1, <2>1, <2>2
  <1>11. sums' = [g \in Groups |-> Serial!OfGroup(g, file' \o pending')]
    BY <1>7, <1>10
  <1>12. EmittedInOrder'
    <2>1. Instrument' = Instrument
      BY <1>1 DEF Instrument
    <2>2. \A id \in Instrument : finished'[id] \in {Empty, rows[id]}
      BY <1>1, <1>3 DEF EmittedInOrder
    <2> QED
      BY <1>1, <1>2, <1>7, <1>11, <2>1, <2>2 DEF EmittedInOrder, Row
  <1>13. Serial!Emit
    <2>1. Serial!RowsOf(nextEmit, rows[nextEmit]) = new
      BY <1>6 DEF Serial!RowsOf, RowsOf
    <2>2. DOMAIN sums = Groups /\ DOMAIN rows = Instrument
      BY <1>8 DEF Instrument
    <2> QED
      BY <1>1, <1>2, <1>3, <1>7, <1>11, <2>1, <2>2 DEF Serial!Emit, was
  <1> QED
    BY <1>12, <1>13 DEF SerialStep

\* After the loop all instruments are through; what is still pending is written, or the first
\* error is rethrown.
LEMMA CloseTradesSimulates ==
    ASSUME StrategyInv, EmittedInOrder, CloseTrades
    PROVE  EmittedInOrder' /\ (SerialStep \/ UNCHANGED Serial!vars)
  <1>1. /\ step = "close" /\ step' # "begin"
        /\ UNCHANGED <<rows, fails, finished, nextEmit, sums>>
        /\ \/ UNCHANGED <<pending, file>>
           \/ file' = file \o pending /\ pending' = <<>>
        /\ verdict' = "failed" \/ verdict' = verdict
    BY DEF CloseTrades, Rethrown, Fwrite, inputVars, outVars
  <1>2. pending \in Seq(Row) /\ file \in Seq(Row)
    BY DEF EmittedInOrder, Row
  <1>3. pending' \in Seq(Row) /\ file' \in Seq(Row) /\ file' \o pending' = file \o pending
    <2>1. CASE UNCHANGED <<pending, file>>
      BY <1>2, <2>1
    <2>2. CASE file' = file \o pending /\ pending' = <<>>
      <3>1. file \o pending \in Seq(Row) /\ <<>> \in Seq(Row)
        BY <1>2
      <3>2. (file \o pending) \o <<>> = file \o pending
        BY <3>1
      <3> QED
        BY <2>2, <3>1, <3>2
    <2> QED
      BY <1>1, <2>1, <2>2
  <1>4. EmittedInOrder'
    BY <1>1, <1>3 DEF EmittedInOrder, Row, Instrument
  <1>5. verdict = "none" /\ nextEmit = size /\ size \in Nat /\ DOMAIN rows = 0 .. size - 1
    BY <1>1 DEF StrategyInv, Concluded, StrategyTypeOK, Instrument
  <1>6. nextEmit \notin DOMAIN rows
    BY <1>5
  <1>7. CASE verdict' = "failed"
    <2>1. Serial!Conclude
      BY <1>1, <1>3, <1>5, <1>6, <1>7 DEF Serial!Conclude
    <2> QED
      BY <1>4, <2>1 DEF SerialStep
  <1>8. CASE verdict' = verdict
    BY <1>1, <1>3, <1>4, <1>8 DEF Serial!vars
  <1> QED
    BY <1>1, <1>7, <1>8

\* The end is the end of the serial strategy.
LEMMA WriteSummarySimulates ==
    ASSUME StrategyInv, EmittedInOrder, WriteSummary
    PROVE  EmittedInOrder' /\ SerialStep
  <1>1. /\ step = "summary" /\ step' # "begin" /\ verdict' \in {"ok", "failed"}
        /\ UNCHANGED <<rows, fails, finished, nextEmit, pending, file, sums>>
    BY DEF WriteSummary, inputVars, outVars
  <1>2. EmittedInOrder'
    BY <1>1, EmittedStays
  <1>3. /\ verdict = "none" /\ fails = {} /\ nextEmit = size /\ size \in Nat
        /\ DOMAIN rows = 0 .. size - 1
    BY <1>1 DEF StrategyInv, Concluded, StrategyTypeOK, Instrument
  <1>4. nextEmit \notin DOMAIN rows
    BY <1>3
  <1>5. (file \o pending)' = file \o pending
    BY <1>1
  <1>6. Serial!Conclude
    BY <1>1, <1>3, <1>4, <1>5 DEF Serial!Conclude
  <1> QED
    BY <1>2, <1>6 DEF SerialStep

\* The command starts as the serial one.
LEMMA SerialStart == InitStrategy => EmittedInOrder /\ Serial!Init
  <1> SUFFICES ASSUME InitStrategy PROVE EmittedInOrder /\ Serial!Init
    OBVIOUS
  <1>1. /\ fails \in SUBSET DOMAIN rows /\ nextEmit = 0 /\ pending = <<>> /\ file = <<>>
        /\ finished = [id \in DOMAIN rows |-> Empty] /\ sums = [g \in Groups |-> <<>>]
        /\ verdict = "none" /\ \E c \in Sizes : rows \in [0 .. c - 1 -> 0 .. MaxRows]
    BY DEF InitStrategy
  <1>2. file \o pending = <<>>
    BY <1>1
  <1>3. sums = [g \in Groups |-> Serial!OfGroup(g, <<>>)]
    BY <1>1, OfGroupNone
  <1>4. EmittedInOrder
    BY <1>1, <1>2, <1>3 DEF EmittedInOrder, Instrument
  <1>5. Serial!Init
    BY <1>1, <1>2 DEF Serial!Init
  <1> QED
    BY <1>4, <1>5

\* Every step is one of the serial strategy, or none.
LEMMA StrategySimulates ==
    StrategyInv /\ EmittedInOrder /\ [NextStrategy]_strategyVars
        => EmittedInOrder' /\ [SerialStep]_(Serial!vars)
  <1> SUFFICES ASSUME StrategyInv, EmittedInOrder, [NextStrategy]_strategyVars
               PROVE  EmittedInOrder' /\ (SerialStep \/ UNCHANGED Serial!vars)
    OBVIOUS
  <1>1. CASE StartPool \/ CloseTrades \/ WriteSummary
    BY <1>1, StartPoolSimulates, CloseTradesSimulates, WriteSummarySimulates
  <1>2. CASE PoolReturns
    <2>1. /\ step' = "close"
          /\ UNCHANGED <<rows, fails, nextEmit, finished, pending, file, sums, verdict>>
      BY <1>2 DEF PoolReturns, inputVars, outVars
    <2> QED
      BY <2>1, EmittedStays, SerialQuiet
  <1>3. ASSUME NEW t \in Thread, ThreadStep(t) PROVE EmittedInOrder' /\ (SerialStep \/ UNCHANGED Serial!vars)
    BY <1>3, QuietSimulates, HandOverSimulates, EmitNextSimulates DEF ThreadStep
  <1>4. CASE UNCHANGED strategyVars
    <2>1. UNCHANGED <<step, rows, fails, nextEmit, finished, pending, file, sums, verdict>>
      BY <1>4 DEF strategyVars, inputVars, outVars
    <2> QED
      BY <2>1, EmittedStays, SerialQuiet
  <1> QED
    BY <1>1, <1>2, <1>3, <1>4 DEF NextStrategy, MainStep, Ended

\* cmdStrategy (strategy.cpp:214-256) with any number of threads, whatever their timing and
\* whichever instruments fail, gives the output, the sums and the verdicts that one thread gives
\* which takes the instruments one by one: no row is lost, doubled or out of order, and the sums
\* of every group are added up in the order of its rows in the file.
THEOREM StrategyImplementsSerial == SpecStrategy => ImplementsSerial
  <1>1. InitStrategy => EmittedInOrder /\ Serial!Init
    BY SerialStart
  <1>2. StrategyInv /\ EmittedInOrder /\ [NextStrategy]_strategyVars
            => EmittedInOrder' /\ [Serial!Emit \/ Serial!Conclude \/ Serial!Refuse]_(Serial!vars)
    BY StrategySimulates DEF SerialStep
  <1> QED
    BY <1>1, <1>2, StrategyInvariant, PTL DEF SpecStrategy, ImplementsSerial, Serial!Spec

-----------------------------------------------------------------------------
(* Finite sums. *)

\* Induction over the subsets of a finite set.
LEMMA SubsetsIn ==
    ASSUME NEW T, IsFiniteSet(T), NEW G,
           \A s \in SUBSET T : (\A u \in SUBSET s : u # s => u \in G) => s \in G
    PROVE  SUBSET T \subseteq G
  <1> DEFINE Upto == {k \in Nat : \A s \in SUBSET T : Cardinality(s) < k => s \in G}
  <1>1. \A s \in SUBSET T : IsFiniteSet(s) /\ Cardinality(s) \in Nat
    BY FS_Subset, FS_CardinalityType
  <1>2. 0 \in Upto
    BY <1>1
  <1>3. ASSUME NEW k \in Nat, k \in Upto PROVE k + 1 \in Upto
    <2> SUFFICES ASSUME NEW s \in SUBSET T, Cardinality(s) < k + 1 PROVE s \in G
      OBVIOUS
    <2>1. ASSUME NEW u \in SUBSET s, u # s PROVE u \in G
      <3>1. Cardinality(u) <= Cardinality(s) /\ Cardinality(u) # Cardinality(s)
        BY <1>1, <2>1, FS_Subset
      <3>2. u \in SUBSET T
        OBVIOUS
      <3>3. Cardinality(u) < k
        BY <1>1, <3>1, <3>2
      <3> QED
        BY <1>3, <3>2, <3>3
    <2> QED
      BY <2>1
  <1> HIDE DEF Upto
  <1>4. Nat \subseteq Upto
    BY <1>2, <1>3, NaturalsIn
  <1>5. ASSUME NEW s \in SUBSET T PROVE s \in G
    <2>1. Cardinality(s) + 1 \in Upto /\ Cardinality(s) < Cardinality(s) + 1
      BY <1>1, <1>4
    <2> QED
      BY <2>1 DEF Upto
  <1> QED
    BY <1>5

\* g adds up f over the subsets of S, as FoldFunctionOnSet of the library does.
Pick(s) == CHOOSE x \in s : TRUE
Adds(g, f, S) == g = [s \in SUBSET S |-> IF s = {} THEN 0 ELSE f[Pick(s)] + g[s \ {Pick(s)}]]
Part(g, U) == [s \in SUBSET U |-> g[s]]
Additive(f, S) == \E g : Adds(g, f, S)

\* The element a fold takes next is one of its set.
LEMMA PickIn == \A s : s # {} => Pick(s) \in s
  BY DEF Pick

\* A sum over a set is the value of a recursive function on its subsets.
LEMMA SumIsChoice ==
    \A f, S : SumFunctionOnSet(f, S) = (CHOOSE g : Adds(g, f, S))[S]
  BY DEF SumFunctionOnSet, FoldFunctionOnSet, MapThenFoldSet, Adds, Pick

\* Such a function is one on the subsets.
LEMMA AddsFunction ==
    ASSUME NEW g, NEW f, NEW S, Adds(g, f, S)
    PROVE  g = [s \in SUBSET S |-> g[s]]
  BY DEF Adds

\* What it is at each of them.
LEMMA AddsAt ==
    ASSUME NEW g, NEW f, NEW S, Adds(g, f, S)
    PROVE  \A s \in SUBSET S : g[s] = IF s = {} THEN 0 ELSE f[Pick(s)] + g[s \ {Pick(s)}]
  BY DEF Adds

\* There is one at most, for a finite set loses its elements one by one.
LEMMA AddsUnique ==
    ASSUME NEW S, IsFiniteSet(S), NEW f, NEW g, NEW h, Adds(g, f, S), Adds(h, f, S)
    PROVE  g = h
  <1> DEFINE Same == {s \in SUBSET S : g[s] = h[s]}
  <1>0. /\ \A s \in SUBSET S : g[s] = IF s = {} THEN 0 ELSE f[Pick(s)] + g[s \ {Pick(s)}]
        /\ \A s \in SUBSET S : h[s] = IF s = {} THEN 0 ELSE f[Pick(s)] + h[s \ {Pick(s)}]
    BY AddsAt
  <1>1. ASSUME NEW s \in SUBSET S, \A u \in SUBSET s : u # s => u \in Same PROVE s \in Same
    <2>1. CASE s = {}
      BY <1>0, <2>1
    <2>2. CASE s # {}
      <3>1. Pick(s) \in s
        BY <2>2, PickIn
      <3>2. s \ {Pick(s)} \in Same
        BY <1>1, <3>1
      <3>3. g[s \ {Pick(s)}] = h[s \ {Pick(s)}]
        BY <3>2
      <3> QED
        BY <1>0, <2>2, <3>3
    <2> QED
      BY <2>1, <2>2
  <1>2. SUBSET S \subseteq Same
    <2> HIDE DEF Same
    <2> QED
      BY <1>1, SubsetsIn
  <1>3. \A s \in SUBSET S : g[s] = h[s]
    BY <1>2
  <1>4. g = [s \in SUBSET S |-> g[s]] /\ h = [s \in SUBSET S |-> h[s]]
    BY AddsFunction
  <1> QED
    BY <1>3, <1>4

\* What adds up over S adds up over a part of S.
LEMMA AddsRestricted ==
    ASSUME NEW S, NEW U \in SUBSET S, NEW f, NEW g, Adds(g, f, S)
    PROVE  Adds(Part(g, U), f, U)
  <1> DEFINE h == Part(g, U)
  <1>1. \A s \in SUBSET S : g[s] = IF s = {} THEN 0 ELSE f[Pick(s)] + g[s \ {Pick(s)}]
    BY AddsAt
  <1>2. \A s \in SUBSET U : h[s] = g[s]
    BY DEF Part
  <1>3. h = [s \in SUBSET U |-> h[s]]
    BY DEF Part
  <1> HIDE DEF h
  <1>4. ASSUME NEW s \in SUBSET U PROVE h[s] = IF s = {} THEN 0 ELSE f[Pick(s)] + h[s \ {Pick(s)}]
    <2>1. s \in SUBSET S /\ s \ {Pick(s)} \in SUBSET U
      OBVIOUS
    <2>2. g[s] = IF s = {} THEN 0 ELSE f[Pick(s)] + g[s \ {Pick(s)}]
      BY <1>1, <2>1
    <2> QED
      BY <1>2, <2>1, <2>2
  <1>5. h = [s \in SUBSET U |-> IF s = {} THEN 0 ELSE f[Pick(s)] + h[s \ {Pick(s)}]]
    BY <1>3, <1>4
  <1> QED
    BY <1>5 DEF Adds, h

\* So any such function gives the sum.
LEMMA SumIs ==
    ASSUME NEW S, IsFiniteSet(S), NEW f, NEW g, Adds(g, f, S)
    PROVE  SumFunctionOnSet(f, S) = g[S]
  <1>1. \A h : Adds(h, f, S) => h = g
    BY AddsUnique
  <1>2. (CHOOSE h : Adds(h, f, S)) = g
    BY <1>1
  <1> QED
    BY <1>2, SumIsChoice

\* A sum taken off in the library's order.
LEMMA SumStep ==
    ASSUME NEW S, IsFiniteSet(S), NEW f, Additive(f, S)
    PROVE  /\ S = {} => SumFunctionOnSet(f, S) = 0
           /\ S # {} => SumFunctionOnSet(f, S) = f[Pick(S)] + SumFunctionOnSet(f, S \ {Pick(S)})
  <1>1. PICK g : Adds(g, f, S)
    BY DEF Additive
  <1>2. SumFunctionOnSet(f, S) = g[S]
    BY <1>1, SumIs
  <1>3. ASSUME S # {} PROVE SumFunctionOnSet(f, S \ {Pick(S)}) = g[S \ {Pick(S)}]
    <2> DEFINE U == S \ {Pick(S)}
    <2>1. U \in SUBSET S /\ IsFiniteSet(U)
      BY FS_Subset
    <2> HIDE DEF U
    <2>2. Adds(Part(g, U), f, U)
      BY <1>1, <2>1, AddsRestricted
    <2>3. Part(g, U)[U] = g[U]
      BY DEF Part
    <2>4. SumFunctionOnSet(f, U) = Part(g, U)[U]
      BY <2>1, <2>2, SumIs
    <2> QED
      BY <2>3, <2>4 DEF U
  <1>4. g[S] = IF S = {} THEN 0 ELSE f[Pick(S)] + g[S \ {Pick(S)}]
    <2>1. S \in SUBSET S
      OBVIOUS
    <2> QED
      BY <1>1, <2>1, AddsAt
  <1> QED
    BY <1>2, <1>3, <1>4

\* For every subset of a finite set there is one, which extends those of smaller sets.
LEMMA AllAdditive ==
    ASSUME NEW T, IsFiniteSet(T), NEW f
    PROVE  \A S \in SUBSET T : Additive(f, S)
  <1> DEFINE G == {S \in SUBSET T : Additive(f, S)}
  <1>1. ASSUME NEW S \in SUBSET T, \A u \in SUBSET S : u # S => u \in G PROVE S \in G
    <2> DEFINE Sum(u) == SumFunctionOnSet(f, u)
               g == [s \in SUBSET S |-> IF s = {} THEN 0 ELSE f[Pick(s)] + Sum(s \ {Pick(s)})]
    <2>1. ASSUME NEW u \in SUBSET S, u # S PROVE g[u] = Sum(u)
      <3>1. u \in G /\ IsFiniteSet(u)
        BY <1>1, <2>1, FS_Subset
      <3>2. Additive(f, u)
        BY <3>1
      <3> QED
        BY <3>1, <3>2, SumStep
    <2>2. ASSUME NEW s \in SUBSET S, s # {} PROVE g[s \ {Pick(s)}] = Sum(s \ {Pick(s)})
      <3>1. s \ {Pick(s)} \in SUBSET S /\ s \ {Pick(s)} # S
        BY <2>2, PickIn
      <3> HIDE DEF g, Sum
      <3> QED
        BY <2>1, <3>1
    <2>3. \A s \in SUBSET S : g[s] = IF s = {} THEN 0 ELSE f[Pick(s)] + g[s \ {Pick(s)}]
      <3>1. \A s \in SUBSET S : g[s] = IF s = {} THEN 0 ELSE f[Pick(s)] + Sum(s \ {Pick(s)})
        OBVIOUS
      <3> HIDE DEF g, Sum
      <3> QED
        BY <2>2, <3>1
    <2>4. g = [s \in SUBSET S |-> g[s]]
      OBVIOUS
    <2> HIDE DEF g, Sum
    <2>5. g = [s \in SUBSET S |-> IF s = {} THEN 0 ELSE f[Pick(s)] + g[s \ {Pick(s)}]]
      BY <2>3, <2>4
    <2>6. Adds(g, f, S)
      BY <2>5 DEF Adds
    <2> QED
      BY <2>6 DEF Additive
  <1> HIDE DEF G
  <1>2. SUBSET T \subseteq G
    BY <1>1, SubsetsIn
  <1> QED
    BY <1>2 DEF G

\* f has integers on the finite set S.
Summable(f, S) == IsFiniteSet(S) /\ \A x \in S : f[x] \in Int

\* What a sum over a finite set is, in whatever order its elements are taken off.
LEMMA SumFacts ==
    ASSUME NEW f, NEW T, Summable(f, T)
    PROVE  \A S \in SUBSET T :
              /\ SumFunctionOnSet(f, S) \in Int
              /\ S = {} => SumFunctionOnSet(f, S) = 0
              /\ \A x \in S : SumFunctionOnSet(f, S) = f[x] + SumFunctionOnSet(f, S \ {x})
  <1> DEFINE Sum(u) == SumFunctionOnSet(f, u)
             G == {S \in SUBSET T : Sum(S) \in Int /\ \A x \in S : Sum(S) = f[x] + Sum(S \ {x})}
  <1>1. ASSUME NEW S \in SUBSET T
        PROVE  /\ S = {} => Sum(S) = 0
               /\ S # {} => Sum(S) = f[Pick(S)] + Sum(S \ {Pick(S)})
    <2>1. IsFiniteSet(S)
      BY FS_Subset DEF Summable
    <2>2. Additive(f, S)
      BY AllAdditive DEF Summable
    <2> QED
      BY <2>1, <2>2, SumStep
  <1>2. \A x \in T : f[x] \in Int
    BY DEF Summable
  <1> HIDE DEF Sum
  <1>3. ASSUME NEW S \in SUBSET T, \A u \in SUBSET S : u # S => u \in G PROVE S \in G
    <2>1. CASE S = {}
      <3>1. Sum(S) = 0
        BY <1>1, <2>1, Zenon
      <3> QED
        BY <2>1, <3>1
    <2>2. CASE S # {}
      <3> DEFINE c == Pick(S)
      <3>1. c \in S
        BY <2>2, PickIn
      <3> HIDE DEF c
      <3>2. Sum(S) = f[c] + Sum(S \ {c})
        BY <1>1, <2>2 DEF c
      <3>3. S \ {c} \in G
        BY <1>3, <3>1
      <3>4. Sum(S \ {c}) \in Int /\ Sum(S) \in Int /\ f[c] \in Int
        BY <1>2, <3>1, <3>2, <3>3
      <3>5. ASSUME NEW x \in S, x # c PROVE Sum(S) = f[x] + Sum(S \ {x})
        <4>1. S \ {x} \in G /\ c \in S \ {x} /\ x \in S \ {c}
          BY <1>3, <3>1, <3>5
        <4>2. (S \ {x}) \ {c} = (S \ {c}) \ {x}
          OBVIOUS
        <4> DEFINE r == Sum((S \ {c}) \ {x})
        <4>3. Sum(S \ {x}) = f[c] + r
          BY <4>1, <4>2
        <4>4. Sum(S \ {c}) = f[x] + r
          BY <3>3, <4>1
        <4>5. r \in Int
          <5>1. (S \ {c}) \ {x} \in SUBSET S /\ (S \ {c}) \ {x} # S
            BY <3>1
          <5> QED
            BY <1>3, <5>1
        <4>6. f[x] \in Int
          BY <1>2
        <4> HIDE DEF r
        <4> QED
          BY <3>2, <3>4, <4>3, <4>4, <4>5, <4>6
      <3> QED
        BY <3>2, <3>4, <3>5
    <2> QED
      BY <2>1, <2>2
  <1>4. IsFiniteSet(T)
    BY DEF Summable
  <1>5. SUBSET T \subseteq G
    <2> HIDE DEF G
    <2> QED
      BY <1>3, <1>4, SubsetsIn
  <1> QED
    BY <1>1, <1>5 DEF Sum

\* Nothing adds up to 0.
LEMMA EmptySum == \A f : SumFunctionOnSet(f, {}) = 0
  <1> TAKE f
  <1>1. Summable(f, {})
    BY FS_EmptySet DEF Summable
  <1> QED
    BY <1>1, SumFacts

-----------------------------------------------------------------------------
(* StrategySegment: the running sums. *)

\* The prices of the segment, shifted by the first, and their squares.
Shifted == [k \in 0 .. n - 1 |-> X(k)]
Squares == [k \in 0 .. n - 1 |-> X(k) * X(k)]

\* Shifted prices are integers.
LEMMA ShiftedInt == ASSUME Walk PROVE \A k \in 0 .. n - 1 : X(k) \in Int
  <1> TAKE k \in 0 .. n - 1
  <1>1. k \in DOMAIN buf /\ 0 \in DOMAIN buf
    BY DEF Walk
  <1>2. buf[k].price \in Nat /\ buf[0].price \in Nat
    BY <1>1, RecordsPositive DEF Walk
  <1> QED
    BY <1>2 DEF X

\* The two sums of the properties obey the laws of finite sums.
LEMMA SumOverFacts ==
    ASSUME Walk
    PROVE  \A S \in SUBSET (0 .. n - 1) :
              /\ SumOver(S) \in Int /\ SquaresOver(S) \in Int
              /\ S = {} => SumOver(S) = 0 /\ SquaresOver(S) = 0
              /\ \A k \in S : /\ SumOver(S) = X(k) + SumOver(S \ {k})
                              /\ SquaresOver(S) = X(k) * X(k) + SquaresOver(S \ {k})
  <1>1. n \in Nat /\ IsFiniteSet(0 .. n - 1)
    BY FS_Interval DEF Walk
  <1>2. \A k \in 0 .. n - 1 : X(k) \in Int /\ X(k) * X(k) \in Int
    BY ShiftedInt
  <1>3. \A k \in 0 .. n - 1 : Shifted[k] = X(k) /\ Squares[k] = X(k) * X(k)
    BY DEF Shifted, Squares
  <1>4. Summable(Shifted, 0 .. n - 1) /\ Summable(Squares, 0 .. n - 1)
    BY <1>1, <1>2, <1>3 DEF Summable
  <1>5. \A S : SumOver(S) = SumFunctionOnSet(Shifted, S) /\ SquaresOver(S) = SumFunctionOnSet(Squares, S)
    BY DEF SumOver, SquaresOver, Shifted, Squares
  <1> SUFFICES ASSUME NEW S \in SUBSET (0 .. n - 1)
               PROVE  /\ SumOver(S) \in Int /\ SquaresOver(S) \in Int
                      /\ S = {} => SumOver(S) = 0 /\ SquaresOver(S) = 0
                      /\ \A k \in S : /\ SumOver(S) = X(k) + SumOver(S \ {k})
                                      /\ SquaresOver(S) = X(k) * X(k) + SquaresOver(S \ {k})
    OBVIOUS
  <1>6. /\ SumOver(S) \in Int
        /\ S = {} => SumOver(S) = 0
        /\ \A k \in S : SumOver(S) = Shifted[k] + SumOver(S \ {k})
    BY <1>4, <1>5, SumFacts
  <1>7. /\ SquaresOver(S) \in Int
        /\ S = {} => SquaresOver(S) = 0
        /\ \A k \in S : SquaresOver(S) = Squares[k] + SquaresOver(S \ {k})
    BY <1>4, <1>5, SumFacts
  <1> QED
    BY <1>3, <1>6, <1>7

\* The window of the next record: it gains that record, and loses its first one once it is full.
LEMMA WindowMoves ==
    ASSUME Walk, i < n
    PROVE  /\ Window(i) \subseteq 0 .. n - 1 /\ Window(i - 1) \subseteq 0 .. n - 1
           /\ i \in Window(i)
           /\ i < p.window => Window(i) \ {i} = Window(i - 1)
           /\ i >= p.window => /\ i - p.window \in Window(i - 1)
                               /\ Window(i) \ {i} = Window(i - 1) \ {i - p.window}
  <1>1. p.window \in Nat \ {0} /\ i \in Nat /\ n \in Nat
    BY ParamsValid DEF Walk
  <1> DEFINE w == p.window
  <1> HIDE DEF w
  <1>2. CASE i < w
    <2>1. Window(i) = 0 .. i /\ Window(i - 1) = 0 .. i - 1
      BY <1>1, <1>2 DEF Window, Longer, w
    <2> QED
      BY <1>1, <1>2, <2>1 DEF w
  <1>3. CASE i >= w
    <2>1. Window(i) = i + 1 - w .. i /\ Window(i - 1) = i - w .. i - 1
      BY <1>1, <1>3 DEF Window, Longer, w
    <2> QED
      BY <1>1, <1>3, <2>1 DEF w
  <1> QED
    BY <1>1, <1>2, <1>3 DEF w

\* Taking off the price that leaves the window and adding the new one gives the sums of its window.
LEMMA SumsMove ==
    ASSUME Walk, RingHolds, SumsOfWindow, i < n
    PROVE  /\ Remainder.sum + X(i) = SumOver(Window(i))
           /\ Remainder.sumSq + X(i) * X(i) = SquaresOver(Window(i))
  <1>1. /\ p.window \in Nat \ {0} /\ i \in Nat /\ i \in 0 .. n - 1
    BY ParamsValid DEF Walk
  <1>2. /\ sum = SumOver(Window(i - 1)) /\ sumSq = SquaresOver(Window(i - 1))
        /\ sum \in Int /\ sumSq \in Int
    BY SumOverFacts, WindowMoves DEF SumsOfWindow
  <1>3. /\ SumOver(Window(i)) = X(i) + SumOver(Window(i) \ {i})
        /\ SquaresOver(Window(i)) = X(i) * X(i) + SquaresOver(Window(i) \ {i})
    BY SumOverFacts, WindowMoves
  <1>4. /\ SumOver(Window(i) \ {i}) \in Int /\ SquaresOver(Window(i) \ {i}) \in Int
    <2>1. Window(i) \ {i} \in SUBSET (0 .. n - 1)
      BY WindowMoves
    <2> QED
      BY <2>1, SumOverFacts
  <1>5. X(i) \in Int /\ X(i) * X(i) \in Int
    BY <1>1, ShiftedInt
  <1>6. CASE i < p.window
    <2>1. Remainder.sum = sum /\ Remainder.sumSq = sumSq
      BY <1>1, <1>6 DEF Remainder
    <2>2. Window(i) \ {i} = Window(i - 1)
      BY <1>6, WindowMoves
    <2> DEFINE yy == X(i) * X(i)
    <2>3. /\ Remainder.sum = sum /\ SumOver(Window(i)) = X(i) + sum
          /\ Remainder.sumSq = sumSq /\ SquaresOver(Window(i)) = yy + sumSq
      BY <1>2, <1>3, <2>1, <2>2
    <2>4. yy \in Int
      BY <1>5
    <2> HIDE DEF yy
    <2>5. Remainder.sumSq + yy = SquaresOver(Window(i)) /\ Remainder.sum + X(i) = SumOver(Window(i))
      BY <1>2, <1>5, <2>3, <2>4
    <2> QED
      BY <2>5 DEF yy
  <1>7. CASE i >= p.window
    <2> DEFINE o == i - p.window
    <2>1. Remainder.sum = sum - ring[slot] /\ Remainder.sumSq = sumSq - ring[slot] * ring[slot]
      BY <1>7 DEF Remainder
    <2>2. slot \in slot .. p.window - 1 /\ i - slot + slot - p.window = o
      BY <1>1 DEF RingHolds
    <2>3. ring[slot] = X(o)
      <3>1. i - slot + slot - p.window \in Int /\ ring[slot] = X(i - slot + slot - p.window)
        BY <1>1, <1>7, <2>2 DEF RingHolds
      <3> QED
        BY <2>2, <3>1
    <2>4. o \in Window(i - 1) /\ Window(i) \ {i} = Window(i - 1) \ {o} /\ o \in 0 .. n - 1
      BY <1>1, <1>7, WindowMoves
    <2> HIDE DEF o
    <2>5. X(o) \in Int /\ X(o) * X(o) \in Int
      BY <2>4, ShiftedInt
    <2>6. /\ SumOver(Window(i - 1)) = X(o) + SumOver(Window(i - 1) \ {o})
          /\ SquaresOver(Window(i - 1)) = X(o) * X(o) + SquaresOver(Window(i - 1) \ {o})
      BY <2>4, SumOverFacts, WindowMoves
    <2> DEFINE a == SumOver(Window(i) \ {i})
               b == SquaresOver(Window(i) \ {i})
               xx == X(o) * X(o)
               yy == X(i) * X(i)
    <2>7. /\ sum = X(o) + a /\ sumSq = xx + b
          /\ SumOver(Window(i)) = X(i) + a /\ SquaresOver(Window(i)) = yy + b
          /\ Remainder.sum = sum - X(o) /\ Remainder.sumSq = sumSq - xx
      BY <1>2, <1>3, <2>1, <2>3, <2>4, <2>6
    <2>8. a \in Int /\ b \in Int /\ xx \in Int /\ yy \in Int /\ X(o) \in Int /\ X(i) \in Int
      BY <1>4, <1>5, <2>5
    <2>9. Remainder.sumSq + yy = SquaresOver(Window(i)) /\ Remainder.sum + X(i) = SumOver(Window(i))
      <3> HIDE DEF a, b, xx, yy
      <3> QED
        BY <2>7, <2>8
    <2> QED
      BY <2>9
  <1> QED
    BY <1>1, <1>6, <1>7

\* What depends on the parameters and the records of a segment alone.
LEMMA SameSegment ==
    ASSUME p' = p, buf' = buf, n' = n
    PROVE  /\ \A k : X(k)' = X(k)
           /\ \A k : Window(k)' = Window(k)
           /\ \A S : SumOver(S)' = SumOver(S) /\ SquaresOver(S)' = SquaresOver(S)
           /\ \A k, s : Enters(k, s)' <=> Enters(k, s)
           /\ \A k, s, from : Leaves(k, s, from)' <=> Leaves(k, s, from)
  <1>1. \A k : X(k)' = X(k)
    BY DEF X
  <1>2. \A k : Window(k)' = Window(k)
    BY DEF Window
  <1>3. \A S : SumOver(S)' = SumOver(S) /\ SquaresOver(S)' = SquaresOver(S)
    <2>1. Shifted' = Shifted /\ Squares' = Squares
      BY <1>1 DEF Shifted, Squares
    <2>2. \A S : /\ SumOver(S) = SumFunctionOnSet(Shifted, S)
                 /\ SquaresOver(S) = SumFunctionOnSet(Squares, S)
      BY DEF SumOver, SquaresOver, Shifted, Squares
    <2>3. \A S : /\ SumOver(S)' = SumFunctionOnSet(Shifted', S)
                 /\ SquaresOver(S)' = SumFunctionOnSet(Squares', S)
      BY DEF SumOver, SquaresOver, Shifted, Squares
    <2> QED
      BY <2>1, <2>2, <2>3
  <1>4. \A k : SumOver(Window(k))' = SumOver(Window(k)) /\ SquaresOver(Window(k))' = SquaresOver(Window(k))
    BY <1>2, <1>3
  <1>5. \A k : D(k)' = D(k) /\ V(k)' = V(k)
    BY <1>1, <1>4 DEF D, V
  <1>6. \A k : Signal(k)' <=> Signal(k)
    BY <1>5 DEF Signal
  <1>7. \A k, s : Enters(k, s)' <=> Enters(k, s)
    BY <1>5, <1>6 DEF Enters
  <1>8. \A k, s, from : Leaves(k, s, from)' <=> Leaves(k, s, from)
    BY <1>5, <1>6 DEF Leaves
  <1> QED
    BY <1>1, <1>2, <1>3, <1>7, <1>8

\* One turn moves the window by one record: the price at slot is the one that leaves.
LEMMA SecondKeepsWindow ==
    ASSUME SegmentInv, Second
    PROVE  Walk' /\ RingHolds' /\ SumsOfWindow'
  <1> DEFINE w == p.window
  <1>1. /\ i < n /\ i' = i + 1 /\ p' = p /\ seg' = seg /\ buf' = buf /\ n' = n
        /\ ring' = [ring EXCEPT ![slot] = X(i)]
        /\ slot' = IF slot + 1 = w THEN 0 ELSE slot + 1
        /\ sum' = Remainder.sum + X(i) /\ sumSq' = Remainder.sumSq + X(i) * X(i)
    BY DEF Second
  <1>2. Walk /\ RingHolds /\ SumsOfWindow
    BY DEF SegmentInv
  <1>3. w \in Nat \ {0} /\ i \in Nat /\ n \in Nat /\ slot \in 0 .. w - 1
    BY <1>2, ParamsValid DEF Walk, RingHolds
  <1>4. Walk'
    BY <1>1, <1>2, <1>3 DEF Walk, BufSize
  <1>5. SumsOfWindow'
    <2>1. sum' = SumOver(Window(i)) /\ sumSq' = SquaresOver(Window(i))
      BY <1>1, <1>2, SumsMove
    <2>2. Window(i - 1)' = Window(i)
      <3>1. i' - 1 = i
        BY <1>1, <1>3
      <3> QED
        BY <1>1, <3>1 DEF Window
    <2>3. SumOver(Window(i - 1))' = SumOver(Window(i)) /\ SquaresOver(Window(i - 1))' = SquaresOver(Window(i))
      BY <1>1, <2>2, SameSegment
    <2> QED
      BY <2>1, <2>3 DEF SumsOfWindow
  <1>6. RingHolds'
    <2> DEFINE Y(k) == buf'[k].price - buf'[0].price
    <2>1. \A k : Y(k) = X(k)
      BY <1>1 DEF X
    <2>2. /\ DOMAIN ring' = 0 .. w - 1 /\ ring'[slot] = X(i)
          /\ \A j \in 0 .. w - 1 : j # slot => ring'[j] = ring[j]
      BY <1>1, <1>2, <1>3 DEF RingHolds
    <2>3. CASE slot + 1 = w
      <3>1. slot' = 0 /\ i >= slot /\ i' \in Nat /\ i' >= w
        BY <1>1, <1>2, <1>3, <2>3 DEF RingHolds
      <3>2. ASSUME NEW j \in 0 .. w - 1 PROVE ring'[j] = X(i' + j - w)
        <4>1. CASE j = slot
          <5>1. i' + j - w = i
            BY <1>1, <1>3, <2>3, <4>1
          <5> QED
            BY <2>2, <4>1, <5>1
        <4>2. CASE j # slot
          <5>1. j \in 0 .. slot - 1 /\ i' + j - w = i - slot + j
            BY <1>1, <1>3, <2>3, <4>2
          <5>2. ring[j] = X(i - slot + j)
            BY <1>2, <5>1 DEF RingHolds
          <5> QED
            BY <2>2, <4>2, <5>1, <5>2
        <4> QED
          BY <4>1, <4>2
      <3>3. \A j \in slot' .. w - 1 : j \in 0 .. w - 1 /\ i' - slot' + j - w = i' + j - w
        BY <1>3, <3>1
      <3>4. 0 .. slot' - 1 = {}
        BY <3>1
      <3>5. slot' \in 0 .. w - 1 /\ slot' <= i' /\ ~(i' < w)
        BY <1>3, <3>1
      <3>6. \A j \in slot' .. w - 1 : ring'[j] = Y(i' - slot' + j - w)
        BY <2>1, <3>2, <3>3
      <3> QED
        BY <1>1, <2>2, <3>4, <3>5, <3>6 DEF RingHolds, X
    <2>4. CASE slot + 1 # w
      <3>1. slot' = slot + 1 /\ slot' \in 0 .. w - 1 /\ slot' <= i' /\ i' \in Nat /\ slot' \in Nat
        BY <1>1, <1>2, <1>3, <2>4 DEF RingHolds
      <3>2. i' < w => slot' = i'
        BY <1>1, <1>2, <1>3, <3>1 DEF RingHolds
      <3>3. ASSUME NEW j \in 0 .. slot' - 1 PROVE ring'[j] = X(i' - slot' + j)
        <4>1. i' - slot' + j = i - slot + j /\ j \in 0 .. w - 1
          BY <1>1, <1>3, <3>1
        <4>2. CASE j = slot
          <5>1. i - slot + j = i
            BY <1>3, <4>2
          <5> QED
            BY <2>2, <4>1, <4>2, <5>1
        <4>3. CASE j # slot
          <5>1. j \in 0 .. slot - 1
            BY <1>3, <3>1, <4>3
          <5>2. ring[j] = X(i - slot + j)
            BY <1>2, <5>1 DEF RingHolds
          <5> QED
            BY <2>2, <4>1, <4>3, <5>2
        <4> QED
          BY <4>2, <4>3
      <3>4. ASSUME i' >= w, NEW j \in slot' .. w - 1 PROVE ring'[j] = X(i' - slot' + j - w)
        <4>1. i >= w
          BY <1>1, <1>2, <1>3, <2>4, <3>4 DEF RingHolds
        <4>2. j \in slot .. w - 1 /\ j \in 0 .. w - 1 /\ j # slot /\ i' - slot' + j - w = i - slot + j - w
          BY <1>1, <1>3, <3>1
        <4>3. ring[j] = X(i - slot + j - w)
          BY <1>2, <4>1, <4>2 DEF RingHolds
        <4> QED
          BY <2>2, <4>2, <4>3
      <3>5. /\ \A j \in 0 .. slot' - 1 : ring'[j] = Y(i' - slot' + j)
            /\ i' >= w => \A j \in slot' .. w - 1 : ring'[j] = Y(i' - slot' + j - w)
        BY <2>1, <3>3, <3>4
      <3> QED
        BY <1>1, <2>2, <3>1, <3>2, <3>5 DEF RingHolds, X
    <2> QED
      BY <2>3, <2>4
  <1> QED
    BY <1>4, <1>5, <1>6

-----------------------------------------------------------------------------
(* StrategySegment: the trades. *)

\* Whether a whole unit can be bought.
LEMMA UnitsOf ==
    ASSUME NEW price \in Nat \ {0}
    PROVE  /\ Notional \div price \in Nat
           /\ Notional \div price >= 1 <=> price <= Notional
  <1> DEFINE q == Notional \div price
             c == q * price
  <1>1. q \in Nat /\ c <= Notional /\ Notional < c + price
    BY RecordsPositive, DivideDown
  <1>2. c \in Nat /\ Notional \in Nat
    BY <1>1, RecordsPositive
  <1>3. q = 0 => c = 0
    BY <1>1
  <1>4. q >= 1 => price <= c
    BY <1>1
  <1> HIDE DEF q, c
  <1>5. q \in Nat /\ (q >= 1 <=> price <= Notional)
    BY <1>1, <1>2, <1>3, <1>4
  <1> QED
    BY <1>5 DEF q

\* What the properties say of the record at hand.
LEMMA SignalHere ==
    ASSUME Walk, RingHolds, SumsOfWindow, i < n
    PROVE  LET newSum == Remainder.sum + X(i)
               newSq == Remainder.sumSq + X(i) * X(i)
           IN  /\ p.window * X(i) - newSum = D(i)
               /\ p.window * newSq - newSum * newSum = V(i)
               /\ D(i) \in Int /\ V(i) \in Int
  <1>1. p.window \in Nat /\ i \in 0 .. n - 1
    BY ParamsValid DEF Walk
  <1>2. X(i) \in Int
    BY <1>1, ShiftedInt
  <1>3. Window(i) \in SUBSET (0 .. n - 1)
    BY WindowMoves
  <1>4. SumOver(Window(i)) \in Int /\ SquaresOver(Window(i)) \in Int
    BY <1>3, SumOverFacts
  <1>5. D(i) \in Int
    BY <1>1, <1>2, <1>4 DEF D
  <1>6. V(i) \in Int
    BY <1>1, <1>4 DEF V
  <1>7. /\ Remainder.sum + X(i) = SumOver(Window(i))
        /\ Remainder.sumSq + X(i) * X(i) = SquaresOver(Window(i))
    BY SumsMove
  <1> QED
    BY <1>5, <1>6, <1>7 DEF D, V

\* The loop's conditions on the record at hand are those of the definition.
EntersHere == LET s == EntrySide(D(i), V(i)) IN (i + 1 >= p.window /\ V(i) > 0) /\ ~IsLast /\ s # 0
LeavesHere == ((i + 1 >= p.window /\ V(i) > 0) /\ ZExit(side, D(i), V(i))) \/ Held \/ IsLast

\* The exit condition of the loop is that of the definition.
LEMMA LeavesHereIs ==
    ASSUME Walk, RingHolds, SumsOfWindow, i < n, side \in {1, -1}
    PROVE  LeavesHere <=> Leaves(i, side, entry)
  <1>1. D(i) \in Int
    BY SignalHere
  <1>2. 1 * D(i) = D(i) /\ (-1) * D(i) = -D(i)
    BY <1>1
  <1>3. ZExit(side, D(i), V(i)) <=> AtLeast(side * D(i), V(i), p.exit)
    <2>1. CASE side = 1
      BY <1>2, <2>1 DEF ZExit
    <2>2. CASE side = -1
      BY <1>2, <2>2 DEF ZExit
    <2> QED
      BY <2>1, <2>2
  <1>4. IsLast <=> i = n - 1
    BY DEF IsLast, Walk
  <1> QED
    BY <1>3, <1>4 DEF LeavesHere, Leaves, Signal, Held

\* So is the entry condition.
LEMMA EntersHereIs ==
    ASSUME Walk, RingHolds, SumsOfWindow, i < n
    PROVE  LET s == EntrySide(D(i), V(i))
               units == Notional \div buf[i].price
           IN  /\ units \in Nat
               /\ EntersHere => s \in {1, -1}
               /\ EntersHere /\ units >= 1 => Enters(i, s)
               /\ ~(EntersHere /\ units >= 1) => ~Enters(i, 1) /\ ~Enters(i, -1)
  <1> DEFINE s == EntrySide(D(i), V(i))
             units == Notional \div buf[i].price
  <1>1. D(i) \in Int
    BY SignalHere
  <1>2. -(1 * D(i)) = -D(i) /\ -((-1) * D(i)) = D(i)
    <2>1. \A d \in Int : -(1 * d) = -d /\ -((-1) * d) = d
      OBVIOUS
    <2> QED
      BY <1>1, <2>1
  <1>3. buf[i].price \in Nat \ {0}
    <2>1. i \in DOMAIN buf
      BY DEF Walk
    <2> QED
      BY <2>1, RecordsPositive DEF Walk
  <1>4. units \in Nat /\ (units >= 1 <=> buf[i].price <= Notional)
    BY <1>3, UnitsOf
  <1>5. ~IsLast <=> i < n - 1
    BY DEF IsLast, Walk
  <1>6. /\ Enters(i, 1) <=> /\ Signal(i) /\ i < n - 1 /\ buf[i].price <= Notional
                            /\ Above(-D(i), V(i), p.entry)
        /\ Enters(i, -1) <=> /\ Signal(i) /\ i < n - 1 /\ buf[i].price <= Notional
                             /\ Above(D(i), V(i), p.entry)
    BY <1>2 DEF Enters
  <1>7. /\ s \in {1, -1, 0}
        /\ s = -1 => Above(D(i), V(i), p.entry)
        /\ s = 1 => Above(-D(i), V(i), p.entry)
        /\ s = 0 => ~Above(D(i), V(i), p.entry) /\ ~Above(-D(i), V(i), p.entry)
    BY DEF EntrySide
  <1>8. EntersHere <=> Signal(i) /\ i < n - 1 /\ s # 0
    BY <1>5 DEF EntersHere, Signal
  <1> HIDE DEF s, units
  <1>9. /\ EntersHere => s \in {1, -1}
        /\ EntersHere /\ units >= 1 => Enters(i, s)
        /\ ~(EntersHere /\ units >= 1) => ~Enters(i, 1) /\ ~Enters(i, -1)
    BY <1>4, <1>6, <1>7, <1>8
  <1> QED
    BY <1>4, <1>9 DEF s, units

\* What a turn of the loop does to the position and the trades.
LEMMA SecondTrades ==
    ASSUME Walk, RingHolds, SumsOfWindow, Second
    PROVE  LET units == Notional \div buf[i].price
               s == EntrySide(D(i), V(i))
           IN  \/ open /\ LeavesHere /\ open' = FALSE /\ out' = Append(out, Trade(side, qty, entry, i))
                  /\ UNCHANGED <<side, qty, entry>>
               \/ open /\ ~LeavesHere /\ UNCHANGED <<open, side, qty, entry, out>>
               \/ ~open /\ EntersHere /\ side' = s /\ qty' = units /\ open' = (units >= 1)
                  /\ entry' = (IF units >= 1 THEN i ELSE entry) /\ out' = out
               \/ ~open /\ ~EntersHere /\ UNCHANGED <<open, side, qty, entry, out>>
  <1> DEFINE newSum == Remainder.sum + X(i)
             newSq == Remainder.sumSq + X(i) * X(i)
             d == p.window * X(i) - newSum
             v == p.window * newSq - newSum * newSum
             signal == i + 1 >= p.window /\ v > 0
             units == Notional \div buf[i].price
  <1>1. /\ i < n
        /\ IF open
           THEN /\ IF (signal /\ ZExit(side, d, v)) \/ Held \/ IsLast
                   THEN open' = FALSE /\ out' = Append(out, Trade(side, qty, entry, i))
                   ELSE UNCHANGED <<open, out>>
                /\ UNCHANGED <<side, qty, entry>>
           ELSE /\ IF signal /\ ~IsLast /\ EntrySide(d, v) # 0
                   THEN /\ side' = EntrySide(d, v)
                        /\ qty' = units
                        /\ open' = (units >= 1)
                        /\ entry' = IF units >= 1 THEN i ELSE entry
                   ELSE UNCHANGED positionVars
                /\ UNCHANGED out
    BY DEF Second
  <1>2. d = D(i) /\ v = V(i)
    BY <1>1, SignalHere
  <1>3. /\ LeavesHere <=> (signal /\ ZExit(side, d, v)) \/ Held \/ IsLast
        /\ EntersHere <=> signal /\ ~IsLast /\ EntrySide(d, v) # 0
    BY <1>2 DEF LeavesHere, EntersHere
  <1> HIDE DEF d, v, units, signal
  <1>4. CASE open
    BY <1>1, <1>3, <1>4
  <1>5. CASE ~open
    <2>1. CASE EntersHere
      BY <1>1, <1>2, <1>3, <1>5, <2>1 DEF units
    <2>2. CASE ~EntersHere
      BY <1>1, <1>3, <1>5, <2>2 DEF positionVars
    <2> QED
      BY <2>1, <2>2
  <1> QED
    BY <1>4, <1>5

\* What the properties ask of one trade of the segment, and of the open position.
RightTrade(t) ==
    /\ Enters(t.from, t.side)
    /\ t.from < t.to /\ Leaves(t.to, t.side, t.from)
    /\ \A j \in t.from + 1 .. t.to - 1 : ~Leaves(j, t.side, t.from)
RightPosition == Enters(entry, side) /\ \A j \in entry + 1 .. i - 1 : ~Leaves(j, side, entry)
NoneMissed == \A j \in (0 .. i - 1) \ Occupied : ~Enters(j, 1) /\ ~Enters(j, -1)
Apart == \A k \in Mine : k + 1 \in DOMAIN out => out[k].to < out[k + 1].from

\* TradesAsDefined, trade by trade.
LEMMA AsDefinedParts ==
    TradesAsDefined <=> /\ \A k \in Mine : RightTrade(out[k])
                        /\ Apart
                        /\ open => RightPosition
                        /\ NoneMissed
  BY DEF TradesAsDefined, RightTrade, RightPosition, NoneMissed, Apart

\* The same, for the state after a step.
LEMMA AsDefinedPartsNext ==
    ASSUME \A k \in Mine' : RightTrade(out[k])', Apart', open' => RightPosition', NoneMissed'
    PROVE  TradesAsDefined'
  BY DEF TradesAsDefined, RightTrade, RightPosition, NoneMissed, Apart

\* The records some trade of q is open at.
LEMMA InUnion ==
    ASSUME NEW M, NEW q
    PROVE  \A j : j \in UNION {q[k].from .. q[k].to : k \in M}
                  <=> \E k \in M : j \in q[k].from .. q[k].to
  OBVIOUS

\* The records of positions, closed or open.
LEMMA OccupiedIs ==
    \A j : j \in Occupied <=> \/ \E k \in Mine : j \in out[k].from .. out[k].to
                              \/ open /\ j \in entry .. i - 1
  <1> DEFINE U == UNION {out[k].from .. out[k].to : k \in Mine}
  <1>1. \A j : j \in U <=> \E k \in Mine : j \in out[k].from .. out[k].to
    BY InUnion
  <1>2. Occupied = U \cup (IF open THEN entry .. i - 1 ELSE {})
    BY DEF Occupied
  <1> HIDE DEF U
  <1> QED
    BY <1>1, <1>2

\* The same, for the state after a step.
LEMMA OccupiedNext ==
    \A j : j \in Occupied' <=> \/ \E k \in Mine' : j \in out'[k].from .. out'[k].to
                               \/ open' /\ j \in entry' .. i' - 1
  <1> DEFINE U == UNION {out'[k].from .. out'[k].to : k \in Mine'}
  <1>1. \A j : j \in U <=> \E k \in Mine' : j \in out'[k].from .. out'[k].to
    BY InUnion
  <1>2. Occupied' = U \cup (IF open' THEN entry' .. i' - 1 ELSE {})
    BY DEF Occupied
  <1> HIDE DEF U
  <1> QED
    BY <1>1, <1>2

\* A trade stays right, for it speaks of the records and the parameters alone.
LEMMA RightTradeStays ==
    ASSUME p' = p, buf' = buf, n' = n
    PROVE  \A t : RightTrade(t)' <=> RightTrade(t)
  BY SameSegment DEF RightTrade

TradeRecord == [seg : Nat, from : Nat, to : Nat, side : {1, -1}, qty : Nat, pnl : Int]

\* The position that is closed is a trade.
LEMMA ClosedIs ==
    ASSUME Walk, TradesPast, open, i < n
    PROVE  LET t == Trade(side, qty, entry, i)
           IN  t \in TradeRecord /\ t.seg = seg /\ t.from = entry /\ t.to = i /\ t.side = side
  <1>1. /\ seg \in Nat /\ entry \in Nat /\ i \in Nat /\ side \in {1, -1} /\ side \in Int /\ qty \in Nat
    BY DEF Walk, TradesPast
  <1>2. buf[i].price \in Nat /\ buf[entry].price \in Nat
    <2>1. i \in DOMAIN buf /\ entry \in DOMAIN buf
      BY DEF Walk, TradesPast
    <2>2. buf[i].price \in Prices /\ buf[entry].price \in Prices
      BY <2>1 DEF Walk
    <2> QED
      BY <2>2, RecordsPositive
  <1> DEFINE a == side * qty
             b == buf[i].price - buf[entry].price
             c == a * b
  <1>3. a \in Int /\ b \in Int
    BY <1>1, <1>2
  <1>4. c \in Int
    <2> HIDE DEF a, b
    <2> QED
      BY <1>3
  <1>5. Trade(side, qty, entry, i) =
            [seg |-> seg, from |-> entry, to |-> i, side |-> side, qty |-> qty, pnl |-> c]
    BY DEF Trade
  <1> HIDE DEF c
  <1> QED
    BY <1>1, <1>4, <1>5 DEF TradeRecord

\* A turn of the loop that closes the position.
LEMMA CloseKeeps ==
    ASSUME SegmentInv, open, LeavesHere, Second,
           open' = FALSE, out' = Append(out, Trade(side, qty, entry, i)), qty' = qty
    PROVE  TradesPast' /\ TradesAsDefined'
  <1> DEFINE t == Trade(side, qty, entry, i)
             L == Len(out)
  <1>1. /\ i < n /\ i' = i + 1 /\ p' = p /\ seg' = seg /\ buf' = buf /\ n' = n
    BY DEF Second
  <1>2. Walk /\ RingHolds /\ SumsOfWindow /\ TradesPast /\ TradesAsDefined
    BY DEF SegmentInv
  <1>3. t \in TradeRecord /\ t.seg = seg /\ t.from = entry /\ t.to = i /\ t.side = side
    BY <1>1, <1>2, ClosedIs
  <1>4. /\ seg \in Nat /\ i \in Nat /\ entry \in Nat /\ entry < i /\ side \in {1, -1} /\ qty \in Nat
    BY <1>2 DEF Walk, TradesPast
  <1>5. out \in Seq(TradeRecord)
    BY <1>2 DEF TradesPast, TradeRecord
  <1> HIDE DEF t
  <1>6. /\ out' \in Seq(TradeRecord) /\ L \in Nat /\ DOMAIN out = 1 .. L /\ DOMAIN out' = 1 .. L + 1
        /\ \A k \in 1 .. L : out'[k] = out[k]
        /\ out'[L + 1] = t
    BY <1>3, <1>5 DEF t
  <1>7. Mine' = Mine \cup {L + 1} /\ Mine \subseteq 1 .. L
    BY <1>1, <1>3, <1>6 DEF Mine
  <1> HIDE DEF L
  <1>8. \A k \in Mine : out[k].to < entry /\ out'[k] = out[k] /\ out[k].to \in Nat
    <2>1. \A k \in Mine : k \in 1 .. L /\ out[k] \in TradeRecord
      BY <1>5, <1>6, <1>7
    <2>2. \A k \in Mine : out[k].to \in Nat
      BY <2>1 DEF TradeRecord
    <2>3. \A k \in Mine : out[k].to < entry
      BY <1>2 DEF TradesPast
    <2> QED
      BY <1>6, <2>1, <2>2, <2>3
  <1>9. TradesPast'
    <2>1. \A k \in DOMAIN out' : out'[k].seg <= seg'
      BY <1>1, <1>2, <1>3, <1>4, <1>6 DEF TradesPast
    <2>2. \A k \in Mine' : out'[k].to < i'
      BY <1>1, <1>3, <1>4, <1>6, <1>7, <1>8
    <2> QED
      BY <1>4, <1>6, <2>1, <2>2 DEF TradesPast, TradeRecord
  <1>10. /\ \A k \in Mine : RightTrade(out[k])
         /\ Apart /\ RightPosition /\ NoneMissed
    BY <1>2, AsDefinedParts
  <1>11. RightTrade(t)
    <2>1. Leaves(i, side, entry)
      BY <1>1, <1>2, <1>4, LeavesHereIs
    <2> QED
      BY <1>3, <1>4, <1>10, <2>1 DEF RightTrade, RightPosition
  <1>12. \A k \in Mine' : RightTrade(out[k])'
    <2>1. \A k \in Mine' : RightTrade(out'[k])
      BY <1>6, <1>7, <1>8, <1>10, <1>11
    <2> QED
      BY <1>1, <2>1, RightTradeStays
  <1>13. Apart'
    <2>1. ASSUME NEW k \in Mine', k + 1 \in DOMAIN out' PROVE out'[k].to < out'[k + 1].from
      <3>1. k \in Mine /\ k \in 1 .. L
        <4>1. k + 1 \in 1 .. L + 1
          BY <1>6, <2>1
        <4>2. k \in Mine \/ k = L + 1
          BY <1>7, <2>1
        <4>3. k # L + 1
          BY <1>6, <4>1
        <4> QED
          BY <1>7, <4>2, <4>3
      <3>2. CASE k + 1 \in DOMAIN out
        BY <1>6, <1>8, <1>10, <3>1, <3>2 DEF Apart
      <3>3. CASE k + 1 \notin DOMAIN out
        <4>1. k + 1 = L + 1
          BY <1>6, <2>1, <3>3
        <4> QED
          BY <1>3, <1>6, <1>8, <3>1, <4>1
      <3> QED
        BY <3>2, <3>3
    <2> QED
      BY <2>1 DEF Apart
  <1>14. NoneMissed'
    <2>1. ASSUME NEW j \in 0 .. i, j \notin Occupied' PROVE ~Enters(j, 1) /\ ~Enters(j, -1)
      <3>1. \A k \in Mine' : ~(j \in out'[k].from .. out'[k].to)
        BY <2>1, OccupiedNext
      <3>2. ~(j \in entry .. i)
        BY <1>3, <1>6, <1>7, <3>1
      <3>3. \A k \in Mine : ~(j \in out[k].from .. out[k].to)
        BY <1>7, <1>8, <3>1
      <3>4. j \in (0 .. i - 1) \ Occupied
        <4>1. j \in 0 .. i - 1 /\ ~(j \in entry .. i - 1)
          BY <1>4, <2>1, <3>2
        <4> QED
          BY <3>3, <4>1, OccupiedIs
      <3> QED
        BY <1>10, <3>4 DEF NoneMissed
    <2>2. 0 .. i' - 1 = 0 .. i
      BY <1>1, <1>4
    <2> QED
      BY <1>1, <2>1, <2>2, SameSegment DEF NoneMissed
  <1> QED
    BY <1>9, <1>12, <1>13, <1>14, AsDefinedPartsNext

\* A turn of the loop that leaves the trades alone: the position is kept, opened here, or there is none.
LEMMA WaitKeeps ==
    ASSUME SegmentInv, Second, out' = out, open' \in BOOLEAN, qty' \in Nat,
           \/ open /\ ~LeavesHere /\ open' /\ side' = side /\ entry' = entry
           \/ ~open /\ open' /\ entry' = i /\ side' \in {1, -1} /\ Enters(i, side')
           \/ ~open /\ ~open' /\ ~Enters(i, 1) /\ ~Enters(i, -1)
    PROVE  TradesPast' /\ TradesAsDefined'
  <1>1. /\ i < n /\ i' = i + 1 /\ p' = p /\ seg' = seg /\ buf' = buf /\ n' = n
    BY DEF Second
  <1>2. Walk /\ RingHolds /\ SumsOfWindow /\ TradesPast /\ TradesAsDefined
    BY DEF SegmentInv
  <1>3. i \in Nat /\ Mine' = Mine
    BY <1>1, <1>2 DEF Walk, Mine
  <1>4. out \in Seq(TradeRecord)
    BY <1>2 DEF TradesPast, TradeRecord
  <1>5. \A k \in Mine : out[k].to \in Nat /\ out[k].to < i
    <2>1. \A k \in Mine : out[k] \in TradeRecord
      BY <1>4 DEF Mine
    <2>2. \A k \in Mine : out[k].to \in Nat
      BY <2>1 DEF TradeRecord
    <2> QED
      BY <1>2, <2>2 DEF TradesPast
  <1>6. /\ \A k \in Mine : RightTrade(out[k])
        /\ Apart /\ NoneMissed
        /\ open => RightPosition
    BY <1>2, AsDefinedParts
  <1>7. open => entry \in 0 .. i - 1 /\ side \in {1, -1} /\ \A k \in Mine : out[k].to < entry
    BY <1>2 DEF TradesPast
  <1>8. open' => entry' \in 0 .. i' - 1 /\ side' \in {1, -1} /\ \A k \in Mine : out[k].to < entry'
    BY <1>1, <1>3, <1>5, <1>7
  <1>9. TradesPast'
    <2>1. \A k \in Mine' : out'[k].to < i'
      BY <1>1, <1>3, <1>5
    <2>2. \A k \in DOMAIN out' : out'[k].seg <= seg'
      BY <1>1, <1>2 DEF TradesPast
    <2> QED
      BY <1>3, <1>4, <1>8, <2>1, <2>2 DEF TradesPast, TradeRecord
  <1>10. \A k \in Mine' : RightTrade(out[k])'
    <2>1. \A k \in Mine' : RightTrade(out'[k])
      BY <1>3, <1>6
    <2> QED
      BY <1>1, <2>1, RightTradeStays
  <1>11. Apart'
    BY <1>3, <1>6 DEF Apart
  <1>12. open' => RightPosition'
    <2> SUFFICES ASSUME open' PROVE RightPosition'
      OBVIOUS
    <2>1. CASE open /\ ~LeavesHere /\ open' /\ side' = side /\ entry' = entry
      <3>1. ~Leaves(i, side, entry)
        BY <1>1, <1>2, <1>7, <2>1, LeavesHereIs
      <3>2. \A j \in entry + 1 .. i : ~Leaves(j, side, entry)
        <4>1. \A j \in entry + 1 .. i : j = i \/ j \in entry + 1 .. i - 1
          BY <1>3, <1>7, <2>1
        <4> QED
          BY <1>6, <2>1, <3>1, <4>1 DEF RightPosition
      <3>3. entry' + 1 .. i' - 1 = entry + 1 .. i
        BY <1>1, <1>3, <2>1
      <3>4. \A j \in entry' + 1 .. i' - 1 : ~Leaves(j, side', entry')
        BY <2>1, <3>2, <3>3
      <3>5. Enters(entry', side')
        BY <1>6, <2>1 DEF RightPosition
      <3> QED
        BY <1>1, <3>4, <3>5, SameSegment DEF RightPosition
    <2>2. CASE ~open /\ open' /\ entry' = i /\ side' \in {1, -1} /\ Enters(i, side')
      <3>1. entry' + 1 .. i' - 1 = {}
        BY <1>1, <1>3, <2>2
      <3>2. Enters(entry', side')
        BY <2>2
      <3> QED
        BY <1>1, <3>1, <3>2, SameSegment DEF RightPosition
    <2> QED
      BY <2>1, <2>2
  <1>13. NoneMissed'
    <2>1. ASSUME NEW j \in 0 .. i, j \notin Occupied' PROVE ~Enters(j, 1) /\ ~Enters(j, -1)
      <3>1. /\ \A k \in Mine : ~(j \in out[k].from .. out[k].to)
            /\ open' => ~(j \in entry' .. i)
        <4>1. /\ \A k \in Mine' : ~(j \in out'[k].from .. out'[k].to)
              /\ open' => ~(j \in entry' .. i' - 1)
          BY <2>1, OccupiedNext
        <4>2. i' - 1 = i
          BY <1>1, <1>3
        <4> QED
          BY <1>3, <4>1, <4>2
      <3>2. CASE j = i
        <4>1. ~open'
          <5>1. open' => entry' \in Int /\ entry' <= i
            BY <1>1, <1>3, <1>8
          <5> QED
            BY <1>3, <3>1, <3>2, <5>1
        <4> QED
          BY <3>2, <4>1
      <3>3. CASE j # i
        <4>1. j \in 0 .. i - 1
          BY <1>3, <2>1, <3>3
        <4>2. open => ~(j \in entry .. i - 1)
          BY <1>3, <1>7, <3>1, <4>1
        <4>3. j \notin Occupied
          BY <3>1, <4>2, OccupiedIs
        <4> QED
          BY <1>6, <4>1, <4>3 DEF NoneMissed
      <3> QED
        BY <3>2, <3>3
    <2>2. 0 .. i' - 1 = 0 .. i
      BY <1>1, <1>3
    <2> QED
      BY <1>1, <2>1, <2>2, SameSegment DEF NoneMissed
  <1> QED
    BY <1>9, <1>10, <1>11, <1>12, <1>13, AsDefinedPartsNext

\* One turn of the loop keeps the invariant.
LEMMA SecondKeeps == SegmentInv /\ Second => SegmentInv'
  <1> SUFFICES ASSUME SegmentInv, Second PROVE SegmentInv'
    OBVIOUS
  <1>1. Walk /\ RingHolds /\ SumsOfWindow /\ i < n /\ open \in BOOLEAN /\ qty \in Nat
    BY DEF SegmentInv, Second, TradesPast
  <1> DEFINE units == Notional \div buf[i].price
             s == EntrySide(D(i), V(i))
  <1>2. /\ units \in Nat
        /\ EntersHere => s \in {1, -1}
        /\ EntersHere /\ units >= 1 => Enters(i, s)
        /\ ~(EntersHere /\ units >= 1) => ~Enters(i, 1) /\ ~Enters(i, -1)
    BY <1>1, EntersHereIs
  <1>3. \/ open /\ LeavesHere /\ open' = FALSE /\ out' = Append(out, Trade(side, qty, entry, i))
           /\ UNCHANGED <<side, qty, entry>>
        \/ open /\ ~LeavesHere /\ UNCHANGED <<open, side, qty, entry, out>>
        \/ ~open /\ EntersHere /\ side' = s /\ qty' = units /\ open' = (units >= 1)
           /\ entry' = (IF units >= 1 THEN i ELSE entry) /\ out' = out
        \/ ~open /\ ~EntersHere /\ UNCHANGED <<open, side, qty, entry, out>>
    BY <1>1, SecondTrades
  <1> HIDE DEF units, s
  <1>4. TradesPast' /\ TradesAsDefined'
    <2>1. CASE open /\ LeavesHere /\ open' = FALSE /\ out' = Append(out, Trade(side, qty, entry, i))
               /\ UNCHANGED <<side, qty, entry>>
      BY <2>1, CloseKeeps
    <2>2. CASE open /\ ~LeavesHere /\ UNCHANGED <<open, side, qty, entry, out>>
      BY <1>1, <2>2, WaitKeeps
    <2>3. CASE /\ ~open /\ EntersHere /\ side' = s /\ qty' = units /\ open' = (units >= 1)
               /\ entry' = (IF units >= 1 THEN i ELSE entry) /\ out' = out
      <3>1. CASE units >= 1
        <4>1. open' /\ open' \in BOOLEAN /\ entry' = i /\ side' \in {1, -1} /\ Enters(i, side') /\ qty' \in Nat
          BY <1>2, <2>3, <3>1
        <4> QED
          BY <2>3, <4>1, WaitKeeps
      <3>2. CASE ~(units >= 1)
        <4>1. ~open' /\ open' \in BOOLEAN /\ ~Enters(i, 1) /\ ~Enters(i, -1) /\ qty' \in Nat
          <5>1. open' = (units >= 1) /\ (units >= 1) = FALSE
            BY <2>3, <3>2
          <5> QED
            BY <1>2, <2>3, <3>2, <5>1
        <4> QED
          BY <2>3, <4>1, WaitKeeps
      <3> QED
        BY <3>1, <3>2
    <2>4. CASE ~open /\ ~EntersHere /\ UNCHANGED <<open, side, qty, entry, out>>
      <3>1. ~Enters(i, 1) /\ ~Enters(i, -1)
        BY <1>2, <2>4
      <3> QED
        BY <1>1, <2>4, <3>1, WaitKeeps
    <2> QED
      BY <1>3, <2>1, <2>2, <2>3, <2>4
  <1> QED
    BY <1>4, SecondKeepsWindow DEF SegmentInv

\* Trades belong to segments that have begun.
LEMMA SegOfTrades ==
    ASSUME TradesPast
    PROVE  \A k \in DOMAIN out : out[k].seg \in Nat /\ out[k].seg <= seg
  <1>1. out \in Seq(TradeRecord)
    BY DEF TradesPast, TradeRecord
  <1>2. \A k \in DOMAIN out : out[k] \in TradeRecord
    BY <1>1
  <1>3. \A k \in DOMAIN out : out[k].seg \in Nat
    BY <1>2 DEF TradeRecord
  <1> QED
    BY <1>3 DEF TradesPast

\* There are k numbers from 0 to k - 1.
LEMMA FirstNumbers == \A k \in Nat : Cardinality(0 .. k - 1) = k
  <1> TAKE k \in Nat
  <1>1. Cardinality(0 .. k - 1) = IF 0 > k - 1 THEN 0 ELSE (k - 1) - 0 + 1
    BY FS_Interval
  <1> QED
    BY <1>1

\* A segment begins with an empty window and no position, whatever buffer and ring hold.
LEMMA BeginKeeps ==
    ASSUME SegmentInv, NEW len \in 1 .. MaxRecords - n,
           NEW price \in [0 .. len - 1 -> Prices], NEW gap \in [1 .. len - 1 -> Gaps],
           BeginSegment(price, gap)
    PROVE  SegmentInv'
  <1> DEFINE c == Cardinality(DOMAIN price)
             top == Longer(BufSize, c)
  <1>1. Walk /\ TradesPast
    BY DEF SegmentInv
  <1>2. /\ len \in Nat \ {0} /\ c = len
    <2>1. n \in Nat /\ len \in Nat \ {0}
      BY <1>1, SegmentBoundsNat DEF Walk
    <2>2. DOMAIN price = 0 .. len - 1
      OBVIOUS
    <2> QED
      BY <2>1, <2>2, FirstNumbers
  <1>3. /\ \E time : buf' = [k \in 0 .. top - 1 |->
                               IF k < c THEN [time |-> time[k], price |-> price[k]] ELSE buf[k]]
        /\ n' = c /\ seg' = seg + 1 /\ i' = 0 /\ p' = p /\ out' = out
        /\ ring' = [k \in 0 .. p.window - 1 |-> 0] /\ slot' = 0 /\ sum' = 0 /\ sumSq' = 0
        /\ open' = FALSE /\ qty' = 0
    BY DEF BeginSegment, WindowCleared
  <1>4. PICK time : buf' = [k \in 0 .. top - 1 |->
                              IF k < c THEN [time |-> time[k], price |-> price[k]] ELSE buf[k]]
    BY <1>3
  <1> HIDE DEF c
  <1>5. top \in Nat /\ len <= top /\ (top = BufSize \/ top = len)
    BY <1>1, <1>2 DEF Longer, Walk
  <1> HIDE DEF top
  <1>6. p.window \in Nat \ {0} /\ p \in Params /\ seg \in Nat
    BY <1>1, ParamsValid DEF Walk
  <1>7. DOMAIN buf' = 0 .. top - 1 /\ BufSize' = top
    <2>1. DOMAIN buf' = 0 .. top - 1
      BY <1>4
    <2> QED
      BY <1>5, <2>1, FirstNumbers DEF BufSize
  <1>8. Walk'
    <2>1. ASSUME NEW k \in 0 .. top - 1 PROVE buf'[k].price \in Prices
      <3>1. CASE k < c
        <4>1. buf'[k] = [time |-> time[k], price |-> price[k]] /\ k \in 0 .. len - 1
          BY <1>2, <1>4, <3>1
        <4> QED
          BY <4>1
      <3>2. CASE ~(k < c)
        <4>1. buf'[k] = buf[k]
          BY <1>4, <3>2
        <4>2. k \in 0 .. BufSize - 1
          BY <1>2, <1>5, <3>2
        <4> QED
          BY <1>1, <4>1, <4>2 DEF Walk
      <3> QED
        BY <3>1, <3>2
    <2>2. n' \in Nat /\ n' <= BufSize' /\ i' \in 0 .. n' /\ seg' \in Nat /\ BufSize' \in Nat /\ p' \in Params
      BY <1>2, <1>3, <1>5, <1>6, <1>7
    <2> QED
      BY <1>7, <2>1, <2>2 DEF Walk
  <1>9. RingHolds'
    <2>1. p'.window = p.window /\ DOMAIN ring' = 0 .. p.window - 1 /\ slot' = 0 /\ i' = 0
      BY <1>3
    <2>2. 0 \in 0 .. p.window - 1 /\ ~(0 >= p.window) /\ 0 .. 0 - 1 = {}
      BY <1>6
    <2> QED
      BY <2>1, <2>2 DEF RingHolds
  <1>10. SumsOfWindow'
    <2>1. Longer(0, i' - 1 + 1 - p'.window) .. i' - 1 = {}
      BY <1>3, <1>6 DEF Longer
    <2>2. Window(i - 1)' = {}
      BY <2>1 DEF Window
    <2>3. SumOver(Window(i - 1))' = 0 /\ SquaresOver(Window(i - 1))' = 0
      BY <2>2, EmptySum DEF SumOver, SquaresOver
    <2> QED
      BY <1>3, <2>3 DEF SumsOfWindow
  <1>11. Mine' = {}
    <2>1. \A k \in DOMAIN out : out[k].seg \in Nat /\ out[k].seg <= seg
      BY <1>1, SegOfTrades
    <2>2. \A k \in DOMAIN out' : out'[k].seg # seg'
      BY <1>3, <1>6, <2>1
    <2> QED
      BY <2>2 DEF Mine
  <1>12. TradesPast'
    <2>1. \A k \in DOMAIN out' : out'[k].seg <= seg'
      <3>1. \A k \in DOMAIN out : out[k].seg \in Nat /\ out[k].seg <= seg
        BY <1>1, SegOfTrades
      <3> QED
        BY <1>3, <1>6, <3>1
    <2> QED
      BY <1>1, <1>3, <1>11, <2>1 DEF TradesPast
  <1>13. TradesAsDefined'
    <2>1. (0 .. i - 1)' = {}
      BY <1>3
    <2>2. Apart' /\ NoneMissed'
      BY <1>11, <2>1 DEF Apart, NoneMissed
    <2> QED
      BY <1>3, <1>11, <2>2, AsDefinedPartsNext
  <1> QED
    BY <1>8, <1>9, <1>10, <1>12, <1>13 DEF SegmentInv

\* Before the first segment there is nothing to sum and no trade.
LEMMA SegmentInit == InitSegment => SegmentInv
  <1> SUFFICES ASSUME InitSegment PROVE SegmentInv
    OBVIOUS
  <1>1. /\ p \in Params /\ seg = 0 /\ n = 0 /\ i = 0 /\ buf = [k \in {} |-> NoRecord]
        /\ ring = [k \in 0 .. p.window - 1 |-> 0] /\ slot = 0 /\ sum = 0 /\ sumSq = 0
        /\ open = FALSE /\ qty = 0 /\ out = <<>>
    BY DEF InitSegment
  <1>2. p.window \in Nat \ {0}
    BY <1>1, ParamsValid
  <1>3. Walk
    <2>1. DOMAIN buf = {} /\ BufSize = 0
      BY <1>1, FS_EmptySet DEF BufSize
    <2> QED
      BY <1>1, <2>1 DEF Walk
  <1>4. RingHolds
    <2>1. 0 \in 0 .. p.window - 1 /\ ~(0 >= p.window) /\ 0 .. 0 - 1 = {}
      BY <1>2
    <2> QED
      BY <1>1, <2>1 DEF RingHolds
  <1>5. SumsOfWindow
    <2>1. Window(i - 1) = {}
      BY <1>1, <1>2 DEF Window, Longer
    <2>2. SumOver(Window(i - 1)) = 0 /\ SquaresOver(Window(i - 1)) = 0
      BY <2>1, EmptySum DEF SumOver, SquaresOver
    <2> QED
      BY <1>1, <2>2 DEF SumsOfWindow
  <1>6. DOMAIN out = {} /\ Mine = {} /\ 0 .. i - 1 = {}
    <2>1. DOMAIN out = {}
      BY <1>1
    <2>2. Mine = {}
      BY <2>1 DEF Mine
    <2>3. 0 .. i - 1 = {}
      BY <1>1
    <2> QED
      BY <2>1, <2>2, <2>3
  <1>7. TradesPast
    <2>1. out \in Seq(TradeRecord)
      BY <1>1
    <2> QED
      BY <1>1, <1>6, <2>1 DEF TradesPast, TradeRecord
  <1>8. TradesAsDefined
    BY <1>1, <1>6 DEF TradesAsDefined
  <1> QED
    BY <1>3, <1>4, <1>5, <1>7, <1>8 DEF SegmentInv

\* A step that changes nothing.
LEMMA SegmentStutters == SegmentInv /\ UNCHANGED segmentVars => SegmentInv'
  <1> SUFFICES ASSUME SegmentInv, UNCHANGED segmentVars PROVE SegmentInv'
    OBVIOUS
  <1>1. /\ p' = p /\ seg' = seg /\ buf' = buf /\ n' = n /\ i' = i /\ ring' = ring /\ slot' = slot
        /\ sum' = sum /\ sumSq' = sumSq /\ open' = open /\ side' = side /\ qty' = qty
        /\ entry' = entry /\ out' = out
    BY DEF segmentVars, windowVars, positionVars
  <1>2. Walk /\ RingHolds /\ SumsOfWindow /\ TradesPast /\ TradesAsDefined
    BY DEF SegmentInv
  <1>3. Walk'
    BY <1>1, <1>2 DEF Walk, BufSize
  <1>4. RingHolds'
    BY <1>1, <1>2 DEF RingHolds, X
  <1>5. SumsOfWindow'
    <2>1. Window(i - 1)' = Window(i - 1)
      BY <1>1 DEF Window
    <2>2. /\ SumOver(Window(i - 1))' = SumOver(Window(i - 1))
          /\ SquaresOver(Window(i - 1))' = SquaresOver(Window(i - 1))
      BY <1>1, <2>1, SameSegment
    <2> QED
      BY <1>1, <1>2, <2>2 DEF SumsOfWindow
  <1>6. Mine' = Mine /\ Occupied' = Occupied
    <2>1. Mine' = Mine
      BY <1>1 DEF Mine
    <2> QED
      BY <1>1, <2>1 DEF Occupied
  <1>7. TradesPast'
    BY <1>1, <1>2, <1>6 DEF TradesPast
  <1>8. /\ \A k \in Mine : RightTrade(out[k])
        /\ Apart /\ NoneMissed
        /\ open => RightPosition
    BY <1>2, AsDefinedParts
  <1>9. \A k \in Mine' : RightTrade(out[k])'
    <2>1. \A k \in Mine' : RightTrade(out'[k])
      BY <1>1, <1>6, <1>8
    <2> QED
      BY <1>1, <2>1, RightTradeStays
  <1>10. Apart' /\ NoneMissed' /\ (open' => RightPosition')
    <2>1. Apart'
      BY <1>1, <1>6, <1>8 DEF Apart
    <2>2. NoneMissed'
      BY <1>1, <1>6, <1>8, SameSegment DEF NoneMissed
    <2>3. open' => RightPosition'
      BY <1>1, <1>8, SameSegment DEF RightPosition
    <2> QED
      BY <2>1, <2>2, <2>3
  <1>11. TradesAsDefined'
    BY <1>9, <1>10, AsDefinedPartsNext
  <1> QED
    BY <1>3, <1>4, <1>5, <1>7, <1>11 DEF SegmentInv

\* The ring buffer and its sums, the position and the trades of strategyOnSegment
\* (strategy.cpp:28), over the segments that runInstrument reads into one buffer, agree with the
\* definition of the strategy in every state.
THEOREM SegmentInvariant == SpecSegment => []SegmentInv
  <1>1. InitSegment => SegmentInv
    BY SegmentInit
  <1>2. SegmentInv /\ [NextSegment]_segmentVars => SegmentInv'
    <2> SUFFICES ASSUME SegmentInv, [NextSegment]_segmentVars PROVE SegmentInv'
      OBVIOUS
    <2>1. CASE \E len \in 1 .. MaxRecords - n :
                 \E price \in [0 .. len - 1 -> Prices], gap \in [1 .. len - 1 -> Gaps] :
                    BeginSegment(price, gap)
      BY <2>1, BeginKeeps
    <2>2. CASE Second
      BY <2>2, SecondKeeps
    <2>3. CASE Done \/ UNCHANGED segmentVars
      BY <2>3, SegmentStutters DEF Done
    <2> QED
      BY <2>1, <2>2, <2>3 DEF NextSegment
  <1> QED
    BY <1>1, <1>2, PTL DEF SpecSegment

\* The running sums of strategyOnSegment (strategy.cpp:46-57) are those of the prices in the
\* window of this segment, whatever the ring held before and however often it has turned.
THEOREM SegmentSums == SpecSegment => []SumsOfWindow
  <1>1. SegmentInv => SumsOfWindow
    BY DEF SegmentInv
  <1> QED
    BY <1>1, SegmentInvariant, PTL

\* The trades of strategyOnSegment (strategy.cpp:46-94) are those of the definition: none is
\* opened late, kept past its first exit, reopened in its exit second, carried into another
\* segment, or missed.
THEOREM SegmentTrades == SpecSegment => []TradesAsDefined
  <1>1. SegmentInv => TradesAsDefined
    BY DEF SegmentInv
  <1> QED
    BY <1>1, SegmentInvariant, PTL
=============================================================================
