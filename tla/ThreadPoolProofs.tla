--------------------------- MODULE ThreadPoolProofs ---------------------------
(***************************************************************************)
(* Proofs about ThreadPool for every finite set of workers, every loop     *)
(* length and chunk size, and every number of calls.                       *)
(***************************************************************************)
EXTENDS ThreadPool, FiniteSetTheorems, TLAPS

\* The caller and the workers are different threads, so writing one's pc leaves the others'.
LEMMA ThreadFacts ==
    /\ Caller \in Thread
    /\ Worker \subseteq Thread
    /\ \A w \in Worker : w # Caller
    /\ \A t \in Thread : t # Caller => t \in Worker
  BY CallerApart DEF Thread

\* Owing is a finite set of workers, so its size is a natural number, zero when it is empty.
LEMMA OwingFinite ==
    /\ IsFiniteSet(Owing)
    /\ Cardinality(Owing) \in Nat
    /\ Cardinality(Owing) = 0 <=> Owing = {}
  <1>1. Owing \subseteq Worker
    BY DEF Owing
  <1>2. IsFiniteSet(Owing)
    BY <1>1, WorkersFinite, FS_Subset
  <1> QED
    BY <1>2, FS_CardinalityType, FS_EmptySet

\* The initial state satisfies the invariant: nobody owes anything before the first call.
LEMMA InitInv == Init => IInv
  <1> SUFFICES ASSUME Init PROVE IInv
    OBVIOUS
  <1> USE DEF Init
  <1>1. TypeOK
    <2>1. /\ pc \in [Thread -> CallerState \cup WorkerState]
          /\ pc[Caller] \in CallerState
          /\ \A w \in Worker : pc[w] \in WorkerState
      BY ThreadFacts DEF CallerState, WorkerState
    <2>2. doing \in [Thread -> [fn : Nat, lo : Nat, hi : Nat]]
      BY DEF NoChunk
    <2>3. seen \in [Worker -> Nat] /\ arg \in [total : Nat, chunk : Nat]
      OBVIOUS
    <2>4. /\ fn_ \in Nat /\ total_ \in Nat /\ next_ \in Nat /\ chunk_ \in Nat \ {0}
          /\ pending_ \in Nat /\ generation_ \in Nat /\ calls \in Nat
      OBVIOUS
    <2>5. stop_ \in BOOLEAN
      BY Zenon
    <2> HIDE DEF Init
    <2> QED
      BY <2>1, <2>2, <2>3, <2>4, <2>5 DEF TypeOK
  <1>2. Owing = {}
    BY ThreadFacts DEF Owing
  <1>3. PendingCounts
    BY <1>2, OwingFinite DEF PendingCounts
  <1>4. SeenCurrent
    BY ThreadFacts DEF SeenCurrent
  <1>5. QuietOutside
    BY <1>2 DEF QuietOutside
  <1>6. CallerDrained
    BY DEF CallerDrained
  <1>7. BodyIsCalls
    BY ThreadFacts DEF BodyIsCalls, InRun
  <1>8. ChunksHeld /\ ChunksApart
    BY ThreadFacts DEF ChunksHeld, ChunksApart
  <1>9. ArgGiven
    BY ThreadFacts DEF ArgGiven
  <1> QED
    BY <1>1, <1>3, <1>4, <1>5, <1>6, <1>7, <1>8, <1>9 DEF IInv

\* run() only locks the mutex or, for an empty loop, returns: nobody's debt changes.
LEMMA CallInv ==
    ASSUME IInv, NEW total \in Sizes, NEW chunk \in Chunks, Call(total, chunk)
    PROVE  IInv'
  <1> USE ThreadFacts, ParametersNat DEF IInv, Call, Goto, job
  <1>1. TypeOK'
    BY DEF TypeOK, CallerState, WorkerState
  <1>2. Owing' = Owing
    BY DEF TypeOK, Owing
  <1>3. ~InRun /\ ~InRun'
    BY DEF TypeOK, InRun
  <1>4. PendingCounts' /\ QuietOutside' /\ BodyIsCalls'
    BY <1>2, <1>3 DEF PendingCounts, QuietOutside, BodyIsCalls
  <1>5. SeenCurrent'
    BY DEF TypeOK, SeenCurrent
  <1>6. CallerDrained'
    BY DEF TypeOK, CallerDrained
  <1>7. ChunksHeld' /\ ChunksApart'
    BY DEF TypeOK, ChunksHeld, ChunksApart
  <1>8. ArgGiven'
    BY DEF TypeOK, ArgGiven
  <1> QED
    BY <1>1, <1>4, <1>5, <1>6, <1>7, <1>8

\* Publishing happens when nobody owes anything, and makes every worker owe the new generation.
LEMMA PublishInv == ASSUME IInv, Publish PROVE IInv'
  <1> USE ThreadFacts, OwingFinite DEF IInv, Publish, Goto
  <1>1. TypeOK'
    BY WorkersFinite, FS_CardinalityType DEF TypeOK, CallerState, WorkerState, AtLeastOne, Outstanding
  <1>2. ~InRun /\ InRun'
    BY DEF TypeOK, InRun
  <1>3. Owing = {}
    BY <1>2 DEF QuietOutside
  <1>4. Owing' = Worker
    BY DEF TypeOK, Owing, SeenCurrent
  <1>5. PendingCounts'
    BY <1>4 DEF PendingCounts, Outstanding
  <1>6. SeenCurrent'
    BY <1>3 DEF TypeOK, SeenCurrent, Owing
  <1>7. QuietOutside' /\ CallerDrained' /\ BodyIsCalls' /\ ArgGiven'
    BY <1>2 DEF TypeOK, QuietOutside, CallerDrained, BodyIsCalls, ArgGiven
  <1>8. \A t \in Thread : pc[t] # "exec" /\ pc'[t] # "exec"
    BY <1>3 DEF TypeOK, Owing
  <1>9. ChunksHeld' /\ ChunksApart'
    BY <1>8 DEF ChunksHeld, ChunksApart
  <1> QED
    BY <1>1, <1>5, <1>6, <1>7, <1>9

\* A step that moves threads between states of no account to the invariant preserves it: no
\* worker enters or leaves a generation, no thread enters or leaves a body.
LEMMA PcOnlyInv ==
    ASSUME IInv, TypeOK',
           UNCHANGED <<job, next_, pending_, generation_, seen, doing, calls, arg>>,
           pc'[Caller] = "publish" => pc[Caller] = "publish",
           \A w \in Worker : pc'[w] \in {"drain", "exec", "finish"} <=> pc[w] \in {"drain", "exec", "finish"},
           \A t \in Thread : pc'[t] = "exec" <=> pc[t] = "exec",
           InRun' => InRun,
           ~InRun' => Owing = {},
           pc'[Caller] \notin {"notify", "drain", "exec"} => next_ >= total_
    PROVE  IInv'
  <1> USE DEF IInv, job
  <1>1. Owing' = Owing
    BY DEF Owing
  <1>2. PendingCounts' /\ QuietOutside' /\ BodyIsCalls' /\ CallerDrained' /\ ArgGiven'
    BY <1>1 DEF PendingCounts, QuietOutside, BodyIsCalls, CallerDrained, ArgGiven
  <1>3. SeenCurrent'
    BY DEF SeenCurrent
  <1>4. ChunksHeld' /\ ChunksApart'
    BY DEF ChunksHeld, ChunksApart
  <1> QED
    BY <1>2, <1>3, <1>4

\* Waking sleeping workers, whatever state the caller goes on to.
LEMMA NotifyStartInv == ASSUME IInv, NotifyStart PROVE IInv'
  <1> USE ThreadFacts DEF NotifyStart, NotifyAllWorkers
  <1>1. TypeOK'
    BY DEF IInv, TypeOK, CallerState, WorkerState, job
  <1>2. InRun /\ InRun' /\ pc'[Caller] = "drain"
    BY DEF IInv, TypeOK, InRun
  <1> QED
    BY <1>1, <1>2, PcOnlyInv DEF IInv, TypeOK

\* run() returns only when pending_ is zero, hence when no worker owes the generation.
LEMMA AwaitDoneInv == ASSUME IInv, AwaitDone PROVE IInv'
  <1> USE ThreadFacts DEF AwaitDone, Goto
  <1>1. TypeOK'
    BY DEF IInv, TypeOK, CallerState, WorkerState, job
  <1>2. ~InRun' => Owing = {}
    BY OwingFinite DEF IInv, TypeOK, InRun, PendingCounts, AllDone
  <1>3. InRun /\ next_ >= total_
    BY DEF IInv, TypeOK, InRun, CallerDrained
  <1> QED
    BY <1>1, <1>2, <1>3, PcOnlyInv DEF IInv, TypeOK

\* Setting stop_ changes nobody's debt.
LEMMA StopInv == ASSUME IInv, Stop PROVE IInv'
  <1> USE ThreadFacts DEF Stop, Goto
  <1>1. TypeOK'
    <2>1. stop_' \in BOOLEAN
      BY Zenon
    <2> QED
      BY <2>1 DEF IInv, TypeOK, CallerState, WorkerState, job
  <1>2. Owing = {} /\ next_ >= total_ /\ ~InRun'
    BY DEF IInv, TypeOK, InRun, QuietOutside, CallerDrained
  <1> QED
    BY <1>1, <1>2, PcOnlyInv DEF IInv, TypeOK

\* Neither does waking the workers for the shutdown.
LEMMA NotifyStopInv == ASSUME IInv, NotifyStop PROVE IInv'
  <1> USE ThreadFacts DEF NotifyStop, NotifyAllWorkers
  <1>1. TypeOK'
    BY DEF IInv, TypeOK, CallerState, WorkerState, job
  <1>2. Owing = {} /\ next_ >= total_ /\ ~InRun'
    BY DEF IInv, TypeOK, InRun, QuietOutside, CallerDrained
  <1> QED
    BY <1>1, <1>2, PcOnlyInv DEF IInv, TypeOK

\* Nor does the return of the joins.
LEMMA JoinInv == ASSUME IInv, Join PROVE IInv'
  <1> USE ThreadFacts DEF Join, Goto
  <1>1. TypeOK'
    BY DEF IInv, TypeOK, CallerState, WorkerState, job
  <1>2. Owing = {} /\ next_ >= total_ /\ ~InRun'
    BY DEF IInv, TypeOK, InRun, QuietOutside, CallerDrained
  <1> QED
    BY <1>1, <1>2, PcOnlyInv DEF IInv, TypeOK

\* Nor does a spurious wake-up.
LEMMA SpuriousInv == ASSUME IInv, NEW t \in Thread, Spurious(t) PROVE IInv'
  <1> USE ThreadFacts DEF Spurious, Goto
  <1>1. TypeOK'
    BY DEF IInv, TypeOK, CallerState, WorkerState, job
  <1>2. InRun' = InRun
    BY DEF IInv, TypeOK, InRun
  <1> QED
    BY <1>1, <1>2, PcOnlyInv DEF IInv, TypeOK, QuietOutside, CallerDrained

\* A thread inside drain() is inside a run: the caller trivially, a worker because it owes.
LEMMA DrainInRun ==
    ASSUME IInv, NEW t \in Thread, InDrain(t)
    PROVE  InRun
  <1> USE ThreadFacts DEF IInv, InDrain
  <1>1. CASE t = Caller
    BY <1>1 DEF InRun
  <1>2. CASE t # Caller
    BY <1>2 DEF QuietOutside, Owing
  <1> QED
    BY <1>1, <1>2

\* The chunk a thread takes lies above every chunk taken before, because those end below next_.
LEMMA ClaimInv == ASSUME IInv, NEW t \in Thread, Claim(t) PROVE IInv'
  <1> USE ThreadFacts DEF Claim, Goto, job, Advance
  <1>1. TypeOK
    BY DEF IInv
  <1>2. TypeOK'
    <2>1. pc' \in [Thread -> CallerState \cup WorkerState] /\ pc'[Caller] \in CallerState
          /\ \A w \in Worker : pc'[w] \in WorkerState
      BY <1>1 DEF TypeOK, CallerState, WorkerState, AfterDrain
    <2>2. next_' \in Nat /\ doing' \in [Thread -> [fn : Nat, lo : Nat, hi : Nat]]
      BY <1>1 DEF TypeOK, Smaller
    <2> QED
      BY <1>1, <2>1, <2>2 DEF TypeOK
  <1>3. Owing' = Owing
    BY <1>1 DEF TypeOK, Owing, AfterDrain
  <1>4. InRun /\ InRun'
    BY <1>1, DrainInRun DEF TypeOK, InRun, AfterDrain, InDrain
  <1>5. PendingCounts' /\ QuietOutside' /\ BodyIsCalls'
    BY <1>3, <1>4 DEF IInv, PendingCounts, QuietOutside, BodyIsCalls
  <1>6. SeenCurrent'
    BY <1>1 DEF IInv, TypeOK, SeenCurrent, AfterDrain
  <1>7. CallerDrained' /\ ArgGiven'
    BY <1>1, <1>4 DEF IInv, TypeOK, CallerDrained, AfterDrain, ArgGiven, InRun
  <1>8. ChunksHeld'
    BY <1>1 DEF IInv, TypeOK, ChunksHeld, AfterDrain, Smaller
  <1>9. ChunksApart'
    BY <1>1 DEF IInv, TypeOK, ChunksHeld, ChunksApart, AfterDrain, Smaller
  <1> QED
    BY <1>2, <1>5, <1>6, <1>7, <1>8, <1>9 DEF IInv

\* A thread that comes back from the body holds no chunk any more and is still in drain().
LEMMA FinishInv == ASSUME IInv, NEW t \in Thread, Finish(t) PROVE IInv'
  <1> USE ThreadFacts DEF Finish, Goto, job
  <1>1. TypeOK
    BY DEF IInv
  <1>2. TypeOK'
    BY <1>1 DEF TypeOK, CallerState, WorkerState, NoChunk
  <1>3. Owing' = Owing
    BY <1>1 DEF TypeOK, Owing
  <1>4. InRun /\ InRun'
    BY <1>1, DrainInRun DEF TypeOK, InRun, InDrain
  <1>5. PendingCounts' /\ QuietOutside' /\ BodyIsCalls' /\ CallerDrained' /\ ArgGiven'
    BY <1>1, <1>3, <1>4 DEF IInv, TypeOK, PendingCounts, QuietOutside, BodyIsCalls, CallerDrained,
        ArgGiven, InRun
  <1>6. SeenCurrent'
    BY <1>1 DEF IInv, TypeOK, SeenCurrent
  <1>7. ChunksHeld' /\ ChunksApart'
    BY <1>1 DEF IInv, TypeOK, ChunksHeld, ChunksApart, NoChunk
  <1> QED
    BY <1>2, <1>5, <1>6, <1>7 DEF IInv

\* A worker that joins a generation owed it already, by its seen.
LEMMA AwaitStartInv == ASSUME IInv, NEW w \in Worker, AwaitStart(w) PROVE IInv'
  <1> USE ThreadFacts DEF AwaitStart, Goto, job, MayStart
  <1>1. TypeOK
    BY DEF IInv
  <1>2. CASE seen' = seen
    <2>1. TypeOK'
      BY <1>1, <1>2 DEF TypeOK, CallerState, WorkerState
    <2>2. pc'[w] \in {"asleep", "exited", "drain"} /\ \A u \in Thread : u # w => pc'[u] = pc[u]
      BY <1>1 DEF TypeOK
    <2>3. CASE pc'[w] # "drain"
      <3>1. InRun' = InRun
        BY <1>1, <2>2 DEF TypeOK, InRun
      <3> QED
        BY <1>1, <1>2, <2>1, <2>2, <2>3, <3>1, PcOnlyInv DEF IInv, QuietOutside, CallerDrained
    <2>4. CASE pc'[w] = "drain"
      BY <1>1, <1>2, <2>4 DEF TypeOK
    <2> QED
      BY <2>3, <2>4
  <1>3. CASE seen' # seen
    <2>1. /\ pc' = [pc EXCEPT ![w] = "drain"]
          /\ seen' = [seen EXCEPT ![w] = generation_]
          /\ generation_ # seen[w]
      BY <1>3, <1>1 DEF TypeOK
    <2>2. TypeOK'
      BY <1>1, <2>1 DEF TypeOK, CallerState, WorkerState
    <2>3. Owing' = Owing
      BY <1>1, <2>1 DEF TypeOK, Owing
    <2>4. InRun' = InRun
      BY <1>1, <2>1 DEF TypeOK, InRun
    <2>5. PendingCounts' /\ QuietOutside' /\ BodyIsCalls' /\ CallerDrained' /\ ArgGiven'
      BY <1>1, <2>1, <2>3, <2>4 DEF IInv, TypeOK, PendingCounts, QuietOutside, BodyIsCalls, CallerDrained,
          ArgGiven
    <2>6. SeenCurrent'
      BY <1>1, <2>1 DEF IInv, TypeOK, SeenCurrent
    <2>7. ChunksHeld' /\ ChunksApart'
      BY <1>1, <2>1 DEF IInv, TypeOK, ChunksHeld, ChunksApart
    <2> QED
      BY <2>2, <2>5, <2>6, <2>7 DEF IInv
  <1> QED
    BY <1>2, <1>3

\* A worker that leaves pays its debt: one owing worker less, and pending_ one less.
LEMMA LeaveInv == ASSUME IInv, NEW w \in Worker, Leave(w) PROVE IInv'
  <1> USE ThreadFacts DEF Leave, job
  <1>1. TypeOK
    BY DEF IInv
  <1>2. w \in Owing /\ seen[w] = generation_
    BY DEF Owing, IInv, SeenCurrent
  <1>3. pc'[w] = "check" /\ \A u \in Worker : u # w => pc'[u] = pc[u]
    BY <1>1 DEF TypeOK
  <1>4. Owing' = Owing \ {w}
    BY <1>2, <1>3 DEF Owing
  <1>5. Cardinality(Owing') = Cardinality(Owing) - 1 /\ Cardinality(Owing') \in Nat
    BY <1>2, <1>4, OwingFinite, FS_RemoveElement, FS_CardinalityType
  <1>6. PendingCounts' /\ pending_' \in Nat
    BY <1>5 DEF IInv, PendingCounts
  <1>7. TypeOK'
    BY <1>1, <1>6 DEF TypeOK, CallerState, WorkerState
  <1>8. InRun' = InRun /\ pc'[Caller] \in {pc[Caller], "wait"} /\ (pc'[Caller] # pc[Caller] => pc[Caller] = "asleep")
    BY <1>1 DEF TypeOK, InRun
  <1>9. QuietOutside' /\ BodyIsCalls'
    BY <1>4, <1>8 DEF IInv, QuietOutside, BodyIsCalls
  <1>10. CallerDrained' /\ ArgGiven'
    BY <1>8 DEF IInv, CallerDrained, ArgGiven
  <1>11. SeenCurrent'
    BY <1>1, <1>3 DEF IInv, SeenCurrent
  <1>12. \A t \in Thread : pc'[t] = "exec" <=> pc[t] = "exec"
    BY <1>1, <1>3, <1>8
  <1>13. ChunksHeld' /\ ChunksApart'
    BY <1>12 DEF IInv, ChunksHeld, ChunksApart
  <1> QED
    BY <1>6, <1>7, <1>9, <1>10, <1>11, <1>13 DEF IInv

-----------------------------------------------------------------------------

\* Every step of the pool preserves the invariant.
LEMMA NextInv == IInv /\ [Next]_vars => IInv'
  <1> SUFFICES ASSUME IInv, [Next]_vars PROVE IInv'
    OBVIOUS
  <1>1. CASE UNCHANGED vars
    BY <1>1 DEF vars, job, IInv, TypeOK, ArgGiven, PendingCounts, Owing, SeenCurrent, QuietOutside, InRun,
        CallerDrained, BodyIsCalls, ChunksHeld, ChunksApart
  <1>2. ASSUME NEW total \in Sizes, NEW chunk \in Chunks, Call(total, chunk) PROVE IInv'
    BY <1>2, CallInv
  <1>3. CASE Stop
    BY <1>3, StopInv
  <1>4. CASE CallerStep
    BY <1>4, ThreadFacts, PublishInv, NotifyStartInv, AwaitDoneInv, NotifyStopInv, JoinInv, ClaimInv,
        FinishInv DEF CallerStep
  <1>5. ASSUME NEW w \in Worker, WorkerStep(w) PROVE IInv'
    BY <1>5, ThreadFacts, AwaitStartInv, ClaimInv, FinishInv, LeaveInv DEF WorkerStep
  <1>6. ASSUME NEW t \in Thread, Spurious(t) PROVE IInv'
    BY <1>6, SpuriousInv
  <1> QED
    BY <1>1, <1>2, <1>3, <1>4, <1>5, <1>6 DEF Next, Gone

\* The inductive invariant of the pool, for any number of workers, calls and any loop sizes.
THEOREM PoolInvariant == Spec => []IInv
  BY InitInv, NextInv, PTL DEF Spec

\* The pool's fields keep their types: in particular --pending_ never wraps below zero.
THEOREM PoolTypeOK == Spec => []TypeOK
  <1>1. IInv => TypeOK
    BY DEF IInv
  <1> QED
    BY <1>1, PoolInvariant, PTL

\* The plain fields drain() reads are never rewritten under a reader.
THEOREM PoolNoSharedRace == Spec => []NoSharedRace
  <1>1. IInv => NoSharedRace
    BY DEF IInv, NoSharedRace, InDrain, QuietOutside, Owing
  <1> QED
    BY <1>1, PoolInvariant, PTL

\* No body outlives the call of run() that passed it.
THEOREM PoolBodyAlive == Spec => []BodyAlive
  <1>1. IInv => BodyAlive
    BY DrainInRun DEF IInv, BodyAlive, ChunksHeld, BodyIsCalls, InDrain
  <1> QED
    BY <1>1, PoolInvariant, PTL

\* Once stop_ is set the caller stays in the destructor.
LEMMA StopStays == IInv /\ StopOutside /\ [Next]_vars => StopOutside'
  <1> SUFFICES ASSUME IInv, StopOutside, [Next]_vars PROVE StopOutside'
    OBVIOUS
  <1> USE ThreadFacts DEF StopOutside
  <1>0. TypeOK
    BY DEF IInv
  <1>1. CASE UNCHANGED vars
    BY <1>1 DEF vars
  <1>2. ASSUME NEW total \in Sizes, NEW chunk \in Chunks, Call(total, chunk) PROVE StopOutside'
    BY <1>2 DEF Call
  <1>3. CASE Stop
    BY <1>0, <1>3 DEF TypeOK, Stop, Goto
  <1>4. CASE Publish \/ NotifyStart \/ AwaitDone
    BY <1>4 DEF Publish, NotifyStart, AwaitDone
  <1>5. CASE NotifyStop \/ Join
    BY <1>0, <1>5 DEF TypeOK, NotifyStop, NotifyAllWorkers, Join, Goto
  <1>6. ASSUME NEW t \in Thread, Claim(t) \/ Finish(t) \/ Spurious(t) PROVE StopOutside'
    BY <1>0, <1>6 DEF TypeOK, Claim, Finish, Spurious, Goto
  <1>7. ASSUME NEW w \in Worker, AwaitStart(w) \/ Leave(w) PROVE StopOutside'
    BY <1>0, <1>7 DEF TypeOK, AwaitStart, Leave, Goto
  <1> QED
    BY <1>1, <1>2, <1>3, <1>4, <1>5, <1>6, <1>7 DEF Next, CallerStep, WorkerStep, Gone, vars

\* A step that leaves seen alone, takes no worker into drain() and lets none exit.
LEMMA NobodyJoins ==
    ASSUME UNCHANGED seen, NEW w \in Worker, InDrain(w)' => InDrain(w), pc'[w] = "exited" => pc[w] = "exited"
    PROVE  JoinsOnce(w)
  BY DEF JoinsOnce, Joins, Exits

\* Where a worker tests the predicate it is in no generation, and the one it may join is the next;
\* when stop_ is set there is none that it still owes.
LEMMA StartJoinsOnce ==
    ASSUME IInv, StopOutside, NEW w \in Worker, AwaitStart(w), NEW u \in Worker
    PROVE  JoinsOnce(u)
  <1> USE ThreadFacts
  <1>1. TypeOK /\ pc[w] = "check" /\ seen \in [Worker -> Nat] /\ generation_ \in Nat
    BY DEF IInv, TypeOK, AwaitStart
  <1>2. CASE u # w
    <2>1. pc'[u] = pc[u] /\ seen'[u] = seen[u]
      BY <1>1, <1>2 DEF TypeOK, AwaitStart, Goto
    <2> QED
      BY <2>1 DEF JoinsOnce, Joins, Exits, InDrain
  <1>3. CASE u = w
    <2>1. CASE ~MayStart(w)
      BY <1>1, <1>3, <2>1 DEF TypeOK, AwaitStart, Goto, JoinsOnce, Joins, Exits, InDrain
    <2>2. CASE MayStart(w) /\ stop_
      <3>1. pc'[w] = "exited" /\ seen'[w] = seen[w]
        BY <1>1, <2>2 DEF TypeOK, AwaitStart, Goto
      <3>2. Owing = {}
        BY <2>2 DEF IInv, QuietOutside, StopOutside, InRun
      <3>3. seen[w] = generation_
        BY <3>2 DEF Owing
      <3> QED
        BY <1>3, <3>1, <3>3 DEF JoinsOnce, Joins, InDrain
    <2>3. CASE MayStart(w) /\ ~stop_
      <3>1. pc'[w] = "drain" /\ seen'[w] = generation_
        BY <1>1, <2>3 DEF TypeOK, AwaitStart, Goto
      <3>2. generation_ # seen[w]
        BY <2>3 DEF MayStart
      <3>3. seen[w] <= generation_ /\ generation_ <= seen[w] + 1
        BY DEF IInv, SeenCurrent
      <3>4. seen'[w] = seen[w] + 1 /\ seen'[w] # seen[w]
        BY <1>1, <3>1, <3>2, <3>3
      <3>5. Joins(w) /\ ~Exits(w)
        BY <1>1, <3>1 DEF Joins, Exits, InDrain
      <3> QED
        BY <1>3, <3>4, <3>5 DEF JoinsOnce
    <2> QED
      BY <2>1, <2>2, <2>3
  <1> QED
    BY <1>2, <1>3

\* No other step takes a worker into drain() or lets it exit.
LEMMA OthersJoinNot ==
    ASSUME IInv, NEW w \in Worker,
           \/ \E total \in Sizes, chunk \in Chunks : Call(total, chunk)
           \/ Stop \/ CallerStep \/ Gone
           \/ \E u \in Worker : Claim(u) \/ Finish(u) \/ Leave(u)
           \/ \E t \in Thread : Spurious(t)
    PROVE  JoinsOnce(w)
  <1> USE ThreadFacts
  <1>0. TypeOK
    BY DEF IInv
  <1>1. UNCHANGED seen
    BY DEF Call, Stop, CallerStep, Publish, NotifyStart, AwaitDone, NotifyStop, Join, Claim, Finish, Leave,
        Spurious, Gone, vars
  <1>2. (InDrain(w)' => InDrain(w)) /\ (pc'[w] = "exited" => pc[w] = "exited")
    <2>1. CASE \E total \in Sizes, chunk \in Chunks : Call(total, chunk)
      BY <1>0, <2>1 DEF TypeOK, Call, Goto, InDrain
    <2>2. CASE Stop \/ Publish \/ AwaitDone \/ Join \/ Gone
      BY <1>0, <2>2 DEF TypeOK, Stop, Publish, AwaitDone, Join, Gone, vars, Goto, InDrain
    <2>3. CASE NotifyStart \/ NotifyStop
      BY <1>0, <2>3 DEF TypeOK, NotifyStart, NotifyStop, NotifyAllWorkers, InDrain
    <2>4. ASSUME NEW t \in Thread, Claim(t) \/ Finish(t) \/ Spurious(t)
          PROVE  (InDrain(w)' => InDrain(w)) /\ (pc'[w] = "exited" => pc[w] = "exited")
      BY <1>0, <2>4 DEF TypeOK, Claim, Finish, Spurious, Goto, AfterDrain, InDrain
    <2>5. ASSUME NEW u \in Worker, Leave(u)
          PROVE  (InDrain(w)' => InDrain(w)) /\ (pc'[w] = "exited" => pc[w] = "exited")
      BY <1>0, <2>5 DEF TypeOK, Leave, InDrain
    <2> QED
      BY <2>1, <2>2, <2>3, <2>4, <2>5 DEF CallerStep
  <1> QED
    BY <1>1, <1>2, NobodyJoins

\* A worker enters drain() only for the generation after its last one, hence none twice and none
\* left out, and exits only after the latest.
THEOREM PoolJoinsEveryRun == Spec => JoinsEveryRun
  <1>1. Init => StopOutside
    BY DEF Init, StopOutside
  <1>2. ASSUME IInv, StopOutside, Next, NEW w \in Worker PROVE JoinsOnce(w)
    <2>1. CASE \E u \in Worker : AwaitStart(u)
      BY <1>2, <2>1, StartJoinsOnce
    <2>2. CASE ~\E u \in Worker : AwaitStart(u)
      BY <1>2, <2>2, OthersJoinNot DEF Next, WorkerStep
    <2> QED
      BY <2>1, <2>2
  <1>3. IInv /\ StopOutside /\ [Next]_vars =>
            [\A w \in Worker : JoinsOnce(w)]_<<pc, seen>>
    BY <1>2 DEF vars
  <1> QED
    BY <1>1, <1>3, StopStays, PoolInvariant, PTL DEF Spec, JoinsEveryRun

-----------------------------------------------------------------------------
(* How far next_ runs past total_. *)

\* There are finitely many threads, so a set of threads has a size, which the number of all
\* threads bounds.
LEMMA SomeThreads ==
    ASSUME NEW S, S \subseteq Thread
    PROVE  /\ IsFiniteSet(S)
           /\ Cardinality(S) \in Nat
           /\ Cardinality(Thread) \in Nat
           /\ Cardinality(S) <= Cardinality(Thread)
  <1>1. IsFiniteSet(Thread)
    BY WorkersFinite, FS_Singleton, FS_Union DEF Thread
  <1> QED
    BY <1>1, FS_Subset, FS_CardinalityType

\* The number of threads that have left drain(), before and after a step.
LEMMA OvershotFinite ==
    /\ IsFiniteSet(Overshot)
    /\ Cardinality(Overshot) \in Nat
    /\ Cardinality(Thread) \in Nat
    /\ Cardinality(Overshot) <= Cardinality(Thread)
    /\ Cardinality(Overshot') \in Nat
  <1>1. Overshot \subseteq Thread /\ Overshot' \subseteq Thread
    BY DEF Overshot
  <1> QED
    BY <1>1, SomeThreads

\* A larger factor makes a larger product; this is all the arithmetic that is not linear.
LEMMA MoreChunks ==
    ASSUME NEW c \in Nat, NEW m \in Nat
    PROVE  /\ c * (m + 1) \in Nat
           /\ c <= c * (m + 1)
           /\ c * (m + 1 + 1) = c * (m + 1) + c
           /\ \A n \in Nat : m <= n => c * (m + 1) <= c * (n + 1)
  OBVIOUS

\* A step that writes neither next_ nor the loop's parameters and takes no thread out of the set
\* of those that have left drain() keeps the count.
LEMMA OvershootStays ==
    ASSUME IInv, IInv', OvershootCounted, UNCHANGED <<job, next_>>, Overshot' = Overshot
    PROVE  OvershootCounted'
  BY DEF OvershootCounted, job

\* A new loop starts from zero, and is not empty.
LEMMA PublishOvershoot == ASSUME IInv, IInv', Publish PROVE OvershootCounted'
  <1>1. next_' = 0 /\ total_' \in Nat \ {0} /\ chunk_' \in Nat
    BY ParametersNat DEF IInv, TypeOK, ArgGiven, Publish
  <1>2. Cardinality(Overshot') \in Nat
    BY OvershotFinite
  <1>3. chunk_' * (Cardinality(Overshot') + 1) \in Nat
    BY <1>1, <1>2, MoreChunks
  <1> QED
    BY <1>1, <1>3 DEF OvershootCounted

\* A successful claim leaves next_ within one chunk of total_; a failed one adds a chunk, and
\* the thread that failed leaves drain().
LEMMA ClaimOvershoot ==
    ASSUME IInv, IInv', OvershootCounted, NEW t \in Thread, Claim(t)
    PROVE  OvershootCounted'
  <1> USE ThreadFacts DEF Claim, Goto, job, Advance
  <1>1. TypeOK
    BY DEF IInv
  <1>2. /\ next_' = next_ + chunk_ /\ total_' = total_ /\ chunk_' = chunk_
        /\ next_ \in Nat /\ total_ \in Nat /\ chunk_ \in Nat
    BY <1>1 DEF TypeOK
  <1>3. Cardinality(Overshot') \in Nat /\ Cardinality(Overshot) \in Nat
    BY OvershotFinite
  <1>4. CASE next_ < total_
    <2>1. chunk_ * (Cardinality(Overshot') + 1) \in Nat /\ chunk_ <= chunk_ * (Cardinality(Overshot') + 1)
      BY <1>2, <1>3, MoreChunks
    <2>2. next_' < total_' + chunk_' * (Cardinality(Overshot') + 1)
      BY <1>2, <1>4, <2>1
    <2> QED
      BY <2>2 DEF OvershootCounted
  <1>5. CASE ~(next_ < total_)
    <2>1. t \notin Overshot
      BY DEF Overshot, InDrain
    <2>2. Overshot' = Overshot \cup {t}
      BY <1>1, <1>2, <1>5 DEF IInv, TypeOK, SeenCurrent, Overshot, InDrain, AfterDrain
    <2>3. Cardinality(Overshot') = Cardinality(Overshot) + 1
      BY <2>1, <2>2, OvershotFinite, FS_AddElement
    <2>4. chunk_ * (Cardinality(Overshot') + 1) = chunk_ * (Cardinality(Overshot) + 1) + chunk_
      BY <1>2, <1>3, <2>3, MoreChunks
    <2>5. chunk_ * (Cardinality(Overshot) + 1) \in Nat
      BY <1>2, <1>3, MoreChunks
    <2> QED
      BY <1>2, <2>4, <2>5 DEF OvershootCounted
  <1> QED
    BY <1>4, <1>5

\* Every step keeps the count.
LEMMA NextOvershoot == IInv /\ IInv' /\ OvershootCounted /\ [Next]_vars => OvershootCounted'
  <1> SUFFICES ASSUME IInv, IInv', OvershootCounted, [Next]_vars PROVE OvershootCounted'
    OBVIOUS
  <1> USE ThreadFacts
  <1>0. TypeOK
    BY DEF IInv
  <1>1. CASE UNCHANGED vars
    BY <1>1, OvershootStays DEF vars, job, Overshot, InDrain
  <1>2. ASSUME NEW total \in Sizes, NEW chunk \in Chunks, Call(total, chunk) PROVE OvershootCounted'
    <2>1. Overshot' = Overshot
      BY <1>0, <1>2 DEF TypeOK, Call, Goto, Overshot, InDrain
    <2> QED
      BY <1>2, <2>1, OvershootStays DEF Call
  <1>3. CASE NotifyStart \/ AwaitDone \/ Stop \/ NotifyStop \/ Join
    <2>1. Overshot' = Overshot
      BY <1>0, <1>3 DEF TypeOK, NotifyStart, AwaitDone, Stop, NotifyStop, NotifyAllWorkers, Join, Goto,
          Overshot, InDrain
    <2> QED
      BY <1>3, <2>1, OvershootStays DEF NotifyStart, AwaitDone, Stop, NotifyStop, Join
  <1>4. CASE Publish
    BY <1>4, PublishOvershoot
  <1>5. ASSUME NEW t \in Thread, Claim(t) PROVE OvershootCounted'
    BY <1>5, ClaimOvershoot
  <1>6. ASSUME NEW t \in Thread, Finish(t) \/ Spurious(t) PROVE OvershootCounted'
    <2>1. Overshot' = Overshot
      BY <1>0, <1>6 DEF TypeOK, Finish, Spurious, Goto, Overshot, InDrain
    <2> QED
      BY <1>6, <2>1, OvershootStays DEF Finish, Spurious
  <1>7. ASSUME NEW w \in Worker, AwaitStart(w) \/ Leave(w) PROVE OvershootCounted'
    <2>1. Overshot' = Overshot
      BY <1>0, <1>7 DEF IInv, TypeOK, SeenCurrent, AwaitStart, MayStart, Leave, Goto, Overshot, InDrain
    <2> QED
      BY <1>7, <2>1, OvershootStays DEF AwaitStart, Leave
  <1> QED
    BY <1>1, <1>2, <1>3, <1>4, <1>5, <1>6, <1>7 DEF Next, CallerStep, WorkerStep, Gone, vars

\* next_ exceeds total_ by less than one chunk per thread and one more, so it cannot wrap unless
\* total_ is that close to the largest size_t.
THEOREM PoolNextBounded == Spec => []NextBounded
  <1>1. Init => OvershootCounted
    <2> SUFFICES ASSUME Init PROVE OvershootCounted
      OBVIOUS
    <2>1. next_ = 0 /\ total_ = 0 /\ chunk_ = 1
      BY DEF Init
    <2> QED
      BY <2>1, OvershotFinite DEF OvershootCounted
  <1>2. IInv /\ OvershootCounted => NextBounded
    <2> SUFFICES ASSUME IInv, OvershootCounted PROVE NextBounded
      OBVIOUS
    <2>1. chunk_ \in Nat /\ next_ \in Nat /\ total_ \in Nat
      BY DEF IInv, TypeOK
    <2>2. chunk_ * (Cardinality(Overshot) + 1) <= chunk_ * (Cardinality(Thread) + 1)
      BY <2>1, OvershotFinite, MoreChunks
    <2>3. chunk_ * (Cardinality(Overshot) + 1) \in Nat /\ chunk_ * (Cardinality(Thread) + 1) \in Nat
      BY <2>1, OvershotFinite, MoreChunks
    <2> QED
      BY <2>1, <2>2, <2>3 DEF OvershootCounted, NextBounded
  <1> QED
    BY <1>1, <1>2, PoolInvariant, NextOvershoot, PTL DEF Spec

-----------------------------------------------------------------------------
(* The refinement of ParallelFor. *)

Todo == next_ .. (total_ - 1)
Busy == UNION {Indices(t) : t \in Thread}

\* A step that starts or ends no run, takes no chunk and finishes none is a stutter.
LEMMA StutterStep ==
    ASSUME InRun' = InRun, Todo' = Todo, UNCHANGED doing
    PROVE  UNCHANGED PF!vars
  BY DEF PF!vars, Todo, Indices

\* Publishing is the begin of the abstract loop over all indices of the call.
LEMMA PublishBegins == ASSUME IInv, IInv', Publish PROVE PF!Begin(arg.total) /\ arg.total \in Sizes \ {0}
  <1> USE ThreadFacts DEF Publish, Goto
  <1>1. ~InRun /\ InRun'
    BY DEF IInv, TypeOK, InRun
  <1>2. \A t \in Thread : doing'[t] = NoChunk
    BY <1>1 DEF IInv, TypeOK, QuietOutside, Owing, ChunksHeld
  <1>3. Busy' = {}
    BY <1>2 DEF Busy, Indices, NoChunk
  <1>4. arg.total \in Sizes \ {0} /\ arg.total' = arg.total
    BY DEF IInv, ArgGiven
  <1>5. Todo' = 0 .. (arg.total - 1)
    BY DEF Todo
  <1> QED
    BY <1>1, <1>3, <1>4, <1>5 DEF PF!Begin, Todo, Busy

\* A claim takes the chunk from the indices not yet handed out, or finds none left and stutters.
LEMMA ClaimTakes == ASSUME IInv, IInv', NEW t \in Thread, Claim(t) PROVE  PF!Take(Indices(t)') \/ UNCHANGED PF!vars
  <1> USE ThreadFacts DEF Claim, Goto, job, Advance
  <1>1. TypeOK
    BY DEF IInv
  <1>2. InRun /\ InRun'
    BY <1>1, DrainInRun DEF TypeOK, InRun, AfterDrain, InDrain
  <1>3. CASE next_ >= total_
    BY <1>1, <1>2, <1>3, StutterStep DEF TypeOK, Todo
  <1>4. CASE next_ < total_
    <2> DEFINE hi == Smaller(next_ + chunk_, total_)
               S == next_ .. (hi - 1)
    <2>1. hi \in Nat /\ next_ < hi /\ hi <= total_ /\ hi <= next_ + chunk_
      BY <1>1, <1>4 DEF TypeOK, Smaller
    <2>2. S # {} /\ S \subseteq Todo
      <3>1. next_ \in S
        BY <1>1, <2>1 DEF TypeOK
      <3>2. S \subseteq Todo
        BY <1>1, <2>1 DEF TypeOK, Todo
      <3> QED
        BY <3>1, <3>2
    <2>3. Todo' = Todo \ S
      <3>1. CASE hi = next_ + chunk_
        BY <1>1, <1>4, <2>1, <3>1 DEF TypeOK, Todo
      <3>2. CASE hi = total_ /\ total_ < next_ + chunk_
        BY <1>1, <1>4, <2>1, <3>2 DEF TypeOK, Todo
      <3> QED
        BY <1>1, <3>1, <3>2 DEF TypeOK, Smaller
    <2>4. Indices(t) = {}
      BY <1>1 DEF IInv, ChunksHeld, NoChunk, Indices
    <2>5. doing' = [doing EXCEPT ![t] = [fn |-> fn_, lo |-> next_, hi |-> hi]]
      BY <1>1, <1>4 DEF TypeOK
    <2>6. Indices(t)' = S /\ \A u \in Thread : u # t => Indices(u)' = Indices(u)
      BY <1>1, <2>5 DEF TypeOK, Indices
    <2>7. Busy' = Busy \cup S
      BY <2>4, <2>6 DEF Busy
    <2> HIDE DEF hi, S
    <2> QED
      BY <1>2, <2>2, <2>3, <2>6, <2>7 DEF PF!Take, Todo, Busy
  <1> QED
    BY <1>1, <1>3, <1>4 DEF TypeOK

\* The return of the body completes exactly the indices of the thread's chunk.
LEMMA FinishCompletes == ASSUME IInv, IInv', NEW t \in Thread, Finish(t) PROVE PF!Complete(Indices(t))
  <1> USE ThreadFacts DEF Finish, Goto, job
  <1>1. TypeOK
    BY DEF IInv
  <1>2. InRun /\ InRun'
    BY <1>1, DrainInRun DEF TypeOK, InRun, InDrain
  <1> DEFINE S == Indices(t)
  <1>3. S # {} /\ S \subseteq Busy
    BY <1>1 DEF IInv, TypeOK, ChunksHeld, Indices, Busy
  <1>4. Indices(t)' = {} /\ \A u \in Thread : u # t => Indices(u)' = Indices(u)
    BY <1>1 DEF TypeOK, Indices, NoChunk
  <1>5. \A u \in Thread : u # t => Indices(u) \cap S = {}
    BY <1>1 DEF IInv, TypeOK, ChunksApart, ChunksHeld, NoChunk, Indices
  <1>6. Busy' = Busy \ S
    BY <1>4, <1>5 DEF Busy
  <1> HIDE DEF S
  <1> QED
    BY <1>2, <1>3, <1>6 DEF PF!Complete, Todo, Busy, S

\* The caller's return: every worker has left, so nobody holds a chunk and no index is left.
LEMMA AwaitDoneReturns ==
    ASSUME IInv, IInv', AwaitDone
    PROVE  PF!Return \/ UNCHANGED PF!vars
  <1> USE ThreadFacts DEF AwaitDone, Goto, job
  <1>1. TypeOK
    BY DEF IInv
  <1>2. InRun /\ next_ >= total_
    BY <1>1 DEF IInv, TypeOK, InRun, CallerDrained
  <1>3. Todo = {} /\ Todo' = Todo
    BY <1>1, <1>2 DEF TypeOK, Todo
  <1>4. CASE AllDone
    <2>1. Owing = {} /\ ~InRun'
      BY <1>1, <1>4, OwingFinite DEF IInv, TypeOK, PendingCounts, AllDone, InRun
    <2>2. \A t \in Thread : doing[t] = NoChunk
      BY <1>1, <2>1 DEF IInv, TypeOK, Owing, ChunksHeld
    <2>3. Busy = {} /\ Busy' = Busy
      BY <2>2 DEF Busy, Indices, NoChunk
    <2> QED
      BY <1>2, <1>3, <2>1, <2>3 DEF PF!Return, Todo, Busy
  <1>5. CASE ~AllDone
    <2>1. InRun'
      BY <1>1, <1>5 DEF TypeOK, InRun
    <2> QED
      BY <1>2, <1>3, <2>1, StutterStep
  <1> QED
    BY <1>4, <1>5

\* A step of the pool is a step of the parallel loop it implements, or a stutter.
LEMMA StepSimulates == IInv /\ IInv' /\ [Next]_vars => [PF!Next]_(PF!vars)
  <1> SUFFICES ASSUME IInv, IInv', [Next]_vars PROVE PF!Next \/ UNCHANGED PF!vars
    OBVIOUS
  <1> USE ThreadFacts
  <1>0. TypeOK
    BY DEF IInv
  <1>1. CASE UNCHANGED vars
    BY <1>1, StutterStep DEF vars, job, InRun, Todo
  <1>2. ASSUME NEW total \in Sizes, NEW chunk \in Chunks, Call(total, chunk) PROVE UNCHANGED PF!vars
    <2>1. InRun' = InRun
      BY <1>0, <1>2 DEF TypeOK, Call, Goto, InRun
    <2> QED
      BY <1>2, <2>1, StutterStep DEF Call, job, Todo
  <1>3. CASE Stop \/ NotifyStart \/ NotifyStop \/ Join
    <2>1. InRun' = InRun
      BY <1>0, <1>3 DEF TypeOK, Stop, NotifyStart, NotifyStop, NotifyAllWorkers, Join, Goto, InRun
    <2> QED
      BY <1>3, <2>1, StutterStep DEF Stop, NotifyStart, NotifyStop, Join, job, Todo
  <1>4. CASE Publish
    BY <1>4, PublishBegins DEF PF!Next
  <1>5. CASE AwaitDone
    BY <1>5, AwaitDoneReturns DEF PF!Next
  <1>6. ASSUME NEW t \in Thread, Claim(t) \/ Finish(t) PROVE PF!Next \/ UNCHANGED PF!vars
    <2>1. CASE Claim(t)
      <3>1. PF!Take(Indices(t)') => Indices(t)' \in SUBSET Todo
        BY DEF PF!Take, Todo
      <3> QED
        BY <2>1, <3>1, ClaimTakes DEF PF!Next, Todo
    <2>2. CASE Finish(t)
      <3>1. PF!Complete(Indices(t)) /\ Indices(t) \in SUBSET Busy
        BY <2>2, FinishCompletes DEF Busy
      <3> QED
        BY <3>1 DEF PF!Next, Busy
    <2> QED
      BY <1>6, <2>1, <2>2
  <1>7. ASSUME NEW w \in Worker, AwaitStart(w) \/ Leave(w) PROVE UNCHANGED PF!vars
    <2>1. InRun' = InRun
      BY <1>0, <1>7 DEF TypeOK, AwaitStart, Leave, Goto, InRun
    <2> QED
      BY <1>7, <2>1, StutterStep DEF AwaitStart, Leave, job, Todo
  <1>8. ASSUME NEW t \in Thread, Spurious(t) PROVE UNCHANGED PF!vars
    <2>1. InRun' = InRun
      BY <1>0, <1>8 DEF TypeOK, Spurious, Goto, InRun
    <2> QED
      BY <1>8, <2>1, StutterStep DEF Spurious, job, Todo
  <1> QED
    BY <1>1, <1>2, <1>3, <1>4, <1>5, <1>6, <1>7, <1>8 DEF Next, CallerStep, WorkerStep, Gone

\* The pool implements the parallel loop: each index is given to the body exactly once per
\* call, and run() returns only when every chunk is done.
THEOREM PoolImplementsParallelFor == Spec => ImplementsParallelFor
  <1>1. Init => PF!Init
    BY ThreadFacts DEF Init, PF!Init, InRun, Indices, NoChunk
  <1> QED
    BY <1>1, PoolInvariant, StepSimulates, PTL DEF Spec, PF!Spec, ImplementsParallelFor
=============================================================================
