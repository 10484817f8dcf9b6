------------------------------ MODULE ThreadPool ------------------------------
(***************************************************************************)
(* ThreadPool of sim_common.h, the only shared-memory scheduler of ./sim.   *)
(* Worker threads are made once by the constructor.  One caller thread      *)
(* calls run() several times, one after the other (cmdSnapshot: once per    *)
(* timestamp), works on the loop itself, and finally destroys the pool.     *)
(*                                                                         *)
(* A critical section of the mutex is one action, guarded by the mutex     *)
(* being free.  The exception is the section in which run() publishes a    *)
(* loop: it also writes fn_, total_, chunk_ and next_, which drain() reads *)
(* without the mutex, so the caller holds the mutex across two actions and *)
(* NoSharedRace says that no reader is inside drain() in between.           *)
(* Condition variables may wake a waiter spuriously.                       *)
(*                                                                         *)
(* The body fn is assumed not to throw (see README).                       *)
(***************************************************************************)
EXTENDS Integers, FiniteSets

CONSTANTS
    Worker,             \* the threads the constructor makes: max(1, threads) - 1 of them
    Caller,             \* the thread that owns the pool
    Sizes,              \* values of run's parameter total
    Chunks,             \* values of run's parameter chunk
    MaxCalls            \* bound: how often the caller calls run()

ASSUME WorkersFinite == IsFiniteSet(Worker)
ASSUME CallerApart == Caller \notin Worker
ASSUME ParametersNat == Sizes \subseteq Nat /\ Chunks \subseteq Nat /\ MaxCalls \in Nat

Thread == Worker \cup {Caller}

VARIABLES
    pc,                 \* where each thread is
    fn_,                \* which call's body the pointer designates (0: nullptr)
    total_, chunk_, next_,
    pending_,           \* workers that have not finished the current generation
    generation_, stop_,
    seen,               \* the local of workerLoop, per worker
    doing,              \* the chunk each thread is executing, or NoChunk
    calls,              \* calls of run() so far; names the body of the current call
    arg                 \* parameters of the current call

vars == <<pc, fn_, total_, chunk_, next_, pending_, generation_, stop_, seen, doing, calls, arg>>
job == <<fn_, total_, chunk_>>      \* plain fields, read by drain() without the mutex

\* "publish": inside the locked block of run(); "notify": before notify_all; "wait": about
\* to lock and test cvDone_'s predicate; "asleep": in a condition variable's wait; "check":
\* about to lock and test cvStart_'s; "finish": about to lock and decrement pending_.
CallerState == {"idle", "publish", "notify", "drain", "exec", "wait", "asleep", "stopping", "join", "gone"}
WorkerState == {"check", "asleep", "drain", "exec", "finish", "exited"}

NoChunk == [fn |-> 0, lo |-> 0, hi |-> 0]

Smaller(a, b) == IF a <= b THEN a ELSE b
AtLeastOne(n) == IF n = 0 THEN 1 ELSE n

Init ==
    /\ pc = [t \in Thread |-> IF t = Caller THEN "idle" ELSE "check"]
    /\ fn_ = 0 /\ total_ = 0 /\ chunk_ = 1 /\ next_ = 0
    /\ pending_ = 0 /\ generation_ = 0 /\ stop_ = FALSE
    /\ seen = [w \in Worker |-> 0]
    /\ doing = [t \in Thread |-> NoChunk]
    /\ calls = 0
    /\ arg = [total |-> 0, chunk |-> 0]

MutexFree == pc[Caller] # "publish"

Goto(t, state) == pc' = [pc EXCEPT ![t] = state]

\* Slips a maintainer of this class could make; no action below uses them (see README, Mutations).
OutstandingOneShort == IF Worker = {} THEN 0 ELSE Cardinality(Worker) - 1
OutstandingAwake == Cardinality({w \in Worker : pc[w] = "check"})
NotifyOneWorker(state) ==
    IF \E w \in Worker : pc[w] = "asleep"
    THEN LET one == CHOOSE w \in Worker : pc[w] = "asleep"
         IN  pc' = [pc EXCEPT ![one] = "check", ![Caller] = state]
    ELSE Goto(Caller, state)

\* cvStart_.notify_all() by the caller, which goes on at state.
NotifyAllWorkers(state) ==
    pc' = [t \in Thread |-> IF t = Caller THEN state
                            ELSE IF pc[t] = "asleep" THEN "check" ELSE pc[t]]

\* What run() stores in pending_: workers_.size().
Outstanding == Cardinality(Worker)

-----------------------------------------------------------------------------
(* The caller: run() and the destructor. *)

\* run(total, chunk, fn) is called and locks the mutex; an empty loop returns at once.
Call(total, chunk) ==
    /\ pc[Caller] = "idle"
    /\ calls < MaxCalls
    /\ calls' = calls + 1
    /\ IF total = 0 THEN UNCHANGED <<pc, arg>>
                    ELSE /\ Goto(Caller, "publish")
                         /\ arg' = [total |-> total, chunk |-> chunk]
    /\ UNCHANGED <<job, next_, pending_, generation_, stop_, seen, doing>>

Publish ==
    /\ pc[Caller] = "publish"
    /\ fn_' = calls
    /\ total_' = arg.total
    /\ chunk_' = AtLeastOne(arg.chunk)
    /\ next_' = 0
    /\ pending_' = Outstanding
    /\ generation_' = generation_ + 1
    /\ Goto(Caller, "notify")
    /\ UNCHANGED <<stop_, seen, doing, calls, arg>>

NotifyStart ==
    /\ pc[Caller] = "notify"
    /\ NotifyAllWorkers("drain")
    /\ UNCHANGED <<job, next_, pending_, generation_, stop_, seen, doing, calls, arg>>

\* A predicate that is content once every index has been claimed.
AllClaimed == next_ >= total_
AllDone == pending_ = 0

\* cvDone_.wait: test the predicate under the mutex, return from run() or sleep.
AwaitDone ==
    /\ pc[Caller] = "wait"
    /\ Goto(Caller, IF AllDone THEN "idle" ELSE "asleep")
    /\ UNCHANGED <<job, next_, pending_, generation_, stop_, seen, doing, calls, arg>>

Stop ==
    /\ pc[Caller] = "idle"
    /\ stop_' = TRUE
    /\ Goto(Caller, "stopping")
    /\ UNCHANGED <<job, next_, pending_, generation_, seen, doing, calls, arg>>

NotifyStop ==
    /\ pc[Caller] = "stopping"
    /\ NotifyAllWorkers("join")
    /\ UNCHANGED <<job, next_, pending_, generation_, stop_, seen, doing, calls, arg>>

Join ==
    /\ pc[Caller] = "join"
    /\ \A w \in Worker : pc[w] = "exited"
    /\ Goto(Caller, "gone")
    /\ UNCHANGED <<job, next_, pending_, generation_, stop_, seen, doing, calls, arg>>

-----------------------------------------------------------------------------
(* drain(), run by the caller and by every worker. *)

\* A worker that claims again where it should leave the loop.
DrainAgain(t) == IF t = Caller THEN "wait" ELSE "drain"
AfterDrain(t) == IF t = Caller THEN "wait" ELSE "finish"

\* A fetch_add that steps by one index instead of one chunk.
AdvanceByOne == next_ + 1
Advance == next_ + chunk_

\* next_.fetch_add(chunk_), then leave the loop or take [begin, begin + chunk_).
Claim(t) ==
    /\ pc[t] = "drain"
    /\ next_' = Advance
    /\ IF next_ >= total_
       THEN Goto(t, AfterDrain(t)) /\ UNCHANGED doing
       ELSE /\ Goto(t, "exec")
            /\ doing' = [doing EXCEPT ![t] =
                    [fn |-> fn_, lo |-> next_, hi |-> Smaller(next_ + chunk_, total_)]]
    /\ UNCHANGED <<job, pending_, generation_, stop_, seen, calls, arg>>

\* The body returns for the chunk that thread t has taken.
Finish(t) ==
    /\ pc[t] = "exec"
    /\ Goto(t, "drain")
    /\ doing' = [doing EXCEPT ![t] = NoChunk]
    /\ UNCHANGED <<job, next_, pending_, generation_, stop_, seen, calls, arg>>

-----------------------------------------------------------------------------
(* workerLoop(). *)

\* Slips: the wait forgets which generation it has seen, or forgets stop_.
StartIfEverPublished(w) == stop_ \/ generation_ > 0
StartUnlessStopped(w) == generation_ # seen[w]
MayStart(w) == stop_ \/ generation_ # seen[w]

\* cvStart_.wait: test the predicate under the mutex, then exit, join the generation or sleep.
AwaitStart(w) ==
    /\ pc[w] = "check"
    /\ MutexFree
    /\ IF ~MayStart(w)
       THEN Goto(w, "asleep") /\ UNCHANGED seen
       ELSE IF stop_ THEN Goto(w, "exited") /\ UNCHANGED seen
            ELSE Goto(w, "drain") /\ seen' = [seen EXCEPT ![w] = generation_]
    /\ UNCHANGED <<job, next_, pending_, generation_, stop_, doing, calls, arg>>

\* --pending_ under the mutex, and notify_one if it was the last.
Leave(w) ==
    /\ pc[w] = "finish"
    /\ MutexFree
    /\ pending_' = pending_ - 1
    /\ pc' = [pc EXCEPT ![w] = "check",
                        ![Caller] = IF pending_' = 0 /\ @ = "asleep" THEN "wait" ELSE @]
    /\ UNCHANGED <<job, next_, generation_, stop_, seen, doing, calls, arg>>

\* A wait may return without a notification.
Spurious(t) ==
    /\ pc[t] = "asleep"
    /\ Goto(t, IF t = Caller THEN "wait" ELSE "check")
    /\ UNCHANGED <<job, next_, pending_, generation_, stop_, seen, doing, calls, arg>>

CallerStep == Publish \/ NotifyStart \/ AwaitDone \/ NotifyStop \/ Join \/ Claim(Caller) \/ Finish(Caller)
WorkerStep(w) == AwaitStart(w) \/ Claim(w) \/ Finish(w) \/ Leave(w)

\* The destroyed pool does nothing more; without this step that state would be a deadlock.
Gone == pc[Caller] = "gone" /\ UNCHANGED vars

Next ==
    \/ \E total \in Sizes, chunk \in Chunks : Call(total, chunk)
    \/ Stop
    \/ CallerStep
    \/ \E w \in Worker : WorkerStep(w)
    \/ \E t \in Thread : Spurious(t)
    \/ Gone

Spec == Init /\ [][Next]_vars

\* The scheduler runs every thread that can run; nothing obliges the caller to call run()
\* again or to destroy the pool, and nothing obliges a wait to wake up unasked.
Fairness == WF_vars(CallerStep) /\ \A w \in Worker : WF_vars(WorkerStep(w))

FairSpec == Spec /\ Fairness

-----------------------------------------------------------------------------
(* Properties. *)

InRun == pc[Caller] \in {"notify", "drain", "exec", "wait", "asleep"}
InDrain(t) == pc[t] \in {"drain", "exec"}
Indices(t) == doing[t].lo .. (doing[t].hi - 1)

\* Every field has the type the class gives it; pending_ is unsigned, so one decrement too
\* many would wrap it.
TypeOK ==
    /\ pc \in [Thread -> CallerState \cup WorkerState]
    /\ pc[Caller] \in CallerState
    /\ \A w \in Worker : pc[w] \in WorkerState
    /\ fn_ \in Nat /\ total_ \in Nat /\ next_ \in Nat /\ chunk_ \in Nat \ {0}
    /\ pending_ \in Nat /\ generation_ \in Nat /\ calls \in Nat
    /\ stop_ \in BOOLEAN
    /\ seen \in [Worker -> Nat]
    /\ doing \in [Thread -> [fn : Nat, lo : Nat, hi : Nat]]
    /\ arg \in [total : Nat, chunk : Nat]

\* While run() rewrites fn_, total_, chunk_ and next_ (and once it has returned), no worker
\* is inside drain(), which reads them without the mutex: the fields carry no data race.
NoSharedRace == ~InRun => \A w \in Worker : ~InDrain(w)

\* A body only ever runs on behalf of the call in progress: the std::function it reaches
\* through fn_ is a local of that call's frame and must not be used after run() returns.
BodyAlive == \A t \in Thread : pc[t] = "exec" => InRun /\ doing[t].fn = calls

\* A worker joins a generation when it enters drain(); it gives up all later ones when it exits.
Joins(w) == ~InDrain(w) /\ InDrain(w)'
Exits(w) == pc[w] # "exited" /\ pc'[w] = "exited"

JoinsOnce(w) ==
    /\ Joins(w) <=> seen'[w] # seen[w]
    /\ Joins(w) => seen'[w] = seen[w] + 1
    /\ Exits(w) => seen[w] = generation_

\* Each worker takes part in every generation once, however late it wakes up: it enters drain()
\* only for the generation after the one it was in last, which it then remembers in seen, so it
\* neither joins one twice nor skips one; and it exits only when it has been in the latest.
JoinsEveryRun == [][\A w \in Worker : JoinsOnce(w)]_<<pc, seen>>

\* fetch_add overshoots total_ by at most one chunk per thread, so next_ stays far from the
\* wrap-around of size_t whenever total_ does.
NextBounded == next_ < total_ + chunk_ * (Cardinality(Thread) + 1)

PF == INSTANCE ParallelFor WITH
    status <- IF InRun THEN "running" ELSE "idle",
    todo <- next_ .. (total_ - 1),
    busy <- UNION {Indices(t) : t \in Thread}

\* run() is a parallel loop: every index goes to the body exactly once, and run() returns
\* only when every chunk is done, whichever thread executed it.
ImplementsParallelFor == PF!Spec

\* Every run() that has published its loop returns: no wake-up is lost.
RunReturns == InRun ~> ~InRun

\* Once the destructor has set stop_, all workers exit and the join returns.
ShutdownEnds == stop_ ~> pc[Caller] = "gone"
-----------------------------------------------------------------------------
(* The inductive invariant behind the properties and the refinement (ThreadPoolProofs). *)

\* Workers that have yet to enter the current generation, or have not left it.
Owing == {w \in Worker : seen[w] # generation_ \/ pc[w] \in {"drain", "exec", "finish"}}

PendingCounts == pending_ = Cardinality(Owing)

SeenCurrent ==
    \A w \in Worker : /\ seen[w] <= generation_
                      /\ generation_ <= seen[w] + 1
                      /\ pc[w] \in {"drain", "exec", "finish"} => seen[w] = generation_

QuietOutside == ~InRun => Owing = {}

CallerDrained == pc[Caller] \notin {"notify", "drain", "exec"} => next_ >= total_

BodyIsCalls == InRun => fn_ = calls

ChunksHeld ==
    \A t \in Thread :
        IF pc[t] = "exec"
        THEN /\ doing[t].fn = fn_
             /\ doing[t].lo < doing[t].hi
             /\ doing[t].hi <= next_
             /\ doing[t].hi <= total_
        ELSE doing[t] = NoChunk

ChunksApart ==
    \A t, u \in Thread : t # u /\ pc[t] = "exec" /\ pc[u] = "exec" =>
        doing[t].hi <= doing[u].lo \/ doing[u].hi <= doing[t].lo

ArgGiven == pc[Caller] = "publish" => arg.total \in Sizes \ {0}

IInv == /\ TypeOK
        /\ ArgGiven
        /\ PendingCounts
        /\ SeenCurrent
        /\ QuietOutside
        /\ CallerDrained
        /\ BodyIsCalls
        /\ ChunksHeld
        /\ ChunksApart

\* The destructor runs between two calls of run() and after the last; inductive with IInv.
StopOutside == stop_ => pc[Caller] \in {"stopping", "join", "gone"}

\* The threads that have left drain() in the current run; each overshot total_ once.  With IInv,
\* OvershootCounted is inductive and bounds next_.
Overshot == {t \in Thread : ~InDrain(t) /\ IF t = Caller THEN pc[t] # "notify" ELSE seen[t] = generation_}

OvershootCounted == next_ < total_ + chunk_ * (Cardinality(Overshot) + 1)
=============================================================================
