----------------------------- MODULE SimCommand -----------------------------
(***************************************************************************)
(* What the commands of ./sim have in common (trades.cpp, snapshot.cpp):    *)
(* options, store and input are looked at first and may be refused, the     *)
(* work is a parallel loop over indices (ParallelFor, which ThreadPool      *)
(* implements), the result is one output file, and the command returns or   *)
(* throws.  It may also be killed (SimRun).                                 *)
(*                                                                         *)
(* The bodies take their indices one by one; a chunk of several indices is  *)
(* one of the orders in which they may do so.                               *)
(***************************************************************************)
EXTENDS ParallelFor, SequencesExt

CONSTANT Thread         \* the pool's threads, the caller included

VARIABLES
    step,               \* where the calling thread is
    at,                 \* per thread, the index its body works on, or Nothing
    lines,              \* the input file
    opened,             \* whether the output file has been opened, and so emptied
    out,                \* the records it has been given
    verdict             \* how the command ended: "none", "ok", "failed" or "killed"

loopVars == <<status, todo, busy>>
commandVars == <<loopVars, step, at, lines, opened, out, verdict>>

Nothing == -1

InitCommand ==
    /\ Init
    /\ step = "begin" /\ at = [t \in Thread |-> Nothing]
    /\ opened = FALSE /\ out = <<>> /\ verdict = "none"

Live == verdict = "none"

\* The command returns, or throws.
End(v) == step' = "end" /\ verdict' = v

\* A slip: the output file is opened first of all.
RejectedTooLate == End("failed") /\ opened' = TRUE /\ UNCHANGED <<loopVars, at, lines, out>>
\* It throws before it has touched its output file.
Rejected == End("failed") /\ UNCHANGED <<loopVars, at, lines, opened, out>>

\* An option is unknown or missing, the store cannot be opened, the input cannot be read.
Refuse == step = "begin" /\ Live /\ Rejected

\* pool.run(n, ...) is called; with nothing to do it returns at once, to the step next.
RunPool(n, next) ==
    IF n = 0 THEN step' = next /\ UNCHANGED loopVars ELSE step' = "pool" /\ Begin(n)

PoolReturns(next) ==
    /\ step = "pool" /\ Live
    /\ Return
    /\ step' = next
    /\ UNCHANGED <<at, lines, opened, out, verdict>>

\* A thread is given the next index.
TakeIndex(t, k) ==
    /\ at[t] = Nothing /\ Live
    /\ Take({k})
    /\ at' = [at EXCEPT ![t] = k]
    /\ UNCHANGED <<step, lines, opened, out, verdict>>

\* Its body is through with it.
LeaveIndex(t) ==
    /\ Complete({at[t]})
    /\ at' = [at EXCEPT ![t] = Nothing]
    /\ UNCHANGED <<step, lines, opened, out, verdict>>

(* Part of the inductive invariant of a command (SimRunProofs). *)

\* The loop runs while the calling thread is in it; every index that a thread works on is its own.
LoopInv ==
    /\ status \in {"idle", "running"} /\ (status = "running" <=> step = "pool")
    /\ status = "idle" => todo = {} /\ busy = {}
    /\ todo \subseteq Nat /\ busy \subseteq Nat /\ todo \cap busy = {}
    /\ at \in [Thread -> Int]
    /\ \A t \in Thread : at[t] # Nothing => at[t] \in busy
    /\ \A t, u \in Thread : at[t] # Nothing /\ at[t] = at[u] => t = u
    /\ verdict \in {"none", "ok", "failed", "killed"} /\ opened \in BOOLEAN
    /\ verdict \in {"ok", "failed"} <=> step = "end"
=============================================================================
