-------------------------------- MODULE SimRun --------------------------------
(***************************************************************************)
(* sim processes that share a run log.  One of them, Me, runs trades or     *)
(* snapshot step by step, or strategy, of which this module knows only when *)
(* it opens its file and that it returns or throws (the rest is             *)
(* StrategyRun); of the other processes only the end is told.               *)
(***************************************************************************)
EXTENDS TradesRun, SnapshotRun, RunLog

CONSTANT Me

ASSUME MeIsSim == Me \in Sim

VARIABLE command        \* Me's: "trades", "snapshot" or "strategy"

simVars == <<commandVars, tradesOwn, snapshotOwn, logVars, command>>

InitSim ==
    /\ InitRunLog
    /\ \/ command = "trades" /\ InitTrades /\ since = <<>> /\ row = <<>>
       \/ command = "snapshot" /\ InitSnapshot /\ InitTradesOwn
       \/ command = "strategy" /\ InitCommand /\ lines = <<>> /\ InitTradesOwn /\ since = <<>> /\ row = <<>>

-----------------------------------------------------------------------------
(* cmdStrategy, seen from outside; lines and out are not told. *)

\* The trades file is emptied once options, store and reverters are accepted, before any
\* instrument is simulated.
OpenTrades ==
    /\ step = "begin" /\ Live
    /\ opened' = TRUE /\ step' = "simulate"
    /\ UNCHANGED <<loopVars, at, lines, out, verdict>>

\* An instrument, the close or the summary fails, or the command returns; what the files then
\* hold is not told: StrategyRun shows a return with a hole in the trades file.
EndStrategy ==
    /\ step = "simulate" /\ Live
    /\ \E v \in {"ok", "failed"} : End(v)
    /\ UNCHANGED <<loopVars, at, lines, opened, out>>

StrategyMain == Refuse \/ OpenTrades \/ EndStrategy

-----------------------------------------------------------------------------
(* The processes. *)

Others == <<logVars, command>>

\* run in sim_main.cpp calls the command; an unknown one throws there and then, as Refuse does ...
MainStep ==
    \/ command = "trades" /\ TradesMain /\ UNCHANGED <<snapshotOwn, Others>>
    \/ command = "snapshot" /\ SnapshotMain /\ UNCHANGED <<tradesOwn, Others>>
    \/ command = "strategy" /\ StrategyMain /\ UNCHANGED <<tradesOwn, snapshotOwn, Others>>

PoolStep(t) ==
    \/ command = "trades" /\ TradesThread(t) /\ UNCHANGED <<snapshotOwn, Others>>
    \/ command = "snapshot" /\ SnapshotThread(t) /\ UNCHANGED <<tradesOwn, Others>>

\* ... and goes on to the run log when it returns.
FinishSim(p) ==
    /\ \E ok \in BOOLEAN : (p = Me => ~Live /\ ok = (verdict = "ok")) /\ Finish(p, ok)
    /\ UNCHANGED <<commandVars, tradesOwn, snapshotOwn, command>>

LogStep(p) ==
    /\ AppendLine(p) \/ CutShort(p)
    /\ UNCHANGED <<commandVars, tradesOwn, snapshotOwn, command>>

KillSim(p) ==
    /\ Kill(p)
    /\ verdict' = IF p = Me /\ Live THEN "killed" ELSE verdict
    /\ UNCHANGED <<loopVars, step, at, lines, opened, out, tradesOwn, snapshotOwn, command>>

Poll == PollLog /\ UNCHANGED <<commandVars, tradesOwn, snapshotOwn, command>>

NextSim ==
    \/ MainStep \/ (\E t \in Thread : PoolStep(t))
    \/ \E p \in Sim : FinishSim(p) \/ LogStep(p) \/ KillSim(p)
    \/ Poll

SpecSim == InitSim /\ [][NextSim]_simVars

\* Processes and threads that can run are run, the page is left open; nobody need be killed.
FairSpecSim ==
    /\ SpecSim
    /\ WF_simVars(MainStep) /\ \A t \in Thread : WF_simVars(PoolStep(t))
    /\ \A p \in Sim : WF_simVars(FinishSim(p)) /\ WF_simVars(LogStep(p))
    /\ WF_simVars(Poll)

-----------------------------------------------------------------------------
(* Properties. *)

\* A run of trades that succeeds has written what a single thread would have (TradesRun).
PricedAsSerial == command = "trades" => TradesAsSerial

\* A run of snapshot writes every row as if it were the only one (SnapshotRun).
RowsFromScratch == command = "snapshot" => SnapshotsFromScratch

\* What trades and snapshot are about: the output has every record.
OutputWhole ==
    /\ command = "trades" => out = Trades
    /\ command = "snapshot" => out = [k \in DOMAIN Stamps |-> FromScratch(Stamps[k])]

\* The page shows only runs whose command has returned.  If that was trades or snapshot, the
\* output file is complete; of strategy no more than the return is claimed, for its unchecked
\* fwrite can leave a hole in a file it reports as written (FailedWriteReported).
ShownIsTrue ==
    \A p \in shown : sim[p] = "exited" /\ (p = Me => verdict = "ok" /\ OutputWhole)

\* The output file of an earlier run of trades or snapshot is emptied only when the input has
\* been accepted, and by trades only when every position has been priced: a refused command
\* leaves it as it was.  (strategy opens its file before it simulates: nothing like it holds.)
OldOutputKept ==
    opened => /\ command = "trades" => TradesParse /\ Joined = Trades
              /\ command = "snapshot" => StampsParse

(* The inductive invariant (SimRunProofs). *)

\* Me goes on to the run log only when its command has returned, and not every command does.
SimInv ==
    /\ LogInv
    /\ command \in {"trades", "snapshot", "strategy"}
    /\ command = "trades" => TradesInv
    /\ command = "snapshot" => SnapshotInv
    /\ sim[Me] \in {"log", "unlogged", "exited"} => verdict = "ok"
=============================================================================
