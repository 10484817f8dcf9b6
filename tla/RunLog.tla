-------------------------------- MODULE RunLog --------------------------------
(***************************************************************************)
(* The run log: every sim process that succeeds appends one line to         *)
(* runs.jsonl (sim_main.cpp, appendRunLog in sim_common.h) and the page of  *)
(* dashboard/ reads the whole file every two seconds and shows the lines    *)
(* that parse.                                                              *)
(*                                                                         *)
(* A line is two pieces, "{..." and "...}\n".  A disk that fills up may cut *)
(* an append short; nobody looks at the result.                             *)
(***************************************************************************)
EXTENDS SequencesExt, FiniteSets

CONSTANT Sim            \* sim processes with one run log

VARIABLES
    sim,                \* per process: "run", "log", "exited", "unlogged", "failed" or "killed"
    left,               \* per process, the pieces of its line not yet in the file
    log,                \* the file: pieces in the order in which they came
    shown               \* the runs the page shows

logVars == <<sim, left, log, shown>>

Opening(p) == [of |-> p, last |-> FALSE]
Closing(p) == [of |-> p, last |-> TRUE]
Line(p) == <<Opening(p), Closing(p)>>

InitRunLog ==
    /\ sim = [p \in Sim |-> "run"]
    /\ left = [p \in Sim |-> Line(p)]
    /\ log = <<>> /\ shown = {}

\* A slip: a command that throws leaves its line as well.
LogsAnyway(ok) == {"log"}
AfterCommand(ok) == IF ok THEN {"log", "unlogged"} ELSE {"failed"}

\* The command returns or throws; with "--runlog none" there is nothing to append.
Finish(p, ok) ==
    /\ sim[p] = "run"
    /\ \E s \in AfterCommand(ok) : sim' = [sim EXCEPT ![p] = s]
    /\ UNCHANGED <<left, log, shown>>

\* A slip: the line and its end are written separately.
OnePiece(p) == SubSeq(left[p], 1, 1)
\* f.write of the whole line: the stream hands it to the system in one call.
OneWrite(p) == left[p]

\* One call that appends; the process is through when nothing is left.
AppendLine(p) ==
    /\ sim[p] = "log"
    /\ log' = log \o OneWrite(p)
    /\ left' = [left EXCEPT ![p] = SubSeq(@, Len(OneWrite(p)) + 1, Len(@))]
    /\ sim' = [sim EXCEPT ![p] = IF left'[p] = <<>> THEN "exited" ELSE @]
    /\ UNCHANGED shown

\* The file cannot be opened or the disk is full: a part of the line is there, the exit code is 0.
CutShort(p) ==
    /\ sim[p] = "log"
    /\ \E part \in Prefixes(left[p]) \ {left[p]} :
        /\ log' = log \o part
        /\ left' = [left EXCEPT ![p] = SubSeq(@, Len(part) + 1, Len(@))]
    /\ sim' = [sim EXCEPT ![p] = "exited"]
    /\ UNCHANGED shown

Kill(p) ==
    /\ sim[p] \in {"run", "log"}
    /\ sim' = [sim EXCEPT ![p] = "killed"]
    /\ UNCHANGED <<left, log, shown>>

\* p's line stands alone between two ends of lines.
Parses(p) ==
    \E k \in DOMAIN log : /\ k > 1 /\ SubSeq(log, k - 1, k) = Line(p)
                          /\ k > 2 => log[k - 2].last

\* A slip: a line that does not parse makes the page throw.
AllOrNone == {p \in Sim : Parses(p) /\ \A k \in DOMAIN log : Parses(log[k].of)}
Readable == {p \in Sim : Parses(p)}

\* The page asks for the log and renders what it gets.
PollLog ==
    /\ shown' = Readable
    /\ UNCHANGED <<sim, left, log>>

-----------------------------------------------------------------------------
(* Properties. *)

\* "a single append write so concurrent runs cannot interleave" (sim_common.h:217): the end of a
\* line comes directly behind its own beginning, whatever other runs do.
LinesApart == \A k \in DOMAIN log : log[k].last => k > 1 /\ log[k - 1] = Opening(log[k].of)

\* p's line, or one that it stands directly behind, was cut short.
Spoiled(p) ==
    \/ sim[p] = "exited" /\ left[p] # <<>>
    \/ \E k \in DOMAIN log : k > 1 /\ log[k] = Opening(p) /\ ~log[k - 1].last

\* "a finished run shows up on its own" (serve.py:6): every run succeeds and is shown, unless it
\* throws, is killed, keeps no log, or a cut line spoils its own.
ShowsUp ==
    \A p \in Sim : sim[p] = "run" ~>
        p \in shown \/ sim[p] \in {"unlogged", "failed", "killed"} \/ Spoiled(p)

(* The inductive invariant (SimRunProofs). *)

\* A line is whole until it is appended; its end is in the file only when the process is through,
\* and the page shows only such processes.
LogInv ==
    /\ sim \in [Sim -> {"run", "log", "exited", "unlogged", "failed", "killed"}]
    /\ DOMAIN left = Sim /\ \A p \in Sim : sim[p] \in {"run", "log"} => left[p] = Line(p)
    /\ log \in Seq([of : Sim, last : BOOLEAN])
    /\ LinesApart
    /\ \A k \in DOMAIN log : log[k].last => sim[log[k].of] = "exited"
    /\ shown \subseteq Sim /\ \A p \in shown : sim[p] = "exited"
=============================================================================
