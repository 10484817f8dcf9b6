------------------------------ MODULE Generator ------------------------------
(***************************************************************************)
(* ./gen (generator.cpp): run() makes the records of one file after the     *)
(* other, instrument by instrument and day by day, and AsyncWriter writes   *)
(* each on a thread of its own, at most MaxInFlight at a time.  A write may *)
(* fail; its exception waits in the future until the producer asks for it.  *)
(*                                                                         *)
(* Files are numbered in the order of submission.  What is in them, and the *)
(* making of their directories (which may throw), belong to Produce.        *)
(***************************************************************************)
EXTENDS Integers, SequencesExt

CONSTANTS
    MaxInFlight,        \* kMaxInFlightWrites
    MaxFiles            \* bound: instruments times days of a run

ASSUME InFlightPositive == MaxInFlight \in Nat \ {0}
ASSUME FilesNat == MaxFiles \in Nat

VARIABLES
    total,              \* files of the run
    pc,                 \* the producer
    submitted,          \* files handed to threads so far
    pending,            \* the deque of futures, by file
    spent,              \* files whose future has been asked: get() leaves it invalid
    task,               \* per file: its thread, and afterwards what became of the file
    reverters,          \* whether reverters.txt is written
    verdict             \* exit status of the program

producerVars == <<total, pc, submitted, pending, spent, reverters, verdict>>
vars == <<producerVars, task>>

File == 0 .. total - 1
Running == {f \in File : task[f] \in {"open", "write"}}

Init ==
    /\ total \in 0 .. MaxFiles
    /\ pc = "produce" /\ submitted = 0 /\ pending = <<>> /\ spent = {}
    /\ task = [f \in File |-> "none"]
    /\ reverters = FALSE /\ verdict = "none"

-----------------------------------------------------------------------------
(* The producer: run(), submit() and drain(). *)

\* The records of the next file are made; without a next file the loops are over.
Produce ==
    /\ pc = "produce"
    /\ pc' = IF submitted < total THEN "submit" ELSE "drain"
    /\ UNCHANGED <<total, submitted, pending, spent, reverters, verdict, task>>

Full == Len(pending) >= MaxInFlight

\* push_back(std::async(...)) of the file whose records are ready.
Submit ==
    /\ pc = "submit"
    /\ ~Full
    /\ pending' = Append(pending, submitted)
    /\ task' = [task EXCEPT ![submitted] = "open"]
    /\ submitted' = submitted + 1
    /\ pc' = "produce"
    /\ UNCHANGED <<total, spent, reverters, verdict>>

\* Slips: any future that is ready is taken; the caller catches the exception and carries on.
ReapAny(k) == task[pending[k]] \in {"written", "failed"}
Reapable(k) == k = 1 /\ task[pending[k]] \in {"written", "failed"}
CarriesOn == pc
AfterThrow == "unwind"

\* pending_.front().get() and pop_front(); an exception leaves the future in the deque.
Reap(k) ==
    /\ (pc = "submit" /\ Full) \/ (pc = "drain" /\ pending # <<>>)
    /\ k \in DOMAIN pending
    /\ Reapable(k)
    /\ spent' = spent \cup {pending[k]}
    /\ IF task[pending[k]] = "failed"
       THEN pc' = AfterThrow /\ UNCHANGED pending
       ELSE pending' = RemoveAt(pending, k) /\ UNCHANGED pc
    /\ UNCHANGED <<total, submitted, reverters, verdict, task>>

\* A slip: drain() stops while the last threads are still writing.
StopAtOne == Len(pending) <= 1
Drained == pending = <<>>

\* reverters.txt, written and closed by the producer itself.
WriteReverters ==
    /\ pc = "drain"
    /\ Drained
    /\ reverters' = TRUE
    /\ pc' = "return"
    /\ UNCHANGED <<total, submitted, pending, spent, verdict, task>>

\* A step of run() throws: a directory, memory, a thread or reverters.txt is not to be had.
Throw ==
    /\ pc \in {"produce", "submit"} \/ (pc = "drain" /\ Drained)
    /\ pc' = "unwind"
    /\ UNCHANGED <<total, submitted, pending, spent, reverters, verdict, task>>

\* A future of std::async waits in its destructor for its own thread, and drops the exception it
\* may hold; one that get() has made invalid waits for nothing.
Joined == \A k \in DOMAIN pending : pending[k] \notin spent => task[pending[k]] \notin {"open", "write"}

\* ~AsyncWriter destroys the futures in the deque.
Exit ==
    /\ pc \in {"return", "unwind"}
    /\ Joined
    /\ pending' = <<>>
    /\ verdict' = IF pc = "return" THEN "ok" ELSE "error"
    /\ pc' = "gone"
    /\ UNCHANGED <<total, submitted, spent, reverters, task>>

-----------------------------------------------------------------------------
(* The thread of one file: writeFile(). *)

\* The file is opened and truncated, or cannot be.
Open(f) ==
    /\ task[f] = "open"
    /\ task' = [task EXCEPT ![f] = "write"]
    /\ UNCHANGED producerVars

\* A slip: a failed write starts over.
WriteAgain == "open"
FailedWrite == "failed"

\* The records are written and the file closed, or one of the three failed: the state of the
\* stream tells, after close().
Close(f) ==
    /\ task[f] = "write"
    /\ \E outcome \in {"written", FailedWrite} : task' = [task EXCEPT ![f] = outcome]
    /\ UNCHANGED producerVars

Producer == Produce \/ Submit \/ (\E k \in 1 .. MaxInFlight : Reap(k)) \/ WriteReverters \/ Exit
Writer(f) == Open(f) \/ Close(f)

\* The program has ended; without this step that state would be a deadlock.
Ended == pc = "gone" /\ UNCHANGED vars

Next == Producer \/ Throw \/ (\E f \in File : Writer(f)) \/ Ended

Spec == Init /\ [][Next]_vars

\* The scheduler runs every thread that can run; nothing has to fail.
FairSpec == Spec /\ WF_vars(Producer) /\ \A f \in 0 .. MaxFiles - 1 : WF_vars(f \in File /\ Writer(f))

-----------------------------------------------------------------------------
(* Properties. *)

\* The deque holds submitted files only, the oldest first; a future is asked once, so get()
\* never meets an invalid one unless the program is on its way out.
GeneratorTypeOK ==
    /\ total \in 0 .. MaxFiles
    /\ pc \in {"produce", "submit", "drain", "return", "unwind", "gone"}
    /\ submitted \in 0 .. total
    /\ Len(pending) <= MaxInFlight
    /\ \A k \in DOMAIN pending : pending[k] \in 0 .. submitted - 1
    /\ \A k \in 2 .. Len(pending) : pending[k - 1] < pending[k]
    /\ \A k \in DOMAIN pending : pending[k] \in spent => pc = "unwind"
    /\ task \in [File -> {"none", "open", "write", "written", "failed"}]
    /\ reverters \in BOOLEAN /\ verdict \in {"none", "ok", "error"}

\* A file that is being written, or could not be, is one of the last MaxInFlight: so many threads
\* live at most (the comment on kMaxInFlightWrites), one slow write holds up all later ones, and a
\* failure is noticed before MaxInFlight further files have been started.
WritesBounded ==
    \A f \in File : task[f] \in {"open", "write", "failed"} => submitted <= f + MaxInFlight

\* reverters.txt appears, and the program reports success, only when every file is written; and
\* however it ends, it does not end under a thread that still writes.
SuccessIsComplete ==
    /\ reverters \/ verdict = "ok" => submitted = total /\ \A f \in File : task[f] = "written"
    /\ verdict # "none" => Running = {}

\* The program ends, whichever writes fail.
GeneratorEnds == <>(verdict # "none")

(* The inductive invariant (GeneratorProofs). *)

\* Files before these are behind the deque.
Oldest == submitted - Len(pending)

\* The deque is a window of the files, the last one of which was submitted last ...
Window == \A k \in DOMAIN pending : pending[k] = Oldest + k - 1

\* ... and until the program is gone, what is behind it is written, and only that has been asked,
\* unless the program is on its way out.
BehindWritten == pc # "gone" => \A f \in File : f < Oldest => task[f] = "written"
BehindSpent == pc \notin {"unwind", "gone"} => \A f \in spent : f < Oldest

\* get() has waited for the thread of a future that is spent.
SpentEnded == \A f \in spent : f \in File /\ task[f] \in {"written", "failed"}

NotStarted == \A f \in File : submitted <= f => task[f] = "none"

\* Where the producer is, and how far.
Progress ==
    /\ pc = "submit" => submitted < total
    /\ pc = "drain" => submitted = total
    /\ pc = "return" => reverters
    /\ verdict = "ok" => reverters
    /\ verdict # "none" <=> pc = "gone"
    /\ pc = "gone" => Running = {}

GeneratorInv ==
    /\ GeneratorTypeOK /\ WritesBounded /\ SuccessIsComplete
    /\ pending \in Seq(Nat) /\ spent \subseteq Nat
    /\ Window /\ BehindWritten /\ BehindSpent /\ SpentEnded /\ NotStarted /\ Progress
=============================================================================
