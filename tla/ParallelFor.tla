----------------------------- MODULE ParallelFor -----------------------------
(***************************************************************************)
(* What ThreadPool::run promises its caller (the comment above the class in *)
(* sim_common.h: "Blocks until every chunk is done").  One loop at a time   *)
(* runs over the indices 0 .. n-1; every index is handed to the body once,  *)
(* and the loop is over only when no index is left and none is in a body.   *)
(***************************************************************************)
EXTENDS Integers

CONSTANT Sizes          \* the loop lengths callers may ask for

VARIABLES
    status,             \* "idle" or "running"
    todo,               \* indices not yet handed to the body
    busy                \* indices the body is working on

vars == <<status, todo, busy>>

Init == status = "idle" /\ todo = {} /\ busy = {}

Begin(n) ==
    /\ status = "idle"
    /\ status' = "running"
    /\ todo' = 0 .. (n - 1)
    /\ busy' = {}

\* A thread takes indices nobody has taken.
Take(S) ==
    /\ status = "running"
    /\ S # {} /\ S \subseteq todo
    /\ todo' = todo \ S
    /\ busy' = busy \cup S
    /\ UNCHANGED status

Complete(S) ==
    /\ status = "running"
    /\ S # {} /\ S \subseteq busy
    /\ busy' = busy \ S
    /\ UNCHANGED <<status, todo>>

Return ==
    /\ status = "running"
    /\ todo = {}
    /\ busy = {}
    /\ status' = "idle"
    /\ UNCHANGED <<todo, busy>>

Next ==
    \/ \E n \in Sizes \ {0} : Begin(n)
    \/ \E S \in SUBSET todo : Take(S)
    \/ \E S \in SUBSET busy : Complete(S)
    \/ Return

Spec == Init /\ [][Next]_vars
=============================================================================
