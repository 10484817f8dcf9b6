---------------------------- MODULE SerialStrategy ----------------------------
(***************************************************************************)
(* What the comment in cmdStrategy promises: "results are emitted strictly *)
(* in id order so the output (and the float sums in the summary) do not    *)
(* depend on thread timing".  The output is that of one thread that works  *)
(* through the instruments one by one.  A row is <<id, k>>, the k-th trade *)
(* of instrument id.                                                       *)
(***************************************************************************)
EXTENDS Integers, Sequences

CONSTANTS Sizes,        \* numbers of instruments a store may have
          MaxRows,      \* bound: trades of one instrument
          Groups,       \* groups of the summary
          GroupOf(_)    \* the group an instrument belongs to, if it is one of Groups

VARIABLES
    rows,               \* trades of each instrument, fixed by the store and the parameters
    fails,              \* instruments whose simulation throws after those trades
    upto,               \* instruments that are through
    out,                \* rows so far
    sums,               \* per group, the rows added up for the summary
    verdict

vars == <<rows, fails, upto, out, sums, verdict>>

\* The rows of a group among those in s, in their order.
OfGroup(g, s) ==
    LET among[k \in 0 .. Len(s)] ==
            IF k = 0 THEN <<>>
            ELSE IF GroupOf(s[k][1]) = g THEN Append(among[k - 1], s[k]) ELSE among[k - 1]
    IN  among[Len(s)]

RowsOf(id, r) == [k \in 1 .. r |-> <<id, k>>]

Init == /\ \E n \in Sizes : rows \in [0 .. n - 1 -> 0 .. MaxRows]
        /\ fails \in SUBSET DOMAIN rows
        /\ upto = 0 /\ sums = [g \in Groups |-> <<>>] /\ out = <<>> /\ verdict = "none"

Emit == /\ verdict = "none" /\ upto \in DOMAIN rows
        /\ out' = out \o RowsOf(upto, rows[upto])
        /\ upto' = upto + 1
        /\ sums' = [g \in DOMAIN sums |-> OfGroup(g, out')]
        /\ UNCHANGED <<rows, fails, verdict>>

\* Only after the last instrument, and never with success when one has thrown ...
Conclude == /\ verdict = "none"
            /\ upto \notin DOMAIN rows
            /\ verdict' \in IF fails = {} THEN {"ok", "failed"} ELSE {"failed"}
            /\ UNCHANGED <<rows, fails, upto, out, sums>>

\* ... or before the first: options, input or output are refused.
Refuse == /\ verdict = "none"
          /\ upto = 0
          /\ verdict' = "failed"
          /\ UNCHANGED <<rows, fails, upto, out, sums>>

Spec == Init /\ [][Emit \/ Conclude \/ Refuse]_vars
=============================================================================
