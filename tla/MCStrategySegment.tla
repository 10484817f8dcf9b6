------------------------- MODULE MCStrategySegment -------------------------
(* Parameter sets of StrategySegment for TLC. *)
EXTENDS StrategySegment

P(window, enter, exit, maxHold) ==
    [window |-> window, entry |-> enter, exit |-> exit, maxHold |-> maxHold]
SomeParams == {P(1, 0, 0, 0), P(2, 0, -1, 2), P(3, 0, 0, 3), P(3, 1, 0, 1), P(4, 1, 1, 0)}
=============================================================================
