----------------------------- MODULE MCCalendar ------------------------------
(* Parameters of Calendar for TLC: dates around 1970-01-01, so that day numbers and local *)
(* seconds change sign, and offsets that differ by nothing, by some hours, or backwards.   *)
EXTENDS Calendar

MCStdOffsets == {-2, 1}
MCDstOffsets == {-1, 0, 1}
MCFirstDay == -1
=============================================================================
