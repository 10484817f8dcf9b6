---------------------------- MODULE MCStrategyRun ----------------------------
(***************************************************************************)
(* Regions for TLC: one without stocks and one of two, so that of three     *)
(* instruments the first two share a group and the third has none.          *)
(***************************************************************************)
EXTENDS StrategyRun

MCRegionSizes == <<0, 2>>
=============================================================================
