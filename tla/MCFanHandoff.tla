---------------------------- MODULE MCFanHandoff ----------------------------
(***************************************************************************)
(* A small instance of FanHistory, over any number of restarts: the        *)
(* temperatures are below the curve, on both sides of a threshold and less *)
(* than the hysteresis apart, and above all of it.                         *)
(***************************************************************************)
EXTENDS FanHistory

MCTemps == {0, 46000, 50000, 60000, 63000, 67500, 70000, 75000}
=============================================================================
