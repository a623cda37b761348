---------------------------- MODULE MCFanDriver ----------------------------
(***************************************************************************)
(* A small instance of FanDriver: one temperature below each of the curve's *)
(* thresholds that matter and one beyond the over-temperature limit, a      *)
(* refused, an off-curve and an extreme manual request.                     *)
(***************************************************************************)
EXTENDS FanDriver
=============================================================================
