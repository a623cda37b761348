-------------------------- MODULE MCDisplayHandoff --------------------------
(***************************************************************************)
(* A small instance of DisplayHandoff.  The small monitor has a detailed   *)
(* timing for one mode in its base block and for the other in its          *)
(* extension; the large one has more blocks than the buffer holds.         *)
(***************************************************************************)
EXTENDS DisplayHandoff, TLC

CONSTANTS wide, tall, small, large

MCEdidBlocks == small :> 2 @@ large :> 5

MCDtds == small :> (0 :> {wide} @@ 1 :> {tall})
       @@ large :> [b \in 0 .. 4 |-> IF b = 4 THEN {wide} ELSE {}]
=============================================================================
