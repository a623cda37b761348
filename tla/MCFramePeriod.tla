--------------------------- MODULE MCFramePeriod ---------------------------
(***************************************************************************)
(* A small instance of FramePeriod: every phase of a frame, before and at  *)
(* the end of the counter's range.                                         *)
(***************************************************************************)
EXTENDS FramePeriod
=============================================================================
