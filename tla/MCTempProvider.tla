--------------------------- MODULE MCTempProvider ---------------------------
(***************************************************************************)
(* A small instance of TempProvider: two pages, so that a released buffer  *)
(* may or may not come back, queues of two words and loops of two passes.  *)
(***************************************************************************)
EXTENDS TempProvider
=============================================================================
