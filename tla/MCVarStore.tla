----------------------------- MODULE MCVarStore -----------------------------
(***************************************************************************)
(* A small instance of VarStore: the boot medium, a medium with another    *)
(* build of the firmware, and one with the same build but older settings.  *)
(***************************************************************************)
EXTENDS VarStore
=============================================================================
