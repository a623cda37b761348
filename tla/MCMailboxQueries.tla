-------------------------- MODULE MCMailboxQueries --------------------------
(***************************************************************************)
(* A small instance of MailboxQueries: a display, a monitor with an EDID   *)
(* of two blocks and one whose EDID is longer than the buffer.             *)
(***************************************************************************)
EXTENDS MailboxQueries, TLC

CONSTANTS Short, Long

MCEdidBlocks == (Short :> 2) @@ (Long :> 5)
=============================================================================
