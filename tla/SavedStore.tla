----------------------------- MODULE SavedStore -----------------------------
(***************************************************************************)
(* What VarBlockServiceDxe promises of the UEFI variables, without its     *)
(* media, levels and saves: a copy in memory and one that outlasts a       *)
(* restart.  As long as nothing has been changed since the two agreed the  *)
(* saved copy is left alone.                                               *)
(***************************************************************************)
CONSTANTS
    Block,      \* the blocks of a copy
    Values,     \* what is written to a block
    Garbage,    \* what a damaged block holds
    Fresh       \* the copy the machine comes with

VARIABLES memory, saved, clean

vars == <<memory, saved, clean>>

Init == saved = Fresh /\ memory = saved /\ clean = TRUE

Change ==
    /\ \E b \in Block, v \in Values : memory' = [memory EXCEPT ![b] = v]
    /\ clean' = FALSE
    /\ UNCHANGED saved

\* A block of the saved copy gets what memory holds now, or is damaged.
SaveBlock ==
    /\ clean = FALSE
    /\ \E b \in Block : \E v \in {memory[b], Garbage} : saved' = [saved EXCEPT ![b] = v]
    /\ UNCHANGED <<memory, clean>>

\* Only when all of memory is saved.
Clean ==
    /\ saved = memory
    /\ clean' = TRUE
    /\ UNCHANGED <<memory, saved>>

\* At any time: what was not saved is lost.
Restart ==
    /\ memory' = saved
    /\ clean' = TRUE
    /\ UNCHANGED saved

Next == Change \/ SaveBlock \/ Clean \/ Restart

Spec == Init /\ [][Next]_vars

=============================================================================
