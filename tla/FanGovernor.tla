---------------------------- MODULE FanGovernor ----------------------------
(***************************************************************************)
(* What the Windows fan driver promises, without its threads: while it is  *)
(* engaged the fan runs at 100% or at a duty cycle that a safe temperature *)
(* stands behind, and it lets go of the fan at 100% only.                  *)
(***************************************************************************)
EXTENDS Integers

CONSTANTS
    Full,       \* the fail-safe duty cycle
    Duties,     \* the duty cycles the governor may choose
    SafeTemps,  \* the temperatures at which it may choose one
    NoEvidence  \* no temperature stands behind the current duty cycle

VARIABLES engaged, duty, evidence

vars == <<engaged, duty, evidence>>

Init == engaged = FALSE /\ duty = Full /\ evidence = NoEvidence

Engage ==
    /\ ~ engaged
    /\ engaged' = TRUE
    /\ duty' = Full
    /\ evidence' = NoEvidence

\* A new temperature justifies a new duty cycle.
Judge ==
    /\ engaged
    /\ engaged' = TRUE
    /\ evidence' \in SafeTemps
    /\ duty' \in Duties

\* Evidence can be withdrawn at any time; the fan then runs at full speed.
Retreat ==
    /\ engaged
    /\ engaged' = TRUE
    /\ duty' = Full
    /\ evidence' = NoEvidence

Disengage ==
    /\ engaged
    /\ duty = Full
    /\ evidence = NoEvidence
    /\ engaged' = FALSE
    /\ UNCHANGED <<duty, evidence>>

Next == Engage \/ Judge \/ Retreat \/ Disengage

Spec == Init /\ [][Next]_vars

=============================================================================
