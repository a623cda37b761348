----------------------------- MODULE FanHistory -----------------------------
(***************************************************************************)
(* FanHandoff with a history variable beside it, which remembers the       *)
(* temperature at which UEFI's automatic speed last rose since the machine *)
(* was started.  It restricts no step of FanHandoff.                       *)
(***************************************************************************)
EXTENDS FanHandoff

VARIABLE roseAt

\* The curve asks for its lowest speed at this temperature.
NeverRose == 0

HistoryInit == HandoffInit /\ roseAt = NeverRose

HistoryNext ==
    /\ HandoffNext
    /\ roseAt' = IF phase' = "start" THEN NeverRose
                 ELSE IF mAutomaticSpeed' > mAutomaticSpeed THEN soc
                 ELSE roseAt

historyVars == <<allVars, roseAt>>

HistorySpec == HistoryInit /\ [][HistoryNext]_historyVars

\* UEFI's timer is periodic: it ticks as long as boot services run.
FairHistorySpec == HistorySpec /\ WF_allVars(UefiTicks)

-----------------------------------------------------------------------------
(* Properties *)

\* UEFI's automatic speed, once it has risen, falls again only when the SoC is
\* more than 5 degrees colder than it was then, whatever samples fail and
\* whatever modes the user selects in between.
NoFlapping ==
    [][mAutomaticSpeed' < mAutomaticSpeed /\ roseAt # NeverRose =>
         soc < roseAt - Hysteresis]_historyVars

=============================================================================
