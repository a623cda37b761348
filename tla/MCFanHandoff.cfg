SPECIFICATION FairHistorySpec
CONSTANTS
    Temps <- MCTemps
    Speeds = {30, 60}
    ForeignDuty = {0, 100}
    GovernorTemps = {46000}
    GovernorDuties = {40, 100}
INVARIANT SlowFanHasAKeeper
PROPERTY HotSocEndsInFullSpeed
PROPERTY ManualSpeedIsApplied
PROPERTY NoFlapping
