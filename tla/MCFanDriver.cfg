SPECIFICATION FairSpec
CONSTANTS
    Temps = {0, 48000, 63000, 72000, 85000}
    ManualRequests = {29, 30, 55}
    ForeignDuty = {0, 100}
    MaxFailures = 2
INVARIANT FailSafeIsFullSpeed
INVARIANT SlowFanIsWatched
INVARIANT AutomaticFollowsCurve
INVARIANT QuietOutsideD0
PROPERTY SlowedByFreshSampleOnly
PROPERTY ImplementsGovernor
PROPERTY LostProviderEndsInFullSpeed
PROPERTY ManualRequestIsApplied
PROPERTY LeavingD0Completes
