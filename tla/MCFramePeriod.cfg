SPECIFICATION FairSpec
CONSTANTS
    Frame = 8
    Poll = 2
    WaitLoops = 17
    Wrap = 8
    MaxStolen = 12
    Scans = {0, 1, 7, 47, 52, 56, 57, 60, 63}
CHECK_DEADLOCK FALSE
INVARIANT PeriodIsTrue
INVARIANT RunningIsMeasured
PROPERTY MeasurementEnds
