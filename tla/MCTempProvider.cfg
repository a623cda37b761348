SPECIFICATION FairSpec
CONSTANTS
    Buffers = {A, B}
    PollCount = 2
    Depth = 2
    MaxMeasurements = 2
    TooCold = {}
    TooHot = {2}
    MaxFailures = 1
INVARIANT ValidIsMeasured
PROPERTY AnswersAreFresh
PROPERTY NoAnswerTwice
PROPERTY NeverWaitsForever
