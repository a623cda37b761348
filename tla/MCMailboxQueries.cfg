SPECIFICATION FairSpec
CONSTANTS
    Short = Short
    Long = Long
    Monitors = {Short, Long}
    NoMonitor = NoMonitor
    Displays = {2}
    FifoDepth = 2
    EdidBlocks <- MCEdidBlocks
INVARIANT AnswersAreOwn
INVARIANT NothingBehindAnswers
INVARIANT LockFollowsCall
INVARIANT CompleteIsWhole
PROPERTY CallersKeepApart
PROPERTY ReadsEnd
