SPECIFICATION Spec
CONSTANTS
    Files <- MCFiles
    Words <- MCWords
    Checkouts <- MCCheckouts
    Patches <- MCPatches
    Edits <- MCEdits
    MaxCuts = 2
    Sources <- MCSources
    Left <- MCLeft
    Passed <- MCPassed
    Work <- MCWork
INVARIANT AppliedMeansApplied
