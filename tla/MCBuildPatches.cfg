SPECIFICATION Spec
CONSTANTS
    Files <- MCFiles
    Words <- MCWords
    Checkouts <- MCCheckouts
    Patches <- MCPatches
    Edits <- MCEdits
    MaxCuts = 3
    Sources <- MCSources
    Left <- MCLeft
    Passed <- MCPassed
    Work <- MCWork
INVARIANT BuildRestoresSources
INVARIANT NothingIsDoubled
