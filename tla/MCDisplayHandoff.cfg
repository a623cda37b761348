SPECIFICATION Spec
CONSTANTS
    wide = wide
    tall = tall
    small = small
    large = large
    Modes = {wide, tall}
    NoMode = NoMode
    DisplayIds = {2, 7}
    DisplayCounts = {5}
    Monitors = {small, large}
    NoMonitor = NoMonitor
    EdidBlocks <- MCEdidBlocks
    Dtds <- MCDtds
    NoHandoff = NoHandoff
    Damaged = Damaged
    MaxStarts = 1
INVARIANT HandoffIsCoherent
INVARIANT EdidIsWhole
INVARIANT DiagnosticsAreTrue
INVARIANT OneTablePerStart
PROPERTY PreviousIsKept
