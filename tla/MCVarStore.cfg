SPECIFICATION Spec
CONSTANTS
    Media = {boot, build}
    NoDevice = none
    Boot = boot
    SameFirmware = {boot}
    OtherStore = {}
    Flaky = {boot}
    Blocks = 2
    Values = {1}
    Default = 0
    Old = 2
    Garbage = 3
    WritersAbove = TRUE
    MaxGeneration = 2
    none = none
    boot = boot
    build = build
PROPERTY ImplementsSavedStore
INVARIANT CleanMeansSaved
INVARIANT OneSaveAtATime
PROPERTY NobodyLeavesUnwarned
