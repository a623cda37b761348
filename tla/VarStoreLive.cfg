SPECIFICATION FairSpec
CONSTANTS
    Media = {boot, backup}
    NoDevice = none
    Boot = boot
    SameFirmware = {boot, backup}
    OtherStore = {backup}
    Flaky = {boot}
    Blocks = 1
    Values = {1}
    Default = 0
    Old = 2
    Garbage = 3
    WritersAbove = FALSE
    MaxGeneration = 2
    none = none
    boot = boot
    backup = backup
PROPERTY OtherMediaUntouched
PROPERTY DirtyStoreIsSaved
PROPERTY SavedOrWarned
