------------------------------ MODULE VarStore ------------------------------
(***************************************************************************)
(* The file behind the UEFI variables: VarBlockServiceDxe as patch 0005 of *)
(* temporary-patches/edk2-platforms leaves it.  The variable store lives   *)
(* in RAM; a dirty store is copied to RPI_EFI.FD of the medium the         *)
(* firmware was loaded from.                                               *)
(*                                                                         *)
(* UEFI has one processor and task priority levels.  A program calls       *)
(* ResetSystem at TPL_APPLICATION; the save timer, the ReadyToBoot event   *)
(* and the file system notification run at TPL_CALLBACK and may interrupt  *)
(* it, not each other.                                                     *)
(***************************************************************************)
EXTENDS Naturals, FiniteSets

CONSTANTS
    Media,          \* the disks that hold a file named RPI_EFI.FD
    NoDevice,       \* not one of them
    Boot,           \* the one the firmware was loaded from
    SameFirmware,   \* the disks whose file holds the very same firmware code
    OtherStore,     \* those whose variable store is another one
    Flaky,          \* the disks whose input and output may fail
    Blocks,         \* a store is Blocks blocks, compared and written in turn
    Values,         \* what is written to a block of the store
    Default,        \* what the blocks of a new store hold
    Old, Garbage,   \* what the blocks of another, of a damaged store hold
    WritersAbove,        \* variables are also written above TPL_CALLBACK
    MaxGeneration   \* a bound on the changes of one boot

ASSUME VarStoreAssumption ==
    /\ IsFiniteSet(Media) /\ Boot \in Media /\ NoDevice \notin Media
    /\ Boot \in SameFirmware /\ Boot \notin OtherStore
    /\ SameFirmware \subseteq Media /\ OtherStore \subseteq Media
    \* Byte-identical clones of the boot medium are out of scope.
    /\ \A m \in Media \ {Boot} : m \notin SameFirmware \/ m \in OtherStore
    /\ Flaky \subseteq Media
    /\ Blocks \in Nat \ {0}
    /\ Old \notin Values \union {Default, Garbage}
    /\ Garbage \notin Values \union {Default}
    /\ WritersAbove \in BOOLEAN
    /\ MaxGeneration \in Nat

Block == 1 .. Blocks
Store == [Block -> Values \union {Default, Old, Garbage}]

\* TPL_APPLICATION and TPL_CALLBACK; what runs above is a step.
Levels == {"application", "callback"}

(***************************************************************************)
(* Where the code of a level is: in DumpVars before DoDump ("dirty" ..     *)
(* "load"), in DoDump ("open" .. "close"), behind it in DumpVars           *)
(* ("compare", "commit", "failed"), back in the caller ("returned"), in    *)
(* the loop of the file system notification, or in the reset.              *)
(***************************************************************************)
FileSteps == {"open", "write", "flush", "verify", "close"}
Places == FileSteps \union
    {"dirty", "device", "hold", "load", "compare", "commit", "failed",
     "idle", "returned", "discover", "resetting"}
Callers == {"none", "timer", "readyToBoot", "reset", "discovery"}

VARIABLES
    store,            \* FvBase: the store in RAM
    mBootVariableStore,  \* its copy of the time the firmware started
    Dirty, Generation, Device,       \* of mFvInstance
    mSaving, mSaveErrorShown, mBootServicesGone,
    disk,             \* the store in the file of each medium
    present,          \* the media with a file system handle
    working,          \* the media that answer without an error
    announced,        \* handles LocateHandle has not yet returned
    readyToBoot,      \* the ReadyToBoot event still exists
    console,          \* gST->ConOut is there
    run,              \* what each level is doing
    disturbed         \* history: another save or a write came between two
                      \* instructions of DumpVars that belong together

ram == <<store, mBootVariableStore, Dirty, Generation>>
flags == <<mSaving, mSaveErrorShown, mBootServicesGone>>
attached == <<present, working, announced>>
bds == <<readyToBoot, console>>
vars == <<ram, Device, flags, disk, attached, bds, run, disturbed>>

Idle == [at |-> "idle", for |-> "none", file |-> NoDevice, block |-> 1,
         generation |-> 0, ok |-> FALSE]
Runs == [at : Places, for : Callers, file : Media \union {NoDevice},
         block : Block, generation : 0 .. MaxGeneration, ok : BOOLEAN]

TypeOK ==
    /\ store \in Store /\ mBootVariableStore \in Store
    /\ disk \in [Media -> Store]
    /\ Dirty \in BOOLEAN /\ Generation \in 0 .. MaxGeneration
    /\ Device \in Media \union {NoDevice}
    /\ mSaving \in BOOLEAN /\ mSaveErrorShown \in BOOLEAN
    /\ mBootServicesGone \in BOOLEAN
    /\ present \subseteq Media /\ announced \subseteq present
    /\ working \subseteq Media
    /\ readyToBoot \in BOOLEAN /\ console \in BOOLEAN /\ disturbed \in BOOLEAN
    /\ run \in [Levels -> Runs]
    /\ \A l \in Levels : run[l].at \in FileSteps => run[l].file \in Media
    /\ \A l \in Levels : run[l].at \in {"hold", "load"} => Device # NoDevice

\* A start of the machine: the file of the boot medium is loaded to RAM and
\* the driver captures it before anything changes it.
Started ==
    /\ mBootVariableStore' = disk[Boot]
    /\ store' = disk[Boot]
    /\ Dirty' = FALSE /\ Generation' = 0 /\ Device' = NoDevice
    /\ mSaving' = FALSE /\ mSaveErrorShown' = FALSE
    /\ mBootServicesGone' = FALSE
    /\ present' = {Boot} /\ announced' = {Boot} /\ working' = Media
    /\ readyToBoot' = TRUE /\ console' = FALSE /\ disturbed' = FALSE
    /\ run' = [l \in Levels |-> Idle]

Init ==
    /\ disk = [m \in Media |->
                 [b \in Block |-> IF m \in OtherStore THEN Old ELSE Default]]
    /\ mBootVariableStore = disk[Boot] /\ store = disk[Boot]
    /\ Dirty = FALSE /\ Generation = 0 /\ Device = NoDevice
    /\ mSaving = FALSE /\ mSaveErrorShown = FALSE
    /\ mBootServicesGone = FALSE
    /\ present = {Boot} /\ announced = {Boot} /\ working = Media
    /\ readyToBoot = TRUE /\ console = FALSE /\ disturbed = FALSE
    /\ run = [l \in Levels |-> Idle]

-----------------------------------------------------------------------------
(* Who may take a step. *)

Runnable(l) ==
    \/ l = "callback"
    \/ run["callback"].at = "idle" /\ run["application"].at # "resetting"

Answers(m) == m \in present \intersect working

-----------------------------------------------------------------------------
(* The variables.  A write runs to its end above TPL_CALLBACK. *)

VarStoreChanged(b, v) ==
    /\ store' = [store EXCEPT ![b] = v]
    /\ Generation' = Generation + 1
    /\ Dirty' = TRUE

\* VarStoreWrite and VarStoreErase, by SetVariable and by the driver above.
VarStoreWrite ==
    /\ WritersAbove \/ run["callback"].at = "idle"
    /\ Generation < MaxGeneration
    /\ \E b \in Block, v \in Values : VarStoreChanged(b, v)
    /\ disturbed' = (disturbed \/ \E l \in Levels : run[l].at = "commit")
    /\ UNCHANGED <<mBootVariableStore, Device, flags, disk, attached, bds, run>>

-----------------------------------------------------------------------------
(* DumpVars and DoDump. *)

\* A mutant: the failure goes unreported.
ReportNever == UNCHANGED mSaveErrorShown

\* Without a console nothing is shown, and nothing counts as shown.
ReportSaveFailure == mSaveErrorShown' = (mSaveErrorShown \/ console)

Moved(l, at) == [run EXCEPT ![l].at = at]
Ended(l) == [run EXCEPT ![l] = Idle]
Placed(l, at, caller) == [run EXCEPT ![l] = [Idle EXCEPT !.at = at, !.for = caller]]
Back(l, caller) == Placed(l, "returned", caller)

\* A mutant of MaySave: while another save runs.
MaySaveNested == ~mBootServicesGone

\* EfiAtRuntime is false while mBootServicesGone is.
MaySave == ~mBootServicesGone /\ ~mSaving

\* DumpVars is called and makes its first test.
DumpVars(l, caller) ==
    /\ run' = Placed(l, IF MaySave THEN "dirty" ELSE "returned", caller)
    /\ UNCHANGED mSaving

\* One of its further tests, which lets it go on or ends it.
Test(l, at, passes, next) ==
    /\ Runnable(l) /\ run[l].at = at
    /\ run' = IF passes THEN Moved(l, next) ELSE Back(l, run[l].for)
    /\ UNCHANGED <<ram, Device, flags, disk, attached, bds, disturbed>>

\* A mutant of NeedsSave: a clean store is saved, too.
NeedsSaveAlways == TRUE
NeedsSave == Dirty

TestDirty(l) == Test(l, "dirty", NeedsSave, "device")
TestDevice(l) == Test(l, "device", Device # NoDevice, "hold")

\* The save of a callback begins while the application level stands between its
\* test of Dirty and mSaving = TRUE, or between mSaving = FALSE and the assignment
\* of Dirty.
Overtakes(l) ==
    /\ l = "callback"
    /\ run["application"].at \in {"device", "hold", "compare", "commit"}

\* mSaving = TRUE.
HoldFile(l) ==
    /\ Runnable(l) /\ run[l].at = "hold"
    /\ mSaving' = TRUE
    /\ run' = Moved(l, "load")
    /\ disturbed' = IF l = "callback" THEN Overtakes(l) ELSE disturbed
    /\ UNCHANGED <<ram, Device, mSaveErrorShown, mBootServicesGone, disk, attached, bds>>

\* Generation and the medium are loaded for DoDump.
LoadGeneration(l) ==
    /\ Runnable(l) /\ run[l].at = "load"
    /\ run' = [run EXCEPT ![l] = [at |-> "open", for |-> run[l].for, file |-> Device,
                                  block |-> 1, generation |-> Generation, ok |-> FALSE]]
    /\ UNCHANGED <<ram, Device, flags, disk, attached, bds, disturbed>>

\* A mutant: mSaving stays set.
SaveFailsHeld(l) ==
    run' = Placed(l, "failed", run[l].for) /\ UNCHANGED mSaving

\* DoDump failed: the store stays dirty.
SaveFails(l) == mSaving' = FALSE /\ run' = Placed(l, "failed", run[l].for)

SaveFailureReported(l) ==
    /\ Runnable(l) /\ run[l].at = "failed"
    /\ ReportSaveFailure
    /\ run' = Back(l, run[l].for)
    /\ UNCHANGED <<ram, Device, mSaving, mBootServicesGone, disk, attached, bds, disturbed>>

\* FileOpen; without a file there is nothing to close.
FileOpen(l) ==
    /\ Runnable(l) /\ run[l].at = "open"
    /\ \/ Answers(run[l].file) /\ run' = Moved(l, "write")
          /\ UNCHANGED mSaving
       \/ ~Answers(run[l].file) /\ SaveFails(l)
    /\ UNCHANGED <<ram, Device, mSaveErrorShown, mBootServicesGone, disk, attached,
                   bds, disturbed>>

\* The next place of a loop over the blocks.
NextBlock(l, at) ==
    IF run[l].block = Blocks
    THEN [run EXCEPT ![l].at = at, ![l].block = 1]
    ELSE [run EXCEPT ![l].block = @ + 1]

\* File->Write, one block after the other from RAM.  A failing medium ends
\* with an error or a short write, or takes the block and damages it.
FileWrite(l) ==
    LET file == run[l].file
        Put(v) == disk' = [disk EXCEPT ![file][run[l].block] = v]
    IN  /\ Runnable(l) /\ run[l].at = "write"
        /\ \/ /\ Answers(file)
              /\ Put(store[run[l].block])
              /\ run' = NextBlock(l, "flush")
           \/ /\ ~Answers(file) /\ file \in present
              /\ Put(Garbage)
              /\ run' = NextBlock(l, "flush")
           \/ /\ ~Answers(file)
              /\ run' = Moved(l, "close")
              /\ UNCHANGED disk
        /\ UNCHANGED <<ram, Device, flags, attached, bds, disturbed>>

FileFlush(l) ==
    /\ Runnable(l) /\ run[l].at = "flush"
    /\ \/ run[l].file \in present /\ run' = Moved(l, "verify")
       \/ ~Answers(run[l].file) /\ run' = Moved(l, "close")
    /\ UNCHANGED <<ram, Device, flags, disk, attached, bds, disturbed>>

\* FileVerify: the file against the store as it is now.
FileVerify(l) ==
    LET file == run[l].file
        same == disk[file][run[l].block] = store[run[l].block]
    IN  /\ Runnable(l) /\ run[l].at = "verify"
        /\ \/ /\ file \in present /\ same
              /\ run' = IF run[l].block = Blocks
                        THEN [run EXCEPT ![l].at = "close", ![l].ok = TRUE]
                        ELSE NextBlock(l, "close")
           \/ /\ ~same \/ ~Answers(file)
              /\ run' = Moved(l, "close")
        /\ UNCHANGED <<ram, Device, flags, disk, attached, bds, disturbed>>

\* A mutant: the status of the save is not looked at.
FileCloseAlways(l) ==
    /\ Runnable(l) /\ run[l].at = "close"
    /\ mSaving' = FALSE /\ run' = Moved(l, "compare")
    /\ UNCHANGED <<ram, Device, mSaveErrorShown, mBootServicesGone, disk, attached,
                   bds, disturbed>>

\* FileClose, mSaving = FALSE, and DumpVars looks at the status.
FileClose(l) ==
    /\ Runnable(l) /\ run[l].at = "close"
    /\ \/ run[l].ok /\ mSaving' = FALSE /\ run' = Moved(l, "compare")
       \/ ~run[l].ok /\ SaveFails(l)
       \/ ~Answers(run[l].file) /\ SaveFails(l)
    /\ UNCHANGED <<ram, Device, mSaveErrorShown, mBootServicesGone, disk, attached,
                   bds, disturbed>>

\* Dirty = (Generation != mFvInstance->Generation), a load and a store.
CompareGeneration(l) ==
    /\ Runnable(l) /\ run[l].at = "compare"
    /\ run' = [run EXCEPT ![l].at = "commit",
                          ![l].ok = run[l].generation # Generation]
    /\ UNCHANGED <<ram, Device, flags, disk, attached, bds, disturbed>>

\* A mutant: as it was before the patch: Dirty = FALSE.
SaveSucceedsRegardless(l) ==
    /\ Runnable(l) /\ run[l].at = "commit"
    /\ Dirty' = FALSE
    /\ mSaveErrorShown' = FALSE
    /\ run' = Back(l, run[l].for)
    /\ UNCHANGED <<store, mBootVariableStore, Generation, Device, mSaving,
                   mBootServicesGone, disk, attached, bds, disturbed>>

SaveSucceeds(l) ==
    /\ Runnable(l) /\ run[l].at = "commit"
    /\ Dirty' = run[l].ok
    /\ mSaveErrorShown' = FALSE
    /\ run' = Back(l, run[l].for)
    /\ UNCHANGED <<store, mBootVariableStore, Generation, Device, mSaving,
                   mBootServicesGone, disk, attached, bds, disturbed>>

DoDump(l) ==
    FileOpen(l) \/ FileWrite(l) \/ FileFlush(l) \/ FileVerify(l) \/ FileClose(l)
Entering(l) == TestDirty(l) \/ TestDevice(l) \/ HoldFile(l) \/ LoadGeneration(l)
Saving(l) ==
    \/ Entering(l) \/ DoDump(l)
    \/ CompareGeneration(l) \/ SaveSucceeds(l) \/ SaveFailureReported(l)

-----------------------------------------------------------------------------
(* The callers of DumpVars. *)

CallbackFree == run["callback"].at = "idle"

\* DumpVarsOnEvent of the two-second timer.
SaveTimerTicks ==
    /\ CallbackFree
    /\ DumpVars("callback", "timer")
    /\ UNCHANGED <<ram, Device, mSaveErrorShown, mBootServicesGone, disk,
                   attached, bds, disturbed>>

\* The boot manager signals the event at TPL_APPLICATION.
ReadyToBootHandler ==
    /\ CallbackFree /\ readyToBoot /\ ~mBootServicesGone
    /\ run["application"].at = "idle"
    /\ DumpVars("callback", "readyToBoot")
    /\ UNCHANGED <<ram, Device, mSaveErrorShown, mBootServicesGone, disk,
                   attached, bds, disturbed>>

\* ResetSystem calls DumpVarsOnReset, in UEFI or from the running system.
DumpVarsOnReset ==
    /\ CallbackFree /\ run["application"].at = "idle"
    /\ DumpVars("application", "reset")
    /\ UNCHANGED <<ram, Device, mSaveErrorShown, mBootServicesGone, disk,
                   attached, bds, disturbed>>

ReportIfDirty ==
    IF ~mBootServicesGone /\ Dirty
    THEN ReportSaveFailure ELSE UNCHANGED mSaveErrorShown

\* The rest of each caller.
TimerReturns(l) ==
    /\ run[l].at = "returned" /\ run[l].for \in {"timer", "discovery"}
    /\ run' = Ended(l)
    /\ UNCHANGED <<mSaveErrorShown, readyToBoot>>

ReadyToBootReturns(l) ==
    /\ run[l].at = "returned" /\ run[l].for = "readyToBoot"
    /\ ReportIfDirty
    /\ readyToBoot' = FALSE
    /\ run' = Ended(l)

ResetReturns(l) ==
    /\ run[l].at = "returned" /\ run[l].for = "reset"
    /\ ReportIfDirty
    /\ run' = [run EXCEPT ![l] = [Idle EXCEPT !.at = "resetting"]]
    /\ UNCHANGED readyToBoot

CallerReturns(l) ==
    /\ Runnable(l)
    /\ TimerReturns(l) \/ ReadyToBootReturns(l) \/ ResetReturns(l)
    /\ UNCHANGED <<ram, Device, mSaving, mBootServicesGone, disk, attached, console,
                   disturbed>>

-----------------------------------------------------------------------------
(* OnSimpleFileSystemInstall. *)

\* The chosen medium still opens: stay with it.
CheckStoreExists == Device # NoDevice /\ Answers(Device)

FileVerifyFirmware(m) == m \in SameFirmware
VerifyBootVariableStore(m) == disk[m] = mBootVariableStore

\* A mutant: the stores are not compared.
CheckFirmwareOnly(m) == Answers(m) /\ FileVerifyFirmware(m)
CheckStore(m) ==
    /\ Answers(m)
    /\ FileVerifyFirmware(m)
    /\ VerifyBootVariableStore(m)

FileSystemInstalled ==
    /\ CallbackFree /\ ~mBootServicesGone /\ announced # {}
    /\ ~CheckStoreExists
    /\ run' = [run EXCEPT !["callback"].at = "discover",
                          !["callback"].for = "discovery"]
    /\ UNCHANGED <<ram, Device, flags, disk, attached, bds, disturbed>>

\* LocateHandle returns one new handle after the other.  Finding the medium
\* writes nothing by itself.
TryHandle ==
    /\ run["callback"].at = "discover"
    /\ \E m \in announced :
         /\ announced' = announced \ {m}
         /\ \/ CheckStore(m) /\ Device' = m
               /\ DumpVars("callback", "discovery")
            \/ ~CheckStore(m) /\ UNCHANGED <<Device, mSaving, run>>
    /\ UNCHANGED <<ram, mSaveErrorShown, mBootServicesGone, disk, present,
                   working, bds, disturbed>>

NoMoreHandles ==
    /\ run["callback"].at = "discover" /\ announced = {}
    /\ run' = Ended("callback")
    /\ UNCHANGED <<ram, Device, flags, disk, attached, bds, disturbed>>

-----------------------------------------------------------------------------
(* The end of the boot services, the media, the end of the boot. *)

\* ExitBootServices, called by a loader at TPL_APPLICATION.
StopFilePersistence ==
    /\ CallbackFree /\ ~mBootServicesGone /\ ~readyToBoot
    /\ run["application"].at = "idle"
    /\ mBootServicesGone' = TRUE
    /\ UNCHANGED <<ram, Device, mSaving, mSaveErrorShown, disk, attached,
                   bds, run, disturbed>>

\* Handles come and go by code of TPL_CALLBACK or below.
MediumAppears(m) ==
    /\ CallbackFree /\ ~mBootServicesGone /\ m \notin present
    /\ present' = present \union {m} /\ announced' = announced \union {m}
    /\ UNCHANGED working

MediumLeaves(m) ==
    /\ CallbackFree /\ ~mBootServicesGone /\ m \in present
    /\ present' = present \ {m} /\ announced' = announced \ {m}
    /\ UNCHANGED working

MediumFails(m) ==
    /\ ~mBootServicesGone
    /\ m \in Flaky \intersect working /\ working' = working \ {m}
    /\ UNCHANGED <<present, announced>>

MediumRecovers(m) ==
    /\ ~mBootServicesGone
    /\ m \notin working /\ working' = working \union {m}
    /\ UNCHANGED <<present, announced>>

MediaChange ==
    /\ \E m \in Media : \/ MediumAppears(m) \/ MediumLeaves(m)
                        \/ MediumFails(m) \/ MediumRecovers(m)
    /\ UNCHANGED <<ram, Device, flags, disk, bds, run, disturbed>>

\* The boot manager connects the console.
ConsoleInstalled ==
    /\ ~mBootServicesGone /\ ~console
    /\ console' = TRUE
    /\ UNCHANGED <<ram, Device, flags, disk, attached, readyToBoot, run, disturbed>>

\* The reset, or the power is cut wherever the code is.
Restart ==
    /\ Started
    /\ UNCHANGED disk

Discovery == FileSystemInstalled \/ TryHandle \/ NoMoreHandles

Next ==
    \/ VarStoreWrite
    \/ \E l \in Levels : Saving(l) \/ CallerReturns(l)
    \/ SaveTimerTicks \/ ReadyToBootHandler \/ DumpVarsOnReset
    \/ Discovery
    \/ StopFilePersistence \/ MediaChange \/ ConsoleInstalled \/ Restart

Spec == Init /\ [][Next]_vars

(***************************************************************************)
(* The processor runs the callback it is in.  Between callbacks it runs    *)
(* the code below them, and the queued call of the periodic timer: strong  *)
(* fairness, for other callbacks may come first any number of times.  A    *)
(* new handle is notified.  No medium has to recover, and nobody has to    *)
(* write, boot or reset.                                                   *)
(***************************************************************************)
FairSpec ==
    /\ Spec
    /\ WF_vars(Saving("callback") \/ CallerReturns("callback"))
    /\ SF_vars(Saving("application") \/ CallerReturns("application"))
    /\ SF_vars(SaveTimerTicks)
    /\ WF_vars(Discovery)

-----------------------------------------------------------------------------
(* Properties. *)

\* A store that is not dirty is in the file of the boot medium, whatever was
\* written to the store, failed or interrupted the save (DumpVars); not so after
\* the save of a callback has come between the test of Dirty and mSaving = TRUE,
\* or between mSaving = FALSE and the assignment of Dirty, or a variable was
\* written within that assignment.
CleanMeansSaved == ~Dirty /\ ~disturbed => disk[Boot] = store

\* A save has the file to itself, though the save of a reset is interrupted by
\* the timer and the notification (mSaving), and boot services beneath it, though
\* the system that runs asks for a reset, too (StopFilePersistence).
OneSaveAtATime ==
    \A k, l \in Levels :
        run[k].at \in FileSteps /\ run[l].at \in FileSteps => k = l /\ ~mBootServicesGone

\* A file of the same name on another medium keeps every byte: discovery
\* only reads, and a save goes to the medium whose firmware and store are
\* those of the start (CheckStore).
OtherMediaUntouched ==
    [][\A m \in Media : disk'[m] # disk[m] => m = Boot]_disk

\* ResetSystem and ReadyToBoot leave with the store saved, or with the
\* warning on the console, if there is one (ReportSaveFailure in the two handlers).
NobodyLeavesUnwarned ==
    [][\A l \in Levels :
         /\ run[l].at = "returned" /\ ~mBootServicesGone
         /\ \/ run'[l].at = "resetting"
            \/ readyToBoot /\ ~readyToBoot'
         => ~Dirty' \/ mSaveErrorShown' \/ ~console]_vars

\* The driver implements SavedStore: however a save is interrupted, cut short
\* by the power or damaged by the medium, the file of the boot medium changes
\* only while the store is dirty or a save was disturbed, block by block to what
\* the store holds then; the store becomes clean when all of it is in the file,
\* and the next start finds that file.
Persistence == INSTANCE SavedStore WITH
    Fresh  <- [b \in Block |-> Default],
    memory <- store,
    saved  <- disk[Boot],
    clean  <- ~Dirty /\ ~disturbed
ImplementsSavedStore == Persistence!Spec

\* The boot medium is there, and it works.
Healthy == Answers(Boot) /\ Device = Boot
Booting == ~mBootServicesGone /\ run["application"].at # "resetting"

\* A failed save is tried again: once the boot medium works for good, and as
\* long as the boot lasts, the store does not stay dirty (the save timer).
DirtyStoreIsSaved == <>[](Healthy /\ Booting) => []<>~Dirty

\* While the medium is chosen and there is a console a dirty store gets saved or
\* the user is told, whatever the medium does.
SavedOrWarned ==
    (Dirty /\ Device # NoDevice /\ console) ~>
        (~Dirty \/ mSaveErrorShown \/ ~Booting)

\* "A failed save remains dirty for retry": docs, RTC-SETTINGS-exp0.4.md:23.
\* A file that a failed save has left different is not taken for saved.
FailedSaveStaysDirty ==
    [][Dirty /\ ~Dirty' => \A m \in Media : m = Device' => disk'[m] = store']_vars

\* "A changed store during saving is not marked clean": docs,
\* RTC-SETTINGS-exp0.4.md:25.
ChangedStoreStaysDirty ==
    [][\A l \in Levels :
         run[l].at = "commit" /\ run[l].generation # Generation
         /\ run'[l].at = "returned"
         => Dirty']_vars

=============================================================================
