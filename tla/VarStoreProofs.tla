--------------------------- MODULE VarStoreProofs ---------------------------
(***************************************************************************)
(* Proofs about VarStore: for any media, blocks, values and number of      *)
(* changes a save has the file to itself and boot services beneath it,     *)
(* only the boot medium is written, ReadyToBoot and a reset leave with the *)
(* store saved or with the warning, and a clean store is in the file       *)
(* unless its save was disturbed.                                          *)
(*                                                                         *)
(* SaveInv says when the file is in use, MediaInv why a search never takes *)
(* a foreign medium for the boot medium, CleanInv what a save knows about  *)
(* the file at each of its steps.                                          *)
(***************************************************************************)
EXTENDS VarStore, TLAPS

LEMMA BlockFacts ==
    /\ 1 \in Block /\ Blocks \in Block
    /\ \A b \in Block : b \in Nat /\ (b # Blocks => b + 1 \in Block)
BY VarStoreAssumption DEF Block

LEMMA IdleType == Idle \in Runs
BY VarStoreAssumption, BlockFacts DEF Idle, Runs, Places, Callers

-----------------------------------------------------------------------------
(* What a step does to the record of a level. *)

Others(l) == \A k \in Levels : k # l => run'[k] = run[k]

\* The level goes on with its save.
Advances(l, at, block, ok) ==
    /\ run' \in [Levels -> Runs]
    /\ Others(l)
    /\ run'[l].at = at /\ run'[l].block = block /\ run'[l].ok = ok
    /\ run'[l].for = run[l].for /\ run'[l].file = run[l].file
    /\ run'[l].generation = run[l].generation

\* The level is no longer saving, or was not.
Leaves(l, at) ==
    /\ run' \in [Levels -> Runs]
    /\ Others(l)
    /\ run'[l].at = at

\* The level begins a save.
Begins(l, dev) ==
    /\ run' \in [Levels -> Runs]
    /\ Others(l)
    /\ run'[l].at = "open" /\ run'[l].file = dev /\ run'[l].block = 1
    /\ run'[l].generation = Generation /\ run'[l].ok = FALSE

LEMMA RunType ==
    ASSUME TypeOK, NEW l \in Levels
    PROVE  /\ run[l] \in Runs
           /\ run[l].at \in Places /\ run[l].for \in Callers
           /\ run[l].file \in Media \union {NoDevice}
           /\ run[l].block \in Block /\ run[l].generation \in 0 .. MaxGeneration
           /\ run[l].ok \in BOOLEAN
BY DEF TypeOK, Runs

LEMMA AdvanceStep ==
    ASSUME TypeOK, NEW l \in Levels, NEW at \in Places, NEW block \in Block,
           NEW ok \in BOOLEAN,
           run' = [run EXCEPT ![l] = [run[l] EXCEPT !.at = at, !.block = block, !.ok = ok]]
    PROVE  Advances(l, at, block, ok)
BY RunType DEF Advances, Others, TypeOK, Runs

LEMMA MovedStep ==
    ASSUME TypeOK, NEW l \in Levels, NEW at \in Places, run' = Moved(l, at)
    PROVE  Advances(l, at, run[l].block, run[l].ok)
BY RunType DEF Advances, Others, TypeOK, Runs, Moved

LEMMA NextBlockStep ==
    ASSUME TypeOK, NEW l \in Levels, NEW at \in Places, run' = NextBlock(l, at)
    PROVE  \/ run[l].block = Blocks /\ Advances(l, at, 1, run[l].ok)
           \/ /\ run[l].block # Blocks
              /\ Advances(l, run[l].at, run[l].block + 1, run[l].ok)
<1>1. CASE run[l].block = Blocks
  <2>1. run' = [run EXCEPT ![l].at = at, ![l].block = 1]
      BY <1>1 DEF NextBlock
  <2>2. 1 \in Block
      BY BlockFacts
  <2>3. run' = [run EXCEPT ![l] = [run[l] EXCEPT !.at = at, !.block = 1, !.ok = run[l].ok]]
      BY <2>1, RunType DEF TypeOK, Runs
  <2>4. run[l].ok \in BOOLEAN
      BY RunType
  <2>5. Advances(l, at, 1, run[l].ok)
      BY ONLY TypeOK, <2>2, <2>3, <2>4, AdvanceStep
  <2> QED
      BY <1>1, <2>5
<1>2. CASE run[l].block # Blocks
  <2>1. run' = [run EXCEPT ![l].block = run[l].block + 1]
      BY <1>2 DEF NextBlock
  <2>2. run[l].block + 1 \in Block
      BY <1>2, RunType, BlockFacts
  <2> QED
      BY <1>2, <2>1, <2>2, RunType DEF Advances, Others, TypeOK, Runs
<1> QED
    BY <1>1, <1>2

LEMMA PlacedStep ==
    ASSUME TypeOK, NEW l \in Levels, NEW at \in Places, NEW caller \in Callers,
           run' = Placed(l, at, caller)
    PROVE  Leaves(l, at)
<1>1. PICK r : r = [Idle EXCEPT !.at = at, !.for = caller]
    OBVIOUS
<1>2. r \in Runs /\ r.at = at
    BY <1>1, IdleType DEF Runs
<1>3. run' = [run EXCEPT ![l] = r]
    BY <1>1 DEF Placed
<1> QED
    BY <1>2, <1>3 DEF Leaves, Others, TypeOK

LEMMA BackStep ==
    ASSUME TypeOK, NEW l \in Levels, NEW caller \in Callers, run' = Back(l, caller)
    PROVE  Leaves(l, "returned")
BY PlacedStep DEF Back, Places

LEMMA EndedStep ==
    ASSUME TypeOK, NEW l \in Levels, run' = Ended(l)
    PROVE  Leaves(l, "idle")
BY IdleType DEF Leaves, Others, TypeOK, Ended, Idle

\* A caller of DumpVars starts.
Calls(l) ==
    /\ mSaving' = mSaving
    /\ (MaySave /\ Leaves(l, "dirty")) \/ Leaves(l, "returned")

LEMMA MovedLeaves ==
    ASSUME TypeOK, NEW l \in Levels, NEW at \in Places, run' = Moved(l, at)
    PROVE  Leaves(l, at)
BY MovedStep DEF Advances, Leaves

LEMMA DumpVarsStep ==
    ASSUME TypeOK, NEW l \in Levels, NEW caller \in Callers, DumpVars(l, caller)
    PROVE  Calls(l)
<1>1. CASE MaySave
    BY <1>1, PlacedStep DEF DumpVars, Calls, Places
<1>2. CASE ~MaySave
    BY <1>2, PlacedStep DEF DumpVars, Calls, Places
<1> QED
    BY <1>1, <1>2

-----------------------------------------------------------------------------
(* The steps of DumpVars before DoDump. *)

\* One of the tests behind the first.
Tests(l) ==
    /\ mSaving' = mSaving /\ disturbed' = disturbed
    /\ \/ run[l].at = "dirty" /\ Dirty /\ Leaves(l, "device")
       \/ run[l].at = "device" /\ Device # NoDevice /\ Leaves(l, "hold")
       \/ run[l].at \in {"dirty", "device"} /\ Leaves(l, "returned")

\* The level takes the file.
Holds(l) ==
    /\ run[l].at = "hold" /\ Leaves(l, "load") /\ mSaving' = TRUE
    /\ disturbed' = IF l = "callback" THEN Overtakes(l) ELSE disturbed

\* It loads what DoDump works with.
Loads(l) ==
    /\ run[l].at = "load" /\ Begins(l, Device)
    /\ mSaving' = mSaving /\ disturbed' = disturbed

LEMMA EnteringStep ==
    ASSUME TypeOK, NEW l \in Levels, Entering(l)
    PROVE  /\ Runnable(l)
           /\ UNCHANGED <<ram, Device, mSaveErrorShown, mBootServicesGone, disk,
                          attached, bds>>
           /\ Tests(l) \/ Holds(l) \/ Loads(l)
<1>1. CASE TestDirty(l)
    BY <1>1, MovedLeaves, BackStep, RunType
    DEF TestDirty, Test, NeedsSave, Tests, Places, flags
<1>2. CASE TestDevice(l)
    BY <1>2, MovedLeaves, BackStep, RunType DEF TestDevice, Test, Tests, Places, flags
<1>3. CASE HoldFile(l)
    BY <1>3, MovedLeaves DEF HoldFile, Holds, Places
<1>4. CASE LoadGeneration(l)
  <2>1. PICK r : r = [at |-> "open", for |-> run[l].for, file |-> Device, block |-> 1,
                      generation |-> Generation, ok |-> FALSE]
      OBVIOUS
  <2>2. r \in Runs
      BY <2>1, BlockFacts, RunType DEF Runs, Places, FileSteps, TypeOK
  <2>3. run' = [run EXCEPT ![l] = r] /\ run[l].at = "load"
      BY <1>4, <2>1 DEF LoadGeneration
  <2>4. Begins(l, Device)
      BY <2>1, <2>2, <2>3 DEF Begins, Others, TypeOK
  <2> QED
      BY <1>4, <2>3, <2>4 DEF LoadGeneration, Loads, flags
<1> QED
    BY <1>1, <1>2, <1>3, <1>4 DEF Entering

-----------------------------------------------------------------------------
(* The steps of DoDump, from outside: it goes on, it fails, it is done. *)

GoesOn(l) ==
    /\ mSaving' = mSaving
    /\ \E at \in FileSteps, block \in Block, ok \in BOOLEAN : Advances(l, at, block, ok)
Fails(l) ==
    /\ mSaving' = FALSE /\ Leaves(l, "failed")
Done(l) ==
    /\ mSaving' = FALSE /\ Advances(l, "compare", run[l].block, run[l].ok)

\* What is written to the file is the store's block, or what a failing medium
\* makes of it.
Written(l) ==
    \E v \in {store[run[l].block], Garbage} :
        disk' = [disk EXCEPT ![run[l].file][run[l].block] = v]

LEMMA FailsStep ==
    ASSUME TypeOK, NEW l \in Levels, SaveFails(l)
    PROVE  Fails(l)
BY RunType, PlacedStep DEF SaveFails, Fails, Places

LEMMA AtSteps ==
    /\ FileSteps \subseteq Places
    /\ "compare" \in Places /\ "commit" \in Places
BY DEF FileSteps, Places

LEMMA MovesOn ==
    ASSUME TypeOK, NEW l \in Levels, NEW at \in FileSteps, run[l].at \in FileSteps,
           mSaving' = mSaving,
           run' = Moved(l, at) \/ run' = NextBlock(l, at)
    PROVE  GoesOn(l)
<1>1. CASE run' = Moved(l, at)
    BY <1>1, MovedStep, RunType, AtSteps DEF GoesOn
<1>2. CASE run' = NextBlock(l, at)
  <2>1. CASE run[l].block = Blocks
      BY <1>2, <2>1, NextBlockStep, RunType, AtSteps, BlockFacts DEF GoesOn
  <2>2. CASE run[l].block # Blocks
    <3>1. run[l].block + 1 \in Block
        BY <2>2, RunType, BlockFacts
    <3> QED
        BY <1>2, <2>2, <3>1, NextBlockStep, RunType, AtSteps DEF GoesOn
  <2> QED
      BY <2>1, <2>2
<1> QED
    BY <1>1, <1>2

LEMMA DoDumpStep ==
    ASSUME TypeOK, NEW l \in Levels, DoDump(l)
    PROVE  /\ run[l].at \in FileSteps
           /\ UNCHANGED <<ram, Device, mSaveErrorShown, mBootServicesGone, attached, bds,
                          disturbed>>
           /\ GoesOn(l) \/ Fails(l) \/ Done(l)
           /\ disk' = disk \/ Written(l)
<1>1. CASE FileOpen(l)
  <2>1. CASE run' = Moved(l, "write") /\ UNCHANGED mSaving
      BY <1>1, <2>1, MovesOn DEF FileOpen, TypeOK, FileSteps
  <2>2. CASE SaveFails(l)
      BY <1>1, <2>2, FailsStep DEF FileOpen, FileSteps
  <2> QED
      BY <1>1, <2>1, <2>2 DEF FileOpen
<1>2. CASE FileWrite(l)
  <2>1. run' = NextBlock(l, "flush") \/ run' = Moved(l, "close")
      BY <1>2 DEF FileWrite
  <2>2. GoesOn(l)
      BY <1>2, <2>1, MovesOn DEF FileWrite, FileSteps, flags
  <2>3. disk' = disk \/ Written(l)
      BY <1>2 DEF FileWrite, Written
  <2> QED
      BY <1>2, <2>2, <2>3 DEF FileWrite, FileSteps, flags, TypeOK
<1>3. CASE FileFlush(l)
  <2>1. run' = Moved(l, "verify") \/ run' = Moved(l, "close")
      BY <1>3 DEF FileFlush
  <2>2. GoesOn(l)
      BY <1>3, <2>1, MovesOn DEF FileFlush, FileSteps, flags
  <2> QED
      BY <1>3, <2>2 DEF FileFlush, FileSteps, flags, TypeOK
<1>4. CASE FileVerify(l)
  <2>1. run[l].at = "verify" /\ UNCHANGED <<ram, Device, flags, disk, attached, bds, disturbed>>
      BY <1>4 DEF FileVerify
  <2>2. CASE run' = [run EXCEPT ![l].at = "close", ![l].ok = TRUE]
    <3>1. run' = [run EXCEPT ![l] = [run[l] EXCEPT !.at = "close", !.block = run[l].block,
                                                   !.ok = TRUE]]
        BY <2>2, RunType DEF TypeOK, Runs
    <3>2. Advances(l, "close", run[l].block, TRUE)
        BY <3>1, AdvanceStep, RunType, AtSteps DEF FileSteps
    <3>3. GoesOn(l)
        BY <2>1, <3>2, RunType DEF GoesOn, FileSteps, flags
    <3> QED
        BY <2>1, <3>3 DEF FileSteps, flags, TypeOK
  <2>3. CASE run' = NextBlock(l, "close") \/ run' = Moved(l, "close")
    <3>1. GoesOn(l)
        BY <2>1, <2>3, MovesOn DEF FileSteps, flags
    <3> QED
        BY <2>1, <3>1 DEF FileSteps, flags, TypeOK
  <2> QED
      BY <1>4, <2>2, <2>3 DEF FileVerify
<1>5. CASE FileClose(l)
  <2>1. /\ run[l].at = "close"
        /\ UNCHANGED <<ram, Device, mSaveErrorShown, mBootServicesGone, disk, attached, bds,
                       disturbed>>
      BY <1>5 DEF FileClose
  <2>2. CASE mSaving' = FALSE /\ run' = Moved(l, "compare")
      BY <2>1, <2>2, MovedStep, AtSteps DEF Done, FileSteps, TypeOK
  <2>3. CASE SaveFails(l)
      BY <2>1, <2>3, FailsStep DEF FileSteps
  <2> QED
      BY <1>5, <2>2, <2>3 DEF FileClose
<1> QED
    BY <1>1, <1>2, <1>3, <1>4, <1>5 DEF DoDump

-----------------------------------------------------------------------------
(* The callers, from outside. *)

LEMMA ResettingStep ==
    ASSUME TypeOK, NEW l \in Levels,
           run' = [run EXCEPT ![l] = [Idle EXCEPT !.at = "resetting"]]
    PROVE  Leaves(l, "resetting")
<1> DEFINE r == [Idle EXCEPT !.at = "resetting"]
<1>1. r \in Runs /\ r.at = "resetting"
    BY IdleType DEF Runs, Places
<1> QED
    BY <1>1 DEF Leaves, Others, TypeOK

LEMMA CallerReturnsStep ==
    ASSUME TypeOK, NEW l \in Levels, CallerReturns(l)
    PROVE  /\ run[l].at = "returned"
           /\ Leaves(l, "idle") \/ Leaves(l, "resetting")
           /\ mSaveErrorShown' \in BOOLEAN /\ readyToBoot' \in BOOLEAN
           /\ UNCHANGED <<ram, Device, mSaving, mBootServicesGone, disk, attached, console,
                          disturbed>>
<1>1. UNCHANGED <<ram, Device, mSaving, mBootServicesGone, disk, attached, console, disturbed>>
    BY DEF CallerReturns
<1>2. CASE TimerReturns(l)
    BY <1>1, <1>2, EndedStep DEF TimerReturns, TypeOK
<1>3. CASE ReadyToBootReturns(l)
    BY <1>1, <1>3, EndedStep DEF ReadyToBootReturns, ReportIfDirty, ReportSaveFailure, TypeOK
<1>4. CASE ResetReturns(l)
    BY <1>1, <1>4, ResettingStep DEF ResetReturns, ReportIfDirty, ReportSaveFailure, TypeOK
<1> QED
    BY <1>2, <1>3, <1>4 DEF CallerReturns

LEMMA StartStep ==
    ASSUME TypeOK, SaveTimerTicks \/ ReadyToBootHandler \/ DumpVarsOnReset
    PROVE  /\ CallbackFree
           /\ UNCHANGED <<ram, Device, mSaveErrorShown, mBootServicesGone, disk,
                          attached, bds, disturbed>>
           /\ \/ Calls("callback")
              \/ Calls("application") /\ run["application"].at = "idle"
<1>1. /\ CallbackFree
      /\ UNCHANGED <<ram, Device, mSaveErrorShown, mBootServicesGone, disk,
                     attached, bds, disturbed>>
    BY DEF SaveTimerTicks, ReadyToBootHandler, DumpVarsOnReset
<1>2. CASE SaveTimerTicks
    BY <1>1, <1>2, DumpVarsStep DEF SaveTimerTicks, Levels, Callers
<1>3. CASE ReadyToBootHandler
    BY <1>1, <1>3, DumpVarsStep DEF ReadyToBootHandler, Levels, Callers
<1>4. CASE DumpVarsOnReset
    BY <1>1, <1>4, DumpVarsStep DEF DumpVarsOnReset, Levels, Callers
<1> QED
    BY <1>2, <1>3, <1>4

LEMMA ReportedStep ==
    ASSUME TypeOK, NEW l \in Levels, SaveFailureReported(l)
    PROVE  /\ run[l].at = "failed" /\ Runnable(l) /\ Leaves(l, "returned")
           /\ mSaveErrorShown' \in BOOLEAN
           /\ UNCHANGED <<ram, Device, mSaving, mBootServicesGone, disk, attached, bds,
                          disturbed>>
BY BackStep, RunType DEF SaveFailureReported, ReportSaveFailure, TypeOK

LEMMA SucceedsStep ==
    ASSUME TypeOK, NEW l \in Levels, SaveSucceeds(l)
    PROVE  /\ run[l].at = "commit" /\ Runnable(l) /\ Leaves(l, "returned")
           /\ Dirty' = run[l].ok /\ mSaveErrorShown' = FALSE
           /\ UNCHANGED <<store, mBootVariableStore, Generation, Device, mSaving,
                          mBootServicesGone, disk, attached, bds, disturbed>>
BY BackStep, RunType DEF SaveSucceeds

LEMMA CompareStep ==
    ASSUME TypeOK, NEW l \in Levels, CompareGeneration(l)
    PROVE  /\ run[l].at = "compare" /\ Runnable(l)
           /\ Advances(l, "commit", run[l].block, run[l].generation # Generation)
           /\ UNCHANGED <<ram, Device, flags, disk, attached, bds, disturbed>>
<1>1. run' = [run EXCEPT ![l] = [run[l] EXCEPT !.at = "commit", !.block = run[l].block,
                                     !.ok = (run[l].generation # Generation)]]
    BY RunType DEF CompareGeneration, TypeOK, Runs
<1>2. Advances(l, "commit", run[l].block, run[l].generation # Generation)
    BY <1>1, AdvanceStep, RunType, AtSteps
<1> QED
    BY <1>2 DEF CompareGeneration

\* The notification looks at a handle: it takes the medium and calls DumpVars, or
\* goes on.
LEMMA TryHandleStep ==
    ASSUME TypeOK, TryHandle
    PROVE  /\ run["callback"].at = "discover"
           /\ announced' \subseteq announced
           /\ UNCHANGED <<ram, mSaveErrorShown, mBootServicesGone, disk, present,
                          working, bds, disturbed>>
           /\ \/ \E m \in Media : CheckStore(m) /\ Device' = m /\ Calls("callback")
              \/ UNCHANGED <<Device, mSaving, run>>
<1>1. PICK m \in announced :
        /\ announced' = announced \ {m}
        /\ \/ CheckStore(m) /\ Device' = m /\ DumpVars("callback", "discovery")
           \/ ~CheckStore(m) /\ UNCHANGED <<Device, mSaving, run>>
    BY DEF TryHandle
<1>2. m \in Media
    BY <1>1 DEF TypeOK
<1>3. DumpVars("callback", "discovery") => Calls("callback")
    BY DumpVarsStep DEF Levels, Callers
<1> QED
    BY <1>1, <1>2, <1>3 DEF TryHandle

LEMMA DiscoverStep ==
    ASSUME TypeOK, FileSystemInstalled \/ NoMoreHandles
    PROVE  /\ UNCHANGED <<ram, Device, flags, disk, attached, bds, disturbed>>
           /\ \/ CallbackFree /\ Leaves("callback", "discover")
              \/ run["callback"].at = "discover" /\ Leaves("callback", "idle")
<1>1. CASE FileSystemInstalled
  <2> DEFINE r == [run["callback"] EXCEPT !.at = "discover", !.for = "discovery"]
  <2>1. r \in Runs /\ r.at = "discover"
      BY RunType DEF Levels, Runs, Places, Callers
  <2>2. run' = [run EXCEPT !["callback"] = r]
      BY <1>1, RunType DEF FileSystemInstalled, TypeOK, Runs, Levels
  <2>3. Leaves("callback", "discover")
      BY <2>1, <2>2 DEF Leaves, Others, TypeOK, Levels
  <2> QED
      BY <1>1, <2>3 DEF FileSystemInstalled
<1>2. CASE NoMoreHandles
    BY <1>2, EndedStep DEF NoMoreHandles, Levels
<1> QED
    BY <1>1, <1>2

-----------------------------------------------------------------------------
(* Types *)

LEMMA InitType == Init => TypeOK
<1> SUFFICES ASSUME Init PROVE TypeOK
    OBVIOUS
<1>1. disk \in [Media -> Store]
    BY DEF Init, Store
<1>2. mBootVariableStore \in Store /\ store \in Store
    BY <1>1, VarStoreAssumption DEF Init
<1>3. /\ run \in [Levels -> Runs]
      /\ \A l \in Levels : run[l].at \notin FileSteps \union {"hold", "load"}
    BY IdleType DEF Init, Idle, FileSteps
<1>4. Generation \in 0 .. MaxGeneration /\ Device \in Media \union {NoDevice}
    BY VarStoreAssumption DEF Init
<1>5. /\ Dirty \in BOOLEAN /\ mSaving \in BOOLEAN /\ mSaveErrorShown \in BOOLEAN
      /\ mBootServicesGone \in BOOLEAN /\ readyToBoot \in BOOLEAN
      /\ console \in BOOLEAN /\ disturbed \in BOOLEAN
    BY DEF Init
<1>6. present \subseteq Media /\ announced \subseteq present /\ working \subseteq Media
    BY VarStoreAssumption DEF Init
<1> QED
    BY <1>1, <1>2, <1>3, <1>4, <1>5, <1>6 DEF TypeOK

RunTypeOK ==
    /\ run \in [Levels -> Runs]
    /\ \A l \in Levels : run[l].at \in FileSteps => run[l].file \in Media
    /\ \A l \in Levels : run[l].at \in {"hold", "load"} => Device # NoDevice

LEMMA RunTypes ==
    ASSUME TypeOK, NEW l \in Levels, Device' = Device \/ Device' # NoDevice,
           \/ \E at \in Places, block \in Block, ok \in BOOLEAN :
                Advances(l, at, block, ok) /\ run[l].at \in FileSteps \union {"compare"}
                /\ at \in FileSteps \union {"compare", "commit"}
                /\ (at \in FileSteps => run[l].at \in FileSteps)
           \/ \E at \in Places \ FileSteps :
                Leaves(l, at) /\ (at \in {"hold", "load"} => Device # NoDevice)
           \/ \E dev \in Media : Begins(l, dev)
    PROVE  RunTypeOK'
BY DEF TypeOK, RunTypeOK, Advances, Leaves, Begins, Others, FileSteps

LEMMA LeavesTypes ==
    ASSUME TypeOK, NEW l \in Levels, Device' = Device \/ Device' # NoDevice,
           NEW at \in Places \ FileSteps, Leaves(l, at),
           at \in {"hold", "load"} => Device # NoDevice
    PROVE  RunTypeOK'
BY RunTypes

LEMMA AdvancesTypes ==
    ASSUME TypeOK, NEW l \in Levels, Device' = Device, run[l].at = "compare",
           NEW block \in Block, NEW ok \in BOOLEAN, Advances(l, "commit", block, ok)
    PROVE  RunTypeOK'
BY DEF TypeOK, RunTypeOK, Advances, Others, FileSteps

LEMMA DoDumpTypes ==
    ASSUME TypeOK, NEW l \in Levels, DoDump(l)
    PROVE  TypeOK'
<1>1. RunTypeOK' /\ mSaving' \in BOOLEAN
  <2>1. CASE GoesOn(l)
      BY <2>1, DoDumpStep, RunTypes, AtSteps DEF GoesOn, TypeOK
  <2>2. CASE Fails(l)
      BY <2>2, DoDumpStep, LeavesTypes DEF Fails, Places, FileSteps
  <2>3. CASE Done(l)
      BY <2>3, DoDumpStep, RunTypes, RunType, AtSteps DEF Done, FileSteps
  <2> QED
      BY <2>1, <2>2, <2>3, DoDumpStep
<1>2. disk' \in [Media -> Store]
  <2>1. CASE disk' = disk
      BY <2>1 DEF TypeOK
  <2>2. CASE Written(l)
    <3>1. PICK v \in {store[run[l].block], Garbage} :
              disk' = [disk EXCEPT ![run[l].file][run[l].block] = v]
        BY <2>2 DEF Written
    <3>2. v \in Values \union {Default, Old, Garbage}
        BY <3>1, RunType DEF TypeOK, Store
    <3>3. run[l].file \in Media
        BY DoDumpStep DEF TypeOK
    <3>4. [disk[run[l].file] EXCEPT ![run[l].block] = v] \in Store
        BY <3>2, <3>3 DEF TypeOK, Store
    <3> QED
        BY <3>1, <3>3, <3>4 DEF TypeOK
  <2> QED
      BY <2>1, <2>2, DoDumpStep
<1> QED
    BY <1>1, <1>2, DoDumpStep DEF TypeOK, RunTypeOK, ram, attached, bds

LEMMA EnteringTypes ==
    ASSUME TypeOK, NEW l \in Levels, Entering(l)
    PROVE  TypeOK'
<1>1. /\ mSaving' \in BOOLEAN /\ disturbed' \in BOOLEAN
      /\ RunTypeOK'
  <2>1. CASE Tests(l)
      BY <2>1, EnteringStep, LeavesTypes DEF Tests, Places, FileSteps, TypeOK
  <2>2. CASE Holds(l)
    <3>1. RunTypeOK' /\ mSaving' = TRUE
        BY <2>2, EnteringStep, LeavesTypes DEF Holds, Places, FileSteps, TypeOK
    <3>2. disturbed' \in BOOLEAN
        BY <2>2, Zenon DEF Holds, Overtakes, TypeOK
    <3> QED
        BY <3>1, <3>2
  <2>3. CASE Loads(l)
    <3>1. Device \in Media
        BY <2>3 DEF Loads, TypeOK
    <3> QED
        BY <2>3, <3>1, EnteringStep, RunTypes DEF Loads, TypeOK
  <2> QED
      BY <2>1, <2>2, <2>3, EnteringStep
<1> QED
    BY <1>1, EnteringStep DEF TypeOK, RunTypeOK, ram, attached, bds

LEMMA TypeStep ==
    ASSUME TypeOK, [Next]_vars
    PROVE  TypeOK'
<1>1. CASE VarStoreWrite
  <2>1. PICK b \in Block, v \in Values : VarStoreChanged(b, v)
      BY <1>1 DEF VarStoreWrite
  <2>2. store' \in Store
      BY <2>1 DEF VarStoreChanged, TypeOK, Store
  <2>3. Generation' \in 0 .. MaxGeneration /\ Dirty' \in BOOLEAN
      BY <1>1, <2>1, VarStoreAssumption DEF VarStoreWrite, VarStoreChanged, TypeOK
  <2>4. disturbed' \in BOOLEAN
      BY <1>1, Zenon DEF VarStoreWrite, TypeOK
  <2> QED
      BY <1>1, <2>2, <2>3, <2>4 DEF VarStoreWrite, TypeOK, flags, attached, bds
<1>2. ASSUME NEW l \in Levels, DoDump(l) PROVE TypeOK'
    BY <1>2, DoDumpTypes
<1>3. ASSUME NEW l \in Levels, CompareGeneration(l) PROVE TypeOK'
  <2>1. RunTypeOK'
    <3>1. /\ Advances(l, "commit", run[l].block, run[l].generation # Generation)
          /\ run[l].at = "compare" /\ Device' = Device
        BY <1>3, CompareStep
    <3>2. run[l].block \in Block /\ "commit" \in Places \ FileSteps
        BY RunType, AtSteps DEF FileSteps
    <3>3. PICK ok \in BOOLEAN : ok = (run[l].generation # Generation)
        OBVIOUS
    <3>4. Advances(l, "commit", run[l].block, ok)
        BY <3>1, <3>3 DEF Advances
    <3> QED
        BY <3>1, <3>2, <3>4, AdvancesTypes
  <2> QED
      BY <1>3, <2>1, CompareStep DEF TypeOK, RunTypeOK, ram, flags, attached, bds
<1>4. ASSUME NEW l \in Levels, SaveSucceeds(l) PROVE TypeOK'
  <2>1. RunTypeOK'
      BY <1>4, SucceedsStep, LeavesTypes DEF Places, FileSteps
  <2> QED
      BY <1>4, <2>1, RunType, SucceedsStep DEF TypeOK, RunTypeOK, attached, bds
<1>5. ASSUME NEW l \in Levels, SaveFailureReported(l) PROVE TypeOK'
  <2>1. RunTypeOK'
      BY <1>5, ReportedStep, LeavesTypes DEF Places, FileSteps
  <2> QED
      BY <1>5, <2>1, ReportedStep DEF TypeOK, RunTypeOK, ram, attached, bds
<1>6. ASSUME NEW l \in Levels, Entering(l) PROVE TypeOK'
    BY <1>6, EnteringTypes
<1>7. ASSUME NEW l \in Levels, CallerReturns(l) PROVE TypeOK'
  <2>1. RunTypeOK'
      BY <1>7, CallerReturnsStep, LeavesTypes DEF Places, FileSteps
  <2> QED
      BY <1>7, <2>1, CallerReturnsStep DEF TypeOK, RunTypeOK, ram, attached
<1>8. ASSUME NEW l \in Levels, Calls(l), Device' = Device \/ Device' # NoDevice
      PROVE  RunTypeOK' /\ mSaving' \in BOOLEAN
    BY <1>8, LeavesTypes DEF Calls, Places, FileSteps, TypeOK
<1>9. CASE SaveTimerTicks \/ ReadyToBootHandler \/ DumpVarsOnReset
  <2>1. RunTypeOK' /\ mSaving' \in BOOLEAN
      BY <1>8, <1>9, StartStep DEF Levels
  <2> QED
      BY <1>9, <2>1, StartStep DEF TypeOK, RunTypeOK, ram, attached, bds
<1>10. CASE TryHandle
  <2>1. CASE UNCHANGED <<Device, mSaving, run>>
      BY <1>10, <2>1, TryHandleStep DEF TypeOK, ram, bds
  <2>2. ASSUME NEW m \in Media, Device' = m, Calls("callback") PROVE TypeOK'
    <3>1. RunTypeOK' /\ mSaving' \in BOOLEAN
        BY <1>8, <2>2, VarStoreAssumption DEF Levels
    <3> QED
        BY <1>10, <2>2, <3>1, TryHandleStep DEF TypeOK, RunTypeOK, ram, bds
  <2> QED
      BY <1>10, <2>1, <2>2, TryHandleStep
<1>11. CASE FileSystemInstalled \/ NoMoreHandles
  <2>1. RunTypeOK'
      BY <1>11, DiscoverStep, LeavesTypes DEF Places, FileSteps, Levels
  <2> QED
      BY <1>11, <2>1, DiscoverStep DEF TypeOK, RunTypeOK, ram, flags, attached, bds
<1>12. CASE StopFilePersistence
    BY <1>12 DEF StopFilePersistence, TypeOK, ram, attached, bds
<1>13. CASE MediaChange
  <2>1. /\ present' \subseteq Media /\ announced' \subseteq present'
        /\ working' \subseteq Media
      BY <1>13 DEF MediaChange, MediumAppears, MediumLeaves, MediumFails,
                  MediumRecovers, TypeOK
  <2> QED
      BY <1>13, <2>1 DEF MediaChange, TypeOK, ram, flags, bds
<1>14. CASE ConsoleInstalled
    BY <1>14 DEF ConsoleInstalled, TypeOK, ram, flags, attached
<1>15. CASE Restart
  <2>1. RunTypeOK'
      BY <1>15, IdleType DEF Restart, Started, RunTypeOK, Idle, FileSteps
  <2>2. store' \in Store /\ mBootVariableStore' \in Store /\ disk' = disk
      BY <1>15, VarStoreAssumption DEF Restart, Started, TypeOK
  <2>3. Generation' \in 0 .. MaxGeneration /\ Device' \in Media \union {NoDevice}
      BY <1>15, VarStoreAssumption DEF Restart, Started
  <2>4. /\ present' \subseteq Media /\ announced' \subseteq present'
        /\ working' \subseteq Media
      BY <1>15, VarStoreAssumption DEF Restart, Started
  <2> QED
      BY <1>15, <2>1, <2>2, <2>3, <2>4 DEF Restart, Started, TypeOK, RunTypeOK
<1>16. CASE UNCHANGED vars
    BY <1>16 DEF vars, ram, flags, attached, bds, TypeOK
<1> QED
    BY <1>1, <1>2, <1>3, <1>4, <1>5, <1>6, <1>7, <1>9, <1>10, <1>11, <1>12, <1>13, <1>14,
       <1>15, <1>16
    DEF Next, Saving, Discovery

-----------------------------------------------------------------------------
(* The file is in use exactly while mSaving is set, by one level. *)

InFile(l) == run[l].at \in FileSteps
InUse(l) == InFile(l) \/ run[l].at = "load"
Early(l) == run[l].at \in {"dirty", "device", "hold"}

\* Where the callback level may be while the application level has the file.
Aside == {"idle", "returned", "discover", "resetting"}

SaveInv ==
    /\ \A k, l \in Levels : InUse(k) /\ InUse(l) => k = l
    /\ mSaving <=> \E l \in Levels : InUse(l)
    /\ InUse("application") => run["callback"].at \in Aside
    /\ mBootServicesGone => \A l \in Levels : ~InUse(l) /\ ~Early(l)

LEMMA OthersKeep ==
    ASSUME NEW l \in Levels, Others(l)
    PROVE  \A k \in Levels : k # l =>
             /\ run'[k] = run[k]
             /\ InFile(k)' <=> InFile(k)
             /\ InUse(k)' <=> InUse(k)
             /\ Early(k)' <=> Early(k)
BY DEF Others, InFile, InUse, Early

\* A level that does not have the file, and does not get it.
LEMMA SaveApart ==
    ASSUME SaveInv, NEW l \in Levels, Others(l), ~InUse(l), ~InUse(l)', mSaving' = mSaving,
           mBootServicesGone' = mBootServicesGone,
           Early(l)' => ~mBootServicesGone,
           l = "callback" /\ InUse("application") => run'["callback"].at \in Aside
    PROVE  SaveInv'
<1>1. \A k \in Levels : InUse(k)' <=> InUse(k)
    BY OthersKeep
<1>2. InUse("application")' => run'["callback"].at \in Aside
    BY <1>1, OthersKeep DEF SaveInv, Levels
<1>3. mBootServicesGone' => \A k \in Levels : ~InUse(k)' /\ ~Early(k)'
    BY <1>1, OthersKeep DEF SaveInv
<1> QED
    BY <1>1, <1>2, <1>3 DEF SaveInv

LEMMA SaveGoes ==
    ASSUME SaveInv, NEW l \in Levels, Others(l), InUse(l), InUse(l)', ~Early(l)',
           mSaving' = mSaving, mBootServicesGone' = mBootServicesGone
    PROVE  SaveInv'
<1>1. \A k \in Levels : InUse(k)' <=> InUse(k)
    BY OthersKeep
<1>2. InUse("application")' => run'["callback"].at \in Aside
    BY <1>1, OthersKeep DEF SaveInv, Levels
<1>3. mBootServicesGone' => \A k \in Levels : ~InUse(k)' /\ ~Early(k)'
    BY <1>1, OthersKeep DEF SaveInv
<1> QED
    BY <1>1, <1>2, <1>3 DEF SaveInv

LEMMA SaveEnds ==
    ASSUME SaveInv, NEW l \in Levels, Others(l), InUse(l), ~InUse(l)', ~Early(l)',
           mSaving' = FALSE, mBootServicesGone' = mBootServicesGone
    PROVE  SaveInv'
<1>1. \A k \in Levels : ~InUse(k)'
    BY OthersKeep DEF SaveInv
<1>2. mBootServicesGone' => \A k \in Levels : ~Early(k)'
    BY OthersKeep DEF SaveInv
<1> QED
    BY <1>1, <1>2 DEF SaveInv, Levels

\* The file is free when a level takes it: a callback would be back before the
\* application level goes on, and has tested mSaving since that stands still.
LEMMA SaveBegins ==
    ASSUME SaveInv, NEW l \in Levels, Others(l), Runnable(l), run[l].at = "hold",
           run'[l].at = "load", mSaving' = TRUE, mBootServicesGone' = mBootServicesGone
    PROVE  SaveInv'
<1>1. Early(l) /\ ~InUse(l) /\ InUse(l)' /\ ~Early(l)'
    BY DEF Early, InUse, InFile, FileSteps
<1>2. \A k \in Levels : ~InUse(k)
    BY <1>1 DEF SaveInv, Runnable, Levels, InUse, InFile, FileSteps, Early, Aside
<1>3. \A k \in Levels : InUse(k)' <=> k = l
    BY <1>1, <1>2, OthersKeep
<1>4. l = "application" => run'["callback"].at \in Aside
    BY DEF Runnable, Others, Levels, Aside
<1>5. ~mBootServicesGone'
    BY <1>1 DEF SaveInv
<1> QED
    BY <1>3, <1>4, <1>5 DEF SaveInv, Levels

LEMMA SaveCalls ==
    ASSUME SaveInv, NEW l \in Levels, run[l].at \in {"idle", "discover"}, Calls(l),
           mBootServicesGone' = mBootServicesGone
    PROVE  SaveInv'
<1>1. Others(l) /\ ~InUse(l) /\ ~InUse(l)'
    BY DEF Calls, Leaves, InUse, InFile, FileSteps
<1>2. Early(l)' => ~mBootServicesGone /\ ~mSaving
    BY DEF Calls, Leaves, Early, MaySave
<1>3. ~Early(l)' => run'[l].at \in Aside
    BY DEF Calls, Leaves, Early, Aside
<1>4. mSaving' = mSaving
    BY DEF Calls
<1>5. l = "callback" /\ InUse("application") => run'["callback"].at \in Aside
    BY <1>2, <1>3 DEF SaveInv, Levels
<1> QED
    BY <1>1, <1>2, <1>4, <1>5, SaveApart

LEMMA SaveInit == Init => SaveInv
BY DEF Init, SaveInv, InUse, InFile, Early, Idle, FileSteps, Aside, Levels

LEMMA SaveStep ==
    ASSUME TypeOK, SaveInv, [Next]_vars
    PROVE  SaveInv'
<1>1. CASE UNCHANGED <<run, mSaving, mBootServicesGone>>
    BY <1>1 DEF SaveInv, InUse, InFile, Early
<1>2. CASE VarStoreWrite \/ MediaChange \/ ConsoleInstalled \/ UNCHANGED vars
    BY <1>1, <1>2 DEF VarStoreWrite, MediaChange, ConsoleInstalled, vars, flags
<1>3. ASSUME NEW l \in Levels, DoDump(l) PROVE SaveInv'
  <2>1. InUse(l) /\ mBootServicesGone' = mBootServicesGone
      BY <1>3, DoDumpStep DEF InUse, InFile
  <2>2. CASE GoesOn(l)
      BY <2>1, <2>2, SaveGoes DEF GoesOn, Advances, InUse, InFile, Early, FileSteps
  <2>3. CASE Fails(l)
      BY <2>1, <2>3, SaveEnds DEF Fails, Leaves, InUse, InFile, FileSteps, Early
  <2>4. CASE Done(l)
      BY <2>1, <2>4, SaveEnds DEF Done, Advances, InUse, InFile, FileSteps, Early
  <2> QED
      BY <1>3, <2>2, <2>3, <2>4, DoDumpStep
<1>4. ASSUME NEW l \in Levels, Entering(l) PROVE SaveInv'
  <2>1. mBootServicesGone' = mBootServicesGone /\ Runnable(l)
      BY <1>4, EnteringStep
  <2>2. CASE Tests(l)
    <3>1. /\ Others(l) /\ ~InUse(l) /\ ~InUse(l)' /\ Early(l) /\ mSaving' = mSaving
          /\ run[l].at \notin Aside
        BY <2>2 DEF Tests, Leaves, InUse, InFile, FileSteps, Early, Aside
    <3> QED
        BY <2>1, <3>1, SaveApart DEF SaveInv
  <2>3. CASE Holds(l)
      BY <2>1, <2>3, SaveBegins DEF Holds, Leaves
  <2>4. CASE Loads(l)
      BY <2>1, <2>4, SaveGoes DEF Loads, Begins, InUse, InFile, FileSteps, Early
  <2> QED
      BY <1>4, <2>2, <2>3, <2>4, EnteringStep
<1>5. ASSUME NEW l \in Levels, Others(l), ~InUse(l), ~InUse(l)', ~Early(l)',
             run[l].at \in Aside => run'[l].at \in Aside,
             UNCHANGED <<mSaving, mBootServicesGone>>
      PROVE  SaveInv'
    BY <1>5, SaveApart DEF SaveInv
<1>6. ASSUME NEW l \in Levels, CompareGeneration(l) PROVE SaveInv'
    BY <1>5, <1>6, CompareStep DEF Advances, InUse, InFile, FileSteps, Early, Aside, flags
<1>7. ASSUME NEW l \in Levels, SaveSucceeds(l) PROVE SaveInv'
    BY <1>5, <1>7, SucceedsStep DEF Leaves, InUse, InFile, FileSteps, Early, Aside
<1>8. ASSUME NEW l \in Levels, SaveFailureReported(l) PROVE SaveInv'
    BY <1>5, <1>8, ReportedStep DEF Leaves, InUse, InFile, FileSteps, Early, Aside
<1>9. ASSUME NEW l \in Levels, CallerReturns(l) PROVE SaveInv'
    BY <1>5, <1>9, CallerReturnsStep DEF Leaves, InUse, InFile, FileSteps, Early, Aside
<1>10. CASE SaveTimerTicks \/ ReadyToBootHandler \/ DumpVarsOnReset
    BY <1>10, StartStep, SaveCalls DEF CallbackFree, Levels
<1>11. CASE TryHandle
    BY <1>1, <1>11, TryHandleStep, SaveCalls DEF Levels
<1>12. CASE FileSystemInstalled \/ NoMoreHandles
  <2>1. /\ run["callback"].at \in {"idle", "discover"} /\ Others("callback")
        /\ run'["callback"].at \in {"idle", "discover"}
      BY <1>12, DiscoverStep DEF CallbackFree, Leaves
  <2> QED
      BY <1>5, <1>12, <2>1, DiscoverStep
      DEF Levels, flags, InUse, InFile, FileSteps, Early, Aside
<1>13. CASE StopFilePersistence
  <2>1. \A l \in Levels : ~InUse(l) /\ ~Early(l)
      BY <1>13
      DEF StopFilePersistence, CallbackFree, Levels, InUse, InFile, FileSteps, Early
  <2> QED
      BY <1>13, <2>1 DEF StopFilePersistence, SaveInv, InUse, InFile, Early, Levels
<1>14. CASE Restart
    BY <1>14
    DEF Restart, Started, SaveInv, InUse, InFile, Early, Idle, FileSteps, Aside, Levels
<1> QED
    BY <1>2, <1>3, <1>4, <1>6, <1>7, <1>8, <1>9, <1>10, <1>11, <1>12, <1>13, <1>14
    DEF Next, Saving, Discovery

-----------------------------------------------------------------------------
(* The boot medium can be told from the others: an old store elsewhere has a *)
(* block that nothing writes to RAM or to the boot medium.                   *)

NeverOld(s) == \A b \in Block : s[b] # Old

MediaInv ==
    /\ NeverOld(store) /\ NeverOld(mBootVariableStore) /\ NeverOld(disk[Boot])
    /\ \A m \in OtherStore : \A b \in Block : disk[m][b] = Old
    /\ Device \in {NoDevice, Boot}
    /\ \A l \in Levels : InFile(l) => run[l].file = Boot

\* A medium that passes CheckStore is the one the firmware was loaded from.
LEMMA OnlyBootPasses ==
    ASSUME MediaInv, NEW m \in Media, CheckStore(m)
    PROVE  m = Boot
<1> SUFFICES ASSUME m # Boot PROVE FALSE
    OBVIOUS
<1>1. m \in OtherStore
    BY VarStoreAssumption DEF CheckStore, FileVerifyFirmware
<1>2. disk[m][1] = Old /\ mBootVariableStore[1] # Old
    BY <1>1, BlockFacts DEF MediaInv, NeverOld
<1> QED
    BY <1>2 DEF CheckStore, VerifyBootVariableStore

\* A level that does not come to DoDump.
LEMMA MediaApart ==
    ASSUME MediaInv, NEW l \in Levels, Others(l), InFile(l)' => run'[l].file = Boot,
           Device' \in {NoDevice, Boot}, UNCHANGED <<store, mBootVariableStore, disk>>
    PROVE  MediaInv'
<1>1. \A k \in Levels : InFile(k)' => run'[k].file = Boot
    BY OthersKeep DEF MediaInv
<1> QED
    BY <1>1 DEF MediaInv, NeverOld

LEMMA MediaInit == Init => MediaInv
BY VarStoreAssumption DEF Init, MediaInv, NeverOld, InFile, Idle, FileSteps

\* Only the boot medium is written, and not with an old block.
LEMMA DiskStep ==
    ASSUME TypeOK, MediaInv, NEW l \in Levels, DoDump(l)
    PROVE  /\ \A m \in Media : m # Boot => disk'[m] = disk[m]
           /\ NeverOld(disk'[Boot])
<1>1. run[l].file = Boot /\ Boot \in Media
    BY DoDumpStep, VarStoreAssumption DEF MediaInv, InFile
<1>2. CASE disk' = disk
    BY <1>2 DEF MediaInv
<1>3. CASE Written(l)
  <2>1. PICK v \in {store[run[l].block], Garbage} :
            disk' = [disk EXCEPT ![Boot][run[l].block] = v]
      BY <1>1, <1>3 DEF Written
  <2>2. v # Old
      BY <2>1, RunType, VarStoreAssumption DEF MediaInv, NeverOld
  <2>3. disk'[Boot] = [disk[Boot] EXCEPT ![run[l].block] = v]
      BY <1>1, <2>1 DEF TypeOK
  <2>4. NeverOld(disk'[Boot])
      BY <1>1, <2>2, <2>3 DEF MediaInv, NeverOld, TypeOK, Store
  <2> QED
      BY <1>1, <2>1, <2>4 DEF TypeOK
<1> QED
    BY <1>2, <1>3, DoDumpStep

LEMMA MediaStep ==
    ASSUME TypeOK, MediaInv, [Next]_vars
    PROVE  MediaInv'
<1>1. CASE VarStoreWrite
  <2>1. PICK b \in Block, v \in Values : VarStoreChanged(b, v)
      BY <1>1 DEF VarStoreWrite
  <2>2. NeverOld(store')
      BY <2>1, VarStoreAssumption DEF VarStoreChanged, MediaInv, NeverOld, TypeOK, Store
  <2> QED
      BY <1>1, <2>2 DEF VarStoreWrite, MediaInv, NeverOld, InFile
<1>2. ASSUME NEW l \in Levels, DoDump(l) PROVE MediaInv'
  <2>1. \A k \in Levels : InFile(k)' => run'[k].file = Boot
    <3>1. InFile(l) /\ Others(l)
        BY <1>2, DoDumpStep DEF GoesOn, Fails, Done, Advances, Leaves, InFile
    <3>2. InFile(l)' => run'[l].file = run[l].file
        BY <1>2, DoDumpStep DEF GoesOn, Fails, Done, Advances, Leaves, InFile, FileSteps
    <3> QED
        BY <3>1, <3>2 DEF Others, MediaInv, InFile
  <2>2. \A m \in OtherStore : \A b \in Block : disk'[m][b] = Old
      BY <1>2, DiskStep, VarStoreAssumption DEF MediaInv
  <2> QED
      BY <1>2, <2>1, <2>2, DiskStep, DoDumpStep DEF MediaInv, ram, NeverOld
<1>3. ASSUME NEW l \in Levels, Others(l), ~InFile(l)',
             UNCHANGED <<store, mBootVariableStore, disk, Device>>
      PROVE  MediaInv'
    BY <1>3, MediaApart DEF MediaInv
<1>4. ASSUME NEW l \in Levels, CompareGeneration(l) PROVE MediaInv'
    BY <1>3, <1>4, CompareStep DEF Advances, InFile, FileSteps, ram
<1>5. ASSUME NEW l \in Levels, SaveSucceeds(l) PROVE MediaInv'
    BY <1>3, <1>5, SucceedsStep DEF Leaves, InFile, FileSteps
<1>6. ASSUME NEW l \in Levels, SaveFailureReported(l) PROVE MediaInv'
    BY <1>3, <1>6, ReportedStep DEF Leaves, InFile, FileSteps, ram
<1>7. ASSUME NEW l \in Levels, CallerReturns(l) PROVE MediaInv'
    BY <1>3, <1>7, CallerReturnsStep DEF Leaves, InFile, FileSteps, ram
<1>8. ASSUME NEW l \in Levels, Entering(l) PROVE MediaInv'
  <2>1. UNCHANGED <<store, mBootVariableStore, disk, Device>>
      BY <1>8, EnteringStep DEF ram
  <2>2. CASE Tests(l) \/ Holds(l)
      BY <1>3, <2>1, <2>2 DEF Tests, Holds, Leaves, InFile, FileSteps
  <2>3. CASE Loads(l)
    <3>1. Device = Boot
        BY <2>3 DEF Loads, MediaInv, TypeOK
    <3> QED
        BY <2>1, <2>3, <3>1, MediaApart DEF Loads, Begins, MediaInv
  <2> QED
      BY <1>8, <2>2, <2>3, EnteringStep
<1>9. CASE SaveTimerTicks \/ ReadyToBootHandler \/ DumpVarsOnReset
    BY <1>3, <1>9, StartStep DEF Calls, Leaves, InFile, FileSteps, Levels, ram
<1>10. CASE TryHandle
  <2>1. CASE UNCHANGED <<Device, mSaving, run>>
      BY <1>10, <2>1, TryHandleStep DEF ram, MediaInv, NeverOld, InFile
  <2>2. ASSUME NEW m \in Media, CheckStore(m), Device' = m, Calls("callback")
        PROVE  MediaInv'
    <3>1. m = Boot
        BY <2>2, OnlyBootPasses
    <3> QED
        BY <1>10, <2>2, <3>1, TryHandleStep, MediaApart
        DEF Calls, Leaves, InFile, FileSteps, Levels, ram
  <2> QED
      BY <1>10, <2>1, <2>2, TryHandleStep
<1>11. CASE FileSystemInstalled \/ NoMoreHandles
    BY <1>3, <1>11, DiscoverStep DEF Leaves, InFile, FileSteps, Levels, ram
<1>12. CASE StopFilePersistence \/ MediaChange \/ ConsoleInstalled \/ UNCHANGED vars
    BY <1>12
    DEF StopFilePersistence, MediaChange, ConsoleInstalled, vars, ram, MediaInv, NeverOld,
        InFile
<1>13. CASE Restart
    BY <1>13 DEF Restart, Started, MediaInv, NeverOld, InFile, Idle, FileSteps
<1> QED
    BY <1>1, <1>2, <1>4, <1>5, <1>6, <1>7, <1>8, <1>9, <1>10, <1>11, <1>12, <1>13
    DEF Next, Saving, Discovery

-----------------------------------------------------------------------------
(* The warning. *)

LEMMA WarnedStep ==
    ASSUME TypeOK, [Next]_vars, NEW l \in Levels, run[l].at = "returned",
           ~mBootServicesGone,
           run'[l].at = "resetting" \/ (readyToBoot /\ ~readyToBoot')
    PROVE  ~Dirty' \/ mSaveErrorShown' \/ ~console
<1>1. CASE VarStoreWrite \/ StopFilePersistence \/ MediaChange \/ ConsoleInstalled
           \/ UNCHANGED vars
    BY <1>1 DEF VarStoreWrite, StopFilePersistence, MediaChange, ConsoleInstalled, vars, bds
<1>2. ASSUME NEW k \in Levels, DoDump(k) PROVE FALSE
  <2>1. k # l /\ readyToBoot' = readyToBoot
      BY <1>2, DoDumpStep DEF FileSteps, bds
  <2> QED
      BY <1>2, <2>1, DoDumpStep DEF GoesOn, Fails, Done, Advances, Leaves, Others
<1>3. ASSUME NEW k \in Levels, Entering(k) PROVE FALSE
    BY <1>3, EnteringStep DEF Tests, Holds, Loads, Begins, Leaves, Others, bds
<1>4. ASSUME NEW k \in Levels, CompareGeneration(k) PROVE FALSE
    BY <1>4, CompareStep DEF Advances, Others, bds
<1>5. ASSUME NEW k \in Levels, SaveSucceeds(k) \/ SaveFailureReported(k) PROVE FALSE
    BY <1>5, SucceedsStep, ReportedStep DEF Leaves, Others, bds
<1>6. ASSUME NEW k \in Levels, CallerReturns(k)
      PROVE  ~Dirty' \/ mSaveErrorShown' \/ ~console
  <2>1. CASE TimerReturns(k)
      BY <1>6, <2>1, EndedStep DEF TimerReturns, Leaves, Others
  <2>2. CASE ReportIfDirty
      BY <1>6, <2>2 DEF CallerReturns, ram, ReportIfDirty, ReportSaveFailure
  <2> QED
      BY <1>6, <2>1, <2>2 DEF CallerReturns, ReadyToBootReturns, ResetReturns
<1>7. CASE SaveTimerTicks \/ ReadyToBootHandler \/ DumpVarsOnReset
    BY <1>7, StartStep DEF Calls, Leaves, Others, bds
<1>8. CASE TryHandle
    BY <1>8, TryHandleStep DEF Calls, Leaves, Others, bds
<1>9. CASE FileSystemInstalled \/ NoMoreHandles
    BY <1>9, DiscoverStep DEF Leaves, Others, bds
<1>10. CASE Restart
    BY <1>10 DEF Restart, Started, Idle
<1> QED
    BY <1>1, <1>2, <1>3, <1>4, <1>5, <1>6, <1>7, <1>8, <1>9, <1>10
    DEF Next, Saving, Discovery

\* Files change in DoDump alone.
LEMMA FilesStep ==
    ASSUME TypeOK, MediaInv, [Next]_vars, NEW m \in Media, disk'[m] # disk[m]
    PROVE  m = Boot
<1>1. \A l \in Levels : DoDump(l) => m = Boot
    BY DiskStep
<1>2. (\A l \in Levels : ~DoDump(l)) => disk' = disk
    BY DEF Next, vars, VarStoreWrite, Saving, Entering, TestDirty, TestDevice, Test, HoldFile,
           LoadGeneration, CompareGeneration, SaveSucceeds, SaveFailureReported,
           CallerReturns, SaveTimerTicks, ReadyToBootHandler, DumpVarsOnReset, Discovery,
           FileSystemInstalled, TryHandle, NoMoreHandles, StopFilePersistence,
           MediaChange, ConsoleInstalled, Restart
<1> QED
    BY <1>1, <1>2

-----------------------------------------------------------------------------
(* What a level that is saving knows about the file. *)

Tail == {"compare", "commit"}
Busy(l) == run[l].at \in {"device", "hold", "load"} \union FileSteps \union Tail

InBoot == disk[Boot] = store
Verified(block) == \A c \in Block : c < block => disk[Boot][c] = store[c]

\* The save of a callback that has overtaken the application level counts as a
\* disturbance.
NestInv ==
    /\ InUse("callback") \/ run["callback"].at \in Tail
    /\ run["application"].at \in {"device", "hold"} \union Tail
    => disturbed = TRUE

Knows(l) ==
    /\ Busy(l) => Dirty = TRUE \/ (l = "application" /\ disturbed = TRUE)
    /\ run[l].at \in FileSteps \union Tail => run[l].generation <= Generation
    /\ run[l].at \in {"open", "write", "flush", "verify"} => run[l].ok = FALSE
    /\ run[l].at = "flush" => run[l].block = 1
    /\ run[l].generation = Generation =>
         /\ run[l].at = "verify" => Verified(run[l].block)
         /\ run[l].at = "close" /\ run[l].ok => InBoot
         /\ run[l].at = "compare" => InBoot \/ disturbed = TRUE
    /\ run[l].at = "commit" /\ ~run[l].ok => InBoot \/ disturbed = TRUE

CleanInv ==
    /\ ~Dirty /\ ~disturbed => InBoot
    /\ NestInv
    /\ \A l \in Levels : Knows(l)

LEMMA KnowsNothing ==
    ASSUME NEW l \in Levels, ~Busy(l)
    PROVE  Knows(l)
BY DEF Knows, Busy, FileSteps, Tail

LEMMA CleanInit == Init => CleanInv
<1> SUFFICES ASSUME Init PROVE CleanInv
    OBVIOUS
<1>1. \A l \in Levels : ~Busy(l)
    BY DEF Init, Busy, Idle, FileSteps, Tail
<1>2. NestInv
    BY DEF Init, NestInv, Idle, InUse, InFile, FileSteps, Tail, Levels
<1> QED
    BY <1>1, <1>2, KnowsNothing DEF Init, CleanInv, InBoot

\* The application level moves only when no callback runs, and a callback comes to
\* the file only by HoldFile.
LEMMA NestKept ==
    ASSUME NestInv, NEW l \in Levels, Others(l), disturbed' = disturbed,
           l = "application" => CallbackFree,
           l = "callback" /\ (InUse(l)' \/ run'[l].at \in Tail)
             => InUse(l) \/ run[l].at \in Tail
    PROVE  NestInv'
<1>1. CASE l = "application"
    BY <1>1 DEF CallbackFree, Others, NestInv, InUse, InFile, FileSteps, Tail, Levels
<1>2. CASE l = "callback"
    BY <1>2 DEF Others, NestInv, Levels
<1> QED
    BY <1>1, <1>2 DEF Levels

\* A level takes a step that changes nothing of the store and its file: it is left
\* to show what the level knows then.
LEMMA CleanQuiet ==
    ASSUME CleanInv, NEW l \in Levels, Others(l), Knows(l)',
           l = "application" => CallbackFree,
           l = "callback" /\ (InUse(l)' \/ run'[l].at \in Tail)
             => InUse(l) \/ run[l].at \in Tail,
           UNCHANGED <<store, Dirty, Generation, disk, disturbed>>
    PROVE  CleanInv'
<1>1. NestInv'
    BY NestKept DEF CleanInv
<1>2. \A k \in Levels : k # l => Knows(k)'
    BY DEF Others, CleanInv, Knows, Busy, Verified, InBoot
<1> QED
    BY <1>1, <1>2 DEF CleanInv, InBoot

\* While a level has the file, or had it, the other one knows nothing that the step
\* of this one could refute.
LEMMA OtherKnows ==
    ASSUME SaveInv, CleanInv, NEW l \in Levels, Runnable(l), Others(l),
           InUse(l) \/ run[l].at \in Tail,
           UNCHANGED <<Generation, disturbed>>,
           NEW k \in Levels, k # l
    PROVE  Knows(k)'
<1>1. CASE l = "application"
  <2>1. k = "callback" /\ run'[k].at = "idle"
      BY <1>1 DEF Runnable, Others, Levels
  <2> QED
      BY <2>1 DEF Knows, Busy, FileSteps, Tail
<1>2. CASE l = "callback"
  <2>1. k = "application" /\ run'[k] = run[k]
      BY <1>2 DEF Others, Levels
  <2>2. ~InUse(k)
      BY <1>2, <2>1 DEF SaveInv, Levels, InUse, InFile, FileSteps, Tail, Aside
  <2>3. CASE ~Busy(k)
      BY <2>1, <2>3 DEF Knows, Busy, FileSteps, Tail
  <2>4. CASE Busy(k)
    <3>1. run[k].at \in {"device", "hold"} \union Tail
        BY <2>2, <2>4 DEF Busy, InUse, InFile
    <3>2. disturbed = TRUE
        BY <1>2, <2>1, <3>1 DEF CleanInv, NestInv
    <3> QED
        BY <2>1, <3>1, <3>2 DEF CleanInv, Knows, Busy, FileSteps, Tail
  <2> QED
      BY <2>3, <2>4
<1> QED
    BY <1>1, <1>2 DEF Levels

\* DoDump takes a step: it is left to show what its level knows then.
LEMMA CleanSaving ==
    ASSUME TypeOK, SaveInv, CleanInv, NEW l \in Levels, DoDump(l), Knows(l)'
    PROVE  CleanInv'
<1>1. /\ Runnable(l) /\ Others(l) /\ InUse(l) /\ Busy(l)
      /\ UNCHANGED <<Dirty, Generation, disturbed>>
  <2>1. Runnable(l)
      BY DEF DoDump, FileOpen, FileWrite, FileFlush, FileVerify, FileClose
  <2> QED
      BY <2>1, DoDumpStep
      DEF GoesOn, Fails, Done, Advances, Leaves, InUse, InFile, Busy, ram
<1>2. \A k \in Levels : k # l => Knows(k)'
    BY <1>1, OtherKnows
<1>3. Dirty = TRUE \/ disturbed = TRUE
    BY <1>1 DEF CleanInv, Knows
<1>4. NestInv'
    BY <1>1, NestKept DEF CleanInv, Runnable, CallbackFree
<1> QED
    BY <1>1, <1>2, <1>3, <1>4 DEF CleanInv

LEMMA CleanDoDump ==
    ASSUME TypeOK, SaveInv, MediaInv, CleanInv, NEW l \in Levels, DoDump(l)
    PROVE  CleanInv'
<1>1. /\ UNCHANGED <<store, Dirty, Generation, disturbed>>
      /\ run[l].file = Boot /\ run[l].at \in FileSteps
    BY DoDumpStep DEF ram, MediaInv, InFile
<1>2. /\ Dirty = TRUE \/ (l = "application" /\ disturbed = TRUE)
      /\ run[l].generation <= Generation
      /\ Knows(l)
    BY <1>1 DEF CleanInv, Knows, Busy
<1>3. SaveFails(l) => Knows(l)'
    BY FailsStep DEF Fails, Leaves, Knows, Busy, FileSteps, Tail
<1>4. CASE FileOpen(l)
  <2>1. ASSUME run' = Moved(l, "write") PROVE Knows(l)'
    <3>1. Advances(l, "write", run[l].block, run[l].ok) /\ run[l].at = "open"
        BY <1>4, <2>1, MovedStep, AtSteps DEF FileOpen, FileSteps
    <3> QED
        BY <1>1, <1>2, <3>1 DEF Advances, Knows, Busy
  <2> QED
      BY <1>1, <1>3, <1>4, <2>1, CleanSaving DEF FileOpen, DoDump
<1>5. CASE FileWrite(l)
  <2>1. run' = NextBlock(l, "flush") \/ run' = Moved(l, "close")
      BY <1>5 DEF FileWrite
  <2>2. run[l].at = "write" /\ run[l].ok = FALSE
      BY <1>2, <1>5 DEF FileWrite, Knows
  <2>3. \/ Advances(l, "flush", 1, FALSE)
        \/ Advances(l, "write", run[l].block + 1, FALSE)
        \/ Advances(l, "close", run[l].block, FALSE)
      BY <2>1, <2>2, NextBlockStep, MovedStep, AtSteps DEF FileSteps
  <2>4. Knows(l)'
      BY <1>1, <1>2, <2>3 DEF Advances, Knows, Busy
  <2> QED
      BY <1>1, <1>5, <2>4, CleanSaving
<1>6. CASE FileFlush(l)
  <2>1. run' = Moved(l, "verify") \/ run' = Moved(l, "close")
      BY <1>6 DEF FileFlush
  <2>2. run[l].at = "flush" /\ run[l].ok = FALSE /\ run[l].block = 1
      BY <1>2, <1>6 DEF FileFlush, Knows
  <2>3. Advances(l, "verify", 1, FALSE) \/ Advances(l, "close", 1, FALSE)
      BY <2>1, <2>2, MovedStep, AtSteps DEF FileSteps
  <2>4. Verified(1)'
      BY BlockFacts DEF Verified, Block
  <2>5. Knows(l)'
      BY <1>1, <1>2, <2>3, <2>4 DEF Advances, Knows, Busy
  <2> QED
      BY <1>1, <1>6, <2>5, CleanSaving
<1>7. CASE FileVerify(l)
  <2>1. /\ run[l].at = "verify" /\ run[l].ok = FALSE /\ disk' = disk
        /\ run[l].block \in Block
      BY <1>2, <1>7, RunType DEF FileVerify, Knows
  <2>2. ASSUME run' = Moved(l, "close") PROVE Knows(l)'
    <3>1. Advances(l, "close", run[l].block, FALSE)
        BY <2>1, <2>2, MovedStep, AtSteps DEF FileSteps
    <3> QED
        BY <1>1, <1>2, <3>1 DEF Advances, Knows, Busy
  <2>3. ASSUME disk[Boot][run[l].block] = store[run[l].block],
               run' = IF run[l].block = Blocks
                      THEN [run EXCEPT ![l].at = "close", ![l].ok = TRUE]
                      ELSE NextBlock(l, "close")
        PROVE  Knows(l)'
    <3>1. CASE run[l].block = Blocks
      <4>1. run' = [run EXCEPT ![l] = [run[l] EXCEPT !.at = "close", !.block = Blocks,
                                                     !.ok = TRUE]]
          BY <2>3, <3>1, RunType DEF TypeOK, Runs
      <4>2. Advances(l, "close", Blocks, TRUE)
          BY <4>1, AdvanceStep, BlockFacts, AtSteps DEF FileSteps
      <4>3. run[l].generation = Generation => \A c \in Block : disk[Boot][c] = store[c]
          BY <1>2, <2>1, <2>3, <3>1, VarStoreAssumption DEF Knows, Verified, Block
      <4>4. run[l].generation = Generation => InBoot
          BY <4>3, VarStoreAssumption DEF InBoot, TypeOK, Store
      <4> QED
          BY <1>1, <1>2, <2>1, <4>2, <4>4 DEF Advances, Knows, Busy, InBoot
    <3>2. CASE run[l].block # Blocks
      <4>1. Advances(l, "verify", run[l].block + 1, FALSE)
          BY <2>1, <2>3, <3>2, NextBlockStep, AtSteps DEF FileSteps
      <4>2. run[l].generation = Generation => Verified(run[l].block + 1)
          BY <1>2, <2>1, <2>3, VarStoreAssumption DEF Knows, Verified, Block
      <4>3. run[l].generation = Generation =>
              \A c \in Block : c < run[l].block + 1 => disk'[Boot][c] = store'[c]
          BY <1>1, <2>1, <4>2 DEF Verified
      <4> QED
          BY <1>1, <1>2, <2>1, <4>1, <4>3 DEF Advances, Knows, Busy, Verified
    <3> QED
        BY <3>1, <3>2
  <2>4. Knows(l)'
      BY <1>1, <1>7, <2>2, <2>3 DEF FileVerify
  <2> QED
      BY <1>1, <1>7, <2>4, CleanSaving
<1>8. CASE FileClose(l)
  <2>1. disk' = disk /\ run[l].at = "close"
      BY <1>8 DEF FileClose
  <2>2. ASSUME run[l].ok, run' = Moved(l, "compare") PROVE Knows(l)'
    <3>1. Advances(l, "compare", run[l].block, run[l].ok)
        BY <2>2, MovedStep, AtSteps
    <3> QED
        BY <1>1, <1>2, <2>1, <2>2, <3>1 DEF Advances, Knows, Busy, InBoot
  <2>3. Knows(l)'
      BY <1>3, <1>8, <2>2 DEF FileClose
  <2> QED
      BY <1>1, <1>8, <2>3, CleanSaving
<1> QED
    BY <1>4, <1>5, <1>6, <1>7, <1>8 DEF DoDump

\* The steps of DumpVars before DoDump.
LEMMA CleanEntering ==
    ASSUME TypeOK, SaveInv, CleanInv, NEW l \in Levels, Entering(l)
    PROVE  CleanInv'
<1>1. /\ Runnable(l) /\ Knows(l)
      /\ UNCHANGED <<store, Dirty, Generation, disk>>
    BY EnteringStep DEF ram, CleanInv
<1>2. CASE Tests(l)
  <2>1. Others(l) /\ disturbed' = disturbed
      BY <1>2 DEF Tests, Leaves
  <2>2. ~InUse(l)' /\ run'[l].at \notin Tail
      BY <1>2 DEF Tests, Leaves, InUse, InFile, FileSteps, Tail
  <2>3. Busy(l)' => Dirty = TRUE \/ (l = "application" /\ disturbed = TRUE)
      BY <1>1, <1>2 DEF Tests, Leaves, Knows, Busy, FileSteps, Tail, TypeOK
  <2>4. Knows(l)'
      BY <1>1, <2>1, <2>2, <2>3 DEF Knows, InUse, InFile, FileSteps, Tail
  <2> QED
      BY <1>1, <2>1, <2>2, <2>4, CleanQuiet DEF Runnable, CallbackFree
<1>3. CASE Holds(l)
  <2>1. Others(l) /\ run[l].at = "hold" /\ run'[l].at = "load"
      BY <1>3 DEF Holds, Leaves
  <2>2. Dirty = TRUE \/ (l = "application" /\ disturbed = TRUE)
      BY <1>1, <2>1 DEF Knows, Busy
  <2>3. CASE l = "application"
    <3>1. disturbed' = disturbed
        BY <1>3, <2>3 DEF Holds
    <3>2. Knows(l)'
        BY <1>1, <2>1, <2>2, <3>1 DEF Knows, Busy, FileSteps, Tail
    <3> QED
        BY <1>1, <2>1, <2>3, <3>1, <3>2, CleanQuiet DEF Runnable, CallbackFree
  <2>4. CASE l = "callback"
    <3>1. Dirty' = TRUE
        BY <1>1, <2>2, <2>4
    <3>2. run["application"].at \in {"device", "hold"} \union Tail => disturbed' = TRUE
        BY <1>3, <2>4 DEF Holds, Overtakes, Tail
    <3>3. ~InUse("application")
        BY <2>1, <2>4 DEF SaveInv, Aside
    <3>4. run'["application"] = run["application"]
        BY <2>1, <2>4 DEF Others, Levels
    <3>5. NestInv'
        BY <3>2, <3>4 DEF NestInv
    <3>6. Knows("callback")'
        BY <2>1, <2>4, <3>1 DEF Knows, FileSteps, Tail
    <3>7. Knows("application")'
        BY <1>1, <3>1, <3>2, <3>3, <3>4
        DEF CleanInv, Knows, Levels, InUse, InFile, FileSteps, Tail
    <3> QED
        BY <3>1, <3>5, <3>6, <3>7 DEF CleanInv, Levels
  <2> QED
      BY <2>3, <2>4 DEF Levels
<1>4. CASE Loads(l)
  <2>1. /\ Others(l) /\ disturbed' = disturbed /\ run[l].at = "load"
        /\ run'[l].at = "open" /\ run'[l].ok = FALSE /\ run'[l].generation = Generation
      BY <1>4 DEF Loads, Begins
  <2>2. Generation <= Generation
      BY DEF TypeOK
  <2>3. Knows(l)'
      BY <1>1, <2>1, <2>2 DEF Knows, Busy, FileSteps, Tail
  <2> QED
      BY <1>1, <2>1, <2>3, CleanQuiet DEF Runnable, CallbackFree, InUse
<1> QED
    BY <1>2, <1>3, <1>4, EnteringStep

LEMMA CleanSucceeds ==
    ASSUME TypeOK, SaveInv, CleanInv, NEW l \in Levels, SaveSucceeds(l)
    PROVE  CleanInv'
<1>1. /\ run[l].at = "commit" /\ Runnable(l) /\ Others(l) /\ run'[l].at = "returned"
      /\ Dirty' = run[l].ok
      /\ UNCHANGED <<store, Generation, disk, disturbed>>
    BY SucceedsStep DEF Leaves
<1>2. run[l].ok \in BOOLEAN /\ disturbed \in BOOLEAN
    BY RunType DEF TypeOK
<1>3. ~Dirty' /\ ~disturbed' => InBoot'
    BY <1>1, <1>2 DEF CleanInv, Knows, InBoot
<1>4. \A k \in Levels : k # l => Knows(k)'
    BY <1>1, OtherKnows DEF Tail
<1>5. Knows(l)'
    BY <1>1 DEF Knows, Busy, FileSteps, Tail
<1>6. NestInv'
    BY <1>1, NestKept DEF CleanInv, Runnable, CallbackFree, Tail
<1> QED
    BY <1>3, <1>4, <1>5, <1>6 DEF CleanInv

LEMMA CleanStep ==
    ASSUME TypeOK, SaveInv, MediaInv, CleanInv, [Next]_vars
    PROVE  CleanInv'
<1>1. CASE VarStoreWrite
  <2>1. /\ Dirty' = TRUE /\ Generation' = Generation + 1
        /\ run' = run /\ disk' = disk
      BY <1>1 DEF VarStoreWrite, VarStoreChanged
  <2>2. disturbed = TRUE => disturbed' = TRUE
      BY <1>1, Zenon DEF VarStoreWrite
  <2>3. \A l \in Levels : run[l].at = "commit" => disturbed' = TRUE
      BY <1>1, Zenon DEF VarStoreWrite
  <2>4. \A l \in Levels : run[l].generation \in Nat /\ Generation \in Nat
      BY RunType DEF TypeOK
  <2>5. \A l \in Levels : Knows(l)'
      BY <2>1, <2>3, <2>4 DEF CleanInv, Knows, FileSteps, Tail
  <2>6. NestInv'
      BY <2>1, <2>2 DEF CleanInv, NestInv, InUse, InFile
  <2> QED
      BY <2>1, <2>5, <2>6 DEF CleanInv
<1>2. ASSUME NEW l \in Levels, DoDump(l) PROVE CleanInv'
    BY <1>2, CleanDoDump
<1>3. ASSUME NEW l \in Levels, CompareGeneration(l) PROVE CleanInv'
  <2>1. /\ Advances(l, "commit", run[l].block, run[l].generation # Generation)
        /\ run[l].at = "compare" /\ Runnable(l)
        /\ UNCHANGED <<store, Dirty, Generation, disk, disturbed>> /\ Knows(l)
      BY <1>3, CompareStep DEF ram, CleanInv
  <2>2. Knows(l)'
      BY <2>1 DEF Advances, Knows, Busy, Tail, InBoot
  <2> QED
      BY <2>1, <2>2, CleanQuiet DEF Advances, Runnable, CallbackFree, Tail
<1>4. ASSUME NEW l \in Levels, SaveSucceeds(l) PROVE CleanInv'
    BY <1>4, CleanSucceeds
<1>5. ASSUME NEW l \in Levels, Entering(l) PROVE CleanInv'
    BY <1>5, CleanEntering
<1>6. ASSUME NEW l \in Levels, NEW at \in Aside \union {"dirty"}, Leaves(l, at),
             l = "application" => CallbackFree,
             UNCHANGED <<store, Dirty, Generation, disk, disturbed>>
      PROVE  CleanInv'
  <2>1. Others(l) /\ ~Busy(l)' /\ ~InUse(l)' /\ run'[l].at \notin Tail
      BY <1>6 DEF Leaves, Busy, InUse, InFile, FileSteps, Tail, Aside
  <2>2. Knows(l)'
      BY <2>1 DEF Knows, Busy, FileSteps, Tail
  <2> QED
      BY <1>6, <2>1, <2>2, CleanQuiet
<1>7. ASSUME NEW l \in Levels, CallerReturns(l) PROVE CleanInv'
  <2>1. l = "application" => CallbackFree
      BY <1>7 DEF CallerReturns, Runnable, CallbackFree
  <2> QED
      BY <1>6, <1>7, <2>1, CallerReturnsStep DEF ram, Aside
<1>8. ASSUME NEW l \in Levels, SaveFailureReported(l) PROVE CleanInv'
  <2>1. l = "application" => CallbackFree
      BY <1>8, ReportedStep DEF Runnable, CallbackFree
  <2> QED
      BY <1>6, <1>8, <2>1, ReportedStep DEF ram, Aside
<1>9. ASSUME NEW l \in Levels, Calls(l), l = "application" => CallbackFree,
             UNCHANGED <<ram, disk, disturbed>>
      PROVE  CleanInv'
    BY <1>6, <1>9 DEF Calls, ram, Aside
<1>10. CASE SaveTimerTicks \/ ReadyToBootHandler \/ DumpVarsOnReset
    BY <1>9, <1>10, StartStep DEF Levels
<1>11. CASE UNCHANGED <<run, store, Dirty, Generation, disk, disturbed>>
    BY <1>11
    DEF CleanInv, NestInv, InUse, InFile, InBoot, Knows, Busy, Verified
<1>12. CASE TryHandle
    BY <1>9, <1>11, <1>12, TryHandleStep DEF Levels, ram
<1>13. CASE FileSystemInstalled \/ NoMoreHandles
    BY <1>6, <1>13, DiscoverStep DEF Levels, ram, Aside
<1>14. CASE StopFilePersistence \/ MediaChange \/ ConsoleInstalled \/ UNCHANGED vars
    BY <1>11, <1>14 DEF StopFilePersistence, MediaChange, ConsoleInstalled, vars, ram
<1>15. CASE Restart
  <2>1. \A l \in Levels : ~Busy(l)'
      BY <1>15 DEF Restart, Started, Busy, Idle, FileSteps, Tail
  <2>2. \A l \in Levels : Knows(l)'
      BY <2>1 DEF Knows, Busy, FileSteps, Tail
  <2>3. NestInv'
      BY <1>15 DEF Restart, Started, NestInv, Idle, InUse, InFile, FileSteps, Tail, Levels
  <2> QED
      BY <1>15, <2>2, <2>3 DEF Restart, Started, CleanInv, InBoot
<1> QED
    BY <1>1, <1>2, <1>3, <1>4, <1>5, <1>7, <1>8, <1>10, <1>12, <1>13, <1>14, <1>15
    DEF Next, Saving, Discovery

-----------------------------------------------------------------------------
(* The driver implements SavedStore. *)

Kept == UNCHANGED <<store, disk>> /\ (~Dirty' /\ ~disturbed') = (~Dirty /\ ~disturbed)

LEMMA KeptStutters == Kept => UNCHANGED Persistence!vars
BY DEF Kept, Persistence!vars

\* The file system reads and writes blocks of a store that is dirty, or was when
\* the save began.
LEMMA DoDumpSaves ==
    ASSUME TypeOK, MediaInv, CleanInv, NEW l \in Levels, DoDump(l)
    PROVE  Persistence!SaveBlock \/ Kept
<1>1. /\ run[l].file = Boot /\ Boot \in Media /\ run[l].block \in Block
      /\ UNCHANGED <<store, Dirty, disturbed>>
    BY DoDumpStep, RunType, VarStoreAssumption DEF ram, MediaInv, InFile
<1>2. Dirty = TRUE \/ disturbed = TRUE
    BY DoDumpStep DEF CleanInv, Knows, Busy
<1>3. CASE disk' = disk
    BY <1>1, <1>3 DEF Kept
<1>4. CASE Written(l)
  <2>1. PICK v \in {store[run[l].block], Garbage} :
            disk' = [disk EXCEPT ![Boot][run[l].block] = v]
      BY <1>1, <1>4 DEF Written
  <2>2. disk'[Boot] = [disk[Boot] EXCEPT ![run[l].block] = v]
      BY <1>1, <2>1 DEF TypeOK
  <2>3. (~Dirty /\ ~disturbed) = FALSE /\ (~Dirty' /\ ~disturbed') = (~Dirty /\ ~disturbed)
      BY <1>1, <1>2
  <2> QED
      BY <1>1, <2>1, <2>2, <2>3 DEF Persistence!SaveBlock
<1> QED
    BY <1>3, <1>4, DoDumpStep

LEMMA SavedStoreStep ==
    ASSUME TypeOK, MediaInv, CleanInv, [Next]_vars
    PROVE  Persistence!Next \/ Kept
<1>1. CASE VarStoreWrite
  <2>1. PICK b \in Block, v \in Values : VarStoreChanged(b, v)
      BY <1>1 DEF VarStoreWrite
  <2>2. disk' = disk /\ (~Dirty' /\ ~disturbed') = FALSE
      BY <1>1, <2>1 DEF VarStoreWrite, VarStoreChanged
  <2>3. Persistence!Change
      BY <2>1, <2>2 DEF VarStoreChanged, Persistence!Change
  <2> QED
      BY <2>3 DEF Persistence!Next
<1>2. ASSUME NEW l \in Levels, DoDump(l) PROVE Persistence!Next \/ Kept
    BY <1>2, DoDumpSaves DEF Persistence!Next
<1>3. ASSUME NEW l \in Levels, CompareGeneration(l) PROVE Kept
    BY <1>3 DEF CompareGeneration, ram, Kept
<1>4. ASSUME NEW l \in Levels, SaveSucceeds(l) PROVE Persistence!Next \/ Kept
  <2>1. /\ UNCHANGED <<store, disk, disturbed>> /\ Dirty' = run[l].ok
        /\ run[l].at = "commit" /\ run[l].ok \in BOOLEAN /\ disturbed \in BOOLEAN
        /\ Dirty = TRUE \/ disturbed = TRUE
      BY <1>4, SucceedsStep, RunType DEF TypeOK, CleanInv, Knows, Busy, Tail
  <2>2. CASE run[l].ok = TRUE \/ disturbed = TRUE
      BY <2>1, <2>2 DEF Kept
  <2>3. CASE run[l].ok = FALSE /\ disturbed = FALSE
    <3>1. disk[Boot] = store
        BY <2>1, <2>3 DEF CleanInv, Knows, InBoot
    <3>2. (~Dirty' /\ ~disturbed') = TRUE
        BY <2>1, <2>3
    <3>3. Persistence!Clean
        BY <2>1, <3>1, <3>2 DEF Persistence!Clean
    <3> QED
        BY <3>3 DEF Persistence!Next
  <2> QED
      BY <2>1, <2>2, <2>3
<1>5. ASSUME NEW l \in Levels, CallerReturns(l) PROVE Kept
    BY <1>5 DEF CallerReturns, ram, Kept
<1>6. ASSUME NEW l \in Levels, SaveFailureReported(l) PROVE Kept
    BY <1>6 DEF SaveFailureReported, ram, Kept
<1>7. ASSUME NEW l \in Levels, Entering(l) PROVE Kept
  <2>1. UNCHANGED <<store, disk, Dirty>>
      BY <1>7, EnteringStep DEF ram
  <2>2. disturbed' = disturbed \/ Dirty = TRUE
    <3>1. CASE Tests(l) \/ Loads(l)
        BY <3>1 DEF Tests, Loads
    <3>2. CASE Holds(l)
        BY <3>2 DEF Holds, CleanInv, Knows, Busy
    <3> QED
        BY <1>7, <3>1, <3>2, EnteringStep
  <2> QED
      BY <2>1, <2>2 DEF Kept
<1>8. CASE SaveTimerTicks \/ ReadyToBootHandler \/ DumpVarsOnReset \/ Discovery
    BY <1>8, StartStep, TryHandleStep, DiscoverStep DEF Discovery, ram, Kept
<1>9. CASE StopFilePersistence \/ MediaChange \/ ConsoleInstalled \/ UNCHANGED vars
    BY <1>9 DEF StopFilePersistence, MediaChange, ConsoleInstalled, vars, ram, Kept
<1>10. CASE Restart
  <2>1. Persistence!Restart
      BY <1>10 DEF Restart, Started, Persistence!Restart
  <2> QED
      BY <2>1 DEF Persistence!Next
<1> QED
    BY <1>1, <1>2, <1>3, <1>4, <1>5, <1>6, <1>7, <1>8, <1>9, <1>10 DEF Next, Saving

LEMMA SavedStoreInit == Init => Persistence!Init
BY VarStoreAssumption DEF Init, Persistence!Init

-----------------------------------------------------------------------------
(* The theorems. *)

\* Every variable keeps its range, and a save in progress has a medium.
THEOREM StoreTypes == Spec => []TypeOK
<1>1. Init => TypeOK
    BY InitType
<1>2. TypeOK /\ [Next]_vars => TypeOK'
    BY TypeStep
<1> QED
    BY <1>1, <1>2, PTL DEF Spec

\* A save has the file to itself, though the save of a reset is interrupted by
\* the save timer and the notification, and it runs before ExitBootServices:
\* mSaving and mBootServicesGone, which DumpVars asks first.
THEOREM OneSave == Spec => []OneSaveAtATime
<1>1. Init => SaveInv
    BY SaveInit
<1>2. TypeOK /\ SaveInv /\ [Next]_vars => SaveInv'
    BY SaveStep
<1>3. SaveInv => OneSaveAtATime
    BY DEF SaveInv, OneSaveAtATime, InUse, InFile
<1> QED
    BY <1>1, <1>2, <1>3, StoreTypes, PTL DEF Spec

\* A file of the same name on another medium keeps every byte, whichever media
\* come and go during the boot: the search of OnSimpleFileSystemInstall takes
\* only the medium whose firmware and variables are those of the start.
THEOREM OthersUntouched == Spec => OtherMediaUntouched
<1>1. Init => MediaInv
    BY MediaInit
<1>2. TypeOK /\ MediaInv /\ [Next]_vars => MediaInv'
    BY MediaStep
<1>3. TypeOK /\ MediaInv /\ [Next]_vars
      => [\A m \in Media : disk'[m] # disk[m] => m = Boot]_disk
    BY FilesStep
<1> QED
    BY <1>1, <1>2, <1>3, StoreTypes, PTL DEF Spec, OtherMediaUntouched

\* ReadyToBoot and ResetSystem leave with the store saved or, where there is a
\* console, with the warning on it, whatever the save came to and whatever was
\* written since: ReportSaveFailure in the two handlers.
THEOREM LeavesWarned == Spec => NobodyLeavesUnwarned
<1>1. TypeOK /\ [Next]_vars
      => [\A l \in Levels :
            /\ run[l].at = "returned" /\ ~mBootServicesGone
            /\ \/ run'[l].at = "resetting"
               \/ readyToBoot /\ ~readyToBoot'
            => ~Dirty' \/ mSaveErrorShown' \/ ~console]_vars
    BY WarnedStep
<1> QED
    BY <1>1, StoreTypes, PTL DEF Spec, NobodyLeavesUnwarned

\* A store that is not dirty is in the file, whatever failed, was cut short or
\* interrupted: DumpVars.  Left out are only the instructions that nothing guards:
\* the save of a callback between the test of Dirty and mSaving = TRUE of the reset,
\* or between its mSaving = FALSE and its assignment of Dirty, and a write within
\* that assignment.
THEOREM CleanHolds == Spec => []CleanMeansSaved
<1>1. Init => SaveInv /\ MediaInv /\ CleanInv
    BY SaveInit, MediaInit, CleanInit
<1>2. TypeOK /\ SaveInv /\ MediaInv /\ CleanInv /\ [Next]_vars
      => SaveInv' /\ MediaInv' /\ CleanInv'
    BY SaveStep, MediaStep, CleanStep
<1>3. CleanInv => CleanMeansSaved
    BY DEF CleanInv, CleanMeansSaved, InBoot
<1> QED
    BY <1>1, <1>2, <1>3, StoreTypes, PTL DEF Spec

\* The driver implements SavedStore: wherever a save is interrupted, cut short or
\* damaged, the file changes only while the store is dirty or a save was disturbed,
\* and towards what the store holds; the store counts as clean only when all of it
\* is there, and a restart finds the file as it was.
THEOREM StoreIsPersistent == Spec => ImplementsSavedStore
<1>1. Init => SaveInv /\ MediaInv /\ CleanInv /\ Persistence!Init
    BY SaveInit, MediaInit, CleanInit, SavedStoreInit
<1>2. TypeOK /\ SaveInv /\ MediaInv /\ CleanInv /\ [Next]_vars
      => SaveInv' /\ MediaInv' /\ CleanInv'
    BY SaveStep, MediaStep, CleanStep
<1>3. TypeOK /\ MediaInv /\ CleanInv /\ [Next]_vars
      => [Persistence!Next]_(Persistence!vars)
    BY SavedStoreStep, KeptStutters
<1> QED
    BY <1>1, <1>2, <1>3, StoreTypes, PTL DEF Spec, ImplementsSavedStore, Persistence!Spec

=============================================================================
