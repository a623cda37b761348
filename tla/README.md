# Verification of the rpi5-uefi thermal, persistence and display code

TLA+ models of the code in this repository that has behaviour over time: the
Windows fan and temperature drivers; the fan control, the settings persistence,
the firmware queries and the display handoff that the patches add to the
Raspberry Pi 5 UEFI firmware; the handoff of the fan between UEFI and Windows;
and the build script that applies the patches and takes them back. TLC checks
the models on small instances. TLAPS proves the safety properties of every
modelled component for every value of the constants, and that the Windows fan
driver and the settings persistence implement abstract specifications. Liveness
is model-checked.

Paths below are relative to `src/`. The patches are named by number: P1 is
`temporary-patches/edk2-platforms/0001-RPi5-add-fail-safe-fan-control-and-ACPI-interface.patch`,
P3 is `0003-RPi5-Windows-fan-safe-handoff-and-mailbox-routing.patch`, P5 is
`0005-RPi5-RTC-and-settings-persistence.patch`, all in the same directory.

## 1. The system and its parts

| part | state | operations | meets |
|---|---|---|---|
| **Windows fan driver** `WindowsDriver/Rpi5Fan/Driver.c` | device context: mapped registers, `HardwareReady`, `TimerEnabled`, mode, manual and current percent, fail-safe and over-temperature flags, last temperature, failure counter; one wait lock; one one-shot timer; the PWM duty cycle | PrepareHardware, D0Entry, D0Exit, ReleaseHardware, EvtTimer, EvtIoDeviceControl (GET_STATUS, SET_MANUAL, SET_AUTO, SET_FAILSAFE) | temperature provider through an IOCTL with a 500 ms timeout; the PWM left by UEFI; the GUI |
| **Fan curve** `WindowsDriver/Rpi5Fan/FanCurve.h`, P1 `FanCurve ()` | none | temperature, current percent -> percent | both fan controllers |
| **Temperature provider** `WindowsDriver/Rpi5Temp/Driver.c` | mapped mailbox, message page, wait lock, D0 flag | TempReadTemperature (clear, write, poll, check), PnP/power callbacks, GET_TEMPERATURE | VideoCore firmware through the mailbox; UEFI runtime services using the same mailbox |
| **UEFI fan control** P1 `FanControl.c`, changed by P3 | variables `FanMode`, `FanSpeed`; `mFanMode`, `mFanSpeed`, `mAutomaticSpeed`, `mForcePersistentFailSafe`, `mRp1Bus`, `mFirmware`, `mFanTimer`, events | SetupFanVariables, UpdateFan on the periodic timer, protocol notifications, ExitBootServices hook | RP1 bus, firmware protocol, the setup form, the operating system |
| **Settings persistence** P5 `VarBlockServiceDxe` | the flash block in memory and its copy of the start `mBootVariableStore`, `Dirty`, `Generation`, the chosen `Device`, `mSaving`, `mSaveErrorShown`, `mBootServicesGone` | writes through the block protocol, DumpVars / DoDump, save timer, ReadyToBoot, reset handler, file-system notification with CheckStore, ExitBootServices | the variable driver above, FAT files below, the user |
| **UEFI mailbox library** P1, P3, `tools/apply-display-handoff.py` (`RpiFirmwareGetTemperature`, `RpiFirmwareGetFbNumDisplays` and its neighbours) | the spin lock, the one message buffer, the mailbox | GetTemperature, number, identifier, timing and EDID block of a display; clock calls | the VideoCore firmware; the fan timer, which interrupts the queries; Windows' temperature provider at run time |
| **UEFI clock library** P5 `Library/RpiRtcLib` | `mFwProtocol`; the firmware's counter and alarm | LibRtcInitialize, LibGetTime, LibSetTime, LibGetWakeupTime, LibSetWakeupTime | the mailbox library |
| **Display handoff** `tools/apply-display-handoff.py` | the GOP's mode, the ReadyToBoot event, the diagnostics, the volatile variable, the installed ACPI tables | PublishDisplayHandoff from DisplaySetMode and from ReadyToBoot, driver start; ReadDisplayEdid block by block; the pixel valves and the measurement of the frame period | the mailbox library, monitors, the Windows display driver through a variable and the tables R5DH and R5DG |
| **SD voltage**, **microSD power**, **WiFi/SDIO ACPI**, **SOCB** (other patches) | register settings, one retry flag | card identification with 1.8 V switch | none of the above |
| **Source patching and build** `build.sh`, `tools/apply-display-handoff.py` (`replace_one`, `main`) | the source tree of edk2-platforms, the `*_PATCH_APPLIED` flags | check, apply and take back git patches; anchored replacements; the trap at exit | git, the compiler, the developer's checkout, a build that was killed |
| **Fan GUI** `WindowsDriver/Rpi5FanGui` | connection, displayed state | connect, refresh every second, SET requests | fan driver |
| **Installers, CI, tests** | outside the running system | | |

How they interact: UEFI hands the PWM to Windows at ExitBootServices, at 100%
by design; the Windows fan driver takes it over at D0Entry and asks the
temperature provider every two seconds; the provider talks to the VideoCore
firmware through a mailbox which the firmware's runtime clock services use as
well, with no lock in common. Before Windows, UEFI's fan timer and the display
handoff use that mailbox through one library with one lock and one buffer, the
timer interrupting the handoff. The GUI is a client of the fan driver. The
settings the UEFI fan control reads are kept by the persistence driver. The
build turns the repository's patches into the firmware's sources.

### What is hard here, and what has to hold

* *Fan driver*: a timer callback that blocks under the lock while the device
  leaves D0; a stop of the timer that waits for that callback; a shadow of a
  register; a provider that goes silent after a cool sample; restart sequences
  of the framework. It has to hold that a fan below 100% is always watched,
  that it only gets there behind a fresh trusted sample, and that whoever
  stops watching it leaves it at 100%.
* *Temperature provider*: answers that arrive after the request was given up,
  a buffer whose address is reused and which the firmware may write while its
  words are fetched and checked, another user of the mailbox. A temperature that
  is reported valid must be one the firmware measured, no older than the call, and
  a poll must end.
* *UEFI fan control*: protocols that appear in any order, a registration that
  fails half way. A fan it has slowed must have a poll timer and an exit hook.
* *Handoff*: crashes and restarts at any moment. Somebody must always be in
  charge of a slow fan; except after a crash of the kernel, which leaves it at the
  last commanded speed, 30% at least, until the machine is restarted
  (WindowsDriver/README-exp6.md:25).
* *Persistence*: variables written during a save, a save interrupted by
  another one, media that come and go, resets after ExitBootServices, a failing
  file, no console to warn on. "Clean" has to mean "what memory holds is in the
  file".
* *Display handoff*: several displays behind one interface, each query able to
  fail, monitors that change between two reads of an EDID, a publication that
  is repeated after late mode changes. What Windows finds has to be one
  display's timing with that display's EDID, from data that was checked, and
  the diagnostics have to describe this publication, not the one before.
* *Display queries*: a timer that interrupts a query inside its mailbox call and
  asks the same firmware through the same buffer; calls that give up and are
  answered later; a monitor changed between two blocks. An answer must be the
  caller's own or not be used, no way out of a call may keep the lock, and an
  EDID that counts as complete has to be one monitor's.
* *Frame period*: a counter that wraps, stops or stands still, and callbacks
  between the reading of the counter and of the clock. The period has to be
  right to within what those cost, and both loops must end.
* *Build*: an applier that stops half way, patches and replacements in the same
  files, line ends, an interrupt, a git apply cut short between two files or before
  its flag, a tree a killed build left behind. A build that comes to its end has to
  leave the sources it found.

`PROJECT.json` lists every hazard at its line with the properties for it.

## 2. The modules

    FanCurve            the curve (pure)
      FanDriver         the Windows fan driver       --implements--> FanGovernor
      UefiFan           the UEFI fan control
      FanHandoff        UefiFan + FanGovernor over restarts of the machine
        FanHistory      the same with a history variable, for one property
    TempProvider        the Windows temperature provider and its mailbox
    VarStore            the settings persistence     --implements--> SavedStore
    DisplayHandoff      the display handoff, a query one step
    MailboxQueries      the queries, call by call, beside the fan timer's
    FramePeriod         the measurement of the HDMI frame period
    BuildPatches        the build's patching of the sources
      BuildReversal     what the patches and replacements have to satisfy
    FanDriverProofs, FanHandoffProofs, TempProviderProofs, VarStoreProofs,
    DisplayHandoffProofs, MailboxQueriesProofs, FramePeriodProofs,
    BuildPatchesProofs  theorems
    MC*                 model checking of each

`FanGovernor` is what a driver owes the fan whatever its threads do: the
machine is either under its control, and then slow only if the last sample was
trusted, or released, and then at 100% when it lets go. `FanDriver` implements
it (`ImplementsGovernor`, checked and proved), so `FanHandoff` composes the
abstract governor, not the driver, with UEFI.

### FanDriver

The three threads of the driver are three program counters.

| model | code |
|---|---|
| `pnp` | where the framework is: outside D0, in D0, in D0Exit behind the lock and waiting in `WdfTimerStop(TRUE)` |
| `callback`, `armed` | the timer callback (idle, queued, reading under the lock) and the kernel timer |
| `lock` | the wait lock; held only by the callback, the one section that blocks (the provider's IOCTL). The other locked sections run to their end without waiting and are single steps whose guard is a free lock |
| `io` | the request of the sequential queue |
| `provider` | environment: whether Rpi5Temp gives usable answers |
| `pwm` | the duty cycle in the hardware |
| the rest | the fields of `FAN_DEVICE_CONTEXT`, under their names |

Programming the PWM, GPIO, pad and clock registers is one step: under the lock
nobody else looks at them. Their values are constants. `Failures` saturates at
the constant `MaxFailures` (MAXULONG in the code).

### TempProvider

Each access of `TempReadTemperature` to the mailbox or to the buffer is one
step. `Drain` and `Post` send the request. `PollStatus` looks at MBOX_STATUS;
`PollHits` and `PollMisses` read the word, which may be any word if the other user
has taken it in between. Then four fetches from the buffer are checked one by one
(`call` = "code", "tag", "minimum", "maximum"), and `Take` fetches `message[6]` a
third time for the result, unchecked (Driver.c:121-127). The firmware is a process
of its own that answers requests in its own time, field by field, also between two
of these fetches; the mailbox's other user writes requests of its own and takes
words from the FIFO. A poll that runs out of its count gives up and leaves the
request with the firmware. Two buffers are enough to tell "same page as before"
from "another page".

The value that is taken may thus be another one than the value that was checked:
the answer to an earlier request of the driver's for the same page. The history
variable `overtaken` records such a write between the check against the minimum
and the last fetch. `ValidIsMeasured` says that a valid temperature is a
measurement, never the zero of the cleared buffer, and, unless `overtaken`, in
range (`TooCold`, `TooHot` are the measurements the driver refuses).
`AnswersAreFresh` and `NoAnswerTwice` hold with or without it.

### UefiFan and FanHandoff

`UefiFan` is the driver entry, the two protocol notifications, the setup
variables, the periodic timer and the exit hook, with each registration
(`CreateEvent`, `SetTimer`, the exit event) free to fail. Patch P3 moves the
100% into the hook for every mode; the model is the code after both patches.
`FanHandoff` runs it, then the operating system's governor, with crashes and
restarts of the machine at any time; the PWM keeps its setting over a restart.
`Crash` ends in the phase "crashed": the kernel is dead, the fan goes on with its
setting and nobody watches it, until `Restart`. `SlowFanHasAKeeper` has that phase
as its one exception, and says how slow the fan may be in it.
`FanHistory` adds a variable that only remembers: the temperature at which the
automatic speed last rose since the start. `NoFlapping` compares with it.

### VarStore

The flash block is a sequence of a few blocks with a value each; a file is the
same. `DumpVars` runs at two levels, `"application"` (a reset at
TPL_APPLICATION) and `"callback"` (timer, ReadyToBoot, notification), and a
record for each level says where it is. A callback interrupts an application
save between any two of its steps, never the reverse. Each test of `DumpVars` is a
step of its own: `mSaving`, `Dirty` ("dirty"), `Device` ("device"), then
`mSaving = TRUE` ("hold") and the load of the generation ("load"); so are opening,
each block's write, flush, read-back and close, which may fail and leave the file
torn, and behind them the comparison of the generations ("compare"), the
assignment of `Dirty` ("commit") and the report of a failure ("failed"). Media
appear and vanish; the constant `SameFirmware` says which carry a file equal to
the one the firmware was started from, `OtherStore` which carry something else
under the same name. Two media with byte-identical stores cannot be told apart by
the code (docs/RTC-SETTINGS-exp0.4.md:73-75 says so) and are excluded by a named
assumption. `Restart` cuts the power at any time. `console` is `gST->ConOut`:
without it a failed save is not shown to anybody and not counted as shown
(P5:333). `WritersAbove` says whether a variable may be written from callback
level in the middle of an application-level save.

In two places the timer's save can come between instructions of an application
save that belong together: between the test of `Dirty` and `mSaving = TRUE`, after
which the reset rewrites the file of a store that is clean by then; and between
`mSaving = FALSE` and the assignment of `Dirty`. A write may come between the
comparison and the assignment. The history variable `disturbed` is TRUE from such
a moment to the next save of a callback that disturbs nothing, or the next start.
`CleanMeansSaved` and the refinement of `SavedStore` hold of a store that is clean
and not `disturbed`; section 5 has what happens otherwise. The other properties do
not mention it. `NobodyLeavesUnwarned` and `SavedOrWarned` promise the warning
where there is a console, as docs/RTC-SETTINGS-exp0.4.md:24 does.

`SavedStore` is what the driver owes its callers: memory, a saved copy, and
whether they are known to agree. While they are, the saved copy is left alone;
while they are not, blocks of it may change to what memory holds or be damaged;
they agree again only when all of memory is saved; and a restart, at any time,
begins with the saved copy. Under the mapping memory is the block device, the
saved copy the file of the boot medium, and "agree" the absence of `Dirty` and of
a disturbed save.

### DisplayHandoff

One call of `PublishDisplayHandoff` is the record `run`: its program counter,
its caller and its locals. Every query is a step with every answer it may give:
the number of displays, each candidate's identifier, its firmware timing, its
EDID, then the pixel valves; then the second read of the EDID of the display
that was selected, `SetVariable`, reading it back and withdrawing it, and at
ReadyToBoot the two tables. A mode may be set again between any two calls, the
driver may start again (`MaxStarts`), and the power may go at any time.

A timing is the display it belongs to, the mode it fits, its source, and
whether the data behind it passed its checks; an EDID is its display, its monitor
and how many blocks were read with a good checksum. The firmware's timing is copied
as it comes, with the display number that the firmware wrote: nothing compares it
with the request (tools/apply-display-handoff.py:264, 498-506). The firmware is
taken to answer a request with that request's display; but a query given up on may
be answered later, and then its answer passes for the next one's (`late`, from
which on any display is possible). A handoff remembers in `own` whether it was put
together before that could happen, and `HandoffIsCoherent` promises one display's
timing and EDID for those; of the others it says that only a timing from the
firmware can name another display. One read of an EDID is one step
here, so that the monitor may be another at each read but not within one, and so
is the measurement of the frame period; `MailboxQueries` and `FramePeriod` take
the two apart. The arithmetic of detailed timings and of the pixel valve's
registers is abstracted to its outcome; whether a pixel valve is accepted is
left open.

### MailboxQueries

A call of the library is the record `call[a]` of its actor, `"query"` for
PublishDisplayHandoff and `"fan"` for the timer: entering (the lock is tried
once), posting (lock held, request in the buffer; a full mailbox ends the call
here), waiting with the request in the mailbox, replied, accepted (status and
length are right), out with a result or with an error.
`ReadDisplayEdid` is the loop above it: `reading` holds its locals. The fan's
callback runs to its end before the query takes another step, and a query that
runs at TPL_CALLBACK is not interrupted. The firmware takes requests in order,
reads the buffer when it gets to one and overwrites it with its answer; it may
answer with an error, late, or never. A monitor may be replaced at any time.

`MailboxTransaction` and the mailbox itself are code of edk2-platforms, outside
`src/`; they are modelled from how the library calls them and marked external.
A reply carries nothing that tells one request from another, so a late answer
of the same kind or length can be taken for one's own: `own`, fixed when the request
is written, and `settled` record that no earlier request was unanswered, and the properties about the
contents have them as conditions. `NothingBehindAnswers`, `LockFollowsCall` and
the first half of `CompleteIsWhole` hold whatever was left behind.

### FramePeriod

Time is a number of units; `Pass` moves the clock, and the scan while the
display runs. Reading the counter, reading the clock, a poll with its delay and
the division are steps of their own; `Steal` is a callback that takes one unit
between any two of them, `SwitchOff` stops the counter. The counter is the
number of frames modulo `Wrap`, and the differences are taken modulo `Wrap`, as
the code's are taken in 32 bits.

### BuildPatches

The tree is a function from files to lines, a line a text with its line end. A
patch has any number of hunks for each file. `git apply` and its `--check` look for
the image of every hunk, in both directions, with or without regard to white space;
`replace_one` counts its anchor, replaces it, and writes the file with one kind of
line end. A build is `build.sh` for model 5: patch after patch (applied, already
there, or the build ends with an error), the applier's replacements in order, the
compiler, and the trap that undoes the replacements and then the patches. The check
of a patch, each file that git writes, and the `*_PATCH_APPLIED` flag are steps of
their own (`StartPatch`, `WriteFile`, `PatchApplied`; `Unpatch`, `WriteFile`,
`PatchReversed`). `Interrupt` runs the trap from wherever the build is, `Kill` does
not, and the next build starts from the tree that is there; `CheckOut` gives a clean
tree of this or another revision. `found` is the tree that the build began with.

Two interrupts leave sources behind that the trap does not take back, since their
flag is not set: one within a `git apply` that has begun to write (`left`, until the
end of that build) and one within the applier (`torn`, until the next checkout).
`BuildRestoresSources` excludes both, and nothing else. After a kill it holds of the
next build, also where git had written some files of a patch and not the others.

`git apply` is external. It writes a file as a whole here; that it removes an old
file before it writes the new one, and a write that fails half way, are not
modelled. Nor are the line numbers of hunks: of several places where a hunk fits,
one is chosen.

A replacement carries no mark of the build that made it, a patch is taken for
applied when its reversal fits, and nothing keeps the two apart but the texts.
`BuildReversal` states what the texts have to be like, for one patch or one
replacement at a time: a checkout has no replacement in it and one line end in each
file (`CheckoutClean`); a patch that was applied fits in reverse afterwards, also
when the applier has rewritten line ends (`PatchReversible`); however far a git
apply comes, it neither brings nor takes a replacement (`PatchLeavesSources`); a tree
in which a replacement was made does not pass every patch check, which it owes to
patch 0003, that changes a file which patch 0001 creates (`PatchLetsThrough`); and a
replacement's new text is in a tree if and only if it was made, and making it does
not disturb the others (`ReplacementIndependent`). Lines may repeat, in a file and
in a hunk.

## 3. What each run checks

| run | instance | shows | distinct states |
|---|---|---|---|
| `fan_driver` | five temperatures (no data, cool, warm, hot, over-temperature), three manual percents (one below the minimum), PWM found at 0 or 100, counter up to 2 | the safety properties of the driver and that it implements `FanGovernor`; with fairness, a lost provider ends in 100%, a manual request is applied or overruled by a rule of the code, leaving D0 completes | 19 240 |
| `temp_provider` | two buffers, two polls, FIFO of two words, two measurements, the second of them out of range | a valid temperature is a measurement and, not overtaken, in range; freshness; no answer used twice; with fairness, a call returns | 2 096 162 |
| `fan_handoff` | eight temperatures around the thresholds, two speeds, PWM found at 0 or 100, one temperature of the operating system | a slow fan has a keeper across ExitBootServices and restarts, or was left by a crash at 30% or more; UEFI's automatic speed does not flap; with fairness, a hot SoC gets 100% in automatic mode and a manual speed takes effect | 250 816 |
| `var_store` | the boot medium, which may fail, and a second one; two blocks; two generations | a store marked clean is in the file unless its save was disturbed, the file changes only while the store is dirty and is what the next start finds (`SavedStore`), one save at a time and none after ExitBootServices, nobody leaves without the warning if there is a console | 6 079 804 |
| `var_store_live` | the boot medium, which may fail, and a backup with the same firmware and another store; one block | the backup is left alone; a dirty store is saved in the end if the medium stays usable; else the user is warned, if there is a console; no variable is written above TPL_CALLBACK | 443 916 |
| `var_store_changed` | media that do not fail, two generations | *violation*: a store changed during a save may be marked clean | |
| `var_store_failed` | a boot medium that may fail, one generation | *violation*: a nested save that fails may be forgotten | |
| `display_handoff` | two modes, displays 2 and 7, the count 5 (above the limit of 4) and the fallback 2, a monitor of two blocks and one of five (more than the buffer), one start of the driver | the handoff is one display's where no late answer was possible, its EDID whole or absent, the diagnostics are this publication's, one table per start, a failed late publication keeps the previous one | 1 936 946 |
| `display_queries` | one display, a monitor of two blocks and one of more than the buffer holds, a mailbox of two requests | an answer is the caller's own if nothing older was unanswered; no answer is read beyond its end and no more blocks are kept than fit; a call that interrupts another leaves lock, buffer and mailbox alone; the lock is held exactly by a call in progress; a complete EDID is whole and, undisturbed, one monitor's; with fairness, a read ends | 397 484 |
| `frame_period` | a frame of four polls, loops of 17 polls, a counter of 8 values, callbacks of up to 12 units, starts at the beginning, in the middle and around the wrap | the period is right to within a poll, the callbacks and the rounding; a display that runs is measured; with fairness, the measurement ends | 1 347 878 |
| `build_patches` | five files; two patches, the first with hunks in three of them and two in one, the second with two in one; four replacements in three files that share lines with the patches; checkouts with either line end and one anchor or context missing; three interrupts or kills between checkouts | a build that ends leaves the tree it found, byte for byte from a clean checkout, but for an interrupt within git apply or the applier; nothing is compiled twice over; the trees that builds can leave and the applier can make satisfy `BuildReversal` | 19 782 |
| `build_patches_message` | same | *violation*: "Applied RPi5 display timing/EDID handoff transform" is printed, and the firmware compiled, after an applier that has stopped | |

Why the bounds are enough. The fan models branch on temperatures only at the
curve's thresholds, at validity and at 85 degrees: the sets hold one value of
each region the properties can tell apart, and for the flapping pairs less and
more than the hysteresis apart. The failure counter matters at zero, in between
and saturated. In `TempProvider` a stale word needs one abandoned and one
current request; two buffers and a FIFO of two let an old word be in front of,
behind, or in place of the right one, with one left for the other user; two
measurements let one be checked and the other taken. In
`VarStore` two blocks give a torn file; two generations give a write before and
a write during a save, and two levels are all the code has. In `DisplayHandoff`
two displays and two monitors are enough to mix them up, two modes to publish a
stale one, and a count above the limit and a monitor larger than the buffer
reach both caps. In `MailboxQueries` two monitors give a mixed EDID, and a
mailbox of two lets a late answer, one's own request and the other caller's
meet. In `FramePeriod` the real constants are a poll of 10 microseconds, 50 000
polls for a loop, 2^32 counts and frames of some ten milliseconds; what matters
is kept (`PeriodAssumption`): a loop outlasts four frames, a frame is at least a
poll, and the counter does not come round within a loop. In `BuildPatches` one
patch depends on the other and shares two files with it, one replacement depends on
a patch, two replacements share a file, and a line that a patch brings twice makes
one of its hunks fit only once the other is in; each text can be the one that is
missing; one cut leaves a tree from which the second build starts, the second cuts
that one, too, and a third the next. Each bound is a constant
of the .cfg or a guard named in the module. The proofs remove the bounds for all
safety properties.

Deadlock is checked except where a system may really stop (the cfg says so).

### Fairness, and why the code justifies it

* *FanDriver*: the kernel timer fires and its work item runs (weak); the
  provider's call ends because the request has a 500 ms timeout (weak); a
  request of the queue and D0Exit get the wait lock although the callback takes
  it again and again (strong: the callback re-arms itself two seconds later,
  so that the lock is free nearly all the time, and a wait lock hands over to
  its waiters); `WdfTimerStop` returns once no callback runs (weak).
* *TempProvider*: only `TempReadTemperature`'s own steps, weakly. Neither the
  firmware nor the other user is assumed to do anything: the poll count ends
  the wait.
* *FanHandoff*: the periodic timer of UEFI's fan control ticks while boot services
  run (weak). Nothing is assumed of Windows, the user or the protocols.
* *VarStore*: steps at callback level run (weak); steps of an
  application-level save and the queued timer notification run although other
  callbacks may come first (strong); the discovery of a file system that is
  present is done (weak). The file working again is a hypothesis of the
  property, not an assumption on the system.
* *MailboxQueries*: the callback of the fan timer runs to its end (weak); the query
  goes on although the timer interrupts it again and again, for the timer has a
  period of seconds (strong). The firmware owes nothing: a call that waits ends
  with a time-out.
* *FramePeriod*: the measurement's own steps (weak); callbacks take a bounded time.

## 4. What is proved

Each module of proofs has one inductive invariant, and the properties follow
from it. The type invariants of `FanDriver`, `TempProvider`, `FanHandoff`,
`FramePeriod` and `DisplayHandoff` are parts of these and proved, not checked.

`FanDriverProofs` proves, for every set of temperatures, manual requests and
foreign duty cycles and every saturation limit (`FanAssumption`), that every
safety property of the run `fan_driver` holds of `Spec`.

The safety properties are not inductive: that a fail-safe means 100% in the
hardware depends on the shadow equalling the register whenever the fan is
driven, which depends on D0Entry having cleared it, which depends on no
callback being left from the previous D0 period. `IInv` puts these together:

* `TypeOK`;
* `DeviceInv`: which registers are mapped and whether the hardware is ready in
  each state of the PnP thread;
* `TimerInv`: where timer and callback may be, given the PnP state and
  `TimerEnabled`;
* `LockInv`: the lock is held exactly by a callback that is reading;
* `DutyInv`: shadow, hardware and requested percent agree while the fan is driven;
* `TrustInv`: what a fan below 100% says about mode, fail-safe flag and last sample.

`InvariantHolds` is `Spec => []IInv`: one lemma for each action, under it one
step for each part the action disturbs. The state properties are consequences
(`TypeCorrect`, `FailSafeHolds`, `TrustHolds`, `WatchHolds`, `CurveHolds`,
`StatusHolds`, `QuietHolds`, `MappingHolds`); the action properties
(`SlowingHolds`, `HandOverHolds`) and `GovernorImplemented`, the step
simulation of `FanGovernor` under the refinement mapping, go through one lemma
that sorts the driver's steps into six shapes. No run checks `RegistersMapped`,
`NormalControlIsTrusted`, `StatusIsTruthful` and `HandedOverAtFullSpeed`: they are
proved, and the last is what the governor's `Disengage` asks for anyway.

`FanHandoffProofs` proves `SlowFanHasAKeeper` for any number of restarts and any
temperatures, speeds and duty cycles. `KeeperInv` adds what each phase of a boot
guarantees: before the variables are set up nothing has been found, a boot
without the ExitBootServices hook is forced to the fail-safe speed, and a fan
without a timer stays at full speed; a crashed kernel was under the governor or
left the fan at 100%, and what the governor commands is 30% at least, an assumption
on its duty cycles (`HandoffAssumption`) that its levels satisfy.
`SameCurveAsWindows` is the equality of the two copies of the curve as functions. `AutomaticSpeedDoesNotFlap` is `NoFlapping`
for every set of temperatures: `RoseInv` says that the threshold of the automatic
speed is not above the temperature of the last rise, and a fall means that the
SoC is below that threshold by more than the hysteresis.

`TempProviderProofs` proves the three safety properties of the provider for any
number of buffers, polls and words in the mailbox. The reason, `AnswerInv` and
`BufferInv`: the firmware writes one answer at a time, each of a later
measurement than all before it, and during a call the buffer holds the zero that
the request put there or an answer that no call has reported. The words in the
FIFO are not what the argument rests on. `CheckInv` follows the fetches: that
`message[6]` is not zero stays true once it was seen, whoever writes to it; that it is
in range stays true unless the call was `overtaken`.

`VarStoreProofs` proves the four safety properties of the persistence for any
media, blocks, values and number of changes. `SaveInv`: the file is in use by
one level exactly while `mSaving` is set, and never after ExitBootServices.
`MediaInv`: an old store on another medium has a block that nothing writes to
memory or to the boot medium, so that CheckStore takes no medium for the boot
medium but that. `NestInv` and `CleanInv`: one level is saving, its first tests and
last instructions included, unless the two have disturbed each other; and at each
step of a save whose generation is still the store's own, what has been verified so
far is what memory holds. From the same invariants `StoreIsPersistent` proves that
every step is one of `SavedStore` or a stutter. `disturbed` is the one exception they
make, a condition on what has happened and not on the code (section 5).

`MailboxQueriesProofs` proves the safety properties of `display_queries` for any
displays, monitors, EDIDs and depth of the mailbox. `QueriesInv` says that one
call holds the lock, that a call posted to an idle mailbox sees one request and
one answer, its own (`ExchangeInv`), and what the loop over the blocks has
collected (`LoopInv`); `SettledInv` and `CompleteInv` carry it over the loop. From
the lock's part of it follows `CallersKeepApart`, an action property.

`FramePeriodProofs` proves that the period is right and that a running display is
measured for every length of a frame, a poll and the loops that
`PeriodAssumption` admits. The invariant names, at each step, the true number of
the frame at which the loop began, of which the counter knows the remainder:
modular arithmetic enters in a few lemmas only.

`FanDriverProofs` begins with the curve: the if-chain is the threshold table
with hysteresis for every temperature and every percent (`CurveFollowsTable`);
it stays among its levels, is settled after one
evaluation, is monotone in the temperature, and steps down from a level only 5
degrees below that level's threshold (`CurveHysteresis`).

`DisplayHandoffProofs` proves the type invariant and the five properties of the
run `display_handoff` for every set of modes, displays and monitors, every EDID
and every number of starts, from `DisplayAssumption` (the two displays of the
pixel valves are among the identifiers) and `HandoffAssumption` ("no variable"
is not a handoff). What Windows finds (`CarriedInv`) is sound because what is
about to be published is, which is so because of what the locals of
`PublishDisplayHandoff` hold at each step (`PhaseInv`), the display number of the
timing among them: it is the candidate's as long as `own` is set, and the firmware's
own byte otherwise; `DiagInv` follows the
diagnostics' flags through the call, `TableInv` counts tables against the event
that is closed once they are installed.

`BuildPatchesProofs` first proves what replacing a text in a file does, line by
line, up to `ReplacementReverses`: whatever the texts, the reversal of a
replacement gives the file back, its line ends made uniform, provided that the
new text is there once afterwards. The provers cannot search a concrete file for
a concrete text, so the conditions of `BuildReversal` are assumptions there; TLC
evaluates them on the instance of `build_patches`, where they are true of the
trees that its builds can make. They are conditions on one patch or one replacement
each, for any number of hunks in any number of files. What the proofs add is the
order: `Inv` names, at each point of a build, the tree after each patch (`Came`), of
which the files that the running git apply has still to write are the ones before it
(`Halfway`), and, from the applier on, a chain of trees with one more replacement
each (`Chain`). Undoing goes through the replacements in the order in which they were
made, so that each step shortens the chain at its beginning, by replaying the later
replacements on a tree without the first (`ChainShrinks`); the reversal stops where
the chain is down to one tree, which differs from the one the patches made in line
ends at most. A build that is interrupted within a git apply keeps less: its tree
stays among those that builds may find (`Left`). Both properties follow for every
number of patches, hunks, replacements and kills.

Only model-checked: all liveness, for fairness and ENABLED are beyond the prover.
That the repository's own texts satisfy `BuildReversal` is not proved; the
instance has the ways in which they depend on each other.

## 5. Where code and documents disagree

1. `var_store_changed`. DumpVars (P5:402) compares the generations and stores
   the result in `Dirty` in two instructions at the caller's TPL. On the reset
   path that is TPL_APPLICATION; a callback that writes a variable in between
   has its `Dirty = TRUE` overwritten, and the store is neither saved nor
   reported. docs/RTC-SETTINGS-exp0.4.md:25 promises otherwise. The window is
   a few instructions wide.
2. `var_store_failed`. DumpVars clears `mSaving` (P5:389) before it decides
   `Dirty`. The save timer may run a save of its own in between; if that one
   fails, the outer one still marks the store clean
   (docs/RTC-SETTINGS-exp0.4.md:23-24).
3. `build_patches_message`. build.sh:214-216 runs the applier without looking at
   its exit status, prints that the transform was applied and compiles, also if
   `replace_one` has stopped at a missing anchor with some of its replacements
   made; a git patch that does not apply ends the build (build.sh:185-189). The
   workflow .github/workflows/display-handoff.yml:164 takes the line in the log
   for the proof that the transform is in.

Without a run, since the text alone shows it: P1:128-129 says that persistent mode
leaves the selected speed for the operating system, but since P3 the hook
programs 100% in every mode; WindowsDriver/Rpi5Fan/README.md:65-67 says the
driver exposes no IOCTL interface, but it serves four requests; the comment of
`replace_one` (tools/apply-display-handoff.py:8-10) speaks of unrelated lines
left byte-clean, which holds for files with one kind of line ends and not for
mixed ones.

What the two persistence runs show is what `disturbed` excludes in `CleanMeansSaved`:
everything else that can happen during a save leaves a clean store in the file,
checked in `var_store` and proved. The third window is before the save: when the
timer's save comes between the test of `Dirty` (P5:376) and `mSaving = TRUE`
(P5:386), the reset writes the file of a clean store again, and a failure or a power
cut then damages a file that was right. No document promises otherwise; `disturbed`
covers it.

## 6. What is not modelled, and the plan

Not modelled for good: constant pin, pad and ACPI tables (WiFi, SDIO, SOCB,
microSD power), GUI layout, installers and CI, which keep no state of their
own in this repository's code. Memory that the firmware may still write to
after the temperature provider has freed its page belongs to somebody outside
the model. Recovering a variable store that a power cut has torn is the task of
the variable driver, outside `src/`; the model has the cut and the torn store. A
build interrupted in the middle of the applier leaves a tree that nothing in the
repository claims to recover, and so does one interrupted in a `git apply` that has
begun to write or whose flag is not set yet: the trap takes out the patches below
it only. `BuildPatches` reaches both (`torn`, `left`), and its properties exclude
the first until the next checkout and the second until the end of that build. Setup
texts, logging and register
bit layouts are abstracted.

Left out of the modelled parts: the patch of edk2 in `BuildPatches`, which shares
no file with the others, and the two scripts around build.sh, which apply further
patches in the same manner; the bit fields of detailed timings and of the pixel
valve's registers; the mailbox's clock calls.

Next, in order:

1. `Rtc`: calendar conversion against a reference definition, the 32-bit counter,
   the placeholder time, its calls through `MailboxQueries`' mailbox.
2. Detailed timings and the pixel valve's registers as pure operators, with their
   ranges.
3. `VarStore` with device paths apart from media: the same medium seen again
   under another path after a first save.
4. `FanGui` (a client of `FanDriver`), `SdVoltage` (1.8 V and its retry).
