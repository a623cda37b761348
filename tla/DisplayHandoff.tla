--------------------------- MODULE DisplayHandoff ---------------------------
(***************************************************************************)
(* The display handoff that tools/apply-display-handoff.py adds to the     *)
(* firmware's DisplayDxe.  Whenever the GOP mode is set, and once when the *)
(* firmware is ready to boot, PublishDisplayHandoff looks for the timing   *)
(* of the display that shows the mode (the VideoCore firmware's answer, a  *)
(* detailed timing of the monitor's EDID, the pixel valve's registers),    *)
(* adds the EDID of that display, and leaves the result for Windows in a   *)
(* volatile variable and, at ReadyToBoot only, in the ACPI table R5DH.  A  *)
(* second table, R5DG, tells how that went.                                *)
(*                                                                         *)
(* One run of PublishDisplayHandoff takes a step for every answer it asks  *)
(* for, since monitors come and go and every answer may be an error.  A    *)
(* timing is what distinguishes it here: the display number in it, the     *)
(* mode it fits and where it was found; an EDID is its monitor and how     *)
(* many of its blocks were read with a good checksum.  A query that was    *)
(* given up on may be answered late, and nothing in the code tells such an *)
(* answer from the one to the current query.                               *)
(***************************************************************************)
EXTENDS Integers, Sequences

CONSTANTS
    Modes,          \* the GOP's modes (width and height)
    NoMode,         \* gDisplayProto.Mode or its Info is NULL
    DisplayIds,     \* the identifiers GET_DISPLAY_ID may answer with
    DisplayCounts,  \* what GET_FB_NUM_DISPLAYS may answer
    Monitors,       \* the monitors that may be plugged in
    NoMonitor,
    EdidBlocks,     \* the number of blocks of each monitor's EDID
    Dtds,           \* the modes with a detailed timing, by monitor and block
    NoHandoff,      \* the variable does not exist
    Damaged,        \* the variable holds something else than what was set
    MaxStarts       \* bound: how often the driver is started

RPI5_DISPLAY_HANDOFF_MAX_EDID_BLOCKS    == 4
RPI5_DISPLAY_HANDOFF_MAX_PROBE_DISPLAYS == 4

\* The firmware's number of the display that each pixel valve drives.
PixelValveDisplay == <<2, 7>>

ASSUME DisplayAssumption ==
    /\ NoMode \notin Modes /\ NoMonitor \notin Monitors
    /\ DisplayIds \subseteq Nat /\ {2, 7} \subseteq DisplayIds
    /\ DisplayCounts \subseteq Nat
    /\ EdidBlocks \in [Monitors -> 1 .. 256] /\ MaxStarts \in Nat
    /\ \A m \in Monitors : Dtds[m] \in [0 .. EdidBlocks[m] - 1 -> SUBSET Modes]

VARIABLES
    gop,        \* the mode in gDisplayProto.Mode
    starts,     \* how often the driver has installed the GOP
    event,      \* mRpi5DisplayReadyToBootEvent is not NULL
    run,        \* the call of PublishDisplayHandoff in progress, and its locals
    late,       \* a query was given up on; its answer may come for a later one
    diag,       \* mRpi5DisplayDiag
    variable,   \* the variable Rpi5DisplayHandoff
    r5dh,       \* the R5DH tables installed since the power came on, in order
    r5dg        \* how many R5DG tables have been installed

vars == <<gop, starts, event, run, late, diag, variable, r5dh, r5dg>>

Sources == {"NONE", "FIRMWARE", "EDID", "PIXELVALVE"}

Flags == {"READY_TO_BOOT", "FW_TIMING_VALID", "EDID_TIMING_VALID",
          "PV_TIMING_VALID", "R5DH_INSTALLED", "VARIABLE_PUBLISHED", "EDID_COMPLETE"}

\* display: the byte in the timing itself; intact: the data the timing was read
\* from passed its checks.
Timings == [display : DisplayIds, mode : Modes, source : Sources, intact : BOOLEAN]
Edids   == [display : DisplayIds, monitor : Monitors,
            read : 1 .. RPI5_DISPLAY_HANDOFF_MAX_EDID_BLOCKS]
NoEdid  == [display |-> 0, monitor |-> NoMonitor, read |-> 0]

\* display: DisplayNumber; flag: RPI5_DISPLAY_HANDOFF_EDID_VALID; edid: the
\* bytes in the buffer; own (history): no answer in it may have been a late one.
Handoffs == [display : DisplayIds, timing : Timings,
             flag : BOOLEAN, edid : Edids \union {NoEdid}, own : BOOLEAN]

ASSUME HandoffAssumption == NoHandoff \notin Handoffs

NoTiming == [display |-> 0, mode |-> NoMode, source |-> "NONE", intact |-> FALSE]

Idle == [at |-> "idle", caller |-> "none", count |-> 0, index |-> 0, display |-> 0,
         timing |-> NoTiming, own |-> TRUE, handoff |-> NoHandoff,
         published |-> FALSE, status |-> "none"]

\* ZeroMem of the diagnostics and the fields set right after it.
ZeroDiag(m) == [flags |-> {}, source |-> "NONE", mode |-> m]

Runs == [at : {"idle", "probe", "edid", "handoff", "variable", "verify", "acpi", "diag"},
         caller : {"none", "DisplaySetMode", "ReadyToBoot"},
         count : 0 .. RPI5_DISPLAY_HANDOFF_MAX_PROBE_DISPLAYS,
         index : 0 .. RPI5_DISPLAY_HANDOFF_MAX_PROBE_DISPLAYS,
         display : DisplayIds \union {0},
         timing : Timings \union {NoTiming},
         own : BOOLEAN,
         handoff : Handoffs \union {NoHandoff},
         published : BOOLEAN,
         status : {"none", "EFI_SUCCESS", "EFI_NOT_FOUND", "EFI_NOT_READY", "error"}]

TypeOK ==
    /\ gop \in Modes \union {NoMode}
    /\ starts \in 0 .. MaxStarts /\ event \in BOOLEAN
    /\ run \in Runs
    /\ late \in BOOLEAN
    /\ diag \in [flags : SUBSET Flags, source : Sources, mode : Modes \union {NoMode}]
    /\ variable \in Handoffs \union {NoHandoff, Damaged}
    /\ r5dh \in Seq(Handoffs)
    /\ r5dg \in Nat

Init ==
    /\ gop = NoMode /\ starts = 0 /\ event = FALSE
    /\ run = Idle /\ late = FALSE /\ diag = ZeroDiag(NoMode)
    /\ variable = NoHandoff
    /\ r5dh = <<>> /\ r5dg = 0

-----------------------------------------------------------------------------
(* The answers *)

Smaller(a, b) == IF a <= b THEN a ELSE b

\* ReadDisplayEdid with a good base block: blocks are read in order until one
\* fails or has a bad checksum, or until the buffer is full.  Every call may
\* find another monitor at the display, and a late answer may be of another one.
ReadDisplayEdid(d) ==
    {e \in Edids : (late \/ e.display = d) /\ e.read <= EdidBlocks[e.monitor]}

\* A query that fails may have been given up on.
MayBeLate == late' \in {late, TRUE}

\* *Complete: all the blocks the base block announces are in the buffer.
EdidComplete(e) ==
    /\ EdidBlocks[e.monitor] <= RPI5_DISPLAY_HANDOFF_MAX_EDID_BLOCKS
    /\ e.read = EdidBlocks[e.monitor]

\* The block with the first detailed timing of mode m, among those below limit.
DtdBlocks(e, m, limit) == {b \in 0 .. limit - 1 : m \in Dtds[e.monitor][b]}

\* ParseEdidDetailedTiming fills in the display that was asked.
EdidTiming(e, m, d, b) ==
    [display |-> d, mode |-> m, source |-> "EDID", intact |-> b < e.read]

\* A variation: the search goes on in blocks whose checksum failed.
FindInAllBlocks(e, m, d) ==
    {EdidTiming(e, m, d, b) : b \in DtdBlocks(e, m, EdidBlocks[e.monitor])}

FindEdidDetailedTiming(e, m, d) ==
    {EdidTiming(e, m, d, b) : b \in DtdBlocks(e, m, e.read)}

FirmwareTimings == [display : DisplayIds, mode : Modes, source : {"FIRMWARE"}, intact : BOOLEAN]

\* The geometry is the mode's, and the positions and totals are in order; the
\* display is not looked at.
ValidateDisplayTiming(t, m) == t.mode = m /\ t.intact

\* ProbeCount for an answer of GetFbNumDisplays; an error answers 0.
ProbeCount(answer) ==
    IF answer = 0 THEN 2 ELSE Smaller(answer, RPI5_DISPLAY_HANDOFF_MAX_PROBE_DISPLAYS)

\* The flag that names the source of a timing in the diagnostics.
SourceFlag(source) ==
    CASE source = "FIRMWARE" -> "FW_TIMING_VALID"
      [] source = "EDID" -> "EDID_TIMING_VALID"
      [] OTHER -> "PV_TIMING_VALID"

-----------------------------------------------------------------------------
(* PublishDisplayHandoff *)

Flagged(f) == [diag EXCEPT !.flags = @ \union {f}]

\* A variation: the diagnostics are not cleared at the entry.
PublishOnTop(caller, m) ==
    /\ \E answer \in DisplayCounts \union {0} :
          run' = [Idle EXCEPT !.at = "probe", !.caller = caller, !.count = ProbeCount(answer)]
    /\ diag' = [diag EXCEPT !.mode = m]
    /\ UNCHANGED variable

\* A variation: the variable is deleted first.
PublishAfresh(caller, m) ==
    /\ \E answer \in DisplayCounts \union {0} :
          run' = [Idle EXCEPT !.at = "probe", !.caller = caller, !.count = ProbeCount(answer)]
    /\ diag' = ZeroDiag(m)
    /\ variable' = NoHandoff

\* The entry: the diagnostics are cleared, the previous variable is not.
Publish(caller, m) ==
    /\ \E answer \in DisplayCounts \union {0} :
          run' = [Idle EXCEPT !.at = "probe", !.caller = caller, !.count = ProbeCount(answer)]
    /\ diag' = ZeroDiag(m)
    /\ UNCHANGED variable

\* The caller's SetMode has put the mode into gDisplayProto.Mode before.
DisplaySetMode(m) ==
    /\ run = Idle
    /\ gop' = m
    /\ Publish("DisplaySetMode", m)
    /\ UNCHANGED <<starts, late, event, r5dh, r5dg>>

\* The end of the driver's Start.  Creating the event may fail.
InstallGop ==
    /\ run = Idle /\ starts < MaxStarts
    /\ starts' = starts + 1
    /\ IF event THEN UNCHANGED event ELSE event' \in BOOLEAN
    /\ UNCHANGED <<gop, run, late, diag, variable, r5dh, r5dg>>

ReadyToBoot ==
    /\ run = Idle /\ event
    /\ IF gop = NoMode
       THEN /\ run' = [Idle EXCEPT !.at = "diag", !.caller = "ReadyToBoot",
                                   !.status = "EFI_NOT_READY"]
            /\ UNCHANGED <<diag, variable>>
       ELSE Publish("ReadyToBoot", gop)
    /\ UNCHANGED <<gop, starts, late, event, r5dh, r5dg>>

NextDisplay == [run EXCEPT !.at = "probe", !.index = @ + 1, !.display = 0]

\* Display becomes the candidate d, and the timing is copied as it is.  The loop
\* is over, and with it its counters.
Select(t, d, own) ==
    /\ run' = [run EXCEPT !.at = "handoff", !.count = 0, !.index = 0,
                          !.display = d, !.timing = t, !.own = own]
    /\ diag' = [diag EXCEPT !.flags = @ \union {SourceFlag(t.source)},
                            !.source = t.source, !.mode = t.mode]
    /\ UNCHANGED <<gop, starts, event, variable, r5dh, r5dg>>

GoOn(next) ==
    /\ run' = next
    /\ UNCHANGED <<gop, starts, event, diag, variable, r5dh, r5dg>>

Probing == run.at = "probe" /\ run.index < run.count

\* GetFbDisplayId fails, or answers with a number above 0xFF.
NoDisplayId == Probing /\ GoOn(NextDisplay) /\ UNCHANGED late

\* GetDisplayTiming answers with any timing, for any mode: the whole TagBody is
\* taken, with the Display byte that the firmware put there.
FirmwareTiming ==
    /\ Probing
    /\ \E d \in DisplayIds, t \in FirmwareTimings :
          /\ late \/ t.display = d
          /\ ValidateDisplayTiming(t, gop)
          /\ Select(t, d, ~ late)
    /\ UNCHANGED late

\* It fails, or its answer does not fit the mode.
NoFirmwareTiming ==
    /\ Probing
    /\ MayBeLate
    /\ \E d \in DisplayIds : GoOn([run EXCEPT !.at = "edid", !.display = d])

\* The EDID of the candidate cannot be read, or has no timing for the mode.
NoEdidTiming ==
    /\ run.at = "edid"
    /\ MayBeLate
    /\ \/ GoOn(NextDisplay)
       \/ \E e \in ReadDisplayEdid(run.display) :
             FindEdidDetailedTiming(e, gop, run.display) = {} /\ GoOn(NextDisplay)

EdidTimingFound ==
    /\ run.at = "edid"
    /\ MayBeLate
    /\ \E e \in ReadDisplayEdid(run.display) :
          \E t \in FindEdidDetailedTiming(e, gop, run.display) :
             Select(t, run.display, ~ late)

\* No candidate is left: the first pixel valve that scans the mode and whose
\* frame counter can be measured decides.
PixelValveTiming ==
    /\ run.at = "probe" /\ run.index = run.count
    /\ \E pv \in DOMAIN PixelValveDisplay :
          Select([display |-> PixelValveDisplay[pv], mode |-> gop,
                  source |-> "PIXELVALVE", intact |-> TRUE], PixelValveDisplay[pv], TRUE)
    /\ UNCHANGED late

\* PublishDisplayHandoff returns to its caller.
Returned(status) ==
    IF run.caller = "ReadyToBoot"
    THEN [run EXCEPT !.at = "diag", !.status = status]
    ELSE Idle

NoTimingFound ==
    /\ run.at = "probe" /\ run.index = run.count
    /\ GoOn(Returned("EFI_NOT_FOUND"))
    /\ UNCHANGED late

\* A variation: the bytes of an incomplete EDID stay in the handoff.
KeptEdidPart(e) == e

\* The buffer and the flag of the handoff after its EDID has been read.
KeptEdid(e) == IF EdidComplete(e) THEN e ELSE NoEdid

\* A variation: the EDID is always the first HDMI port's.
EdidOfFirstPort == PixelValveDisplay[1]

\* The display whose EDID goes into the handoff.
EdidDisplay == run.display

MakeHandoff(edid, complete) ==
    /\ run' = [run EXCEPT !.at = "variable",
                          !.handoff = [display |-> run.display, timing |-> run.timing,
                                       flag |-> complete, edid |-> edid,
                                       own |-> run.own /\ (complete => ~ late)]]
    /\ diag' = IF complete THEN Flagged("EDID_COMPLETE") ELSE diag
    /\ UNCHANGED <<gop, starts, event, variable, r5dh, r5dg>>

AttachEdid ==
    /\ run.at = "handoff"
    /\ MayBeLate
    /\ \/ MakeHandoff(NoEdid, FALSE)
       \/ \E e \in ReadDisplayEdid(EdidDisplay) :
             MakeHandoff(KeptEdid(e), EdidComplete(e))

\* SetVariable may fail and change nothing, or report success whatever it kept.
SetVariable ==
    /\ run.at = "variable"
    /\ \/ variable' = variable /\ run' = [run EXCEPT !.at = "acpi"]
       \/ variable' \in {run.handoff, Damaged} /\ run' = [run EXCEPT !.at = "verify"]
    /\ UNCHANGED <<gop, starts, late, event, diag, r5dh, r5dg>>

Published ==
    /\ run' = [run EXCEPT !.at = "acpi", !.published = TRUE]
    /\ diag' = Flagged("VARIABLE_PUBLISHED")
    /\ UNCHANGED variable

\* The result of the second SetVariable, which deletes, is ignored.
Withdrawn ==
    /\ run' = [run EXCEPT !.at = "acpi"]
    /\ variable' \in {NoHandoff, variable}
    /\ UNCHANGED diag

\* GetVariable may fail or answer with what is stored.
VerifyVariable ==
    /\ run.at = "verify"
    /\ \/ variable = run.handoff /\ Published
       \/ Withdrawn
    /\ UNCHANGED <<gop, starts, late, event, r5dh, r5dg>>

\* What PublishDisplayHandoff returns, given what became of the table.
Status(table) == IF run.published \/ table THEN "EFI_SUCCESS" ELSE "error"

InstallDisplayHandoffAcpi ==
    /\ run.at = "acpi" /\ run.caller = "ReadyToBoot"
    /\ \/ /\ r5dh' = Append(r5dh, run.handoff)
          /\ diag' = Flagged("R5DH_INSTALLED")
          /\ run' = Returned(Status(TRUE))
       \/ run' = Returned(Status(FALSE)) /\ UNCHANGED <<r5dh, diag>>
    /\ UNCHANGED <<gop, starts, late, event, variable, r5dg>>

LeaveAcpiAlone ==
    /\ run.at = "acpi" /\ run.caller = "DisplaySetMode"
    /\ GoOn(Returned(Status(FALSE)))
    /\ UNCHANGED late

\* A variation: the event stays in place for the next boot attempt.
EventKept == TRUE

\* mRpi5DisplayReadyToBootEvent at the end of its notification: closed, NULL.
EventAfter == FALSE

InstallDisplayDiagnosticsAcpi ==
    /\ run.at = "diag"
    /\ diag' = Flagged("READY_TO_BOOT")
    /\ \/ r5dg' = r5dg + 1
       \/ UNCHANGED r5dg
    /\ event' = EventAfter
    /\ run' = Idle
    /\ UNCHANGED <<gop, starts, late, variable, r5dh>>

-----------------------------------------------------------------------------
(* The environment *)

\* Power off and on; the variable is volatile.
Restart ==
    /\ gop' = NoMode /\ starts' = 0 /\ event' = FALSE
    /\ run' = Idle /\ late' = FALSE /\ diag' = ZeroDiag(NoMode)
    /\ variable' = NoHandoff /\ r5dh' = <<>> /\ r5dg' = 0

Next ==
    \/ \E m \in Modes : DisplaySetMode(m)
    \/ InstallGop \/ ReadyToBoot
    \/ NoDisplayId \/ FirmwareTiming \/ NoFirmwareTiming
    \/ NoEdidTiming \/ EdidTimingFound
    \/ PixelValveTiming \/ NoTimingFound
    \/ AttachEdid \/ SetVariable \/ VerifyVariable
    \/ InstallDisplayHandoffAcpi \/ LeaveAcpiAlone
    \/ InstallDisplayDiagnosticsAcpi
    \/ Restart

Spec == Init /\ [][Next]_vars

-----------------------------------------------------------------------------
(* Properties *)

\* What Windows may find: the handoffs in the variable and in the tables.
Carried == ({variable} \ {NoHandoff, Damaged}) \union {r5dh[i] : i \in DOMAIN r5dh}

\* The timing of a handoff was read from data that had passed its checks, and
\* the display number, the timing and the EDID belong to one display, whatever
\* index it had in the probing and whichever source gave the timing; where late
\* answers were possible, only a timing that the firmware gave may name another
\* display than the handoff, and only then the EDID may be another display's.
HandoffIsCoherent ==
    \A h \in Carried :
        /\ h.timing.intact
        /\ h.own \/ h.timing.source # "FIRMWARE" => h.timing.display = h.display
        /\ h.own /\ h.edid # NoEdid => h.edid.display = h.display

\* Windows gets a monitor's whole EDID or none: a read that ended early, or an
\* EDID longer than the buffer, leaves neither the flag nor any of its bytes.
EdidIsWhole ==
    \A h \in Carried : IF h.flag THEN EdidComplete(h.edid) ELSE h.edid = NoEdid

\* When R5DG is about to be installed, the diagnostics and the status it will
\* carry describe what this ReadyToBoot has left behind, and not an earlier
\* run of PublishDisplayHandoff for another mode.
DiagnosticsAreTrue ==
    run.at = "diag" =>
        /\ diag.source = run.timing.source
        /\ "VARIABLE_PUBLISHED" \in diag.flags =>
              variable = run.handoff /\ variable # NoHandoff
        /\ "R5DH_INSTALLED" \in diag.flags =>
              r5dh # <<>> /\ r5dh[Len(r5dh)] = run.handoff
        /\ "EDID_COMPLETE" \in diag.flags =>
              run.handoff # NoHandoff /\ run.handoff.flag
        /\ run.status = "EFI_SUCCESS" <=>
              diag.flags \intersect {"VARIABLE_PUBLISHED", "R5DH_INSTALLED"} # {}

\* However often the firmware tries to boot, one start of the driver installs
\* at most one table of each kind: nothing ever uninstalls them.
OneTablePerStart == Len(r5dh) <= starts /\ r5dg <= starts

\* A verified handoff in the variable only ever gives way when a complete one
\* for the current mode is at hand: a late SetMode whose query fails keeps it.
PreviousIsKept ==
    [][variable \notin {NoHandoff, Damaged} /\ variable' # variable /\ gop' # NoMode =>
          run.handoff # NoHandoff /\ run.handoff.timing.mode = gop]_vars

=============================================================================
