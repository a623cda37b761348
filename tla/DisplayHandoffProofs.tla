------------------------ MODULE DisplayHandoffProofs ------------------------
(***************************************************************************)
(* Proofs about DisplayHandoff, for every set of modes, displays and       *)
(* monitors, every EDID and every number of starts.                        *)
(***************************************************************************)
EXTENDS DisplayHandoff, TLAPS

\* The handoff may be shown to Windows.
Sound(h) ==
    /\ h.timing.intact
    /\ h.own \/ h.timing.source # "FIRMWARE" => h.timing.display = h.display
    /\ h.own /\ h.edid # NoEdid => h.edid.display = h.display
    /\ IF h.flag THEN EdidComplete(h.edid) ELSE h.edid = NoEdid

\* What the locals of PublishDisplayHandoff hold at each of its steps.
PhaseInv ==
    /\ run.at = "idle" => run = Idle
    /\ run.at # "idle" => run.caller # "none"
    /\ run.at = "diag" => run.caller = "ReadyToBoot"
    /\ run.at \notin {"idle", "diag"} => gop # NoMode
    /\ run.at \in {"probe", "edid"} =>
          run.timing = NoTiming /\ run.handoff = NoHandoff
    /\ run.at \in {"probe", "edid", "handoff", "variable", "verify"} => ~ run.published
    /\ run.at \in {"handoff", "variable", "verify", "acpi"} =>
          /\ run.own \/ run.timing.source # "FIRMWARE" => run.timing.display = run.display
          /\ run.timing.intact /\ run.timing.mode = gop
          /\ run.display \in DisplayIds /\ run.timing \in Timings
    /\ run.at = "edid" => run.index < run.count /\ run.display \in DisplayIds
    /\ run.at \in {"variable", "verify", "acpi"} =>
          /\ Sound(run.handoff) /\ run.handoff \in Handoffs
          /\ run.handoff.timing = run.timing
    /\ run.at = "probe" => run.index <= run.count

\* Every handoff that Windows may find is sound.
CarriedInv ==
    /\ variable \notin {NoHandoff, Damaged} => Sound(variable)
    /\ \A i \in DOMAIN r5dh : Sound(r5dh[i])

\* How far the diagnostics have come at each step.
DiagInv ==
    /\ gop = NoMode => diag.source = "NONE" /\ diag.flags \subseteq {"READY_TO_BOOT"}
    /\ run.at \in {"probe", "edid"} => diag.source = "NONE" /\ diag.flags = {}
    /\ run.at \in {"handoff", "variable", "verify", "acpi"} =>
          diag.source = run.timing.source /\ "R5DH_INSTALLED" \notin diag.flags
    /\ run.at \in {"handoff", "variable", "verify"} =>
          "VARIABLE_PUBLISHED" \notin diag.flags
    /\ run.at = "handoff" => "EDID_COMPLETE" \notin diag.flags
    /\ run.at \in {"variable", "verify", "acpi"} =>
          ("EDID_COMPLETE" \in diag.flags => run.handoff.flag)
    /\ run.at = "acpi" =>
          /\ run.published <=> "VARIABLE_PUBLISHED" \in diag.flags
          /\ run.published => variable = run.handoff
    /\ DiagnosticsAreTrue

\* A driver that has its event has not installed its tables yet.
TableInv ==
    /\ run.caller = "ReadyToBoot" => event
    /\ Len(r5dh) <= starts /\ r5dg <= starts
    /\ event => r5dg < starts
    /\ event /\ run.at # "diag" => Len(r5dh) < starts

IInv == TypeOK /\ PhaseInv /\ CarriedInv /\ DiagInv /\ TableInv

\* Between two calls the locals have their types.
LEMMA IdleType == Idle \in Runs
BY DEF Idle, Runs, RPI5_DISPLAY_HANDOFF_MAX_PROBE_DISPLAYS

\* At most four displays are probed, whatever the firmware answers.
LEMMA CountIsCapped ==
  \A answer \in Nat : ProbeCount(answer) \in 0 .. RPI5_DISPLAY_HANDOFF_MAX_PROBE_DISPLAYS
  BY DEF ProbeCount, Smaller, RPI5_DISPLAY_HANDOFF_MAX_PROBE_DISPLAYS

\* The entry of PublishDisplayHandoff, for both callers.
LEMMA PublishKeeps ==
  ASSUME IInv, run = Idle, NEW m \in Modes, gop' = m,
         NEW caller \in {"DisplaySetMode", "ReadyToBoot"}, caller = "ReadyToBoot" => event,
         Publish(caller, m), UNCHANGED <<starts, late, event, r5dh, r5dg>>
  PROVE  IInv'
<1>1. TypeOK'
  <2>1. run' \in Runs
    <3>1. PICK answer \in Nat :
            run' = [Idle EXCEPT !.at = "probe", !.caller = caller, !.count = ProbeCount(answer)]
      BY DisplayAssumption DEF Publish
    <3>2. ProbeCount(answer) \in 0 .. RPI5_DISPLAY_HANDOFF_MAX_PROBE_DISPLAYS
      BY CountIsCapped
    <3> QED BY <3>1, <3>2, IdleType DEF Runs, Idle
  <2>2. diag' \in [flags : SUBSET Flags, source : Sources, mode : Modes \union {NoMode}]
    BY DEF IInv, TypeOK, Flags, Sources, Publish, ZeroDiag
  <2> QED BY <2>1, <2>2 DEF IInv, TypeOK, Publish
<1>2. PhaseInv'
  BY DisplayAssumption, HandoffAssumption DEF IInv, TypeOK, Runs, PhaseInv, Sound,
       Publish, ProbeCount, Smaller, ZeroDiag, Idle,
       RPI5_DISPLAY_HANDOFF_MAX_PROBE_DISPLAYS
<1>3. CarriedInv'
  BY DEF IInv, CarriedInv, Sound, Publish, ZeroDiag, Idle
<1>4. DiagInv'
  BY DEF IInv, DiagInv, DiagnosticsAreTrue, Publish, ZeroDiag, Idle
<1>5. TableInv'
  BY DEF IInv, TableInv, Publish, ZeroDiag, Idle
<1> QED BY <1>1, <1>2, <1>3, <1>4, <1>5 DEF IInv

\* The end of the driver's Start.
LEMMA InstallGopKeeps ==
  ASSUME IInv, InstallGop
  PROVE  IInv'
<1>1. TypeOK'
  BY DisplayAssumption DEF IInv, TypeOK, InstallGop
<1>2. PhaseInv'
  BY DEF IInv, PhaseInv, Sound, InstallGop
<1>3. CarriedInv'
  BY DEF IInv, CarriedInv, Sound, InstallGop
<1>4. DiagInv'
  BY DEF IInv, DiagInv, DiagnosticsAreTrue, InstallGop
<1>5. TableInv'
  BY DEF IInv, TypeOK, Runs, TableInv, InstallGop
<1> QED BY <1>1, <1>2, <1>3, <1>4, <1>5 DEF IInv

\* ReadyToBoot before any mode has been set.
LEMMA UnsetModeKeeps ==
  ASSUME IInv, run = Idle, gop = NoMode, event,
         run' = [Idle EXCEPT !.at = "diag", !.caller = "ReadyToBoot", !.status = "EFI_NOT_READY"],
         UNCHANGED <<gop, starts, late, event, diag, variable, r5dh, r5dg>>
  PROVE  IInv'
<1>1. TypeOK'
  <2>1. run' \in Runs
    BY DEF IInv, TypeOK, Runs, Idle, NoTiming
  <2> QED BY <2>1 DEF IInv, TypeOK
<1>2. PhaseInv'
  BY DEF IInv, PhaseInv, Sound, Idle, NoTiming
<1>3. CarriedInv'
  BY DEF IInv, CarriedInv, Sound, Idle, NoTiming
<1>4. DiagInv'
  BY DEF IInv, DiagInv, DiagnosticsAreTrue, Idle, NoTiming
<1>5. TableInv'
  BY DEF IInv, TableInv, Idle, NoTiming
<1> QED BY <1>1, <1>2, <1>3, <1>4, <1>5 DEF IInv

\* A candidate is given up.
LEMMA NextDisplayKeeps ==
  ASSUME IInv, run.at \in {"probe", "edid"}, run.index < run.count, GoOn(NextDisplay),
         MayBeLate
  PROVE  IInv'
<1>1. TypeOK'
  <2>1. run' \in Runs
    <3>1. run.index + 1 \in 0 .. RPI5_DISPLAY_HANDOFF_MAX_PROBE_DISPLAYS
      BY DEF IInv, TypeOK, Runs, RPI5_DISPLAY_HANDOFF_MAX_PROBE_DISPLAYS
    <3> QED BY <3>1 DEF IInv, TypeOK, Runs, GoOn, NextDisplay
  <2> QED BY <2>1 DEF IInv, TypeOK, GoOn, NextDisplay, MayBeLate
<1>2. PhaseInv'
  BY DEF IInv, TypeOK, Runs, PhaseInv, Sound, GoOn, NextDisplay
<1>3. CarriedInv'
  BY DEF IInv, CarriedInv, Sound, GoOn, NextDisplay
<1>4. DiagInv'
  BY DEF IInv, DiagInv, DiagnosticsAreTrue, GoOn, NextDisplay
<1>5. TableInv'
  BY DEF IInv, TableInv, GoOn, NextDisplay
<1> QED BY <1>1, <1>2, <1>3, <1>4, <1>5 DEF IInv

\* The firmware has no timing for a candidate.
LEMMA AskEdidKeeps ==
  ASSUME IInv, Probing, NEW d \in DisplayIds,
         GoOn([run EXCEPT !.at = "edid", !.display = d]), MayBeLate
  PROVE  IInv'
<1>1. TypeOK'
  <2>1. run' \in Runs
    BY DEF IInv, TypeOK, Runs, Probing, GoOn
  <2> QED BY <2>1 DEF IInv, TypeOK, Probing, GoOn, MayBeLate
<1>2. PhaseInv'
  BY DEF IInv, PhaseInv, Sound, Probing, GoOn
<1>3. CarriedInv'
  BY DEF IInv, CarriedInv, Sound, Probing, GoOn
<1>4. DiagInv'
  BY DEF IInv, DiagInv, DiagnosticsAreTrue, Probing, GoOn
<1>5. TableInv'
  BY DEF IInv, TableInv, Probing, GoOn
<1> QED BY <1>1, <1>2, <1>3, <1>4, <1>5 DEF IInv

\* A timing is selected, whichever of the three sources it is from.
LEMMA SelectKeeps ==
  ASSUME IInv, run.at \in {"probe", "edid"}, NEW t \in Timings, t.source \in Sources,
         t.intact, t.mode = gop, NEW d \in DisplayIds, NEW own \in BOOLEAN,
         own \/ t.source # "FIRMWARE" => t.display = d, Select(t, d, own), MayBeLate
  PROVE  IInv'
<1>1. TypeOK'
  <2>1. run' \in Runs
    <3>1. run' = [run EXCEPT !.at = "handoff", !.count = 0, !.index = 0,
                             !.display = d, !.timing = t, !.own = own]
      BY DEF Select
    <3>2. 0 \in 0 .. RPI5_DISPLAY_HANDOFF_MAX_PROBE_DISPLAYS
      BY DEF RPI5_DISPLAY_HANDOFF_MAX_PROBE_DISPLAYS
    <3>3. run \in Runs
      BY DEF IInv, TypeOK
    <3> QED BY <3>1, <3>2, <3>3, Zenon DEF Runs
  <2>2. diag' \in [flags : SUBSET Flags, source : Sources, mode : Modes \union {NoMode}]
    BY DEF IInv, TypeOK, Flags, Sources, Select, SourceFlag
  <2> QED BY <2>1, <2>2 DEF IInv, TypeOK, Select, MayBeLate
<1>2. PhaseInv'
  BY DEF IInv, PhaseInv, Sound, Select, SourceFlag
<1>3. CarriedInv'
  BY DEF IInv, CarriedInv, Sound, Select, SourceFlag
<1>4. DiagInv'
  BY DEF IInv, TypeOK, Runs, PhaseInv, DiagInv, DiagnosticsAreTrue, Select, SourceFlag
<1>5. TableInv'
  BY DEF IInv, TableInv, Select, SourceFlag
<1> QED BY <1>1, <1>2, <1>3, <1>4, <1>5 DEF IInv

\* No source has a timing.
LEMMA NoTimingFoundKeeps ==
  ASSUME IInv, NoTimingFound
  PROVE  IInv'
<1>1. TypeOK'
  <2>1. run' \in Runs
    <3>1. CASE run.caller = "ReadyToBoot"
      BY <3>1 DEF IInv, TypeOK, Runs, NoTimingFound, GoOn, Returned
    <3>2. CASE run.caller # "ReadyToBoot"
      BY <3>2, IdleType DEF NoTimingFound, GoOn, Returned
    <3> QED BY <3>1, <3>2
  <2> QED BY <2>1 DEF IInv, TypeOK, NoTimingFound, GoOn, Returned
<1>2. PhaseInv'
  BY DEF IInv, PhaseInv, Sound, NoTimingFound, GoOn, Returned, Idle
<1>3. CarriedInv'
  BY DEF IInv, CarriedInv, Sound, NoTimingFound, GoOn, Returned, Idle
<1>4. DiagInv'
  BY DEF IInv, TypeOK, Runs, PhaseInv, DiagInv, DiagnosticsAreTrue, NoTimingFound, GoOn,
       Returned, Idle, NoTiming
<1>5. TableInv'
  BY DEF IInv, TableInv, NoTimingFound, GoOn, Returned, Idle
<1> QED BY <1>1, <1>2, <1>3, <1>4, <1>5 DEF IInv

\* The handoff is put together, with an EDID or without one.
LEMMA MakeHandoffKeeps ==
  ASSUME IInv, run.at = "handoff", NEW edid \in Edids \union {NoEdid}, NEW complete \in BOOLEAN,
         ~ late /\ edid # NoEdid => edid.display = run.display,
         IF complete THEN EdidComplete(edid) ELSE edid = NoEdid,
         MakeHandoff(edid, complete), MayBeLate
  PROVE  IInv'
<1>1. TypeOK'
  <2>1. run'.handoff \in Handoffs
    BY DEF IInv, TypeOK, PhaseInv, Handoffs, Runs, MakeHandoff, Flagged
  <2>2. run' \in Runs
    BY DEF IInv, TypeOK, Handoffs, PhaseInv, Runs, MakeHandoff, Flagged
  <2>3. diag' \in [flags : SUBSET Flags, source : Sources, mode : Modes \union {NoMode}]
    BY DEF IInv, TypeOK, Flags, Sources, MakeHandoff, Flagged
  <2> QED BY <2>1, <2>2, <2>3 DEF IInv, TypeOK, MakeHandoff, MayBeLate
<1>2. PhaseInv'
  <2>1. run'.handoff \in Handoffs
    BY <1>1, HandoffAssumption DEF IInv, TypeOK, PhaseInv, Handoffs, Runs, MakeHandoff, Flagged
  <2>2. Sound(run'.handoff)
    <3>1. /\ run'.handoff.display = run.display /\ run'.handoff.timing = run.timing
          /\ run'.handoff.flag = complete /\ run'.handoff.edid = edid
          /\ run'.handoff.own = (run.own /\ (complete => ~ late))
      BY DEF MakeHandoff, IInv, TypeOK, Runs
    <3>2. /\ run.timing.intact
          /\ run.own \/ run.timing.source # "FIRMWARE" => run.timing.display = run.display
      BY DEF IInv, PhaseInv
    <3>3. CASE complete
      BY <3>1, <3>2, <3>3 DEF Sound
    <3>4. CASE ~ complete
      BY <3>1, <3>2, <3>4 DEF Sound
    <3> QED BY <3>3, <3>4
  <2> QED BY <2>1, <2>2 DEF IInv, TypeOK, Runs, PhaseInv, MakeHandoff
<1>3. CarriedInv'
  BY DEF IInv, CarriedInv, Sound, MakeHandoff, Flagged
<1>4. DiagInv'
  BY DEF IInv, TypeOK, Runs, PhaseInv, DiagInv, DiagnosticsAreTrue, MakeHandoff, Flagged
<1>5. TableInv'
  BY DEF IInv, TableInv, MakeHandoff, Flagged
<1> QED BY <1>1, <1>2, <1>3, <1>4, <1>5 DEF IInv

\* The variable is written; nothing is claimed of it yet.
LEMMA SetVariableKeeps ==
  ASSUME IInv, SetVariable
  PROVE  IInv'
<1>1. TypeOK'
  <2>1. run' \in Runs
    BY DEF IInv, TypeOK, Runs, SetVariable
  <2>2. variable' \in Handoffs \union {NoHandoff, Damaged}
    BY DEF IInv, TypeOK, PhaseInv, SetVariable
  <2> QED BY <2>1, <2>2 DEF IInv, TypeOK, SetVariable
<1>2. PhaseInv'
  BY DEF IInv, TypeOK, Runs, PhaseInv, Sound, SetVariable
<1>3. CarriedInv'
  BY DEF IInv, TypeOK, Runs, PhaseInv, CarriedInv, Sound, SetVariable
<1>4. DiagInv'
  <2>1. CASE variable' = variable /\ run' = [run EXCEPT !.at = "acpi"]
    BY <2>1 DEF IInv, TypeOK, Runs, PhaseInv, DiagInv, DiagnosticsAreTrue, SetVariable
  <2>2. CASE run' = [run EXCEPT !.at = "verify"]
    BY <2>2 DEF IInv, TypeOK, Runs, PhaseInv, DiagInv, DiagnosticsAreTrue, SetVariable
  <2> QED BY <2>1, <2>2 DEF SetVariable
<1>5. TableInv'
  BY DEF IInv, TypeOK, Runs, TableInv, SetVariable
<1> QED BY <1>1, <1>2, <1>3, <1>4, <1>5 DEF IInv

\* The variable reads back as it was written.
LEMMA PublishedKeeps ==
  ASSUME IInv, run.at = "verify", variable = run.handoff, Published,
         UNCHANGED <<gop, starts, late, event, r5dh, r5dg>>
  PROVE  IInv'
<1>1. TypeOK'
  <2>1. run' \in Runs
    BY DEF IInv, TypeOK, Runs, Published, Flagged
  <2>2. diag' \in [flags : SUBSET Flags, source : Sources, mode : Modes \union {NoMode}]
    BY DEF IInv, TypeOK, Flags, Sources, Published, Flagged
  <2> QED BY <2>1, <2>2 DEF IInv, TypeOK, Published
<1>2. PhaseInv'
  BY DEF IInv, PhaseInv, Sound, Published, Flagged
<1>3. CarriedInv'
  BY DEF IInv, CarriedInv, Sound, Published, Flagged
<1>4. DiagInv'
  BY DEF IInv, TypeOK, Runs, PhaseInv, DiagInv, DiagnosticsAreTrue, Published, Flagged
<1>5. TableInv'
  BY DEF IInv, TableInv, Published, Flagged
<1> QED BY <1>1, <1>2, <1>3, <1>4, <1>5 DEF IInv

\* It does not, or cannot be read.
LEMMA WithdrawnKeeps ==
  ASSUME IInv, run.at = "verify", Withdrawn,
         UNCHANGED <<gop, starts, late, event, r5dh, r5dg>>
  PROVE  IInv'
<1>1. TypeOK'
  <2>1. run' \in Runs
    BY DEF IInv, TypeOK, Runs, Withdrawn
  <2> QED BY <2>1 DEF IInv, TypeOK, Withdrawn
<1>2. PhaseInv'
  BY DEF IInv, PhaseInv, Sound, Withdrawn
<1>3. CarriedInv'
  BY DEF IInv, CarriedInv, Sound, Withdrawn
<1>4. DiagInv'
  BY DEF IInv, TypeOK, Runs, PhaseInv, DiagInv, DiagnosticsAreTrue, Withdrawn
<1>5. TableInv'
  BY DEF IInv, TableInv, Withdrawn
<1> QED BY <1>1, <1>2, <1>3, <1>4, <1>5 DEF IInv

\* R5DH is installed.
LEMMA TableInstalledKeeps ==
  ASSUME IInv, run.at = "acpi", run.caller = "ReadyToBoot", r5dh' = Append(r5dh, run.handoff),
         diag' = Flagged("R5DH_INSTALLED"), run' = Returned(Status(TRUE)),
         UNCHANGED <<gop, starts, late, event, variable, r5dg>>
  PROVE  IInv'
<1>1. TypeOK'
  <2>1. run' \in Runs
    BY DEF IInv, TypeOK, Runs, Returned, Status, Flagged
  <2>2. diag' \in [flags : SUBSET Flags, source : Sources, mode : Modes \union {NoMode}]
    BY DEF IInv, TypeOK, Flags, Sources, Returned, Status, Flagged
  <2>3. r5dh' \in Seq(Handoffs)
    BY DEF IInv, TypeOK, PhaseInv, Returned, Status, Flagged
  <2> QED BY <2>1, <2>2, <2>3 DEF IInv, TypeOK, Returned, Status
<1>2. PhaseInv'
  BY DEF IInv, PhaseInv, Sound, Returned, Status, Flagged
<1>3. CarriedInv'
  BY DEF IInv, TypeOK, Runs, PhaseInv, CarriedInv, Sound, Returned, Status, Flagged
<1>4. DiagInv'
  BY HandoffAssumption DEF IInv, TypeOK, Runs, PhaseInv, DiagInv, DiagnosticsAreTrue,
       Returned, Status, Flagged
<1>5. TableInv'
  BY DEF IInv, TypeOK, Runs, TableInv, Returned, Status, Flagged
<1> QED BY <1>1, <1>2, <1>3, <1>4, <1>5 DEF IInv

\* R5DH cannot be installed.
LEMMA TableFailedKeeps ==
  ASSUME IInv, run.at = "acpi", run.caller = "ReadyToBoot", run' = Returned(Status(FALSE)),
         UNCHANGED <<gop, starts, late, event, diag, variable, r5dh, r5dg>>
  PROVE  IInv'
<1>1. TypeOK'
  <2>1. run' \in Runs
    BY DEF IInv, TypeOK, Runs, Returned, Status
  <2> QED BY <2>1 DEF IInv, TypeOK, Returned, Status
<1>2. PhaseInv'
  BY DEF IInv, PhaseInv, Sound, Returned, Status
<1>3. CarriedInv'
  BY DEF IInv, CarriedInv, Sound, Returned, Status
<1>4. DiagInv'
  BY HandoffAssumption DEF IInv, TypeOK, Runs, PhaseInv, DiagInv, DiagnosticsAreTrue,
       Returned, Status
<1>5. TableInv'
  BY DEF IInv, TableInv, Returned, Status
<1> QED BY <1>1, <1>2, <1>3, <1>4, <1>5 DEF IInv

\* A publication from DisplaySetMode ends without a table.
LEMMA LeaveAcpiAloneKeeps ==
  ASSUME IInv, LeaveAcpiAlone
  PROVE  IInv'
<1>1. TypeOK'
  <2>1. run' \in Runs
    BY DEF IInv, TypeOK, Runs, LeaveAcpiAlone, GoOn, Returned, Idle,
         RPI5_DISPLAY_HANDOFF_MAX_PROBE_DISPLAYS
  <2> QED BY <2>1 DEF IInv, TypeOK, LeaveAcpiAlone, GoOn, Returned
<1>2. PhaseInv'
  BY DEF IInv, PhaseInv, Sound, LeaveAcpiAlone, GoOn, Returned, Idle
<1>3. CarriedInv'
  BY DEF IInv, CarriedInv, Sound, LeaveAcpiAlone, GoOn, Returned, Idle
<1>4. DiagInv'
  BY DEF IInv, DiagInv, DiagnosticsAreTrue, LeaveAcpiAlone, GoOn, Returned, Idle
<1>5. TableInv'
  BY DEF IInv, TableInv, LeaveAcpiAlone, GoOn, Returned, Idle
<1> QED BY <1>1, <1>2, <1>3, <1>4, <1>5 DEF IInv

\* R5DG is installed or not, and the event is closed.
LEMMA DiagnosticsKeep ==
  ASSUME IInv, InstallDisplayDiagnosticsAcpi
  PROVE  IInv'
<1>1. TypeOK'
  <2>1. run' \in Runs
    BY DEF IInv, TypeOK, Runs, InstallDisplayDiagnosticsAcpi, Flagged, EventAfter, Idle,
         RPI5_DISPLAY_HANDOFF_MAX_PROBE_DISPLAYS
  <2>2. diag' \in [flags : SUBSET Flags, source : Sources, mode : Modes \union {NoMode}]
    BY DEF IInv, TypeOK, Flags, Sources, InstallDisplayDiagnosticsAcpi, Flagged
  <2>3. event' \in BOOLEAN
    BY Zenon DEF InstallDisplayDiagnosticsAcpi, EventAfter
  <2>4. r5dg' \in Nat
    BY DEF IInv, TypeOK, InstallDisplayDiagnosticsAcpi
  <2> QED BY <2>1, <2>2, <2>3, <2>4 DEF IInv, TypeOK, InstallDisplayDiagnosticsAcpi
<1>2. PhaseInv'
  BY DEF IInv, PhaseInv, Sound, InstallDisplayDiagnosticsAcpi, Flagged, EventAfter, Idle
<1>3. CarriedInv'
  BY DEF IInv, CarriedInv, Sound, InstallDisplayDiagnosticsAcpi, Flagged, EventAfter,
       Idle
<1>4. DiagInv'
  BY DEF IInv, DiagInv, DiagnosticsAreTrue, InstallDisplayDiagnosticsAcpi, Flagged,
       EventAfter, Idle
<1>5. TableInv'
  BY DEF IInv, TypeOK, Runs, PhaseInv, TableInv, InstallDisplayDiagnosticsAcpi, Flagged,
       EventAfter, Idle
<1> QED BY <1>1, <1>2, <1>3, <1>4, <1>5 DEF IInv

\* The power goes.
LEMMA RestartKeeps ==
  ASSUME IInv, Restart
  PROVE  IInv'
<1>1. TypeOK'
  <2>1. run' \in Runs
    BY DEF IInv, TypeOK, Runs, Restart, Idle, ZeroDiag,
         RPI5_DISPLAY_HANDOFF_MAX_PROBE_DISPLAYS
  <2>2. diag' \in [flags : SUBSET Flags, source : Sources, mode : Modes \union {NoMode}]
    BY DEF IInv, TypeOK, Flags, Sources, Restart, ZeroDiag
  <2>3. event' \in BOOLEAN
    BY Zenon DEF Restart
  <2>4. r5dh' \in Seq(Handoffs)
    BY DEF Restart
  <2>5. starts' \in 0 .. MaxStarts /\ r5dg' \in Nat
    BY DisplayAssumption DEF Restart
  <2> QED BY <2>1, <2>2, <2>3, <2>4, <2>5 DEF TypeOK, Restart
<1>2. PhaseInv'
  BY DEF IInv, PhaseInv, Sound, Restart, Idle, ZeroDiag
<1>3. CarriedInv'
  BY DEF IInv, CarriedInv, Sound, Restart, Idle, ZeroDiag
<1>4. DiagInv'
  BY DEF IInv, DiagInv, DiagnosticsAreTrue, Restart, Idle, ZeroDiag
<1>5. TableInv'
  BY DEF IInv, TableInv, Restart, Idle, ZeroDiag
<1> QED BY <1>1, <1>2, <1>3, <1>4, <1>5 DEF IInv

\* The invariant holds when the power comes on.
LEMMA InitInv == Init => IInv
<1> SUFFICES ASSUME Init PROVE IInv
  OBVIOUS
<1>1. TypeOK
  <2>1. diag \in [flags : SUBSET Flags, source : Sources, mode : Modes \union {NoMode}]
    BY DEF Init, ZeroDiag, Flags, Sources
  <2>2. run \in Runs
    BY IdleType DEF Init
  <2>3. event \in BOOLEAN
    BY Zenon DEF Init
  <2>4. r5dh \in Seq(Handoffs)
    BY DEF Init
  <2>5. starts \in 0 .. MaxStarts /\ r5dg \in Nat
    BY DisplayAssumption DEF Init
  <2> QED BY <2>1, <2>2, <2>3, <2>4, <2>5 DEF Init, TypeOK
<1>2. PhaseInv
  BY DEF Init, Idle, PhaseInv
<1>3. CarriedInv
  BY DEF Init, CarriedInv
<1>4. DiagInv
  BY DEF Init, Idle, ZeroDiag, DiagInv, DiagnosticsAreTrue
<1>5. TableInv
  BY DisplayAssumption DEF Init, Idle, TableInv
<1> QED BY <1>1, <1>2, <1>3, <1>4, <1>5 DEF IInv

\* Every step keeps the invariant: one step for each action.
LEMMA NextInv == IInv /\ [Next]_vars => IInv'
<1> SUFFICES ASSUME IInv, [Next]_vars PROVE IInv'
  OBVIOUS
<1>1. ASSUME NEW m \in Modes, DisplaySetMode(m) PROVE IInv'
  BY <1>1, PublishKeeps DEF DisplaySetMode
<1>2. CASE InstallGop
  BY <1>2, InstallGopKeeps
<1>3. CASE ReadyToBoot
  <2>1. CASE gop = NoMode
    BY <1>3, <2>1, UnsetModeKeeps DEF ReadyToBoot
  <2>2. CASE gop # NoMode
    BY <1>3, <2>2, PublishKeeps DEF ReadyToBoot, IInv, TypeOK
  <2> QED BY <2>1, <2>2
<1>4. CASE NoDisplayId
  BY <1>4, NextDisplayKeeps DEF NoDisplayId, Probing, MayBeLate
<1>5. CASE FirmwareTiming
  <2>1. PICK d \in DisplayIds, t \in FirmwareTimings :
          (late \/ t.display = d) /\ ValidateDisplayTiming(t, gop) /\ Select(t, d, ~ late)
    BY <1>5 DEF FirmwareTiming
  <2>2. t \in Timings /\ t.source = "FIRMWARE" /\ t.source \in Sources
    BY DEF FirmwareTimings, Timings, Sources
  <2>3. t.intact /\ t.mode = gop
    BY <2>1 DEF ValidateDisplayTiming
  <2>4. ~ late => t.display = d
    BY <2>1
  <2>5. MayBeLate /\ run.at = "probe"
    BY <1>5 DEF FirmwareTiming, MayBeLate, Probing
  <2>6. (~ late) \in BOOLEAN
    OBVIOUS
  <2> QED BY <2>1, <2>2, <2>3, <2>4, <2>5, <2>6, SelectKeeps
<1>6. CASE NoFirmwareTiming
  BY <1>6, AskEdidKeeps DEF NoFirmwareTiming
<1>7. CASE NoEdidTiming
  <2>1. GoOn(NextDisplay) /\ run.at = "edid" /\ MayBeLate
    BY <1>7 DEF NoEdidTiming
  <2>2. run.index < run.count
    BY <2>1 DEF IInv, PhaseInv
  <2> QED BY <2>1, <2>2, NextDisplayKeeps
<1>8. CASE EdidTimingFound
  <2>1. PICK e \in ReadDisplayEdid(run.display) :
          \E t \in FindEdidDetailedTiming(e, gop, run.display) : Select(t, run.display, ~ late)
    BY <1>8 DEF EdidTimingFound
  <2>2. PICK b \in DtdBlocks(e, gop, e.read) :
          Select(EdidTiming(e, gop, run.display, b), run.display, ~ late)
    BY <2>1 DEF FindEdidDetailedTiming
  <2>3. e \in Edids
    BY DEF ReadDisplayEdid
  <2>4. gop \in Modes /\ run.display \in DisplayIds
    BY <1>8 DEF EdidTimingFound, IInv, TypeOK, PhaseInv
  <2>5. b < e.read
    BY <2>3 DEF DtdBlocks, Edids
  <2>6. EdidTiming(e, gop, run.display, b) \in Timings
    BY <2>3, <2>4 DEF EdidTiming, Timings, Sources
  <2> DEFINE t == EdidTiming(e, gop, run.display, b)
  <2>7. /\ t.display = run.display /\ t.source \in Sources
        /\ t.intact /\ t.mode = gop
    BY <2>3, <2>5 DEF EdidTiming, Sources
  <2>8. MayBeLate /\ run.at = "edid"
    BY <1>8 DEF EdidTimingFound
  <2>9. (~ late) \in BOOLEAN
    OBVIOUS
  <2> QED BY <2>2, <2>4, <2>6, <2>7, <2>8, <2>9, SelectKeeps
<1>9. CASE PixelValveTiming
  <2>1. PICK pv \in DOMAIN PixelValveDisplay :
          Select([display |-> PixelValveDisplay[pv], mode |-> gop,
                  source |-> "PIXELVALVE", intact |-> TRUE], PixelValveDisplay[pv], TRUE)
    BY <1>9 DEF PixelValveTiming
  <2>2. PixelValveDisplay[pv] \in DisplayIds
    BY DisplayAssumption DEF PixelValveDisplay
  <2>3. gop \in Modes
    BY <1>9 DEF PixelValveTiming, IInv, TypeOK, PhaseInv
  <2> DEFINE t == [display |-> PixelValveDisplay[pv], mode |-> gop,
                   source |-> "PIXELVALVE", intact |-> TRUE]
  <2>4. /\ t \in Timings /\ t.display = PixelValveDisplay[pv] /\ t.source \in Sources
        /\ t.intact /\ t.mode = gop
    BY <2>2, <2>3 DEF Timings, Sources
  <2>5. MayBeLate /\ run.at = "probe"
    BY <1>9 DEF PixelValveTiming, MayBeLate
  <2> QED BY <2>1, <2>2, <2>4, <2>5, SelectKeeps
<1>10. CASE NoTimingFound
  BY <1>10, NoTimingFoundKeeps
<1>11. CASE AttachEdid
  <2>1. CASE MakeHandoff(NoEdid, FALSE)
    BY <1>11, <2>1, MakeHandoffKeeps DEF AttachEdid
  <2>2. CASE \E e \in ReadDisplayEdid(EdidDisplay) : MakeHandoff(KeptEdid(e), EdidComplete(e))
    <3>1. PICK e \in ReadDisplayEdid(EdidDisplay) : MakeHandoff(KeptEdid(e), EdidComplete(e))
      BY <2>2
    <3>2. e \in Edids /\ (~ late => e.display = run.display)
      BY DEF ReadDisplayEdid, EdidDisplay
    <3>3. EdidComplete(e) \in BOOLEAN
      BY DEF EdidComplete
    <3>4. KeptEdid(e) \in Edids \union {NoEdid}
      BY <3>2 DEF KeptEdid
    <3>5. ~ late /\ KeptEdid(e) # NoEdid => KeptEdid(e).display = run.display
      BY <3>2 DEF KeptEdid
    <3>6. IF EdidComplete(e) THEN EdidComplete(KeptEdid(e)) ELSE KeptEdid(e) = NoEdid
      BY DEF KeptEdid
    <3> QED BY <1>11, <3>1, <3>3, <3>4, <3>5, <3>6, MakeHandoffKeeps DEF AttachEdid
  <2> QED BY <1>11, <2>1, <2>2 DEF AttachEdid
<1>12. CASE SetVariable
  BY <1>12, SetVariableKeeps
<1>13. CASE VerifyVariable
  BY <1>13, PublishedKeeps, WithdrawnKeeps DEF VerifyVariable
<1>14. CASE InstallDisplayHandoffAcpi
  BY <1>14, TableInstalledKeeps, TableFailedKeeps DEF InstallDisplayHandoffAcpi
<1>15. CASE LeaveAcpiAlone
  BY <1>15, LeaveAcpiAloneKeeps
<1>16. CASE InstallDisplayDiagnosticsAcpi
  BY <1>16, DiagnosticsKeep
<1>17. CASE Restart
  BY <1>17, RestartKeeps
<1>18. CASE UNCHANGED vars
  <2>1. TypeOK'
    BY <1>18 DEF vars, IInv, TypeOK
  <2>2. PhaseInv' /\ CarriedInv' /\ DiagInv' /\ TableInv'
    BY <1>18 DEF vars, IInv, PhaseInv, Sound, CarriedInv, DiagInv, DiagnosticsAreTrue,
         TableInv
  <2> QED BY <2>1, <2>2 DEF IInv
<1> QED
  BY <1>1, <1>2, <1>3, <1>4, <1>5, <1>6, <1>7, <1>8, <1>9, <1>10, <1>11, <1>12, <1>13,
       <1>14, <1>15, <1>16, <1>17, <1>18 DEF Next

-----------------------------------------------------------------------------
\* The inductive invariant holds in every reachable state.
THEOREM HandoffInvariant == Spec => []IInv
BY InitInv, NextInv, PTL DEF Spec

\* Every variable keeps its type, the probing its bound of four displays.
THEOREM DisplayTypeCorrect == Spec => []TypeOK
<1>1. IInv => TypeOK
  BY DEF IInv
<1> QED BY <1>1, HandoffInvariant, PTL

\* A handoff holds no timing from data that failed its checks and, whatever the
\* display queries answer in time, mixes no two displays; an answer that comes
\* late mixes them in the two ways that HandoffIsCoherent names and no other.
THEOREM CoherenceHolds == Spec => []HandoffIsCoherent
<1>1. IInv => HandoffIsCoherent
  BY DEF IInv, TypeOK, CarriedInv, Carried, Sound, HandoffIsCoherent
<1> QED BY <1>1, HandoffInvariant, PTL

\* A handoff carries a whole EDID or none, whatever the monitors' sizes.
THEOREM WholeEdidHolds == Spec => []EdidIsWhole
<1>1. IInv => EdidIsWhole
  BY DEF IInv, TypeOK, CarriedInv, Carried, Sound, EdidIsWhole
<1> QED BY <1>1, HandoffInvariant, PTL

\* R5DG describes the publication of its own ReadyToBoot.
THEOREM DiagnosticsHold == Spec => []DiagnosticsAreTrue
<1>1. IInv => DiagnosticsAreTrue
  BY DEF IInv, DiagInv
<1> QED BY <1>1, HandoffInvariant, PTL

\* The tables never outnumber the starts of the driver.
THEOREM OneTableHolds == Spec => []OneTablePerStart
<1>1. IInv => OneTablePerStart
  BY DEF IInv, TableInv, OneTablePerStart
<1> QED BY <1>1, HandoffInvariant, PTL

\* A published handoff gives way to nothing but a complete one for the
\* current mode.
THEOREM PreviousKeptHolds == Spec => PreviousIsKept
<1>1. IInv /\ [Next]_vars =>
        [variable \notin {NoHandoff, Damaged} /\ variable' # variable /\ gop' # NoMode =>
            run.handoff # NoHandoff /\ run.handoff.timing.mode = gop]_vars
  <2> SUFFICES ASSUME IInv, Next, variable' # variable, gop' # NoMode
               PROVE  run.handoff # NoHandoff /\ run.handoff.timing.mode = gop
    BY DEF vars
  <2>1. SetVariable \/ VerifyVariable
    BY DEF Next, DisplaySetMode, InstallGop, ReadyToBoot, Publish, NoDisplayId,
         FirmwareTiming, NoFirmwareTiming, NoEdidTiming, EdidTimingFound,
         PixelValveTiming, NoTimingFound, AttachEdid, MakeHandoff, Select, GoOn,
         InstallDisplayHandoffAcpi, LeaveAcpiAlone, InstallDisplayDiagnosticsAcpi,
         Restart
  <2>2. run.at \in {"variable", "verify"}
    BY <2>1 DEF SetVariable, VerifyVariable
  <2> QED BY <2>2, HandoffAssumption DEF IInv, PhaseInv
<1> QED BY <1>1, HandoffInvariant, PTL DEF Spec, PreviousIsKept

=============================================================================
