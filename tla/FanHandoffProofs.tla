-------------------------- MODULE FanHandoffProofs --------------------------
(***************************************************************************)
(* Proofs about UEFI's fan control and its handoff to Windows, for every   *)
(* set of temperatures, settings and duty cycles, and any number of        *)
(* restarts.                                                               *)
(***************************************************************************)
EXTENDS FanHistory, TLAPS

-----------------------------------------------------------------------------
(* The curve *)

LEMMA AutomaticSpeedIsLevel ==
    ASSUME NEW t \in Nat, NEW p \in Levels
    PROVE  GetAutomaticFanSpeed(t, p) \in Levels
<1>1. Wanted(t) \in Levels
  BY DEF Wanted, Levels
<1>2. QED
  BY <1>1 DEF GetAutomaticFanSpeed

\* The two copies of the curve, in UEFI and in Windows, ask for the same speed
\* at every temperature and from every speed automatic mode can be at.  (Windows
\* does not begin at UEFI's speed: what is handed over is 100%.)
THEOREM SameCurveAsWindows ==
    ASSUME NEW t \in Nat, NEW p \in Levels
    PROVE  GetAutomaticFanSpeed(t, p) = FanCurvePercent(t, p)
<1>1. /\ DOMAIN KeptFrom = {40, 50, 70, 100}
      /\ KeptFrom[100] = 70000 /\ KeptFrom[70] = 62500
      /\ KeptFrom[50] = 55000 /\ KeptFrom[40] = 45000
  BY DEF KeptFrom, Levels
<1>2. Wanted(t) = Target(t)
  BY DEF Wanted, Target
<1>3. Target(t) < p => (Holds(t, p) <=> p \in DOMAIN KeptFrom /\ t >= KeptFrom[p])
  BY <1>1 DEF Holds, Levels
<1>4. QED
  BY <1>2, <1>3 DEF GetAutomaticFanSpeed, FanCurvePercent

-----------------------------------------------------------------------------
(* Types *)

HandoffTypeOK ==
    /\ TypeOK
    /\ engaged \in BOOLEAN
    /\ evidence \in GovernorTemps \union {0}

LEMMA LevelsAreDuties == Levels \subseteq 0 .. 100
BY DEF Levels

\* What UpdateFan leaves has its type and, unless the timer runs and nothing
\* forces the fail-safe, is full speed.
LEMMA UpdateFanTypes ==
    ASSUME TypeOK, UpdateFan,
           mFanTimer' \in BOOLEAN, mForcePersistentFailSafe' \in BOOLEAN,
           firmwareInstalled' \in BOOLEAN
    PROVE  /\ mFanMode' \in Modes /\ mFanSpeed' \in ValidSpeeds
           /\ mAutomaticSpeed' \in Levels /\ mFirmware' \in BOOLEAN
           /\ pwm' \in 0 .. 100
           /\ mForcePersistentFailSafe' \/ ~ mFanTimer' => pwm' = FAN_FAIL_SAFE_SPEED
<1>1. mFanMode' \in Modes
  BY DEF UpdateFan, TypeOK, ReadMode, Modes
<1>2. mFanSpeed' \in ValidSpeeds
  BY DEF UpdateFan, TypeOK, ReadSpeed, ValidSpeeds, NoSpeed, FAN_FAIL_SAFE_SPEED, FAN_MINIMUM_SPEED
<1>3. soc \in Nat /\ mAutomaticSpeed \in Levels
  BY UefiFanAssumption DEF TypeOK
<1>4. GetAutomaticFanSpeed(soc, mAutomaticSpeed) \in Levels
  BY <1>3, AutomaticSpeedIsLevel
<1>5. mAutomaticSpeed' \in Levels
  BY <1>3, <1>4 DEF UpdateFan
<1>6. mFirmware' \in BOOLEAN
  BY DEF UpdateFan, TypeOK
<1>7. PICK answers \in BOOLEAN :
         pwm' = Programmed(UpdateSpeed(Sample(mFirmware' /\ answers)))
  BY DEF UpdateFan
<1>8. GetAutomaticFanSpeed(soc, mAutomaticSpeed) \in 0 .. 100
  BY <1>4, LevelsAreDuties
<1> DEFINE sampled == mFirmware' /\ answers
<1>a. Sample(sampled) \in 0 .. 100
  <2>1. CASE sampled
    BY <1>8, <2>1 DEF Sample
  <2>2. CASE ~ sampled
    BY <2>2 DEF Sample, FAN_FAIL_SAFE_SPEED
  <2>3. QED
    BY <2>1, <2>2
<1>9. UpdateSpeed(Sample(mFirmware' /\ answers)) \in 0 .. 100
  BY <1>2, <1>a DEF UpdateSpeed, ValidSpeeds, FAN_FAIL_SAFE_SPEED, FAN_MINIMUM_SPEED
<1>10. pwm' \in 0 .. 100
  BY <1>7, <1>9 DEF Programmed, FAN_FAIL_SAFE_SPEED
<1>11. mForcePersistentFailSafe' \/ ~ mFanTimer' => pwm' = FAN_FAIL_SAFE_SPEED
  BY <1>7 DEF Programmed, UpdateSpeed
<1>12. QED
  BY <1>1, <1>2, <1>5, <1>6, <1>10, <1>11

-----------------------------------------------------------------------------
(* The keeper of a slow fan *)

\* Inductive: before the variables are set up nothing has been found; a boot
\* without the ExitBootServices hook is forced to the fail-safe speed; and in
\* each phase full speed covers whatever has no keeper.
KeeperInv ==
    /\ HandoffTypeOK
    /\ phase \in {"start", "variables"} => ~ mRp1Bus /\ ~ mFanTimer
    /\ phase \notin {"os", "crashed"} => ~ engaged
    /\ phase = "boot" /\ ~ exitHook => mForcePersistentFailSafe
    /\ phase = "boot" /\ mRp1Bus /\ (mForcePersistentFailSafe \/ ~ mFanTimer) =>
          pwm = FAN_FAIL_SAFE_SPEED
    /\ phase \in {"os", "crashed"} /\ (mRp1Bus \/ engaged) /\ pwm # FAN_FAIL_SAFE_SPEED =>
          engaged /\ evidence \in GovernorTemps /\ pwm \in ValidSpeeds

LEMMA StartValues ==
    /\ FAN_FAIL_SAFE_SPEED \in ValidSpeeds /\ FAN_FAIL_SAFE_SPEED \in Levels
    /\ "PERSISTENT" \in Modes
BY DEF Levels, Modes, ValidSpeeds, FAN_FAIL_SAFE_SPEED, FAN_MINIMUM_SPEED

LEMMA KeeperInit == HandoffInit => KeeperInv
<1> SUFFICES ASSUME HandoffInit PROVE KeeperInv
  OBVIOUS
<1>1. Loaded /\ pwm \in 0 .. 100 /\ engaged = FALSE /\ evidence = 0
  BY UefiFanAssumption DEF HandoffInit, Init
<1>2. TypeOK
  BY <1>1, UefiFanAssumption, StartValues DEF Loaded, TypeOK
<1>3. QED
  BY <1>1, <1>2 DEF Loaded, KeeperInv, HandoffTypeOK

\* TryStartFanControl, in the boot phase or entering it.
LEMMA TryStartKeeps ==
    ASSUME KeeperInv, TryStartFanControl, phase' = "boot",
           busInstalled' \in BOOLEAN, firmwareInstalled' \in BOOLEAN,
           UNCHANGED <<stored, soc, engaged, evidence>>,
           exitHook' \in BOOLEAN, mForcePersistentFailSafe' \in BOOLEAN,
           ~ exitHook' => mForcePersistentFailSafe',
           phase \notin {"os", "crashed"},
           mForcePersistentFailSafe' # mForcePersistentFailSafe => phase = "variables"
    PROVE  KeeperInv'
<1> USE DEF stored, found, settings
<1>1. CASE mFanTimer
  <2>1. phase = "boot"
    BY <1>1 DEF KeeperInv, HandoffTypeOK, TypeOK
  <2>2. UNCHANGED <<mRp1Bus, mFirmware, mFanTimer, mFanMode, mFanSpeed, mAutomaticSpeed, pwm>>
    BY <1>1 DEF TryStartFanControl
  <2>3. QED
    BY <2>1, <2>2 DEF KeeperInv, HandoffTypeOK, TypeOK
<1>2. CASE ~ mFanTimer /\ ~ busInstalled'
  <2>1. /\ mRp1Bus' = FALSE
        /\ UNCHANGED <<mFirmware, mFanTimer, mFanMode, mFanSpeed, mAutomaticSpeed, pwm>>
    BY <1>2 DEF TryStartFanControl
  <2>2. QED
    BY <2>1 DEF KeeperInv, HandoffTypeOK, TypeOK
<1>3. CASE ~ mFanTimer /\ busInstalled'
  <2>1. mRp1Bus' = TRUE /\ mFanTimer' \in BOOLEAN /\ UpdateFan
    BY <1>3 DEF TryStartFanControl
  <2>2. TypeOK
    BY DEF KeeperInv, HandoffTypeOK
  <2>3. QED
    BY <2>1, <2>2, UpdateFanTypes DEF KeeperInv, HandoffTypeOK, TypeOK
<1>4. QED
  BY <1>1, <1>2, <1>3

LEMMA KeeperStep == KeeperInv /\ [HandoffNext]_allVars => KeeperInv'
<1> SUFFICES ASSUME KeeperInv, [HandoffNext]_allVars PROVE KeeperInv'
  OBVIOUS
<1> USE DEF stored, found, settings, protocols, hooks
<1>1. CASE UefiActs
  <2> phase \notin {"os", "crashed"} /\ Next /\ UNCHANGED <<engaged, evidence>>
    BY <1>1 DEF UefiActs
  <2>1. CASE SetupFanVariables
    BY <2>1 DEF SetupFanVariables, KeeperInv, HandoffTypeOK, TypeOK, ReadMode, ReadSpeed,
       Modes, ValidSpeeds, NoSpeed, FAN_FAIL_SAFE_SPEED, FAN_MINIMUM_SPEED
  <2>2. CASE ApplyFanVariables
    <3>1. /\ phase = "variables" /\ phase' = "boot" /\ exitHook' \in BOOLEAN
          /\ mForcePersistentFailSafe' = ~ exitHook'
          /\ UNCHANGED <<busInstalled, firmwareInstalled, storedMode, storedSpeed, soc>>
          /\ TryStartFanControl
      BY <2>2 DEF ApplyFanVariables, Forced
    <3>2. busInstalled' \in BOOLEAN /\ firmwareInstalled' \in BOOLEAN
      BY <3>1 DEF KeeperInv, HandoffTypeOK, TypeOK
    <3>3. QED
      BY <3>1, <3>2, TryStartKeeps
  <2>3. CASE ProtocolInstalled
    <3>1. /\ busInstalled' \in BOOLEAN /\ firmwareInstalled' \in BOOLEAN
          /\ UNCHANGED <<phase, storedMode, storedSpeed, soc, exitHook, mForcePersistentFailSafe>>
      BY <2>3 DEF ProtocolInstalled, KeeperInv, HandoffTypeOK, TypeOK
    <3>2. CASE phase = "boot"
      <4>1. TryStartFanControl
        BY <2>3, <3>2 DEF ProtocolInstalled
      <4>2. /\ exitHook' \in BOOLEAN /\ mForcePersistentFailSafe' \in BOOLEAN
            /\ ~ exitHook' => mForcePersistentFailSafe'
        BY <3>1, <3>2 DEF KeeperInv, HandoffTypeOK, TypeOK
      <4>3. QED
        BY <3>1, <3>2, <4>1, <4>2, TryStartKeeps
    <3>3. CASE phase # "boot"
      <4>1. UNCHANGED <<mRp1Bus, mFirmware, mFanTimer, mFanMode, mFanSpeed, mAutomaticSpeed, pwm>>
        BY <2>3, <3>3 DEF ProtocolInstalled
      <4>2. QED
        BY <3>1, <3>3, <4>1 DEF KeeperInv, HandoffTypeOK, TypeOK
    <3>4. QED
      BY <3>2, <3>3
  <2>4. CASE TimerTicks
    <3>1. /\ phase = "boot" /\ mFanTimer /\ mRp1Bus /\ UpdateFan
          /\ UNCHANGED <<phase, busInstalled, firmwareInstalled, storedMode, storedSpeed, soc,
                         exitHook, mForcePersistentFailSafe, mRp1Bus, mFanTimer>>
      BY <2>4 DEF TimerTicks
    <3>2. /\ TypeOK /\ mFanTimer' \in BOOLEAN /\ mForcePersistentFailSafe' \in BOOLEAN
          /\ firmwareInstalled' \in BOOLEAN
      BY <3>1 DEF KeeperInv, HandoffTypeOK, TypeOK
    <3>3. QED
      BY <3>1, <3>2, UpdateFanTypes DEF KeeperInv, HandoffTypeOK, TypeOK
  <2>5. CASE ExitBootServices
    <3>1. /\ phase = "boot" /\ phase' = "os"
          /\ pwm' = IF exitHook /\ mRp1Bus THEN FAN_FAIL_SAFE_SPEED ELSE pwm
          /\ UNCHANGED <<busInstalled, firmwareInstalled, storedMode, storedSpeed, soc,
                         exitHook, mForcePersistentFailSafe, mRp1Bus, mFirmware, mFanTimer,
                         mFanMode, mFanSpeed, mAutomaticSpeed>>
      BY <2>5 DEF ExitBootServices, HandoffSpeed
    <3>2. QED
      BY <3>1 DEF KeeperInv, HandoffTypeOK, TypeOK, FAN_FAIL_SAFE_SPEED
  <2>6. CASE UserSets
    BY <2>6, UefiFanAssumption DEF UserSets, KeeperInv, HandoffTypeOK, TypeOK
  <2>7. CASE TemperatureChanges
    BY <2>7 DEF TemperatureChanges, KeeperInv, HandoffTypeOK, TypeOK
  <2>8. QED
    BY <2>1, <2>2, <2>3, <2>4, <2>5, <2>6, <2>7 DEF Next
<1>2. CASE WindowsActs
  <2>1. /\ phase = "os" /\ phase' = phase /\ mRp1Bus' = mRp1Bus /\ TypeOK
        /\ UNCHANGED uefiVars
    BY <1>2 DEF WindowsActs, uefiVars, KeeperInv, HandoffTypeOK
  <2>2. pwm' \in 0 .. 100 => TypeOK'
    BY <2>1 DEF TypeOK, uefiVars
  <2>3. CASE Windows!Engage \/ Windows!Retreat
    <3>1. engaged' = TRUE /\ pwm' = FAN_FAIL_SAFE_SPEED /\ evidence' = 0
      BY <2>3 DEF Windows!Engage, Windows!Retreat
    <3>2. TypeOK'
      BY <2>2, <3>1 DEF FAN_FAIL_SAFE_SPEED
    <3>3. QED
      BY <2>1, <3>1, <3>2 DEF KeeperInv, HandoffTypeOK
  <2>4. CASE Windows!Judge
    <3>1. engaged' = TRUE /\ evidence' \in GovernorTemps /\ pwm' \in ValidSpeeds
      BY <2>4, HandoffAssumption DEF Windows!Judge
    <3>2. TypeOK'
      BY <2>2, <3>1 DEF ValidSpeeds, FAN_FAIL_SAFE_SPEED, FAN_MINIMUM_SPEED
    <3>3. QED
      BY <2>1, <3>1, <3>2 DEF KeeperInv, HandoffTypeOK
  <2>5. CASE Windows!Disengage
    BY <2>1, <2>2, <2>5 DEF Windows!Disengage, KeeperInv, HandoffTypeOK, TypeOK
  <2>6. QED
    BY <1>2, <2>3, <2>4, <2>5 DEF WindowsActs, Windows!Next
<1>3. CASE Restart
  <2>1. pwm' \in 0 .. 100
    BY <1>3, UefiFanAssumption DEF Restart, KeeperInv, HandoffTypeOK, TypeOK
  <2>2. TypeOK'
    BY <1>3, <2>1, StartValues DEF Restart, KeeperInv, HandoffTypeOK, TypeOK
  <2>3. QED
    BY <1>3, <2>2 DEF Restart, KeeperInv, HandoffTypeOK
<1>4. CASE Crash
  BY <1>4 DEF Crash, KeeperInv, HandoffTypeOK, TypeOK
<1>5. CASE UNCHANGED allVars
  BY <1>5 DEF allVars, vars, uefiVars, KeeperInv, HandoffTypeOK, TypeOK
<1>6. QED
  BY <1>1, <1>2, <1>3, <1>4, <1>5 DEF HandoffNext

\* Over the whole life of the machine, from UEFI through ExitBootServices and
\* Windows to the next boot, a fan that a driver has found never runs below
\* 100% with nobody behind it, except after a crash of the kernel, where it
\* keeps what the driver commanded last.
THEOREM SlowFanIsKept == HandoffSpec => []SlowFanHasAKeeper
<1>1. KeeperInv => SlowFanHasAKeeper
  BY DEF KeeperInv, HandoffTypeOK, TypeOK, SlowFanHasAKeeper, ValidSpeeds,
     FAN_FAIL_SAFE_SPEED, FAN_MINIMUM_SPEED
<1>2. QED
  BY KeeperInit, KeeperStep, <1>1, PTL DEF HandoffSpec

\* Every variable of UEFI's driver keeps its type: no setting, sample or
\* takeover by Windows leaves a mode, speed or duty cycle that is none.
THEOREM HandoffTypes == HandoffSpec => []TypeOK
<1>1. KeeperInv => TypeOK
  BY DEF KeeperInv, HandoffTypeOK
<1>2. QED
  BY KeeperInit, KeeperStep, <1>1, PTL DEF HandoffSpec

-----------------------------------------------------------------------------
(* The automatic speed over time *)

\* A level that is asked for has its threshold reached, and one that is kept
\* is left only below its threshold less the hysteresis.
LEMMA AutomaticSpeedSteps ==
    ASSUME NEW t \in Nat, NEW p \in Levels
    PROVE  LET q == GetAutomaticFanSpeed(t, p)
           IN  /\ q \in Levels
               /\ q > p => OnThreshold[q] <= t
               /\ q < p => t < OnThreshold[p] - Hysteresis
               /\ q < p => OnThreshold[q] <= OnThreshold[p]
<1>1. /\ OnThreshold[30] = 0
      /\ OnThreshold[40] = 50000
      /\ OnThreshold[50] = 60000
      /\ OnThreshold[70] = 67500
      /\ OnThreshold[100] = 75000
  BY DEF OnThreshold, Levels
<1>2. /\ DOMAIN KeptFrom = {40, 50, 70, 100}
      /\ KeptFrom[100] = 70000 /\ KeptFrom[70] = 62500
      /\ KeptFrom[50] = 55000 /\ KeptFrom[40] = 45000
  BY DEF KeptFrom, Levels
<1> DEFINE q == GetAutomaticFanSpeed(t, p)
<1>3. q = p \/ q = Wanted(t)
  BY DEF GetAutomaticFanSpeed
<1>4. Wanted(t) \in Levels /\ OnThreshold[Wanted(t)] <= t
  BY <1>1 DEF Wanted, Levels
<1>5. q < p => p \in {40, 50, 70, 100} /\ t < KeptFrom[p]
  BY <1>2, <1>4 DEF GetAutomaticFanSpeed, Levels
<1>6. p \in {40, 50, 70, 100} => KeptFrom[p] = OnThreshold[p] - Hysteresis
  BY <1>1, <1>2 DEF Hysteresis
<1>7. \A a, b \in Levels : a < b => OnThreshold[a] <= OnThreshold[b]
  BY <1>1 DEF Levels
<1> HIDE DEF q
<1>8. q \in Levels
  BY <1>3, <1>4
<1>9. q > p => OnThreshold[q] <= t
  BY <1>3, <1>4 DEF Levels
<1>10. q < p => t < OnThreshold[p] - Hysteresis
  BY <1>5, <1>6
<1>11. q < p => OnThreshold[q] <= OnThreshold[p]
  BY <1>7, <1>8
<1>12. QED
  BY <1>8, <1>9, <1>10, <1>11 DEF q

\* Every step of the whole machine keeps the automatic speed, applies the
\* curve to it once, or starts the machine again.
LEMMA AutomaticSpeedMoves ==
    ASSUME KeeperInv, [HandoffNext]_allVars
    PROVE  \/ mAutomaticSpeed' = mAutomaticSpeed
           \/ mAutomaticSpeed' = GetAutomaticFanSpeed(soc, mAutomaticSpeed)
           \/ mAutomaticSpeed' = FAN_FAIL_SAFE_SPEED /\ phase' = "start"
<1> USE DEF settings
<1>1. UpdateFan => \/ mAutomaticSpeed' = mAutomaticSpeed
                   \/ mAutomaticSpeed' = GetAutomaticFanSpeed(soc, mAutomaticSpeed)
  BY DEF UpdateFan
<1>2. TryStartFanControl => UpdateFan \/ mAutomaticSpeed' = mAutomaticSpeed
  BY DEF TryStartFanControl
<1>3. CASE UefiActs
  <2>1. Next
    BY <1>3 DEF UefiActs
  <2>2. SetupFanVariables \/ ExitBootServices \/ UserSets \/ TemperatureChanges =>
            mAutomaticSpeed' = mAutomaticSpeed
    BY DEF SetupFanVariables, ExitBootServices, UserSets, TemperatureChanges
  <2>3. ApplyFanVariables \/ ProtocolInstalled \/ TimerTicks =>
            UpdateFan \/ TryStartFanControl \/ mAutomaticSpeed' = mAutomaticSpeed
    BY DEF ApplyFanVariables, ProtocolInstalled, TimerTicks
  <2>4. QED
    BY <1>1, <1>2, <2>1, <2>2, <2>3 DEF Next
<1>4. CASE WindowsActs
  BY <1>4 DEF WindowsActs, uefiVars
<1>5. CASE Crash \/ Restart
  BY <1>5 DEF Crash, Restart
<1>6. CASE UNCHANGED allVars
  BY <1>6 DEF allVars, vars, uefiVars
<1>7. QED
  BY <1>3, <1>4, <1>5, <1>6 DEF HandoffNext

\* Inductive: the level that automatic mode is at since it last rose needs no
\* more than the temperature it rose at.
RoseInv ==
    /\ KeeperInv
    /\ roseAt \in Nat
    /\ roseAt # NeverRose => OnThreshold[mAutomaticSpeed] <= roseAt

LEMMA ThresholdsAreNat == \A p \in Levels : OnThreshold[p] \in Nat
BY DEF OnThreshold, Levels

LEMMA RoseStep ==
    ASSUME RoseInv, [HistoryNext]_historyVars
    PROVE  /\ RoseInv'
           /\ mAutomaticSpeed' < mAutomaticSpeed /\ roseAt # NeverRose =>
                  soc < roseAt - Hysteresis
<1>1. [HandoffNext]_allVars
  BY DEF HistoryNext, historyVars
<1>2. KeeperInv'
  BY <1>1, KeeperStep DEF RoseInv
<1>3. soc \in Nat /\ mAutomaticSpeed \in Levels /\ mAutomaticSpeed' \in Levels
  BY <1>2, UefiFanAssumption DEF RoseInv, KeeperInv, HandoffTypeOK, TypeOK
<1>4. /\ Hysteresis \in Nat
      /\ OnThreshold[mAutomaticSpeed] \in Nat /\ OnThreshold[mAutomaticSpeed'] \in Nat
      /\ mAutomaticSpeed \in Nat /\ mAutomaticSpeed' \in Nat
      /\ mAutomaticSpeed <= FAN_FAIL_SAFE_SPEED
  BY <1>3, ThresholdsAreNat DEF Hysteresis, Levels, FAN_FAIL_SAFE_SPEED
<1>5. CASE UNCHANGED historyVars
  BY <1>2, <1>4, <1>5 DEF RoseInv, historyVars, allVars, vars, uefiVars, settings
<1>6. CASE HistoryNext
  <2>1. roseAt' = IF phase' = "start" THEN NeverRose
                  ELSE IF mAutomaticSpeed' > mAutomaticSpeed THEN soc
                  ELSE roseAt
    BY <1>6 DEF HistoryNext
  <2>2. roseAt' \in Nat
    BY <1>3, <2>1 DEF RoseInv, NeverRose
  <2>3. CASE mAutomaticSpeed' = mAutomaticSpeed
    <3>1. roseAt' \in {NeverRose, roseAt}
      BY <1>4, <2>1, <2>3
    <3>2. QED
      BY <1>2, <1>4, <2>2, <2>3, <3>1 DEF RoseInv
  <2>4. CASE mAutomaticSpeed' = FAN_FAIL_SAFE_SPEED /\ phase' = "start"
    BY <1>2, <1>4, <2>1, <2>2, <2>4 DEF RoseInv
  <2>5. CASE mAutomaticSpeed' = GetAutomaticFanSpeed(soc, mAutomaticSpeed)
    <3>1. /\ mAutomaticSpeed' > mAutomaticSpeed => OnThreshold[mAutomaticSpeed'] <= soc
          /\ mAutomaticSpeed' < mAutomaticSpeed =>
                /\ soc < OnThreshold[mAutomaticSpeed] - Hysteresis
                /\ OnThreshold[mAutomaticSpeed'] <= OnThreshold[mAutomaticSpeed]
      BY <1>3, <2>5, AutomaticSpeedSteps
    <3>2. roseAt \in Nat
      BY DEF RoseInv
    <3>3. roseAt # NeverRose => OnThreshold[mAutomaticSpeed] <= roseAt
      BY DEF RoseInv
    <3>4. roseAt' # NeverRose => OnThreshold[mAutomaticSpeed'] <= roseAt'
      BY <1>3, <1>4, <2>1, <3>1, <3>2, <3>3
    <3>5. mAutomaticSpeed' < mAutomaticSpeed /\ roseAt # NeverRose =>
              soc < roseAt - Hysteresis
      BY <1>3, <1>4, <3>1, <3>2, <3>3
    <3>6. QED
      BY <1>2, <2>2, <3>4, <3>5 DEF RoseInv
  <2>6. QED
    BY <1>1, <2>3, <2>4, <2>5, AutomaticSpeedMoves DEF RoseInv
<1>7. QED
  BY <1>5, <1>6

LEMMA RoseInit == HistoryInit => RoseInv
BY KeeperInit DEF HistoryInit, RoseInv, NeverRose

\* UEFI's automatic speed, once it has risen, falls again only when the SoC is
\* more than 5 degrees colder than it was then: over any sequence of samples,
\* failed ones included, of changed modes, late protocols and restarts.
THEOREM AutomaticSpeedDoesNotFlap == HistorySpec => NoFlapping
<1>1. RoseInv /\ [HistoryNext]_historyVars => RoseInv'
  BY RoseStep
<1>2. RoseInv /\ [HistoryNext]_historyVars =>
        [mAutomaticSpeed' < mAutomaticSpeed /\ roseAt # NeverRose =>
           soc < roseAt - Hysteresis]_historyVars
  BY RoseStep
<1>3. QED
  BY RoseInit, <1>1, <1>2, PTL DEF HistorySpec, NoFlapping

=============================================================================
