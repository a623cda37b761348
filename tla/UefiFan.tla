------------------------------ MODULE UefiFan ------------------------------
(***************************************************************************)
(* The UEFI fan driver, FanControl.c of RpiPlatformDxe, as the patches     *)
(* 0001 and 0003 of temporary-patches/edk2-platforms leave it, with        *)
(* SetFanSpeed of the RP1 bus driver.  UEFI runs on one processor: a       *)
(* callback is one step, and what interleaves is the order in which        *)
(* protocols appear, the user changes settings, the timer ticks and the    *)
(* boot loader calls ExitBootServices.                                     *)
(***************************************************************************)
EXTENDS FanCurve

CONSTANTS
    Temps,        \* the temperatures the firmware may report
    Speeds,       \* the speeds the setup form offers
    ForeignDuty   \* duty cycles found in the PWM at power-on

FAN_FAIL_SAFE_SPEED == 100
FAN_MINIMUM_SPEED   == 30
ValidSpeeds == FAN_MINIMUM_SPEED .. FAN_FAIL_SAFE_SPEED
Modes == {"AUTOMATIC", "MANUAL", "PERSISTENT"}

\* A variable that is missing, has another size or an illegal value.
Bad == "bad"
NoSpeed == 0

ASSUME UefiFanAssumption ==
    /\ Temps \subseteq Nat
    /\ Speeds \subseteq ValidSpeeds
    /\ ForeignDuty \subseteq 0 .. 100

VARIABLES
    phase,               \* "start", "variables" (set up), "boot", "os", "crashed"
    busInstalled,        \* gRp1BusProtocolGuid is in the handle database
    firmwareInstalled,   \* gRaspberryPiFirmwareProtocolGuid is
    storedMode, storedSpeed,   \* the variables FanMode and FanSpeed
    soc,                 \* the temperature of the SoC
    pwm,                 \* the duty cycle of the PWM hardware
    exitHook,            \* the ExitBootServices event was created
    mRp1Bus, mFirmware,  \* the protocol pointers, TRUE if not NULL
    mFanTimer,           \* the periodic timer event
    mFanMode, mFanSpeed, mAutomaticSpeed, mForcePersistentFailSafe

protocols == <<busInstalled, firmwareInstalled>>
stored == <<storedMode, storedSpeed>>
settings == <<mFanMode, mFanSpeed, mAutomaticSpeed>>
found == <<mRp1Bus, mFirmware, mFanTimer>>
hooks == <<exitHook, mForcePersistentFailSafe>>
uefiVars == <<phase, protocols, stored, soc, hooks, found, settings>>
vars == <<uefiVars, pwm>>

TypeOK ==
    /\ phase \in {"start", "variables", "boot", "os", "crashed"}
    /\ busInstalled \in BOOLEAN /\ firmwareInstalled \in BOOLEAN
    /\ storedMode \in Modes \union {Bad}
    /\ storedSpeed \in ValidSpeeds \union {NoSpeed}
    /\ soc \in Temps
    /\ pwm \in 0 .. 100
    /\ exitHook \in BOOLEAN /\ mForcePersistentFailSafe \in BOOLEAN
    /\ mRp1Bus \in BOOLEAN /\ mFirmware \in BOOLEAN /\ mFanTimer \in BOOLEAN
    /\ mFanMode \in Modes
    /\ mFanSpeed \in ValidSpeeds
    /\ mAutomaticSpeed \in Levels

\* The driver is loaded; the PWM may run at anything.
Loaded ==
    /\ phase = "start"
    /\ busInstalled \in BOOLEAN /\ firmwareInstalled \in BOOLEAN
    /\ storedMode \in Modes \union {Bad}
    /\ storedSpeed \in Speeds \union {NoSpeed}
    /\ soc \in Temps
    /\ exitHook = FALSE /\ mForcePersistentFailSafe = FALSE
    /\ mRp1Bus = FALSE /\ mFirmware = FALSE /\ mFanTimer = FALSE
    /\ mFanMode = "PERSISTENT"
    /\ mFanSpeed = FAN_FAIL_SAFE_SPEED
    /\ mAutomaticSpeed = FAN_FAIL_SAFE_SPEED

Init == Loaded /\ pwm \in ForeignDuty

-----------------------------------------------------------------------------
(* GetAutomaticFanSpeed *)

\* A mutant: 70% is kept down to the threshold it starts at.
KeptFromLate == [p \in Levels \ {30} |->
    IF p = 100 THEN 70000 ELSE IF p = 70 THEN 67500 ELSE IF p = 50 THEN 55000 ELSE 45000]

\* The temperature down to which each level is kept.
KeptFrom == [p \in Levels \ {30} |->
    IF p = 100 THEN 70000 ELSE IF p = 70 THEN 62500 ELSE IF p = 50 THEN 55000 ELSE 45000]

Wanted(milliCelsius) ==
    IF milliCelsius >= 75000 THEN 100
    ELSE IF milliCelsius >= 67500 THEN 70
    ELSE IF milliCelsius >= 60000 THEN 50
    ELSE IF milliCelsius >= 50000 THEN 40
    ELSE 30

GetAutomaticFanSpeed(milliCelsius, automatic) ==
    IF /\ Wanted(milliCelsius) < automatic
       /\ automatic \in DOMAIN KeptFrom
       /\ milliCelsius >= KeptFrom[automatic]
    THEN automatic
    ELSE Wanted(milliCelsius)

-----------------------------------------------------------------------------
(* UpdateFan and TryStartFanControl *)

\* A mutant: the speed variable is read once and kept.
ReadSpeedOnce == mFanSpeed

\* The variables as UpdateFan and SetupFanVariables read them.
ReadMode == IF storedMode = Bad THEN "PERSISTENT" ELSE storedMode
ReadSpeed == IF storedSpeed = NoSpeed THEN FAN_FAIL_SAFE_SPEED ELSE storedSpeed

\* A mutant: without a temperature the last automatic speed stays in force.
SampleKeeps(sampled) ==
    IF sampled THEN GetAutomaticFanSpeed(soc, mAutomaticSpeed) ELSE mAutomaticSpeed

\* Automatic mode's speed, with or without a temperature.
Sample(sampled) ==
    IF sampled THEN GetAutomaticFanSpeed(soc, mAutomaticSpeed) ELSE FAN_FAIL_SAFE_SPEED

\* The speed UpdateFan chooses.
UpdateSpeed(sample) ==
    IF mForcePersistentFailSafe' THEN FAN_FAIL_SAFE_SPEED
    ELSE IF mFanMode' = "AUTOMATIC" THEN sample
    ELSE mFanSpeed'

\* TryStartFanControl puts the fan back to 100% when it gets no timer.
Programmed(speed) == IF mFanTimer' THEN speed ELSE FAN_FAIL_SAFE_SPEED

\* UpdateFan, with the mailbox answering or not (it does not while the runtime
\* clock code holds its lock).  SetFanSpeed of Rp1Fan.c refuses no speed up to
\* 100.
UpdateFan ==
    /\ mFanMode' = IF mForcePersistentFailSafe' THEN "PERSISTENT" ELSE ReadMode
    /\ mFanSpeed' = ReadSpeed
    /\ mFirmware' = (mFirmware \/ firmwareInstalled')
    /\ \E answers \in BOOLEAN :
          LET sampled == mFirmware' /\ answers
          IN  /\ mAutomaticSpeed' = IF mFanMode' = "AUTOMATIC" /\ sampled
                                    THEN GetAutomaticFanSpeed(soc, mAutomaticSpeed)
                                    ELSE mAutomaticSpeed
              /\ pwm' = Programmed(UpdateSpeed(Sample(sampled)))

\* TryStartFanControl.  CreateEvent or SetTimer may fail; its first
\* SetFanSpeed(100) is overtaken by UpdateFan.
TryStartFanControl ==
    IF mFanTimer
    THEN UNCHANGED <<found, settings, pwm>>
    ELSE IF ~ busInstalled'
    THEN mRp1Bus' = FALSE /\ UNCHANGED <<mFirmware, mFanTimer, settings, pwm>>
    ELSE mRp1Bus' = TRUE /\ mFanTimer' \in BOOLEAN /\ UpdateFan

-----------------------------------------------------------------------------
(* Entry points *)

\* SetupFanVariables replaces unusable variables; SetVariable may fail.
SetupFanVariables ==
    /\ phase = "start"
    /\ phase' = "variables"
    /\ mFanMode' = ReadMode
    /\ mFanSpeed' = ReadSpeed
    /\ storedMode' \in {storedMode, ReadMode}
    /\ storedSpeed' \in {storedSpeed, ReadSpeed}
    /\ UNCHANGED <<protocols, soc, hooks, found, mAutomaticSpeed, pwm>>

\* A mutant: a missing ExitBootServices hook is logged and forgotten.
ForcedIfNot(hooked) == FALSE

\* Without a hook the driver never leaves the fail-safe speed.
Forced(hooked) == ~ hooked

\* ApplyFanVariables registers the hook, then the protocol notifications, and
\* starts.  (A notification fires once when it is registered: these two runs
\* of TryStartFanControl and the last one have the outcomes of one.)
ApplyFanVariables ==
    /\ phase = "variables"
    /\ phase' = "boot"
    /\ exitHook' \in BOOLEAN
    /\ mForcePersistentFailSafe' = Forced(exitHook')
    /\ UNCHANGED <<protocols, stored, soc>>
    /\ TryStartFanControl

\* FanProtocolNotify: another driver installs one of the two protocols.
ProtocolInstalled ==
    /\ phase # "os"
    /\ \/ ~ busInstalled /\ busInstalled' = TRUE /\ UNCHANGED firmwareInstalled
       \/ ~ firmwareInstalled /\ firmwareInstalled' = TRUE /\ UNCHANGED busInstalled
    /\ UNCHANGED <<phase, stored, soc, hooks>>
    /\ IF phase = "boot" THEN TryStartFanControl
                         ELSE UNCHANGED <<found, settings, pwm>>

\* The periodic timer.
TimerTicks ==
    /\ phase = "boot"
    /\ mFanTimer
    /\ mRp1Bus
    /\ UNCHANGED <<phase, protocols, stored, soc, hooks, mRp1Bus, mFanTimer>>
    /\ UpdateFan

\* What FanExitBootServices programs.
HandoffSpeed == FAN_FAIL_SAFE_SPEED

\* The boot loader calls ExitBootServices: FanExitBootServices runs if it was
\* registered, and no timer ticks any more.
ExitBootServices ==
    /\ phase = "boot"
    /\ phase' = "os"
    /\ pwm' = IF exitHook /\ mRp1Bus THEN HandoffSpeed ELSE pwm
    /\ UNCHANGED <<protocols, stored, soc, hooks, found, settings>>

-----------------------------------------------------------------------------
(* The environment *)

\* The user changes a setting in the setup form.
UserSets ==
    /\ phase = "boot"
    /\ \/ storedMode' \in Modes /\ UNCHANGED storedSpeed
       \/ storedSpeed' \in Speeds /\ UNCHANGED storedMode
    /\ UNCHANGED <<phase, protocols, soc, hooks, found, settings, pwm>>

TemperatureChanges ==
    /\ soc' \in Temps
    /\ UNCHANGED <<phase, protocols, stored, hooks, found, settings, pwm>>

Next == SetupFanVariables \/ ApplyFanVariables \/ ProtocolInstalled \/ TimerTicks
        \/ ExitBootServices \/ UserSets \/ TemperatureChanges

Spec == Init /\ [][Next]_vars

-----------------------------------------------------------------------------
(* Properties *)

\* A SoC that stays hot in automatic mode ends up with the fan at 100%, from
\* whatever manual speed or sample the driver comes.
HotSocEndsInFullSpeed ==
    (phase = "boot" /\ mFanTimer /\ storedMode = "AUTOMATIC" /\ soc >= 75000)
        ~> \/ pwm = FAN_FAIL_SAFE_SPEED
           \/ phase # "boot" \/ storedMode # "AUTOMATIC" \/ soc < 75000

\* A manual speed is in force after the next tick, or was replaced.
ManualSpeedIsApplied ==
    \A speed \in Speeds :
        (phase = "boot" /\ mFanTimer /\ storedMode = "MANUAL" /\ storedSpeed = speed)
            ~> \/ pwm = speed \/ mForcePersistentFailSafe
               \/ phase # "boot" \/ storedMode # "MANUAL" \/ storedSpeed # speed

=============================================================================
