----------------------------- MODULE FanDriver -----------------------------
(***************************************************************************)
(* The Windows fan driver, WindowsDriver/Rpi5Fan/Driver.c.  Three threads  *)
(* meet in its device context: the framework's PnP/power thread, the       *)
(* passive-level callback of a one-shot timer that re-arms itself, and the *)
(* sequential queue's IOCTL handler.  The context is protected by a wait   *)
(* lock.  The timer callback keeps the lock while it waits for the         *)
(* temperature provider; every other locked section runs without blocking  *)
(* and is one step here.                                                   *)
(***************************************************************************)
EXTENDS FanCurve

CONSTANTS
    Temps,            \* what a provider's reply may carry as temperature
    ManualRequests,   \* the Percent of the SET_MANUAL requests clients send
    ForeignDuty,      \* duty cycles found in the PWM while nobody drives it
    MaxFailures       \* MAXULONG, where the failure counter saturates

FAN_FAILSAFE_PERCENT        == 100
FAN_MINIMUM_PERCENT         == 30
FAN_MANUAL_OVERTEMP_MILLIC  == 85000
UnknownPercent              == 255    \* CurrentPercent = 0xff

\* The temperatures the driver believes, in millidegrees.
LowestBelieved  == 5000
HighestBelieved == 150000

Percents == 0 .. 100

ASSUME FanAssumption ==
    /\ Temps \subseteq Nat
    /\ ManualRequests \subseteq Nat
    /\ ForeignDuty \subseteq Percents
    /\ MaxFailures \in Nat \ {0}

VARIABLES
    \* The framework and the hardware.
    pnp,            \* where the PnP/power thread is (PnpStates)
    io,             \* the request the queue's handler is serving, or NoRequest
    armed,          \* the KTIMER behind Context->Timer is set
    callback,       \* the timer callback: idle, queued, or reading under the lock
    lock,           \* Context->Lock: "free" or "timer" (the other sections are steps)
    pwm,            \* the duty cycle the PWM hardware runs at
    provider,       \* whether Rpi5Temp gives usable answers: "up" or "down"
    \* FAN_DEVICE_CONTEXT.
    mapped,         \* Clocks, Pwm, Gpio and Pads are mapped
    hardwareReady, timerEnabled,
    controlMode, manualPercent, currentPercent,
    failSafeActive, overTemperature,
    temperatureValid, providerReady, lastTemperature, failures

framework == <<pnp, io, armed, callback, lock>>
environment == <<provider>>
request == <<controlMode, manualPercent>>
thermal == <<temperatureValid, providerReady, lastTemperature, failures>>
device == <<mapped, hardwareReady>>
duty == <<pwm, currentPercent>>
vars == <<framework, environment, request, thermal, device, duty,
          timerEnabled, failSafeActive, overTemperature>>

-----------------------------------------------------------------------------
(* Types and requests *)

\* NoHardware: added but not started, or released.  Failed: PrepareHardware
\* failed, the framework still calls ReleaseHardware.  Leaving: the framework
\* stops the power-managed queue before D0Exit.  ExitCancel and ExitWait,
\* RelCancel and RelWait: the two halves of WdfTimerStop(Wait = TRUE).
PnpStates == {"NoHardware", "Failed", "Prepared", "D0", "Leaving",
              "ExitCancel", "ExitWait", "Dx", "RelCancel", "RelWait"}

NoRequest == [code |-> "none", percent |-> 0]

Requests == [code : {"GET_STATUS", "SET_AUTO", "SET_FAILSAFE"}, percent : {0}]
            \union [code : {"SET_MANUAL"}, percent : ManualRequests]

\* A reply of the provider.  A target that cannot be created or opened, an
\* IOCTL that fails or runs into the 500 ms timeout, a short reply and a
\* foreign API version leave the driver where the zeroed reply buffer does,
\* ready = valid = FALSE and temperature = 0.
Replies == [ready : BOOLEAN, valid : BOOLEAN, temperature : Temps \union {0}]

Trusted(reply) ==
    /\ reply.ready
    /\ reply.valid
    /\ reply.temperature >= LowestBelieved
    /\ reply.temperature <= HighestBelieved

\* The temperatures at which a duty cycle below 100% is allowed.
SafeTemps == {t \in Temps : t >= LowestBelieved /\ t < FAN_MANUAL_OVERTEMP_MILLIC}

ValidPercents == FAN_MINIMUM_PERCENT .. FAN_FAILSAFE_PERCENT

FrameworkTypeOK ==
    /\ pnp \in PnpStates
    /\ io \in Requests \union {NoRequest}
    /\ armed \in BOOLEAN
    /\ callback \in {"idle", "queued", "reading"}
    /\ lock \in {"free", "timer"}

DeviceTypeOK ==
    /\ provider \in {"up", "down"}
    /\ mapped \in BOOLEAN /\ hardwareReady \in BOOLEAN
    /\ timerEnabled \in BOOLEAN

DutyTypeOK ==
    /\ pwm \in Percents
    /\ currentPercent \in ValidPercents \union {UnknownPercent}
    /\ controlMode \in {"Automatic", "Manual"}
    /\ manualPercent \in ValidPercents

ThermalTypeOK ==
    /\ failSafeActive \in BOOLEAN /\ overTemperature \in BOOLEAN
    /\ temperatureValid \in BOOLEAN /\ providerReady \in BOOLEAN
    /\ lastTemperature \in Temps \union {0}
    /\ failures \in 0 .. MaxFailures

TypeOK == FrameworkTypeOK /\ DeviceTypeOK /\ DutyTypeOK /\ ThermalTypeOK

\* FanEvtDeviceAdd has succeeded: the context is zeroed and given its defaults.
Init ==
    /\ pnp = "NoHardware"
    /\ io = NoRequest
    /\ armed = FALSE
    /\ callback = "idle"
    /\ lock = "free"
    /\ pwm \in ForeignDuty
    /\ provider \in {"up", "down"}
    /\ mapped = FALSE
    /\ hardwareReady = FALSE
    /\ timerEnabled = FALSE
    /\ controlMode = "Automatic"
    /\ manualPercent = FAN_FAILSAFE_PERCENT
    /\ currentPercent = UnknownPercent
    /\ failSafeActive = TRUE
    /\ overTemperature = FALSE
    /\ temperatureValid = FALSE
    /\ providerReady = FALSE
    /\ lastTemperature = 0
    /\ failures = 0

-----------------------------------------------------------------------------
(* FanSetPercent *)

CanSet(percent) == hardwareReady /\ percent \in ValidPercents

\* A mutant: a value that equals the shadow is not programmed again.
SetPercentCached(percent) ==
    /\ pwm' = IF CanSet(percent) /\ percent # currentPercent THEN percent ELSE pwm
    /\ currentPercent' = IF CanSet(percent) THEN percent ELSE currentPercent

\* The call's effect whether it succeeds or not.
SetPercent(percent) ==
    /\ pwm' = IF CanSet(percent) THEN percent ELSE pwm
    /\ currentPercent' = IF CanSet(percent) THEN percent ELSE currentPercent

-----------------------------------------------------------------------------
(* The timer callback *)

\* The KTIMER expires and its DPC queues the passive-level callback.
TimerFires ==
    /\ armed
    /\ callback = "idle"
    /\ armed' = FALSE
    /\ callback' = "queued"
    /\ UNCHANGED <<pnp, io, lock, environment, request, thermal, device, duty,
                   timerEnabled, failSafeActive, overTemperature>>

\* FanEvtTimer gets the lock.  With the timer enabled and the hardware ready
\* it calls the provider, which first forgets that the provider was ready;
\* otherwise it leaves.
TimerEnter ==
    /\ callback = "queued"
    /\ lock = "free"
    /\ IF timerEnabled /\ hardwareReady
       THEN /\ lock' = "timer"
            /\ callback' = "reading"
            /\ providerReady' = FALSE
       ELSE /\ callback' = "idle"
            /\ UNCHANGED <<lock, providerReady>>
    /\ UNCHANGED <<pnp, io, armed, environment, request, temperatureValid,
                   lastTemperature, failures, device, duty, timerEnabled,
                   failSafeActive, overTemperature>>

\* ConsecutiveTemperatureFailures saturates.
FailureCount(n) == IF n = MaxFailures THEN n ELSE n + 1

\* A mutant: a lost provider keeps the duty cycle of the last sample.
ChosenPercentKeeps(reply) ==
    IF ~ Trusted(reply) THEN currentPercent
    ELSE IF reply.temperature >= FAN_MANUAL_OVERTEMP_MILLIC THEN FAN_FAILSAFE_PERCENT
    ELSE IF controlMode = "Manual" THEN manualPercent
    ELSE FanCurvePercent(reply.temperature, currentPercent)

\* The duty cycle FanApplyControlLocked chooses.
ChosenPercent(reply) ==
    IF ~ Trusted(reply) \/ reply.temperature >= FAN_MANUAL_OVERTEMP_MILLIC
    THEN FAN_FAILSAFE_PERCENT
    ELSE IF controlMode = "Manual" THEN manualPercent
    ELSE FanCurvePercent(reply.temperature, currentPercent)

Overheated(reply) ==
    /\ Trusted(reply)
    /\ reply.temperature >= FAN_MANUAL_OVERTEMP_MILLIC

\* FanApplyControlLocked, from the provider's reply on.  A value FanSetPercent
\* refuses is replaced by the fail-safe duty cycle.
ApplyControl(reply) ==
    LET chosen   == ChosenPercent(reply)
        refused  == chosen # currentPercent /\ ~ CanSet(chosen)
        program  == IF refused THEN FAN_FAILSAFE_PERCENT ELSE chosen
    IN  /\ providerReady' = reply.ready
        /\ temperatureValid' = Trusted(reply)
        /\ lastTemperature' = IF Trusted(reply) THEN reply.temperature
                                                ELSE lastTemperature
        /\ failures' = IF Trusted(reply) THEN 0 ELSE FailureCount(failures)
        /\ overTemperature' = Overheated(reply)
        /\ failSafeActive' = (~ Trusted(reply) \/ Overheated(reply) \/ refused)
        /\ IF chosen = currentPercent THEN UNCHANGED duty ELSE SetPercent(program)

\* A mutant: the one-shot timer is not re-armed after a usable sample.
RearmAfterFailureOnly(reply) ==
    armed' = IF timerEnabled /\ hardwareReady /\ ~ Trusted(reply) THEN TRUE ELSE armed

\* WdfTimerStart at the end of the callback.
Rearm(reply) ==
    armed' = IF timerEnabled /\ hardwareReady THEN TRUE ELSE armed

\* The provider answers, the callback applies the answer, re-arms the timer
\* and releases the lock.
TimerApply ==
    /\ callback = "reading"
    /\ \E reply \in Replies :
          /\ Trusted(reply) <=> provider = "up"
          /\ ApplyControl(reply)
          /\ Rearm(reply)
    /\ lock' = "free"
    /\ callback' = "idle"
    /\ UNCHANGED <<pnp, io, environment, request, device, timerEnabled>>

-----------------------------------------------------------------------------
(* PnP and power callbacks *)

\* FanEvtPrepareHardware on resources it refuses, or when a mapping fails and
\* the others are undone: the context is left as it was.
PrepareHardwareFails ==
    /\ pnp = "NoHardware"
    /\ pnp' = "Failed"
    /\ UNCHANGED <<io, armed, callback, lock, environment, request, thermal,
                   device, duty, timerEnabled, failSafeActive, overTemperature>>

\* FanEvtPrepareHardware maps the four register blocks.  It takes no lock.
PrepareHardware ==
    /\ pnp = "NoHardware"
    /\ pnp' = "Prepared"
    /\ mapped' = TRUE
    /\ currentPercent' = UnknownPercent
    /\ temperatureValid' = FALSE
    /\ providerReady' = FALSE
    /\ failures' = 0
    /\ overTemperature' = FALSE
    /\ failSafeActive' = TRUE
    /\ timerEnabled' = FALSE
    /\ hardwareReady' = TRUE
    /\ UNCHANGED <<io, armed, callback, lock, environment, request,
                   lastTemperature, pwm>>

\* FanEvtD0Entry.  When it fails the framework goes on to ReleaseHardware.
D0Entry ==
    /\ pnp \in {"Prepared", "Dx"}
    /\ lock = "free"
    /\ failSafeActive' = TRUE
    /\ overTemperature' = FALSE
    /\ temperatureValid' = FALSE
    /\ providerReady' = FALSE
    /\ SetPercent(FAN_FAILSAFE_PERCENT)
    /\ IF CanSet(FAN_FAILSAFE_PERCENT)
       THEN timerEnabled' = TRUE /\ armed' = TRUE /\ pnp' = "D0"
       ELSE UNCHANGED <<timerEnabled, armed>> /\ pnp' = "Failed"
    /\ UNCHANGED <<io, callback, lock, environment, request, lastTemperature,
                   failures, device>>

\* The framework leaves D0: it stops presenting requests of the
\* power-managed queue, then waits for the one being served.
LeaveD0 ==
    /\ pnp = "D0"
    /\ pnp' = "Leaving"
    /\ UNCHANGED <<io, armed, callback, lock, environment, request, thermal,
                   device, duty, timerEnabled, failSafeActive, overTemperature>>

\* A mutant: the timer is not disabled before WdfTimerStop, so that a callback
\* that was waiting for the lock goes on controlling the fan.
D0ExitKeepsTimer ==
    /\ pnp = "Leaving"
    /\ io = NoRequest
    /\ lock = "free"
    /\ failSafeActive' = TRUE
    /\ temperatureValid' = FALSE
    /\ providerReady' = FALSE
    /\ IF hardwareReady THEN SetPercent(FAN_FAILSAFE_PERCENT) ELSE UNCHANGED duty
    /\ pnp' = "ExitCancel"
    /\ UNCHANGED <<io, armed, callback, lock, environment, request,
                   lastTemperature, failures, device, overTemperature, timerEnabled>>

\* A mutant: D0Exit calls WdfTimerStop before it releases the lock.
D0ExitStopsUnderLock ==
    /\ pnp = "Leaving"
    /\ io = NoRequest
    /\ lock = "free"
    /\ lock' = "timer"
    /\ timerEnabled' = FALSE
    /\ failSafeActive' = TRUE
    /\ temperatureValid' = FALSE
    /\ providerReady' = FALSE
    /\ IF hardwareReady THEN SetPercent(FAN_FAILSAFE_PERCENT) ELSE UNCHANGED duty
    /\ pnp' = "ExitCancel"
    /\ UNCHANGED <<io, armed, callback, environment, request, lastTemperature,
                   failures, device, overTemperature>>

\* FanEvtD0Exit, its locked section.
D0Exit ==
    /\ pnp = "Leaving"
    /\ io = NoRequest
    /\ lock = "free"
    /\ timerEnabled' = FALSE
    /\ failSafeActive' = TRUE
    /\ temperatureValid' = FALSE
    /\ providerReady' = FALSE
    /\ IF hardwareReady THEN SetPercent(FAN_FAILSAFE_PERCENT) ELSE UNCHANGED duty
    /\ pnp' = "ExitCancel"
    /\ UNCHANGED <<io, armed, callback, lock, environment, request,
                   lastTemperature, failures, device, overTemperature>>

\* FanEvtReleaseHardware disables the timer under the lock.
ReleaseHardware ==
    /\ pnp \in {"Dx", "Failed"}
    /\ lock = "free"
    /\ timerEnabled' = FALSE
    /\ pnp' = "RelCancel"
    /\ UNCHANGED <<io, armed, callback, lock, environment, request, thermal,
                   device, duty, failSafeActive, overTemperature>>

\* WdfTimerStop(Wait = TRUE), outside the lock, first half: a timer that is
\* set is cancelled.
TimerStopCancels ==
    /\ pnp \in {"ExitCancel", "RelCancel"}
    /\ pnp' = IF pnp = "ExitCancel" THEN "ExitWait" ELSE "RelWait"
    /\ armed' = FALSE
    /\ UNCHANGED <<io, callback, lock, environment, request, thermal, device,
                   duty, timerEnabled, failSafeActive, overTemperature>>

\* A mutant: WdfTimerStop(Wait = FALSE), which does not wait for a callback
\* that is queued or running.
D0ExitReturnsAtOnce ==
    /\ pnp = "ExitWait"
    /\ pnp' = "Dx"
    /\ UNCHANGED <<io, armed, callback, lock, environment, request, thermal,
                   device, duty, timerEnabled, failSafeActive, overTemperature>>

\* WdfTimerStop's second half, a queued or running callback has returned, and
\* with it FanEvtD0Exit.
D0ExitReturns ==
    /\ pnp = "ExitWait"
    /\ callback = "idle"
    /\ pnp' = "Dx"
    /\ UNCHANGED <<io, armed, callback, lock, environment, request, thermal,
                   device, duty, timerEnabled, failSafeActive, overTemperature>>

\* FanEvtReleaseHardware after WdfTimerStop: fail-safe duty cycle if there was
\* hardware, then the mappings go (FanUnmapResources).
ReleaseReturns ==
    /\ pnp = "RelWait"
    /\ callback = "idle"
    /\ lock = "free"
    /\ IF hardwareReady THEN SetPercent(FAN_FAILSAFE_PERCENT) ELSE UNCHANGED duty
    /\ failSafeActive' = TRUE
    /\ temperatureValid' = FALSE
    /\ providerReady' = FALSE
    /\ hardwareReady' = FALSE
    /\ mapped' = FALSE
    /\ pnp' = "NoHardware"
    /\ UNCHANGED <<io, armed, callback, lock, environment, request,
                   lastTemperature, failures, timerEnabled, overTemperature>>

-----------------------------------------------------------------------------
(* The IOCTL handler.  The queue is sequential and power-managed. *)

\* The framework presents a request and FanEvtIoDeviceControl runs up to the
\* lock.
IoArrives ==
    /\ pnp = "D0"
    /\ io = NoRequest
    /\ io' \in Requests
    /\ UNCHANGED <<pnp, armed, callback, lock, environment, request, thermal,
                   device, duty, timerEnabled, failSafeActive, overTemperature>>

\* The end of every request: FanEvtIoDeviceControl completes it.
Serves(code) ==
    /\ io.code = code
    /\ io' = NoRequest
    /\ UNCHANGED <<pnp, armed, callback, lock, environment, thermal, device,
                   timerEnabled>>

\* A mutant: SET_MANUAL programs the requested duty cycle itself.
ForceFailSafeDirect ==
    /\ lock = "free"
    /\ failSafeActive' = TRUE
    /\ overTemperature' = FALSE
    /\ IF hardwareReady THEN SetPercent(manualPercent') ELSE UNCHANGED duty

\* A mutant: the fan is set to 100% but the fail-safe flag stays.
ForceFullSpeedOnly ==
    /\ lock = "free"
    /\ failSafeActive' = failSafeActive
    /\ overTemperature' = FALSE
    /\ IF hardwareReady THEN SetPercent(FAN_FAILSAFE_PERCENT) ELSE UNCHANGED duty

\* What every SET request does besides its mode: the fan goes to 100% until
\* the next timer pass has a temperature to act on.
ForceFailSafe ==
    /\ lock = "free"
    /\ failSafeActive' = TRUE
    /\ overTemperature' = FALSE
    /\ IF hardwareReady THEN SetPercent(FAN_FAILSAFE_PERCENT) ELSE UNCHANGED duty

SetAuto ==
    /\ Serves("SET_AUTO")
    /\ controlMode' = "Automatic"
    /\ manualPercent' = manualPercent
    /\ ForceFailSafe

\* A percentage outside 30..100 is refused before the lock is taken.
SetManualRejected ==
    /\ Serves("SET_MANUAL")
    /\ io.percent \notin ValidPercents
    /\ UNCHANGED <<request, duty, failSafeActive, overTemperature>>

SetManual ==
    /\ Serves("SET_MANUAL")
    /\ io.percent \in ValidPercents
    /\ controlMode' = "Manual"
    /\ manualPercent' = io.percent
    /\ ForceFailSafe

SetFailSafe ==
    /\ Serves("SET_FAILSAFE")
    /\ controlMode' = "Manual"
    /\ manualPercent' = FAN_FAILSAFE_PERCENT
    /\ ForceFailSafe

\* GET_STATUS copies the context under the lock (Status).
GetStatus ==
    /\ Serves("GET_STATUS")
    /\ lock = "free"
    /\ UNCHANGED <<request, duty, failSafeActive, overTemperature>>

\* The percentages of the RPI5FAN_STATUS that GET_STATUS returns.
ReportedPercent ==
    IF currentPercent <= FAN_FAILSAFE_PERCENT THEN currentPercent
                                              ELSE FAN_FAILSAFE_PERCENT

ReportedRequest ==
    IF failSafeActive THEN FAN_FAILSAFE_PERCENT
    ELSE IF controlMode = "Manual" THEN manualPercent
    ELSE ReportedPercent

-----------------------------------------------------------------------------
(* The environment *)

\* Rpi5Temp starts or stops giving usable answers.
ProviderChanges ==
    /\ provider' = IF provider = "up" THEN "down" ELSE "up"
    /\ UNCHANGED <<framework, request, thermal, device, duty, timerEnabled,
                   failSafeActive, overTemperature>>

\* While the device is not started, or is in a low-power state, the PWM can
\* lose its setting or be programmed by firmware.
ForeignDutyAppears ==
    /\ pnp \in {"NoHardware", "Dx"}
    /\ pwm' \in ForeignDuty
    /\ UNCHANGED <<framework, environment, request, thermal, device,
                   currentPercent, timerEnabled, failSafeActive, overTemperature>>

Timer == TimerFires \/ TimerEnter \/ TimerApply

Power ==
    \/ PrepareHardware \/ PrepareHardwareFails \/ D0Entry \/ LeaveD0 \/ D0Exit
    \/ TimerStopCancels \/ D0ExitReturns \/ ReleaseHardware \/ ReleaseReturns

IoDeviceControl ==
    SetAuto \/ SetManual \/ SetManualRejected \/ SetFailSafe \/ GetStatus

Next == Timer \/ Power \/ IoArrives \/ IoDeviceControl \/ ProviderChanges
        \/ ForeignDutyAppears

Spec == Init /\ [][Next]_vars

(***************************************************************************)
(* Fairness.  Timers expire, queued callbacks are scheduled, the provider  *)
(* call ends within its 500 ms timeout, and the framework finishes a power *)
(* transition it has begun.  The wait lock is granted in order of arrival, *)
(* so a section that waits for it while the timer callback takes it again  *)
(* and again still gets it: strong fairness.  Nothing is assumed of the    *)
(* clients, of the provider's health or of when the framework leaves D0.   *)
(***************************************************************************)
Fairness ==
    /\ WF_vars(TimerFires)
    /\ WF_vars(TimerEnter)
    /\ WF_vars(TimerApply)
    /\ SF_vars(IoDeviceControl)
    /\ SF_vars(D0Exit)
    /\ WF_vars(TimerStopCancels)
    /\ WF_vars(D0ExitReturns)

FairSpec == Spec /\ Fairness

-----------------------------------------------------------------------------
(* Properties *)

\* The driver is in charge of the fan: from the end of D0Entry to the end of
\* D0Exit.
Controlling == pnp \in {"D0", "Leaving", "ExitCancel", "ExitWait"}

\* No section of the driver's that runs under the lock is half done.
Unlocked == lock = "free"

\* Whenever the driver says the fail-safe is active, the hardware runs at
\* 100%, whatever handler set the flag last and whatever the PWM held before.
FailSafeIsFullSpeed ==
    Controlling /\ Unlocked /\ failSafeActive => pwm = FAN_FAILSAFE_PERCENT

\* The fail-safe is only off while the last timer pass had a temperature from
\* a ready provider below the manual over-temperature limit.
NormalControlIsTrusted ==
    Unlocked /\ ~ failSafeActive =>
        /\ hardwareReady /\ temperatureValid /\ providerReady
        /\ lastTemperature \in SafeTemps
        /\ failures = 0 /\ ~ overTemperature

\* A fan below 100% is always being watched: the one-shot timer is armed or
\* its callback is on its way, and the callback will find itself enabled.
SlowFanIsWatched ==
    Controlling /\ pwm < FAN_FAILSAFE_PERCENT =>
        timerEnabled /\ (armed \/ callback # "idle")

\* In automatic mode the hardware runs at what the curve asks for at the last
\* temperature, with no trace of the duty cycle of an earlier manual mode.
AutomaticFollowsCurve ==
    Unlocked /\ ~ failSafeActive /\ controlMode = "Automatic" =>
        IsCurveChoice(lastTemperature, pwm, pwm)

\* What GET_STATUS reports is what the hardware does: requested, reported and
\* real duty cycle agree in every state a client can see.
StatusIsTruthful ==
    pnp = "D0" /\ Unlocked => ReportedPercent = pwm /\ ReportedRequest = pwm

\* Outside D0 no timer can fire and no callback can touch the hardware.
QuietOutsideD0 ==
    pnp \in {"NoHardware", "Failed", "Prepared", "Dx"} =>
        ~ armed /\ callback = "idle" /\ ~ timerEnabled

\* HardwareReady, which guards every register access, and a running callback
\* imply that the register blocks are mapped.
RegistersMapped == hardwareReady \/ callback = "reading" => mapped

\* Only a timer pass that has just read a usable temperature slows the fan
\* down: no request, power transition or stale sample does.
SlowedByFreshSampleOnly ==
    [][pwm' < pwm /\ Controlling =>
         /\ callback = "reading" /\ callback' = "idle"
         /\ provider = "up" /\ temperatureValid' /\ ~ failSafeActive']_vars

\* The driver lets go of the fan at 100%: D0Exit never returns with a lower
\* duty cycle, even when a callback was waiting for the lock.
HandedOverAtFullSpeed ==
    [][Controlling /\ ~ Controlling' => pwm = FAN_FAILSAFE_PERCENT]_vars

\* The driver implements the abstract governor: between D0Entry and D0Exit
\* every duty cycle below 100% stands on the temperature of the last pass.
Governor == INSTANCE FanGovernor WITH
    Full       <- FAN_FAILSAFE_PERCENT,
    Duties     <- ValidPercents,
    SafeTemps  <- SafeTemps,
    NoEvidence <- 0,
    engaged    <- Controlling,
    duty       <- IF Controlling THEN pwm ELSE FAN_FAILSAFE_PERCENT,
    evidence   <- IF failSafeActive THEN 0 ELSE lastTemperature

ImplementsGovernor == Governor!Spec

\* A lost provider ends in 100%, unless it comes back or the device leaves D0.
LostProviderEndsInFullSpeed ==
    (provider = "down" /\ pnp = "D0")
        ~> (pwm = FAN_FAILSAFE_PERCENT \/ provider = "up" \/ pnp # "D0")

\* A manual duty cycle is programmed eventually, unless it is replaced, the
\* provider is lost, the SoC is too hot or the device leaves D0.
ManualRequestIsApplied ==
    \A percent \in ManualRequests :
        (controlMode = "Manual" /\ manualPercent = percent /\ pnp = "D0")
            ~> \/ pwm = percent
               \/ controlMode # "Manual" \/ manualPercent # percent
               \/ provider = "down" \/ overTemperature \/ pnp # "D0"

\* Leaving D0 always completes: WdfTimerStop waiting for the callback and the
\* callback waiting for the lock never block each other.
LeavingD0Completes == (pnp = "Leaving") ~> (pnp = "Dx")

=============================================================================
