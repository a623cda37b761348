-------------------------- MODULE FanDriverProofs --------------------------
(***************************************************************************)
(* Proofs about FanDriver, for every set of temperatures, requests and     *)
(* foreign duty cycles and every limit of the failure counter.             *)
(***************************************************************************)
EXTENDS FanDriver, TLAPS

-----------------------------------------------------------------------------
(* What FanCurvePercent computes, for every temperature and every value of *)
(* the CurrentPercent byte.                                                *)

\* The if-chain of FanCurve.h computes the highest level whose (possibly
\* lowered) threshold is reached.
THEOREM CurveFollowsTable ==
    ASSUME NEW t \in Nat, NEW c \in Nat
    PROVE  IsCurveChoice(t, c, FanCurvePercent(t, c))
<1>1. /\ OnThreshold[30] = 0
      /\ OnThreshold[40] = 50000
      /\ OnThreshold[50] = 60000
      /\ OnThreshold[70] = 67500
      /\ OnThreshold[100] = 75000
  BY DEF OnThreshold, Levels
<1>2. CASE t >= 75000
  BY <1>1, <1>2 DEF IsCurveChoice, Reaches, FanCurvePercent, Target, Holds, Levels, Hysteresis
<1>3. CASE t >= 67500 /\ t < 75000
  BY <1>1, <1>3 DEF IsCurveChoice, Reaches, FanCurvePercent, Target, Holds, Levels, Hysteresis
<1>4. CASE t >= 60000 /\ t < 67500
  BY <1>1, <1>4 DEF IsCurveChoice, Reaches, FanCurvePercent, Target, Holds, Levels, Hysteresis
<1>5. CASE t >= 50000 /\ t < 60000
  BY <1>1, <1>5 DEF IsCurveChoice, Reaches, FanCurvePercent, Target, Holds, Levels, Hysteresis
<1>6. CASE t < 50000
  BY <1>1, <1>6 DEF IsCurveChoice, Reaches, FanCurvePercent, Target, Holds, Levels, Hysteresis
<1>7. QED
  BY <1>2, <1>3, <1>4, <1>5, <1>6

\* The curve asks for one of its levels, whatever byte it is handed.
LEMMA CurveInLevels ==
    ASSUME NEW t \in Nat, NEW c \in Nat
    PROVE  FanCurvePercent(t, c) \in Levels
BY CurveFollowsTable DEF IsCurveChoice

\* One application settles: the same sample again changes nothing, so that
\* the duty cycle never depends on how often a temperature was read.
THEOREM CurveSettles ==
    ASSUME NEW t \in Nat, NEW c \in Nat
    PROVE  FanCurvePercent(t, FanCurvePercent(t, c)) = FanCurvePercent(t, c)
BY DEF FanCurvePercent, Holds

\* A hotter SoC never gets a slower fan from the same starting point.
THEOREM CurveMonotone ==
    ASSUME NEW t \in Nat, NEW u \in Nat, NEW c \in Nat, t <= u
    PROVE  FanCurvePercent(t, c) <= FanCurvePercent(u, c)
<1>1. Target(t) <= Target(u)
  BY DEF Target
<1>2. /\ Holds(t, c) => Holds(u, c)
      /\ Target(t) \in Nat /\ Target(u) \in Nat
  BY DEF Holds, Target
<1>3. QED
  BY <1>1, <1>2 DEF FanCurvePercent

\* A sample that steps the fan up and a later one that steps it down from
\* there are more than 5 degrees apart.
THEOREM CurveHysteresis ==
    ASSUME NEW t \in Nat, NEW u \in Nat, NEW c \in Nat,
           FanCurvePercent(t, c) > c,
           FanCurvePercent(u, FanCurvePercent(t, c)) < FanCurvePercent(t, c)
    PROVE  u < t - Hysteresis
<1> DEFINE p == FanCurvePercent(t, c)
<1>1. p = Target(t)
  BY DEF FanCurvePercent, Target, Holds
<1>2. /\ Target(u) < p
      /\ ~ Holds(u, p)
  BY DEF FanCurvePercent, Target, Holds
<1> HIDE DEF p
<1>3. u < t - Hysteresis
  BY <1>1, <1>2 DEF Target, Holds, Hysteresis
<1>4. QED
  BY <1>3 DEF p

(***************************************************************************)
(* The inductive invariant.  The safety properties relate the fail-safe    *)
(* flag to the hardware; to carry them over a power transition or a timer  *)
(* pass one has to know where the PnP thread can be while the timer is     *)
(* enabled, armed or running, and who holds the lock.                      *)
(***************************************************************************)

Started == {"Prepared", "D0", "Leaving", "ExitCancel", "ExitWait", "Dx"}

\* The mappings and HardwareReady follow PrepareHardware and ReleaseHardware.
DeviceInv ==
    /\ mapped = hardwareReady
    /\ pnp \in Started => hardwareReady

\* TimerEnabled is set exactly while the device is in D0.
TimerInv ==
    /\ timerEnabled <=> pnp \in {"D0", "Leaving"}
    /\ pnp \in {"D0", "Leaving"} => armed \/ callback # "idle"
    /\ ~ Controlling => ~ armed /\ callback = "idle"
    /\ pnp = "ExitWait" => ~ armed

\* The callback holds the lock exactly while it reads, and only in D0.
LockInv ==
    /\ lock = "timer" <=> callback = "reading"
    /\ callback = "reading" => pnp \in {"D0", "Leaving"}

\* The shadow CurrentPercent is the hardware's duty cycle, and the fail-safe
\* flag means 100%.
DutyInv ==
    Controlling =>
        /\ currentPercent = pwm
        /\ failSafeActive => pwm = FAN_FAILSAFE_PERCENT

\* What stands behind a duty cycle chosen by the last pass.
TrustInv ==
    ~ failSafeActive =>
        /\ pnp \in {"D0", "Leaving"}
        /\ temperatureValid /\ (providerReady \/ callback = "reading")
        /\ lastTemperature \in SafeTemps
        /\ failures = 0 /\ ~ overTemperature
        /\ controlMode = "Manual" => pwm = manualPercent
        /\ controlMode = "Automatic" => IsCurveChoice(lastTemperature, pwm, pwm)

IInv == TypeOK /\ DeviceInv /\ TimerInv /\ LockInv /\ DutyInv /\ TrustInv

-----------------------------------------------------------------------------

\* The curve keeps an automatic duty cycle on the table for its own sample.
LEMMA CurveStaysOnTable ==
    ASSUME NEW t \in Nat, NEW c \in Nat
    PROVE  /\ FanCurvePercent(t, c) \in ValidPercents
           /\ IsCurveChoice(t, FanCurvePercent(t, c), FanCurvePercent(t, c))
<1> DEFINE p == FanCurvePercent(t, c)
<1>1. p \in Levels
  BY CurveInLevels
<1>2. p \in Nat /\ p \in ValidPercents
  BY <1>1 DEF Levels, ValidPercents, FAN_MINIMUM_PERCENT, FAN_FAILSAFE_PERCENT
<1>3. IsCurveChoice(t, p, FanCurvePercent(t, p))
  BY <1>2, CurveFollowsTable
<1>4. FanCurvePercent(t, p) = p
  BY CurveSettles
<1>5. QED
  BY <1>2, <1>3, <1>4

LEMMA InitIInv == Init => IInv
<1> SUFFICES ASSUME Init PROVE IInv
  OBVIOUS
<1> USE DEF Init
<1>1. TypeOK
  <2>1. /\ pwm \in Percents
        /\ failures \in 0 .. MaxFailures
        /\ manualPercent \in ValidPercents
    BY FanAssumption
       DEF Percents, ValidPercents, FAN_MINIMUM_PERCENT, FAN_FAILSAFE_PERCENT
  <2>2. FrameworkTypeOK /\ DeviceTypeOK
    BY Zenon DEF FrameworkTypeOK, DeviceTypeOK, PnpStates
  <2>3. DutyTypeOK /\ ThermalTypeOK
    BY <2>1, Zenon DEF DutyTypeOK, ThermalTypeOK
  <2>4. QED
    BY <2>2, <2>3 DEF TypeOK
<1>2. DeviceInv /\ TimerInv /\ LockInv /\ DutyInv /\ TrustInv
  BY DEF DeviceInv, TimerInv, LockInv, DutyInv, TrustInv, Started, Controlling
<1>3. QED
  BY <1>1, <1>2 DEF IInv

\* A timer pass: the one step that may lower the duty cycle.
LEMMA TimerApplyIInv ==
    ASSUME IInv, TimerApply
    PROVE  IInv'
<1>1. PICK reply \in Replies : ApplyControl(reply) /\ Rearm(reply)
  BY Zenon DEF TimerApply
<1>2. /\ reply.ready \in BOOLEAN
      /\ reply.temperature \in Temps \union {0}
      /\ reply.temperature \in Nat
      /\ Trusted(reply) \in BOOLEAN
      /\ Overheated(reply) \in BOOLEAN
  <2>1. /\ reply.ready \in BOOLEAN
        /\ reply.temperature \in Temps \union {0}
    BY <1>1 DEF Replies
  <2>2. Trusted(reply) \in BOOLEAN /\ Overheated(reply) \in BOOLEAN
    BY Zenon DEF Trusted, Overheated
  <2>3. \A t \in Temps \union {0} : t \in Nat
    BY FanAssumption
  <2>4. QED
    BY <2>1, <2>2, <2>3, Zenon
<1>3. /\ hardwareReady /\ timerEnabled
      /\ pnp \in {"D0", "Leaving"}
      /\ currentPercent = pwm
      /\ currentPercent \in Nat
      /\ manualPercent \in ValidPercents
      /\ controlMode \in {"Automatic", "Manual"}
  <2>1. callback = "reading"
    BY DEF TimerApply
  <2>2. pnp \in {"D0", "Leaving"}
    BY <2>1 DEF IInv, LockInv
  <2>3. hardwareReady /\ timerEnabled /\ currentPercent = pwm
    BY <2>2 DEF IInv, DeviceInv, TimerInv, DutyInv, Started, Controlling
  <2>4. QED
    BY <2>2, <2>3 DEF IInv, TypeOK, DutyTypeOK, Percents
<1>4. /\ pnp' = pnp /\ io' = io /\ provider' = provider
      /\ controlMode' = controlMode /\ manualPercent' = manualPercent
      /\ mapped' = mapped /\ hardwareReady' = hardwareReady
      /\ timerEnabled' = timerEnabled
      /\ lock' = "free" /\ callback' = "idle"
  BY Zenon DEF TimerApply, environment, request, device
<1> DEFINE chosen == ChosenPercent(reply)
<1>5. /\ chosen \in ValidPercents
      /\ Trusted(reply) /\ ~ Overheated(reply) /\ controlMode = "Automatic" =>
            IsCurveChoice(reply.temperature, chosen, chosen)
      /\ Trusted(reply) /\ ~ Overheated(reply) /\ controlMode = "Manual" =>
            chosen = manualPercent
      /\ ~ Trusted(reply) \/ Overheated(reply) => chosen = 100
  <2>1. CASE ~ Trusted(reply) \/ Overheated(reply)
    BY <2>1 DEF ChosenPercent, Overheated, ValidPercents, FAN_MINIMUM_PERCENT,
                FAN_FAILSAFE_PERCENT
  <2>2. CASE Trusted(reply) /\ ~ Overheated(reply) /\ controlMode = "Manual"
    BY <1>3, <2>2 DEF ChosenPercent, Overheated
  <2>3. CASE Trusted(reply) /\ ~ Overheated(reply) /\ controlMode # "Manual"
    <3>1. chosen = FanCurvePercent(reply.temperature, currentPercent)
      BY <2>3 DEF ChosenPercent, Overheated
    <3>2. QED
      BY <1>2, <1>3, <2>3, <3>1, CurveStaysOnTable
  <2>4. QED
    BY <2>1, <2>2, <2>3
<1>6. /\ pwm' = chosen /\ currentPercent' = chosen
      /\ failSafeActive' = (~ Trusted(reply) \/ Overheated(reply))
  <2> HIDE DEF chosen
  <2>1. CanSet(chosen)
    BY <1>3, <1>5 DEF CanSet
  <2>2. /\ IF chosen = currentPercent THEN UNCHANGED duty ELSE SetPercent(chosen)
        /\ failSafeActive' = (~ Trusted(reply) \/ Overheated(reply))
    BY <1>1, <2>1, Zenon DEF ApplyControl, chosen
  <2>3. QED
    BY <1>3, <2>1, <2>2, Zenon DEF SetPercent, duty
<1>7. /\ providerReady' = reply.ready
      /\ temperatureValid' = Trusted(reply)
      /\ lastTemperature' = IF Trusted(reply) THEN reply.temperature
                                              ELSE lastTemperature
      /\ failures' = IF Trusted(reply) THEN 0 ELSE FailureCount(failures)
      /\ overTemperature' = Overheated(reply)
  BY <1>1, Zenon DEF ApplyControl
<1>8. armed' = TRUE
  BY <1>1, <1>3, Zenon DEF Rearm
<1> HIDE DEF chosen
<1>9. TypeOK'
  <2>1. failures' \in 0 .. MaxFailures
    BY <1>7, FanAssumption DEF IInv, TypeOK, ThermalTypeOK, FailureCount
  <2>2. /\ temperatureValid' \in BOOLEAN
        /\ overTemperature' \in BOOLEAN
        /\ failSafeActive' \in BOOLEAN
    BY <1>2, <1>6, <1>7, Zenon
  <2>3. lastTemperature' \in Temps \union {0}
    BY <1>2, <1>7 DEF IInv, TypeOK, ThermalTypeOK
  <2>4. pwm' \in Percents
    BY <1>5, <1>6 DEF Percents, ValidPercents, FAN_MINIMUM_PERCENT, FAN_FAILSAFE_PERCENT
  <2>5. FrameworkTypeOK'
    BY <1>4, <1>8 DEF IInv, TypeOK, FrameworkTypeOK
  <2>6. DeviceTypeOK'
    BY <1>4, Zenon DEF IInv, TypeOK, DeviceTypeOK
  <2>7. DutyTypeOK'
    BY <1>3, <1>4, <1>5, <1>6, <2>4, Zenon DEF DutyTypeOK
  <2>8. ThermalTypeOK'
    BY <1>2, <1>7, <2>1, <2>2, <2>3, Zenon DEF ThermalTypeOK
  <2>9. QED
    BY <2>5, <2>6, <2>7, <2>8 DEF TypeOK
<1>10. DeviceInv' /\ TimerInv' /\ LockInv'
  BY <1>3, <1>4, <1>8, Zenon DEF IInv, DeviceInv, TimerInv, LockInv, Controlling
<1>11. DutyInv'
  BY <1>5, <1>6 DEF DutyInv, FAN_FAILSAFE_PERCENT
<1>12. TrustInv'
  <2> SUFFICES ASSUME ~ failSafeActive' PROVE TrustInv'
    BY DEF TrustInv
  <2>1. Trusted(reply) /\ ~ Overheated(reply)
    BY <1>6, Zenon
  <2>2. reply.ready /\ reply.temperature \in SafeTemps
    BY <1>2, <2>1 DEF Trusted, Overheated, SafeTemps, LowestBelieved,
                     FAN_MANUAL_OVERTEMP_MILLIC
  <2>3. /\ temperatureValid' /\ providerReady' /\ ~ overTemperature'
        /\ failures' = 0 /\ lastTemperature' = reply.temperature
    BY <1>2, <1>7, <2>1, <2>2, Zenon
  <2>4. /\ controlMode' = "Manual" => pwm' = manualPercent'
        /\ controlMode' = "Automatic" => IsCurveChoice(lastTemperature', pwm', pwm')
    BY <1>4, <1>5, <1>6, <2>1, <2>3, Zenon
  <2>5. QED
    BY <1>3, <1>4, <2>2, <2>3, <2>4, Zenon DEF TrustInv
<1>13. QED
  BY <1>9, <1>10, <1>11, <1>12 DEF IInv

\* Every SET request: the mode changes and the fan goes to 100%.
LEMMA ForceFailSafeIInv ==
    ASSUME IInv, ForceFailSafe, io' = NoRequest,
           UNCHANGED <<pnp, armed, callback, lock, environment, thermal, device,
                       timerEnabled>>,
           controlMode' \in {"Automatic", "Manual"},
           manualPercent' \in ValidPercents
    PROVE  IInv'
<1>1. UNCHANGED <<pnp, armed, callback, lock, provider, temperatureValid,
                  providerReady, lastTemperature, failures, mapped,
                  hardwareReady, timerEnabled>>
  BY DEF environment, thermal, device
<1>2. failSafeActive' = TRUE /\ overTemperature' = FALSE
  BY DEF ForceFailSafe
<1>3. /\ 100 \in ValidPercents
      /\ hardwareReady => pwm' = 100 /\ currentPercent' = 100
      /\ ~ hardwareReady => pwm' = pwm /\ currentPercent' = currentPercent
  BY DEF ForceFailSafe, SetPercent, CanSet, duty, ValidPercents,
         FAN_MINIMUM_PERCENT, FAN_FAILSAFE_PERCENT
<1>4. TypeOK'
  <2>1. pwm' \in Percents /\ currentPercent' \in ValidPercents \union {UnknownPercent}
    BY <1>3 DEF IInv, TypeOK, DutyTypeOK, Percents
  <2>2. FrameworkTypeOK'
    BY <1>1 DEF IInv, TypeOK, FrameworkTypeOK
  <2>3. DeviceTypeOK'
    BY <1>1, Zenon DEF IInv, TypeOK, DeviceTypeOK
  <2>4. DutyTypeOK'
    BY <2>1, Zenon DEF IInv, TypeOK, DutyTypeOK
  <2>5. ThermalTypeOK'
    BY <1>1, <1>2, Zenon DEF IInv, TypeOK, ThermalTypeOK
  <2>6. QED
    BY <2>2, <2>3, <2>4, <2>5 DEF TypeOK
<1>5. DeviceInv' /\ TimerInv' /\ LockInv'
  BY <1>1 DEF IInv, DeviceInv, TimerInv, LockInv, Controlling
<1>6. DutyInv'
  BY <1>1, <1>3
     DEF IInv, DeviceInv, DutyInv, Controlling, Started, FAN_FAILSAFE_PERCENT
<1>7. TrustInv'
  BY <1>2 DEF TrustInv
<1>8. QED
  BY <1>4, <1>5, <1>6, <1>7 DEF IInv

\* The other steps of the timer.
LEMMA TimerFiresIInv ==
    ASSUME IInv, TimerFires
    PROVE  IInv'
<1>1. armed /\ callback = "idle" /\ armed' = FALSE /\ callback' = "queued"
  BY DEF TimerFires
<1>2. /\ UNCHANGED <<pnp, io, lock, provider, controlMode, manualPercent>>
      /\ UNCHANGED <<temperatureValid, providerReady, lastTemperature, failures>>
      /\ UNCHANGED <<mapped, hardwareReady, pwm, currentPercent, timerEnabled>>
      /\ UNCHANGED <<failSafeActive, overTemperature>>
  BY Zenon DEF TimerFires, environment, request, thermal, device, duty
<1>3. TypeOK'
  <2>1. FrameworkTypeOK'
    BY <1>1, <1>2 DEF IInv, TypeOK, FrameworkTypeOK
  <2>2. DeviceTypeOK'
    BY <1>2, Zenon DEF IInv, TypeOK, DeviceTypeOK
  <2>3. DutyTypeOK'
    BY <1>2, Zenon DEF IInv, TypeOK, DutyTypeOK
  <2>4. ThermalTypeOK'
    BY <1>2, Zenon DEF IInv, TypeOK, ThermalTypeOK
  <2>5. QED
    BY <2>1, <2>2, <2>3, <2>4 DEF TypeOK
<1>4. DeviceInv' /\ TimerInv' /\ LockInv'
  BY <1>1, <1>2 DEF IInv, DeviceInv, TimerInv, LockInv, Controlling
<1>5. DutyInv' /\ TrustInv'
  BY <1>1, <1>2, Zenon DEF IInv, DutyInv, TrustInv, Controlling
<1>6. QED
  BY <1>3, <1>4, <1>5 DEF IInv

LEMMA TimerEnterIInv ==
    ASSUME IInv, TimerEnter
    PROVE  IInv'
<1>1. callback = "queued" /\ lock = "free"
  BY DEF TimerEnter
<1>2. /\ UNCHANGED <<pnp, io, armed, provider, controlMode, manualPercent>>
      /\ UNCHANGED <<temperatureValid, lastTemperature, failures>>
      /\ UNCHANGED <<mapped, hardwareReady, pwm, currentPercent, timerEnabled>>
      /\ UNCHANGED <<failSafeActive, overTemperature>>
  BY Zenon DEF TimerEnter, environment, request, device, duty
<1>3. \/ /\ timerEnabled
         /\ lock' = "timer" /\ callback' = "reading" /\ providerReady' = FALSE
      \/ /\ ~ (timerEnabled /\ hardwareReady)
         /\ lock' = "free" /\ callback' = "idle" /\ providerReady' = providerReady
  BY <1>1, Zenon DEF TimerEnter
<1>4. TypeOK'
  <2>1. FrameworkTypeOK'
    BY <1>2, <1>3 DEF IInv, TypeOK, FrameworkTypeOK
  <2>2. DeviceTypeOK'
    BY <1>2, Zenon DEF IInv, TypeOK, DeviceTypeOK
  <2>3. DutyTypeOK'
    BY <1>2, Zenon DEF IInv, TypeOK, DutyTypeOK
  <2>4. ThermalTypeOK'
    BY <1>2, <1>3, Zenon DEF IInv, TypeOK, ThermalTypeOK
  <2>5. QED
    BY <2>1, <2>2, <2>3, <2>4 DEF TypeOK
<1>5. pnp \in {"D0", "Leaving"} => timerEnabled /\ hardwareReady
  BY DEF IInv, TimerInv, DeviceInv, Started
<1>6. timerEnabled => pnp \in {"D0", "Leaving"}
  BY DEF IInv, TimerInv
<1>7. DeviceInv' /\ TimerInv' /\ LockInv'
  BY <1>1, <1>2, <1>3, <1>5, <1>6
     DEF IInv, DeviceInv, TimerInv, LockInv, Controlling
<1>8. DutyInv'
  BY <1>2, Zenon DEF IInv, DutyInv, Controlling
<1>9. TrustInv'
  BY <1>1, <1>2, <1>3, <1>5, Zenon DEF IInv, TrustInv
<1>10. QED
  BY <1>4, <1>7, <1>8, <1>9 DEF IInv

\* D0Entry, D0Exit and ReleaseHardware: the fan goes to 100%.
LEMMA D0EntryIInv ==
    ASSUME IInv, D0Entry
    PROVE  IInv'
<1>1. /\ pnp \in {"Prepared", "Dx"} /\ lock = "free"
      /\ UNCHANGED <<io, callback, lock, provider, controlMode, manualPercent,
                     lastTemperature, failures, mapped, hardwareReady>>
      /\ failSafeActive' = TRUE /\ overTemperature' = FALSE
      /\ temperatureValid' = FALSE /\ providerReady' = FALSE
  BY Zenon DEF D0Entry, environment, request, device
<1>2. hardwareReady /\ callback = "idle"
  BY <1>1 DEF IInv, DeviceInv, TimerInv, Started, Controlling
<1>3. CanSet(FAN_FAILSAFE_PERCENT)
  BY <1>2 DEF CanSet, ValidPercents, FAN_MINIMUM_PERCENT, FAN_FAILSAFE_PERCENT
<1>4. timerEnabled' = TRUE /\ armed' = TRUE /\ pnp' = "D0"
  BY <1>3, Zenon DEF D0Entry
<1>5. pwm' = 100 /\ currentPercent' = 100 /\ 100 \in ValidPercents
  <2>1. pwm' = FAN_FAILSAFE_PERCENT /\ currentPercent' = FAN_FAILSAFE_PERCENT
    BY <1>3, Zenon DEF D0Entry, SetPercent
  <2>2. QED
    BY <2>1 DEF FAN_FAILSAFE_PERCENT, FAN_MINIMUM_PERCENT, ValidPercents
<1>6. TypeOK'
  <2>1. pwm' \in Percents
    BY <1>5 DEF Percents
  <2>2. FrameworkTypeOK'
    BY <1>1, <1>4 DEF IInv, TypeOK, FrameworkTypeOK, PnpStates
  <2>3. DeviceTypeOK'
    BY <1>1, <1>4, Zenon DEF IInv, TypeOK, DeviceTypeOK
  <2>4. DutyTypeOK'
    BY <1>1, <1>5, <2>1, Zenon DEF IInv, TypeOK, DutyTypeOK
  <2>5. ThermalTypeOK'
    BY <1>1, Zenon DEF IInv, TypeOK, ThermalTypeOK
  <2>6. QED
    BY <2>2, <2>3, <2>4, <2>5 DEF TypeOK
<1>7. DeviceInv' /\ TimerInv' /\ LockInv'
  BY <1>1, <1>2, <1>4 DEF IInv, DeviceInv, TimerInv, LockInv, Controlling
<1>8. DutyInv' /\ TrustInv'
  BY <1>1, <1>5 DEF DutyInv, TrustInv, FAN_FAILSAFE_PERCENT
<1>9. QED
  BY <1>6, <1>7, <1>8 DEF IInv

LEMMA D0ExitIInv ==
    ASSUME IInv, D0Exit
    PROVE  IInv'
<1>1. /\ pnp = "Leaving" /\ pnp' = "ExitCancel" /\ lock = "free"
      /\ UNCHANGED <<io, armed, callback, lock, provider, controlMode,
                     manualPercent, lastTemperature, failures, mapped,
                     hardwareReady, overTemperature>>
      /\ timerEnabled' = FALSE /\ failSafeActive' = TRUE
      /\ temperatureValid' = FALSE /\ providerReady' = FALSE
  BY Zenon DEF D0Exit, environment, request, device
<1>2. hardwareReady /\ CanSet(FAN_FAILSAFE_PERCENT)
  BY <1>1 DEF IInv, DeviceInv, Started, CanSet, ValidPercents,
              FAN_MINIMUM_PERCENT, FAN_FAILSAFE_PERCENT
<1>3. pwm' = 100 /\ currentPercent' = 100 /\ 100 \in ValidPercents
  <2>1. pwm' = FAN_FAILSAFE_PERCENT /\ currentPercent' = FAN_FAILSAFE_PERCENT
    BY <1>2, Zenon DEF D0Exit, SetPercent
  <2>2. QED
    BY <2>1 DEF FAN_FAILSAFE_PERCENT, FAN_MINIMUM_PERCENT, ValidPercents
<1>4. TypeOK'
  <2>1. pwm' \in Percents
    BY <1>3 DEF Percents
  <2>2. FrameworkTypeOK'
    BY <1>1 DEF IInv, TypeOK, FrameworkTypeOK, PnpStates
  <2>3. DeviceTypeOK'
    BY <1>1, Zenon DEF IInv, TypeOK, DeviceTypeOK
  <2>4. DutyTypeOK'
    BY <1>1, <1>3, <2>1, Zenon DEF IInv, TypeOK, DutyTypeOK
  <2>5. ThermalTypeOK'
    BY <1>1, Zenon DEF IInv, TypeOK, ThermalTypeOK
  <2>6. QED
    BY <2>2, <2>3, <2>4, <2>5 DEF TypeOK
<1>5. DeviceInv' /\ TimerInv' /\ LockInv'
  BY <1>1, <1>2 DEF IInv, DeviceInv, TimerInv, LockInv, Controlling, Started
<1>6. DutyInv' /\ TrustInv'
  BY <1>1, <1>3 DEF DutyInv, TrustInv, FAN_FAILSAFE_PERCENT
<1>7. QED
  BY <1>4, <1>5, <1>6 DEF IInv

LEMMA ReleaseReturnsIInv ==
    ASSUME IInv, ReleaseReturns
    PROVE  IInv'
<1>1. /\ pnp = "RelWait" /\ pnp' = "NoHardware"
      /\ UNCHANGED <<io, armed, callback, lock, provider, controlMode,
                     manualPercent, lastTemperature, failures, timerEnabled,
                     overTemperature>>
      /\ failSafeActive' = TRUE /\ temperatureValid' = FALSE
      /\ providerReady' = FALSE /\ hardwareReady' = FALSE /\ mapped' = FALSE
  BY Zenon DEF ReleaseReturns, environment, request
<1>2. \/ pwm' = 100 /\ currentPercent' = 100
      \/ pwm' = pwm /\ currentPercent' = currentPercent
  <2>1. \/ pwm' = FAN_FAILSAFE_PERCENT /\ currentPercent' = FAN_FAILSAFE_PERCENT
        \/ pwm' = pwm /\ currentPercent' = currentPercent
    BY Zenon DEF ReleaseReturns, SetPercent, duty
  <2>2. QED
    BY <2>1 DEF FAN_FAILSAFE_PERCENT
<1>3. TypeOK'
  <2>1. pwm' \in Percents /\ currentPercent' \in ValidPercents \union {UnknownPercent}
    BY <1>2 DEF IInv, TypeOK, DutyTypeOK, Percents, ValidPercents,
                FAN_MINIMUM_PERCENT, FAN_FAILSAFE_PERCENT
  <2>2. FrameworkTypeOK'
    BY <1>1 DEF IInv, TypeOK, FrameworkTypeOK, PnpStates
  <2>3. DeviceTypeOK'
    BY <1>1, Zenon DEF IInv, TypeOK, DeviceTypeOK
  <2>4. DutyTypeOK'
    BY <1>1, <2>1, Zenon DEF IInv, TypeOK, DutyTypeOK
  <2>5. ThermalTypeOK'
    BY <1>1, Zenon DEF IInv, TypeOK, ThermalTypeOK
  <2>6. QED
    BY <2>2, <2>3, <2>4, <2>5 DEF TypeOK
<1>4. DeviceInv' /\ TimerInv' /\ LockInv' /\ DutyInv' /\ TrustInv'
  BY <1>1 DEF IInv, DeviceInv, TimerInv, LockInv, DutyInv, TrustInv, Controlling,
              Started
<1>5. QED
  BY <1>3, <1>4 DEF IInv

LEMMA PrepareHardwareIInv ==
    ASSUME IInv, PrepareHardware
    PROVE  IInv'
<1>1. /\ pnp = "NoHardware" /\ pnp' = "Prepared"
      /\ UNCHANGED <<io, armed, callback, lock, provider, controlMode,
                     manualPercent, lastTemperature, pwm>>
      /\ mapped' = TRUE /\ hardwareReady' = TRUE /\ timerEnabled' = FALSE
      /\ currentPercent' = UnknownPercent /\ temperatureValid' = FALSE
      /\ providerReady' = FALSE /\ failures' = 0 /\ overTemperature' = FALSE
      /\ failSafeActive' = TRUE
  BY Zenon DEF PrepareHardware, environment, request
<1>2. TypeOK'
  <2>1. FrameworkTypeOK'
    BY <1>1 DEF IInv, TypeOK, FrameworkTypeOK, PnpStates
  <2>2. DeviceTypeOK'
    BY <1>1, Zenon DEF IInv, TypeOK, DeviceTypeOK
  <2>3. DutyTypeOK'
    BY <1>1, Zenon DEF IInv, TypeOK, DutyTypeOK
  <2>4. 0 \in 0 .. MaxFailures
    BY FanAssumption
  <2>5. ThermalTypeOK'
    BY <1>1, <2>4, Zenon DEF IInv, TypeOK, ThermalTypeOK
  <2>6. QED
    BY <2>1, <2>2, <2>3, <2>5 DEF TypeOK
<1>3. DeviceInv' /\ TimerInv' /\ LockInv' /\ DutyInv' /\ TrustInv'
  BY <1>1 DEF IInv, DeviceInv, TimerInv, LockInv, DutyInv, TrustInv, Controlling,
              Started
<1>4. QED
  BY <1>2, <1>3 DEF IInv

\* The steps that leave the duty cycle, and all that stands behind it, alone.
LEMMA SettingsKeptIInv ==
    ASSUME IInv,
           UNCHANGED <<callback, lock, request, thermal, device, duty,
                       failSafeActive, overTemperature>>,
           FrameworkTypeOK', provider' \in {"up", "down"}, timerEnabled' \in BOOLEAN,
           TimerInv',
           pnp' \in Started => pnp \in Started,
           Controlling' => Controlling,
           pnp \in {"D0", "Leaving"} => pnp' \in {"D0", "Leaving"}
    PROVE  IInv'
<1>1. /\ UNCHANGED <<callback, lock, controlMode, manualPercent>>
      /\ UNCHANGED <<temperatureValid, providerReady, lastTemperature, failures>>
      /\ UNCHANGED <<mapped, hardwareReady, pwm, currentPercent>>
      /\ UNCHANGED <<failSafeActive, overTemperature>>
  BY Zenon DEF request, thermal, device, duty
<1>2. DeviceTypeOK'
  BY <1>1, Zenon DEF IInv, TypeOK, DeviceTypeOK
<1>3. DutyTypeOK'
  BY <1>1, Zenon DEF IInv, TypeOK, DutyTypeOK
<1>4. ThermalTypeOK'
  BY <1>1, Zenon DEF IInv, TypeOK, ThermalTypeOK
<1>5. DeviceInv' /\ LockInv'
  BY <1>1 DEF IInv, DeviceInv, LockInv
<1>6. DutyInv'
  BY <1>1 DEF IInv, DutyInv
<1>7. TrustInv'
  BY <1>1 DEF IInv, TrustInv
<1>8. QED
  BY <1>2, <1>3, <1>4, <1>5, <1>6, <1>7 DEF IInv, TypeOK

LEMMA PnpStepIInv ==
    ASSUME IInv,
           \/ PrepareHardwareFails \/ LeaveD0 \/ ReleaseHardware
           \/ TimerStopCancels \/ D0ExitReturns
    PROVE  IInv'
<1>1. CASE PrepareHardwareFails
  <2>1. /\ pnp = "NoHardware" /\ pnp' = "Failed"
        /\ UNCHANGED <<io, armed, callback, lock, provider, timerEnabled>>
        /\ UNCHANGED <<callback, lock, request, thermal, device, duty,
                       failSafeActive, overTemperature>>
    BY <1>1, Zenon DEF PrepareHardwareFails, environment
  <2>2. TimerInv' /\ FrameworkTypeOK'
    BY <2>1 DEF IInv, TypeOK, FrameworkTypeOK, PnpStates, TimerInv, Controlling
  <2>3. QED
    BY <2>1, <2>2, SettingsKeptIInv
       DEF IInv, TypeOK, DeviceTypeOK, Started, Controlling
<1>2. CASE LeaveD0
  <2>1. /\ pnp = "D0" /\ pnp' = "Leaving"
        /\ UNCHANGED <<io, armed, callback, lock, provider, timerEnabled>>
        /\ UNCHANGED <<callback, lock, request, thermal, device, duty,
                       failSafeActive, overTemperature>>
    BY <1>2, Zenon DEF LeaveD0, environment
  <2>2. TimerInv' /\ FrameworkTypeOK'
    BY <2>1 DEF IInv, TypeOK, FrameworkTypeOK, PnpStates, TimerInv, Controlling
  <2>3. QED
    BY <2>1, <2>2, SettingsKeptIInv
       DEF IInv, TypeOK, DeviceTypeOK, Started, Controlling
<1>3. CASE ReleaseHardware
  <2>1. /\ pnp \in {"Dx", "Failed"} /\ pnp' = "RelCancel" /\ timerEnabled' = FALSE
        /\ UNCHANGED <<io, armed, callback, lock, provider>>
        /\ UNCHANGED <<callback, lock, request, thermal, device, duty,
                       failSafeActive, overTemperature>>
    BY <1>3, Zenon DEF ReleaseHardware, environment
  <2>2. TimerInv' /\ FrameworkTypeOK'
    BY <2>1 DEF IInv, TypeOK, FrameworkTypeOK, PnpStates, TimerInv, Controlling
  <2>3. QED
    BY <2>1, <2>2, SettingsKeptIInv
       DEF IInv, TypeOK, DeviceTypeOK, Started, Controlling
<1>4. CASE TimerStopCancels
  <2>1. /\ \/ pnp = "ExitCancel" /\ pnp' = "ExitWait"
           \/ pnp = "RelCancel" /\ pnp' = "RelWait"
        /\ armed' = FALSE
        /\ UNCHANGED <<io, callback, lock, provider, timerEnabled>>
        /\ UNCHANGED <<callback, lock, request, thermal, device, duty,
                       failSafeActive, overTemperature>>
    BY <1>4, Zenon DEF TimerStopCancels, environment
  <2>2. TimerInv' /\ FrameworkTypeOK'
    BY <2>1 DEF IInv, TypeOK, FrameworkTypeOK, PnpStates, TimerInv, Controlling
  <2>3. QED
    BY <2>1, <2>2, SettingsKeptIInv
       DEF IInv, TypeOK, DeviceTypeOK, Started, Controlling
<1>5. CASE D0ExitReturns
  <2>1. /\ pnp = "ExitWait" /\ pnp' = "Dx" /\ callback = "idle"
        /\ UNCHANGED <<io, armed, callback, lock, provider, timerEnabled>>
        /\ UNCHANGED <<callback, lock, request, thermal, device, duty,
                       failSafeActive, overTemperature>>
    BY <1>5, Zenon DEF D0ExitReturns, environment
  <2>2. TimerInv' /\ FrameworkTypeOK'
    BY <2>1 DEF IInv, TypeOK, FrameworkTypeOK, PnpStates, TimerInv, Controlling
  <2>3. QED
    BY <2>1, <2>2, SettingsKeptIInv
       DEF IInv, TypeOK, DeviceTypeOK, Started, Controlling
<1>6. QED
  BY <1>1, <1>2, <1>3, <1>4, <1>5

\* The queue's handler.
LEMMA IoDeviceControlIInv ==
    ASSUME IInv, IoArrives \/ IoDeviceControl
    PROVE  IInv'
<1>1. CASE IoArrives \/ SetManualRejected \/ GetStatus
  <2>1. /\ io' \in Requests \union {NoRequest}
        /\ UNCHANGED <<pnp, armed, callback, lock, provider, timerEnabled>>
        /\ UNCHANGED <<callback, lock, request, thermal, device, duty,
                       failSafeActive, overTemperature>>
    BY <1>1, Zenon DEF IoArrives, SetManualRejected, GetStatus, Serves, environment
  <2>2. TimerInv' /\ FrameworkTypeOK'
    BY <2>1 DEF IInv, TypeOK, FrameworkTypeOK, TimerInv, Controlling
  <2>3. QED
    BY <2>1, <2>2, SettingsKeptIInv
       DEF IInv, TypeOK, DeviceTypeOK, Controlling
<1>2. CASE SetAuto \/ SetManual \/ SetFailSafe
  <2>1. 100 \in ValidPercents /\ manualPercent \in ValidPercents
    BY DEF IInv, TypeOK, DutyTypeOK, ValidPercents, FAN_MINIMUM_PERCENT,
           FAN_FAILSAFE_PERCENT
  <2>2. /\ controlMode' \in {"Automatic", "Manual"}
        /\ manualPercent' \in ValidPercents
    <3>1. /\ controlMode' \in {"Automatic", "Manual"}
          /\ \/ manualPercent' = manualPercent
             \/ manualPercent' = FAN_FAILSAFE_PERCENT
             \/ manualPercent' = io.percent /\ io.percent \in ValidPercents
      BY <1>2, Zenon DEF SetAuto, SetManual, SetFailSafe
    <3>2. QED
      BY <2>1, <3>1 DEF FAN_FAILSAFE_PERCENT
  <2>3. /\ ForceFailSafe /\ io' = NoRequest
        /\ UNCHANGED <<pnp, armed, callback, lock, environment, thermal, device,
                       timerEnabled>>
    BY <1>2, Zenon DEF SetAuto, SetManual, SetFailSafe, Serves
  <2>4. QED
    BY <2>2, <2>3, ForceFailSafeIInv, Zenon
<1>3. QED
  BY <1>1, <1>2, Zenon DEF IoDeviceControl

LEMMA ProviderChangesIInv ==
    ASSUME IInv, ProviderChanges
    PROVE  IInv'
<1>1. /\ provider' \in {"up", "down"}
      /\ UNCHANGED <<pnp, io, armed, timerEnabled>>
      /\ UNCHANGED <<callback, lock, request, thermal, device, duty,
                     failSafeActive, overTemperature>>
  BY Zenon DEF ProviderChanges, framework
<1>2. UNCHANGED <<callback, lock>>
  BY <1>1
<1>3. TimerInv' /\ FrameworkTypeOK'
  BY <1>1, <1>2 DEF IInv, TypeOK, FrameworkTypeOK, TimerInv, Controlling
<1>4. QED
  BY <1>1, <1>3, SettingsKeptIInv DEF IInv, TypeOK, DeviceTypeOK, Controlling

LEMMA ForeignDutyIInv ==
    ASSUME IInv, ForeignDutyAppears
    PROVE  IInv'
<1>1. /\ pnp \in {"NoHardware", "Dx"} /\ pwm' \in ForeignDuty
      /\ UNCHANGED <<pnp, io, armed, callback, lock, provider>>
      /\ UNCHANGED <<controlMode, manualPercent, currentPercent>>
      /\ UNCHANGED <<temperatureValid, providerReady, lastTemperature, failures>>
      /\ UNCHANGED <<mapped, hardwareReady, timerEnabled>>
      /\ UNCHANGED <<failSafeActive, overTemperature>>
  BY Zenon DEF ForeignDutyAppears, framework, environment, request, thermal, device
<1>2. TypeOK'
  <2>1. FrameworkTypeOK'
    BY <1>1 DEF IInv, TypeOK, FrameworkTypeOK
  <2>2. DeviceTypeOK'
    BY <1>1, Zenon DEF IInv, TypeOK, DeviceTypeOK
  <2>3. pwm' \in Percents
    BY <1>1, FanAssumption, Zenon
  <2>4. DutyTypeOK'
    BY <1>1, <2>3, Zenon DEF IInv, TypeOK, DutyTypeOK
  <2>5. ThermalTypeOK'
    BY <1>1, Zenon DEF IInv, TypeOK, ThermalTypeOK
  <2>6. QED
    BY <2>1, <2>2, <2>4, <2>5 DEF TypeOK
<1>3. DeviceInv' /\ TimerInv' /\ LockInv'
  BY <1>1 DEF IInv, DeviceInv, TimerInv, LockInv, Controlling
<1>4. DutyInv'
  BY <1>1 DEF DutyInv, Controlling
<1>5. TrustInv'
  BY <1>1 DEF IInv, TrustInv
<1>6. QED
  BY <1>2, <1>3, <1>4, <1>5 DEF IInv

LEMMA StutterIInv ==
    ASSUME IInv, UNCHANGED vars
    PROVE  IInv'
<1>1. UNCHANGED <<pnp, io, armed, callback, lock, provider, timerEnabled>>
  BY Zenon DEF vars, framework, environment
<1>2. UNCHANGED <<request, thermal, device, duty, failSafeActive, overTemperature>>
  BY Zenon DEF vars
<1>3. TimerInv' /\ FrameworkTypeOK'
  BY <1>1 DEF IInv, TypeOK, FrameworkTypeOK, TimerInv, Controlling
<1>4. QED
  BY <1>1, <1>2, <1>3, SettingsKeptIInv DEF IInv, TypeOK, DeviceTypeOK, Controlling

LEMMA NextIInv == IInv /\ [Next]_vars => IInv'
<1> SUFFICES ASSUME IInv, [Next]_vars PROVE IInv'
  OBVIOUS
<1>1. CASE Timer
  BY <1>1, TimerFiresIInv, TimerEnterIInv, TimerApplyIInv, Zenon DEF Timer
<1>2. CASE Power
  BY <1>2, PrepareHardwareIInv, D0EntryIInv, D0ExitIInv, ReleaseReturnsIInv,
     PnpStepIInv, Zenon DEF Power
<1>3. CASE IoArrives \/ IoDeviceControl
  BY <1>3, IoDeviceControlIInv, Zenon
<1>4. CASE ProviderChanges \/ ForeignDutyAppears
  BY <1>4, ProviderChangesIInv, ForeignDutyIInv, Zenon
<1>5. CASE UNCHANGED vars
  BY <1>5, StutterIInv, Zenon
<1>6. QED
  BY <1>1, <1>2, <1>3, <1>4, <1>5, Zenon DEF Next

\* The inductive invariant holds in every reachable state.
THEOREM InvariantHolds == Spec => []IInv
<1>1. Init => IInv
  BY InitIInv
<1>2. IInv /\ [Next]_vars => IInv'
  BY NextIInv
<1>3. QED
  BY <1>1, <1>2, PTL DEF Spec

-----------------------------------------------------------------------------
(* The safety properties *)

\* Every variable keeps its type in every behaviour of the driver.
THEOREM TypeCorrect == Spec => []TypeOK
<1>1. IInv => TypeOK
  BY DEF IInv
<1>2. QED
  BY <1>1, InvariantHolds, PTL

\* The fail-safe flag, whichever handler sets it, always means 100% at the
\* hardware (FanSetPercent and the shadow CurrentPercent).
THEOREM FailSafeHolds == Spec => []FailSafeIsFullSpeed
<1>1. IInv => FailSafeIsFullSpeed
  BY DEF IInv, DutyInv, FailSafeIsFullSpeed
<1>2. QED
  BY <1>1, InvariantHolds, PTL

\* FanApplyControlLocked is the only code that clears the fail-safe flag, and
\* it does so on a believable temperature below the limit only.
THEOREM TrustHolds == Spec => []NormalControlIsTrusted
<1>1. IInv => NormalControlIsTrusted
  BY DEF IInv, TrustInv, DeviceInv, LockInv, Started, NormalControlIsTrusted, Unlocked
<1>2. QED
  BY <1>1, InvariantHolds, PTL

\* A duty cycle below 100% always has a timer pass ahead of it: FanEvtTimer
\* re-arms the one-shot timer on every path that leaves the fan slow.
THEOREM WatchHolds == Spec => []SlowFanIsWatched
<1>1. IInv => SlowFanIsWatched
  <2> SUFFICES ASSUME IInv, Controlling, pwm < FAN_FAILSAFE_PERCENT
               PROVE  timerEnabled /\ (armed \/ callback # "idle")
    BY DEF SlowFanIsWatched
  <2>1. ~ failSafeActive
    BY DEF IInv, DutyInv, FAN_FAILSAFE_PERCENT
  <2>2. pnp \in {"D0", "Leaving"}
    BY <2>1 DEF IInv, TrustInv
  <2>3. QED
    BY <2>2 DEF IInv, TimerInv
<1>2. QED
  BY <1>1, InvariantHolds, PTL

\* Automatic mode follows the curve of FanCurve.h at the last temperature.
THEOREM CurveHolds == Spec => []AutomaticFollowsCurve
<1>1. IInv => AutomaticFollowsCurve
  BY DEF IInv, TrustInv, AutomaticFollowsCurve
<1>2. QED
  BY <1>1, InvariantHolds, PTL

\* GET_STATUS never reports a duty cycle the hardware does not run at.
THEOREM StatusHolds == Spec => []StatusIsTruthful
<1>1. IInv => StatusIsTruthful
  <2> SUFFICES ASSUME IInv, pnp = "D0", Unlocked
               PROVE  ReportedPercent = pwm /\ ReportedRequest = pwm
    BY DEF StatusIsTruthful
  <2>1. /\ Controlling /\ currentPercent = pwm
        /\ failSafeActive => pwm = FAN_FAILSAFE_PERCENT
    BY DEF IInv, DutyInv, Controlling
  <2>2. currentPercent <= FAN_FAILSAFE_PERCENT
    BY <2>1 DEF IInv, TypeOK, DutyTypeOK, Percents, FAN_FAILSAFE_PERCENT
  <2>3. ReportedPercent = pwm
    BY <2>1, <2>2 DEF ReportedPercent
  <2>4. ~ failSafeActive /\ controlMode = "Manual" => manualPercent = pwm
    BY DEF IInv, TrustInv
  <2>5. QED
    BY <2>1, <2>3, <2>4 DEF ReportedRequest
<1>2. QED
  BY <1>1, InvariantHolds, PTL

\* After D0Exit and before D0Entry the driver is at rest: WdfTimerStop has
\* cancelled or waited for every callback.
THEOREM QuietHolds == Spec => []QuietOutsideD0
<1>1. IInv => QuietOutsideD0
  BY DEF IInv, TimerInv, QuietOutsideD0, Controlling
<1>2. QED
  BY <1>1, InvariantHolds, PTL

\* No register is touched through a mapping FanUnmapResources has undone.
THEOREM MappingHolds == Spec => []RegistersMapped
<1>1. IInv => RegistersMapped
  BY DEF IInv, DeviceInv, LockInv, Started, RegistersMapped
<1>2. QED
  BY <1>1, InvariantHolds, PTL

-----------------------------------------------------------------------------
(* What a step may do: the action properties and the abstract governor *)

\* Nothing the governor sees changes.
Unseen == /\ Controlling' = Controlling
          /\ UNCHANGED <<pwm, failSafeActive, lastTemperature>>

\* A timer pass with a usable sample.
Sampled == /\ Controlling /\ Controlling'
           /\ callback = "reading" /\ callback' = "idle"
           /\ provider = "up" /\ temperatureValid' /\ ~ failSafeActive'

\* Every step is one of six: unseen, sampled, a fall back to the fail-safe,
\* the end of D0Entry, the return of D0Exit, or one while nobody is in charge.
StepShape ==
    \/ Unseen
    \/ Sampled
    \/ Controlling /\ Controlling' /\ failSafeActive'
    \/ ~ Controlling /\ Controlling' /\ failSafeActive'
    \/ /\ pnp = "ExitWait" /\ ~ Controlling'
       /\ UNCHANGED <<pwm, failSafeActive, lastTemperature>>
    \/ ~ Controlling /\ ~ Controlling'

LEMMA StepsHaveShape ==
    ASSUME IInv, [Next]_vars
    PROVE  StepShape
<1>1. CASE Timer
  <2>1. CASE TimerFires \/ TimerEnter
    <3>1. UNCHANGED <<pnp, pwm, failSafeActive, lastTemperature>>
      BY <2>1, Zenon DEF TimerFires, TimerEnter, thermal, duty
    <3>2. QED
      BY <3>1 DEF StepShape, Unseen, Controlling
  <2>2. CASE TimerApply
    <3>1. PICK reply \in Replies :
             /\ Trusted(reply) <=> provider = "up"
             /\ ApplyControl(reply)
      BY <2>2, Zenon DEF TimerApply
    <3>2. callback = "reading" /\ callback' = "idle" /\ pnp' = pnp
      BY <2>2, Zenon DEF TimerApply
    <3>3. Controlling /\ Controlling'
      BY <3>2 DEF IInv, LockInv, Controlling
    <3>4. failSafeActive' \/ (provider = "up" /\ temperatureValid')
      BY <3>1, Zenon DEF ApplyControl
    <3>5. QED
      BY <3>2, <3>3, <3>4, Zenon DEF StepShape, Sampled
  <2>3. QED
    BY <1>1, <2>1, <2>2 DEF Timer
<1>2. CASE Power
  <2>1. CASE PrepareHardware \/ PrepareHardwareFails \/ ReleaseHardware \/ ReleaseReturns
    <3>1. /\ pnp \in {"NoHardware", "Dx", "Failed", "RelWait"}
          /\ pnp' \in {"Prepared", "Failed", "RelCancel", "NoHardware"}
      BY <2>1 DEF PrepareHardware, PrepareHardwareFails, ReleaseHardware, ReleaseReturns
    <3>2. QED
      BY <3>1 DEF StepShape, Controlling
  <2>2. CASE LeaveD0 \/ TimerStopCancels
    <3>1. /\ \/ pnp = "D0" /\ pnp' = "Leaving"
             \/ pnp = "ExitCancel" /\ pnp' = "ExitWait"
             \/ pnp = "RelCancel" /\ pnp' = "RelWait"
          /\ UNCHANGED <<pwm, failSafeActive, lastTemperature>>
      BY <2>2, Zenon DEF LeaveD0, TimerStopCancels, thermal, duty
    <3>2. QED
      BY <3>1 DEF StepShape, Unseen, Controlling
  <2>3. CASE D0Entry
    <3>1. pnp \in {"Prepared", "Dx"} /\ pnp' \in {"D0", "Failed"} /\ failSafeActive'
      BY <2>3, Zenon DEF D0Entry
    <3>2. QED
      BY <3>1 DEF StepShape, Controlling
  <2>4. CASE D0Exit
    <3>1. pnp = "Leaving" /\ pnp' = "ExitCancel" /\ failSafeActive'
      BY <2>4, Zenon DEF D0Exit
    <3>2. QED
      BY <3>1 DEF StepShape, Controlling
  <2>5. CASE D0ExitReturns
    <3>1. /\ pnp = "ExitWait" /\ pnp' = "Dx"
          /\ UNCHANGED <<pwm, failSafeActive, lastTemperature>>
      BY <2>5, Zenon DEF D0ExitReturns, thermal, duty
    <3>2. QED
      BY <3>1 DEF StepShape, Controlling
  <2>6. QED
    BY <1>2, <2>1, <2>2, <2>3, <2>4, <2>5 DEF Power
<1>3. CASE IoArrives \/ SetManualRejected \/ GetStatus \/ ProviderChanges
  <2>1. UNCHANGED <<pnp, pwm, failSafeActive, lastTemperature>>
    BY <1>3, Zenon DEF IoArrives, SetManualRejected, GetStatus, ProviderChanges,
                       Serves, framework, thermal, duty
  <2>2. QED
    BY <2>1 DEF StepShape, Unseen, Controlling
<1>4. CASE SetAuto \/ SetManual \/ SetFailSafe
  <2>1. pnp' = pnp /\ failSafeActive'
    BY <1>4, Zenon DEF SetAuto, SetManual, SetFailSafe, ForceFailSafe, Serves
  <2>2. QED
    BY <2>1 DEF StepShape, Controlling
<1>5. CASE ForeignDutyAppears
  <2>1. pnp \in {"NoHardware", "Dx"} /\ pnp' = pnp
    BY <1>5, Zenon DEF ForeignDutyAppears, framework
  <2>2. QED
    BY <2>1 DEF StepShape, Controlling
<1>6. CASE UNCHANGED vars
  <2>1. UNCHANGED <<pnp, pwm, failSafeActive, lastTemperature>>
    BY <1>6, Zenon DEF vars, framework, thermal, duty
  <2>2. QED
    BY <2>1 DEF StepShape, Unseen, Controlling
<1>7. QED
  BY <1>1, <1>2, <1>3, <1>4, <1>5, <1>6, Zenon DEF Next, IoDeviceControl

\* Requests, power transitions and stale samples never slow the fan down.
THEOREM SlowingHolds == Spec => SlowedByFreshSampleOnly
<1>1. ASSUME IInv, IInv', [Next]_vars
      PROVE  [pwm' < pwm /\ Controlling =>
                /\ callback = "reading" /\ callback' = "idle"
                /\ provider = "up" /\ temperatureValid' /\ ~ failSafeActive']_vars
  <2> SUFFICES ASSUME pwm' < pwm, Controlling
               PROVE  Sampled
    BY DEF Sampled
  <2>1. pwm \in Percents
    BY <1>1 DEF IInv, TypeOK, DutyTypeOK
  <2>2. ~ (Controlling' /\ failSafeActive')
    BY <1>1, <2>1 DEF IInv, DutyInv, FAN_FAILSAFE_PERCENT, Percents
  <2>3. pwm' # pwm
    BY <2>1 DEF Percents
  <2>4. QED
    BY <1>1, <2>2, <2>3, StepsHaveShape DEF StepShape, Unseen
<1>2. QED
  BY <1>1, InvariantHolds, PTL DEF Spec, SlowedByFreshSampleOnly

\* D0Exit returns with the fan at 100%.
THEOREM HandOverHolds == Spec => HandedOverAtFullSpeed
<1>1. ASSUME IInv, [Next]_vars
      PROVE  [Controlling /\ ~ Controlling' => pwm = FAN_FAILSAFE_PERCENT]_vars
  <2> SUFFICES ASSUME Controlling, ~ Controlling'
               PROVE  pwm = FAN_FAILSAFE_PERCENT
    OBVIOUS
  <2>1. pnp = "ExitWait"
    BY <1>1, StepsHaveShape DEF StepShape, Unseen, Sampled
  <2>2. failSafeActive
    BY <1>1, <2>1 DEF IInv, TrustInv
  <2>3. QED
    BY <1>1, <2>2 DEF IInv, DutyInv
<1>2. QED
  BY <1>1, InvariantHolds, PTL DEF Spec, HandedOverAtFullSpeed

\* The driver implements FanGovernor under the mapping of FanDriver.
THEOREM GovernorImplemented == Spec => ImplementsGovernor
<1>1. Init => Governor!Init
  BY DEF Init, Governor!Init, Controlling
<1>2. ASSUME IInv, IInv', [Next]_vars
      PROVE  [Governor!Next]_(Governor!vars)
  <2>1. /\ ~ Controlling => failSafeActive
        /\ ~ Controlling' => failSafeActive'
        /\ pnp = "ExitWait" => failSafeActive
    BY <1>2 DEF IInv, TrustInv, Controlling
  <2>2. /\ Controlling /\ failSafeActive => pwm = FAN_FAILSAFE_PERCENT
        /\ Controlling' /\ failSafeActive' => pwm' = FAN_FAILSAFE_PERCENT
    BY <1>2 DEF IInv, DutyInv
  <2>3. CASE Unseen
    BY <2>3 DEF Unseen, Governor!vars
  <2>4. CASE Sampled
    <3>1. lastTemperature' \in SafeTemps
      BY <1>2, <2>4 DEF IInv, TrustInv, Sampled
    <3>2. pwm' \in ValidPercents
      <4>1. /\ currentPercent' = pwm' /\ pwm' \in Percents
            /\ currentPercent' \in ValidPercents \union {UnknownPercent}
        BY <1>2, <2>4 DEF IInv, DutyInv, TypeOK, DutyTypeOK, Sampled
      <4>2. QED
        BY <4>1 DEF Percents, UnknownPercent
    <3>3. QED
      BY <2>4, <3>1, <3>2 DEF Sampled, Governor!Next, Governor!Judge
  <2>5. CASE Controlling /\ Controlling' /\ failSafeActive'
    BY <2>2, <2>5 DEF Governor!Next, Governor!Retreat
  <2>6. CASE ~ Controlling /\ Controlling' /\ failSafeActive'
    BY <2>2, <2>6 DEF Governor!Next, Governor!Engage
  <2>7. CASE /\ pnp = "ExitWait" /\ ~ Controlling'
             /\ UNCHANGED <<pwm, failSafeActive, lastTemperature>>
    BY <2>1, <2>2, <2>7 DEF Governor!Next, Governor!Disengage, Controlling
  <2>8. CASE ~ Controlling /\ ~ Controlling'
    <3>1. Controlling' = Controlling
      BY <2>8 DEF Controlling
    <3>2. QED
      BY <2>1, <2>8, <3>1, Zenon DEF Governor!vars
  <2>9. QED
    BY <1>2, <2>3, <2>4, <2>5, <2>6, <2>7, <2>8, StepsHaveShape DEF StepShape
<1>3. QED
  BY <1>1, <1>2, InvariantHolds, PTL DEF Spec, ImplementsGovernor, Governor!Spec

=============================================================================
