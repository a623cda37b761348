------------------------------ MODULE FanCurve ------------------------------
(***************************************************************************)
(* The fan curve of WindowsDriver/Rpi5Fan/FanCurve.h, which the UEFI driver *)
(* repeats in GetAutomaticFanSpeed: a duty cycle in percent for a          *)
(* temperature in millidegrees Celsius, with hysteresis on the way down.   *)
(* Everything here is a constant-level operator, so that the drivers'      *)
(* modules can use it and TLAPS can reason about it.                       *)
(***************************************************************************)
EXTENDS Integers

\* The duty cycles the curve can ask for.
Levels == {30, 40, 50, 70, 100}

\* The lowest temperature at which the rising curve asks for each level.
OnThreshold == [p \in Levels |->
    CASE p = 30  -> 0
      [] p = 40  -> 50000
      [] p = 50  -> 60000
      [] p = 70  -> 67500
      [] p = 100 -> 75000]

Hysteresis == 5000

-----------------------------------------------------------------------------

\* FanCurve.h's "target": the curve without hysteresis.
Target(milliCelsius) ==
    IF milliCelsius >= 75000 THEN 100
    ELSE IF milliCelsius >= 67500 THEN 70
    ELSE IF milliCelsius >= 60000 THEN 50
    ELSE IF milliCelsius >= 50000 THEN 40
    ELSE 30

\* The four early returns: a level is kept although the target is lower.
Holds(milliCelsius, current) ==
    \/ current = 100 /\ milliCelsius >= 70000
    \/ current = 70  /\ milliCelsius >= 62500
    \/ current = 50  /\ milliCelsius >= 55000
    \/ current = 40  /\ milliCelsius >= 45000

FanCurvePercent(milliCelsius, current) ==
    IF Target(milliCelsius) < current /\ Holds(milliCelsius, current)
    THEN current
    ELSE Target(milliCelsius)

-----------------------------------------------------------------------------
(***************************************************************************)
(* What the curve promises, said without its if-chain: the highest level   *)
(* whose threshold the temperature has reached, the threshold of the level *)
(* the fan already runs at being lowered by the hysteresis.                *)
(***************************************************************************)
Reaches(milliCelsius, current, p) ==
    \/ p = 30
    \/ milliCelsius >= OnThreshold[p]
    \/ p = current /\ milliCelsius >= OnThreshold[p] - Hysteresis

IsCurveChoice(milliCelsius, current, choice) ==
    /\ choice \in Levels
    /\ Reaches(milliCelsius, current, choice)
    /\ \A p \in Levels : Reaches(milliCelsius, current, p) => p <= choice

=============================================================================
