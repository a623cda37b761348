----------------------------- MODULE FanHandoff -----------------------------
(***************************************************************************)
(* Who cools the SoC over the whole life of the machine: UefiFan until     *)
(* ExitBootServices, nobody while the operating system starts, the Windows *)
(* driver while it is in D0, nobody after a crash of the kernel, and UEFI  *)
(* again after a restart.  Windows is taken at its word here: FanGovernor, *)
(* which FanDriver implements, moves the duty cycle of the shared PWM.     *)
(***************************************************************************)
EXTENDS UefiFan

CONSTANTS
    GovernorTemps,   \* the temperatures at which Windows slows the fan
    GovernorDuties   \* the duty cycles Windows chooses then

ASSUME HandoffAssumption ==
    GovernorTemps \subseteq Nat \ {0} /\ GovernorDuties \subseteq ValidSpeeds

VARIABLES engaged, evidence

allVars == <<vars, engaged, evidence>>

\* The governor acts on the same PWM as UEFI.
Windows == INSTANCE FanGovernor WITH
    Full       <- FAN_FAIL_SAFE_SPEED,
    Duties     <- GovernorDuties,
    SafeTemps  <- GovernorTemps,
    NoEvidence <- 0,
    duty       <- pwm

HandoffInit == Init /\ engaged = FALSE /\ evidence = 0

UefiTicks == TimerTicks /\ UNCHANGED <<engaged, evidence>>

UefiActs == phase \notin {"os", "crashed"} /\ Next /\ UNCHANGED <<engaged, evidence>>

\* Windows runs, with or without the driver.
WindowsActs == phase = "os" /\ Windows!Next /\ UNCHANGED uefiVars

\* The kernel crashes and halts: no driver runs, none has left D0, and the PWM
\* goes on with its setting.
Crash ==
    /\ phase = "os"
    /\ phase' = "crashed"
    /\ UNCHANGED <<protocols, stored, soc, hooks, found, settings, pwm, engaged, evidence>>

\* A reset from UEFI or from Windows, or the power switch, which is what ends a
\* crash: UEFI starts over, and the PWM, which no driver may have put back to
\* 100%, keeps its setting or loses it.
Restart ==
    /\ phase \in {"boot", "os", "crashed"}
    /\ phase' = "start"
    /\ busInstalled' = FALSE /\ firmwareInstalled' = FALSE
    /\ exitHook' = FALSE /\ mForcePersistentFailSafe' = FALSE
    /\ mRp1Bus' = FALSE /\ mFirmware' = FALSE /\ mFanTimer' = FALSE
    /\ mFanMode' = "PERSISTENT"
    /\ mFanSpeed' = FAN_FAIL_SAFE_SPEED
    /\ mAutomaticSpeed' = FAN_FAIL_SAFE_SPEED
    /\ pwm' \in ForeignDuty \union {pwm}
    /\ engaged' = FALSE /\ evidence' = 0
    /\ UNCHANGED <<stored, soc>>

HandoffNext == UefiActs \/ WindowsActs \/ Crash \/ Restart

HandoffSpec == HandoffInit /\ [][HandoffNext]_allVars

-----------------------------------------------------------------------------
(* Properties *)

\* A fan that one of the drivers has found never runs below 100% without UEFI's
\* periodic timer, or the Windows driver and a safe temperature, behind it:
\* not while the operating system starts, not when its driver is missing or has
\* left D0, and not when UEFI could not register its ExitBootServices hook.
\* The exception is a crashed kernel, which leaves the fan at the speed that the
\* driver chose last, for a temperature that was safe then, and that is 30% at
\* least (README-exp6.md:25); nobody speeds it up before the restart.
SlowFanHasAKeeper ==
    (mRp1Bus \/ engaged) /\ pwm < FAN_FAIL_SAFE_SPEED =>
        \/ phase = "boot" /\ mFanTimer
        \/ phase = "os" /\ engaged /\ evidence \in GovernorTemps
        \/ /\ phase = "crashed" /\ engaged /\ evidence \in GovernorTemps
           /\ pwm >= FAN_MINIMUM_SPEED

=============================================================================
