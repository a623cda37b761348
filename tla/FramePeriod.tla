----------------------------- MODULE FramePeriod -----------------------------
(***************************************************************************)
(* MeasureHdmiFramePeriod: how long a frame takes, from the HDMI frame     *)
(* counter that wraps and from the processor's clock.  The first loop      *)
(* waits for a frame to begin, the second until at least four have passed; *)
(* each gives up after a number of polls.  The counter may stand still     *)
(* from the beginning or stop in between (the output is switched off), and *)
(* a timer callback may take the processor between any two of the steps,   *)
(* since a mode is set at application level.                               *)
(***************************************************************************)
EXTENDS Integers

CONSTANTS
    Frame,      \* how long a frame takes
    Poll,       \* RPI5_HDMI_COUNTER_WAIT_US
    WaitLoops,  \* RPI5_HDMI_COUNTER_WAIT_LOOPS
    Wrap,       \* 2^32, the counter's range
    Scans,      \* where the display may be at the start, in time since count 0
    MaxStolen   \* bound: how long callbacks take altogether

RPI5_HDMI_MEASURE_FRAMES == 4

\* The loops outlast the frames they wait for, and the counter cannot come round
\* to where it was in one of them.
ASSUME PeriodAssumption ==
    /\ Frame \in Nat /\ Poll \in 1 .. Frame /\ MaxStolen \in Nat
    /\ Scans \subseteq Nat
    /\ WaitLoops \in Nat /\ (WaitLoops - 1) * Poll >= RPI5_HDMI_MEASURE_FRAMES * Frame
    /\ Wrap \in Nat /\ (Wrap - RPI5_HDMI_MEASURE_FRAMES - 1) * Frame > Poll + MaxStolen

VARIABLES
    now,        \* the performance counter, in nanoseconds
    running,    \* the display is scanned
    scan,       \* how far it has been scanned
    stolen,     \* how long callbacks have taken
    steady,     \* the display has been scanned throughout
    at,         \* where the measurement is
    Attempt, Initial, First, Current, FirstNs, LastNs,
    FramePeriodNs

display == <<running, scan, steady>>
clock == <<now, scan>>
counts == <<Attempt, Initial, First, Current>>
stamps == <<FirstNs, LastNs>>
vars == <<now, display, stolen, at, counts, stamps, FramePeriodNs>>

Places == {"start", "synchronize", "stampFirst", "measure", "stampLast", "divide",
           "measured", "failed"}

Counter == (scan \div Frame) % Wrap

TypeOK ==
    /\ now \in Nat /\ scan \in Nat /\ stolen \in 0 .. MaxStolen
    /\ running \in BOOLEAN /\ steady \in BOOLEAN
    /\ at \in Places
    /\ Attempt \in 0 .. WaitLoops
    /\ {Initial, First, Current} \subseteq 0 .. Wrap - 1
    /\ FirstNs \in Nat /\ LastNs \in Nat
    /\ FramePeriodNs \in Nat

Init ==
    /\ now = 1 /\ stolen = 0
    /\ running \in BOOLEAN /\ steady = running
    /\ scan \in Scans
    /\ at = "start"
    /\ Attempt = 0 /\ Initial = 0 /\ First = 0 /\ Current = 0
    /\ FirstNs = 0 /\ LastNs = 0 /\ FramePeriodNs = 0

-----------------------------------------------------------------------------
(* MeasureHdmiFramePeriod *)

\* Time passes.
Pass(d) ==
    /\ now' = now + d
    /\ scan' = IF running THEN scan + d ELSE scan

\* A variation: no wait for a frame to begin.
AfterStartAtOnce == "stampFirst"

\* Where the measurement goes on once the counter has been read.
AfterStart == "synchronize"

Start ==
    /\ at = "start"
    /\ Initial' = Counter /\ First' = Counter
    /\ at' = AfterStart
    /\ UNCHANGED <<now, display, stolen, Attempt, Current, stamps, FramePeriodNs>>

\* A variation: polls without a result are not counted, and go on for ever.
WaitUncounted(gaveUp) == UNCHANGED <<clock, Attempt, at>>

\* MicroSecondDelay, and the end of a loop in vain.
Wait(gaveUp) ==
    /\ Pass(Poll)
    /\ Attempt' = Attempt + 1
    /\ at' = IF Attempt' = WaitLoops THEN gaveUp ELSE at

\* FirstNs stays 0 when the loop ends in vain, and the measurement fails.
Synchronize ==
    /\ at = "synchronize"
    /\ Current' = Counter
    /\ IF Counter # Initial
       THEN /\ First' = Counter /\ at' = "stampFirst"
            /\ UNCHANGED <<clock, Attempt>>
       ELSE Wait("failed") /\ UNCHANGED First
    /\ UNCHANGED <<running, steady, stolen, Initial, stamps, FramePeriodNs>>

StampFirst ==
    /\ at = "stampFirst"
    /\ FirstNs' = now /\ LastNs' = now
    /\ Current' = First /\ Attempt' = 0
    /\ at' = "measure"
    /\ UNCHANGED <<now, display, stolen, Initial, First, FramePeriodNs>>

\* A variation: the difference is taken in a wider type.
FramesUnwrapped(current) == (current - First) % (Wrap * Wrap)

\* Delta, of two unsigned 32-bit numbers.
Frames(current) == (current - First) % Wrap

Measure ==
    /\ at = "measure"
    /\ Current' = Counter
    /\ IF Frames(Counter) >= RPI5_HDMI_MEASURE_FRAMES
       THEN at' = "stampLast" /\ UNCHANGED <<clock, Attempt>>
       ELSE Wait("divide")
    /\ UNCHANGED <<running, steady, stolen, Initial, First, stamps, FramePeriodNs>>

StampLast ==
    /\ at = "stampLast"
    /\ LastNs' = now
    /\ at' = "divide"
    /\ UNCHANGED <<now, display, stolen, counts, FirstNs, FramePeriodNs>>

Enough == Frames(Current) >= RPI5_HDMI_MEASURE_FRAMES /\ LastNs > FirstNs

Period == (LastNs - FirstNs) \div Frames(Current)

Divide ==
    /\ at = "divide"
    /\ IF Enough /\ Period # 0
       THEN at' = "measured" /\ FramePeriodNs' = Period
       ELSE at' = "failed" /\ UNCHANGED FramePeriodNs
    /\ UNCHANGED <<now, display, stolen, counts, stamps>>

Proceed == Start \/ Synchronize \/ StampFirst \/ Measure \/ StampLast \/ Divide

-----------------------------------------------------------------------------
(* The environment *)

Done == at \in {"measured", "failed"}

\* A callback has the processor.
Steal ==
    /\ ~ Done /\ stolen < MaxStolen
    /\ Pass(1) /\ stolen' = stolen + 1
    /\ UNCHANGED <<running, steady, at, counts, stamps, FramePeriodNs>>

\* The display is switched off.
SwitchOff ==
    /\ ~ Done /\ running
    /\ running' = FALSE /\ steady' = FALSE
    /\ UNCHANGED <<now, scan, stolen, at, counts, stamps, FramePeriodNs>>

Next == Proceed \/ Steal \/ SwitchOff

Spec == Init /\ [][Next]_vars

\* The processor runs.
FairSpec == Spec /\ WF_vars(Proceed)

-----------------------------------------------------------------------------
(* Properties *)

\* The measured period is the frame's: what was timed differs from the frames
\* that were counted, also across the end of the counter's range, by no more
\* than the poll that noticed the first one late, what callbacks took, and the
\* rest of the division.
PeriodIsTrue ==
    at = "measured" =>
        LET frames == Frames(Current)
        IN  /\ frames >= RPI5_HDMI_MEASURE_FRAMES
            /\ frames * (FramePeriodNs - Frame) <= Poll + stolen
            /\ frames * (Frame - FramePeriodNs) < Poll + stolen + frames

\* A display that is scanned throughout is measured, wherever its counter
\* stands and however callbacks fall, unless they take about as long as the
\* frames to be counted.
RunningIsMeasured ==
    at = "failed" /\ Poll + stolen <= RPI5_HDMI_MEASURE_FRAMES * (Frame - 1) => ~ steady

\* The measurement ends, also when the counter stands still.
MeasurementEnds == <>Done

=============================================================================
