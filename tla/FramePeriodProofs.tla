-------------------------- MODULE FramePeriodProofs --------------------------
(***************************************************************************)
(* Proofs about FramePeriod, for every frame rate, poll interval, counter  *)
(* width and place of the display, as far as FramePeriod's assumption      *)
(* allows.                                                                 *)
(***************************************************************************)
EXTENDS FramePeriod, TLAPS

-----------------------------------------------------------------------------
(* Arithmetic *)

LEMMA ModFacts ==
    ASSUME NEW a \in Int, NEW b \in Nat \ {0}
    PROVE  /\ (a % b) \in 0 .. b - 1 /\ (a \div b) \in Int
           /\ a = ((a \div b) * b) + (a % b)
OBVIOUS

LEMMA DivFacts ==
    ASSUME NEW a \in Nat, NEW b \in Nat \ {0}
    PROVE  /\ a \div b \in Nat
           /\ (a \div b) * b <= a
           /\ a < (a \div b) * b + b
OBVIOUS

LEMMA ModUnique ==
    ASSUME NEW a \in Int, NEW b \in Nat \ {0}, NEW q \in Int, NEW r \in 0 .. b - 1,
           a = (q * b) + r
    PROVE  (a % b) = r
<1>1. /\ (a % b) \in 0 .. b - 1 /\ (a \div b) \in Int
      /\ a = ((a \div b) * b) + (a % b)
  BY ModFacts
<1>2. PICK p \in Int : p = a \div b
  BY <1>1
<1>3. PICK s \in 0 .. b - 1 : s = a % b
  BY <1>1
<1>4. (p - q) * b = r - s
  BY <1>1, <1>2, <1>3
<1>5. r - s < b /\ r - s > - b
  OBVIOUS
<1>6. \A d \in Int : d * b < b /\ d * b > - b => d = 0
  OBVIOUS
<1>7. p - q = 0
  BY <1>4, <1>5, <1>6
<1>8. QED
  BY <1>3, <1>4, <1>7

\* The difference of two readings of a counter that wraps, less than a round apart.
LEMMA Wrapped ==
    ASSUME NEW w \in Nat \ {0}, NEW n \in Nat, NEW m \in Nat, n <= m, m < n + w
    PROVE  ((m % w) - (n % w)) % w = m - n
<1>1. /\ (m % w) \in 0 .. w - 1 /\ (m \div w) \in Int /\ m = ((m \div w) * w) + (m % w)
      /\ (n % w) \in 0 .. w - 1 /\ (n \div w) \in Int /\ n = ((n \div w) * w) + (n % w)
  BY ModFacts
<1>2. PICK s \in 0 .. w - 1, t \in 0 .. w - 1, p \in Int, q \in Int :
         /\ s = m % w /\ m = (p * w) + s
         /\ t = n % w /\ n = (q * w) + t
  BY <1>1
<1>3. s - t = ((q - p) * w) + (m - n)
  BY <1>2
<1>4. s - t \in Int /\ q - p \in Int /\ m - n \in 0 .. w - 1
  OBVIOUS
<1>5. (s - t) % w = m - n
  BY <1>3, <1>4, ModUnique
<1>6. QED
  BY <1>2, <1>5

LEMMA Monotone ==
    ASSUME NEW a \in Int, NEW b \in Int, NEW f \in Nat
    PROVE  /\ a <= b => a * f <= b * f
           /\ a * f < b * f => a < b
OBVIOUS

LEMMA Distribute ==
    ASSUME NEW a \in Int, NEW b \in Int, NEW f \in Int
    PROVE  a * f \in Int /\ (a + b) * f = a * f + b * f
OBVIOUS

-----------------------------------------------------------------------------
(* The invariant *)

Four == RPI5_HDMI_MEASURE_FRAMES

Shape ==
    /\ TypeOK
    /\ steady => running
    /\ at \in {"synchronize", "measure"} => Attempt < WaitLoops
    /\ at = "start" => Attempt = 0

\* The display is in frame n or later, and no more than a poll and what
\* callbacks took after the beginning of frame m.
Within(n, m) == n * Frame <= scan /\ scan < m * Frame + Poll + stolen

\* A display that is scanned has moved on with the polls since frame n began.
Moves(n) == steady => scan >= n * Frame + Attempt * Poll

\* Waiting for the frame after n.
SynchronizeInv ==
    at = "synchronize" => \E n \in Nat :
        Initial = n % Wrap /\ Within(n, n + 1) /\ Moves(n)

\* Frame n has begun and been noticed.
StampInv == at = "stampFirst" => \E n \in Nat : First = n % Wrap /\ Within(n, n)

Timed == now - FirstNs

\* What has been timed is not much shorter than the scan since frame n began,
\* and not much longer than four frames, unless the display stopped before.
Counting(n) ==
    /\ First = n % Wrap /\ Within(n, n + Four) /\ Moves(n)
    /\ scan < n * Frame + Poll + stolen + Timed
    /\ running => Timed <= scan - n * Frame
    /\ \/ Timed <= Four * Frame + Poll + stolen
       \/ ~ running /\ scan < (n + Four) * Frame

MeasureInv == at = "measure" => Timed \in Nat /\ \E n \in Nat : Counting(n)

\* A time that belongs to the frames that were counted.
Matches(time) ==
    /\ time <= Four * Frame + Poll + stolen
    /\ Frames(Current) * Frame < Poll + stolen + time

StampLastInv == at = "stampLast" => Four <= Frames(Current) /\ Matches(Timed)

DivideInv ==
    at = "divide" => IF Four <= Frames(Current) THEN Matches(LastNs - FirstNs) ELSE ~ steady

PeriodInv ==
    /\ Shape /\ SynchronizeInv /\ StampInv /\ MeasureInv /\ StampLastInv /\ DivideInv
    /\ PeriodIsTrue /\ RunningIsMeasured

LEMMA Constants ==
    /\ Frame \in Nat \ {0} /\ Poll \in Nat \ {0} /\ MaxStolen \in Nat
    /\ Wrap \in Nat \ {0} /\ WaitLoops \in Nat \ {0} /\ Poll <= Frame
    /\ (WaitLoops - 1) * Poll >= 4 * Frame
    /\ (Wrap - 5) * Frame > Poll + MaxStolen
    /\ Four = 4 /\ RPI5_HDMI_MEASURE_FRAMES = 4
<1>1. /\ Frame \in Nat /\ Poll \in 1 .. Frame /\ MaxStolen \in Nat
      /\ WaitLoops \in Nat /\ Wrap \in Nat
      /\ (WaitLoops - 1) * Poll >= 4 * Frame
      /\ (Wrap - 4 - 1) * Frame > Poll + MaxStolen
  BY PeriodAssumption DEF RPI5_HDMI_MEASURE_FRAMES
<1>2. Frame \in Nat \ {0} /\ Poll \in Nat \ {0} /\ Poll <= Frame
  BY <1>1
<1>3. Wrap # 0
  BY <1>1, <1>2
<1>4. WaitLoops # 0
  BY <1>1, <1>2
<1>5. QED
  BY <1>1, <1>2, <1>3, <1>4 DEF Four, RPI5_HDMI_MEASURE_FRAMES

\* What a reading of the counter says of the frames since n.
LEMMA Reading ==
    ASSUME Shape, NEW n \in Nat, NEW k \in 0 .. 4, Within(n, n + k)
    PROVE  \E m \in Nat :
              /\ Counter = m % Wrap /\ n <= m /\ m < n + Wrap
              /\ m * Frame <= scan /\ scan < (m + 1) * Frame
              /\ (Counter - (n % Wrap)) % Wrap = m - n
<1> DEFINE m == scan \div Frame
<1>1. scan \in Nat /\ stolen \in Nat /\ stolen <= MaxStolen
  BY Constants DEF Shape, TypeOK
<1>2. m \in Nat /\ m * Frame <= scan /\ scan < m * Frame + Frame
  BY <1>1, Constants, DivFacts
<1>3. Counter = m % Wrap
  BY DEF Counter
<1> HIDE DEF m
<1>4. (m + 1) * Frame = m * Frame + Frame
  BY <1>2, Constants
<1>5. n < m + 1
  BY <1>1, <1>2, <1>4, Constants, Monotone DEF Within
<1>6. m < n + Wrap
  <2>1. (n + k) * Frame + (Wrap - 5) * Frame = (n + k + Wrap - 5) * Frame
    BY Constants
  <2>2. m * Frame < (n + k + Wrap - 5) * Frame
    BY <1>1, <1>2, <2>1, Constants DEF Within
  <2>3. n + k + Wrap - 5 \in Int /\ m \in Int /\ Frame \in Nat
    BY <1>2, Constants
  <2>4. m < n + k + Wrap - 5
    BY <2>2, <2>3, Monotone
  <2>5. QED
    BY <1>2, <2>4, Constants
<1>7. n <= m
  BY <1>2, <1>5
<1>8. ((m % Wrap) - (n % Wrap)) % Wrap = m - n
  BY <1>2, <1>6, <1>7, Constants, Wrapped
<1>9. QED
  BY <1>2, <1>3, <1>4, <1>6, <1>7, <1>8

-----------------------------------------------------------------------------
(* The steps *)

LEMMA CounterInRange ==
    ASSUME Shape PROVE Counter \in 0 .. Wrap - 1
<1>1. scan \in Nat
  BY DEF Shape, TypeOK
<1>2. scan \div Frame \in Nat
  BY <1>1, Constants, DivFacts
<1>3. \A a \in Nat : (a % Wrap) \in 0 .. Wrap - 1
  BY Constants, ModFacts
<1>4. QED
  BY <1>2, <1>3 DEF Counter

LEMMA Begins == Init => PeriodInv
<1> SUFFICES ASSUME Init PROVE PeriodInv
  OBVIOUS
<1>1. scan \in Nat
  BY PeriodAssumption DEF Init
<1>2. Shape
  BY <1>1, Constants DEF Init, Shape, TypeOK, Places
<1>3. QED
  BY <1>2 DEF Init, PeriodInv, SynchronizeInv, StampInv, MeasureInv, StampLastInv, DivideInv,
     PeriodIsTrue, RunningIsMeasured

\* What the measurement makes of the invariant when it moves on to another place.
LEMMA Elsewhere ==
    ASSUME Shape', at' \in Places,
           SynchronizeInv', StampInv', MeasureInv', StampLastInv', DivideInv',
           at' \notin {"measured", "failed"}
    PROVE  PeriodInv'
BY DEF PeriodInv, PeriodIsTrue, RunningIsMeasured

LEMMA StartKeeps == ASSUME PeriodInv, Start PROVE PeriodInv'
<1>1. /\ at = "start" /\ at' = "synchronize" /\ Initial' = Counter /\ First' = Counter
      /\ UNCHANGED <<now, running, scan, steady, stolen, Attempt, Current, FirstNs, LastNs,
                     FramePeriodNs>>
  BY DEF Start, AfterStart, display, stamps
<1>2. Shape /\ Counter \in 0 .. Wrap - 1
  BY CounterInRange DEF PeriodInv
<1>3. Shape'
  BY <1>1, <1>2, Constants DEF Shape, TypeOK, Places
<1>4. SynchronizeInv'
  <2>1. scan \in Nat /\ stolen \in Nat /\ Attempt = 0
    BY <1>1, <1>2, Constants DEF Shape, TypeOK
  <2>2. PICK n \in Nat : n = scan \div Frame /\ n * Frame <= scan /\ scan < n * Frame + Frame
    BY <2>1, Constants, DivFacts
  <2>3. Initial' = n % Wrap
    BY <1>1, <2>2 DEF Counter
  <2>4. scan < (n + 1) * Frame + Poll + stolen /\ scan >= n * Frame + Attempt * Poll
    BY <2>1, <2>2, Constants
  <2>5. (Within(n, n + 1) /\ Moves(n))'
    BY <1>1, <2>2, <2>4 DEF Within, Moves
  <2>6. QED
    BY <2>3, <2>5 DEF SynchronizeInv
<1>5. QED
  BY <1>1, <1>3, <1>4, Elsewhere
     DEF Places, StampInv, MeasureInv, StampLastInv, DivideInv

\* Time that passes.
LEMMA Passes ==
    ASSUME Shape, NEW d \in Nat, Pass(d), UNCHANGED running
    PROVE  /\ now' = now + d /\ now' \in Nat /\ scan' \in Nat
           /\ scan <= scan' /\ scan' <= scan + d
           /\ running => scan' = scan + d
           /\ ~ running => scan' = scan
BY DEF Shape, TypeOK, Pass

LEMMA SynchronizeKeeps == ASSUME PeriodInv, Synchronize PROVE PeriodInv'
<1>1. /\ at = "synchronize" /\ Current' = Counter
      /\ UNCHANGED <<running, steady, stolen, Initial, FirstNs, LastNs, FramePeriodNs>>
  BY DEF Synchronize, stamps
<1>2. Shape /\ Counter \in 0 .. Wrap - 1 /\ Attempt \in Nat /\ Attempt < WaitLoops
      /\ scan \in Nat /\ stolen \in Nat /\ steady \in BOOLEAN /\ (steady => running)
  BY <1>1, CounterInRange DEF PeriodInv, Shape, TypeOK
<1>3. PICK n \in Nat : Initial = n % Wrap /\ Within(n, n + 1) /\ Moves(n)
  BY <1>1 DEF PeriodInv, SynchronizeInv
<1>4. PICK m \in Nat :
         /\ Counter = m % Wrap /\ n <= m
         /\ m * Frame <= scan /\ scan < (m + 1) * Frame
         /\ (Counter - (n % Wrap)) % Wrap = m - n
  BY <1>2, <1>3, Reading
<1>5. CASE Counter # Initial
  <2>1. /\ First' = Counter /\ at' = "stampFirst" /\ UNCHANGED <<now, scan, Attempt>>
    BY <1>5 DEF Synchronize, clock
  <2>2. Shape'
    BY <1>1, <1>2, <2>1 DEF Shape, TypeOK, Places
  <2>3. n + 1 <= m
    BY <1>3, <1>4, <1>5
  <2>4. (n + 1) * Frame <= m * Frame
    BY <2>3, Constants, Monotone
  <2>5. scan < m * Frame + Poll + stolen
    BY <1>2, <1>3, <2>4, Constants DEF Within
  <2>6. StampInv'
    BY <1>1, <1>4, <2>1, <2>5 DEF StampInv, Within
  <2>7. QED
    BY <2>1, <2>2, <2>6, Elsewhere
       DEF Places, SynchronizeInv, MeasureInv, StampLastInv, DivideInv
<1>6. CASE Counter = Initial
  <2>1. /\ Pass(Poll) /\ Attempt' = Attempt + 1 /\ UNCHANGED First
        /\ at' = IF Attempt' = WaitLoops THEN "failed" ELSE at
    BY <1>6 DEF Synchronize, Wait
  <2>2. m = n
    <3>1. (Counter - (n % Wrap)) = 0
      BY <1>2, <1>3, <1>6
    <3>2. 0 % Wrap = 0
      BY Constants
    <3>3. QED
      BY <1>4, <3>1, <3>2
  <2>3. scan < (n + 1) * Frame
    BY <1>4, <2>2
  <2>4. /\ now' \in Nat /\ scan' \in Nat /\ scan <= scan' /\ scan' <= scan + Poll
        /\ running => scan' = scan + Poll
    BY <1>1, <1>2, <2>1, Constants, Passes
  <2>5. Shape'
    BY <1>1, <1>2, <2>1, <2>4, Constants DEF Shape, TypeOK, Places
  <2>6. Within(n, n + 1)'
    BY <1>1, <1>2, <1>3, <2>3, <2>4, Constants DEF Within
  <2>7. Moves(n)'
    BY <1>1, <1>2, <1>3, <2>1, <2>4, Constants DEF Moves
  <2>8. CASE Attempt + 1 # WaitLoops
    <3>1. at' = "synchronize"
      BY <1>1, <2>1, <2>8
    <3>2. SynchronizeInv'
      BY <1>1, <1>3, <2>6, <2>7 DEF SynchronizeInv
    <3>3. QED
      BY <2>5, <3>1, <3>2, Elsewhere DEF Places, StampInv, MeasureInv, StampLastInv, DivideInv
  <2>9. CASE Attempt + 1 = WaitLoops
    <3>1. at' = "failed"
      BY <2>1, <2>9
    <3>2. steady => Attempt * Poll < Frame
      BY <1>2, <1>3, <2>3, Constants DEF Moves
    <3>3. Attempt * Poll >= 4 * Frame
      BY <1>2, <2>9, Constants
    <3>4. ~ steady'
      BY <1>1, <1>2, <3>2, <3>3, Constants
    <3>5. QED
      BY <2>5, <3>1, <3>4 DEF PeriodInv, SynchronizeInv, StampInv, MeasureInv, StampLastInv,
         DivideInv, PeriodIsTrue, RunningIsMeasured
  <2>10. QED
    BY <2>8, <2>9
<1>7. QED
  BY <1>5, <1>6

LEMMA StampFirstKeeps == ASSUME PeriodInv, StampFirst PROVE PeriodInv'
<1>1. /\ at = "stampFirst" /\ at' = "measure" /\ FirstNs' = now /\ LastNs' = now
      /\ Current' = First /\ Attempt' = 0
      /\ UNCHANGED <<now, running, scan, steady, stolen, Initial, First, FramePeriodNs>>
  BY DEF StampFirst, display
<1>2. Shape /\ scan \in Nat /\ stolen \in Nat /\ now \in Nat
  BY Constants DEF PeriodInv, Shape, TypeOK
<1>3. Shape'
  BY <1>1, <1>2, Constants DEF Shape, TypeOK, Places
<1>4. PICK n \in Nat : First = n % Wrap /\ Within(n, n)
  BY <1>1 DEF PeriodInv, StampInv
<1>5. n * Frame <= scan /\ scan < n * Frame + Poll + stolen
  BY <1>4 DEF Within
<1>6. Timed' = 0
  BY <1>1, <1>2 DEF Timed
<1>7. (n + 4) * Frame = n * Frame + 4 * Frame /\ n * Frame \in Nat /\ 4 * Frame \in Nat
  BY Constants
<1>8. Within(n, n + Four)'
  BY <1>1, <1>2, <1>5, <1>7, Constants DEF Within
<1>9. Moves(n)'
  BY <1>1, <1>2, <1>5, <1>7, Constants DEF Moves
<1>10. Counting(n)'
  BY <1>1, <1>2, <1>4, <1>5, <1>6, <1>7, <1>8, <1>9, Constants DEF Counting
<1>11. MeasureInv'
  BY <1>6, <1>10 DEF MeasureInv
<1>12. QED
  BY <1>1, <1>3, <1>11, Elsewhere
     DEF Places, SynchronizeInv, StampInv, StampLastInv, DivideInv

LEMMA MeasureKeeps == ASSUME PeriodInv, Measure PROVE PeriodInv'
<1>1. /\ at = "measure" /\ Current' = Counter
      /\ UNCHANGED <<running, steady, stolen, Initial, First, FirstNs, LastNs, FramePeriodNs>>
  BY DEF Measure, stamps
<1>2. Shape /\ Counter \in 0 .. Wrap - 1 /\ Attempt \in Nat /\ Attempt < WaitLoops
      /\ scan \in Nat /\ stolen \in Nat /\ steady \in BOOLEAN /\ running \in BOOLEAN
      /\ (steady => running) /\ now \in Nat /\ FirstNs \in Nat
  BY <1>1, CounterInRange DEF PeriodInv, Shape, TypeOK
<1>3. PICK n \in Nat : Counting(n)
  BY <1>1 DEF PeriodInv, MeasureInv
<1>4. Timed \in Nat
  BY <1>1 DEF PeriodInv, MeasureInv
<1>5. PICK m \in Nat :
         /\ n <= m /\ m * Frame <= scan /\ scan < (m + 1) * Frame
         /\ Frames(Counter) = m - n
  <2>1. First = n % Wrap /\ Within(n, n + 4)
    BY <1>3, Constants DEF Counting
  <2>2. QED
    BY <1>2, <2>1, Reading DEF Frames
<1>6. /\ n * Frame \in Nat /\ m * Frame \in Nat /\ 4 * Frame \in Nat
      /\ (n + 4) * Frame = n * Frame + 4 * Frame
      /\ (m - n) * Frame = m * Frame - n * Frame
  BY Constants
<1>7. /\ n * Frame <= scan /\ scan < n * Frame + Poll + stolen + Timed
      /\ scan < n * Frame + 4 * Frame + Poll + stolen
      /\ running => Timed <= scan - n * Frame
      /\ \/ Timed <= 4 * Frame + Poll + stolen
         \/ ~ running /\ scan < n * Frame + 4 * Frame
      /\ steady => scan >= n * Frame + Attempt * Poll
  BY <1>3, <1>6, Constants DEF Counting, Within, Moves
<1>8. CASE Frames(Counter) >= 4
  <2>1. at' = "stampLast" /\ UNCHANGED <<now, scan, Attempt>>
    BY <1>8, Constants DEF Measure, clock
  <2>2. Shape'
    BY <1>1, <1>2, <2>1 DEF Shape, TypeOK, Places
  <2>3. Frames(Current)' = m - n /\ Timed' = Timed
    BY <1>1, <1>5, <2>1 DEF Frames, Timed
  <2>4. (n + 4) * Frame <= m * Frame
    <3>1. n + 4 <= m
      BY <1>5, <1>8
    <3>2. QED
      BY <3>1, Constants, Monotone
  <2>5. Matches(Timed)'
    BY <1>1, <1>2, <1>4, <1>5, <1>6, <1>7, <2>3, <2>4, Constants DEF Matches
  <2>6. StampLastInv'
    BY <1>5, <1>8, <2>3, <2>5, Constants DEF StampLastInv
  <2>7. QED
    BY <2>1, <2>2, <2>6, Elsewhere
       DEF Places, SynchronizeInv, StampInv, MeasureInv, DivideInv
<1>9. CASE ~ (Frames(Counter) >= 4)
  <2>1. /\ Pass(Poll) /\ Attempt' = Attempt + 1
        /\ at' = IF Attempt' = WaitLoops THEN "divide" ELSE at
    BY <1>9, Constants DEF Measure, Wait
  <2>2. scan < n * Frame + 4 * Frame
    <3>1. m + 1 <= n + 4
      BY <1>5, <1>9
    <3>2. (m + 1) * Frame <= (n + 4) * Frame
      BY <3>1, Constants, Monotone
    <3>3. QED
      BY <1>2, <1>5, <1>6, <3>2, Constants
  <2>3. /\ now' = now + Poll /\ now' \in Nat /\ scan' \in Nat
        /\ scan <= scan' /\ scan' <= scan + Poll
        /\ running => scan' = scan + Poll
        /\ ~ running => scan' = scan
    BY <1>1, <1>2, <2>1, Constants, Passes
  <2>4. Shape'
    BY <1>1, <1>2, <2>1, <2>3, Constants DEF Shape, TypeOK, Places
  <2>5. Timed' = Timed + Poll /\ Timed' \in Nat
    BY <1>1, <1>2, <1>4, <2>3, Constants DEF Timed
  <2>6. CASE Attempt + 1 # WaitLoops
    <3>1. at' = "measure"
      BY <1>1, <2>1, <2>6
    <3>2. Within(n, n + Four)'
      BY <1>1, <1>2, <1>6, <1>7, <2>2, <2>3, Constants DEF Within
    <3>3. Moves(n)'
      <4>1. (Attempt + 1) * Poll = Attempt * Poll + Poll
        BY <1>2, Constants
      <4>2. QED
        BY <1>1, <1>2, <1>6, <1>7, <2>1, <2>3, <4>1, Constants DEF Moves
    <3>4. First' = n % Wrap
      BY <1>1, <1>3 DEF Counting
    <3>5. /\ scan' < n * Frame + Poll + stolen' + Timed'
          /\ running' => Timed' <= scan' - n * Frame
      <4>1. scan' < n * Frame + Poll + stolen' + Timed'
        BY <1>1, <1>2, <1>4, <1>6, <1>7, <2>3, <2>5, Constants
      <4>2. running' => Timed' <= scan' - n * Frame
        BY <1>1, <1>2, <1>4, <1>6, <1>7, <2>3, <2>5, Constants
      <4>3. QED
        BY <4>1, <4>2
    <3>6. \/ Timed' <= Four * Frame + Poll + stolen'
          \/ ~ running' /\ scan' < (n + Four) * Frame
      BY <1>1, <1>2, <1>4, <1>6, <1>7, <2>2, <2>3, <2>5, Constants
    <3>7. MeasureInv'
      BY <2>5, <3>2, <3>3, <3>4, <3>5, <3>6 DEF MeasureInv, Counting
    <3>8. QED
      BY <2>4, <3>1, <3>7, Elsewhere
         DEF Places, SynchronizeInv, StampInv, StampLastInv, DivideInv
  <2>7. CASE Attempt + 1 = WaitLoops
    <3>1. at' = "divide"
      BY <2>1, <2>7
    <3>2. Attempt * Poll >= 4 * Frame
      BY <1>2, <2>7, Constants
    <3>3. ~ steady'
      BY <1>1, <1>2, <1>6, <1>7, <2>2, <3>2, Constants
    <3>4. ~ (Four <= Frames(Current)')
      BY <1>1, <1>5, <1>9, Constants DEF Frames
    <3>5. DivideInv'
      BY <3>3, <3>4 DEF DivideInv
    <3>6. QED
      BY <2>4, <3>1, <3>5, Elsewhere
         DEF Places, SynchronizeInv, StampInv, MeasureInv, StampLastInv
  <2>8. QED
    BY <2>6, <2>7
<1>10. QED
  BY <1>8, <1>9

LEMMA StampLastKeeps == ASSUME PeriodInv, StampLast PROVE PeriodInv'
<1>1. /\ at = "stampLast" /\ at' = "divide" /\ LastNs' = now
      /\ UNCHANGED <<now, running, scan, steady, stolen, Attempt, Initial, First, Current,
                     FirstNs, FramePeriodNs>>
  BY DEF StampLast, display, counts
<1>2. Shape'
  BY <1>1 DEF PeriodInv, Shape, TypeOK, Places
<1>3. Four <= Frames(Current) /\ Matches(Timed)
  BY <1>1 DEF PeriodInv, StampLastInv
<1>4. DivideInv'
  BY <1>1, <1>3, Constants DEF DivideInv, Matches, Timed, Frames
<1>5. QED
  BY <1>1, <1>2, <1>4, Elsewhere
     DEF Places, SynchronizeInv, StampInv, MeasureInv, StampLastInv

LEMMA DivideKeeps == ASSUME PeriodInv, Divide PROVE PeriodInv'
<1> DEFINE frames == Frames(Current)
           time == LastNs - FirstNs
<1>1. /\ at = "divide" /\ at' \in {"measured", "failed"}
      /\ UNCHANGED <<now, running, scan, steady, stolen, Attempt, Initial, First, Current,
                     FirstNs, LastNs>>
  BY DEF Divide, display, counts, stamps
<1>2. Shape /\ stolen \in Nat /\ LastNs \in Nat /\ FirstNs \in Nat
      /\ First \in Int /\ Current \in Int
  BY Constants DEF PeriodInv, Shape, TypeOK
<1>3. frames \in Nat /\ time \in Int
  BY <1>2, Constants, ModFacts DEF Frames
<1>4. frames' = frames /\ Frames(Current)' = frames
  BY <1>1 DEF Frames
<1>5. IF 4 <= frames THEN Matches(time) ELSE ~ steady
  BY <1>1, Constants DEF PeriodInv, DivideInv
<1>6. 4 <= frames => /\ time <= 4 * Frame + Poll + stolen
                     /\ frames * Frame < Poll + stolen + time
                     /\ 4 * Frame <= frames * Frame
                     /\ frames * Frame \in Nat
                     /\ 4 * (Frame - 1) <= frames * (Frame - 1)
                     /\ frames * (Frame - 1) = frames * Frame - frames
  BY <1>3, <1>5, Constants DEF Matches
<1>7. 4 <= frames /\ time \in Nat =>
         /\ Period \in Nat /\ Period * frames <= time
         /\ time < Period * frames + frames
  <2> SUFFICES ASSUME 4 <= frames, time \in Nat
               PROVE  /\ Period \in Nat /\ Period * frames <= time
                      /\ time < Period * frames + frames
    OBVIOUS
  <2>1. frames \in Nat \ {0}
    BY <1>3
  <2>2. Period = time \div frames
    BY DEF Period
  <2> HIDE DEF frames, time
  <2>3. QED
    BY <2>1, <2>2, DivFacts
<1>8. CASE Enough /\ Period # 0
  <2>1. at' = "measured" /\ FramePeriodNs' = Period
    BY <1>8 DEF Divide
  <2>2. 4 <= frames /\ time \in Nat
    BY <1>2, <1>8, Constants DEF Enough
  <2>3. PICK p \in Nat : p = Period /\ p * frames <= time /\ time < p * frames + frames
    BY <1>7, <2>2
  <2>4. Shape'
    BY <1>1, <1>2, <2>1, <2>3 DEF Shape, TypeOK, Places
  <2>5. /\ frames * (p - Frame) = p * frames - frames * Frame
        /\ frames * (Frame - p) = frames * Frame - p * frames
        /\ p * frames \in Nat
    BY <1>3, <2>3, Constants
  <2>6. frames * (p - Frame) <= Poll + stolen
    BY <1>2, <1>3, <1>6, <2>2, <2>3, <2>5, Constants
  <2>7. frames * (Frame - p) < Poll + stolen + frames
    BY <1>2, <1>3, <1>6, <2>2, <2>3, <2>5, Constants
  <2>8. PeriodIsTrue'
    BY <1>1, <1>4, <2>1, <2>2, <2>3, <2>6, <2>7, Constants DEF PeriodIsTrue
  <2>9. QED
    BY <2>1, <2>4, <2>8 DEF PeriodInv, SynchronizeInv, StampInv, MeasureInv, StampLastInv,
       DivideInv, RunningIsMeasured
<1>9. CASE ~ (Enough /\ Period # 0)
  <2>1. at' = "failed" /\ FramePeriodNs' = FramePeriodNs
    BY <1>9 DEF Divide
  <2>2. Shape'
    BY <1>1, <1>2, <2>1 DEF Shape, TypeOK, Places
  <2>3. ASSUME steady, Poll + stolen <= 4 * (Frame - 1) PROVE FALSE
    <3>1. 4 <= frames
      BY <1>5, <2>3
    <3>2. time > frames - 1
      BY <1>2, <1>3, <1>6, <2>3, <3>1, Constants
    <3>3. LastNs > FirstNs /\ time \in Nat
      BY <1>2, <1>3, <3>1, <3>2
    <3>4. Enough
      BY <3>1, <3>3, Constants DEF Enough
    <3>5. PICK p \in Nat : p = Period /\ time < p * frames + frames
      BY <1>7, <3>1, <3>3
    <3>6. p # 0
      BY <1>3, <3>2, <3>5
    <3>7. QED
      BY <1>9, <3>4, <3>5, <3>6
  <2>4. RunningIsMeasured'
    BY <1>1, <2>3, Constants DEF RunningIsMeasured
  <2>5. QED
    BY <2>1, <2>2, <2>4 DEF PeriodInv, SynchronizeInv, StampInv, MeasureInv, StampLastInv,
       DivideInv, PeriodIsTrue
<1>10. QED
  BY <1>8, <1>9

-----------------------------------------------------------------------------
(* The environment's steps *)

LEMMA StealKeeps == ASSUME PeriodInv, Steal PROVE PeriodInv'
<1>1. /\ ~ Done /\ Pass(1) /\ stolen' = stolen + 1 /\ stolen < MaxStolen
      /\ UNCHANGED <<running, steady, at, Attempt, Initial, First, Current, FirstNs, LastNs,
                     FramePeriodNs>>
  BY DEF Steal, counts, stamps
<1>2. Shape /\ scan \in Nat /\ stolen \in Nat /\ now \in Nat /\ FirstNs \in Nat
      /\ running \in BOOLEAN /\ steady \in BOOLEAN
      /\ First \in Int /\ Current \in Int
  BY Constants DEF PeriodInv, Shape, TypeOK
<1>3. /\ now' = now + 1 /\ scan' \in Nat /\ scan <= scan' /\ scan' <= scan + 1
      /\ running => scan' = scan + 1
      /\ ~ running => scan' = scan
  BY <1>1, <1>2, Passes
<1>4. Shape'
  BY <1>1, <1>2, <1>3, Constants DEF Shape, TypeOK
<1>5. \A n, m \in Nat : Within(n, m) => Within(n, m)'
  <2> SUFFICES ASSUME NEW n \in Nat, NEW m \in Nat, Within(n, m) PROVE Within(n, m)'
    OBVIOUS
  <2>1. n * Frame \in Nat /\ m * Frame \in Nat
    BY Constants
  <2>2. QED
    BY <1>1, <1>2, <1>3, <2>1, Constants DEF Within
<1>6. \A n \in Nat : Moves(n) => Moves(n)'
  <2> SUFFICES ASSUME NEW n \in Nat, Moves(n) PROVE Moves(n)'
    OBVIOUS
  <2>1. n * Frame \in Nat /\ Attempt * Poll \in Nat
    BY <1>2, Constants DEF Shape, TypeOK
  <2>2. QED
    BY <1>1, <1>2, <1>3, <2>1 DEF Moves
<1>7. SynchronizeInv'
  BY <1>1, <1>5, <1>6 DEF PeriodInv, SynchronizeInv
<1>8. StampInv'
  BY <1>1, <1>5 DEF PeriodInv, StampInv
<1>9. Timed' = Timed + 1 /\ Timed \in Int
  BY <1>1, <1>2, <1>3 DEF Timed
<1>10. \A n \in Nat : Counting(n) => Counting(n)'
  <2> SUFFICES ASSUME NEW n \in Nat, Counting(n) PROVE Counting(n)'
    OBVIOUS
  <2>1. n * Frame \in Nat /\ Four * Frame \in Nat /\ n + Four \in Nat
    BY Constants
  <2>2. (First = n % Wrap /\ Within(n, n + Four) /\ Moves(n))'
    BY <1>1, <1>5, <1>6, <2>1 DEF Counting
  <2>3. scan' < n * Frame + Poll + stolen' + Timed'
    BY <1>1, <1>2, <1>3, <1>9, <2>1, Constants DEF Counting
  <2>4. running' => Timed' <= scan' - n * Frame
    BY <1>1, <1>2, <1>3, <1>9, <2>1 DEF Counting
  <2>5. \/ Timed' <= Four * Frame + Poll + stolen'
        \/ ~ running' /\ scan' < (n + Four) * Frame
    BY <1>1, <1>2, <1>3, <1>9, <2>1, Constants DEF Counting
  <2>6. QED
    BY <2>2, <2>3, <2>4, <2>5 DEF Counting
<1>11. MeasureInv'
  BY <1>1, <1>9, <1>10 DEF PeriodInv, MeasureInv
<1>12. Frames(Current)' = Frames(Current) /\ Frames(Current) \in Int
  BY <1>1, <1>2, Constants, ModFacts DEF Frames
<1>13. \A t \in Int : Matches(t) =>
          /\ t + 1 <= Four * Frame + Poll + stolen'
          /\ t <= Four * Frame + Poll + stolen'
          /\ Frames(Current) * Frame < Poll + stolen' + t
  <2>1. Frames(Current) * Frame \in Int /\ Four * Frame \in Int
    BY <1>12, Constants
  <2>2. QED
    BY <1>1, <1>2, <2>1, Constants DEF Matches
<1>14. StampLastInv'
  <2>1. Frames(Current) * Frame \in Int
    BY <1>12, Constants
  <2>2. QED
    BY <1>1, <1>2, <1>9, <1>12, <1>13, <2>1, Constants DEF PeriodInv, StampLastInv, Matches
<1>15. DivideInv'
  <2>1. LastNs - FirstNs \in Int
    BY <1>2 DEF Shape, TypeOK
  <2>2. QED
    BY <1>1, <1>12, <1>13, <2>1 DEF PeriodInv, DivideInv, Matches
<1>16. QED
  BY <1>1, <1>4, <1>7, <1>8, <1>11, <1>14, <1>15
     DEF PeriodInv, Done, PeriodIsTrue, RunningIsMeasured

LEMMA SwitchOffKeeps == ASSUME PeriodInv, SwitchOff PROVE PeriodInv'
<1>1. /\ ~ Done /\ running' = FALSE /\ steady' = FALSE /\ running
      /\ UNCHANGED <<now, scan, stolen, at, Attempt, Initial, First, Current, FirstNs, LastNs,
                     FramePeriodNs>>
  BY DEF SwitchOff, counts, stamps
<1>2. Shape'
  BY <1>1 DEF PeriodInv, Shape, TypeOK
<1>3. /\ \A n, m \in Nat : Within(n, m) => Within(n, m)'
      /\ \A n \in Nat : Moves(n)'
  BY <1>1 DEF Within, Moves
<1>4. SynchronizeInv' /\ StampInv'
  BY <1>1, <1>3 DEF PeriodInv, SynchronizeInv, StampInv
<1>5. MeasureInv'
  BY <1>1, <1>3, Constants DEF PeriodInv, MeasureInv, Counting, Timed
<1>6. StampLastInv' /\ DivideInv'
  BY <1>1 DEF PeriodInv, StampLastInv, DivideInv, Matches, Timed, Frames
<1>7. QED
  BY <1>1, <1>2, <1>4, <1>5, <1>6 DEF PeriodInv, Done, PeriodIsTrue, RunningIsMeasured

LEMMA PeriodStep == PeriodInv /\ [Next]_vars => PeriodInv'
<1> SUFFICES ASSUME PeriodInv, [Next]_vars PROVE PeriodInv'
  OBVIOUS
<1>1. CASE UNCHANGED vars
  BY <1>1 DEF vars, display, counts, stamps, PeriodInv, Shape, TypeOK, SynchronizeInv, StampInv,
     MeasureInv, StampLastInv, DivideInv, Within, Moves, Counting, Matches, Timed, Frames,
     PeriodIsTrue, RunningIsMeasured
<1>2. QED
  BY <1>1, StartKeeps, SynchronizeKeeps, StampFirstKeeps, MeasureKeeps, StampLastKeeps,
     DivideKeeps, StealKeeps, SwitchOffKeeps DEF Next, Proceed

LEMMA PeriodAlways == Spec => []PeriodInv
BY Begins, PeriodStep, PTL DEF Spec

-----------------------------------------------------------------------------

\* Every variable keeps its type: no loop polls more often than it may.
THEOREM PeriodTypes == Spec => []TypeOK
<1>1. PeriodInv => TypeOK
  BY DEF PeriodInv, Shape
<1>2. QED
  BY <1>1, PeriodAlways, PTL

\* A period that is measured is the frame's, whatever the frame rate, the phase,
\* the counter and the callbacks.
THEOREM PeriodHolds == Spec => []PeriodIsTrue
<1>1. PeriodInv => PeriodIsTrue
  BY DEF PeriodInv
<1>2. QED
  BY <1>1, PeriodAlways, PTL

\* A display that is scanned is measured.
THEOREM RunningHolds == Spec => []RunningIsMeasured
<1>1. PeriodInv => RunningIsMeasured
  BY DEF PeriodInv
<1>2. QED
  BY <1>1, PeriodAlways, PTL

=============================================================================
