------------------------------ MODULE FanProofs -----------------------------
(***************************************************************************)
(* Proofs about the fan daemon: its curve is bounded and monotone; failing *)
(* calls never let a fan drift (FansTrack); an emergency and quiet hours   *)
(* are approached in every cycle; the speed does not flutter (NoFlutter).  *)
(***************************************************************************)
EXTENDS FanHysteresis, SequenceTheorems, TLAPS

------------------------------------------------------------------------------
(* The curve.                                                              *)

\* The curve never leaves the range between its ends (fan.py _interpolate_curve).
LEMMA SlopeBounds ==
    ASSUME NEW t \in Int, 35 <= t, t <= CurveTop
    PROVE  Slope(t) \in MinFan..100
  BY DEF Slope, Line, MinFan, CurveTop

\* A warmer GPU never gets a slower fan, across the joints of the curve.
LEMMA SlopeMonotone ==
    ASSUME NEW t \in Int, NEW u \in Int, 35 <= t, t <= u, u <= CurveTop
    PROVE  Slope(t) <= Slope(u)
  BY SlopeBounds DEF Slope, Line, CurveTop

\* With any cap of the quiet hours the speed is one that the fans accept.
THEOREM SpeedBounds ==
    ASSUME NEW t \in Int, NEW h \in Int
    PROVE  ComputeFanSpeed(t, h) \in MinFan..100
<1>1. Cap(h) \in MinFan..100
  BY QuietAssumption DEF Cap, QuietAssumption, MinFan
<1>2. CASE t <= 35 \/ t >= CurveTop
  BY <1>1, <1>2 DEF ComputeFanSpeed, InterpolateCurve, MinFan
<1>3. CASE 35 < t /\ t < CurveTop
  <2>1. Slope(t) \in MinFan..100
    BY <1>3, SlopeBounds DEF CurveTop
  <2> QED
    BY <1>1, <1>3, <2>1 DEF ComputeFanSpeed, InterpolateCurve, Smaller, MinFan,
                            EmergencyTemp, CurveTop
<1> QED
  BY <1>2, <1>3 DEF CurveTop

\* At a given hour the speed never falls when the temperature rises, over the
\* ends of the curve, the cap and the emergency temperature.
THEOREM SpeedMonotone ==
    ASSUME NEW t \in Int, NEW u \in Int, NEW h \in Int, t <= u
    PROVE  ComputeFanSpeed(t, h) <= ComputeFanSpeed(u, h)
<1>1. Cap(h) \in MinFan..100
  BY QuietAssumption DEF Cap, QuietAssumption, MinFan
<1>2. CASE u >= EmergencyTemp
  BY <1>2, SpeedBounds DEF ComputeFanSpeed, MinFan
<1>3. CASE t <= 35
  <2>1. ComputeFanSpeed(t, h) = MinFan
    BY <1>3 DEF ComputeFanSpeed, InterpolateCurve, EmergencyTemp
  <2> QED
    BY <2>1, SpeedBounds DEF MinFan
<1>4. CASE 35 < t /\ u < EmergencyTemp
  <2>1. CASE u >= CurveTop
    <3>1. InterpolateCurve(t, Cap(h)) <= Cap(h)
      <4>1. CASE t < CurveTop
        BY <1>1, <1>4, <4>1, SlopeBounds
           DEF InterpolateCurve, Smaller, MinFan, CurveTop
      <4> QED
        BY <1>1, <1>4, <4>1 DEF InterpolateCurve, MinFan, CurveTop
    <3> QED
      BY <1>4, <2>1, <3>1 DEF ComputeFanSpeed, InterpolateCurve, EmergencyTemp, CurveTop
  <2>2. CASE u < CurveTop
    <3>1. Slope(t) \in MinFan..100 /\ Slope(u) \in MinFan..100 /\ Slope(t) <= Slope(u)
      BY <1>4, <2>2, SlopeBounds, SlopeMonotone DEF CurveTop
    <3> QED
      BY <1>1, <1>4, <2>2, <3>1
         DEF ComputeFanSpeed, InterpolateCurve, Smaller, MinFan, EmergencyTemp, CurveTop
  <2> QED
    BY <2>1, <2>2 DEF CurveTop
<1> QED
  BY <1>2, <1>3, <1>4 DEF EmergencyTemp

------------------------------------------------------------------------------
(* A cycle's arithmetic.                                                   *)

\* The history keeps at least one and at most three readings.
LEMMA HistoryType ==
    ASSUME NEW h \in Seq(Temps), Len(h) <= 3, NEW t \in Temps
    PROVE  /\ Append3(h, t) \in Seq(Temps)
           /\ Len(Append3(h, t)) \in 1..3
<1> DEFINE all == Append(h, t)
<1>1. /\ all \in Seq(Temps) /\ all # << >>
      /\ Len(all) = Len(h) + 1 /\ Len(h) \in Nat
  BY AppendProperties, LenProperties
<1>2. Append3(h, t) = IF Len(all) > 3 THEN Tail(all) ELSE all
  BY DEF Append3
<1> HIDE DEF all
<1>3. Tail(all) \in Seq(Temps) /\ Len(Tail(all)) = Len(all) - 1
  BY <1>1, HeadTailProperties
<1>4. CASE Len(all) > 3
  BY <1>1, <1>2, <1>3, <1>4
<1>5. CASE ~(Len(all) > 3)
  BY <1>1, <1>2, <1>5
<1> QED
  BY <1>4, <1>5

\* The average of readings is a whole number of degrees.
LEMMA SmoothedType ==
    ASSUME NEW h \in Seq(Temps), Len(h) \in 1..3
    PROVE  Smoothed(h) \in Int
<1> DEFINE at(i) == IF i <= Len(h) THEN h[i] ELSE 0
<1>1. ASSUME NEW i \in 1..3
      PROVE  at(i) \in Int
  <2>1. CASE i <= Len(h)
    <3>1. h[i] \in Temps
      BY <2>1, ElementOfSeq
    <3>2. Temps \subseteq Nat
      BY DaemonAssumption DEF DaemonAssumption
    <3>3. h[i] \in Nat
      BY <3>1, <3>2
    <3> QED
      BY <2>1, <3>3
  <2> QED
    BY <2>1
<1>2. at(1) + at(2) + at(3) \in Int
  <2>1. at(1) \in Int /\ at(2) \in Int /\ at(3) \in Int
    BY <1>1
  <2> QED
    BY <2>1
<1>3. \A n \in Int, d \in 1..3 : n \div d \in Int
  OBVIOUS
<1> QED
  BY <1>2, <1>3 DEF Smoothed

\* The target is a speed the fans accept, and no more than MaxRamp away from
\* the speed in force.
LEMMA TargetType ==
    ASSUME TypeOK, NEW t \in Int, NEW h \in Hours
    PROVE  /\ Target(t, h) \in MinFan..100
           /\ current # Unset => Target(t, h) - current \in (-MaxRamp)..MaxRamp
<1>0. h \in Int /\ Hysteresis \in Int
  BY DaemonAssumption DEF DaemonAssumption
<1>1. ComputeFanSpeed(t, h) \in MinFan..100
  BY <1>0, SpeedBounds
<1>2. current \in {Unset} \cup MinFan..100 /\ MaxRamp \in Nat
  BY DaemonAssumption DEF DaemonAssumption, TypeOK
<1>3. Damped(t, h) \in MinFan..100
  BY <1>1, <1>2 DEF Damped, MinFan, Unset
<1> QED
  BY <1>2, <1>3 DEF Target, Limited, Larger, Smaller, MinFan, Unset

------------------------------------------------------------------------------
(* The daemon.  Its invariant adds to the type that a start has no speed   *)
(* in force yet, that the loop is left with the last failure it bears, and *)
(* that it has the control of every fan.                                   *)

FanInv ==
    /\ TypeOK
    /\ pc = "start" => current = Unset
    /\ pc \in {"start", "loop", "wait"} => failures < MaxFailures
    /\ pc \in {"loop", "wait"} => manual = Fans
    /\ FansTrack

\* Setting the first fans to s keeps the levels in their range.
LEMMA SetFirstType ==
    ASSUME TypeOK, NEW k \in Int, NEW s \in {0} \cup MinFan..100
    PROVE  SetFirst(k, s) \in [Fans -> {0} \cup MinFan..100]
  BY DEF SetFirst, TypeOK

LEMMA InitInv == Init => FanInv
<1> SUFFICES ASSUME Init PROVE FanInv
  OBVIOUS
<1>1. << >> \in Seq(Temps) /\ Len(<< >>) = 0
  BY EmptySeq
<1>2. failures \in 0..MaxFailures
  BY DaemonAssumption DEF Init, DaemonAssumption
<1>3. history \in Seq(Temps) /\ Len(history) <= 3
  BY <1>1 DEF Init
<1>4. level \in [Fans -> {0} \cup MinFan..100]
  BY DEF Init
<1>5. TypeOK
  BY <1>2, <1>3, <1>4 DEF Init, TypeOK
<1> QED
  BY <1>5 DEF Init, FanInv, FansTrack


\* A cycle with all its calls succeeding.
LEMMA CycleKeeps ==
    ASSUME FanInv, NEW t \in Temps, NEW h \in Hours, Cycle(t, h)
    PROVE  FanInv'
<1> DEFINE now == Append3(history, t)
           target == Target(Smoothed(now), h)
<1>1. now \in Seq(Temps) /\ Len(now) \in 1..3
  BY HistoryType DEF FanInv, TypeOK
<1>2. Smoothed(now) \in Int
  BY <1>1, SmoothedType
<1>3. target \in MinFan..100
  BY <1>2, TargetType DEF FanInv
<1>4. /\ history' = now /\ hour' = h /\ current' = target
      /\ failures' = 0 /\ failures' < MaxFailures
      /\ level' = IF target = current THEN level ELSE SetFirst(NumFans, target)
      /\ pc' = "wait" /\ fixed' = fixed /\ stop' = stop /\ manual' = manual
      /\ pc = "loop"
  BY DaemonAssumption DEF Cycle, Following, DaemonAssumption
<1> HIDE DEF now, target
<1>5. SetFirst(NumFans, target) \in [Fans -> {0} \cup MinFan..100]
  BY <1>3, SetFirstType, DaemonAssumption DEF FanInv, DaemonAssumption
<1>6. TypeOK'
  <2>1. 0 \in 0..MaxFailures
    BY DaemonAssumption DEF DaemonAssumption
  <2>2. level' \in [Fans -> {0} \cup MinFan..100]
    BY <1>4, <1>5 DEF FanInv, TypeOK
  <2>3. history' \in Seq(Temps) /\ Len(history') <= 3
    <3>1. \A n \in 1..3 : n <= 3
      OBVIOUS
    <3> QED
      BY <1>1, <1>4, <3>1
  <2> QED
    BY <1>3, <1>4, <2>1, <2>2, <2>3 DEF FanInv, TypeOK
<1>7. ASSUME fixed = 0, NEW f \in Fans
      PROVE  level'[f] - current' \in (-MaxRamp)..MaxRamp
  <2>1. MaxRamp \in Nat
    BY DaemonAssumption DEF DaemonAssumption
  <2>2. CASE target = current
    BY <1>3, <1>4, <1>7, <2>2 DEF FanInv, FansTrack, MinFan, Unset
  <2>3. CASE target # current
    <3>1. level'[f] = target
      BY <1>4, <2>3, DaemonAssumption DEF SetFirst, Fans, DaemonAssumption
    <3> QED
      BY <1>3, <1>4, <2>1, <3>1 DEF MinFan
  <2> QED
    BY <2>2, <2>3
<1> QED
  BY <1>4, <1>6, <1>7 DEF FanInv, FansTrack

\* Counting a failure keeps the speed in force, or forgets it.
LEMMA FailureType ==
    ASSUME FanInv, CountFailure, pc = "loop"
    PROVE  /\ failures' \in 0..MaxFailures
           /\ pc' = "restore" \/ (pc' = "wait" /\ failures' < MaxFailures)
           /\ current' = current \/ current' = Unset
<1>1. failures \in 0..MaxFailures /\ failures < MaxFailures /\ MaxFailures \in Nat
  BY DaemonAssumption DEF DaemonAssumption, FanInv, TypeOK
<1>2. failures' = failures + 1
  BY DEF CountFailure
<1>3. pc' = IF failures + 1 >= MaxFailures THEN "restore" ELSE "wait"
  BY DEF CountFailure
<1>4. current' = current \/ current' = Unset
  BY DEF CountFailure
<1>5. failures' \in 0..MaxFailures
  BY <1>1, <1>2
<1>6. pc' = "restore" \/ (pc' = "wait" /\ failures' < MaxFailures)
  BY <1>1, <1>2, <1>3
<1> QED
  BY <1>4, <1>5, <1>6

\* A cycle whose k-th fan refuses the new speed: those before it are one ramp step
\* away from the speed in force, the others are where they were.
LEMMA ApplyFailsKeeps ==
    ASSUME FanInv, NEW t \in Temps, NEW h \in Hours, NEW k \in Fans, ApplyFails(t, h, k)
    PROVE  FanInv'
<1> DEFINE now == Append3(history, t)
           target == Target(Smoothed(now), h)
<1>1. now \in Seq(Temps) /\ Len(now) \in 1..3
  BY HistoryType DEF FanInv, TypeOK
<1>2. Smoothed(now) \in Int
  BY <1>1, SmoothedType
<1>3. /\ target \in MinFan..100
      /\ current # Unset => target - current \in (-MaxRamp)..MaxRamp
  BY <1>2, TargetType DEF FanInv
<1>4. /\ history' = now /\ hour' = h /\ level' = SetFirst(k - 1, target)
      /\ fixed' = fixed /\ stop' = stop /\ manual' = manual
      /\ pc = "loop" /\ CountFailure
  BY DEF ApplyFails, Following
<1>5. /\ failures' \in 0..MaxFailures
      /\ pc' = "restore" \/ (pc' = "wait" /\ failures' < MaxFailures)
      /\ current' = current \/ current' = Unset
  BY <1>4, FailureType
<1> HIDE DEF now, target
<1>6. level' \in [Fans -> {0} \cup MinFan..100]
  BY <1>3, <1>4, SetFirstType DEF FanInv, Fans
<1>7. TypeOK'
  <2>1. history' \in Seq(Temps) /\ Len(history') <= 3
    <3>1. \A n \in 1..3 : n <= 3
      OBVIOUS
    <3> QED
      BY <1>1, <1>4, <3>1
  <2>2. current' \in {Unset} \cup MinFan..100
    BY <1>5 DEF FanInv, TypeOK
  <2> QED
    BY <1>4, <1>5, <1>6, <2>1, <2>2 DEF FanInv, TypeOK
<1>8. ASSUME fixed = 0, current' # Unset, NEW f \in Fans
      PROVE  level'[f] - current' \in (-MaxRamp)..MaxRamp
  <2>1. current' = current /\ current # Unset
    BY <1>5, <1>8
  <2>2. CASE f <= k - 1
    BY <1>3, <1>4, <1>8, <2>1, <2>2 DEF SetFirst
  <2>3. CASE ~(f <= k - 1)
    <3>1. level'[f] = level[f]
      BY <1>4, <1>8, <2>3 DEF SetFirst
    <3> QED
      BY <1>4, <1>8, <2>1, <3>1 DEF FanInv, FansTrack
  <2> QED
    BY <2>2, <2>3
<1> QED
  BY <1>4, <1>5, <1>7, <1>8 DEF FanInv, FansTrack

LEMMA ReadFailsKeeps ==
    ASSUME FanInv, ReadFails
    PROVE  FanInv'
<1>1. /\ pc = "loop" /\ CountFailure
      /\ UNCHANGED <<fixed, stop, history, hour, manual, level>>
  BY DEF ReadFails, Following
<1>2. /\ failures' \in 0..MaxFailures
      /\ pc' = "restore" \/ (pc' = "wait" /\ failures' < MaxFailures)
      /\ current' = current \/ current' = Unset
  BY <1>1, FailureType
<1>3. TypeOK'
  BY <1>1, <1>2 DEF FanInv, TypeOK
<1> QED
  BY <1>1, <1>2, <1>3 DEF FanInv, FansTrack

\* The life of the daemon and the fixed daemon.
LEMMA OtherStepsKeep ==
    ASSUME FanInv,
           \/ Launch \/ NvmlUnavailable \/ TakeControl
           \/ \E k \in Fans : TakeControlFails(k) \/ RestoreFails(k) \/ FixedCycleFails(k)
           \/ FixedCycle \/ Wake \/ LeaveLoop \/ Restore \/ Terminate \/ Crash
    PROVE  FanInv'
<1>0. /\ FixedSpeeds \subseteq MinFan..100 /\ 0 < MaxFailures /\ MaxFailures \in Nat
      /\ NumFans \in Int
  BY DaemonAssumption DEF DaemonAssumption, MinFan
<1>1. \A k \in Int, s \in FixedSpeeds \cup {0} :
          SetFirst(k, s) \in [Fans -> {0} \cup MinFan..100]
  BY <1>0, SetFirstType DEF FanInv
<1>2. CASE Launch
  <2>1. << >> \in Seq(Temps) /\ Len(<< >>) = 0
    BY EmptySeq
  <2>2. history' \in Seq(Temps) /\ Len(history') <= 3
    BY <1>2, <2>1 DEF Launch
  <2>3. failures' \in 0..MaxFailures /\ failures' < MaxFailures
    BY <1>0, <1>2 DEF Launch
  <2>4. TypeOK'
    BY <1>2, <2>2, <2>3 DEF Launch, FanInv, TypeOK
  <2> QED
    BY <1>2, <2>3, <2>4 DEF Launch, FanInv, FansTrack
<1>3. CASE NvmlUnavailable \/ Wake \/ LeaveLoop \/ Terminate \/ Crash
  BY <1>3 DEF NvmlUnavailable, Wake, LeaveLoop, Terminate, Crash, FanInv, TypeOK, FansTrack
<1>4. CASE TakeControl
  <2>1. level' \in [Fans -> {0} \cup MinFan..100]
    BY <1>0, <1>1, <1>4 DEF TakeControl, FanInv, TypeOK
  <2> QED
    BY <1>4, <2>1 DEF TakeControl, FanInv, TypeOK, FansTrack
<1>5. ASSUME NEW k \in Fans, TakeControlFails(k)
      PROVE  FanInv'
  <2>1. k - 1 \in Int /\ 1..(k - 1) \subseteq Fans
    BY <1>0 DEF Fans
  <2>2. level' \in [Fans -> {0} \cup MinFan..100] /\ manual' \subseteq Fans
    BY <1>1, <1>5, <2>1 DEF TakeControlFails, FanInv, TypeOK
  <2> QED
    BY <1>5, <2>2 DEF TakeControlFails, FanInv, TypeOK, FansTrack
<1>6. ASSUME NEW k \in Fans, RestoreFails(k)
      PROVE  FanInv'
  <2>1. level' \in [Fans -> {0} \cup MinFan..100] /\ manual' \subseteq Fans
    BY <1>1, <1>6 DEF RestoreFails, FanInv, TypeOK, Fans
  <2> QED
    BY <1>6, <2>1 DEF RestoreFails, FanInv, TypeOK, FansTrack
<1>7. CASE Restore
  BY <1>7 DEF Restore, FanInv, TypeOK, FansTrack
<1>8. CASE FixedCycle \/ \E k \in Fans : FixedCycleFails(k)
  <2>1. level' \in [Fans -> {0} \cup MinFan..100]
    BY <1>0, <1>1, <1>8 DEF FixedCycle, FixedCycleFails, FanInv, TypeOK, Fans
  <2> QED
    BY <1>8, <2>1 DEF FixedCycle, FixedCycleFails, FanInv, TypeOK, FansTrack
<1> QED
  BY <1>2, <1>3, <1>4, <1>5, <1>6, <1>7, <1>8

LEMMA NextKeeps == FanInv /\ [Next]_vars => FanInv'
<1> SUFFICES ASSUME FanInv, [Next]_vars PROVE FanInv'
  OBVIOUS
<1>1. ASSUME NEW t \in Temps, NEW h \in Hours, Cycle(t, h)
      PROVE  FanInv'
  BY <1>1, CycleKeeps
<1>2. ASSUME NEW t \in Temps, NEW h \in Hours, NEW k \in Fans, ApplyFails(t, h, k)
      PROVE  FanInv'
  BY <1>2, ApplyFailsKeeps
<1>3. CASE ReadFails
  BY <1>3, ReadFailsKeeps
<1>4. CASE UNCHANGED vars
  BY <1>4 DEF vars, FanInv, TypeOK, FansTrack
<1> QED
  BY <1>1, <1>2, <1>3, <1>4, OtherStepsKeep DEF Next, Step, AnyCycle

\* Every variable keeps its type; above all the speed in force is one that the fans
\* accept, and failures are not counted beyond the last (run_daemon).
THEOREM FanTypeCorrect == Spec => []TypeOK
<1>1. FanInv => TypeOK
  BY DEF FanInv
<1> QED
  BY <1>1, InitInv, NextKeeps, PTL DEF Spec

\* For any number of fans, whichever calls fail: while a speed is in force every fan is
\* within one ramp step of it (run_daemon, _apply_fan).
THEOREM FansTrackHolds == Spec => []FansTrack
<1>1. FanInv => FansTrack
  BY DEF FanInv
<1> QED
  BY <1>1, InitInv, NextKeeps, PTL DEF Spec

------------------------------------------------------------------------------
(* What one cycle gains: an emergency, and quiet hours, are reached from     *)
(* any speed in as many cycles as ramp steps lie between.                    *)

LEMMA ReadingsAreNumbers ==
    ASSUME NEW h \in Seq(Temps)
    PROVE  \A i \in 1..Len(h) : h[i] \in Int
<1> TAKE i \in 1..Len(h)
<1>1. h[i] \in Temps
  BY ElementOfSeq
<1>2. \A t \in Temps : t \in Int
  BY DaemonAssumption DEF DaemonAssumption
<1> QED
  BY <1>1, <1>2

\* The average is not below the lowest reading, nor above the highest.
LEMMA SmoothedBetween ==
    ASSUME NEW h \in Seq(Temps), Len(h) \in 1..3, NEW n \in Int
    PROVE  /\ (\A i \in 1..Len(h) : n <= h[i]) => n <= Smoothed(h)
           /\ (\A i \in 1..Len(h) : h[i] <= n) => Smoothed(h) <= n
<1>1. \A i \in 1..Len(h) : h[i] \in Int
  BY ReadingsAreNumbers
<1>2. \A a, b, c \in Int :
        /\ n <= a => n <= a \div 1
        /\ n <= a /\ n <= b => n <= (a + b) \div 2
        /\ n <= a /\ n <= b /\ n <= c => n <= (a + b + c) \div 3
        /\ a <= n => a \div 1 <= n
        /\ a <= n /\ b <= n => (a + b) \div 2 <= n
        /\ a <= n /\ b <= n /\ c <= n => (a + b + c) \div 3 <= n
  OBVIOUS
<1>3. CASE Len(h) = 1
  <2>1. Smoothed(h) = (h[1] + 0 + 0) \div 1
    BY <1>3 DEF Smoothed
  <2>2. h[1] \in Int /\ h[1] + 0 + 0 = h[1] /\ 1 \in 1..Len(h)
    BY <1>1, <1>3
  <2> QED
    BY <1>2, <2>1, <2>2
<1>4. CASE Len(h) = 2
  <2>1. Smoothed(h) = (h[1] + h[2] + 0) \div 2
    BY <1>4 DEF Smoothed
  <2>2. /\ h[1] \in Int /\ h[2] \in Int /\ h[1] + h[2] + 0 = h[1] + h[2]
        /\ 1 \in 1..Len(h) /\ 2 \in 1..Len(h)
    BY <1>1, <1>4
  <2> QED
    BY <1>2, <2>1, <2>2
<1>5. CASE Len(h) = 3
  <2>1. Smoothed(h) = (h[1] + h[2] + h[3]) \div 3
    BY <1>5 DEF Smoothed
  <2>2. /\ h[1] \in Int /\ h[2] \in Int /\ h[3] \in Int
        /\ 1 \in 1..Len(h) /\ 2 \in 1..Len(h) /\ 3 \in 1..Len(h)
    BY <1>1, <1>5
  <2> QED
    BY <1>2, <2>1, <2>2
<1> QED
  BY <1>3, <1>4, <1>5

\* A speed that cannot be reached at once is a ramp step away from the last one.
LEMMA ClimbOrFall ==
    ASSUME TypeOK, NEW t \in Int, NEW h \in Hours
    PROVE  /\ t >= EmergencyTemp =>
                \/ Target(t, h) = 100
                \/ current # Unset /\ Target(t, h) = current + MaxRamp
           /\ InQuiet(h) /\ t + Hysteresis < EmergencyTemp =>
                \/ Target(t, h) <= QuietMax
                \/ current # Unset /\ Target(t, h) = current - MaxRamp
<1>0. /\ h \in Int /\ Hysteresis \in Nat /\ t + Hysteresis \in Int
      /\ MaxRamp \in Nat /\ QuietMax \in MinFan..100
  BY DaemonAssumption, QuietAssumption DEF DaemonAssumption, QuietAssumption, MinFan
<1>1. /\ ComputeFanSpeed(t, h) \in MinFan..100
      /\ ComputeFanSpeed(t + Hysteresis, h) \in MinFan..100
  BY <1>0, SpeedBounds
<1>2. current \in {Unset} \cup MinFan..100
  BY DEF TypeOK
<1>3. CASE t >= EmergencyTemp
  <2>1. ComputeFanSpeed(t, h) = 100
    BY <1>3 DEF ComputeFanSpeed
  <2>2. Damped(t, h) = 100
    BY <1>2, <2>1 DEF Damped, Unset, MinFan
  <2>3. \/ Target(t, h) = 100
        \/ current # Unset /\ Target(t, h) = current + MaxRamp
    BY <1>0, <1>2, <2>2 DEF Target, Limited, Larger, Smaller, MinFan, Unset
  <2> QED
    BY <1>0, <1>3, <2>3 DEF EmergencyTemp
<1>4. CASE InQuiet(h) /\ t + Hysteresis < EmergencyTemp
  <2>1. \A u \in Int : u < EmergencyTemp /\ u >= 35 /\ u < CurveTop =>
            ComputeFanSpeed(u, h) <= QuietMax
    BY <1>0, <1>4, SlopeBounds
       DEF ComputeFanSpeed, InterpolateCurve, Cap, Smaller, CurveTop, EmergencyTemp, MinFan
  <2>2. \A u \in Int : u < EmergencyTemp /\ (u <= 35 \/ u >= CurveTop) =>
            ComputeFanSpeed(u, h) <= QuietMax
    BY <1>0, <1>4 DEF ComputeFanSpeed, InterpolateCurve, Cap, CurveTop, EmergencyTemp, MinFan
  <2>3. /\ ComputeFanSpeed(t, h) <= QuietMax
        /\ ComputeFanSpeed(t + Hysteresis, h) <= QuietMax
    <3>1. \A u \in Int : u < EmergencyTemp => ComputeFanSpeed(u, h) <= QuietMax
      <4>1. \A u \in Int : (u >= 35 /\ u < CurveTop) \/ u <= 35 \/ u >= CurveTop
        BY DEF CurveTop
      <4> QED
        BY <2>1, <2>2, <4>1
    <3>2. t < EmergencyTemp
      BY <1>0, <1>4 DEF EmergencyTemp
    <3> QED
      BY <1>0, <1>4, <3>1, <3>2
  <2>4. Damped(t, h) \in MinFan..QuietMax
    BY <1>0, <1>1, <1>2, <2>3 DEF Damped, Unset, MinFan
  <2>5. \/ Target(t, h) <= QuietMax
        \/ current # Unset /\ Target(t, h) = current - MaxRamp
    BY <1>0, <1>2, <2>4 DEF Target, Limited, Larger, Smaller, MinFan, Unset
  <2> QED
    BY <1>0, <1>4, <2>5 DEF EmergencyTemp
<1> QED
  BY <1>3, <1>4

\* What a cycle that succeeds remembers, and what speed it puts in force.
LEMMA CycleSets ==
    ASSUME FanInv, NEW t \in Temps, NEW h \in Hours, Cycle(t, h)
    PROVE  /\ history' \in Seq(Temps) /\ Len(history') \in 1..3
           /\ current' = Target(Smoothed(history'), h)
<1>1. Len(history) <= 3 /\ history \in Seq(Temps)
  BY DEF FanInv, TypeOK
<1>2. history' = Append3(history, t)
  BY DEF Cycle
<1> QED
  BY <1>1, <1>2, HistoryType DEF Cycle

\* The emergency override: with only hot readings in memory a cycle either puts the
\* full speed in force or comes a whole ramp step nearer to it, in quiet hours too, and
\* neither the smoothing, the hysteresis nor the rate limit holds it back (run_daemon,
\* compute_fan_speed).
THEOREM EmergencyClimbs ==
    Spec => [][\A t \in Temps, h \in Hours :
                  Cycle(t, h) /\ (\A i \in 1..Len(history') : history'[i] >= EmergencyTemp) =>
                      current' = 100 \/ (current # Unset /\ current' = current + MaxRamp)]_vars
<1>1. FanInv /\ [Next]_vars =>
        [\A t \in Temps, h \in Hours :
            Cycle(t, h) /\ (\A i \in 1..Len(history') : history'[i] >= EmergencyTemp) =>
                current' = 100 \/ (current # Unset /\ current' = current + MaxRamp)]_vars
  <2> SUFFICES ASSUME FanInv, NEW t \in Temps, NEW h \in Hours, Cycle(t, h),
                      \A i \in 1..Len(history') : history'[i] >= EmergencyTemp
               PROVE  current' = 100 \/ (current # Unset /\ current' = current + MaxRamp)
    OBVIOUS
  <2>1. /\ history' \in Seq(Temps) /\ Len(history') \in 1..3
        /\ current' = Target(Smoothed(history'), h)
    BY CycleSets
  <2>2. Smoothed(history') >= EmergencyTemp /\ Smoothed(history') \in Int
    <3>1. EmergencyTemp \in Int /\ \A i \in 1..Len(history') : EmergencyTemp <= history'[i]
      BY <2>1, ReadingsAreNumbers DEF EmergencyTemp
    <3>2. EmergencyTemp <= Smoothed(history') /\ Smoothed(history') \in Int
      BY <2>1, <3>1, SmoothedBetween, SmoothedType
    <3> QED
      BY <3>2 DEF EmergencyTemp
  <2> QED
    BY <2>1, <2>2, ClimbOrFall DEF FanInv
<1> QED
  BY <1>1, InitInv, NextKeeps, PTL DEF Spec

\* Quiet hours: with only readings in memory that are cooler than the emergency by more
\* than the hysteresis, a cycle either stays below the cap or comes a whole ramp step
\* nearer to it, also after an emergency (compute_fan_speed, run_daemon).
THEOREM QuietFalls ==
    Spec => [][\A t \in Temps, h \in Hours :
                  /\ Cycle(t, h) /\ InQuiet(h)
                  /\ \A i \in 1..Len(history') : history'[i] + Hysteresis < EmergencyTemp
                  => current' <= QuietMax \/ (current # Unset /\ current' = current - MaxRamp)]_vars
<1>1. FanInv /\ [Next]_vars =>
        [\A t \in Temps, h \in Hours :
            /\ Cycle(t, h) /\ InQuiet(h)
            /\ \A i \in 1..Len(history') : history'[i] + Hysteresis < EmergencyTemp
            => current' <= QuietMax \/ (current # Unset /\ current' = current - MaxRamp)]_vars
  <2> SUFFICES ASSUME FanInv, NEW t \in Temps, NEW h \in Hours, Cycle(t, h), InQuiet(h),
                      \A i \in 1..Len(history') : history'[i] + Hysteresis < EmergencyTemp
               PROVE  current' <= QuietMax \/ (current # Unset /\ current' = current - MaxRamp)
    OBVIOUS
  <2>1. /\ history' \in Seq(Temps) /\ Len(history') \in 1..3
        /\ current' = Target(Smoothed(history'), h)
    BY CycleSets
  <2>2. Smoothed(history') + Hysteresis < EmergencyTemp /\ Smoothed(history') \in Int
    <3> DEFINE top == EmergencyTemp - Hysteresis - 1
    <3>1. Hysteresis \in Int /\ EmergencyTemp \in Int
      BY DaemonAssumption DEF DaemonAssumption, EmergencyTemp
    <3>2. top \in Int /\ \A i \in 1..Len(history') : history'[i] <= top
      BY <2>1, <3>1, ReadingsAreNumbers
    <3> HIDE DEF top
    <3>3. Smoothed(history') <= top /\ Smoothed(history') \in Int
      BY <2>1, <3>2, SmoothedBetween, SmoothedType
    <3> QED
      BY <3>1, <3>3 DEF top
  <2> QED
    BY <2>1, <2>2, ClimbOrFall DEF FanInv
<1> QED
  BY <1>1, InitInv, NextKeeps, PTL DEF Spec

------------------------------------------------------------------------------
(* The hysteresis.  The invariant says what the peak is good for: the      *)
(* speed in force is not above what the curve gives at the peak.           *)

PeakInv ==
    /\ FanInv
    /\ peak \in Int
    /\ peak # NoPeak /\ current # Unset => current <= ComputeFanSpeed(peak, hour)

\* Ramping up stops at the curve.
LEMMA TargetUp ==
    ASSUME TypeOK, NEW t \in Int, NEW h \in Hours, Target(t, h) > current
    PROVE  Target(t, h) <= ComputeFanSpeed(t, h)
<1>1. h \in Int /\ t + Hysteresis \in Int /\ MaxRamp \in Nat
  BY DaemonAssumption DEF DaemonAssumption
<1>2. /\ ComputeFanSpeed(t, h) \in MinFan..100
      /\ ComputeFanSpeed(t + Hysteresis, h) \in MinFan..100
  BY <1>1, SpeedBounds
<1>3. current \in {Unset} \cup MinFan..100
  BY DEF TypeOK
<1> QED
  BY <1>1, <1>2, <1>3 DEF Target, Limited, Damped, Larger, Smaller, MinFan, Unset

\* Ramping down needs the curve to be lower even some degrees warmer.
LEMMA TargetDown ==
    ASSUME TypeOK, NEW t \in Int, NEW h \in Hours, Target(t, h) < current
    PROVE  ComputeFanSpeed(t + Hysteresis, h) < current
<1>1. h \in Int /\ t + Hysteresis \in Int /\ MaxRamp \in Nat
  BY DaemonAssumption DEF DaemonAssumption
<1>2. /\ ComputeFanSpeed(t, h) \in MinFan..100
      /\ ComputeFanSpeed(t + Hysteresis, h) \in MinFan..100
  BY <1>1, SpeedBounds
<1>3. current \in {Unset} \cup MinFan..100
  BY DEF TypeOK
<1> QED
  BY <1>1, <1>2, <1>3 DEF Target, Limited, Damped, Larger, Smaller, MinFan, Unset

\* Within the quiet hours, and outside them, the hour does not matter.
LEMMA SameCap ==
    ASSUME NEW t \in Int, NEW h \in Int, NEW g \in Int, InQuiet(g) = InQuiet(h)
    PROVE  ComputeFanSpeed(t, g) = ComputeFanSpeed(t, h)
  BY DEF ComputeFanSpeed, Cap

\* What a step can do to the speed: a cycle sets the target, no other step
\* sets a speed.
LEMMA SpeedSteps ==
    ASSUME FanInv, [Next]_vars
    PROVE  \/ /\ current' = Target(Smoothed(history'), hour')
              /\ history' \in Seq(Temps) /\ Len(history') \in 1..3
           \/ current' \in {current, Unset}
<1>1. ASSUME NEW t \in Temps, NEW h \in Hours, Cycle(t, h)
      PROVE  /\ current' = Target(Smoothed(history'), hour')
             /\ history' \in Seq(Temps) /\ Len(history') \in 1..3
  BY <1>1, HistoryType DEF Cycle, FanInv, TypeOK
<1>2. ASSUME NEW t \in Temps, NEW h \in Hours, NEW k \in Fans, ApplyFails(t, h, k)
      PROVE  current' \in {current, Unset}
  BY <1>2 DEF ApplyFails, CountFailure
<1>3. CASE ReadFails
  BY <1>3 DEF ReadFails, CountFailure
<1>4. CASE \/ Launch \/ NvmlUnavailable \/ TakeControl
           \/ \E k \in Fans : TakeControlFails(k) \/ RestoreFails(k) \/ FixedCycleFails(k)
           \/ FixedCycle \/ Wake \/ LeaveLoop \/ Restore \/ Terminate \/ Crash
  BY <1>4 DEF Launch, NvmlUnavailable, TakeControl, TakeControlFails, RestoreFails,
              FixedCycleFails, FixedCycle, Wake, LeaveLoop, Restore, Terminate, Crash
<1>5. CASE UNCHANGED vars
  BY <1>5 DEF vars
<1> QED
  BY <1>1, <1>2, <1>3, <1>4, <1>5 DEF Next, Step, AnyCycle

LEMMA PeakStep ==
    ASSUME PeakInv, [PNext]_<<vars, peak>>
    PROVE  PeakInv'
<1>1. FanInv' /\ hour \in Int /\ hour' \in Int /\ hour' \in Hours
  <2>1. [Next]_vars
    BY DEF PNext, vars
  <2>2. FanInv'
    BY <2>1, NextKeeps DEF PeakInv
  <2>3. hour \in Hours /\ hour' \in Hours
    BY <2>2 DEF PeakInv, FanInv, TypeOK
  <2> QED
    BY <2>2, <2>3, DaemonAssumption DEF DaemonAssumption
<1>2. current \in Int /\ current' \in Int
  BY <1>1 DEF PeakInv, FanInv, TypeOK, MinFan, Unset
<1>3. CASE UNCHANGED <<vars, peak>>
  BY <1>1, <1>3 DEF PeakInv, vars
<1>4. CASE PNext /\ current' > current
  <2>1. peak' = Smoothed(history')
    BY <1>4 DEF PNext, SetPeak
  <2>2. current' \notin {current, Unset}
    BY <1>2, <1>4 DEF PeakInv, FanInv, TypeOK, MinFan, Unset
  <2>3. /\ current' = Target(Smoothed(history'), hour')
        /\ history' \in Seq(Temps) /\ Len(history') \in 1..3
    BY <1>4, <2>2, SpeedSteps DEF PNext, PeakInv
  <2>4. Smoothed(history') \in Int
    BY <2>3, SmoothedType
  <2>5. current' <= ComputeFanSpeed(Smoothed(history'), hour')
    BY <1>1, <1>4, <2>3, <2>4, TargetUp DEF PeakInv, FanInv
  <2> QED
    BY <1>1, <2>1, <2>4, <2>5 DEF PeakInv
<1>5. CASE PNext /\ ~(current' > current)
  <2>1. CASE current' = Unset \/ InQuiet(hour') # InQuiet(hour)
    BY <1>1, <1>5, <2>1 DEF PNext, SetPeak, PeakInv, NoPeak
  <2>2. CASE ~(current' = Unset \/ InQuiet(hour') # InQuiet(hour))
    <3>1. peak' = peak
      BY <1>5, <2>2 DEF PNext, SetPeak
    <3>2. ComputeFanSpeed(peak, hour') = ComputeFanSpeed(peak, hour)
      BY <1>1, <2>2, SameCap DEF PeakInv
    <3>3. current # Unset
      BY <1>1, <1>2, <1>5, <2>2 DEF PeakInv, FanInv, TypeOK, MinFan, Unset
    <3>4. ComputeFanSpeed(peak, hour) \in Int
      BY <1>1, SpeedBounds DEF PeakInv, MinFan
    <3> QED
      BY <1>1, <1>2, <1>5, <3>1, <3>2, <3>3, <3>4 DEF PeakInv
  <2> QED
    BY <2>1, <2>2
<1> QED
  BY <1>3, <1>4, <1>5

LEMMA NoFlutterStep ==
    ASSUME PeakInv, PNext,
           current' # Unset, current' < current, peak # NoPeak,
           InQuiet(hour') = InQuiet(hour)
    PROVE  Smoothed(history') + Hysteresis < peak
<1>1. FanInv' /\ hour \in Int /\ hour' \in Int /\ hour' \in Hours /\ Hysteresis \in Int
  <2>1. FanInv'
    BY NextKeeps DEF PNext, PeakInv
  <2>2. hour \in Hours /\ hour' \in Hours
    BY <2>1 DEF PeakInv, FanInv, TypeOK
  <2> QED
    BY <2>1, <2>2, DaemonAssumption DEF DaemonAssumption
<1>2. current \in Int /\ current' \in Int
  BY <1>1 DEF PeakInv, FanInv, TypeOK, MinFan, Unset
<1>3. current' \notin {current, Unset}
  BY <1>2
<1>4. /\ current' = Target(Smoothed(history'), hour')
      /\ history' \in Seq(Temps) /\ Len(history') \in 1..3
  BY <1>3, SpeedSteps DEF PNext, PeakInv
<1>5. Smoothed(history') \in Int
  BY <1>4, SmoothedType
<1>6. ComputeFanSpeed(Smoothed(history') + Hysteresis, hour') < current
  BY <1>1, <1>4, <1>5, TargetDown DEF PeakInv, FanInv
<1>7. current # Unset
  BY <1>1, <1>2 DEF PeakInv, FanInv, TypeOK, MinFan, Unset
<1>8. current <= ComputeFanSpeed(peak, hour')
  BY <1>1, <1>7, SameCap DEF PeakInv
<1>9. ASSUME peak <= Smoothed(history') + Hysteresis
      PROVE  FALSE
  <2>1. peak \in Int /\ Smoothed(history') + Hysteresis \in Int
    BY <1>1, <1>5 DEF PeakInv
  <2>2. ComputeFanSpeed(peak, hour')
            <= ComputeFanSpeed(Smoothed(history') + Hysteresis, hour')
    BY <1>1, <1>9, <2>1, SpeedMonotone
  <2>3. /\ ComputeFanSpeed(peak, hour') \in MinFan..100
        /\ ComputeFanSpeed(Smoothed(history') + Hysteresis, hour') \in MinFan..100
    BY <1>1, <2>1, SpeedBounds
  <2> QED
    BY <1>2, <1>6, <1>8, <2>2, <2>3 DEF MinFan
<1> QED
  BY <1>1, <1>5, <1>9 DEF PeakInv

\* For every temperature, hysteresis, rate limit and quiet hours: the fan slows down
\* only after the GPU has cooled by more than the hysteresis since it last sped up.
THEOREM NoFlutterHolds == PSpec => NoFlutter
<1>1. PInit => PeakInv
  BY InitInv DEF PInit, PeakInv, Init, NoPeak
<1>2. PeakInv /\ [PNext]_<<vars, peak>> => PeakInv'
  BY PeakStep
<1>3. PeakInv /\ [PNext]_<<vars, peak>> =>
        [ (/\ current' # Unset /\ current' < current
           /\ peak # NoPeak /\ InQuiet(hour') = InQuiet(hour))
          => Smoothed(history') + Hysteresis < peak ]_<<vars, peak>>
  BY NoFlutterStep
<1> QED
  BY <1>1, <1>2, <1>3, PTL DEF PSpec, NoFlutter

------------------------------------------------------------------------------
(* The daemon's life, as FanDuty has it.                                   *)

\* The detailed daemon begins, takes, leaves and gives back as FanDuty says, whatever
\* number of fans it has and whichever of them refuses (run_daemon, run_fixed_daemon).
THEOREM DaemonImplementsDuty == Spec => ImplementsDuty
<1>0. 1 \in Fans
  BY DaemonAssumption DEF DaemonAssumption, Fans
<1>1. Init => Duty!Init
  BY DEF Init, Duty!Init, Duty!Kinds, Stage
<1>2. TypeOK /\ [Next]_vars => [Duty!Next]_(Duty!vars)
  <2> SUFFICES ASSUME TypeOK, [Next]_vars PROVE [Duty!Next]_(Duty!vars)
    OBVIOUS
  <2>1. CASE Launch
    BY <2>1 DEF Launch, Stage, Duty!Next, Duty!Begin, Duty!Becomes
  <2>2. CASE NvmlUnavailable
    BY <2>2 DEF NvmlUnavailable, Stage, Duty!Next, Duty!Unable, Duty!Becomes
  <2>3. CASE TakeControl
    BY <1>0, <2>3 DEF TakeControl, Stage, Duty!Next, Duty!Take, Duty!Becomes
  <2>4. ASSUME NEW k \in Fans, TakeControlFails(k)
        PROVE  [Duty!Next]_(Duty!vars)
    <3>1. (manual' # {}) \in {manual # {}, TRUE}
      BY <1>0, <2>4 DEF TakeControlFails
    <3>2. pc = "start" /\ pc' = "restore"
      BY <2>4 DEF TakeControlFails
    <3> QED
      BY <3>1, <3>2 DEF Stage, Duty!Next, Duty!TakeFails, Duty!Becomes
  <2>5. CASE Restore
    BY <2>5 DEF Restore, Stage, Duty!Next, Duty!GiveBack, Duty!Becomes
  <2>6. ASSUME NEW k \in Fans, RestoreFails(k)
        PROVE  [Duty!Next]_(Duty!vars)
    <3>1. (manual' # {}) \in {manual # {}, FALSE}
      BY <2>6 DEF RestoreFails
    <3>2. pc = "restore" /\ pc' = "down"
      BY <2>6 DEF RestoreFails
    <3> QED
      BY <3>1, <3>2 DEF Stage, Duty!Next, Duty!GiveBackFails, Duty!Becomes
  <2>7. CASE Crash
    <3>1. Stage # "none" /\ Stage' = "none" /\ manual' = manual
      BY <2>7 DEF Crash, TypeOK, Stage
    <3> QED
      BY <3>1 DEF Duty!Next, Duty!Crash, Duty!Becomes
  <2>8. CASE Wake \/ LeaveLoop \/ AnyCycle
    <3>1. pc \in {"loop", "wait"} /\ pc' \in {"loop", "wait", "restore"} /\ manual' = manual
      BY <2>8 DEF Wake, LeaveLoop, AnyCycle, Cycle, ApplyFails, ReadFails, FixedCycle,
                  FixedCycleFails, CountFailure, Following
    <3> QED
      BY <3>1 DEF Stage, Duty!Next, Duty!Leave, Duty!Becomes, Duty!vars
  <2>9. CASE Terminate \/ UNCHANGED vars
    BY <2>9 DEF Terminate, vars, Stage, Duty!vars
  <2> QED
    BY <2>1, <2>2, <2>3, <2>4, <2>5, <2>6, <2>7, <2>8, <2>9 DEF Next, Step
<1> QED
  BY <1>1, <1>2, FanTypeCorrect, PTL DEF Spec, ImplementsDuty, Duty!Spec
=============================================================================
