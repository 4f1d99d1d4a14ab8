------------------------------ MODULE FanCurve ------------------------------
(***************************************************************************)
(* The fan curve of fan.py: temperature and hour to fan speed, with a cap  *)
(* during quiet hours and an emergency temperature that ignores it.        *)
(* Speeds are percentages, temperatures degrees; the program's float       *)
(* interpolation, cut to an integer, equals integer division on the curve. *)
(***************************************************************************)
EXTENDS Integers

CONSTANTS
    QuietStart, QuietEnd,       \* hours between which the cap holds
    QuietMax                    \* the cap

QuietAssumption ==
    /\ QuietStart \in 0..23 /\ QuietEnd \in 0..23
    /\ QuietMax \in 30..100
ASSUME QuietAssumption

MinFan == 30
EmergencyTemp == 88
CurveTop == 80

Smaller(a, b) == IF a < b THEN a ELSE b
Larger(a, b) == IF a < b THEN b ELSE a

\* The line through (t0, s0) and (t1, s1) at t.
Line(t, t0, s0, t1, s1) == s0 + ((t - t0) * (s1 - s0)) \div (t1 - t0)

\* The uncapped curve on its support.
Slope(t) ==
    IF t <= 55 THEN Line(t, 35, 30, 55, 35)
    ELSE IF t <= 65 THEN Line(t, 55, 35, 65, 50)
    ELSE IF t <= 75 THEN Line(t, 65, 50, 75, 75)
    ELSE Line(t, 75, 75, CurveTop, 100)

InterpolateCurve(t, cap) ==
    IF t <= 35 THEN MinFan
    ELSE IF t >= CurveTop THEN cap
    ELSE Smaller(Slope(t), cap)

\* Quiet hours may wrap around midnight.
InQuiet(hour) ==
    IF QuietStart < QuietEnd
    THEN QuietStart <= hour /\ hour < QuietEnd
    ELSE QuietStart <= hour \/ hour < QuietEnd

\* Mutant: the quiet hours do not lower the cap.
CapNever(hour) == 100

Cap(hour) == IF InQuiet(hour) THEN QuietMax ELSE 100

\* Mutant: no emergency override.
SpeedWithoutOverride(t, hour) == InterpolateCurve(t, Cap(hour))

ComputeFanSpeed(t, hour) ==
    IF t >= EmergencyTemp THEN 100 ELSE InterpolateCurve(t, Cap(hour))
=============================================================================
