------------------------------ MODULE FanDaemon -----------------------------
(***************************************************************************)
(* The daemon of fan.py: run_daemon follows the curve, run_fixed_daemon    *)
(* holds one speed.  A cycle (read the temperature, smooth, compute,       *)
(* damp, apply to fan after fan) is one step: nobody else touches the fans *)
(* while the daemon holds the "fan" lock.  Any NVML call may fail, after   *)
(* some of the fans have been reached.                                     *)
(***************************************************************************)
EXTENDS FanCurve, Sequences

CONSTANTS
    NumFans,                    \* fans of the GPU, reached in this order
    Temps, Hours,               \* what the sensor and the clock may show
    FixedSpeeds,                \* speeds `vserve fan <n>` is called with
    Hysteresis, MaxRamp,        \* 4 degrees, 5 percent per cycle
    ResetThreshold, MaxFailures \* 5 and 30 failures in a row

DaemonAssumption ==
    /\ NumFans \in Nat \ {0}
    /\ Temps \subseteq Nat /\ Hours \subseteq 0..23
    /\ FixedSpeeds \subseteq 30..100
    /\ Hysteresis \in Nat /\ MaxRamp \in Nat \ {0}
    /\ ResetThreshold \in Nat \ {0} /\ MaxFailures \in Nat
    /\ ResetThreshold < MaxFailures
ASSUME DaemonAssumption

VARIABLES
    pc,         \* "down", "start", "loop", "wait" between two cycles, or "restore"
    fixed,      \* the speed to hold, 0 for the curve
    stop,       \* SIGTERM or SIGINT has arrived
    current,    \* current_speed, -1 when the next speed is to be applied anyway
    failures,   \* consecutive_failures
    history,    \* temp_history
    hour,       \* the hour of the last cycle
    manual,     \* fans under manual control
    level       \* the speed last set on each fan, 0 under automatic control

vars == <<pc, fixed, stop, current, failures, history, hour, manual, level>>

Fans == 1..NumFans
Unset == -1

TypeOK ==
    /\ pc \in {"down", "start", "loop", "wait", "restore"}
    /\ fixed \in FixedSpeeds \cup {0}
    /\ stop \in BOOLEAN
    /\ current \in {Unset} \cup MinFan..100
    /\ failures \in 0..MaxFailures
    /\ history \in Seq(Temps) /\ Len(history) <= 3
    /\ hour \in Hours
    /\ manual \subseteq Fans
    /\ level \in [Fans -> {0} \cup MinFan..100]

Init ==
    /\ pc = "down" /\ fixed = 0 /\ stop = FALSE
    /\ current = Unset /\ failures = 0 /\ history = <<>> /\ hour \in Hours
    /\ manual = {} /\ level = [f \in Fans |-> 0]

------------------------------------------------------------------------------
(* Arithmetic of a cycle.                                                  *)

\* The last three readings (SMOOTHING_SAMPLES) and their integer average.
Append3(h, t) ==
    LET all == Append(h, t)
    IN  IF Len(all) > 3 THEN Tail(all) ELSE all

Smoothed(h) ==
    LET at(i) == IF i <= Len(h) THEN h[i] ELSE 0
    IN  (at(1) + at(2) + at(3)) \div Len(h)

\* Mutant: no hysteresis.
Undamped(t, h) == ComputeFanSpeed(t, h)

\* Ramp down only when the curve would do so even some degrees warmer.
Damped(t, h) ==
    LET desired == ComputeFanSpeed(t, h)
        warmer == ComputeFanSpeed(t + Hysteresis, h)
    IN  IF desired < current /\ warmer >= current THEN current ELSE desired

\* Move by at most MaxRamp per cycle, if a speed is in force.
Limited(s) ==
    IF current = Unset THEN s
    ELSE Larger(current - MaxRamp, Smaller(current + MaxRamp, s))

Target(t, h) == Larger(MinFan, Smaller(100, Limited(Damped(t, h))))

\* The fans after the first k of them have been set to s.
SetFirst(k, s) == [f \in Fans |-> IF f <= k THEN s ELSE level[f]]

------------------------------------------------------------------------------
(* Life of the daemon.                                                     *)

Launch ==
    /\ pc = "down"
    /\ pc' = "start" /\ stop' = FALSE
    /\ fixed' \in FixedSpeeds \cup {0}
    /\ current' = Unset /\ failures' = 0 /\ history' = <<>>
    /\ UNCHANGED <<hour, manual, level>>

\* nvmlInit, or finding the GPU, fails: there is nothing to restore.
NvmlUnavailable ==
    /\ pc = "start" /\ pc' = "down"
    /\ UNCHANGED <<fixed, stop, current, failures, history, hour, manual, level>>

\* Manual control of every fan; a fixed speed is applied at once.
TakeControl ==
    /\ pc = "start" /\ pc' = "loop"
    /\ manual' = Fans
    /\ level' = IF fixed = 0 THEN level ELSE SetFirst(NumFans, fixed)
    /\ UNCHANGED <<fixed, stop, current, failures, history, hour>>

\* The k-th fan refuses manual control, or later its speed.
TakeControlFails(k) ==
    /\ pc = "start" /\ pc' = "restore"
    /\ \/ manual' = manual \cup 1..(k - 1) /\ level' = level
       \/ fixed # 0 /\ manual' = Fans /\ level' = SetFirst(k - 1, fixed)
    /\ UNCHANGED <<fixed, stop, current, failures, history, hour>>

Terminate ==
    /\ pc \in {"start", "loop", "wait"} /\ ~stop /\ stop' = TRUE
    /\ UNCHANGED <<pc, fixed, current, failures, history, hour, manual, level>>

\* stop.wait: the poll interval is over, or a signal has come.
Wake ==
    /\ pc = "wait" /\ pc' = "loop"
    /\ UNCHANGED <<fixed, stop, current, failures, history, hour, manual, level>>

LeaveLoop ==
    /\ pc = "loop" /\ stop /\ pc' = "restore"
    /\ UNCHANGED <<fixed, stop, current, failures, history, hour, manual, level>>

Restore ==
    /\ pc = "restore" /\ pc' = "down"
    /\ manual' = {} /\ level' = [f \in Fans |-> 0]
    /\ UNCHANGED <<fixed, stop, current, failures, history, hour>>

\* The k-th fan cannot be given back; those after it are not tried.
RestoreFails(k) ==
    /\ pc = "restore" /\ pc' = "down"
    /\ manual' = manual \ 1..(k - 1) /\ level' = SetFirst(k - 1, 0)
    /\ UNCHANGED <<fixed, stop, current, failures, history, hour>>

\* SIGKILL, or a crash: nothing is restored.
Crash ==
    /\ pc # "down" /\ pc' = "down"
    /\ UNCHANGED <<fixed, stop, current, failures, history, hour, manual, level>>

------------------------------------------------------------------------------
(* Cycles.                                                                 *)

Following == pc = "loop" /\ ~stop /\ fixed = 0

\* A cycle in which every call succeeds; the fans are set if the speed changes.
Cycle(t, h) ==
    LET now == Append3(history, t)
        target == Target(Smoothed(now), h)
    IN  /\ Following
        /\ history' = now /\ hour' = h
        /\ current' = target /\ failures' = 0
        /\ level' = IF target = current THEN level ELSE SetFirst(NumFans, target)
        /\ pc' = "wait"
        /\ UNCHANGED <<fixed, stop, manual>>

\* Mutant: the loop is never left for its failures.
CountForever ==
    LET n == Smaller(failures + 1, MaxFailures)
    IN  /\ failures' = n
        /\ pc' = "wait"
        /\ current' = IF n >= ResetThreshold THEN Unset ELSE current

\* After MaxFailures failures the daemon gives up, after ResetThreshold it
\* forgets the speed in force.
CountFailure ==
    LET n == failures + 1
    IN  /\ failures' = n
        /\ pc' = IF n >= MaxFailures THEN "restore" ELSE "wait"
        /\ current' = IF n < MaxFailures /\ n >= ResetThreshold THEN Unset ELSE current

ReadFails ==
    /\ Following
    /\ CountFailure
    /\ UNCHANGED <<fixed, stop, history, hour, manual, level>>

\* Mutant: current_speed is assigned before the fans are set.
ApplyAfterAssigning(t, h, k) ==
    LET now == Append3(history, t)
        target == Target(Smoothed(now), h)
    IN  /\ Following
        /\ failures + 1 < MaxFailures /\ failures' = failures + 1
        /\ history' = now /\ hour' = h
        /\ target # current /\ current' = target
        /\ level' = SetFirst(k - 1, target)
        /\ pc' = "wait"
        /\ UNCHANGED <<fixed, stop, manual>>

\* The k-th fan cannot be set: those before it have been, current_speed is not.
ApplyFails(t, h, k) ==
    LET now == Append3(history, t)
        target == Target(Smoothed(now), h)
    IN  /\ Following
        /\ history' = now /\ hour' = h
        /\ CountFailure
        /\ target # current
        /\ level' = SetFirst(k - 1, target)
        /\ UNCHANGED <<fixed, stop, manual>>

\* The fixed daemon sets all the fans in every cycle and counts nothing.
FixedCycle ==
    /\ pc = "loop" /\ ~stop /\ fixed # 0
    /\ level' = SetFirst(NumFans, fixed)
    /\ pc' = "wait"
    /\ UNCHANGED <<fixed, stop, current, failures, history, hour, manual>>

FixedCycleFails(k) ==
    /\ pc = "loop" /\ ~stop /\ fixed # 0
    /\ level' = SetFirst(k - 1, fixed)
    /\ pc' = "wait"
    /\ UNCHANGED <<fixed, stop, current, failures, history, hour, manual>>

AnyCycle ==
    \/ \E t \in Temps, h \in Hours : Cycle(t, h) \/ \E k \in Fans : ApplyFails(t, h, k)
    \/ ReadFails
    \/ FixedCycle
    \/ \E k \in Fans : FixedCycleFails(k)

Step ==
    \/ NvmlUnavailable \/ TakeControl \/ \E k \in Fans : TakeControlFails(k)
    \/ AnyCycle \/ Wake \/ LeaveLoop
    \/ Restore \/ \E k \in Fans : RestoreFails(k)

Next == Launch \/ Step \/ Terminate \/ Crash

Spec == Init /\ [][Next]_vars

\* No stage lasts for ever: the loop goes round every five seconds.  Every step of
\* the daemon leaves its stage, and in each stage one is enabled.
LeaveStage == pc # "down" /\ pc' \in {"down", "loop", "wait", "restore"}

FairSpec == Spec /\ WF_pc(LeaveStage)

------------------------------------------------------------------------------
(* Correctness.                                                            *)

\* Failing calls never let a fan drift: while a speed is in force every fan is
\* under manual control and at most one ramp step away from it, also after
\* cycles that reached only some of the fans (fan.py 284-314).
FansTrack ==
    pc \in {"loop", "wait"} /\ fixed = 0 /\ current # Unset =>
        /\ manual = Fans
        /\ \A f \in Fans : level[f] - current \in (-MaxRamp)..MaxRamp

\* The last cycle was in order and the sensor showed a temperature in S.
Steady(S) ==
    /\ pc \in {"loop", "wait"} /\ fixed = 0 /\ failures = 0
    /\ history # <<>> /\ history[Len(history)] \in S

\* The emergency override: when the GPU stays at 88 degrees or more, the speed
\* goes to 100 percent, quiet hours or not, and from any speed, in spite of the
\* smoothing and the rate limit; a fan that failed stays less than a ramp step behind.
EmergencyReached ==
    <>[]Steady({t \in Temps : t >= EmergencyTemp})
        => <>[](current = 100 /\ \A f \in Fans : level[f] >= 100 - MaxRamp)

\* "100% fan at 88 degrees" (troubleshooting.md 88), of every fan.
EmergencyExact ==
    <>[]Steady({t \in Temps : t >= EmergencyTemp})
        => <>[](\A f \in Fans : level[f] = 100)

\* Quiet hours are respected: when they last, and the GPU stays cooler than the
\* emergency temperature by more than the hysteresis, the speed falls to the cap,
\* also from an emergency.
QuietRespected ==
    <>[](Steady({t \in Temps : t + Hysteresis < EmergencyTemp}) /\ InQuiet(hour))
        => <>[](current \in MinFan..QuietMax)

\* A daemon that follows the curve and whose calls keep failing does not hold the fans
\* for ever: a cycle succeeds again or the loop is left (MAX_CONSECUTIVE_FAILURES).  One
\* with a fixed speed counts nothing and never gives up (fan.py 406-411).
GivesUpBlind == []<>(fixed # 0 \/ pc \notin {"loop", "wait"} \/ failures = 0)

\* The same life as module FanDuty has it.
Stage == CASE pc = "down" -> "none"
           [] pc = "start" -> "taking"
           [] pc \in {"loop", "wait"} -> "on"
           [] pc = "restore" -> "returning"

Duty == INSTANCE FanDuty WITH
    duty <- Stage, manual <- (manual # {}), faults <- {"crash", "restore"}

\* The detailed daemon does what FanService and FanDuty assume of it, with any number
\* of fans and whichever of them fails.
ImplementsDuty == Duty!Spec
=============================================================================
