---------------------------- MODULE FanHysteresis ---------------------------
(***************************************************************************)
(* FanDaemon with a history variable: the temperature at which the speed   *)
(* was last raised, to say what the hysteresis of run_daemon promises.     *)
(***************************************************************************)
EXTENDS FanDaemon

VARIABLE peak   \* smoothed temperature of the last ramp-up, or NoPeak

NoPeak == -1

PInit == Init /\ peak = NoPeak

\* A cycle that raises the speed, or applies one after a reset, sets the peak; it
\* means nothing any more once the quiet hours have begun or ended.
SetPeak ==
    peak' = IF current' > current THEN Smoothed(history')
            ELSE IF current' = Unset \/ InQuiet(hour') # InQuiet(hour) THEN NoPeak
            ELSE peak

PNext == Next /\ SetPeak

PSpec == PInit /\ [][PNext]_<<vars, peak>>
PFairSpec == PSpec /\ WF_pc(LeaveStage)

\* No flutter: the speed goes down only after the GPU has cooled by more than the
\* hysteresis since it last went up ("ramp-down requires temp to drop this much
\* below ramp-up threshold"), as long as the quiet hours have neither begun nor ended.
NoFlutter ==
    [][ (/\ current' # Unset /\ current' < current
         /\ peak # NoPeak /\ InQuiet(hour') = InQuiet(hour))
        => Smoothed(history') + Hysteresis < peak ]_<<vars, peak>>
=============================================================================
