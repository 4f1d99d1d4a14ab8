-------------------------- MODULE HealthWaitProofs --------------------------
(***************************************************************************)
(* What a launch never does while it waits for its engine, for any number  *)
(* of polls, length of the grace period and number of restarts; and that   *)
(* it implements the launch of GpuSession.                                 *)
(***************************************************************************)
EXTENDS HealthWait, TLAPS

\* What the launch does to the markers leaves a marker store (write_session,
\* clear_session).
LEMMA NoMarkersType == NoMarkers \in MarkerStores
  BY DEF MarkerStores, NoMarkers
LEMMA WriteMarkerType ==
    ASSUME NEW m \in MarkerStores, NEW u \in Users, NEW c \in BOOLEAN
    PROVE  WriteMarker(m, u, c) \in MarkerStores
  BY DEF MarkerStores, WriteMarker
LEMMA RemoveMarkersType ==
    ASSUME NEW m \in MarkerStores, NEW S \in SUBSET Users
    PROVE  RemoveMarkers(m, S) \in MarkerStores
  BY DEF MarkerStores, RemoveMarkers

\* The endpoint is asked only while there are polls left.
PollsLeft == pc \in {"mark", "health"} => polls < Iterations

\* A counter past the baseline is a death of the engine in this wait.
CountIsDeath == (\E b \in base : nrestarts > b) => bounced \/ unit = "down"

HealthInv == TypeOK /\ PollsLeft /\ CountIsDeath /\ SlowStartIsKept

LEMMA InitHealthInv == ASSUME Init PROVE HealthInv
  <1>1. markers \in MarkerStores
    BY NoMarkersType, WriteMarkerType DEF Init
  <1>2. polls \in 0..Iterations /\ polls < Iterations
    BY HealthAssumption DEF Init
  <1>3. base \in SUBSET (0..MaxRestarts) /\ CountIsDeath
    BY DEF Init, CountIsDeath
  <1>4. pc = "mark" /\ bounced \in BOOLEAN /\ nrestarts \in 0..MaxRestarts
    BY DEF Init
  <1>5. unit \in UnitStates /\ manifest = "starting" /\ outcome = "none" /\ reliable \in BOOLEAN
    BY DEF Init, UnitStates
  <1> QED
    BY <1>1, <1>2, <1>3, <1>4, <1>5
       DEF HealthInv, TypeOK, PollsLeft, SlowStartIsKept, GivingUp

\* What the launch reads of the unit, in terms of its state.
LEMMA ReadingsAre == \A rc \in Readings : rc = {} \/ rc = {nrestarts}
  BY DEF Readings, Unavailable

LEMMA StatesTell == "stopped" \in States => unit = "down"
  BY DEF States, Unavailable, Active

LEMMA ClimbedIsDeath ==
    ASSUME CountIsDeath, NEW rc \in Readings, Climbed(rc)
    PROVE  bounced \/ unit = "down"
  BY ReadingsAre DEF Climbed, CountIsDeath

LEMMA LaunchKeepsInv == ASSUME HealthInv, Step \/ Kill PROVE HealthInv'
  <1> USE HealthAssumption
  <1> USE DEF HealthInv, TypeOK, PollsLeft, CountIsDeath, SlowStartIsKept,
              UnitStates, Waiting, GivingUp, Outcomes, systemd, Goto, Return
  <1>1. CASE MarkSession
    <2>1. markers' \in MarkerStores
      BY <1>1, WriteMarkerType DEF MarkSession
    <2>2. base' \in SUBSET (0..MaxRestarts) /\ \A b \in base' : b = nrestarts
      BY <1>1, ReadingsAre DEF MarkSession
    <2>3. CountIsDeath'
      BY <1>1, <2>2 DEF MarkSession
    <2>4. polls' < Iterations /\ pc' = "health"
      BY <1>1 DEF MarkSession
    <2> QED
      BY <1>1, <2>1, <2>2, <2>3, <2>4 DEF MarkSession
  <1>2. CASE Ready
    BY <1>2 DEF Ready
  <1>3. CASE NotReady
    BY <1>3 DEF NotReady
  <1>4. CASE LookAtUnit
    BY <1>4, StatesTell DEF LookAtUnit
  <1>5. CASE LookAtCounter
    BY <1>5, ClimbedIsDeath DEF LookAtCounter
  <1>6. CASE Recheck
    BY <1>6, StatesTell DEF Recheck
  <1>7. CASE Recount
    BY <1>7, ClimbedIsDeath DEF Recount
  <1>8. CASE GiveUp
    BY <1>8, RemoveMarkersType DEF GiveUp
  <1>9. CASE IssueStop
    BY <1>9 DEF IssueStop
  <1>10. CASE StopReturns
    BY <1>10 DEF StopReturns
  <1>11. CASE StopFails
    BY <1>11 DEF StopFails
  <1>12. CASE RecordFailure
    BY <1>12 DEF RecordFailure
  <1>13. CASE Kill
    BY <1>13 DEF Kill
  <1> QED
    BY <1>1, <1>2, <1>3, <1>4, <1>5, <1>6, <1>7, <1>8, <1>9, <1>10, <1>11, <1>12,
       <1>13 DEF Step

LEMMA UnitKeepsInv == ASSUME HealthInv, UnitStep PROVE HealthInv'
  <1> USE HealthAssumption
  <1> USE DEF HealthInv, TypeOK, PollsLeft, CountIsDeath, SlowStartIsKept,
              UnitStates, Waiting, GivingUp, Outcomes, launch
  <1>1. CASE UnitComesUp
    BY <1>1 DEF UnitComesUp
  <1>2. CASE EngineServes
    BY <1>2 DEF EngineServes
  <1>3. CASE EngineDies
    BY <1>3 DEF EngineDies
  <1>4. CASE AutoRestart
    BY <1>4 DEF AutoRestart
  <1>5. CASE UnitGoesDown
    BY <1>5 DEF UnitGoesDown
  <1> QED
    BY <1>1, <1>2, <1>3, <1>4, <1>5 DEF UnitStep

\* HealthInv is inductive.
THEOREM HealthInvHolds == Spec => []HealthInv
  <1>1. Init => HealthInv
    BY InitHealthInv
  <1>2. HealthInv /\ [Next]_vars => HealthInv'
    <2> SUFFICES ASSUME HealthInv, [Next]_vars PROVE HealthInv'
      OBVIOUS
    <2>1. CASE Next
      BY <2>1, LaunchKeepsInv, UnitKeepsInv DEF Next
    <2>2. CASE UNCHANGED vars
      BY <2>2 DEF HealthInv, TypeOK, PollsLeft, CountIsDeath, SlowStartIsKept,
                  vars, systemd, launch
    <2> QED
      BY <2>1, <2>2
  <1> QED
    BY <1>1, <1>2, PTL DEF Spec

\* The state of a wait is well typed: in particular the loop of _wait_for_health
\* never polls more often than its timeout allows.
THEOREM HealthTypeCorrect == Spec => []TypeOK
  BY HealthInvHolds, PTL DEF HealthInv

\* Whatever fails to answer, and for every timeout, grace period and number of
\* restarts, _launch_backend gives up (and stops the unit) only if the engine died
\* or was restarted after the baseline.
THEOREM SlowStartKept == Spec => []SlowStartIsKept
  BY HealthInvHolds, PTL DEF HealthInv

-----------------------------------------------------------------------------
(* The refinement.                                                         *)

\* Functions of the only terminal, and of the only backend.
LEMMA MineAt == \A v, w : Mine(v)[Launcher] = v /\ [Mine(v) EXCEPT ![Launcher] = w] = Mine(w)
  BY DEF Mine

LEMMA ItsAt == \A v, w : Its(v)[Srv] = v /\ [Its(v) EXCEPT ![Srv] = w] = Its(w)
  BY DEF Its

\* GpuSession sees the same markers.
LEMMA SameMarkers ==
    /\ \A m, u, c : Gpu!WriteMarker(m, u, c) = WriteMarker(m, u, c)
    /\ \A m, S : Gpu!RemoveMarkers(m, S) = RemoveMarkers(m, S)
  BY DEF Gpu!WriteMarker, WriteMarker, Gpu!RemoveMarkers, RemoveMarkers

LEMMA MarkRefines == ASSUME MarkSession PROVE Gpu!MarkSession(Launcher)
  <1>1. pc = "mark" /\ pc' = "health"
    BY DEF MarkSession
  <1>2. Gpu!At(Launcher, {"mark"})
    BY <1>1, MineAt DEF Gpu!At, GpuStage, Waiting, Running
  <1>3. Gpu!Goto(Launcher, "health", {})
    BY <1>1, MineAt DEF Gpu!Goto, Gpu!Continue, GpuStage, Waiting, Running
  <1>4. markers' = Gpu!WriteMarker(markers, Gpu!Me(Launcher), FALSE)
    BY SameMarkers, MineAt DEF MarkSession, Gpu!Me
  <1>5. (IF bounced THEN {Srv} ELSE {})' = (IF bounced THEN {Srv} ELSE {}) \ {Srv}
    BY DEF MarkSession
  <1> QED
    BY <1>1, <1>2, <1>3, <1>4, <1>5, MineAt DEF Gpu!MarkSession, MarkSession, Running, GpuUnit

\* The wait itself changes nothing GpuSession sees.
LEMMA WaitRefines ==
    ASSUME UNCHANGED <<systemd, markers>>, pc \in Waiting, pc' \in Waiting
    PROVE  UNCHANGED Gpu!vars
  BY DEF systemd, Waiting, Running, GpuUnit, GpuStage, Gpu!vars, Gpu!shared, Gpu!locals

\* A launch that ends frees the lock and forgets its state.
LEMMA ExitRefines ==
    ASSUME UNCHANGED <<systemd, markers>>, pc # "done", pc' = "done"
    PROVE  /\ Gpu!Exit(Launcher) /\ UNCHANGED <<Gpu!system, markers>>
           /\ Mine(IF Running THEN "run" ELSE "none")[Launcher] = "run"
  <1>1. /\ Running /\ ~Running' /\ GpuStage' = "idle" /\ GpuUnit' = GpuUnit
        /\ unit' = unit /\ bounced' = bounced
    BY DEF systemd, Running, GpuStage, GpuUnit, Waiting
  <1> QED
    BY <1>1, MineAt DEF Gpu!Exit, Gpu!system

LEMMA EndRefines ==
    ASSUME UNCHANGED <<systemd, markers>>, pc # "done", pc' = "done"
    PROVE  Gpu!EndLaunch(Launcher) /\ UNCHANGED <<Gpu!system, markers>>
  BY ExitRefines DEF Gpu!EndLaunch

\* The wait ends in one of GpuSession's ways: the backend is left alone, ...
LEMMA ReturnRefines ==
    ASSUME UNCHANGED <<systemd, markers>>, pc \in Waiting, pc' = "done"
    PROVE  Gpu!HealthUnconfirmed(Launcher)
  <1>1. Gpu!At(Launcher, {"health"})
    BY MineAt DEF Gpu!At, GpuStage
  <1> QED
    BY <1>1, EndRefines DEF Waiting, Gpu!HealthUnconfirmed

\* ... or the launch gives up, because the unit is down or was restarted.
LEMMA FailRefines ==
    ASSUME UNCHANGED <<systemd, markers>>, pc \in Waiting, pc' = "giveup",
           bounced \/ unit = "down"
    PROVE  Gpu!HealthFails(Launcher)
  <1>1. Gpu!At(Launcher, {"health"})
    BY MineAt DEF Gpu!At, GpuStage
  <1>2. /\ Running /\ Running' /\ GpuStage' = "giveup" /\ GpuStage = "health"
        /\ GpuUnit' = GpuUnit /\ unit' = unit /\ bounced' = bounced
        /\ pc \notin {"halt", "halting"} /\ pc' \notin {"halt", "halting"}
    BY DEF systemd, Running, GpuStage, GpuUnit, Waiting
  <1>3. Gpu!Goto(Launcher, "giveup", {})
    BY <1>2, MineAt DEF Gpu!Goto, Gpu!Continue
  <1>4. unit = "down" => Its(GpuUnit)[Srv] = "down"
    BY ItsAt DEF GpuUnit
  <1>5. bounced => Srv \in (IF bounced THEN {Srv} ELSE {})
    OBVIOUS
  <1> QED
    BY <1>1, <1>2, <1>3, <1>4, <1>5, MineAt DEF Gpu!HealthFails, Gpu!shared

LEMMA GiveUpRefines == ASSUME GiveUp PROVE Gpu!GiveUp(Launcher)
  <1>1. /\ Running /\ Running' /\ GpuStage = "giveup" /\ GpuStage' = "halt"
        /\ GpuUnit' = GpuUnit /\ unit' = unit /\ bounced' = bounced /\ pc' = "halt"
    BY DEF GiveUp, systemd, Running, GpuStage, GpuUnit, Waiting
  <1>2. Gpu!At(Launcher, {"giveup"})
    BY <1>1, MineAt DEF Gpu!At
  <1>3. Gpu!Goto(Launcher, "halt", {Srv})
    BY <1>1, MineAt DEF Gpu!Goto, Gpu!Continue, GiveUp
  <1>4. markers' = Gpu!RemoveMarkers(markers, {Gpu!Me(Launcher)})
    BY SameMarkers, MineAt DEF GiveUp, Gpu!Me
  <1> QED
    BY <1>1, <1>2, <1>3, <1>4, MineAt DEF Gpu!GiveUp, Gpu!system

LEMMA StopRefines == ASSUME IssueStop PROVE Gpu!IssueStop(Launcher)
  <1>1. /\ Running /\ Running' /\ GpuStage = "halt" /\ GpuStage' = "halt"
        /\ pc = "halt" /\ pc' = "halting" /\ bounced' = bounced /\ markers' = markers
        /\ (unit' = "down") <=> (unit = "down")
    BY DEF IssueStop, Goto, Running, GpuStage, Waiting
  <1>2. GpuUnit' = IF GpuUnit = "down" THEN GpuUnit ELSE "stopping"
    BY DEF IssueStop, GpuUnit
  <1>3. Gpu!At(Launcher, Gpu!Stopping)
    BY <1>1, MineAt DEF Gpu!At, Gpu!Stopping
  <1>4. Its(GpuUnit)' = [Its(GpuUnit) EXCEPT ![Srv] = IF @ = "down" THEN @ ELSE "stopping"]
    BY <1>2 DEF Its
  <1>5. Mine(IF pc = "halt" THEN {Srv} ELSE {})' =
            [Mine(IF pc = "halt" THEN {Srv} ELSE {}) EXCEPT ![Launcher] = @ \ {Srv}]
    BY <1>1 DEF Mine
  <1>6. Mine(IF pc = "halting" THEN Srv ELSE NoBackend)' =
            [Mine(IF pc = "halting" THEN Srv ELSE NoBackend) EXCEPT ![Launcher] = Srv]
    BY <1>1, MineAt
  <1>7. /\ Srv \in Mine(IF pc = "halt" THEN {Srv} ELSE {})[Launcher]
        /\ Mine(IF pc = "halting" THEN Srv ELSE NoBackend)[Launcher] = NoBackend
    BY <1>1, MineAt
  <1> QED
    BY <1>1, <1>3, <1>4, <1>5, <1>6, <1>7 DEF Gpu!IssueStop

LEMMA StoppedRefines == ASSUME StopReturns PROVE Gpu!StopReturns(Launcher)
  <1>1. /\ Running /\ Running' /\ GpuStage = "halt" /\ GpuStage' = "halt"
        /\ pc = "halting" /\ pc' = "record" /\ markers' = markers
        /\ unit' = unit /\ GpuUnit' = GpuUnit /\ bounced' = bounced
        /\ GpuUnit # "stopping"
    BY DEF StopReturns, Goto, Running, GpuStage, GpuUnit, Waiting, systemd
  <1>2. Gpu!At(Launcher, Gpu!Stopping)
    BY <1>1, MineAt DEF Gpu!At, Gpu!Stopping
  <1> QED
    BY <1>1, <1>2, MineAt, ItsAt, HealthAssumption DEF Gpu!StopReturns, Gpu!shared

LEMMA StopFailsRefines == ASSUME StopFails PROVE Gpu!StopFails(Launcher)
  <1>1. /\ Running /\ Running' /\ GpuStage = "halt" /\ GpuStage' = "halt"
        /\ pc \in {"halt", "halting"} /\ pc' = "record" /\ markers' = markers
        /\ unit' = unit /\ GpuUnit' = GpuUnit /\ bounced' = bounced
    BY DEF StopFails, Goto, Running, GpuStage, GpuUnit, Waiting, systemd
  <1>2. Gpu!At(Launcher, Gpu!Stopping) /\ Mine(GpuStage)[Launcher] = "halt"
    BY <1>1, MineAt DEF Gpu!At, Gpu!Stopping
  <1>3. CASE pc = "halt"
    <2>1. Mine(IF pc = "halt" THEN {Srv} ELSE {})' =
              [Mine(IF pc = "halt" THEN {Srv} ELSE {}) EXCEPT ![Launcher] = @ \ {Srv}]
      BY <1>1, <1>3 DEF Mine
    <2>2. /\ Srv \in Mine(IF pc = "halt" THEN {Srv} ELSE {})[Launcher]
          /\ Mine(IF pc = "halting" THEN Srv ELSE NoBackend)[Launcher] = NoBackend
      BY <1>3, MineAt
    <2> QED
      BY <1>1, <1>2, <1>3, <2>1, <2>2 DEF Gpu!StopFails, Gpu!system
  <1>4. CASE pc = "halting"
    BY <1>1, <1>2, <1>4, MineAt, HealthAssumption DEF Gpu!StopFails, Gpu!system
  <1> QED
    BY <1>1, <1>3, <1>4

LEMMA RecordRefines == ASSUME RecordFailure PROVE Gpu!Halted(Launcher)
  <1>1. /\ pc = "record" /\ pc' = "done" /\ UNCHANGED <<systemd, markers>>
        /\ GpuStage = "halt"
    BY DEF RecordFailure, Return, GpuStage, Waiting
  <1>2. Gpu!At(Launcher, {"halt"}) /\ Gpu!StopsDone(Launcher)
    BY <1>1, MineAt DEF Gpu!At, Gpu!StopsDone
  <1> QED
    BY <1>1, <1>2, EndRefines DEF Gpu!Halted

LEMMA KillRefines == ASSUME TypeOK, Kill PROVE Gpu!Kill(Launcher)
  <1>1. pc # "done" /\ pc' = "done" /\ UNCHANGED <<systemd, markers>>
    BY DEF Kill
  <1>2. GpuStage # "idle"
    BY <1>1 DEF TypeOK, GpuStage, Running, Waiting, GivingUp
  <1> QED
    BY <1>1, <1>2, ExitRefines, MineAt DEF Gpu!Kill

LEMMA UnitRefines ==
    ASSUME UnitStep
    PROVE  (\E b \in {Srv} : Gpu!UnitSteps(b)) \/ UNCHANGED Gpu!vars
  <1>1. /\ pc' = pc /\ markers' = markers /\ GpuStage' = GpuStage /\ Running' = Running
        /\ UNCHANGED Gpu!locals
    BY DEF UnitStep, UnitComesUp, EngineServes, EngineDies, AutoRestart, UnitGoesDown,
           launch, GpuStage, Running, Gpu!locals
  <1>2. CASE UnitComesUp
    <2>1. /\ GpuUnit = "starting" /\ GpuUnit' = "up" /\ unit # "down" /\ unit' # "down"
          /\ bounced' = bounced
      BY <1>2 DEF UnitComesUp, GpuUnit
    <2>2. Gpu!UnitComesUp(Srv)
      BY <1>1, <2>1, ItsAt DEF Gpu!UnitComesUp
    <2> QED
      BY <2>2 DEF Gpu!UnitSteps
  <1>3. CASE EngineServes
    <2>1. /\ GpuUnit' = GpuUnit /\ unit # "down" /\ unit' # "down" /\ bounced' = bounced
      BY <1>3 DEF EngineServes, GpuUnit
    <2> QED
      BY <1>1, <2>1 DEF Gpu!vars, Gpu!shared
  <1>4. CASE EngineDies \/ AutoRestart
    <2>1. /\ GpuUnit \in {"starting", "up"} /\ GpuUnit' = "starting"
          /\ unit # "down" /\ unit' # "down" /\ bounced'
      BY <1>4 DEF EngineDies, AutoRestart, GpuUnit
    <2>2. Gpu!UnitRestarts(Srv)
      BY <1>1, <2>1, ItsAt DEF Gpu!UnitRestarts
    <2> QED
      BY <2>2 DEF Gpu!UnitSteps
  <1>5. CASE UnitGoesDown
    <2>1. /\ GpuUnit # "down" /\ GpuUnit' = "down" /\ unit' = "down" /\ ~bounced'
      BY <1>5 DEF UnitGoesDown, GpuUnit
    <2>2. Gpu!UnitGoesDown(Srv)
      BY <1>1, <2>1, ItsAt DEF Gpu!UnitGoesDown
    <2> QED
      BY <2>2 DEF Gpu!UnitSteps
  <1> QED
    BY <1>2, <1>3, <1>4, <1>5 DEF UnitStep

LEMMA StepRefines ==
    ASSUME HealthInv, Step
    PROVE  Gpu!Advance(Launcher) \/ UNCHANGED Gpu!vars
  <1> USE DEF HealthInv
  <1> USE DEF Gpu!Advance, Gpu!LaunchSteps, Gpu!SystemctlSteps
  <1>1. CASE MarkSession
    BY <1>1, MarkRefines
  <1>2. CASE Ready
    <2>1. UNCHANGED <<systemd, markers>> /\ pc \in Waiting /\ pc' = "done"
      BY <1>2 DEF Ready, Return, Waiting
    <2> QED
      BY <2>1, ReturnRefines
  <1>3. CASE NotReady
    <2>1. UNCHANGED <<systemd, markers>> /\ pc \in Waiting /\ pc' \in Waiting
      BY <1>3 DEF NotReady, Waiting
    <2> QED
      BY <2>1, WaitRefines
  <1>4. CASE LookAtUnit \/ LookAtCounter \/ Recheck \/ Recount
    <2>1. UNCHANGED <<systemd, markers>> /\ pc \in Waiting
      BY <1>4 DEF LookAtUnit, LookAtCounter, Recheck, Recount, Goto, Return, Waiting
    <2>2. pc' \in Waiting \cup {"done", "giveup"}
      BY <1>4 DEF LookAtUnit, LookAtCounter, Recheck, Recount, Goto, Return, Waiting
    <2>3. pc' = "giveup" => bounced \/ unit = "down"
      <3>1. CASE LookAtUnit
        BY <3>1, StatesTell DEF LookAtUnit, Goto
      <3>2. CASE LookAtCounter
        BY <3>2, ClimbedIsDeath DEF LookAtCounter, Goto
      <3>3. CASE Recheck
        BY <3>3, StatesTell DEF Recheck, Goto, Return
      <3>4. CASE Recount
        BY <3>4, ClimbedIsDeath DEF Recount, Goto, Return
      <3> QED
        BY <1>4, <3>1, <3>2, <3>3, <3>4
    <2> QED
      BY <2>1, <2>2, <2>3, WaitRefines, ReturnRefines, FailRefines
  <1>5. CASE GiveUp
    BY <1>5, GiveUpRefines
  <1>6. CASE IssueStop
    BY <1>6, StopRefines
  <1>7. CASE StopReturns
    BY <1>7, StoppedRefines
  <1>8. CASE StopFails
    BY <1>8, StopFailsRefines
  <1>9. CASE RecordFailure
    BY <1>9, RecordRefines
  <1> QED
    BY <1>1, <1>2, <1>3, <1>4, <1>5, <1>6, <1>7, <1>8, <1>9 DEF Step

\* Every step of the detailed wait, on every unit and with every answer, is a step of
\* GpuSession or invisible to it.
THEOREM WaitImplementsLaunch == Spec => ImplementsLaunch
  <1>1. HealthInv /\ [Next]_vars => [Gpu!Next]_(Gpu!vars)
    <2> SUFFICES ASSUME HealthInv, [Next]_vars PROVE [Gpu!Next]_(Gpu!vars)
      OBVIOUS
    <2>1. CASE Step
      BY <2>1, StepRefines DEF Gpu!Next
    <2>2. CASE Kill
      BY <2>2, KillRefines DEF HealthInv, Gpu!Next
    <2>3. CASE UnitStep
      BY <2>3, UnitRefines DEF Gpu!Next
    <2>4. CASE UNCHANGED vars
      BY <2>4 DEF vars, systemd, launch, Running, GpuUnit, GpuStage,
                  Gpu!vars, Gpu!shared, Gpu!locals
    <2> QED
      BY <2>1, <2>2, <2>3, <2>4 DEF Next
  <1> QED
    BY <1>1, HealthInvHolds, PTL DEF Spec, ImplementsLaunch
=============================================================================
