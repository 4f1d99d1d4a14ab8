----------------------------- MODULE HealthWait -----------------------------
(***************************************************************************)
(* One launch from the moment systemctl start has returned: the session    *)
(* marker, the wait for the health endpoint and what _launch_backend does  *)
(* with each of its outcomes, against a unit that systemd restarts by      *)
(* itself (Restart=on-failure) while the launch looks at it.               *)
(*                                                                         *)
(* The lock is held throughout, so there is a single launch here; module   *)
(* GpuSession, which this one implements, has the other terminals.         *)
(***************************************************************************)
EXTENDS SessionMarkers, Naturals

CONSTANTS User,             \* who launches
          Counted,          \* the backend has restart_count (vLLM has, llama.cpp has not)
          Iterations,       \* polls of the endpoint (100 in the code)
          Grace,            \* polls before a stopped unit counts (3 in the code)
          MaxRestarts,      \* bound: automatic restarts considered
          Launcher, NoProc, Srv, NoBackend

ASSUME HealthAssumption ==
    /\ User \in Users
    /\ Counted \in BOOLEAN
    /\ Iterations \in Nat \ {0} /\ Grace \in Nat /\ MaxRestarts \in Nat
    /\ NoProc # Launcher /\ NoBackend # Srv

VARIABLES
    unit,       \* "down", "starting", "loading" (active, not yet answering),
                \* "serving", "restarting" (waiting for its restart), "stopping"
    nrestarts,  \* NRestarts of the unit
    bounced,    \* died, or counted as restarted, since the baseline (history)
    markers,    \* the session markers
    pc,         \* where the launch is
    polls,      \* polls of the endpoint so far
    base,       \* baseline_restarts: {n}, or {} when it could not be read
    manifest,   \* status in the active manifest
    outcome,    \* how the command ended
    reliable    \* systemctl and the endpoint answer whenever they can; never changes

systemd == <<unit, nrestarts, bounced, reliable>>
launch  == <<markers, pc, polls, base, manifest, outcome>>
vars    == <<systemd, launch>>

UnitStates == {"down", "starting", "loading", "serving", "restarting", "stopping"}
Waiting  == {"health", "running", "count", "recheck", "recount"}
GivingUp == {"giveup", "halt", "halting", "record"}
Outcomes == {"ready", "warming", "unwatched", "failed", "unconfirmed", "killed"}

TypeOK ==
    /\ unit \in UnitStates
    /\ nrestarts \in 0..MaxRestarts
    /\ bounced \in BOOLEAN
    /\ markers \in MarkerStores
    /\ pc \in {"mark", "done"} \cup Waiting \cup GivingUp
    /\ polls \in 0..Iterations
    /\ base \in SUBSET (0..MaxRestarts)
    /\ manifest \in {"starting", "ready", "warming", "failed"}
    /\ outcome \in Outcomes \cup {"none"}
    /\ reliable \in BOOLEAN

\* start has returned; the unit may have died and been restarted already.
Init ==
    /\ unit \in {"starting", "loading", "restarting", "down"}
    /\ nrestarts \in 0..MaxRestarts
    /\ bounced = FALSE
    /\ \E u \in Users : markers \in {NoMarkers, WriteMarker(NoMarkers, u, FALSE)}
    /\ pc = "mark"
    /\ polls = 0
    /\ base = {}
    /\ manifest = "starting"
    /\ outcome = "none"
    /\ reliable \in BOOLEAN

-----------------------------------------------------------------------------
(* What the launch can learn of the unit.                                  *)

Unavailable(S) == IF reliable THEN {} ELSE S

\* _restart_count: None if the backend has no counter or systemctl show fails.
Readings == IF Counted THEN {{nrestarts}} \cup Unavailable({{}}) ELSE {{}}

\* Mutant: only a second restart counts.
ClimbedTwice(rc) == \E n \in rc, b \in base : n > b + 1
Climbed(rc) == \E n \in rc, b \in base : n > b

Active == unit \in {"loading", "serving"}

\* Mutant: a unit whose state is unknown is taken for a stopped one.
StatesGuessed == IF Active THEN {"running"} ELSE {"stopped"}

\* _service_running_state: True, False, or None for a unit in transition and for
\* a call that fails.
States == CASE Active        -> {"running"} \cup Unavailable({"unknown"})
            [] unit = "down" -> {"stopped"} \cup Unavailable({"unknown"})
            [] OTHER         -> {"unknown"}

\* GET on the health endpoint, 2 s.
Healthy == IF unit = "serving" THEN {TRUE} \cup Unavailable({FALSE}) ELSE {FALSE}

-----------------------------------------------------------------------------
(* The launch.                                                             *)

Goto(stage) == pc' = stage /\ UNCHANGED <<markers, polls, base, manifest, outcome>>

\* The command returns or exits with outcome o; the manifest is written with
\* status s if it can be.
Return(s, o) ==
    /\ pc' = "done"
    /\ outcome' = o
    /\ manifest' \in {s, manifest}
    /\ UNCHANGED <<markers, polls, base>>

\* write_session, then the baseline.
MarkSession ==
    /\ pc = "mark"
    /\ markers' = WriteMarker(markers, User, FALSE)
    /\ base' \in Readings
    /\ bounced' = FALSE
    /\ pc' = "health"
    /\ UNCHANGED <<unit, nrestarts, reliable, polls, manifest, outcome>>

Ready ==
    /\ pc = "health"
    /\ TRUE \in Healthy
    /\ Return("ready", "ready")
    /\ UNCHANGED systemd

\* No answer: after the first polls the unit is looked at, then its counter.
NotReady ==
    /\ pc = "health"
    /\ FALSE \in Healthy
    /\ polls' = polls + 1
    /\ pc' = IF polls' > Grace THEN "running" ELSE "count"
    /\ UNCHANGED <<systemd, markers, base, manifest, outcome>>

LookAtUnit ==
    /\ pc = "running"
    /\ \E s \in States : Goto(IF s = "stopped" THEN "giveup" ELSE "count")
    /\ UNCHANGED systemd

\* Mutant: the loop does not end.
LookAtCounterForever ==
    /\ pc = "count"
    /\ \E rc \in Readings :
          /\ pc' = IF Climbed(rc) THEN "giveup" ELSE "health"
          /\ polls' = IF polls < Iterations THEN polls ELSE 0
    /\ UNCHANGED <<systemd, markers, base, manifest, outcome>>

LookAtCounter ==
    /\ pc = "count"
    /\ \E rc \in Readings :
          \/ Climbed(rc) /\ Goto("giveup")
          \/ ~Climbed(rc) /\ Goto(IF polls < Iterations THEN "health" ELSE "recheck")
    /\ UNCHANGED systemd

\* The time is up: the unit decides.
Recheck ==
    /\ pc = "recheck"
    /\ \E s \in States :
          CASE s = "stopped" -> Goto("giveup")
            [] s = "running" -> Goto("recount")
            [] OTHER         -> Return("failed", "unconfirmed")
    /\ UNCHANGED systemd

\* An active unit is warming up unless it was restarted meanwhile.  With --yes or
\* without a terminal the command exits with an error, and leaves the unit alone.
Recount ==
    /\ pc = "recount"
    /\ \E rc \in Readings :
          IF Climbed(rc) THEN Goto("giveup")
          ELSE \E o \in {"warming", "unwatched"} : Return("warming", o)
    /\ UNCHANGED systemd

\* Mutant: the marker is forgotten.
GiveUpMarked ==
    /\ pc = "giveup"
    /\ Goto("halt")
    /\ UNCHANGED systemd

\* clear_session, then _halt_unit.
GiveUp ==
    /\ pc = "giveup"
    /\ markers' = RemoveMarkers(markers, {User})
    /\ pc' = "halt"
    /\ UNCHANGED <<systemd, polls, base, manifest, outcome>>

IssueStop ==
    /\ pc = "halt"
    /\ unit' = IF unit = "down" THEN unit ELSE "stopping"
    /\ Goto("halting")
    /\ UNCHANGED <<nrestarts, bounced, reliable>>

StopReturns ==
    /\ pc = "halting"
    /\ unit # "stopping"
    /\ Goto("record")
    /\ UNCHANGED systemd

\* Refused, failed or timed out: ignored.
StopFails ==
    /\ pc \in {"halt", "halting"} /\ ~reliable
    /\ Goto("record")
    /\ UNCHANGED systemd

RecordFailure ==
    /\ pc = "record"
    /\ Return("failed", "failed")
    /\ UNCHANGED systemd

Kill ==
    /\ pc # "done"
    /\ pc' = "done" /\ outcome' = "killed"
    /\ UNCHANGED <<systemd, markers, polls, base, manifest>>

-----------------------------------------------------------------------------
(* The unit.                                                               *)

UnitComesUp ==
    /\ unit = "starting"
    /\ unit' = "loading"
    /\ UNCHANGED <<nrestarts, bounced, reliable, launch>>

EngineServes ==
    /\ unit = "loading"
    /\ unit' = "serving"
    /\ UNCHANGED <<nrestarts, bounced, reliable, launch>>

EngineDies ==
    /\ unit \in {"starting", "loading", "serving"}
    /\ unit' = "restarting"
    /\ bounced' = TRUE
    /\ UNCHANGED <<nrestarts, reliable, launch>>

\* RestartSec is over: the restart is counted and the unit starts again.
AutoRestart ==
    /\ unit = "restarting" /\ nrestarts < MaxRestarts
    /\ unit' = "starting"
    /\ nrestarts' = nrestarts + 1
    /\ bounced' = TRUE
    /\ UNCHANGED <<reliable, launch>>

\* A stop completes, the start limit is hit, or the engine exits for good.
UnitGoesDown ==
    /\ unit # "down"
    /\ unit' = "down"
    /\ bounced' = FALSE
    /\ UNCHANGED <<nrestarts, reliable, launch>>

-----------------------------------------------------------------------------
Step == \/ MarkSession \/ Ready \/ NotReady \/ LookAtUnit \/ LookAtCounter \/ Recheck
        \/ Recount \/ GiveUp \/ IssueStop \/ StopReturns \/ StopFails \/ RecordFailure
UnitStep == UnitComesUp \/ EngineServes \/ EngineDies \/ AutoRestart \/ UnitGoesDown

Next == Step \/ Kill \/ UnitStep

Spec == Init /\ [][Next]_vars

\* The launch keeps running (its calls have timeouts), and a unit that is told to
\* stop does (systemd kills it after TimeoutStopSec).
Fairness == WF_vars(Step) /\ WF_vars(unit = "stopping" /\ UnitGoesDown)
FairSpec == Spec /\ Fairness

-----------------------------------------------------------------------------
(* Properties.                                                             *)

\* A start that is merely slow is never given up: whatever fails to answer, the
\* launch stops its unit only when the engine died or was restarted.
SlowStartIsKept == pc \in GivingUp => bounced \/ unit = "down"

\* While systemctl answers, a restart that is counted during the wait is not
\* mistaken for a warm-up: the launch ends with the engine ready, or halts the unit.
CrashLoopCaught ==
    (reliable /\ pc = "health" /\ \E b \in base : nrestarts > b)
        ~> outcome \in {"ready", "failed", "killed"} /\ manifest # "warming"

\* However the unit behaves, the launch returns (and with it the lock).
LaunchReturns == <>(pc = "done")

\* RELEASE_NOTES, 376: "Every non-ready exit path now best-effort stops the unit,
\* so a failed launch can no longer keep auto-restarting after the command returns".
NoRestartAfterFailure ==
    [][AutoRestart => outcome \notin {"failed", "unconfirmed"} \/ ~reliable]_vars

\* The launch as GpuSession has it: one terminal, in `vserve run`, with its lock.
Running  == pc # "done"
GpuUnit  == IF unit \in {"starting", "restarting"} THEN "starting"
            ELSE IF unit \in {"loading", "serving"} THEN "up" ELSE unit
GpuStage == IF pc \in Waiting THEN "health"
            ELSE IF pc \in {"halt", "halting", "record"} THEN "halt"
            ELSE IF Running THEN pc ELSE "idle"
Mine(v)  == [p \in {Launcher} |-> v]
Its(v)   == [b \in {Srv} |-> v]

Gpu == INSTANCE GpuSession WITH
    Procs <- {Launcher}, UserOf <- Mine(User), Privileged <- {},
    Backends <- {Srv}, Vllm <- Srv, Commands <- {"run"}, ExternalUnits <- {},
    MaxPolls <- 1,
    unit     <- Its(GpuUnit),
    restarts <- IF bounced THEN {Srv} ELSE {},
    owner    <- Its(IF unit = "down" THEN NoUser ELSE User),
    lock     <- IF Running THEN Launcher ELSE NoProc,
    pc       <- Mine(GpuStage),
    job      <- Mine(IF Running THEN "run" ELSE "none"),
    target   <- Mine(IF Running THEN Srv ELSE NoBackend),
    todo     <- Mine(IF pc = "halt" THEN {Srv} ELSE {}),
    busy     <- Mine(IF pc = "halting" THEN Srv ELSE NoBackend),
    up       <- Mine({}), unsure <- Mine(FALSE), cands <- Mine({}), polls <- Mine(0)

\* Every step of the detailed wait is a step of GpuSession: in particular it gives
\* up only where HealthFails may, clears the marker then, and stops only its unit.
ImplementsLaunch == [][Gpu!Next]_(Gpu!vars)
=============================================================================
