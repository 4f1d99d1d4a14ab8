----------------------------- MODULE GpuSession -----------------------------
(***************************************************************************)
(* How the vserve commands of several users share one GPU: the "gpu" file  *)
(* lock, the advisory session markers and the systemd units of the         *)
(* inference backends, driven by `vserve run`, `vserve stop`, the          *)
(* benchmarks of `vserve tune --bench` and the pre-cache of `vserve tune`. *)
(*                                                                         *)
(* Every process is a terminal that runs one command after the other.  A   *)
(* step is one system call that other terminals can see (a probe of one    *)
(* unit, a marker read, write or unlink, taking or releasing the lock, a   *)
(* systemctl call being issued, its return), so that commands interleave   *)
(* wherever the program can be preempted.                                  *)
(***************************************************************************)
EXTENDS SessionMarkers, Naturals

CONSTANTS Procs,           \* terminals
          UserOf,          \* the user ($USER) of each terminal
          Privileged,      \* users who may unlink another user's marker (root)
          Backends,        \* _BACKENDS
          Vllm,            \* the only backend with restart_count and a pre-cache
          Commands,        \* the commands the terminals use
          ExternalUnits,   \* units somebody may start without vserve
          MaxPolls,        \* polls for the old backends to stop (15 in the code)
          NoProc, NoBackend

ASSUME GpuAssumption ==
    /\ UserOf \in [Procs -> Users]
    /\ Privileged \subseteq Users
    /\ Vllm \in Backends /\ ExternalUnits \subseteq Backends
    /\ Commands \subseteq {"run", "stop", "bench", "precache"}
    /\ MaxPolls \in Nat \ {0}
    /\ NoProc \notin Procs /\ NoBackend \notin Backends

VARIABLES
    unit,      \* unit[b]: "down" (inactive or failed), "starting" (activating or
               \* waiting for an automatic restart), "up" (active), "stopping"
    restarts,  \* units systemd has restarted since their launcher's baseline
    owner,     \* owner[b]: the user whose command started what runs in b
    lock,      \* who has the flock on vserve-gpu.lock
    markers,   \* the session marker files
    pc, job,   \* where terminal p is, and in which command
    target,    \* the backend p's command is about
    todo,      \* backends p has still to probe, or to stop
    up,        \* backends p's last probe saw running
    unsure,    \* probe_failed of that probe
    cands,     \* stop_candidates
    busy,      \* the unit p's systemctl call is working on
    polls      \* polls left in the wait for the old backends

system == <<unit, restarts, owner>>
shared == <<unit, restarts, owner, lock, markers>>
locals == <<pc, job, target, todo, up, unsure, cands, busy, polls>>
vars   == <<shared, locals>>

UnitStates == {"down", "starting", "up", "stopping"}
Stages == {"idle", "precheck", "presweep", "orphan", "claim", "survey", "forget",
           "inspect", "ready", "check", "sweep", "confirm", "stopping", "settle",
           "start", "mark", "health", "giveup", "halt", "verify", "stopped",
           "warmup", "cleanup"}

TypeOK ==
    /\ unit \in [Backends -> UnitStates]
    /\ restarts \in SUBSET Backends
    /\ owner \in [Backends -> Users \cup {NoUser}]
    /\ lock \in Procs \cup {NoProc}
    /\ markers \in MarkerStores
    /\ pc \in [Procs -> Stages]
    /\ job \in [Procs -> Commands \cup {"none"}]
    /\ target \in [Procs -> Backends \cup {NoBackend}]
    /\ todo \in [Procs -> SUBSET Backends]
    /\ up \in [Procs -> SUBSET Backends]
    /\ unsure \in [Procs -> BOOLEAN]
    /\ cands \in [Procs -> SUBSET Backends]
    /\ busy \in [Procs -> Backends \cup {NoBackend}]
    /\ polls \in [Procs -> 0..MaxPolls]

Init ==
    /\ unit = [b \in Backends |-> "down"]
    /\ restarts = {}
    /\ owner = [b \in Backends |-> NoUser]
    /\ lock = NoProc
    /\ markers = NoMarkers
    /\ pc = [p \in Procs |-> "idle"]
    /\ job = [p \in Procs |-> "none"]
    /\ target = [p \in Procs |-> NoBackend]
    /\ todo = [p \in Procs |-> {}]
    /\ up = [p \in Procs |-> {}]
    /\ unsure = [p \in Procs |-> FALSE]
    /\ cands = [p \in Procs |-> {}]
    /\ busy = [p \in Procs |-> NoBackend]
    /\ polls = [p \in Procs |-> 0]

-----------------------------------------------------------------------------
(* How a step leaves the local state of its terminal.                      *)

\* The process ends (or dies): the kernel drops its lock and its locals.
Exit(p) ==
    /\ lock' = IF lock = p THEN NoProc ELSE lock
    /\ pc' = [pc EXCEPT ![p] = "idle"]
    /\ job' = [job EXCEPT ![p] = "none"]
    /\ target' = [target EXCEPT ![p] = NoBackend]
    /\ todo' = [todo EXCEPT ![p] = {}]
    /\ up' = [up EXCEPT ![p] = {}]
    /\ unsure' = [unsure EXCEPT ![p] = FALSE]
    /\ cands' = [cands EXCEPT ![p] = {}]
    /\ busy' = [busy EXCEPT ![p] = NoBackend]
    /\ polls' = [polls EXCEPT ![p] = 0]

\* The command goes on at stage s with the backends B to visit; what it
\* learned from its probes is used up.
Continue(p, s, B) ==
    /\ pc' = [pc EXCEPT ![p] = s]
    /\ todo' = [todo EXCEPT ![p] = B]
    /\ up' = [up EXCEPT ![p] = {}]
    /\ unsure' = [unsure EXCEPT ![p] = FALSE]
    /\ busy' = [busy EXCEPT ![p] = NoBackend]
    /\ UNCHANGED <<job, target>>

Goto(p, s, B) == Continue(p, s, B) /\ UNCHANGED <<cands, polls>>

\* _launch_backend returns or raises, releasing the lock in its `finally`:
\* `vserve run` ends; a benchmark goes to the `finally` of its candidate,
\* which stops the backend because started_here was set before the launch.
EndLaunch(p) ==
    IF job[p] = "bench"
    THEN /\ lock' = IF lock = p THEN NoProc ELSE lock
         /\ Goto(p, "cleanup", {target[p]})
    ELSE Exit(p)

At(p, S) == pc[p] \in S
Probed(p) == todo[p] = {}
\* Mutant: probe_failed is not looked at.
ClearIgnoringErrors(p) == up[p] = {}
Clear(p) == up[p] = {} /\ ~unsure[p]     \* no unit running, every probe answered
Me(p) == UserOf[p]

-----------------------------------------------------------------------------
(* A command begins.                                                       *)

\* run and stop check the session first, a benchmark looks at its backend; the
\* pre-cache goes for the lock.
FirstStage(c) == CASE c = "bench"    -> "inspect"
                   [] c = "precache" -> "ready"
                   [] OTHER          -> "precheck"
FirstProbes(c, b) == CASE c = "bench"    -> {b}
                       [] c = "precache" -> {}
                       [] OTHER          -> Backends

Invoke(p) ==
    /\ At(p, {"idle"})
    /\ \E c \in Commands, b \in Backends :
          /\ c = "precache" => b = Vllm
          /\ job' = [job EXCEPT ![p] = c]
          /\ target' = [target EXCEPT ![p] = IF c = "stop" THEN NoBackend ELSE b]
          /\ pc' = [pc EXCEPT ![p] = FirstStage(c)]
          /\ todo' = [todo EXCEPT ![p] = FirstProbes(c, b)]
    /\ UNCHANGED <<shared, up, unsure, cands, busy, polls>>

(* probe_running_backends: the units one after the other.  is_running says *)
(* True for an active unit, False for an inactive or failed one and raises *)
(* for a unit in transition; systemctl itself may fail or time out.        *)

Probing == {"precheck", "survey", "inspect", "check", "settle", "verify"}

\* Mutant: a unit in transition is taken for a stopped one.
AnswersIgnoringTransition(b) ==
    {"error"} \cup (IF unit[b] = "up" THEN {"running"} ELSE {"stopped"})

Answers(b) ==
    {"error"} \cup (IF unit[b] = "up"   THEN {"running"} ELSE {})
             \cup (IF unit[b] = "down" THEN {"stopped"} ELSE {})

Probe(p) ==
    /\ At(p, Probing)
    /\ \E b \in todo[p] : \E a \in Answers(b) :
          /\ todo' = [todo EXCEPT ![p] = @ \ {b}]
          /\ up' = [up EXCEPT ![p] = IF a = "running" THEN @ \cup {b} ELSE @]
          /\ unsure' = [unsure EXCEPT ![p] = @ \/ a = "error"]
    /\ UNCHANGED <<shared, pc, job, target, cands, busy, polls>>

-----------------------------------------------------------------------------
(* check_session and _session_or_exit, before the lock (stage "precheck")  *)
(* and again under it (stage "check").  Everything but `vserve stop` asks  *)
(* for a strict check and refuses an unknown owner.                        *)

Strict(p) == job[p] # "stop"

SessionFree(p) ==
    LET h == Holder(markers) IN
    IF up[p] = {} THEN unsure[p] /\ (Strict(p) => h \in {NoUser, Me(p)})
                  ELSE h = Me(p) \/ (h = NoUser /\ ~Strict(p))

Refused(p) == ~Clear(p) /\ ~SessionFree(p)

\* Where a passed check leads: `run` to its configuration wizard, `stop` to the
\* orphan claim; then, under the lock, to the next part of the command.
AfterCheck(p) ==
    IF pc[p] \in {"precheck", "presweep"}
    THEN IF job[p] = "run" THEN Goto(p, "ready", {}) ELSE Goto(p, "orphan", {})
    ELSE CASE job[p] = "stop"     -> Goto(p, "stopping", cands[p])
           [] job[p] = "precache" -> Goto(p, "inspect", {target[p]})
           [] OTHER               -> Goto(p, "survey", Backends)

CheckPasses(p) ==
    /\ At(p, {"precheck", "check"}) /\ Probed(p)
    /\ SessionFree(p)
    /\ AfterCheck(p)
    /\ UNCHANGED shared

\* No unit runs: check_session has read the marker and goes on to unlink them all.
CheckFindsStale(p) ==
    /\ At(p, {"precheck", "check"}) /\ Probed(p)
    /\ Clear(p)
    /\ Goto(p, IF pc[p] = "precheck" THEN "presweep" ELSE "sweep", {})
    /\ UNCHANGED shared

\* _clear_all_session_markers: the directory is sticky, so an ordinary user
\* removes no file but his own.
SweepMarkers(p) ==
    /\ At(p, {"presweep", "sweep"})
    /\ markers' = RemoveMarkers(markers, IF Me(p) \in Privileged THEN Users ELSE {Me(p)})
    /\ AfterCheck(p)
    /\ UNCHANGED <<system, lock>>

CheckRefuses(p) ==
    /\ At(p, {"precheck", "check"}) /\ Probed(p)
    /\ Refused(p)
    /\ EndLaunch(p)
    /\ UNCHANGED <<system, markers>>

\* Mutant: the session is not checked again once the lock is held.
TakeLockUnchecked(p) ==
    /\ At(p, {"ready"})
    /\ lock = NoProc
    /\ lock' = p
    /\ CASE job[p] = "stop"     -> Goto(p, "stopping", cands[p])
         [] job[p] = "precache" -> Goto(p, "inspect", {target[p]})
         [] OTHER               -> Goto(p, "survey", Backends)
    /\ UNCHANGED <<system, markers>>

\* Mutant: a lock held by somebody else is ignored.
TakeHeldLock(p) ==
    /\ At(p, {"ready"})
    /\ lock' = p
    /\ Goto(p, "check", Backends)
    /\ UNCHANGED <<system, markers>>

\* _lock_or_exit("gpu"): the flock is not waited for.
TakeLock(p) ==
    /\ At(p, {"ready"})
    /\ lock = NoProc
    /\ lock' = p
    /\ Goto(p, "check", Backends)
    /\ UNCHANGED <<system, markers>>

LockHeld(p) ==
    /\ At(p, {"ready"})
    /\ lock # NoProc
    /\ EndLaunch(p)
    /\ UNCHANGED <<system, markers>>

\* The user leaves the wizard.
Abandon(p) ==
    /\ At(p, {"ready"}) /\ job[p] = "run"
    /\ Exit(p)
    /\ UNCHANGED <<system, markers>>

-----------------------------------------------------------------------------
(* _launch_backend, for `vserve run` and for a benchmark candidate.        *)

\* The launch configuration cannot be read (before the session check).
ConfigUnreadable(p) ==
    /\ At(p, {"check"}) /\ job[p] \in {"run", "bench"} /\ todo[p] = Backends
    /\ EndLaunch(p)
    /\ UNCHANGED <<system, markers>>

SurveyClear(p) ==
    /\ At(p, {"survey"}) /\ job[p] \in {"run", "bench"} /\ Probed(p)
    /\ Clear(p)
    /\ Goto(p, "start", {})
    /\ UNCHANGED shared

\* Some backend runs: with --replace it is stopped, else the user is asked.
SurveyReplaces(p) ==
    /\ At(p, {"survey"}) /\ job[p] = "run" /\ Probed(p)
    /\ up[p] # {}
    /\ LET C == IF unsure[p] THEN Backends ELSE up[p] IN
          /\ \E s \in {"confirm", "stopping"} :
                Continue(p, s, IF s = "stopping" THEN C ELSE {})
          /\ cands' = [cands EXCEPT ![p] = C]
    /\ UNCHANGED <<shared, polls>>

\* Nothing seen running but a probe failed; or --yes without --replace, which is
\* how a benchmark always launches.
SurveyRefuses(p) ==
    /\ At(p, {"survey"}) /\ job[p] \in {"run", "bench"} /\ Probed(p)
    /\ ~Clear(p)
    /\ EndLaunch(p)
    /\ UNCHANGED <<system, markers>>

\* The prompt, answered while the lock is held.
Confirm(p) ==
    /\ At(p, {"confirm"})
    /\ \/ Goto(p, "stopping", cands[p]) /\ UNCHANGED lock
       \/ Exit(p)
    /\ UNCHANGED <<system, markers>>

-----------------------------------------------------------------------------
(* systemctl calls.  A stop is issued for one backend after the other.     *)

Stopping == {"stopping", "halt", "cleanup"}

IssueStop(p) ==
    /\ At(p, Stopping) /\ busy[p] = NoBackend
    /\ \E b \in todo[p] :
          /\ todo' = [todo EXCEPT ![p] = @ \ {b}]
          /\ busy' = [busy EXCEPT ![p] = b]
          /\ unit' = [unit EXCEPT ![b] = IF @ = "down" THEN @ ELSE "stopping"]
    /\ UNCHANGED <<restarts, owner, lock, markers, pc, job, target, up, unsure, cands, polls>>

StopReturns(p) ==
    /\ At(p, Stopping) /\ busy[p] # NoBackend
    /\ unit[busy[p]] # "stopping"
    /\ busy' = [busy EXCEPT ![p] = NoBackend]
    /\ UNCHANGED <<shared, pc, job, target, todo, up, unsure, cands, polls>>

\* The call is refused (sudo, unit check), fails or times out.  A launch gives up
\* at the first backend it cannot stop; everybody else goes on.
StopFails(p) ==
    /\ At(p, Stopping)
    /\ IF pc[p] = "stopping" /\ job[p] = "run"
       THEN (busy[p] # NoBackend \/ todo[p] # {}) /\ EndLaunch(p)
       ELSE /\ \/ /\ busy[p] # NoBackend
                  /\ busy' = [busy EXCEPT ![p] = NoBackend]
                  /\ UNCHANGED todo
               \/ /\ busy[p] = NoBackend
                  /\ \E b \in todo[p] : todo' = [todo EXCEPT ![p] = @ \ {b}]
                  /\ UNCHANGED busy
            /\ UNCHANGED <<lock, pc, job, target, up, unsure, cands, polls>>
    /\ UNCHANGED <<system, markers>>

StopsDone(p) == todo[p] = {} /\ busy[p] = NoBackend

\* The launch polls until the old backends are gone.
OldStopped(p) ==
    /\ At(p, {"stopping"}) /\ job[p] = "run" /\ StopsDone(p)
    /\ Continue(p, "settle", Backends)
    /\ polls' = [polls EXCEPT ![p] = MaxPolls - 1]
    /\ cands' = [cands EXCEPT ![p] = {}]
    /\ UNCHANGED shared

Settled(p) ==
    /\ At(p, {"settle"}) /\ Probed(p)
    /\ Clear(p)
    /\ Continue(p, "start", {})
    /\ polls' = [polls EXCEPT ![p] = 0]
    /\ UNCHANGED <<shared, cands>>

\* Mutant: the loop never ends.
PollForever(p) ==
    /\ At(p, {"settle"}) /\ Probed(p)
    /\ ~Clear(p)
    /\ Goto(p, "settle", Backends)
    /\ UNCHANGED shared

PollAgain(p) ==
    /\ At(p, {"settle"}) /\ Probed(p)
    /\ ~Clear(p) /\ polls[p] > 0
    /\ Continue(p, "settle", Backends)
    /\ polls' = [polls EXCEPT ![p] = @ - 1]
    /\ UNCHANGED <<shared, cands>>

SettleTimesOut(p) ==
    /\ At(p, {"settle"}) /\ Probed(p)
    /\ ~Clear(p) /\ polls[p] = 0
    /\ EndLaunch(p)
    /\ UNCHANGED <<system, markers>>

\* backend.start -> systemctl start.  Starting an active unit changes nothing.
IssueStart(p) ==
    /\ At(p, {"start"}) /\ busy[p] = NoBackend
    /\ busy' = [busy EXCEPT ![p] = target[p]]
    /\ IF unit[target[p]] = "up"
       THEN UNCHANGED <<unit, owner>>
       ELSE /\ unit' = [unit EXCEPT ![target[p]] = "starting"]
            /\ owner' = [owner EXCEPT ![target[p]] = Me(p)]
    /\ UNCHANGED <<restarts, lock, markers, pc, job, target, todo, up, unsure, cands, polls>>

StartReturns(p) ==
    /\ At(p, {"start"}) /\ busy[p] # NoBackend
    /\ unit[busy[p]] # "stopping"
    /\ Goto(p, "mark", {})
    /\ UNCHANGED shared

\* Refused, failed or timed out after 30 s; the unit may come up all the same.
\* No marker is written and nothing is stopped.
StartFails(p) ==
    /\ At(p, {"start"})
    /\ EndLaunch(p)
    /\ UNCHANGED <<system, markers>>

\* write_session(label), then the baseline of the restart counter.
MarkSession(p) ==
    /\ At(p, {"mark"})
    /\ markers' = WriteMarker(markers, Me(p), FALSE)
    /\ restarts' = restarts \ {target[p]}
    /\ Goto(p, IF job[p] = "precache" THEN "warmup" ELSE "health", {})
    /\ UNCHANGED <<unit, owner, lock>>

\* _wait_for_health is modelled in HealthWait; here only how the launch ends.
\* Ready, or still warming while the unit is active: the backend is left running.
HealthKeeps(p) ==
    /\ At(p, {"health"})
    /\ unit[target[p]] = "up"
    /\ EndLaunch(p)
    /\ UNCHANGED <<system, markers>>

\* The unit is down, or its restart counter moved.
HealthFails(p) ==
    /\ At(p, {"health"})
    /\ unit[target[p]] = "down" \/ (target[p] = Vllm /\ Vllm \in restarts)
    /\ Goto(p, "giveup", {})
    /\ UNCHANGED shared

\* The wait ends and the unit's state cannot be read: reported, nothing undone.
HealthUnconfirmed(p) ==
    /\ At(p, {"health"})
    /\ EndLaunch(p)
    /\ UNCHANGED <<system, markers>>

\* clear_session(), then _halt_unit().
GiveUp(p) ==
    /\ At(p, {"giveup"})
    /\ markers' = RemoveMarkers(markers, {Me(p)})
    /\ Goto(p, "halt", {target[p]})
    /\ UNCHANGED <<system, lock>>

Halted(p) ==
    /\ At(p, {"halt"}) /\ StopsDone(p)
    /\ EndLaunch(p)
    /\ UNCHANGED <<system, markers>>

-----------------------------------------------------------------------------
(* `vserve stop`.                                                          *)

ReadOrphan(p) ==
    /\ At(p, {"orphan"})
    /\ IF Holder(markers) = NoUser THEN Goto(p, "claim", {})
                                   ELSE Goto(p, "survey", Backends)
    /\ UNCHANGED shared

ClaimOrphan(p) ==
    /\ At(p, {"claim"})
    /\ markers' = WriteMarker(markers, Me(p), TRUE)
    /\ Goto(p, "survey", Backends)
    /\ UNCHANGED <<system, lock>>

StopSurveyed(p) ==
    /\ At(p, {"survey"}) /\ job[p] = "stop" /\ Probed(p)
    /\ IF Clear(p)
       THEN Continue(p, "forget", {}) /\ UNCHANGED cands
       ELSE /\ Continue(p, "ready", {})
            /\ cands' = [cands EXCEPT ![p] = IF unsure[p] THEN Backends ELSE up[p]]
    /\ UNCHANGED <<shared, polls>>

\* "No server is running": the user's marker is removed without the lock.
ForgetSession(p) ==
    /\ At(p, {"forget"})
    /\ markers' = RemoveMarkers(markers, {Me(p)})
    /\ Exit(p)
    /\ UNCHANGED system

AllStopped(p) ==
    /\ At(p, {"stopping"}) /\ job[p] = "stop" /\ StopsDone(p)
    /\ Continue(p, "verify", Backends)
    /\ cands' = [cands EXCEPT ![p] = {}]
    /\ UNCHANGED <<shared, polls>>

Verified(p) ==
    /\ At(p, {"verify"}) /\ Probed(p)
    /\ Clear(p)
    /\ Goto(p, "stopped", {})
    /\ UNCHANGED shared

VerifyFails(p) ==
    /\ At(p, {"verify"}) /\ Probed(p)
    /\ ~Clear(p)
    /\ Exit(p)
    /\ UNCHANGED <<system, markers>>

\* clear_session(), the message "Stopped" and the release of the lock.
ReportStopped(p) ==
    /\ At(p, {"stopped"})
    /\ markers' = RemoveMarkers(markers, {Me(p)})
    /\ Exit(p)
    /\ UNCHANGED system

-----------------------------------------------------------------------------
(* _run_tuning_benchmarks and the pre-cache of tune.  Both look at their   *)
(* own backend only: the benchmarks before they begin, the pre-cache under *)
(* the lock, after the session check.                                      *)

Inspected(p) ==
    /\ At(p, {"inspect"}) /\ Probed(p)
    /\ IF Clear(p)
       THEN Goto(p, IF job[p] = "bench" THEN "ready" ELSE "start", {}) /\ UNCHANGED lock
       ELSE Exit(p)
    /\ UNCHANGED <<system, markers>>

\* The pre-cache polls for health until it succeeds, fails or gives up; its
\* `finally` stops the backend in every case.
WarmupEnds(p) ==
    /\ At(p, {"warmup"})
    /\ Goto(p, "cleanup", {target[p]})
    /\ UNCHANGED shared

\* The `finally` of both: after the stop (a benchmark then waits for it, in vain or
\* not) clear_session().  A benchmark may have another candidate.
CleanUp(p) ==
    /\ At(p, {"cleanup"}) /\ StopsDone(p)
    /\ markers' = RemoveMarkers(markers, {Me(p)})
    /\ \/ job[p] = "bench" /\ Goto(p, "ready", {}) /\ UNCHANGED lock
       \/ Exit(p)
    /\ UNCHANGED system

-----------------------------------------------------------------------------
(* What happens around the commands.                                       *)

\* A terminal is closed or its process killed: no `finally` runs.
Kill(p) ==
    /\ pc[p] # "idle"
    /\ Exit(p)
    /\ UNCHANGED <<system, markers>>

UnitComesUp(b) ==
    /\ unit[b] = "starting"
    /\ unit' = [unit EXCEPT ![b] = "up"]
    /\ UNCHANGED <<restarts, owner, lock, markers, locals>>

\* A crash, and systemd restarts the unit (Restart=on-failure).
UnitRestarts(b) ==
    /\ unit[b] \in {"starting", "up"}
    /\ unit' = [unit EXCEPT ![b] = "starting"]
    /\ restarts' = restarts \cup {b}
    /\ UNCHANGED <<owner, lock, markers, locals>>

\* A stop completes, or the unit exits and stays down.
UnitGoesDown(b) ==
    /\ unit[b] # "down"
    /\ unit' = [unit EXCEPT ![b] = "down"]
    /\ owner' = [owner EXCEPT ![b] = NoUser]
    /\ restarts' = restarts \ {b}
    /\ UNCHANGED <<lock, markers, locals>>

\* Somebody starts a unit with systemctl, or the machine boots with it enabled.
StartedElsewhere(b) ==
    /\ b \in ExternalUnits /\ unit[b] = "down"
    /\ unit' = [unit EXCEPT ![b] = "starting"]
    /\ UNCHANGED <<restarts, owner, lock, markers, locals>>

-----------------------------------------------------------------------------
SessionSteps(p) == Probe(p) \/ CheckPasses(p) \/ CheckFindsStale(p) \/ SweepMarkers(p)
                   \/ CheckRefuses(p)
LaunchSteps(p)  == ConfigUnreadable(p) \/ SurveyClear(p) \/ SurveyReplaces(p)
                   \/ SurveyRefuses(p) \/ OldStopped(p) \/ Settled(p) \/ PollAgain(p)
                   \/ SettleTimesOut(p) \/ IssueStart(p) \/ StartReturns(p) \/ StartFails(p)
                   \/ MarkSession(p) \/ HealthKeeps(p) \/ HealthFails(p)
                   \/ HealthUnconfirmed(p) \/ GiveUp(p) \/ Halted(p)
StopSteps(p)    == ReadOrphan(p) \/ ClaimOrphan(p) \/ StopSurveyed(p) \/ ForgetSession(p)
                   \/ AllStopped(p) \/ Verified(p) \/ VerifyFails(p) \/ ReportStopped(p)
TuneSteps(p)    == Inspected(p) \/ WarmupEnds(p) \/ CleanUp(p)
SystemctlSteps(p) == IssueStop(p) \/ StopReturns(p) \/ StopFails(p)

\* The steps a command takes by itself.
Advance(p) == SessionSteps(p) \/ LaunchSteps(p) \/ StopSteps(p) \/ TuneSteps(p)
              \/ SystemctlSteps(p)
\* The steps that wait for the user.
Prompted(p) == TakeLock(p) \/ LockHeld(p) \/ Abandon(p) \/ Confirm(p)

UnitSteps(b) == UnitComesUp(b) \/ UnitRestarts(b) \/ UnitGoesDown(b) \/ StartedElsewhere(b)

Next == \/ \E p \in Procs : Invoke(p) \/ Advance(p) \/ Prompted(p) \/ Kill(p)
        \/ \E b \in Backends : UnitSteps(b)

Spec == Init /\ [][Next]_vars

\* A running process keeps executing, and the users answer the prompts.
Fairness == \A p \in Procs : WF_vars(Advance(p)) /\ WF_vars(Prompted(p))
FairSpec == Spec /\ Fairness

-----------------------------------------------------------------------------
(* Properties.                                                             *)

\* An engine is on the GPU from the moment its unit leaves "down".
OnGpu(b) == unit[b] # "down"

\* The user u launched what runs in b, has the newest marker, and wrote it when
\* launching: the active session of the GPU is u's.
ActiveSession(b, u) ==
    OnGpu(b) /\ owner[b] = u /\ Holder(markers) = u /\ u \notin markers.claims

\* p's step takes an engine off the GPU that a user other than p's has in session.
DisruptsForeign(p) ==
    \E b \in Backends : /\ unit[b] \in {"starting", "up"} /\ unit'[b] = "stopping"
                        /\ \E u \in Users \ {Me(p)} : ActiveSession(b, u)

\* Two engines never share the GPU: _launch_backend probes every backend under the
\* lock, waits until all of them are down and takes a unit in transition for
\* "unknown", not for "stopped".  (Pre-caching and units started without vserve
\* are outside this promise; the runs that check it leave them out.)
OneBackend == \A b, c \in Backends : OnGpu(b) /\ OnGpu(c) => b = c

\* `vserve stop` reports success only when no engine is left: what its
\* confirming probe saw cannot have been undone by a launch meanwhile.
StopReportsTruth == \A p \in Procs : pc[p] = "stopped" => \A b \in Backends : ~OnGpu(b)

\* From the start to the end of a launch the engine in its unit is its own: the
\* health answer it takes for success, and the unit it halts on failure, are not
\* somebody else's.
LaunchOwnsTarget ==
    \A p \in Procs : pc[p] \in {"mark", "health", "giveup", "halt", "warmup"}
                       /\ OnGpu(target[p])
                     => owner[target[p]] = Me(p)

\* However the checks interleave with other launches, `vserve run` never stops an
\* engine while another user holds the active session with it: the session check
\* is repeated under the lock.  (Not so for a user at two terminals: her other one
\* may remove, without the lock, the claim that this one's check rested on.)
RunRespectsSession ==
    [][\A p \in Procs : job[p] = "run" /\ IssueStop(p) => ~DisruptsForeign(p)]_vars

\* The docstring of _session_or_exit, "Block if another user owns the active GPU
\* session", for the command it guards before it stops anything: a benchmark.
BenchRespectsSession ==
    [][\A p \in Procs : job[p] = "bench" /\ IssueStop(p) => ~DisruptsForeign(p)]_vars

\* "Don't overwrite it" (test_stop_does_not_claim_when_session_already_exists):
\* stop claims a session only where there is no marker of an active session.
ClaimsOnlyOrphans ==
    [][\A p \in Procs : ClaimOrphan(p) =>
          ~\E b \in Backends, u \in Users \ {Me(p)} : ActiveSession(b, u)]_vars

\* The stale markers that the check removes while it holds the lock are stale: the
\* probe that found no engine still holds when the files go.
LockedSweepIsStale ==
    \A p \in Procs : pc[p] = "sweep" => \A b \in Backends : ~OnGpu(b)

\* Whatever fails, whichever prompt is declined, no command keeps the lock: every
\* path out of a launch, a stop and a pre-cache releases it.
LockComesBack == \A p \in Procs : lock = p ~> lock # p
=============================================================================
