# Formal models of vserve

vserve manages LLM inference servers (vLLM, llama.cpp) on a GPU that several
users share: it tunes and benchmarks models, starts and stops systemd units,
controls the GPU's fan, downloads models and keeps the vLLM runtime up to date.
This directory holds TLA+ models of the parts whose correctness depends on the
order of events, the TLC instances that check them, and proofs (TLAPS) of the
main results for every value of the constants. Paths such as `cli.py` are below
`src/src/vserve/`.

## Inventory

| Component | State | Operations | What is hard |
|---|---|---|---|
| GPU arbitration (`lock.py`, `serve.py`, `backends/__init__.py`, `systemd_helpers.py`, `cli.py`: `run`, `stop`, `tune`) | the flock on `vserve-gpu.lock`, the marker files `session-<user>.json`, the systemd units | probe units, check the session, take the lock, start, stop, write and clear the marker | interleaving of users between every probe and the step that relies on it; a start that times out and succeeds later; units in transition; failing systemctl; killed commands |
| Health wait (`cli.py`: `_wait_for_health`, `_launch_backend`) | polls, restart baseline, manifest, marker | poll, look at the unit, look at its restart counter, give up, halt | telling a slow engine from a crash loop while systemd restarts it and any probe may fail |
| Start of a unit (`serve.py`, `backends/*.py`, `config.py`) | links to the active profile, environment file, manifest | snapshot, write, start, restore | failure, kill or timeout between two writes; a unit that restarts reads them again |
| Fan (`fan.py`, `cli.py`: `fan`) | temperature history, current speed, failures; PID and state files, the "fan" lock, the fans' control mode | control cycle; start, stop, clean up the daemon | partial failure of a fan, rate limit against emergency, files of a daemon that crashed, two commands at once |
| Lock files (`lock.py`) | flock, metadata | acquire, release, wait_for_release | metadata is not atomic with the flock; waiting acquires the lock |
| Runtime cache and upgrade (`runtime.py`, `cli.py`: `runtime`) | cache file keyed by modification times, the environment | probe, store, invalidate, upgrade | stale entry under a new key, shared temporary file, other locks than the GPU's |
| Download (`downloader.py`, `variants.py`, `cli.py`) | files on disk, a lock per model | select variant, download, wait for another download | waiting two hours for somebody else's result; interrupted downloads |
| Benchmark and sweep (`bench.py`, `sweep.py`, `perf_cache.py`) | active profile, results | launch variants, measure, rank, restore | restoring after any failure; launches by others between its own; results that are missing |
| Tuning and profiles (`probe.py`, `picker.py`, `backends/*`, `recipes/*`, `config.py`, `cli.py`: `tune`, `run`, `add`) | the limits file, the saved utilization | compute a table, remember it, choose from it, write a profile | a remembered table and what changed since; boundaries, rounding, missing data; choices made on a version that was read earlier |
| Diagnosis, doctor, presentation (`diagnostics.py`, `cli_doctor.py`, `host_health.py`, the menus) | none | read and print | nothing concurrent |

The components meet at the systemd units and at the files in the lock directory:
`run`, `stop` and `tune` read and write the same units and markers from processes
of different users; the only mutual exclusion is the flock, and `stop` does part
of its work before it takes it, `tune` checks only one unit, a benchmark cleans up after
releasing it. The fan daemon, downloads and upgrades use locks of their own.

What each component must guarantee:

* arbitration: one engine on the GPU; a session is not disrupted by another
  user's command that checked it; `stop` reports success only if it is true; the lock
  comes back;
* health wait: a slow start is not killed, a crash loop is not left to spin,
  the launch returns;
* start of a unit: links, flags and manifest are those of what runs, also when systemd
  restarts it;
* fan: the emergency speed is reached, no oscillation, automatic control comes back
  when no daemon runs;
* runtime cache: a hit is what a measurement would give; upgrades and clean-ups do not
  work under a running engine;
* download: what is declared complete is complete; somebody fetches it in the end;
* sweep: the profile that was active comes back, and what is recommended was measured;
* tuning and profiles: a table is used only for the inputs it was made from, and what
  is chosen from it fits the memory, the attention backend and the runtime.

## Modules

| Module | Models |
|---|---|
| `SessionMarkers` | the marker files as one value: who has one, in which order they were written, which are claims of `stop` (`lock.py` 260-435) |
| `GpuSession` | `run`, `stop`, the benchmarks and the pre-cache of `tune`, any number of users, terminals and backends, over the lock, the markers and the units |
| `HealthWait` | one launch after `systemctl start`: marker, baseline, `_wait_for_health`, its outcomes; refines `GpuSession` |
| `ActiveConfig` | what a launch leaves for systemd: links, environment file, manifest; a launch step by step, and the unit that reads them |
| `Sweep` | `vserve tune --sweep spec` among other launches; extends `ActiveConfig` |
| `VllmLimits` | vLLM's capacity table (`probe.py`) and the choices made from it (`picker.py`), as operators |
| `SpecRecipe` | the choice of speculative decoding, as operators |
| `VllmProfile`, `LlamaProfile` | what `build_config` writes for either backend; llama.cpp's capacity table and choices, as operators |
| `Profiles` | `add`, `tune`, `run` and its wizard from the command line to the profile, over the limits file, the runtime and the model's files; uses the four above |
| `VllmRuntime` | measuring, remembering, upgrading and cleaning the vLLM environment |
| `Download` | `add` and `rm` on the files of one model, the download lock, its metadata and its waiters |
| `FanDuty` | what all fan daemons promise together, in three variables: one after the other takes the fans, has them, gives them back |
| `FanCurve` | the fan curve, quiet hours, emergency temperature, as operators |
| `FanDaemon` | one fan daemon on its GPU: taking control of the fans, cycles, failures, giving back; implements `FanDuty` |
| `FanHysteresis` | `FanDaemon` with a history variable, to state what the hysteresis promises |
| `FanService` | `vserve fan` from any number of terminals, and the start and end of daemons, over the PID and state files, the "fan" lock and the fans' mode; implements `FanDuty` |
| `GpuSessionProofs`, `HealthWaitProofs`, `SweepProofs`, `ProfilesProofs`, `RuntimeProofs`, `DownloadProofs`, `FanProofs`, `FanServiceProofs` | theorems |
| `MCGpuSession`, `MCHealthWait`, `MCSweep`, `MCProfiles`, `MCVllmRuntime`, `MCDownload`, `MCFanHysteresis`, `MCFanService` | constants of the TLC instances |

### GpuSession and the code

Every terminal runs one command after the other. A step is one call that another
process can see; the order in which the code makes them is the program
counter `pc`, whose values are the stages of the commands:

* *session check* (`check_session`, `_session_or_exit`): `precheck` (before the lock) or
  `check` (under it) probes unit after unit (`Probe`); with no unit running it
  goes on to `presweep` or `sweep`, where all the markers are unlinked; it passes for the
  holder, it refuses everybody else.
* *run* (`_launch_backend`): `ready` (the wizard), `check`, `survey` (probe the
  backends, maybe ask in `confirm`), `stopping`, `settle` (poll until all are down), `start`,
  `mark`, `health`, and `giveup`, `halt` on failure.
* *stop*: `orphan`, `claim`, `survey`, `forget` (nothing runs) or `ready`, `check`,
  `stopping`, `verify`, `stopped`.
* *benchmark*: `inspect`, then launches from `ready` to `health`, each ending in
  `cleanup`, also when the launch was refused (`started_here` is set first).
* *pre-cache*: `ready`, `check`, `inspect` (its own unit only), `start`, `mark`, `warmup`,
  `cleanup` under the lock.

A `systemctl` call is issued in one step and returns in another; it may fail or
time out at any point, with or without effect. `Kill` ends a process anywhere; the
kernel drops its flock and nothing else is undone. `unit[b]` moves by itself: a start
completes, an engine crashes and is restarted or not, a stop completes.

Abstractions:

* the order in which `probe_running_backends` visits the backends is left open;
* the outcome of the health wait is free here and detailed in `HealthWait`;
* `write_session` and the reading of the baseline are one step: only the launcher's
  own later steps see the baseline;
* the wait after a benchmark's stop changes nothing, whatever its result, and is left out;
* a command's data (labels, profiles, ports) and messages are left out; the pre-cache
  is for vLLM, the only backend it exists for;
* marker files are in a sticky directory and owned by their users: `SweepMarkers` of
  an ordinary user removes his own, of a user in `Privileged` all of them;
* `stop_vllm` stops all the configured vLLM services, which are one unit here.

`owner` is a history variable: who started what runs in a unit.

### HealthWait and the code

The unit has more states here: `loading` and `serving` are both active, and
`restarting` is the wait for an automatic restart, which systemd counts in
`NRestarts` only when it starts the unit again. The launch reads the endpoint
(`Healthy`), the unit (`States`) and the counter (`Readings`) in that order, each in a step
of its own. A reading is a set: `{n}`, or `{}` where the code has None. `bounced`
is a history variable: the engine died, or a restart was counted, since
the baseline. `outcome` tells how the command ended (`warming` with a
user at the terminal, `failed` without one).
`reliable` is chosen at the start and never changes: with it systemctl and the
endpoint answer whenever they can, without it any of their calls may fail. "unwatched"
is a launch that ends as warming up without a last look at its counter.

### ActiveConfig, Sweep and the code

A launch (`job`) goes through the calls of `_launch_backend` and of `start_vllm` or
`LlamaCppBackend.start` in their order: `session`, `stop`, `env` (snapshot, environment file),
`link`, `json` (llama.cpp's second link) or `manifest`, `start`, `restore` or `wait`, `ended`. Each
may fail where the code can raise, and leaves behind what the code leaves. A unit reads
the links and the flags when it starts, and once more at every automatic restart
(`AutoRestart`, at any time). The sweep (`at`) owns the job when it launches, and
between its launches anybody may launch. An exception in a variant goes on with the
next one; Ctrl-C is no `Exception` and goes to the `finally`.

* One launch at a time: the GPU lock is held from its first step to its last. The session
  marker is reduced to the user it names; `GpuSession` has the files and the races.
* The probes of a launch tell the truth here; `GpuSession` has the uncertain ones.
* `StartTimesOut` is a start that was reported as failed and brought the unit up all the same
  (`late`).
* Measured numbers do not steer the sweep. Only which cells were measured is state;
  the numbers are drawn when they are looked at (`Tables`).
* The model ends with the sweep.

### Profiles and the code

`Begin` is the start of a command up to the utilization it resolves, `Stamp` the
fingerprint and the look into the limits file, `Tune` the table and its writing, `WriteProfile` the
choice and the profile. `add` has the order table, fingerprint (`AddTune`, `AddStamp`).
Between any two of them the model may be fetched again (`Refetch`), another vLLM installed
(`Upgrade`), a utilization saved (`SaveConfig`), and another terminal may work on the same
limits file. `written` holds the last profile for one step, for the properties.

* One model is followed in a behaviour; limits files and profiles are per model.
* A table is represented by what it was made from (scan, files, utilization, and what the command
  learned of the runtime), and looked up in `Tables`; so are the operators for the table kept apart from
  the state.
* Files have revisions. What the fingerprint lists of a revision (weights, index files, chat template,
  GGUF headers) is its number `listed`, and what it takes from the scan is `InfoOf`; the rest, of `config.json`
  above all, goes into the table and not into the fingerprint. `Refetch` may change either.
* vLLM's registry of parsers is asked in a subprocess, once in a command, which may fail (`Answers`):
  the command then takes every parser for unregistered. The menu's process keeps its answer from one run
  to the next, and is left out.
* Gigabytes in floating point are whole units of memory, utilizations whole percentages,
  versions minor numbers. The limits file is written through `os.replace` and is one value.
* An error ends the command. Names, ports, sampling, thinking and reasoning
  options, the user's own attention backend, the build flag FA_ALL_QUANTS and the
  context limits with offloaded experts are left out.
* The wizard takes any row and column; of the slots offered, one or all.
* Which parser the files of a model ask for is a constant; which one a table suggests and a profile
  uses, by what the runtime registers, is modelled for tool calls. Reasoning parsers go the same way and are
  left out.

### VllmRuntime and the code

A step is one subprocess, one file operation or one access to a lock. A measurement is
`version`, `metadata`, `rekey`; the cache is written through `open`, `write`, `replace`. A writer is in
the file it opened, whatever name that file has by now (`fd`), because every command of a
user goes through the same `vllm.tmp`: a text may be torn, and `os.replace` may publish
somebody else's. The environment changes in three steps of pip (`PipStep`), each with a new
modification time. `began` and `seen` are history variables.

* The launch is `GpuSession`'s: here an engine starts or not.
* Two changes have different modification times (the code compares nanoseconds).
* pip is not killed half-way by the command's death; its failure leaves what is there.
* `pip check` changes only what is printed, and is left out.

### Download and the code

`try` to `failure` or `success` are the stages of `_download_model`: the flock, the metadata after it, the
clearing of a GGUF variant's root, its files, the links (`link`, `sibling`), and in the `finally` the empty
metadata before the unlock. `wait`, `probe`, `probed`, `unprobe` are `wait_for_release`, which takes the
lock to learn that it is free. A waiter decides by what is on disk (`Decide`) and tries once more
(`Retry`). `Remove` is `vserve rm`, which takes no lock and may delete only a part.

* Which variants a repository has, and the confirmation, are inputs.
* Of a repository that is not GGUF, `materialize_subdirectory_variants` decides where each variant is run
  from: several variants are linked into roots of their own, one alone only if it lies in a subdirectory
  and no weights lie at the top of the repository's root (`Materialize`, `ToLink`, `RunRoot`). A variant lies in one
  subdirectory (`InSubdir`) or at the top.
* A variant is linked in one step (`LinkVariant`), since nobody reads the new root meanwhile but `Decide` under
  another holder; a failure or a kill may leave any part of it linked, and an old entry removed (`Interrupted`).
  `link_or_copy` passes over a source that is missing, and keeps an old entry that it cannot remove.
* A link is readable as long as its source is (`Readable`), so that removing the repository's root takes
  the files of all. Where the file system has no links there are copies, of which no less can be read.
* `ignored` is the mark `.vserve-ignore`, with which a root is not listed as a model.
* The two hours are over at any time the lock is held.
* Files are fetched whole: a file that is half there is not yet there.

### FanDaemon and the code

`run_daemon` and `run_fixed_daemon` are one module; `fixed` tells them apart. One cycle
(read, smooth, damp, limit, set the fans one after the other) is one step, because the
daemon has the "fan" lock and nobody else looks at the fans meanwhile. A call of
NVML may fail in any cycle, at any fan `k`: the fans before it are then set and
`current_speed` is not (`ApplyFails`). The curve's loop counts failures in a row, starts afresh after some and
gives up after more; the loop at a fixed speed only logs them, and never gives up. A kill in the middle of a cycle is `ApplyFails` followed by
`Crash`. `pc` = "wait" is `stop.wait`, between cycles. Temperatures and hours are arbitrary in
every cycle. The interpolation in floating point, truncated, equals integer division
on the four segments of the curve.

The docstring of `compute_fan_speed` (`fan.py` 137) says that quiet hours scale the curve "with a
smooth ramp (no hard cap cliff)"; the code cuts the curve off at the cap
(`fan.py` 124), and so does the model.

### FanService and the code

A step is one access to a file, the lock, a process or the fans. A daemon goes through `boot`,
`locked`, `opened` (the PID file truncated), `named`, `stated`, `ready` (handlers installed), `run`,
`restore`, `unpid`, `unstate`, `unlock`, `exit`; one whose files cannot be written through
`undopid`, `undostate`, `undolock`, where it has no handlers yet. A terminal's command goes through
`_daemon_pid` (`read`, `judge`, `unpid`, `unstate`; `asker` is the caller it returns to),
`_stop_daemon` (`signal`, `poll`, `forgetpid`, `forgetstate`), `_start_daemon` (`wait`, `probe`,
`spawn`, `sleep`), `_is_orphaned_fan` and `_clean_orphaned_fan` (`exists` to `auto`). SIGTERM ends a
daemon that has not installed its handlers and sets the stop event of one that has.

* The control loop is the single stage `run` here; `FanDaemon` has it in detail. Both implement `FanDuty`,
  which fixes what the stages of the two have in common: `ready` and `start` are "taking", `run` and the two stages
  of the loop "on", `restore` "returning".
* Commands run as root (`_sudo_reexec`); the two looks before it are the askers "gate" and "recheck".
* A recycled PID is told from a daemon by its command line; here it is a dead process, and a
  process id is not used again while a file or a command remembers it.
* `FaultSets` is a set of worlds: which kinds of fault (`crash`, `interrupt`, `restore`, `slow`) may
  happen. One is chosen at the start (`faults`), so that each property says in
  which worlds it holds.

## What the runs show

| Run | Instance | Shows |
|---|---|---|
| `GpuLaunch` | two users, two backends, `run` and `stop`; 1.2 million states | one engine at a time (`OneBackend`); `stop` tells the truth (`StopReportsTruth`); markers swept under the lock are stale (`LockedSweepIsStale`); `run` never stops the engine of another user's active session (`RunRespectsSession`) |
| `GpuTune` | `run`, benchmarks and pre-cache, both users privileged; 0.9 million states | launches own what they wait for (`LaunchOwnsTarget`), with clean-ups outside the lock and a command that looks at one unit only |
| `GpuLive` | one terminal, four commands, a unit started elsewhere | the lock comes back from every path (`LockComesBack`) |
| `HealthVllm` | vLLM, probes that may fail or that answer | a slow start is kept (`SlowStartIsKept`), the launch returns (`LaunchReturns`), a counted restart ends it ready or halted if systemctl answers (`CrashLoopCaught`), every step is one of `GpuSession` (`ImplementsLaunch`) |
| `Sweep` | a sweep of three variants, one launch by a user, crashes, failures, interrupts, an upgrade; 2.3 million states | links and flags are those of what runs, so that a restart keeps the model (`RestartKeepsModel`), the manifest names it (`ManifestNamesEngine`), the profile from before runs again or the sweep says that it does not (`RestoredOrSaid`), a row is measured on its variant (`RowsAreTheirVariants`), the recommendation keeps its docstring where nothing is missing (`RecommendedHeldUpIfMeasured`) |
| `Profiles` | seven models of different kinds, two terminals, two commands and one change between any two of their steps; 0.2 million states | with the fingerprint of now, a vLLM table has the recommendation and the slots it would have now, and a llama.cpp table is the one of now if it is not `add`'s (`FreshLimits`); slots fit the memory (`VllmSlotsFit`, `LlamaSlotsFit`) and are the most that fit (`SlotsAreMaximal`); no dtype the attention backend lacks (`RunsOnItsBackend`); speculation only where it works (`SpecAllowed`); no offload of experts without need (`OffloadOnlyIfNeeded`) |
| `RuntimeCache` | two terminals of one user: `run`, `cache clean`, `runtime check`, `runtime upgrade`; 0.4 million states | a hit is what was installed when its key was computed (`HitsMatchTheirKey`), pip and the clean-up work under an engine only if it started behind their probe (`OnlyLateStarts`), the runtime lock comes back (`UpgradeEnds`) |
| `Download` | three terminals, a variant of two files at the top of the repository and one of one file in a subdirectory, GGUF or not; 0.4 million states | a download that ends well has every file of every variant in the root the variant is run from, which is listed and has them at its top unless others' weights are there (`DownloadedIsComplete`), waiters never all give up on each other (`SomebodyRetries`), the holder that is named held the lock (`NamedHolderHeldIt`) |
| `FanLoop` | two fans, four temperatures, quiet and other hours, curve and a fixed speed | fans stay within a ramp step of the speed in force (`FansTrack`), the speed goes down only after real cooling (`NoFlutter`), a lasting emergency is answered (`EmergencyReached`), lasting quiet respected (`QuietRespected`), a blind daemon that follows the curve gives up (`GivesUpBlind`) |
| `FanService` | one terminal, three process ids, three worlds | a daemon at work is found by its files (`Findable`) and has the fans (`HasTheFans`), also after crashes; without a daemon the fans are automatic, whenever signals come (`AutoWithoutDaemon`); `off` tells the truth (`OffMeansAuto`); commands end (`CommandsEnd`); daemons are on duty one after the other (`ImplementsDuty`) |
| `GpuBenchForeign` (violated) | `run`, benchmarks | a benchmark that is refused because another user holds the session stops his engine in its `finally` (`cli.py` 2140, 2161-2169), against the docstring of `_session_or_exit` |
| `DownloadShared` (violated) | one terminal, two variants whose labels are both in the model's name | both variants get one root (`downloader.py` 47-57), the second clears the first, and the download is declared complete; `README.md` 310 says that variants do not share a directory |

`OneBackend` and `StopReportsTruth` are checked for `run` and `stop`; that `OneBackend` holds with
benchmarks and `StopReportsTruth` with all commands is proved (below). `OneBackend` does not hold with the
pre-cache, which starts vLLM beside the user's own llama.cpp engine: it looks only at its
own backend; no document promises otherwise.

**Bounds.** `GpuSession`: two terminals of two users and two backends: every property relates
at most two actors and two units, and the theorems below cover the larger
instances. `MaxPolls` = 2 polls of the old backends instead of 15: the loop then repeats and
ends. Where both or neither of the users are privileged they are interchangeable together with their terminals
(`Mirror`), and `GpuLaunch` and `GpuTune` use that symmetry. `HealthWait` has 4 polls with a grace of 1 (100 and 3 in the code), which leaves several
iterations before and after the grace period, and 4 automatic restarts, so
that several deaths happen in one wait.
`Sweep`: the variants `off`, `ngram` and one depth (of the depths 1 and 3 a checkpoint of two layers allows
one), so that a baseline, a winner and a failing variant can differ; two loads; two throughputs, above
and below the five percent that count; `MaxRuns` = 1 launch by a user, before, between or after
the sweep's own, of a profile with other flags or of llama.cpp's.
`Profiles`: per model at most two revisions. Those of three models differ in what the fingerprint lists, and `RevisionsDiffer`
requires that they have different tables; those of the Gemma differ in `config.json` alone, which decides
which columns its table has. Between the two versions of vLLM most parsers come to be registered;
`MaxChanges` = 1 and `MaxCommands` = 2, one command to leave a table and one to find it, with one change
before, between or after their steps; contexts of 4096, or 4096 and 8192, all columns; the commands are the
combinations of flags that take different branches, and the wizard, where it is not left out (diffusion, GPT-OSS), is at the second terminal. `WizardTokens` is the one batch size that is
not asked for.
`RuntimeCache`: `MaxStamp` = 3, one upgrade: two writers, one of them across each step of pip. Commands of
different users share no file but the environment, so one user is the hard case.
`Download`: three terminals, because a waiter, a second waiter and a holder are needed for
`SomebodyRetries`; a variant of two files and one of one, so that an interrupt finds half a variant; one at the top and
one in a subdirectory, so that either is added alone, before or after the other, or with it. Three commands are at work at once in a GGUF repository and
two in another (`FewAtWork`), while a third may remove files: the lock does not know the kind, and only its holder fetches and
links. The terminals are interchangeable.
`FanLoop`: a reset after 2 and an end after 3 failures in a row instead of 5 and 30, so that
failures before, at and after the reset occur; temperatures on two segments of the curve, closer
and farther apart than the hysteresis of 4, one above the top of the curve and one of emergency; hysteresis and
ramp are the code's. `FanService`: three process ids, for a dying daemon, its successor and one more. One terminal,
because `Findable`, `HasTheFans` and `OffMeansAuto` fail with two (below); `AutoWithoutDaemon` and `ImplementsDuty` are
proved for any number.

**Fairness.** `GpuSession`: a command keeps executing (`WF` on the steps it takes by
itself: every `systemctl` call has a timeout, so it can always return) and its user
answers the prompts; nothing is assumed about units, or about other commands starting.
`HealthWait`: the launch keeps executing, and a unit in "stopping" stops (systemd kills it after its
stop timeout). Where no answer is guaranteed (`reliable` is FALSE) nothing is
assumed of the probes.
`VllmRuntime`: a command keeps executing, since every subprocess, pip's included, has a timeout;
the question before the deletion of caches need not be answered (`Answer` has no
fairness), and holds only the lock of the caches.
`FanDaemon`: the daemon leaves each stage sooner or later: the wait between cycles ends by its timeout and every
NVML call returns; which outcome a call has is left open. `FanService`: every daemon and every
command keeps executing, and the menu is answered; nobody has to start a command, and no daemon gives up.

**Mutants.** Next to a definition stands, for each property, a
variant with a plausible bug (a unit in transition taken for stopped, a lock that is not
checked, a fingerprint without the files, a slot count that is doubled and not bisected, files removed
after the lock is released); each property fails when that variant replaces the definition.

## What is proved

TLAPS checks all proofs without assumption beyond the `ASSUME`s of the modules
(each named `...Assumption` next to its constants) and the hypotheses named here.

`GpuSessionProofs` begins with the markers: writing and removing them keeps them totally ordered by age
(`WriteKeepsOrder`, `RemoveKeepsOrder`), so that "the newest marker" is well defined, and the last
writer is the holder (`LastWriterHolds`). Then `GpuInv` is inductive (`InvHolds`). None of the safety
properties is inductive by itself: that `stop` tells the truth depends on what
a probe under the lock saw still being true later, hence on nobody else being able to
start a unit meanwhile. `GpuInv` says (`Locked`) that a process in a stage
that starts or probes under the lock holds it; (`LooksAround` and the parts below it) that what such a
process has seen stopped is still stopped, because only the holder of the lock starts
units; (`JobAt`) which command is at which stage; and that the target of a launch, once it is started, is its
user's. From it follow `TypeCorrect`, `StopIsTruthful`, `LaunchIsOwn`,
`LockedSweepSound` and, for an instance without pre-cache, `OneBackendHolds`, for any
number of users, terminals, backends and polls, and `LaunchTakesSession`: when a launch has written
its marker its user holds the session. The theorems about units assume `ExternalUnits = {}`: a
unit that somebody starts with `systemctl` ignores the lock.

`RunRespectsOthers` is the action property `RunRespectsSession`: `run` never stops an engine that
another user holds in session. `SessionInv` adds to `GpuInv` what the second check, under the lock,
leaves behind and nobody can undo before the old engine is stopped (`MaySpare`): what runs is nobody's or the
launcher's, or every other user's marker is a mere claim or older than the launcher's own. Nobody else launches
meanwhile, so all that can happen to the markers is a new claim or a removal.
The theorem assumes `OneTerminalEach`, that no user works at two terminals at once. Without it the property
is false: the second terminal's own session check, which takes no lock, sweeps the claim on
which the first one's locked check rested, an older marker of another user becomes the newest, and his
engine is stopped (TLC finds this with three terminals of two users; it is listed below).

`HealthWaitProofs`: `HealthInv` is inductive; it adds to the properties that
polls are left whenever the endpoint is asked and that a counter above the
baseline is a death since the baseline. From it follow `HealthTypeCorrect` and
`SlowStartKept`, for every timeout, grace period and number of restarts, and
`WaitImplementsLaunch`: every step of the wait is a step of `GpuSession` or invisible to it.

`RuntimeProofs`, for any number of users, commands, versions and changes of the environment:
`RuntimeTypeCorrect`; `LateStartsHold` from `HoldersInv` (who works behind a lock holds it, and the probe
behind it saw no engine); `UpgradeReports` from `UpgradeInv` (behind the runtime lock nobody else
installs, so what the upgrade has measured is still installed); `HitsHold` from
`HitsInv`. The last says that there is a history `V` of the environment, a function from
modification times to versions, with which all agree: what is installed now, every entry
in `vllm.json` and in `vllm.tmp` that no installation overtook, every key and every measurement under way.
It is needed because an entry is written by one command, published by another and read by a
third, perhaps after the environment has moved on; only the history relates them.

`DownloadProofs`, for any number of terminals, variants and files: `DownloadTypeCorrect`; `RetryHolds`
from `Ownership` (who is in which stage holds the flock) and `RetryInv` (who only looks at the
lock will still decide); `HolderNamed` from `TextInv` (the text in the file follows the flock, except
after a death); `DownloadComplete` from `DiskInv` (what a download has not yet to fetch is in the root it
fetches into, and of the variants it need not link any more everything is in their own roots, unless a removal came
between; while it links, either several variants are selected or nothing lies at the top of the repository's root; when
it has linked, the mark is as the code leaves it). Nobody else links or marks meanwhile, which is `Ownership` again. The
theorem assumes `OneInName`: at most one variant has its label in the
model's name; without it `DownloadShared` is the counterexample.

`SweepProofs`, for any profiles, variants, throughputs and users: `SweepTypeCorrect`, `RestartKeepsModelHolds`,
`ManifestNamesEngineHolds`, `RestoredHolds`, `RowsHold`, `RecommendedHolds`. `ActiveInv` relates the stages
of a launch to the files: between `stop` and `start` nothing runs (`Quiet`), what has been written by then names
the profile (`Named`), and the flags that a running engine has read are those its profile, or a deprecated
runtime, asks for (`Flagged`). So an automatic restart at any time, also between two writes, reads what
the engine already runs. `SweepInv` says what the sweep may believe between its launches: as long as nobody else
launched, no launch but its own is under way and the unit runs the variant that is measured. `RecommendedIsBest`
says that the recommendation is one of the rows with the greatest gain, among finitely many; the
variants are built by a recursive function (`EnumerateSpecVariants`), which `StepsDefine` unfolds.

`ProfilesProofs` proves all the properties of `Profiles`, for any models, files, memory, commands and terminals.
`TablesInv` says that a command that missed holds a fingerprint that lists no newer files than now, and that the table
in the limits file, unless `add` wrote it, was made from files that are listed no older than in its fingerprint: if that is
the fingerprint of now, the table's files are listed as those of now (`ListedAsNow`). From there `FreshLimitsHolds` goes two ways. For
llama.cpp everything a table is made from is listed. For vLLM `WorkInv` says that the table was made for the
utilization and the scanned numbers that its fingerprint names, and these decide its recommendation and the slots of every column that two
tables share, whatever `config.json` and the runtime say of the columns and the parser (`SameScanSameSlots`); here
`add` needs no exception. `WorkInv` says of every stage
of a command that its table, and the one in the file, was made for its scan and its utilization, whichever terminal made it;
the rest is about one profile and the table it was chosen from:

* `VllmSlotsHold`, `LlamaSlotsHold`: every cell of a table fits at its own context and dtype, and what the
  picker does with the cell (clamp, share, fall back to a lower context, another dtype) needs no more than the cell.
* `SlotsAreMaximalWhateverTheSizes`: the doubling and the bisection end with a number of slots that fits
  next to one that does not. This does not need the sizes to grow with the number of slots: it is the invariant of
  the bisection.
* `CellsSayWhatFits`, and from it `CellsAreMaximal`: the sizes that the tables use do grow (`SlotsTakeAlike`,
  `FewerTakeLess`), so that a cell is exact: k slots fit if and only if k is at most the cell, up to 4096.
* `BackendHolds`: every column that the filter drops is absent from what is picked. It
  needs a table of the files of now (`made.files = rev` in `RunsOnItsBackend`), because `add` stamps its table afterwards and
  may give an older table the newer files' fingerprint.
* `SpecIsAllowed`: by cases over the recipe, with `CommandsAssumption` for what the command line takes.
* `OffloadHolds`: the recipe offloads experts only for a table that does not fill the GPU.

Their assumptions: what a file tells is a natural number, and a divisor in it is not zero (`NumbersAssumption`); files that
change are listed as newer ones, and of a GGUF model nothing changes that is not listed (`ListedAssumption`);
utilizations that pass the code's own check are those of `Utils` (`OccurringUtils`); None is no number
(`NoneAssumption`). The doubling and the bisection are functions on the numbers up to 4096, and are
unfolded by an argument of least counterexamples (`MeasureDefines`): recursive functions the prover reaches, in
contrast to the library's theorems of induction, which take an operator as a parameter.

`FanProofs`: the curve stays between 30 and 100 (`SpeedBounds`) and is monotone at a given hour
(`SpeedMonotone`), across the ends of segments, the cap and the emergency. `FanInv` adds to the type
that every fan is under manual control in the loop and near the speed in force; the step that matters
is `ApplyFails`, after which a fan and `current` differ by what `Limited` allows. `FanTypeCorrect` and
`FansTrackHolds` follow for any number of fans. `NoFlutterHolds` needs a second invariant: while a peak is
known, the speed in force is not above what the curve asks for at the peak; by monotonicity a
lower speed is then asked for only below the peak less the hysteresis. `EmergencyClimbs` and `QuietFalls` are what
`EmergencyReached` and `QuietRespected` rest on, for every temperature, hysteresis, ramp and cap: once the
three readings in memory agree, each cycle that succeeds is there or gains a whole ramp step. The
average of readings above a bound is above it (`SmoothedBetween`), and neither hysteresis nor limit asks for less than
a step (`ClimbOrFall`). That such cycles go on happening is the fairness, and stays with TLC.
`DaemonImplementsDuty`: every step is one of `FanDuty`, or invisible to it.

`FanServiceProofs`: `ServiceInv` says that a daemon in a stage that touches files or fans holds the lock (`Locked`),
and that a command in a stage that uses a process id has one (`HasNumber`). From it follow `ServiceTypeCorrect`
and `OneDaemon`. `AutoReturns` adds `Attended`: fans under manual control have a daemon in `run` or
`restore`. These hold for any number of terminals and processes.

`FindableHolds`, `HasTheFansHolds` and `OffHolds` are for one terminal and any number of processes, because they fail with two
terminals. Their invariant, `AloneInv`, says what the only terminal cannot overtake: until a daemon has installed its
handlers, the command that started it waits for it (`StartWatched`); a command that meets a daemon in `run` or
`restore` has read its number, and is at no stage that takes the files for nobody's (`Respected`); so what a daemon
wrote stays (`FilesNamed`), and what it took (`FansHeld`). `OffIsTruthful` adds that a command reports only when it ends.

`ServiceImplementsDuty` is for any number of both: in every state the duty of `FanDuty` is that of the one daemon
that holds the lock, and the steps of all others are invisible. Its only action that is not a daemon's is `CleanUp`, and
where one terminal works undisturbed `AloneInv` shows that it comes when nobody is on duty; otherwise the
mapping allows the fault "late". The theorem replaces, for all terminals, what `OneDaemon` says
of a state by what it means for the fans.

Every invariant and action property of the passing runs is stated by a theorem. Only model-checked: the liveness properties
`LockComesBack`, `LaunchReturns`, `CrashLoopCaught`, `UpgradeEnds`, `EmergencyReached`, `QuietRespected`, `GivesUpBlind`,
`CommandsEnd` (liveness under fairness is out of the prover's reach), and everything on instances
with external units. Of `RunRespectsSession` with several terminals per user, and `Findable`, `HasTheFans`, `OffMeansAuto` with
several terminals, there is nothing to prove: they are false there, as the next section says.

## Known divergences

Where the code does not do what it, a document or a test says. The first two are runs;
the next group are properties of the modules that TLC violates when they are added to the
configuration named; the rest was met while reading and is in no property.

| What | Where | State it as |
|---|---|---|
| a refused benchmark stops another user's engine | `cli.py` 2140 | `BenchRespectsSession`: `GpuBenchForeign` |
| two GGUF variants share a root | `downloader.py` 47 | `DownloadedIsComplete`: `DownloadShared` |
| a `run` at one terminal sweeps, before it takes the lock, the claim on which a second `run` of the same user rests, which then stops another user's engine, against the docstring of `_session_or_exit` | `cli.py` 4115 | `RunRespectsSession` in `GpuLaunch` with two terminals of one user and one of another |
| `stop` claims a session over a marker written since it looked, against the comment above and `test_stop_does_not_claim_when_session_already_exists` | `cli.py` 4331 | `ClaimsOnlyOrphans` in `GpuLaunch` |
| a failed llama.cpp launch leaves a unit that goes on restarting, against `RELEASE_NOTES.md` 376 | `cli.py` 3003 | `NoRestartAfterFailure` in `HealthVllm` with `Counted = FALSE` |
| an upgrade's pip can run under an engine that was launched behind its probe, against its own message "Stop vLLM before upgrading the runtime" | `cli.py` 650 | `NoUpgradeUnderEngine` in `RuntimeCache` |
| a measurement that an installation overtook is kept under the new key and believed, against the docstring of `_vllm_runtime_cache_key` | `runtime.py` 124 | `HitsAreFresh` in `RuntimeCache` |
| a sweep does not start again the llama.cpp engine it stopped, against "never leaves the box down" | `cli.py` 1473 | `WholeBoxRestored` in `Sweep` |
| a variant whose measurement at the high load failed is recommended, against the docstring of `recommend_variant` | `sweep.py` 147 | `RecommendedHeldUp` in `Sweep` |
| the deprecated flag that an older vLLM's launch wrote into the environment file stays after the upgrade, against "emit nothing" | `serve.py` 214, `RELEASE_NOTES.md` 499 | `NoDeprecatedFlag` in `Sweep` |
| the wizard resolves the utilization without the model and leaves no headroom, against `RELEASE_NOTES.md` 238 | `cli.py` 3689, 3868 | `HeadroomKept` in `Profiles` |
| a table with the fingerprint of now need not be one that would be computed now: what `config.json` alone decides (which columns the attention backend can run), and the parsers, which depend on what the runtime registered when it was made, are not in the fingerprint, and `add` takes it after the table; against the docstring "the inputs that make a cached tuning table valid" | `runtime.py` 487, `backends/vllm.py` 413, `cli.py` 1362 | `TablesAreFresh` in `Profiles` |
| a variant in a subdirectory that is added alone beside another variant's weights at the top is left where it is, and the root that is reported serves the others; and a variant that was run from the repository's root is hidden when it is added again with others, or others are, against "Expose each selected subdirectory HF variant as a separate runnable model root" | `downloader.py` 158, 212 | `DownloadedIsServed` in `Download` |
| a fan that was set in a cycle that failed later keeps its lower speed through an emergency, against `docs/troubleshooting.md` 88 | `fan.py` 308 | `EmergencyExact` in `FanLoop` |
| after a crash, `fan off` removes the stale files, finds no daemon, and leaves the fans under manual control | `cli.py` 4562 | `NothingMeansAuto` in `FanService` |
| on a second terminal, `fan off` and `_daemon_pid` take a daemon that is being started for a crashed one and undo it | `cli.py` 4619, 4464 | `Findable`, `HasTheFans` in `FanService` with two terminals |

Met while reading:

* A daemon at a fixed speed logs that its calls fail, for ever, and leaves the fans at whatever speed they have (`fan.py` 406-411);
  only the one that follows the curve gives up. `GivesUpBlind` is about the latter.
* For a dtype without a value in its row the picker takes the slots of f16 or of the best column
  (`picker.py` 311-322), which may not fit the dtype's own size. `LlamaSlotsFit` excepts it.
* Gemma-4 with sixty layers or more gets f16 values after the check that keys and values agree, and
  after the slots were sized for q8_0 (`backends/llamacpp.py` 1031, 1126-1139).
* A diffusion model's utilization is lowered after its slots were sized (`VllmSlotsFit` excepts it).
* GPT-OSS runs on TRITON_ATTN on sm120, but its TurboQuant columns are not filtered.
* "auto" becomes "fp8" for NVFP4 weights, while the CUDA-graph decision looks at the original dtype
  (`backends/vllm.py` 793).
* `find_mtp_variant` takes any sibling directory with "mtp" in its name (`recipes/spec_decode.py` 180).
* `--mtp-tokens` is accepted with `--spec auto`, which ignores it (`cli.py` 4231).
* Flags such as `--cache-reuse`, `--swa-full` and `--n-cpu-moe` do not force the scripted path, so that without `--yes` the
  wizard drops them (`cli.py` 4249-4261).
* Two users who run the same model at once write the same "custom" profile (`cli.py` 3470); the session
  check comes afterwards.

## Plan

Done: arbitration, health wait, start of a unit and sweep, runtime, download and its lock, profiles,
fans, and a theorem for every safety property of the runs. In this order, next:

1. an abstract arbiter (locked or not; the set of backends that run; a start only under the lock and with
   nothing running), and `GpuSession` and `ActiveConfig` both shown to implement it for commands that respect it:
   `ActiveConfig` stops several units in one step, so it cannot refine `GpuSession` step by step;
2. an abstract cache (a hit is what was installed at some moment since its key was computed), and `VllmRuntime` shown to
   implement it, with the history of `HitsInv` as a history variable;
3. the safety halves of the other liveness properties, in the way of `EmergencyClimbs`.

## Not modelled

* Diagnosis, doctor and host health (`diagnostics.py`, `cli_doctor.py`, `host_health.py`): they read and
  report; their decisions are patterns over log texts.
* Menus, status, wording, the welcome screen: no other part reads what they print.
* `perf_cache.py`, `recipes/llama_bench.py`, the arithmetic on an engine's counters in `bench.py`: reports only.
* The patterns that detect model metadata, tool and reasoning parsers, sampling defaults
  and offload expressions: tables from strings to strings without state.
* The search for variants in a listing of the hub.
* The interface of the backends (`backends/protocol.py`): declarations; the operations are where they are called.

## Running

    tlc -config GpuLaunch.cfg MCGpuSession.tla      # and the other .cfg files
    tlapm GpuSessionProofs.tla                      # and the other *Proofs.tla

The models of bounded work stop when the work is done: a launch (`HealthWait`), a sweep (`Sweep`), the
allowed number of commands (`Profiles`). Their configurations switch the deadlock check off; in the
others there is always a next command.
