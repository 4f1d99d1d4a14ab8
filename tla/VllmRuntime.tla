---------------------------- MODULE VllmRuntime ----------------------------
(***************************************************************************)
(* The vLLM environment and the commands that measure, upgrade or clean    *)
(* it (src/vserve/runtime.py; runtime check, runtime upgrade, cache clean  *)
(* and the compatibility gate of `vserve run` in src/vserve/cli.py).       *)
(*                                                                         *)
(* A measurement is two processes (the vllm executable, then a script that *)
(* imports the packages) and is remembered in a file of the user under a   *)
(* key made of the environment's modification times.  Every writer goes    *)
(* through the same temporary file, so a writer is in the file it opened,  *)
(* whatever name that one has by now.                                      *)
(***************************************************************************)
EXTENDS Integers, FiniteSets

CONSTANTS Users, Cmds, UserOf,
          JobsOf,       \* [Cmds -> the commands a terminal gives]
          Pinned,       \* PINNED_STABLE_VLLM
          Older,        \* the version installed at first
          Supported,    \* the versions within SUPPORTED_VLLM_RANGE
          MaxStamp,     \* bound: changes of the environment
          NoCmd

Jobs == {"run", "check", "upgrade", "clean"}

ASSUME RuntimeAssumption ==
    /\ UserOf \in [Cmds -> Users] /\ JobsOf \in [Cmds -> SUBSET Jobs]
    /\ Pinned # Older /\ "none" \notin {Pinned, Older} /\ Pinned \in Supported
    /\ MaxStamp \in Nat /\ NoCmd \notin Cmds

VARIABLES
    venv,    \* what is installed: the version of vLLM, whether its executable exists
    stamp,   \* the modification times of the environment, one per change
    engine,  \* whether a vLLM unit runs
    locks,   \* the holder of each lock file
    late,    \* lock holders under whose lock an engine was started (history)
    cache,   \* per user, what vllm.json holds
    tmp,     \* per user, what vllm.tmp holds
    fd,      \* per command, the name its open file has now
    pc, job,
    key,     \* per command, the cache key it computed
    info,    \* per command, the RuntimeInfo it has so far
    began,   \* per command, stamp when its measurement began (history)
    seen     \* per command, what was installed when it computed its key (history)

files == <<cache, tmp, fd>>
local == <<key, info, began, seen>>
world == <<venv, stamp, engine>>
vars  == <<world, locks, late, files, pc, job, local>>

Versions == {Pinned, Older, "none"}
Absent   == [text |-> "absent"]
Empty    == [text |-> "empty"]
Torn     == [text |-> "torn"]
Entries  == [text : {"whole"}, key : 0..MaxStamp, version : Versions, quiet : BOOLEAN]
Contents == Entries \cup {Absent, Empty, Torn}
Info     == [version : Versions, errors : BOOLEAN, hit : BOOLEAN, quiet : BOOLEAN]
Learnt(version, errors) ==
    [version |-> version, errors |-> errors, hit |-> FALSE, quiet |-> FALSE]
Blank    == Learnt("none", FALSE)

Probing  == {"version", "metadata", "rekey", "open", "write", "replace"}
PipWork  == {"pip", "remove", "place"}
CleanUp  == {"sockets", "confirm", "delete"}
PCs == {"idle", "lookup", "read", "gate", "launch", "lock", "stopped", "invalidate",
        "probe", "release"} \cup Probing \cup PipWork \cup CleanUp

TypeOK ==
    /\ venv \in [vllm : Versions, bin : BOOLEAN]
    /\ stamp \in 0..MaxStamp /\ engine \in BOOLEAN
    /\ locks \in [{"runtime", "cache"} -> Cmds \cup {NoCmd}] /\ late \subseteq Cmds
    /\ cache \in [Users -> Contents] /\ tmp \in [Users -> Contents]
    /\ fd \in [Cmds -> {"none", "tmp", "cache", "gone"}]
    /\ pc \in [Cmds -> PCs] /\ job \in [Cmds -> Jobs \cup {"none"}]
    /\ key \in [Cmds -> 0..MaxStamp] /\ info \in [Cmds -> Info]
    /\ began \in [Cmds -> 0..MaxStamp] /\ seen \in [Cmds -> Versions]

Init ==
    /\ venv = [vllm |-> Older, bin |-> TRUE]
    /\ stamp = 0 /\ engine \in BOOLEAN
    /\ locks = [l \in {"runtime", "cache"} |-> NoCmd] /\ late = {}
    /\ cache = [u \in Users |-> Absent] /\ tmp = [u \in Users |-> Absent]
    /\ fd = [c \in Cmds |-> "none"]
    /\ pc = [c \in Cmds |-> "idle"] /\ job = [c \in Cmds |-> "none"]
    /\ key = [c \in Cmds |-> 0] /\ info = [c \in Cmds |-> Blank]
    /\ began = [c \in Cmds |-> 0] /\ seen = [c \in Cmds |-> "none"]

-----------------------------------------------------------------------------
Goto(c, s) == pc' = [pc EXCEPT ![c] = s]

\* The command returns: its locals go with it.
Done(c) ==
    /\ Goto(c, "idle") /\ job' = [job EXCEPT ![c] = "none"]
    /\ key' = [key EXCEPT ![c] = 0] /\ info' = [info EXCEPT ![c] = Blank]
    /\ began' = [began EXCEPT ![c] = 0] /\ seen' = [seen EXCEPT ![c] = "none"]

\* Where a command starts: the fast path looks into the cache, the full one does not.
Begin(c) == \E j \in JobsOf[c] :
    /\ pc[c] = "idle"
    /\ job' = [job EXCEPT ![c] = j]
    /\ Goto(c, CASE j = "run" -> "lookup" [] j = "check" -> "version"
                 [] j = "upgrade" -> "lock" [] j = "clean" -> "probe")
    /\ UNCHANGED <<world, locks, late, files, local>>

\* _vllm_runtime_cache_key: None when a path cannot be read, else the times.
VenvKey == stamp
HasKey  == venv.bin

Lookup(c) ==
    /\ pc[c] = "lookup"
    /\ IF HasKey THEN /\ key' = [key EXCEPT ![c] = VenvKey]
                      /\ seen' = [seen EXCEPT ![c] = venv.vllm] /\ Goto(c, "read")
                 ELSE Goto(c, "version") /\ UNCHANGED <<key, seen>>
    /\ UNCHANGED <<world, locks, late, files, job, info, began>>

\* Mutant: any entry will do.
AcceptsAny(file, k) == file.text = "whole"

\* _read_vllm_runtime_cache: text that is no JSON, or has another key, is a miss.
Accepts(file, k) == file.text = "whole" /\ file.key = k

ReadCache(c) ==
    /\ pc[c] = "read"
    /\ LET file == cache[UserOf[c]] IN
       IF Accepts(file, key[c])
       THEN /\ info' = [info EXCEPT ![c] = [version |-> file.version, errors |-> FALSE,
                                            hit |-> TRUE, quiet |-> file.quiet]]
            /\ Goto(c, "gate") /\ UNCHANGED seen
       ELSE Goto(c, "version") /\ seen' = [seen EXCEPT ![c] = "none"] /\ UNCHANGED info
    /\ key' = [key EXCEPT ![c] = 0]
    /\ UNCHANGED <<world, locks, late, files, job, began>>

-----------------------------------------------------------------------------
(* collect_vllm_runtime_info, past the cache.                              *)

\* `vllm --version`: fails without the executable or the package, or at its timeout.
ReadVersion(c) == \E fails \in BOOLEAN :
    /\ pc[c] = "version"
    /\ (~venv.bin \/ venv.vllm = "none") => fails
    /\ info' = [info EXCEPT ![c] = Learnt(IF fails THEN "none" ELSE venv.vllm, fails)]
    /\ began' = [began EXCEPT ![c] = stamp]
    /\ Goto(c, "metadata")
    /\ UNCHANGED <<world, locks, late, files, job, key, seen>>

\* The metadata script; a version it does not find stays the one the executable
\* gave.  What a failed measurement did find is only printed.  The pip check of the
\* full one is left out: only the words and the exit status depend on it.
ReadMetadata(c) == \E fails \in BOOLEAN :
    /\ pc[c] = "metadata"
    /\ info' = [info EXCEPT ![c] =
           IF fails \/ @.errors THEN Learnt("none", TRUE)
           ELSE IF venv.vllm = "none" THEN @ ELSE Learnt(venv.vllm, FALSE)]
    /\ Goto(c, "rekey")
    /\ UNCHANGED <<world, locks, late, files, job, key, began, seen>>

\* Only a measurement without errors is kept, under the key of NOW.
Rekey(c) ==
    /\ pc[c] = "rekey"
    /\ IF info[c].errors \/ info[c].version = "none" \/ ~HasKey
       THEN Goto(c, "gate") /\ began' = [began EXCEPT ![c] = 0] /\ UNCHANGED key
       ELSE Goto(c, "open") /\ key' = [key EXCEPT ![c] = VenvKey] /\ UNCHANGED began
    /\ UNCHANGED <<world, locks, late, files, job, info, seen>>

\* The names of the open files of user u after `to` renamed them.
Renamed(u, to) == [c \in Cmds |-> IF UserOf[c] = u /\ fd[c] \in DOMAIN to
                                   THEN to[fd[c]] ELSE fd[c]]

\* open(vllm.tmp, "w"): a new file, or the existing one cut to nothing.
OpenTmp(c) ==
    /\ pc[c] = "open"
    /\ \/ /\ tmp' = [tmp EXCEPT ![UserOf[c]] = Empty]
          /\ fd' = [fd EXCEPT ![c] = "tmp"]
          /\ Goto(c, "write")
       \/ Goto(c, "gate") /\ UNCHANGED <<tmp, fd>>    \* OSError is swallowed
    /\ UNCHANGED <<world, locks, late, cache, job, local>>

\* The text is written at the start of the file: over a longer one of another
\* writer the end of that one remains; a full disk leaves the start of this one.
Written(c, old) ==
    {[text |-> "whole", key |-> key[c], version |-> info[c].version,
      quiet |-> began[c] = key[c]]}
    \cup IF old = Empty THEN {} ELSE {Torn}

WriteTmp(c) ==
    LET u == UserOf[c]
        To(name, file, new) == IF fd[c] = name THEN [file EXCEPT ![u] = new] ELSE file IN
    /\ pc[c] = "write"
    /\ \E fails \in BOOLEAN :
       \E new \in IF fails THEN {Torn}
                  ELSE Written(c, IF fd[c] = "tmp" THEN tmp[u]
                                  ELSE IF fd[c] = "cache" THEN cache[u] ELSE Empty) :
          /\ tmp' = To("tmp", tmp, new) /\ cache' = To("cache", cache, new)
          /\ Goto(c, IF fails THEN "gate" ELSE "replace")
    /\ fd' = [fd EXCEPT ![c] = "none"]
    /\ key' = [key EXCEPT ![c] = 0] /\ began' = [began EXCEPT ![c] = 0]
    /\ UNCHANGED <<world, locks, late, job, info, seen>>

\* os.replace: whatever has the name vllm.tmp now; FileNotFoundError is swallowed.
Replace(c) ==
    LET u == UserOf[c] IN
    /\ pc[c] = "replace"
    /\ IF tmp[u] = Absent THEN UNCHANGED files
       ELSE /\ cache' = [cache EXCEPT ![u] = tmp[u]] /\ tmp' = [tmp EXCEPT ![u] = Absent]
            /\ fd' = Renamed(u, [tmp |-> "cache", cache |-> "gone"])
    /\ Goto(c, "gate")
    /\ UNCHANGED <<world, locks, late, job, local>>

\* check_vllm_compatibility.
Compatible(i) == ~i.errors /\ i.version \in Supported

\* What each command does with what it learnt: `run` refuses an unsupported
\* runtime unless --allow-unsupported-runtime; `check` and the upgrade report.
Gate(c) == \E allow \in BOOLEAN :
    /\ pc[c] = "gate"
    /\ \/ /\ job[c] = "run" /\ (Compatible(info[c]) \/ allow)
          /\ Goto(c, "launch") /\ UNCHANGED <<job, local>>
       \/ /\ job[c] = "run" /\ ~Compatible(info[c]) /\ ~allow /\ Done(c)
       \/ /\ job[c] = "check" /\ Done(c)
       \/ /\ job[c] = "upgrade" /\ Goto(c, "release") /\ UNCHANGED <<job, local>>
    /\ UNCHANGED <<world, locks, late, files>>

\* The launch itself is module GpuSession's: here it may start an engine or not.
Launch(c) ==
    /\ pc[c] = "launch"
    /\ \/ /\ engine' = TRUE
          /\ late' = late \cup ({locks[l] : l \in {"runtime", "cache"}} \ {NoCmd})
       \/ UNCHANGED <<engine, late>>
    /\ Done(c)
    /\ UNCHANGED <<venv, stamp, locks, files>>

-----------------------------------------------------------------------------
(* runtime upgrade.                                                        *)

LockOf(c) == IF job[c] = "upgrade" THEN "runtime" ELSE "cache"

\* _lock_or_exit
TakeLock(c) ==
    /\ pc[c] = "lock"
    /\ IF locks[LockOf(c)] = NoCmd
       THEN /\ locks' = [locks EXCEPT ![LockOf(c)] = c] /\ late' = late \ {c}
            /\ Goto(c, "stopped") /\ UNCHANGED <<job, local>>
       ELSE Done(c) /\ UNCHANGED <<locks, late>>
    /\ UNCHANGED <<world, files>>

\* Mutant: a probe that fails counts as no engine.
CheckStoppedBlind(c) == \E fails \in BOOLEAN :
    /\ pc[c] = "stopped"
    /\ Goto(c, IF engine /\ ~fails THEN "release"
               ELSE IF job[c] = "upgrade" THEN "pip" ELSE "sockets")
    /\ UNCHANGED <<world, locks, late, files, job, local>>

\* The probe under the lock; one that fails counts as a running engine.
CheckStopped(c) == \E fails \in BOOLEAN :
    /\ pc[c] = "stopped"
    /\ Goto(c, IF engine \/ fails THEN "release"
               ELSE IF job[c] = "upgrade" THEN "pip" ELSE "sockets")
    /\ UNCHANGED <<world, locks, late, files, job, local>>

\* pip reinstalls the dependencies, takes vLLM out and puts the pinned one in.
PipStep(c) ==
    /\ pc[c] \in PipWork /\ stamp < MaxStamp
    /\ stamp' = stamp + 1
    /\ \/ pc[c] = "pip" /\ UNCHANGED venv /\ Goto(c, "remove")
       \/ pc[c] = "remove" /\ venv' = [venv EXCEPT !.vllm = "none", !.bin = FALSE]
                           /\ Goto(c, "place")
       \/ pc[c] = "place" /\ venv' = [venv EXCEPT !.vllm = Pinned, !.bin = TRUE]
                          /\ Goto(c, "invalidate")
    /\ UNCHANGED <<engine, locks, late, files, job, local>>

\* It fails, or is killed at the timeout: RuntimeError or TimeoutExpired.
PipFails(c) ==
    /\ pc[c] \in PipWork
    /\ Goto(c, "release")
    /\ UNCHANGED <<world, locks, late, files, job, local>>

\* invalidate_vllm_runtime_cache, then the full measurement.
Invalidate(c) ==
    /\ pc[c] = "invalidate"
    /\ cache' = [cache EXCEPT ![UserOf[c]] = Absent]
    /\ fd' = Renamed(UserOf[c], [cache |-> "gone"])
    /\ Goto(c, "version")
    /\ UNCHANGED <<world, locks, late, tmp, job, local>>

\* Mutant: only a successful measurement reaches the release.
ReleaseIfFine(c) ==
    /\ pc[c] = "release"
    /\ locks' = IF info[c].errors THEN locks ELSE [locks EXCEPT ![LockOf(c)] = NoCmd]
    /\ late' = late \ {c}
    /\ Done(c)
    /\ UNCHANGED <<world, files>>

\* The finally of either command.
Release(c) ==
    /\ pc[c] = "release"
    /\ locks' = [locks EXCEPT ![LockOf(c)] = NoCmd]
    /\ late' = late \ {c}
    /\ Done(c)
    /\ UNCHANGED <<world, files>>

-----------------------------------------------------------------------------
(* cache clean.                                                            *)

\* The first probe of the backends, before the lock.
ProbeFirst(c) == \E fails \in BOOLEAN :
    /\ pc[c] = "probe"
    /\ IF engine \/ fails THEN Done(c) ELSE Goto(c, "lock") /\ UNCHANGED <<job, local>>
    /\ UNCHANGED <<world, locks, late, files>>

\* Stale sockets go at once; with --all the directories follow, after a question
\* unless --yes; a dry run only tells.
CleanSockets(c) ==
    /\ pc[c] = "sockets"
    /\ \E next \in {"release", "confirm", "delete"} : Goto(c, next)
    /\ UNCHANGED <<world, locks, late, files, job, local>>

Answer(c) ==
    /\ pc[c] = "confirm"
    /\ \E next \in {"release", "delete"} : Goto(c, next)
    /\ UNCHANGED <<world, locks, late, files, job, local>>

DeleteCaches(c) ==
    /\ pc[c] = "delete" /\ Goto(c, "release")
    /\ UNCHANGED <<world, locks, late, files, job, local>>

-----------------------------------------------------------------------------
\* `vserve stop`, a unit that dies, or one that an administrator stops.
EngineStops ==
    /\ engine /\ engine' = FALSE
    /\ UNCHANGED <<venv, stamp, locks, late, files, pc, job, local>>

\* A command is killed: the kernel drops its lock, its files stay.
Kill(c) ==
    /\ pc[c] \notin {"idle"} \cup PipWork
    /\ locks' = [l \in {"runtime", "cache"} |-> IF locks[l] = c THEN NoCmd ELSE locks[l]]
    /\ late' = late \ {c}
    /\ fd' = [fd EXCEPT ![c] = "none"]
    /\ Done(c)
    /\ UNCHANGED <<world, cache, tmp>>

Measure(c) == \/ Lookup(c) \/ ReadCache(c) \/ ReadVersion(c) \/ ReadMetadata(c)
              \/ Rekey(c) \/ OpenTmp(c) \/ WriteTmp(c) \/ Replace(c) \/ Gate(c) \/ Launch(c)
Upkeep(c)  == \/ TakeLock(c) \/ CheckStopped(c) \/ PipStep(c) \/ PipFails(c)
              \/ Invalidate(c) \/ Release(c) \/ ProbeFirst(c) \/ CleanSockets(c)
              \/ DeleteCaches(c)

Next == EngineStops \/ \E c \in Cmds : Begin(c) \/ Measure(c) \/ Upkeep(c) \/ Answer(c) \/ Kill(c)

Spec == Init /\ [][Next]_vars

\* Every subprocess has a timeout, so a command goes on until it returns; only the
\* question before the deletion waits for a person.
FairSpec == Spec /\ \A c \in Cmds : WF_vars(Measure(c) \/ Upkeep(c))

-----------------------------------------------------------------------------
(* Properties.                                                             *)

\* The cache never answers for another environment than it was asked about: a hit is
\* what was installed when the key was computed, as long as the measurement behind it
\* was not itself overtaken by an installation (runtime.py, 123-190).
HitsMatchTheirKey ==
    \A c \in Cmds : info[c].hit /\ info[c].quiet => info[c].version = seen[c]

\* What an upgrade reports after the installation is what is installed: it measures
\* instead of believing a cache that a concurrent command may have refilled.
UpgradeReportsInstalled ==
    \A c \in Cmds : pc[c] = "release" /\ job[c] = "upgrade"
                       /\ ~info[c].errors /\ info[c].version # "none"
                    => info[c].version = venv.vllm

\* pip and the clean-up work under a running engine only if it was started while the
\* command held its lock, which a launch does not look at.
OnlyLateStarts ==
    \A c \in Cmds : engine /\ pc[c] \in PipWork \cup CleanUp => c \in late

\* The runtime lock always comes free again, whatever pip does.
UpgradeEnds == locks["runtime"] # NoCmd ~> locks["runtime"] = NoCmd

\* cli.py, 650: "Stop vLLM before upgrading the runtime."
NoUpgradeUnderEngine == \A c \in Cmds : pc[c] \in PipWork => ~engine

\* runtime.py, 124: "Cache key derived from venv contents — any pip install changes it."
HitsAreFresh == \A c \in Cmds : info[c].hit => info[c].version = seen[c]
=============================================================================
