----------------------------- MODULE FanService -----------------------------
(***************************************************************************)
(* `vserve fan`: starting, finding and stopping the fan daemon.            *)
(*                                                                         *)
(* Commands and daemons are processes that meet at the PID and state files,*)
(* at the "fan" lock and at the fans.  A step is one access to one of      *)
(* them, so that commands of several terminals and the start and the end   *)
(* of a daemon interleave.  What a daemon does with the fans while it      *)
(* controls them is the module FanDaemon.                                  *)
(***************************************************************************)
EXTENDS FiniteSets

CONSTANTS Terminals,       \* where commands are typed, one after the other
          Pids,            \* process ids of daemons
          Commands,        \* the commands used: "start", "off", "menu"
          FaultSets,       \* what may go wrong: one of these sets
          None, Empty      \* no process or no file; a file without content

ASSUME FanAssumption ==
    /\ Terminals \cap Pids = {}
    /\ None \notin Terminals \cup Pids /\ Empty \notin Pids \cup {None}
    /\ Commands \subseteq {"start", "off", "menu"}
    /\ FaultSets \subseteq SUBSET
          {"crash",       \* a daemon is killed
           "interrupt",   \* a command is interrupted
           "restore",     \* NVML refuses automatic control
           "slow"}        \* a daemon takes longer than a command waits

VARIABLES
    pidFile,    \* content of the PID file: a process, Empty, or None (no file)
    stateFile,  \* the state file exists
    lock,       \* holder of vserve-fan.lock
    manual,     \* a fan is under manual control
    daemon,     \* daemon[p]: the stage of process p
    stopping,   \* daemons whose stop event is set
    pc, cmd,    \* where terminal t is, and in which command
    asker,      \* for whom its _daemon_pid looks
    pid,        \* the process its command is dealing with
    report,     \* what its last command has said
    faults      \* what may go wrong; never changes

shared == <<pidFile, stateFile, lock, manual>>
daemons == <<daemon, stopping>>
locals == <<pc, cmd, asker, pid, report, faults>>
vars == <<shared, daemons, locals>>

\* Stages of a daemon in their order; signal handlers are installed in "ready".  One
\* whose files cannot be written undoes what it has done without handlers.
Early == {"boot", "locked", "opened", "named", "stated", "undopid", "undostate", "undolock"}
Obedient == {"ready", "run"}
Ending == {"restore", "unpid", "unstate", "unlock", "exit"}

Askers == {"gate", "recheck", "stop", "orphan", "status", "warn", "menu"}
Stages == {"idle", "read", "judge", "unpid", "unstate", "signal", "poll",
           "forgetpid", "forgetstate", "wait", "probe", "spawn", "sleep",
           "exists", "cleanpid", "cleanstate", "auto", "choose"}
Reports == {"none", "stopped", "nothing", "restored", "stuck", "busy", "started",
            "failed", "left", "interrupted"}

TypeOK ==
    /\ pidFile \in Pids \cup {None, Empty}
    /\ stateFile \in BOOLEAN /\ manual \in BOOLEAN
    /\ lock \in Pids \cup Terminals \cup {None}
    /\ daemon \in [Pids -> Early \cup Obedient \cup Ending \cup {"dead"}]
    /\ stopping \subseteq Pids
    /\ pc \in [Terminals -> Stages]
    /\ cmd \in [Terminals -> {"start", "off", "menu", "none"}]
    /\ asker \in [Terminals -> Askers]
    /\ pid \in [Terminals -> Pids \cup {None}]
    /\ report \in [Terminals -> Reports]
    /\ faults \in FaultSets

Init ==
    /\ pidFile = None /\ stateFile = FALSE /\ lock = None /\ manual = FALSE
    /\ daemon = [p \in Pids |-> "dead"] /\ stopping = {}
    /\ pc = [t \in Terminals |-> "idle"]
    /\ cmd = [t \in Terminals |-> "none"]
    /\ asker = [t \in Terminals |-> "stop"]
    /\ pid = [t \in Terminals |-> None]
    /\ report = [t \in Terminals |-> "none"]
    /\ faults \in FaultSets

Alive(p) == daemon[p] # "dead"

------------------------------------------------------------------------------
(* Daemons (run_daemon and run_fixed_daemon).                              *)

Becomes(p, s) == daemon' = [daemon EXCEPT ![p] = s]

At(p, s, next) == daemon[p] = s /\ Becomes(p, next) /\ UNCHANGED <<stopping, locals>>

\* The process is gone; the kernel drops its lock, nothing else is undone.
Dies(p) ==
    /\ Becomes(p, "dead") /\ stopping' = stopping \ {p}
    /\ lock' = IF lock = p THEN None ELSE lock
    /\ UNCHANGED <<pidFile, stateFile, manual>>

\* Mutant: the daemon starts although another holds the lock.
AcquireAnyway(p) ==
    /\ At(p, "boot", "locked")
    /\ lock' = p
    /\ UNCHANGED <<pidFile, stateFile, manual>>

Acquire(p) ==
    /\ At(p, "boot", "locked")
    /\ lock = None /\ lock' = p
    /\ UNCHANGED <<pidFile, stateFile, manual>>

LockBusy(p) ==
    /\ At(p, "boot", "exit")
    /\ lock # None
    /\ UNCHANGED shared

\* _write_state_file truncates the PID file before it writes it; if the file is
\* unlinked in between, what is written is lost.
OpenPid(p) ==
    /\ At(p, "locked", "opened")
    /\ pidFile' = Empty
    /\ UNCHANGED <<stateFile, lock, manual>>

WritePid(p) ==
    /\ At(p, "opened", "named")
    /\ pidFile' = IF pidFile = Empty THEN p ELSE pidFile
    /\ UNCHANGED <<stateFile, lock, manual>>

WriteState(p) ==
    /\ At(p, "named", "stated")
    /\ stateFile' = TRUE
    /\ UNCHANGED <<pidFile, lock, manual>>

\* One of the writes raises OSError: the daemon cleans up and leaves.
WriteFails(p) ==
    /\ \E s \in {"locked", "opened", "named"} : At(p, s, "undopid")
    /\ UNCHANGED shared

InstallHandlers(p) == At(p, "stated", "ready") /\ UNCHANGED shared

TakeControl(p) ==
    /\ At(p, "ready", "run")
    /\ manual' = TRUE
    /\ UNCHANGED <<pidFile, stateFile, lock>>

\* Mutant: what was taken is not given back when a later fan refuses.
ControlFailsForGood(p) ==
    /\ At(p, "ready", "unpid")
    /\ manual' \in {manual, TRUE}
    /\ UNCHANGED <<pidFile, stateFile, lock>>

\* NVML refuses control of a fan, after some or none of the others.
ControlFails(p) ==
    /\ At(p, "ready", "restore")
    /\ manual' \in {manual, TRUE}
    /\ UNCHANGED <<pidFile, stateFile, lock>>

\* There is no handle of the GPU, and nothing to restore.
NvmlUnavailable(p) == At(p, "ready", "unpid") /\ UNCHANGED shared

\* The loop is left, for the stop event or after too many failures.
Obey(p) == p \in stopping /\ At(p, "run", "restore") /\ UNCHANGED shared
GiveUp(p) == At(p, "run", "restore") /\ UNCHANGED shared

Restore(p) ==
    /\ At(p, "restore", "unpid")
    /\ manual' = FALSE
    /\ UNCHANGED <<pidFile, stateFile, lock>>

RestoreFails(p) ==
    /\ "restore" \in faults
    /\ At(p, "restore", "unpid")
    /\ UNCHANGED shared

\* Mutant: the lock is released before the files are removed.
UnlinkAfterRelease(p) ==
    /\ At(p, "unpid", "unstate")
    /\ pidFile' = None /\ lock' = None
    /\ UNCHANGED <<stateFile, manual>>

UnlinkPid(p) ==
    /\ At(p, "unpid", "unstate") \/ At(p, "undopid", "undostate")
    /\ pidFile' = None
    /\ UNCHANGED <<stateFile, lock, manual>>

UnlinkState(p) ==
    /\ At(p, "unstate", "unlock") \/ At(p, "undostate", "undolock")
    /\ stateFile' = FALSE
    /\ UNCHANGED <<pidFile, lock, manual>>

Release(p) ==
    /\ At(p, "unlock", "exit") \/ At(p, "undolock", "exit")
    /\ lock' = None
    /\ UNCHANGED <<pidFile, stateFile, manual>>

\* Mutant: the fans are given back when the process ends, after the lock.
LeaveRestoring(p) ==
    /\ At(p, "exit", "dead")
    /\ manual' = FALSE
    /\ UNCHANGED <<pidFile, stateFile, lock>>

Leave(p) == daemon[p] = "exit" /\ Dies(p) /\ UNCHANGED locals

Crash(p) == "crash" \in faults /\ Alive(p) /\ Dies(p) /\ UNCHANGED locals

\* What a daemon does by itself.
DaemonStep(p) ==
    \/ Acquire(p) \/ LockBusy(p)
    \/ OpenPid(p) \/ WritePid(p) \/ WriteState(p) \/ WriteFails(p)
    \/ InstallHandlers(p) \/ TakeControl(p) \/ ControlFails(p) \/ NvmlUnavailable(p)
    \/ Obey(p) \/ Restore(p) \/ RestoreFails(p)
    \/ UnlinkPid(p) \/ UnlinkState(p) \/ Release(p) \/ Leave(p)

------------------------------------------------------------------------------
(* Commands.  asker says which call of _daemon_pid is being made:          *)
(*   "gate", "recheck"   `vserve fan off` decides whether it needs sudo    *)
(*   "stop"              _stop_daemon                                      *)
(*   "orphan"            _is_orphaned_fan, when there was nothing to stop  *)
(*   "status", "warn"    _show_status, before the menu                     *)
(*   "menu"              the menu itself                                   *)

\* The command goes on at stage s, looking for who, dealing with process p.
Go(t, s, who, p) ==
    /\ pc' = [pc EXCEPT ![t] = s]
    /\ asker' = [asker EXCEPT ![t] = who]
    /\ pid' = [pid EXCEPT ![t] = p]
    /\ UNCHANGED <<cmd, report, faults>>

Ask(t, who) == Go(t, "read", who, None)
Goto(t, s) == Go(t, s, asker[t], pid[t])

Ends(t, r) ==
    /\ pc' = [pc EXCEPT ![t] = "idle"]
    /\ cmd' = [cmd EXCEPT ![t] = "none"]
    /\ asker' = [asker EXCEPT ![t] = "stop"]
    /\ pid' = [pid EXCEPT ![t] = None]
    /\ report' = [report EXCEPT ![t] = r]
    /\ UNCHANGED faults

FirstAsker == [start |-> "stop", off |-> "gate", menu |-> "status"]

Invoke(t, c) ==
    /\ pc[t] = "idle"
    /\ pc' = [pc EXCEPT ![t] = "read"]
    /\ cmd' = [cmd EXCEPT ![t] = c]
    /\ asker' = [asker EXCEPT ![t] = FirstAsker[c]]
    /\ report' = [report EXCEPT ![t] = "none"]
    /\ UNCHANGED <<shared, daemons, pid, faults>>

\* _stop_daemon has returned: a start goes on, `off` and the menu's "Off" are done.
AfterStop(t) ==
    \/ cmd[t] = "start" /\ Go(t, "wait", "stop", None)
    \/ cmd[t] # "start" /\ Ends(t, "stopped")

\* _daemon_pid returns the process in pid[t].
Found(t) ==
    \/ asker[t] \in {"gate", "recheck"} /\ Ask(t, "stop")
    \/ asker[t] = "stop" /\ Goto(t, "signal")
    \/ asker[t] = "orphan" /\ Ends(t, "nothing")
    \/ asker[t] = "status" /\ Ask(t, "warn")
    \/ asker[t] = "warn" /\ Ask(t, "menu")
    \/ asker[t] = "menu" /\ Goto(t, "choose")

\* _daemon_pid returns None.
NotFound(t) ==
    \/ asker[t] = "gate" /\ Ask(t, "recheck")
    \/ asker[t] = "recheck" /\ Ask(t, "stop")
    \/ asker[t] = "stop" /\ cmd[t] = "off" /\ Ask(t, "orphan")
    \/ asker[t] = "stop" /\ cmd[t] # "off" /\ AfterStop(t)
    \/ asker[t] = "orphan" /\ Go(t, "exists", "orphan", None)
    \/ asker[t] = "status" /\ Ask(t, "warn")
    \/ asker[t] = "warn" /\ Ask(t, "menu")
    \/ asker[t] = "menu" /\ Go(t, "choose", "menu", None)

\* _daemon_pid reads the PID file; one without a number is removed.
ReadPid(t) ==
    /\ pc[t] = "read"
    /\ \/ pidFile = None /\ NotFound(t)
       \/ pidFile = Empty /\ Goto(t, "unpid")
       \/ pidFile \in Pids /\ Go(t, "judge", asker[t], pidFile)
    /\ UNCHANGED <<shared, daemons>>

\* Is it alive, and a daemon of ours?
JudgePid(t) ==
    /\ pc[t] = "judge"
    /\ \/ Alive(pid[t]) /\ Found(t)
       \/ ~Alive(pid[t]) /\ Goto(t, "unpid")
    /\ UNCHANGED <<shared, daemons>>

DropPid(t) ==
    /\ pc[t] = "unpid" /\ Goto(t, "unstate")
    /\ pidFile' = None
    /\ UNCHANGED <<stateFile, lock, manual, daemons>>

DropState(t) ==
    /\ pc[t] = "unstate" /\ NotFound(t)
    /\ stateFile' = FALSE
    /\ UNCHANGED <<pidFile, lock, manual, daemons>>

\* Mutant: the handlers do not set the stop event.
SignalIgnored(t) ==
    /\ pc[t] = "signal"
    /\ \/ /\ ~Alive(pid[t]) /\ Goto(t, "forgetpid")
          /\ UNCHANGED <<shared, daemons>>
       \/ /\ daemon[pid[t]] \in Early /\ Goto(t, "poll")
          /\ Dies(pid[t])
       \/ /\ daemon[pid[t]] \in Obedient \cup Ending /\ Goto(t, "poll")
          /\ UNCHANGED <<shared, daemons>>

\* SIGTERM: before its handlers are installed it ends the daemon at once, later it
\* sets the stop event; a process that has gone meanwhile needs no signal.
Signal(t) ==
    /\ pc[t] = "signal"
    /\ \/ /\ ~Alive(pid[t]) /\ Goto(t, "forgetpid")
          /\ UNCHANGED <<shared, daemons>>
       \/ /\ daemon[pid[t]] \in Early /\ Goto(t, "poll")
          /\ Dies(pid[t])
       \/ /\ daemon[pid[t]] \in Obedient \cup Ending /\ Goto(t, "poll")
          /\ stopping' = stopping \cup {pid[t]}
          /\ UNCHANGED <<shared, daemon>>

\* Mutant: the command does not wait for the daemon to end.
PollNot(t) ==
    /\ pc[t] = "poll" /\ Goto(t, "forgetpid")
    /\ UNCHANGED <<shared, daemons>>

PollGone(t) ==
    /\ pc[t] = "poll" /\ ~Alive(pid[t]) /\ Goto(t, "forgetpid")
    /\ UNCHANGED <<shared, daemons>>

\* Fifty polls were not enough.
PollTimesOut(t) ==
    /\ "slow" \in faults
    /\ pc[t] = "poll" /\ Alive(pid[t]) /\ Ends(t, "stuck")
    /\ UNCHANGED <<shared, daemons>>

ForgetPid(t) ==
    /\ pc[t] = "forgetpid" /\ Goto(t, "forgetstate")
    /\ pidFile' = None
    /\ UNCHANGED <<stateFile, lock, manual, daemons>>

ForgetState(t) ==
    /\ pc[t] = "forgetstate" /\ AfterStop(t)
    /\ stateFile' = FALSE
    /\ UNCHANGED <<pidFile, lock, manual, daemons>>

\* wait_for_release takes the lock to see that it is free.
ProbeLock(t) ==
    /\ pc[t] = "wait" /\ lock = None
    /\ lock' = t /\ Goto(t, "probe")
    /\ UNCHANGED <<pidFile, stateFile, manual, daemons>>

ProbeDone(t) ==
    /\ pc[t] = "probe" /\ Goto(t, "spawn")
    /\ lock' = None
    /\ UNCHANGED <<pidFile, stateFile, manual, daemons>>

WaitTimesOut(t) ==
    /\ pc[t] = "wait" /\ lock # None /\ Ends(t, "busy")
    /\ UNCHANGED <<shared, daemons>>

\* Popen.  The system does not use a process id again while somebody remembers it.
Spawn(t, p) ==
    /\ pc[t] = "spawn"
    /\ ~Alive(p) /\ p # pidFile /\ \A u \in Terminals : pid[u] # p
    /\ Becomes(p, "boot")
    /\ Go(t, "sleep", "stop", p)
    /\ UNCHANGED <<shared, stopping>>

\* Two seconds later: has the process ended?
Report(t) ==
    /\ pc[t] = "sleep"
    /\ \/ Alive(pid[t]) /\ Ends(t, "started")
          /\ ("slow" \in faults \/ daemon[pid[t]] \notin Early \cup {"ready"})
       \/ ~Alive(pid[t]) /\ Ends(t, "failed")
    /\ UNCHANGED <<shared, daemons>>

\* _is_orphaned_fan: files that no daemon has?
OrphanCheck(t) ==
    /\ pc[t] = "exists"
    /\ \/ (pidFile # None \/ stateFile) /\ Goto(t, "cleanpid")
       \/ pidFile = None /\ ~stateFile /\ Ends(t, "nothing")
    /\ UNCHANGED <<shared, daemons>>

\* _clean_orphaned_fan.
CleanPid(t) ==
    /\ pc[t] = "cleanpid" /\ Goto(t, "cleanstate")
    /\ pidFile' = None
    /\ UNCHANGED <<stateFile, lock, manual, daemons>>

CleanState(t) ==
    /\ pc[t] = "cleanstate" /\ Goto(t, "auto")
    /\ stateFile' = FALSE
    /\ UNCHANGED <<pidFile, lock, manual, daemons>>

RestoreAuto(t) ==
    /\ pc[t] = "auto"
    /\ \/ manual' = FALSE /\ Ends(t, "restored")
       \/ "restore" \in faults /\ UNCHANGED manual /\ Ends(t, "failed")
    /\ UNCHANGED <<pidFile, stateFile, lock, daemons>>

\* The menu offers "Off" if it has found a daemon.
Choose(t) ==
    /\ pc[t] = "choose"
    /\ \/ Ends(t, "left")
       \/ /\ pc' = [pc EXCEPT ![t] = "read"]
          /\ \/ cmd' = [cmd EXCEPT ![t] = "start"]
             \/ pid[t] # None /\ UNCHANGED cmd
          /\ asker' = [asker EXCEPT ![t] = "stop"]
          /\ pid' = [pid EXCEPT ![t] = None]
          /\ UNCHANGED <<report, faults>>
    /\ UNCHANGED <<shared, daemons>>

\* The command is killed: the kernel drops its lock.
Interrupt(t) ==
    /\ "interrupt" \in faults /\ pc[t] # "idle"
    /\ Ends(t, "interrupted")
    /\ lock' = IF lock = t THEN None ELSE lock
    /\ UNCHANGED <<pidFile, stateFile, manual, daemons>>

CommandStep(t) ==
    \/ ReadPid(t) \/ JudgePid(t) \/ DropPid(t) \/ DropState(t)
    \/ Signal(t) \/ PollGone(t) \/ PollTimesOut(t) \/ ForgetPid(t) \/ ForgetState(t)
    \/ ProbeLock(t) \/ ProbeDone(t) \/ WaitTimesOut(t) \/ \E p \in Pids : Spawn(t, p)
    \/ Report(t)
    \/ OrphanCheck(t) \/ CleanPid(t) \/ CleanState(t) \/ RestoreAuto(t)
    \/ Choose(t)

------------------------------------------------------------------------------
Next ==
    \/ \E p \in Pids : DaemonStep(p) \/ GiveUp(p) \/ Crash(p)
    \/ \E t \in Terminals :
          \/ CommandStep(t) \/ Interrupt(t)
          \/ \E c \in Commands : Invoke(t, c)

Spec == Init /\ [][Next]_vars

\* Processes go on executing, and somebody answers the menu.
FairSpec ==
    /\ Spec
    /\ \A p \in Pids : WF_vars(DaemonStep(p))
    /\ \A t \in Terminals : WF_vars(CommandStep(t))

------------------------------------------------------------------------------
(* Correctness.                                                            *)

\* From one terminal a daemon in its loop can be found: the files name it, though
\* daemons crash.  Otherwise `vserve fan off` cannot stop it and the status does not
\* show it (read_state, _daemon_pid).
Findable ==
    faults \subseteq {"crash", "restore"} =>
        \A p \in Pids : daemon[p] = "run" /\ p \notin stopping => pidFile = p /\ stateFile

\* A daemon in its loop has the fans: no late restoring, by its predecessor or by a
\* command, has put them back under automatic control (the lock, _clean_orphaned_fan).
HasTheFans ==
    faults \subseteq {"crash", "restore"} =>
        \A p \in Pids : daemon[p] = "run" => manual

\* When no daemon is left the fans are under automatic control: whenever a signal
\* comes, a daemon either has not touched the fans or restores them.
AutoWithoutDaemon ==
    faults \cap {"crash", "restore"} = {} =>
        ((\A p \in Pids : ~Alive(p)) => ~manual)

\* "vserve fan off - stop daemon, restore NVIDIA auto" (README.md 320): whatever it
\* reports about a daemon, none controls the fans then, and they are automatic.
OffMeansAuto ==
    [][ faults = {} =>
        \A t \in Terminals :
          cmd[t] = "off" /\ report'[t] \in {"stopped", "nothing"} =>
              ~manual' /\ \A p \in Pids : daemon'[p] \notin Obedient ]_vars

\* The same of "No fan daemon running" alone, also after a crash.
NothingMeansAuto ==
    [][ \A t \in Terminals :
          cmd[t] = "off" /\ report'[t] = "nothing" => ~manual' ]_vars

\* Every command ends: a daemon that is told to stop does, at whatever point of its
\* start the signal reaches it, and gives the lock back.
CommandsEnd == \A t \in Terminals : pc[t] # "idle" ~> pc[t] = "idle"

\* One command at a time, typed at one terminal.
OneTerminal == \A t, u \in Terminals : t = u

\* The duty of the daemon that holds the lock.
DutyNow ==
    IF \E p \in Pids : daemon[p] = "ready" THEN "taking"
    ELSE IF \E p \in Pids : daemon[p] = "run" THEN "on"
    ELSE IF \E p \in Pids : daemon[p] = "restore" THEN "returning" ELSE "none"

\* A clean-up comes late only from another terminal, or after a command was
\* interrupted or did not wait for its daemon.
DutyFaults ==
    (faults \cap {"crash", "restore"})
        \cup IF OneTerminal /\ faults \subseteq {"crash", "restore"} THEN {} ELSE {"late"}

Duty == INSTANCE FanDuty WITH duty <- DutyNow, faults <- DutyFaults

\* Many daemons and commands are one daemon after the other: whoever takes the fans
\* while they are another's, or gives them back for it, violates this.
ImplementsDuty == Duty!Spec
=============================================================================
