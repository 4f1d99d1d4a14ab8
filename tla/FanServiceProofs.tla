-------------------------- MODULE FanServiceProofs --------------------------
(***************************************************************************)
(* Proofs about FanService: the types, and that no daemon leaves the fans  *)
(* under manual control when it ends, for any number of terminals and      *)
(* daemons; that commands of one terminal find the daemon and leave it the *)
(* fans, and what `off` says, for any number of daemons.                   *)
(***************************************************************************)
EXTENDS FanService, TLAPS

DaemonStages == Early \cup Obedient \cup Ending \cup {"dead"}

\* From taking the lock to giving it back.
Holding == (Early \cup Obedient \cup Ending) \ {"boot", "exit"}

\* A command that is about to use the number it has read has one.
HasNumber == \A t \in Terminals : pc[t] \in {"judge", "signal"} => pid[t] \in Pids

\* Daemons work under the lock; a command holds it for a moment.
Locked ==
    /\ \A p \in Pids : daemon[p] \in Holding => lock = p
    /\ \A t \in Terminals : pc[t] = "probe" => lock = t

\* Without crashes and refused restorations, somebody is there who will give the
\* fans back.
Attended ==
    faults \cap {"crash", "restore"} = {} /\ manual =>
        \E p \in Pids : daemon[p] \in {"run", "restore"}

ServiceInv == TypeOK /\ HasNumber /\ Locked

LEMMA InitInv == Init => ServiceInv /\ Attended
<1> SUFFICES ASSUME Init PROVE ServiceInv /\ Attended
  OBVIOUS
<1>1. "idle" \in Stages /\ "stop" \in Askers /\ "none" \in Reports
  BY DEF Stages, Askers, Reports
<1>2. TypeOK
  BY <1>1 DEF Init, TypeOK
<1>3. \A p \in Pids : daemon[p] = "dead"
  BY DEF Init
<1>4. "dead" \notin Holding
  BY DEF Holding, Early, Obedient, Ending
<1> QED
  BY <1>2, <1>3, <1>4 DEF Init, ServiceInv, HasNumber, Locked, Attended

------------------------------------------------------------------------------
(* Types.                                                                  *)

LEMMA AtType ==
    ASSUME TypeOK, NEW p \in Pids, NEW s, NEW n \in DaemonStages, At(p, s, n)
    PROVE  /\ daemon' \in [Pids -> DaemonStages] /\ stopping' = stopping
           /\ UNCHANGED locals
  BY DEF At, Becomes, TypeOK, DaemonStages

LEMMA DiesType ==
    ASSUME TypeOK, NEW p \in Pids, Dies(p)
    PROVE  /\ daemon' \in [Pids -> DaemonStages] /\ stopping' \subseteq Pids
           /\ lock' \in Pids \cup Terminals \cup {None}
           /\ UNCHANGED <<pidFile, stateFile, manual>>
  BY DEF Dies, Becomes, TypeOK, DaemonStages

LocalType ==
    /\ pc \in [Terminals -> Stages]
    /\ cmd \in [Terminals -> {"start", "off", "menu", "none"}]
    /\ asker \in [Terminals -> Askers]
    /\ pid \in [Terminals -> Pids \cup {None}]
    /\ report \in [Terminals -> Reports]
    /\ faults \in FaultSets

LEMMA GoType ==
    ASSUME LocalType, NEW t \in Terminals, NEW s \in Stages, NEW a \in Askers,
           NEW p \in Pids \cup {None}, Go(t, s, a, p)
    PROVE  LocalType'
  BY DEF Go, LocalType

LEMMA EndsType ==
    ASSUME LocalType, NEW t \in Terminals, NEW r \in Reports, Ends(t, r)
    PROVE  LocalType'
  BY DEF Ends, LocalType, Stages, Askers

LEMMA GotoType ==
    ASSUME LocalType, NEW t \in Terminals, NEW s \in Stages, Goto(t, s)
    PROVE  LocalType'
<1>1. asker[t] \in Askers /\ pid[t] \in Pids \cup {None}
  BY DEF LocalType
<1> QED
  BY <1>1, GoType DEF Goto

LEMMA AskType ==
    ASSUME LocalType, NEW t \in Terminals, NEW a \in Askers, Ask(t, a)
    PROVE  LocalType'
<1>1. "read" \in Stages
  BY DEF Stages
<1> QED
  BY <1>1, GoType DEF Ask

LEMMA AfterStopType ==
    ASSUME LocalType, NEW t \in Terminals, AfterStop(t)
    PROVE  LocalType'
<1>1. "wait" \in Stages /\ "stop" \in Askers /\ "stopped" \in Reports
  BY DEF Stages, Askers, Reports
<1> QED
  BY <1>1, GoType, EndsType DEF AfterStop

LEMMA FoundType ==
    ASSUME LocalType, NEW t \in Terminals, Found(t)
    PROVE  LocalType'
<1>1. {"signal", "choose"} \subseteq Stages /\ {"stop", "warn", "menu"} \subseteq Askers
      /\ "nothing" \in Reports
  BY DEF Stages, Askers, Reports
<1> QED
  BY <1>1, AskType, GotoType, EndsType DEF Found

LEMMA NotFoundType ==
    ASSUME LocalType, NEW t \in Terminals, NotFound(t)
    PROVE  LocalType'
<1>1. /\ {"exists", "choose"} \subseteq Stages
      /\ {"recheck", "stop", "orphan", "warn", "menu"} \subseteq Askers
  BY DEF Stages, Askers
<1> QED
  BY <1>1, AskType, GoType, AfterStopType DEF NotFound

\* A command's own steps: the local state keeps its type; the daemons only change by
\* its signal and by Popen.
LEMMA CommandType ==
    ASSUME TypeOK, HasNumber, NEW t \in Terminals, CommandStep(t)
    PROVE  TypeOK'
<1>1. LocalType
  BY DEF TypeOK, LocalType
<1>2. {"idle", "read", "judge", "unpid", "unstate", "signal", "poll", "forgetpid",
       "forgetstate", "wait", "probe", "spawn", "sleep", "exists", "cleanpid",
       "cleanstate", "auto", "choose"} \subseteq Stages
  BY DEF Stages
<1>3. {"nothing", "restored", "stuck", "busy", "started", "failed", "left"}
          \subseteq Reports
  BY DEF Reports
<1>4. asker[t] \in Askers /\ "stop" \in Askers
  BY <1>1 DEF LocalType, Askers
<1>5. CASE ReadPid(t)
  <2>1. LocalType'
    BY <1>1, <1>2, <1>4, <1>5, GoType, GotoType, NotFoundType DEF ReadPid
  <2> QED
    BY <1>5, <2>1 DEF ReadPid, TypeOK, LocalType, shared, daemons
<1>6. CASE JudgePid(t)
  <2>1. LocalType'
    BY <1>1, <1>2, <1>6, GotoType, FoundType DEF JudgePid
  <2> QED
    BY <1>6, <2>1 DEF JudgePid, TypeOK, LocalType, shared, daemons
<1>7. CASE DropPid(t) \/ ForgetPid(t) \/ CleanPid(t) \/ CleanState(t)
  <2>1. LocalType'
    BY <1>1, <1>2, <1>7, GotoType DEF DropPid, ForgetPid, CleanPid, CleanState
  <2> QED
    BY <1>7, <2>1 DEF DropPid, ForgetPid, CleanPid, CleanState, TypeOK, LocalType, daemons
<1>8. CASE DropState(t)
  <2>1. LocalType'
    BY <1>1, <1>8, NotFoundType DEF DropState
  <2> QED
    BY <1>8, <2>1 DEF DropState, TypeOK, LocalType, daemons
<1>9. CASE ForgetState(t)
  <2>1. LocalType'
    BY <1>1, <1>9, AfterStopType DEF ForgetState
  <2> QED
    BY <1>9, <2>1 DEF ForgetState, TypeOK, LocalType, daemons
<1>10. CASE Signal(t)
  <2>1. LocalType'
    BY <1>1, <1>2, <1>10, GotoType DEF Signal
  <2>2. CASE ~Alive(pid[t]) /\ UNCHANGED <<shared, daemons>>
    BY <2>1, <2>2 DEF TypeOK, LocalType, shared, daemons
  <2>3. CASE Dies(pid[t]) /\ pid[t] \in Pids
    BY <2>1, <2>3, DiesType DEF TypeOK, LocalType, DaemonStages
  <2>4. CASE stopping' = stopping \cup {pid[t]} /\ pid[t] \in Pids
             /\ UNCHANGED <<shared, daemon>>
    BY <2>1, <2>4 DEF TypeOK, LocalType, shared
  <2>5. pid[t] \in Pids
    BY <1>10 DEF Signal, HasNumber
  <2> QED
    BY <1>10, <2>2, <2>3, <2>4, <2>5 DEF Signal
<1>11. CASE PollGone(t) \/ PollTimesOut(t) \/ WaitTimesOut(t) \/ Report(t) \/ OrphanCheck(t)
  <2>1. LocalType'
    BY <1>1, <1>2, <1>3, <1>11, GotoType, EndsType
       DEF PollGone, PollTimesOut, WaitTimesOut, Report, OrphanCheck
  <2> QED
    BY <1>11, <2>1 DEF PollGone, PollTimesOut, WaitTimesOut, Report, OrphanCheck,
                       TypeOK, LocalType, shared, daemons
<1>12. CASE ProbeLock(t) \/ ProbeDone(t)
  <2>1. LocalType'
    BY <1>1, <1>2, <1>12, GotoType DEF ProbeLock, ProbeDone
  <2> QED
    BY <1>12, <2>1 DEF ProbeLock, ProbeDone, TypeOK, LocalType, daemons
<1>13. ASSUME NEW p \in Pids, Spawn(t, p)
       PROVE  TypeOK'
  <2>1. LocalType'
    BY <1>1, <1>2, <1>4, <1>13, GoType DEF Spawn
  <2> QED
    BY <1>13, <2>1 DEF Spawn, Becomes, TypeOK, LocalType, shared, Early
<1>14. CASE RestoreAuto(t)
  <2>1. LocalType'
    BY <1>1, <1>3, <1>14, EndsType DEF RestoreAuto
  <2> QED
    BY <1>14, <2>1 DEF RestoreAuto, TypeOK, LocalType, daemons
<1>15. CASE Choose(t)
  <2>1. LocalType'
    <3>1. CASE Ends(t, "left")
      BY <1>1, <1>3, <3>1, EndsType
    <3>2. CASE ~Ends(t, "left")
      BY <1>1, <1>2, <1>4, <1>15, <3>2 DEF Choose, LocalType
    <3> QED
      BY <3>1, <3>2
  <2> QED
    BY <1>15, <2>1 DEF Choose, TypeOK, LocalType, shared, daemons
<1> QED
  BY <1>5, <1>6, <1>7, <1>8, <1>9, <1>10, <1>11, <1>12, <1>13, <1>14, <1>15 DEF CommandStep

\* A terminal's step to a stage that needs no number, or that keeps the one it has.
LEMMA GoNumber ==
    ASSUME TypeOK, HasNumber, NEW t \in Terminals, NEW s, NEW a, NEW p, Go(t, s, a, p),
           s \in {"judge", "signal"} => p \in Pids
    PROVE  HasNumber'
  BY DEF Go, HasNumber, TypeOK

LEMMA EndsNumber ==
    ASSUME TypeOK, HasNumber, NEW t \in Terminals, NEW r, Ends(t, r)
    PROVE  HasNumber'
  BY DEF Ends, HasNumber, TypeOK

LEMMA NotFoundNumber ==
    ASSUME TypeOK, HasNumber, NEW t \in Terminals, NotFound(t) \/ AfterStop(t)
    PROVE  HasNumber'
  BY GoNumber, EndsNumber DEF NotFound, AfterStop, Ask

LEMMA CommandNumber ==
    ASSUME TypeOK, HasNumber, NEW t \in Terminals, CommandStep(t)
    PROVE  HasNumber'
<1>1. CASE ReadPid(t)
  BY <1>1, GoNumber, NotFoundNumber DEF ReadPid, Goto
<1>2. CASE JudgePid(t)
  <2>1. pid[t] \in Pids
    BY <1>2 DEF JudgePid, HasNumber
  <2> QED
    BY <1>2, <2>1, GoNumber, EndsNumber DEF JudgePid, Found, Ask, Goto
<1>3. CASE DropPid(t) \/ ForgetPid(t) \/ CleanPid(t) \/ CleanState(t) \/ ProbeLock(t)
           \/ ProbeDone(t) \/ PollGone(t) \/ Signal(t)
  BY <1>3, GoNumber DEF DropPid, ForgetPid, CleanPid, CleanState, ProbeLock, ProbeDone,
                        PollGone, Signal, Goto
<1>4. CASE DropState(t) \/ ForgetState(t)
  BY <1>4, NotFoundNumber DEF DropState, ForgetState
<1>5. CASE PollTimesOut(t) \/ WaitTimesOut(t) \/ Report(t) \/ OrphanCheck(t) \/ RestoreAuto(t)
  BY <1>5, GoNumber, EndsNumber
     DEF PollTimesOut, WaitTimesOut, Report, OrphanCheck, RestoreAuto, Goto
<1>6. CASE \E p \in Pids : Spawn(t, p)
  BY <1>6, GoNumber DEF Spawn
<1>7. CASE Choose(t)
  <2>1. CASE Ends(t, "left")
    BY <2>1, EndsNumber
  <2>2. CASE ~Ends(t, "left")
    BY <1>7, <2>2 DEF Choose, HasNumber, TypeOK
  <2> QED
    BY <2>1, <2>2
<1> QED
  BY <1>1, <1>2, <1>3, <1>4, <1>5, <1>6, <1>7 DEF CommandStep

\* A new command, or the end of one by an interrupt.
LEMMA InvokeType ==
    ASSUME TypeOK, HasNumber, NEW t \in Terminals,
           (\E c \in Commands : Invoke(t, c)) \/ Interrupt(t)
    PROVE  TypeOK' /\ HasNumber'
<1>1. ASSUME NEW c \in Commands, Invoke(t, c)
      PROVE  TypeOK' /\ HasNumber'
  <2>1. c \in {"start", "off", "menu"}
    BY FanAssumption DEF FanAssumption
  <2>2. FirstAsker[c] \in Askers /\ "read" \in Stages /\ "none" \in Reports
    BY <2>1 DEF FirstAsker, Askers, Stages, Reports
  <2> QED
    BY <1>1, <2>1, <2>2 DEF Invoke, TypeOK, HasNumber, shared, daemons
<1>2. CASE Interrupt(t)
  <2>1. LocalType'
    <3>1. LocalType /\ "interrupted" \in Reports
      BY DEF TypeOK, LocalType, Reports
    <3> QED
      BY <1>2, <3>1, EndsType DEF Interrupt
  <2>2. HasNumber'
    BY <1>2, EndsNumber DEF Interrupt
  <2> QED
    BY <1>2, <2>1, <2>2 DEF Interrupt, TypeOK, LocalType, daemons
<1> QED
  BY <1>1, <1>2

LEMMA DaemonType ==
    ASSUME TypeOK, HasNumber, NEW p \in Pids, DaemonStep(p) \/ GiveUp(p) \/ Crash(p)
    PROVE  TypeOK' /\ HasNumber'
<1>1. {"locked", "exit", "opened", "named", "stated", "unpid", "ready", "run", "restore",
       "unstate", "unlock", "undopid", "undostate", "undolock"} \subseteq DaemonStages
  BY DEF DaemonStages, Early, Obedient, Ending
<1>2. /\ daemon' \in [Pids -> DaemonStages] /\ stopping' \subseteq Pids
      /\ UNCHANGED locals
  <2>1. stopping \subseteq Pids
    BY DEF TypeOK
  <2> QED
    BY <1>1, <2>1, AtType, DiesType
       DEF DaemonStep, GiveUp, Crash, Acquire, LockBusy, OpenPid, WritePid, WriteState,
           WriteFails, InstallHandlers, TakeControl, ControlFails, NvmlUnavailable, Obey,
           Restore, RestoreFails, UnlinkPid, UnlinkState, Release, Leave
<1>3. /\ pidFile' \in Pids \cup {None, Empty}
      /\ lock' \in Pids \cup Terminals \cup {None}
  BY DEF DaemonStep, GiveUp, Crash, Acquire, LockBusy, OpenPid, WritePid, WriteState,
         WriteFails, InstallHandlers, TakeControl, ControlFails, NvmlUnavailable, Obey,
         Restore, RestoreFails, UnlinkPid, UnlinkState, Release, Leave, Dies, TypeOK, shared
<1>4. stateFile' \in BOOLEAN /\ manual' \in BOOLEAN
  BY DEF DaemonStep, GiveUp, Crash, Acquire, LockBusy, OpenPid, WritePid, WriteState,
         WriteFails, InstallHandlers, TakeControl, ControlFails, NvmlUnavailable, Obey,
         Restore, RestoreFails, UnlinkPid, UnlinkState, Release, Leave, Dies, TypeOK, shared
<1> QED
  BY <1>2, <1>3, <1>4 DEF TypeOK, HasNumber, locals, DaemonStages

------------------------------------------------------------------------------
(* The lock.                                                               *)

LEMMA DaemonLocked ==
    ASSUME ServiceInv, NEW p \in Pids, DaemonStep(p) \/ GiveUp(p) \/ Crash(p)
    PROVE  Locked'
<1>1. /\ TypeOK /\ \A q \in Pids : daemon[q] \in Holding => lock = q
      /\ \A t \in Terminals : pc[t] = "probe" => lock = t
  BY DEF ServiceInv, Locked
<1>2. /\ None \notin Terminals \cup Pids /\ Terminals \cap Pids = {}
  BY FanAssumption DEF FanAssumption
<1>3. pc' = pc
  BY DEF DaemonStep, GiveUp, Crash, Acquire, LockBusy, OpenPid, WritePid, WriteState,
         WriteFails, InstallHandlers, TakeControl, ControlFails, NvmlUnavailable, Obey,
         Restore, RestoreFails, UnlinkPid, UnlinkState, Release, Leave, At, locals
<1>4. \A q \in Pids \ {p} : daemon'[q] = daemon[q]
  BY <1>1
     DEF DaemonStep, GiveUp, Crash, Acquire, LockBusy, OpenPid, WritePid, WriteState,
         WriteFails, InstallHandlers, TakeControl, ControlFails, NvmlUnavailable, Obey,
         Restore, RestoreFails, UnlinkPid, UnlinkState, Release, Leave, At, Dies, Becomes,
         TypeOK
<1>5. CASE lock' = lock /\ (daemon'[p] \in Holding => daemon[p] \in Holding)
  BY <1>1, <1>3, <1>4, <1>5 DEF Locked
<1>6. CASE Acquire(p)
  BY <1>1, <1>2, <1>3, <1>4, <1>6 DEF Locked, Acquire
<1>7. CASE lock' = None /\ (lock = p \/ daemon[p] \in Holding) /\ daemon'[p] \in {"exit", "dead"}
  <2>1. lock = p /\ daemon'[p] \notin Holding
    BY <1>1, <1>7 DEF Holding, Early, Obedient, Ending
  <2> QED
    BY <1>1, <1>2, <1>3, <1>4, <1>7, <2>1 DEF Locked
<1>8. CASE Release(p)
  BY <1>1, <1>7, <1>8 DEF Release, At, Becomes, TypeOK, Holding, Early, Obedient, Ending
<1>9. CASE Dies(p)
  <2>1. daemon'[p] = "dead" /\ "dead" \notin Holding
    BY <1>1, <1>9 DEF Dies, Becomes, TypeOK, Holding, Early, Obedient, Ending
  <2> QED
    BY <1>5, <1>7, <1>9, <2>1 DEF Dies
<1>10. CASE LockBusy(p) \/ OpenPid(p) \/ WritePid(p) \/ WriteState(p) \/ WriteFails(p)
            \/ InstallHandlers(p) \/ TakeControl(p) \/ ControlFails(p) \/ NvmlUnavailable(p)
            \/ Obey(p) \/ GiveUp(p) \/ Restore(p) \/ RestoreFails(p) \/ UnlinkPid(p)
            \/ UnlinkState(p)
  <2>1. lock' = lock
    BY <1>10 DEF LockBusy, OpenPid, WritePid, WriteState, WriteFails, InstallHandlers,
                 TakeControl, ControlFails, NvmlUnavailable, Obey, GiveUp, Restore,
                 RestoreFails, UnlinkPid, UnlinkState, shared
  <2>2. daemon'[p] \in Holding => daemon[p] \in Holding
    BY <1>1, <1>10
       DEF LockBusy, OpenPid, WritePid, WriteState, WriteFails, InstallHandlers,
           TakeControl, ControlFails, NvmlUnavailable, Obey, GiveUp, Restore,
           RestoreFails, UnlinkPid, UnlinkState, At, Becomes, TypeOK,
           Holding, Early, Obedient, Ending
  <2> QED
    BY <1>5, <2>1, <2>2
<1> QED
  BY <1>6, <1>8, <1>9, <1>10 DEF DaemonStep, Leave, Crash

\* What a step of a command that leaves lock and daemons alone needs: it is not about
\* to hold the lock.
LEMMA GoLocked ==
    ASSUME TypeOK, Locked, NEW t \in Terminals, NEW s, s # "probe",
           pc' = [pc EXCEPT ![t] = s], lock' = lock, daemon' = daemon
    PROVE  Locked'
  BY DEF Locked, TypeOK

LEMMA CommandLocked ==
    ASSUME ServiceInv, NEW t \in Terminals, CommandStep(t)
    PROVE  Locked'
<1>1. TypeOK /\ HasNumber /\ Locked
  BY DEF ServiceInv
<1>2. /\ None \notin Terminals \cup Pids /\ Terminals \cap Pids = {}
  BY FanAssumption DEF FanAssumption
<1>3. CASE lock' = lock /\ daemon' = daemon /\ \E s : s # "probe" /\ pc' = [pc EXCEPT ![t] = s]
  BY <1>1, <1>3, GoLocked
<1>4. CASE ReadPid(t) \/ JudgePid(t) \/ DropState(t) \/ ForgetState(t)
  <2>1. lock' = lock /\ daemon' = daemon
    BY <1>4 DEF ReadPid, JudgePid, DropState, ForgetState, shared, daemons
  <2>2. \E s : s # "probe" /\ pc' = [pc EXCEPT ![t] = s]
    BY <1>4 DEF ReadPid, JudgePid, DropState, ForgetState, Found, NotFound, AfterStop,
                Ask, Goto, Go, Ends
  <2> QED
    BY <1>3, <2>1, <2>2
<1>5. CASE \/ DropPid(t) \/ PollGone(t) \/ PollTimesOut(t) \/ ForgetPid(t) \/ WaitTimesOut(t)
           \/ Report(t) \/ OrphanCheck(t) \/ CleanPid(t) \/ CleanState(t) \/ RestoreAuto(t)
           \/ Choose(t)
  <2>1. lock' = lock /\ daemon' = daemon
    BY <1>5 DEF DropPid, PollGone, PollTimesOut, ForgetPid, WaitTimesOut, Report,
                OrphanCheck, CleanPid, CleanState, RestoreAuto, Choose, shared, daemons
  <2>2. \E s : s # "probe" /\ pc' = [pc EXCEPT ![t] = s]
    BY <1>5 DEF DropPid, PollGone, PollTimesOut, ForgetPid, WaitTimesOut, Report,
                OrphanCheck, CleanPid, CleanState, RestoreAuto, Choose, Goto, Go, Ends
  <2> QED
    BY <1>3, <2>1, <2>2
<1>6. CASE Signal(t)
  <2>1. pid[t] \in Pids
    BY <1>1, <1>6 DEF Signal, HasNumber
  <2>2. pc' \in [Terminals -> {pc[u] : u \in Terminals} \cup {"forgetpid", "poll"}]
        /\ \A u \in Terminals : pc'[u] = "probe" => pc[u] = "probe"
    BY <1>1, <1>6 DEF Signal, Goto, Go, TypeOK
  <2>3. CASE lock' = lock /\ daemon' = daemon
    BY <1>1, <2>2, <2>3 DEF Locked
  <2>4. CASE Dies(pid[t])
    <3>1. /\ daemon'[pid[t]] = "dead" /\ "dead" \notin Holding
          /\ \A q \in Pids \ {pid[t]} : daemon'[q] = daemon[q]
      BY <1>1, <2>1, <2>4 DEF Dies, Becomes, TypeOK, Holding, Early, Obedient, Ending
    <3>2. lock' = IF lock = pid[t] THEN None ELSE lock
      BY <2>4 DEF Dies
    <3> QED
      BY <1>1, <1>2, <2>1, <2>2, <3>1, <3>2 DEF Locked
  <2> QED
    BY <1>6, <2>3, <2>4 DEF Signal, shared, daemons
<1>7. CASE ProbeLock(t)
  <2>1. lock = None /\ lock' = t /\ daemon' = daemon /\ pc' = [pc EXCEPT ![t] = "probe"]
    BY <1>7 DEF ProbeLock, Goto, Go, daemons
  <2> QED
    BY <1>1, <1>2, <2>1 DEF Locked, TypeOK
<1>8. CASE ProbeDone(t)
  <2>1. pc[t] = "probe" /\ lock' = None /\ daemon' = daemon /\ pc' = [pc EXCEPT ![t] = "spawn"]
    BY <1>8 DEF ProbeDone, Goto, Go, daemons
  <2> QED
    BY <1>1, <1>2, <2>1 DEF Locked, TypeOK
<1>9. ASSUME NEW p \in Pids, Spawn(t, p)
      PROVE  Locked'
  <2>1. /\ lock' = lock /\ pc' = [pc EXCEPT ![t] = "sleep"]
        /\ daemon' = [daemon EXCEPT ![p] = "boot"]
    BY <1>9 DEF Spawn, Go, Becomes, shared
  <2>2. "boot" \notin Holding
    BY DEF Holding
  <2> QED
    BY <1>1, <2>1, <2>2 DEF Locked, TypeOK
<1> QED
  BY <1>4, <1>5, <1>6, <1>7, <1>8, <1>9 DEF CommandStep

LEMMA InvokeLocked ==
    ASSUME ServiceInv, NEW t \in Terminals,
           (\E c \in Commands : Invoke(t, c)) \/ Interrupt(t)
    PROVE  Locked'
<1>1. TypeOK /\ Locked
  BY DEF ServiceInv
<1>2. CASE \E c \in Commands : Invoke(t, c)
  BY <1>1, <1>2, GoLocked DEF Invoke, shared, daemons
<1>3. CASE Interrupt(t)
  <2>1. /\ daemon' = daemon /\ pc' = [pc EXCEPT ![t] = "idle"]
        /\ lock' = IF lock = t THEN None ELSE lock
    BY <1>3 DEF Interrupt, Ends, daemons
  <2>2. Terminals \cap Pids = {}
    BY FanAssumption DEF FanAssumption
  <2> QED
    BY <1>1, <2>1, <2>2 DEF Locked, TypeOK
<1> QED
  BY <1>2, <1>3

LEMMA NextInv == ServiceInv /\ [Next]_vars => ServiceInv'
<1> SUFFICES ASSUME ServiceInv, [Next]_vars PROVE ServiceInv'
  OBVIOUS
<1>1. TypeOK /\ HasNumber
  BY DEF ServiceInv
<1>2. ASSUME NEW p \in Pids, DaemonStep(p) \/ GiveUp(p) \/ Crash(p)
      PROVE  ServiceInv'
  BY <1>1, <1>2, DaemonType, DaemonLocked DEF ServiceInv
<1>3. ASSUME NEW t \in Terminals, CommandStep(t)
      PROVE  ServiceInv'
  BY <1>1, <1>3, CommandType, CommandNumber, CommandLocked DEF ServiceInv
<1>4. ASSUME NEW t \in Terminals, (\E c \in Commands : Invoke(t, c)) \/ Interrupt(t)
      PROVE  ServiceInv'
  BY <1>1, <1>4, InvokeType, InvokeLocked DEF ServiceInv
<1>5. CASE UNCHANGED vars
  BY <1>5 DEF ServiceInv, TypeOK, HasNumber, Locked, vars, shared, daemons, locals
<1> QED
  BY <1>2, <1>3, <1>4, <1>5 DEF Next

\* Processes, files, lock and commands keep their types, whatever the number of
\* terminals and daemons and whatever goes wrong (`vserve fan`, run_daemon).
THEOREM ServiceTypeCorrect == Spec => []TypeOK
<1>1. Init => ServiceInv
  BY InitInv
<1>2. ServiceInv => TypeOK
  BY DEF ServiceInv
<1> QED
  BY <1>1, <1>2, NextInv, PTL DEF Spec

\* At most one daemon is anywhere between taking the lock and giving it back, crashes
\* and interrupted commands included: two never drive the fans at once.
THEOREM OneDaemon ==
    Spec => [](\A p, q \in Pids : daemon[p] \in Holding /\ daemon[q] \in Holding => p = q)
<1>1. Init => ServiceInv
  BY InitInv
<1>2. ServiceInv =>
        \A p, q \in Pids : daemon[p] \in Holding /\ daemon[q] \in Holding => p = q
  BY DEF ServiceInv, Locked
<1> QED
  BY <1>1, <1>2, NextInv, PTL DEF Spec

------------------------------------------------------------------------------
(* The fans come back.                                                     *)

\* What may go wrong is settled at the start.
LEMMA FaultsFixed == ASSUME Next PROVE faults' = faults
<1>1. ASSUME NEW p \in Pids, DaemonStep(p) \/ GiveUp(p) \/ Crash(p)
      PROVE  faults' = faults
  BY <1>1
     DEF DaemonStep, GiveUp, Crash, Acquire, LockBusy, OpenPid, WritePid, WriteState,
         WriteFails, InstallHandlers, TakeControl, ControlFails, NvmlUnavailable, Obey,
         Restore, RestoreFails, UnlinkPid, UnlinkState, Release, Leave, At, locals
<1>2. ASSUME NEW t \in Terminals,
             \/ CommandStep(t) \/ Interrupt(t) \/ \E c \in Commands : Invoke(t, c)
      PROVE  faults' = faults
  BY <1>2
     DEF CommandStep, ReadPid, JudgePid, DropPid, DropState, Signal, PollGone,
         PollTimesOut, ForgetPid, ForgetState, ProbeLock, ProbeDone, WaitTimesOut, Spawn,
         Report, OrphanCheck, CleanPid, CleanState, RestoreAuto, Choose, Interrupt,
         Invoke, Found, NotFound, AfterStop, Ask, Goto, Go, Ends
<1> QED
  BY <1>1, <1>2 DEF Next

\* Without crashes and refused restorations, whoever took control of the fans is still
\* there to give them back: a signal ends a daemon at once only in its early stages.
LEMMA DaemonAttends ==
    ASSUME TypeOK, Attended, faults' = faults, NEW p \in Pids,
           DaemonStep(p) \/ GiveUp(p) \/ Crash(p)
    PROVE  Attended'
<1>1. CASE manual' = FALSE
  BY <1>1 DEF Attended
<1>2. ASSUME NEW s, NEW n \in {"run", "restore"}, At(p, s, n)
      PROVE  Attended'
  BY <1>2 DEF Attended, At, Becomes, TypeOK
<1>3. ASSUME manual' = manual, daemon[p] \notin {"run", "restore"},
             \A q \in Pids \ {p} : daemon'[q] = daemon[q]
      PROVE  Attended'
  BY <1>3 DEF Attended
<1>4. CASE TakeControl(p) \/ ControlFails(p) \/ Obey(p) \/ GiveUp(p)
  BY <1>2, <1>4 DEF TakeControl, ControlFails, Obey, GiveUp
<1>5. CASE Restore(p)
  BY <1>1, <1>5 DEF Restore
<1>6. CASE \/ Acquire(p) \/ LockBusy(p) \/ OpenPid(p) \/ WritePid(p) \/ WriteState(p)
           \/ WriteFails(p) \/ InstallHandlers(p) \/ NvmlUnavailable(p) \/ UnlinkPid(p)
           \/ UnlinkState(p) \/ Release(p) \/ Leave(p)
  <2>1. manual' = manual /\ daemon[p] \notin {"run", "restore"}
    BY <1>6 DEF Acquire, LockBusy, OpenPid, WritePid, WriteState, WriteFails,
                InstallHandlers, NvmlUnavailable, UnlinkPid, UnlinkState, Release, Leave,
                At, Dies, shared
  <2>2. \A q \in Pids \ {p} : daemon'[q] = daemon[q]
    BY <1>6 DEF Acquire, LockBusy, OpenPid, WritePid, WriteState, WriteFails,
                InstallHandlers, NvmlUnavailable, UnlinkPid, UnlinkState, Release, Leave,
                At, Dies, Becomes, TypeOK
  <2> QED
    BY <1>3, <2>1, <2>2
<1>7. CASE RestoreFails(p) \/ Crash(p)
  BY <1>7 DEF RestoreFails, Crash, Attended
<1> QED
  BY <1>4, <1>5, <1>6, <1>7 DEF DaemonStep

LEMMA CommandAttends ==
    ASSUME TypeOK, HasNumber, Attended, faults' = faults, NEW t \in Terminals,
           \/ CommandStep(t) \/ Interrupt(t) \/ \E c \in Commands : Invoke(t, c)
    PROVE  Attended'
<1>1. CASE daemon' = daemon /\ (manual' = manual \/ manual' = FALSE)
  BY <1>1 DEF Attended
<1>2. CASE \/ ReadPid(t) \/ JudgePid(t) \/ DropPid(t) \/ DropState(t) \/ PollGone(t)
           \/ PollTimesOut(t) \/ ForgetPid(t) \/ ForgetState(t) \/ ProbeLock(t)
           \/ ProbeDone(t) \/ WaitTimesOut(t) \/ Report(t) \/ OrphanCheck(t) \/ CleanPid(t)
           \/ CleanState(t) \/ RestoreAuto(t) \/ Choose(t) \/ Interrupt(t)
           \/ \E c \in Commands : Invoke(t, c)
  BY <1>1, <1>2
     DEF ReadPid, JudgePid, DropPid, DropState, PollGone, PollTimesOut, ForgetPid,
         ForgetState, ProbeLock, ProbeDone, WaitTimesOut, Report, OrphanCheck, CleanPid,
         CleanState, RestoreAuto, Choose, Interrupt, Invoke, shared, daemons
<1>3. CASE Signal(t)
  <2>1. pid[t] \in Pids
    BY <1>3 DEF Signal, HasNumber
  <2>2. CASE daemon[pid[t]] \in Early /\ Dies(pid[t])
    <3>1. /\ manual' = manual
          /\ \A q \in Pids : daemon[q] \in {"run", "restore"} => daemon'[q] = daemon[q]
      BY <2>1, <2>2 DEF Dies, Becomes, TypeOK, Early
    <3> QED
      BY <3>1 DEF Attended
  <2> QED
    BY <1>1, <1>3, <2>2 DEF Signal, shared, daemons
<1>4. ASSUME NEW p \in Pids, Spawn(t, p)
      PROVE  Attended'
  <2>1. manual' = manual
        /\ \A q \in Pids : daemon[q] \in {"run", "restore"} => daemon'[q] = daemon[q]
    BY <1>4 DEF Spawn, Alive, Becomes, TypeOK, shared
  <2> QED
    BY <2>1 DEF Attended
<1> QED
  BY <1>2, <1>3, <1>4 DEF CommandStep

LEMMA NextAttended == ServiceInv /\ Attended /\ [Next]_vars => Attended'
<1> SUFFICES ASSUME ServiceInv, Attended, [Next]_vars PROVE Attended'
  OBVIOUS
<1>1. TypeOK /\ HasNumber
  BY DEF ServiceInv
<1>2. CASE UNCHANGED vars
  BY <1>2 DEF Attended, vars, shared, daemons, locals
<1> QED
  BY <1>1, <1>2, FaultsFixed, DaemonAttends, CommandAttends DEF Next

\* However commands, signals and the start and end of daemons interleave, fans under
\* manual control have a daemon as long as none is killed by force and NVML does not
\* refuse automatic control (run_daemon's handlers and its finally).
THEOREM AutoReturns == Spec => []AutoWithoutDaemon
<1> DEFINE I == ServiceInv /\ Attended
<1>1. Init => I
  BY InitInv
<1>2. I /\ [Next]_vars => I'
  BY NextInv, NextAttended
<1>3. I => AutoWithoutDaemon
  BY DEF Attended, AutoWithoutDaemon, Alive
<1> QED
  BY <1>1, <1>2, <1>3, PTL DEF Spec

------------------------------------------------------------------------------
(* From one terminal.                                                      *)

\* A daemon that has the fans, or has yet to give them back.
Serving == {"run", "restore"}

\* Until its handlers are installed the command that started a daemon waits for it.
StartWatched(t) ==
    \A p \in Pids : daemon[p] \in Early \cup {"ready"} =>
        pc[t] = "sleep" /\ pid[t] = p /\ asker[t] = "stop"

\* A command that meets a serving daemon has read its number, and is at no stage that
\* takes the files for nobody's.
Respected(t) ==
    \A p \in Pids : daemon[p] \in Serving =>
        /\ asker[t] # "orphan"
        /\ \/ pc[t] \in {"idle", "read", "choose", "sleep"}
           \/ pc[t] \in {"judge", "signal", "poll"} /\ pid[t] = p

\* What a daemon has written is there until it removes it.
FilesNamed ==
    \A p \in Pids :
        /\ daemon[p] = "opened" => pidFile = Empty
        /\ daemon[p] \in {"named", "stated", "ready"} \cup Serving => pidFile = p
        /\ daemon[p] \in {"stated", "ready"} \cup Serving => stateFile

FansHeld == \A p \in Pids : daemon[p] = "run" => manual

Alone(t) ==
    faults \subseteq {"crash", "restore"} =>
        StartWatched(t) /\ Respected(t) /\ FilesNamed /\ FansHeld

LEMMA DaemonAlone ==
    ASSUME ServiceInv, NEW t \in Terminals, Alone(t), faults' = faults,
           NEW p \in Pids, DaemonStep(p) \/ GiveUp(p) \/ Crash(p)
    PROVE  Alone(t)'
<1> SUFFICES ASSUME faults \subseteq {"crash", "restore"}
             PROVE  (StartWatched(t) /\ Respected(t) /\ FilesNamed /\ FansHeld)'
  BY DEF Alone
<1>0. /\ TypeOK /\ StartWatched(t) /\ Respected(t) /\ FilesNamed /\ FansHeld
      /\ \A q \in Pids : daemon[q] \in Holding => lock = q
  BY DEF ServiceInv, Alone, Locked
<1>1. pc' = pc /\ asker' = asker /\ pid' = pid
  BY DEF DaemonStep, GiveUp, Crash, Acquire, LockBusy, OpenPid, WritePid, WriteState,
         WriteFails, InstallHandlers, TakeControl, ControlFails, NvmlUnavailable, Obey,
         Restore, RestoreFails, UnlinkPid, UnlinkState, Release, Leave, At, locals
<1>2. \A q \in Pids \ {p} : daemon'[q] = daemon[q]
  BY <1>0
     DEF DaemonStep, GiveUp, Crash, Acquire, LockBusy, OpenPid, WritePid, WriteState,
         WriteFails, InstallHandlers, TakeControl, ControlFails, NvmlUnavailable, Obey,
         Restore, RestoreFails, UnlinkPid, UnlinkState, Release, Leave, At, Dies, Becomes,
         TypeOK
\* Who changes a file or the fans holds the lock, so that nobody else is serving.
<1>3. ASSUME NEW q \in Pids \ {p}, daemon[q] \in Holding
      PROVE  daemon[p] \notin Holding
  BY <1>0, <1>3
<1>4. ASSUME daemon[p] \notin Holding
      PROVE  /\ UNCHANGED <<pidFile, stateFile, manual>>
             /\ daemon'[p] \in {"locked", "exit", "dead"}
             /\ daemon'[p] = "locked" => daemon[p] = "boot"
  BY <1>0, <1>4
     DEF DaemonStep, GiveUp, Crash, Acquire, LockBusy, OpenPid, WritePid, WriteState,
         WriteFails, InstallHandlers, TakeControl, ControlFails, NvmlUnavailable, Obey,
         Restore, RestoreFails, UnlinkPid, UnlinkState, Release, Leave, At, Dies, Becomes,
         TypeOK, Holding, Early, Obedient, Ending, shared
<1>5. StartWatched(t)'
  <2>1. daemon'[p] \in Early \cup {"ready"} => daemon[p] \in Early \cup {"ready"}
    BY <1>0
       DEF DaemonStep, GiveUp, Crash, Acquire, LockBusy, OpenPid, WritePid, WriteState,
           WriteFails, InstallHandlers, TakeControl, ControlFails, NvmlUnavailable, Obey,
           Restore, RestoreFails, UnlinkPid, UnlinkState, Release, Leave, At, Dies, Becomes,
           TypeOK, Early
  <2> QED
    BY <1>0, <1>1, <1>2, <2>1 DEF StartWatched
<1>6. Respected(t)'
  <2>1. daemon'[p] \in Serving => daemon[p] \in {"ready"} \cup Serving
    BY <1>0
       DEF DaemonStep, GiveUp, Crash, Acquire, LockBusy, OpenPid, WritePid, WriteState,
           WriteFails, InstallHandlers, TakeControl, ControlFails, NvmlUnavailable, Obey,
           Restore, RestoreFails, UnlinkPid, UnlinkState, Release, Leave, At, Dies, Becomes,
           TypeOK, Serving
  <2> QED
    BY <1>0, <1>1, <1>2, <2>1 DEF StartWatched, Respected
<1>7. FilesNamed' /\ FansHeld'
  <2>1. ASSUME NEW q \in Pids \ {p}, daemon[q] \in Holding
        PROVE  daemon'[q] = daemon[q] /\ UNCHANGED <<pidFile, stateFile, manual>>
    BY <1>2, <1>3, <1>4, <2>1
  <2>2. {"opened", "named", "stated", "ready", "run", "restore"} \subseteq Holding
    BY DEF Holding, Early, Obedient, Ending
  <2>3. \A q \in Pids \ {p} :
            /\ daemon'[q] = "opened" => pidFile' = Empty
            /\ daemon'[q] \in {"named", "stated", "ready"} \cup Serving => pidFile' = q
            /\ daemon'[q] \in {"stated", "ready"} \cup Serving => stateFile'
            /\ daemon'[q] = "run" => manual'
    BY <1>0, <1>2, <2>1, <2>2 DEF FilesNamed, FansHeld, Serving
  <2>4. /\ daemon'[p] = "opened" => pidFile' = Empty
        /\ daemon'[p] \in {"named", "stated", "ready"} \cup Serving => pidFile' = p
        /\ daemon'[p] \in {"stated", "ready"} \cup Serving => stateFile'
        /\ daemon'[p] = "run" => manual'
    BY <1>0
       DEF DaemonStep, GiveUp, Crash, Acquire, LockBusy, OpenPid, WritePid, WriteState,
           WriteFails, InstallHandlers, TakeControl, ControlFails, NvmlUnavailable, Obey,
           Restore, RestoreFails, UnlinkPid, UnlinkState, Release, Leave, At, Dies, Becomes,
           TypeOK, Serving, FilesNamed, FansHeld, shared
  <2> QED
    BY <2>3, <2>4 DEF FilesNamed, FansHeld
<1> QED
  BY <1>5, <1>6, <1>7

\* What no step of the only command may do to a serving daemon.
Stays(t) ==
    \A p \in Pids : daemon[p] \in Serving =>
        /\ asker'[t] # "orphan"
        /\ \/ pc'[t] \in {"idle", "read", "choose", "sleep"}
           \/ pc'[t] \in {"judge", "signal", "poll"} /\ pid'[t] = p

Unserved == \A p \in Pids : daemon[p] \notin Serving

\* Steps of the command that leave the daemons and, where there is one, its files and
\* its fans alone.
LEMMA CalmAlone ==
    ASSUME TypeOK, NEW t \in Terminals, Alone(t), faults' = faults, daemon' = daemon,
           faults \subseteq {"crash", "restore"} =>
               /\ pc[t] # "sleep" \/ \A p \in Pids : daemon[p] \notin Early \cup {"ready"}
               /\ Stays(t)
               /\ Unserved \/ UNCHANGED <<pidFile, stateFile, manual>>
    PROVE  Alone(t)'
<1> SUFFICES ASSUME faults \subseteq {"crash", "restore"}
             PROVE  (StartWatched(t) /\ Respected(t) /\ FilesNamed /\ FansHeld)'
  BY DEF Alone
<1>1. StartWatched(t) /\ Respected(t) /\ FilesNamed /\ FansHeld
  BY DEF Alone
<1>2. \A p \in Pids : daemon[p] \notin Early \cup {"ready"}
  BY <1>1 DEF StartWatched
<1>3. StartWatched(t)'
  BY <1>2 DEF StartWatched
<1>4. Respected(t)'
  BY DEF Stays, Respected
<1>5. FilesNamed' /\ FansHeld'
  BY <1>1, <1>2 DEF FilesNamed, FansHeld, Unserved, Serving, Early
<1> QED
  BY <1>3, <1>4, <1>5

LEMMA NotFoundStays ==
    ASSUME TypeOK, NEW t \in Terminals, NotFound(t) \/ AfterStop(t), Unserved
    PROVE  Stays(t)
  BY DEF Stays, Unserved

LEMMA FoundStays ==
    ASSUME TypeOK, NEW t \in Terminals, Respected(t), Found(t), pc[t] = "judge"
    PROVE  Stays(t)
  BY DEF Stays, Respected, Found, Ask, Goto, Go, Ends, TypeOK

LEMMA CommandAlone ==
    ASSUME ServiceInv, NEW t \in Terminals, Alone(t), faults' = faults, CommandStep(t)
    PROVE  Alone(t)'
<1>0. TypeOK /\ HasNumber
  BY DEF ServiceInv
<1> SUFFICES ASSUME faults \subseteq {"crash", "restore"}
             PROVE  Alone(t)'
  BY DEF Alone
<1>1. StartWatched(t) /\ Respected(t) /\ FilesNamed /\ FansHeld
  BY DEF Alone
<1>2. "slow" \notin faults
  OBVIOUS
<1>3. pc[t] # "sleep" => \A p \in Pids : daemon[p] \notin Early \cup {"ready"}
  BY <1>1 DEF StartWatched
\* The stages at which no daemon serves.
<1>4. ASSUME pc[t] \notin {"idle", "read", "choose", "sleep", "judge", "signal", "poll"}
      PROVE  Unserved
  BY <1>1, <1>4 DEF Respected, Unserved
<1>5. CASE ReadPid(t)
  <2>1. CASE pidFile = None \/ pidFile = Empty
    <3>1. Unserved
      BY <1>1, <2>1, FanAssumption DEF FilesNamed, Unserved, Serving, FanAssumption
    <3>2. Stays(t)
      BY <3>1 DEF Stays, Unserved
    <3> QED
      BY <1>0, <1>3, <1>5, <3>2, CalmAlone DEF ReadPid, shared, daemons
  <2>2. CASE Go(t, "judge", asker[t], pidFile)
    <3>1. Stays(t)
      BY <1>0, <1>1, <2>2 DEF Stays, Respected, FilesNamed, Go, TypeOK
    <3> QED
      BY <1>0, <1>3, <1>5, <3>1, CalmAlone DEF ReadPid, shared, daemons
  <2> QED
    BY <1>5, <2>1, <2>2 DEF ReadPid
<1>6. CASE JudgePid(t)
  <2>1. CASE Found(t)
    <3>1. Stays(t)
      BY <1>0, <1>1, <1>6, <2>1, FoundStays DEF JudgePid
    <3> QED
      BY <1>0, <1>3, <1>6, <3>1, CalmAlone DEF JudgePid, shared, daemons
  <2>2. CASE ~Alive(pid[t])
    <3>1. Unserved
      BY <1>1, <1>6, <2>2 DEF JudgePid, Respected, Unserved, Alive, Serving
    <3>2. Stays(t)
      BY <3>1 DEF Stays, Unserved
    <3> QED
      BY <1>0, <1>3, <1>6, <3>2, CalmAlone DEF JudgePid, shared, daemons
  <2> QED
    BY <1>6, <2>1, <2>2 DEF JudgePid
<1>7. CASE \/ DropPid(t) \/ DropState(t) \/ ForgetPid(t) \/ ForgetState(t) \/ ProbeLock(t)
           \/ ProbeDone(t) \/ WaitTimesOut(t) \/ OrphanCheck(t) \/ CleanPid(t)
           \/ CleanState(t) \/ RestoreAuto(t)
  <2>1. pc[t] \in {"unpid", "unstate", "forgetpid", "forgetstate", "wait", "probe", "exists",
                   "cleanpid", "cleanstate", "auto"}
    BY <1>7 DEF DropPid, DropState, ForgetPid, ForgetState, ProbeLock, ProbeDone,
                WaitTimesOut, OrphanCheck, CleanPid, CleanState, RestoreAuto
  <2>2. Unserved
    BY <1>4, <2>1
  <2>3. Stays(t)
    BY <2>2 DEF Stays, Unserved
  <2>4. daemon' = daemon
    BY <1>7 DEF DropPid, DropState, ForgetPid, ForgetState, ProbeLock, ProbeDone,
                WaitTimesOut, OrphanCheck, CleanPid, CleanState, RestoreAuto, shared, daemons
  <2> QED
    BY <1>0, <1>3, <2>1, <2>2, <2>3, <2>4, CalmAlone
<1>8. CASE Signal(t)
  <2>1. pid[t] \in Pids /\ pc[t] = "signal"
    BY <1>0, <1>8 DEF Signal, HasNumber
  <2>2. ASSUME ~Alive(pid[t]) PROVE Unserved
    BY <1>1, <2>1, <2>2 DEF Respected, Unserved, Alive, Serving
  <2>3. daemon[pid[t]] \notin Early
    BY <1>3, <2>1
  <2>4. UNCHANGED <<daemon, pidFile, stateFile, manual>>
    BY <1>8, <2>3 DEF Signal, shared, daemons
  <2>5. Stays(t)
    <3>1. CASE ~Alive(pid[t])
      BY <2>2, <3>1 DEF Stays, Unserved
    <3>2. CASE Alive(pid[t])
      <4>1. Goto(t, "poll")
        BY <1>8, <3>2 DEF Signal
      <4> QED
        BY <1>0, <1>1, <2>1, <4>1 DEF Stays, Respected, Goto, Go, TypeOK
    <3> QED
      BY <3>1, <3>2
  <2> QED
    BY <1>0, <1>3, <2>1, <2>4, <2>5, CalmAlone
<1>9. CASE PollGone(t)
  <2>1. Unserved
    BY <1>1, <1>9 DEF PollGone, Respected, Unserved, Alive, Serving
  <2>2. Stays(t)
    BY <2>1 DEF Stays, Unserved
  <2> QED
    BY <1>0, <1>3, <1>9, <2>1, <2>2, CalmAlone DEF PollGone, shared, daemons
<1>10. CASE PollTimesOut(t)
  BY <1>2, <1>10 DEF PollTimesOut
<1>11. ASSUME NEW p \in Pids, Spawn(t, p)
       PROVE  Alone(t)'
  <2>1. /\ pc[t] = "spawn" /\ daemon' = [daemon EXCEPT ![p] = "boot"]
        /\ pc' = [pc EXCEPT ![t] = "sleep"] /\ pid' = [pid EXCEPT ![t] = p]
        /\ asker' = [asker EXCEPT ![t] = "stop"]
        /\ UNCHANGED <<pidFile, stateFile, manual>>
    BY <1>11 DEF Spawn, Becomes, Go, shared
  <2>2. Unserved
    BY <1>4, <2>1
  <2>3. /\ \A q \in Pids \ {p} : daemon'[q] = daemon[q]
        /\ daemon'[p] = "boot"
        /\ pc'[t] = "sleep" /\ pid'[t] = p /\ asker'[t] = "stop"
    BY <1>0, <2>1 DEF TypeOK
  <2>4. \A q \in Pids : daemon'[q] \in Early \cup {"ready"} => q = p
    BY <1>3, <2>1, <2>3
  <2>5. \A q \in Pids : daemon'[q] \notin Serving
    BY <2>2, <2>3 DEF Unserved, Serving
  <2>6. StartWatched(t)'
    BY <2>3, <2>4 DEF StartWatched
  <2>7. Respected(t)'
    BY <2>5 DEF Respected
  <2>8. FilesNamed' /\ FansHeld'
    BY <2>3, <2>4, <2>5 DEF FilesNamed, FansHeld, Serving, Early
  <2> QED
    BY <2>6, <2>7, <2>8 DEF Alone
<1>12. CASE Report(t)
  <2>1. \A p \in Pids : daemon[p] \notin Early \cup {"ready"}
    BY <1>1, <1>2, <1>12 DEF Report, StartWatched, Alive, Early
  <2>2. Stays(t)
    BY <1>0, <1>12 DEF Report, Ends, Stays, TypeOK
  <2> QED
    BY <1>0, <1>12, <2>1, <2>2, CalmAlone DEF Report, shared, daemons
<1>13. CASE Choose(t)
  <2>1. pc'[t] \in {"idle", "read"} /\ asker'[t] = "stop" /\ pc[t] = "choose"
    BY <1>0, <1>13 DEF Choose, Ends, TypeOK
  <2>2. Stays(t)
    BY <2>1 DEF Stays
  <2> QED
    BY <1>0, <1>3, <1>13, <2>1, <2>2, CalmAlone DEF Choose, shared, daemons
<1> QED
  BY <1>5, <1>6, <1>7, <1>8, <1>9, <1>10, <1>11, <1>12, <1>13 DEF CommandStep

LEMMA InvokeAlone ==
    ASSUME ServiceInv, NEW t \in Terminals, Alone(t), faults' = faults,
           (\E c \in Commands : Invoke(t, c)) \/ Interrupt(t)
    PROVE  Alone(t)'
<1>0. TypeOK
  BY DEF ServiceInv
<1>1. ASSUME NEW c \in Commands, Invoke(t, c)
      PROVE  Alone(t)'
  <2>1. c \in {"start", "off", "menu"}
    BY FanAssumption DEF FanAssumption
  <2>2. FirstAsker[c] # "orphan"
    BY <2>1 DEF FirstAsker
  <2>3. pc'[t] = "read" /\ asker'[t] # "orphan" /\ pc[t] = "idle"
    BY <1>0, <1>1, <2>2 DEF Invoke, TypeOK
  <2>4. Stays(t)
    BY <2>3 DEF Stays
  <2>5. faults \subseteq {"crash", "restore"} =>
            \A p \in Pids : daemon[p] \notin Early \cup {"ready"}
    BY <2>3 DEF Alone, StartWatched
  <2> QED
    BY <1>0, <1>1, <2>3, <2>4, CalmAlone DEF Invoke, shared, daemons
<1>2. CASE Interrupt(t)
  BY <1>2 DEF Interrupt, Alone
<1> QED
  BY <1>1, <1>2

AloneInv == \A t \in Terminals : Alone(t)

LEMMA AloneHolds == ASSUME OneTerminal PROVE Spec => [](ServiceInv /\ AloneInv)
<1>1. Init => AloneInv
  BY DEF Init, AloneInv, Alone, StartWatched, Respected, FilesNamed, FansHeld, Serving, Early
<1>2. ServiceInv /\ AloneInv /\ [Next]_vars => AloneInv'
  <2> SUFFICES ASSUME ServiceInv, AloneInv, [Next]_vars, NEW t \in Terminals
               PROVE  Alone(t)'
    BY DEF AloneInv
  <2>1. Alone(t)
    BY DEF AloneInv
  <2>2. CASE UNCHANGED vars
    BY <2>1, <2>2 DEF Alone, StartWatched, Respected, FilesNamed, FansHeld,
                      vars, shared, daemons, locals
  <2>3. CASE Next
    <3>1. faults' = faults
      BY <2>3, FaultsFixed
    <3>2. ASSUME NEW p \in Pids, DaemonStep(p) \/ GiveUp(p) \/ Crash(p)
          PROVE  Alone(t)'
      BY <2>1, <3>1, <3>2, DaemonAlone
    <3>3. ASSUME NEW u \in Terminals,
                 \/ CommandStep(u) \/ Interrupt(u) \/ \E c \in Commands : Invoke(u, c)
          PROVE  Alone(t)'
      <4>1. u = t
        BY DEF OneTerminal
      <4> QED
        BY <2>1, <3>1, <3>3, <4>1, CommandAlone, InvokeAlone
    <3> QED
      BY <2>3, <3>2, <3>3 DEF Next
  <2> QED
    BY <2>2, <2>3
<1> QED
  BY <1>1, <1>2, InitInv, NextInv, PTL DEF Spec

\* From one terminal a daemon in its loop can be found, however often daemons are
\* killed: the files name it (read_state, _daemon_pid, _write_state_file).
THEOREM FindableHolds ==
    ASSUME NEW t, Terminals = {t}
    PROVE  Spec => []Findable
<1>1. OneTerminal /\ t \in Terminals
  BY DEF OneTerminal
<1>2. AloneInv => Findable
  BY <1>1 DEF AloneInv, Alone, FilesNamed, Findable, Serving
<1> QED
  BY <1>1, <1>2, AloneHolds, PTL

\* A daemon in its loop has the fans: no late restoring, by its predecessor or by a
\* command, has put them back under automatic control (the lock, _clean_orphaned_fan).
THEOREM HasTheFansHolds ==
    ASSUME NEW t, Terminals = {t}
    PROVE  Spec => []HasTheFans
<1>1. OneTerminal /\ t \in Terminals
  BY DEF OneTerminal
<1>2. AloneInv => HasTheFans
  BY <1>1 DEF AloneInv, Alone, FansHeld, HasTheFans
<1> QED
  BY <1>1, <1>2, AloneHolds, PTL

------------------------------------------------------------------------------
(* What `vserve fan off` reports.                                          *)

\* A command reports once, when it ends.
ReportsLast ==
    \A t \in Terminals : cmd[t] # "none" \/ pc[t] # "idle" => report[t] = "none"

LEMMA ReportsLastHolds == TypeOK /\ ReportsLast /\ [Next]_vars => ReportsLast'
<1> SUFFICES ASSUME TypeOK, ReportsLast, [Next]_vars PROVE ReportsLast'
  OBVIOUS
<1>1. CASE UNCHANGED <<pc, cmd, report>>
  BY <1>1 DEF ReportsLast
<1>2. ASSUME NEW p \in Pids, DaemonStep(p) \/ GiveUp(p) \/ Crash(p)
      PROVE  ReportsLast'
  <2>1. UNCHANGED <<pc, cmd, report>>
    BY <1>2
       DEF DaemonStep, GiveUp, Crash, Acquire, LockBusy, OpenPid, WritePid, WriteState,
           WriteFails, InstallHandlers, TakeControl, ControlFails, NvmlUnavailable, Obey,
           Restore, RestoreFails, UnlinkPid, UnlinkState, Release, Leave, At, locals
  <2> QED
    BY <1>1, <2>1
<1>3. ASSUME NEW t \in Terminals, NEW r, Ends(t, r)
      PROVE  ReportsLast'
  BY <1>3 DEF Ends, ReportsLast, TypeOK
<1>4. ASSUME NEW t \in Terminals, CommandStep(t) \/ Interrupt(t)
      PROVE  ReportsLast'
  <2>1. pc[t] # "idle"
    BY <1>4
       DEF CommandStep, ReadPid, JudgePid, DropPid, DropState, Signal, PollGone,
           PollTimesOut, ForgetPid, ForgetState, ProbeLock, ProbeDone, WaitTimesOut, Spawn,
           Report, OrphanCheck, CleanPid, CleanState, RestoreAuto, Choose, Interrupt
  <2>2. \/ \E r : Ends(t, r)
        \/ /\ report' = report
           /\ \A u \in Terminals \ {t} : cmd'[u] = cmd[u] /\ pc'[u] = pc[u]
    BY <1>4
       DEF CommandStep, ReadPid, JudgePid, DropPid, DropState, Signal, PollGone,
           PollTimesOut, ForgetPid, ForgetState, ProbeLock, ProbeDone, WaitTimesOut, Spawn,
           Report, OrphanCheck, CleanPid, CleanState, RestoreAuto, Choose, Interrupt,
           Found, NotFound, AfterStop, Ask, Goto, Go, TypeOK
  <2> QED
    BY <1>3, <2>1, <2>2 DEF ReportsLast
<1>5. ASSUME NEW t \in Terminals, NEW c \in Commands, Invoke(t, c)
      PROVE  ReportsLast'
  BY <1>5 DEF Invoke, ReportsLast, TypeOK
<1>6. CASE UNCHANGED vars
  BY <1>1, <1>6 DEF vars, locals
<1> QED
  BY <1>2, <1>4, <1>5, <1>6 DEF Next

\* With one terminal, what a finished `off` says of the daemons is true: it reports
\* only from stages at which none serves.
LEMMA OffIsTruthful ==
    ASSUME ServiceInv, Attended, ReportsLast, NEW t \in Terminals, Alone(t), faults = {},
           CommandStep(t) \/ Interrupt(t) \/ \E c \in Commands : Invoke(t, c),
           cmd[t] = "off", report'[t] \in {"stopped", "nothing"}
    PROVE  ~manual' /\ \A p \in Pids : daemon'[p] \notin Obedient
<1>0. TypeOK /\ report[t] = "none"
  BY DEF ServiceInv, ReportsLast
<1>1. StartWatched(t) /\ Respected(t)
  BY DEF Alone
<1>2. ASSUME Unserved, pc[t] # "sleep", manual' = manual, daemon' = daemon
      PROVE  ~manual' /\ \A p \in Pids : daemon'[p] \notin Obedient
  BY <1>1, <1>2 DEF Attended, Unserved, Serving, StartWatched, Obedient
<1>3. CASE JudgePid(t)
  <2>1. Found(t) /\ asker[t] = "orphan"
    BY <1>0, <1>3 DEF JudgePid, Found, Ask, Goto, Go
  <2> QED
    BY <1>1, <1>2, <1>3, <2>1 DEF JudgePid, Respected, Unserved, shared, daemons
<1>4. CASE ForgetState(t) \/ OrphanCheck(t)
  <2>1. /\ pc[t] \in {"forgetstate", "exists"}
        /\ manual' = manual /\ daemon' = daemon
    BY <1>4 DEF ForgetState, OrphanCheck, shared, daemons
  <2> QED
    BY <1>1, <1>2, <2>1 DEF Respected, Unserved
<1>5. CASE \/ DropPid(t) \/ Signal(t) \/ PollGone(t) \/ ForgetPid(t) \/ ProbeLock(t)
           \/ ProbeDone(t) \/ CleanPid(t) \/ CleanState(t) \/ \E p \in Pids : Spawn(t, p)
  BY <1>0, <1>5 DEF DropPid, Signal, PollGone, ForgetPid, ProbeLock, ProbeDone, CleanPid,
                    CleanState, Spawn, Goto, Go
<1>6. CASE ReadPid(t) \/ DropState(t)
  BY <1>0, <1>6 DEF ReadPid, DropState, NotFound, AfterStop, Ask, Goto, Go
<1>7. CASE \/ PollTimesOut(t) \/ WaitTimesOut(t) \/ Report(t) \/ RestoreAuto(t)
           \/ Choose(t) \/ Interrupt(t)
  BY <1>0, <1>7 DEF PollTimesOut, WaitTimesOut, Report, RestoreAuto, Choose, Interrupt,
                    Ends, TypeOK
<1>8. CASE \E c \in Commands : Invoke(t, c)
  BY <1>0, <1>8 DEF Invoke, TypeOK
<1> QED
  BY <1>3, <1>4, <1>5, <1>6, <1>7, <1>8 DEF CommandStep

\* "vserve fan off - stop daemon, restore NVIDIA auto" (README.md 320): where nothing
\* goes wrong, when `off` has reported no daemon controls the fans, and they are
\* automatic.
THEOREM OffHolds ==
    ASSUME NEW only, Terminals = {only}
    PROVE  Spec => OffMeansAuto
<1>1. OneTerminal
  BY DEF OneTerminal
<1>2. Init => Attended /\ ReportsLast
  BY InitInv DEF Init, ReportsLast
<1>3. ServiceInv /\ Attended /\ [Next]_vars => Attended'
  BY NextAttended
<1>4. ServiceInv => TypeOK
  BY DEF ServiceInv
<1>5. ServiceInv /\ Attended /\ ReportsLast /\ AloneInv /\ [Next]_vars =>
        [ faults = {} =>
            \A t \in Terminals :
              cmd[t] = "off" /\ report'[t] \in {"stopped", "nothing"} =>
                ~manual' /\ \A p \in Pids : daemon'[p] \notin Obedient ]_vars
  <2> SUFFICES ASSUME ServiceInv, Attended, ReportsLast, AloneInv, Next, faults = {},
                      NEW t \in Terminals, cmd[t] = "off",
                      report'[t] \in {"stopped", "nothing"}
               PROVE  ~manual' /\ \A p \in Pids : daemon'[p] \notin Obedient
    OBVIOUS
  <2>1. report[t] = "none"
    BY DEF ReportsLast
  <2>2. ASSUME NEW p \in Pids, DaemonStep(p) \/ GiveUp(p) \/ Crash(p)
        PROVE  report' = report
    BY <2>2
       DEF DaemonStep, GiveUp, Crash, Acquire, LockBusy, OpenPid, WritePid, WriteState,
           WriteFails, InstallHandlers, TakeControl, ControlFails, NvmlUnavailable, Obey,
           Restore, RestoreFails, UnlinkPid, UnlinkState, Release, Leave, At, locals
  <2>3. PICK v \in Terminals :
            CommandStep(v) \/ Interrupt(v) \/ \E c \in Commands : Invoke(v, c)
    BY <2>1, <2>2 DEF Next
  <2>4. v = t /\ Alone(t)
    BY <1>1 DEF OneTerminal, AloneInv
  <2> QED
    BY <2>3, <2>4, OffIsTruthful
<1>6. Spec => [](ServiceInv /\ AloneInv)
  BY <1>1, AloneHolds
<1>7. Spec => [](Attended /\ ReportsLast)
  BY <1>2, <1>3, <1>4, <1>6, ReportsLastHolds, PTL DEF Spec
<1>8. Spec => OffMeansAuto
  BY <1>5, <1>6, <1>7, PTL DEF Spec, OffMeansAuto
<1> QED
  BY <1>8

------------------------------------------------------------------------------
(* One daemon after the other: FanDuty.                                    *)

OnDuty == Obedient \cup {"restore"}

DutyAt(s) == IF s = "ready" THEN "taking" ELSE IF s = "run" THEN "on"
             ELSE IF s = "restore" THEN "returning" ELSE "none"

\* The duty is that of the only daemon between taking the lock and giving it back.
LEMMA DutyOfOne ==
    ASSUME TypeOK, NEW p \in Pids, NEW n, \A q \in Pids \ {p} : daemon[q] \notin OnDuty,
           daemon' = [daemon EXCEPT ![p] = n]
    PROVE  DutyNow = DutyAt(daemon[p]) /\ DutyNow' = DutyAt(n)
<1>1. daemon'[p] = n /\ \A q \in Pids \ {p} : daemon'[q] = daemon[q]
  BY DEF TypeOK
<1>2. \A q \in Pids \ {p} : daemon[q] \notin {"ready", "run", "restore"}
  BY DEF OnDuty, Obedient
<1>3. DutyNow = DutyAt(daemon[p])
  BY <1>2 DEF DutyNow, DutyAt
<1>4. DutyNow' = DutyAt(n)
  BY <1>1, <1>2 DEF DutyNow, DutyAt
<1> QED
  BY <1>3, <1>4

\* Daemons that are not on duty come and go without changing it.
LEMMA DutySame ==
    ASSUME TypeOK, NEW p \in Pids, NEW n, daemon[p] \notin OnDuty, n \notin OnDuty,
           daemon' = [daemon EXCEPT ![p] = n]
    PROVE  DutyNow' = DutyNow
<1>1. \A q \in Pids : daemon'[q] = daemon[q]
          \/ (daemon'[q] \notin {"ready", "run", "restore"}
              /\ daemon[q] \notin {"ready", "run", "restore"})
  BY DEF TypeOK, OnDuty, Obedient
<1> QED
  BY <1>1 DEF DutyNow

LEMMA OneHolds ==
    ASSUME ServiceInv, NEW p \in Pids, daemon[p] \in Holding
    PROVE  \A q \in Pids \ {p} : daemon[q] \notin OnDuty
<1>1. OnDuty \subseteq Holding
  BY DEF OnDuty, Holding, Early, Obedient, Ending
<1> QED
  BY <1>1 DEF ServiceInv, Locked

\* From stage s to stage n under the lock.
LEMMA DutyStep ==
    ASSUME ServiceInv, NEW p \in Pids, NEW s \in Holding, NEW n, At(p, s, n)
    PROVE  DutyNow = DutyAt(s) /\ DutyNow' = DutyAt(n)
<1>1. daemon[p] = s /\ daemon' = [daemon EXCEPT ![p] = n] /\ TypeOK
  BY DEF At, Becomes, ServiceInv
<1>2. \A q \in Pids \ {p} : daemon[q] \notin OnDuty
  BY <1>1, OneHolds
<1> QED
  BY <1>1, <1>2, DutyOfOne

\* A daemon that dies, of itself, by a signal or by force, leaves its duty.
LEMMA DutyDies ==
    ASSUME ServiceInv, NEW p \in Pids, Dies(p)
    PROVE  DutyNow' = IF daemon[p] \in OnDuty THEN "none" ELSE DutyNow
<1>1. daemon' = [daemon EXCEPT ![p] = "dead"] /\ TypeOK
  BY DEF Dies, Becomes, ServiceInv
<1>2. "dead" \notin OnDuty /\ OnDuty \subseteq Holding
  BY DEF OnDuty, Holding, Early, Obedient, Ending
<1>3. CASE daemon[p] \in OnDuty
  <2>1. \A q \in Pids \ {p} : daemon[q] \notin OnDuty
    BY <1>2, <1>3, OneHolds
  <2>2. DutyNow' = DutyAt("dead")
    BY <1>1, <2>1, DutyOfOne
  <2> QED
    BY <1>3, <2>2 DEF DutyAt
<1>4. CASE daemon[p] \notin OnDuty
  BY <1>1, <1>2, <1>4, DutySame
<1> QED
  BY <1>3, <1>4

LEMMA DaemonOnDuty ==
    ASSUME ServiceInv, NEW p \in Pids, DutyFaults' = DutyFaults,
           DaemonStep(p) \/ GiveUp(p) \/ Crash(p)
    PROVE  [Duty!Next]_(Duty!vars)
<1>1. {"locked", "opened", "named", "stated", "undopid", "undostate", "undolock", "ready",
       "run", "restore", "unpid", "unstate", "unlock"} \subseteq Holding
  BY DEF Holding, Early, Obedient, Ending
<1>2. ASSUME NEW s \in Holding, NEW n, At(p, s, n), DutyAt(s) = DutyAt(n), manual' = manual
      PROVE  UNCHANGED Duty!vars
  <2>1. DutyNow' = DutyNow
    BY <1>2, DutyStep
  <2> QED
    BY <1>2, <2>1 DEF Duty!vars
<1>3. CASE Acquire(p) \/ LockBusy(p)
  <2>1. manual' = manual /\ TypeOK
        /\ \E n \in {"locked", "exit"} : daemon' = [daemon EXCEPT ![p] = n] /\ daemon[p] = "boot"
    BY <1>3 DEF Acquire, LockBusy, At, Becomes, shared, ServiceInv
  <2>2. {"boot", "locked", "exit"} \cap OnDuty = {}
    BY DEF OnDuty, Obedient
  <2>3. DutyNow' = DutyNow
    BY <2>1, <2>2, DutySame
  <2> QED
    BY <2>1, <2>3 DEF Duty!vars
<1>4. CASE \/ OpenPid(p) \/ WritePid(p) \/ WriteState(p) \/ WriteFails(p) \/ UnlinkPid(p)
           \/ UnlinkState(p) \/ Release(p)
  <2>1. manual' = manual
    BY <1>4 DEF OpenPid, WritePid, WriteState, WriteFails, UnlinkPid, UnlinkState, Release,
                shared
  <2>2. \E s \in Holding, n \in DaemonStages : At(p, s, n) /\ DutyAt(s) = DutyAt(n)
    BY <1>1, <1>4 DEF OpenPid, WritePid, WriteState, WriteFails, UnlinkPid, UnlinkState,
                      Release, DutyAt, DaemonStages, Early, Obedient, Ending
  <2> QED
    BY <1>2, <2>1, <2>2
<1>5. CASE InstallHandlers(p)
  <2>1. DutyNow = "none" /\ DutyNow' = "taking" /\ manual' = manual
    BY <1>1, <1>5, DutyStep DEF InstallHandlers, DutyAt, shared
  <2> QED
    BY <2>1 DEF Duty!Next, Duty!Begin, Duty!Becomes
<1>6. CASE TakeControl(p)
  <2>1. DutyNow = "taking" /\ DutyNow' = "on" /\ manual' = TRUE
    BY <1>1, <1>6, DutyStep DEF TakeControl, DutyAt
  <2> QED
    BY <2>1 DEF Duty!Next, Duty!Take, Duty!Becomes
<1>7. CASE ControlFails(p)
  <2>1. At(p, "ready", "restore") /\ manual' \in {manual, TRUE}
    BY <1>7 DEF ControlFails
  <2>2. DutyNow = "taking" /\ DutyNow' = "returning"
    BY <1>1, <2>1, DutyStep DEF DutyAt
  <2> QED
    BY <2>1, <2>2 DEF Duty!Next, Duty!TakeFails, Duty!Becomes
<1>8. CASE NvmlUnavailable(p)
  <2>1. DutyNow = "taking" /\ DutyNow' = "none" /\ manual' = manual
    BY <1>1, <1>8, DutyStep DEF NvmlUnavailable, DutyAt, shared
  <2> QED
    BY <2>1 DEF Duty!Next, Duty!Unable, Duty!Becomes
<1>9. CASE Obey(p) \/ GiveUp(p)
  <2>1. DutyNow = "on" /\ DutyNow' = "returning" /\ manual' = manual
    BY <1>1, <1>9, DutyStep DEF Obey, GiveUp, DutyAt, shared
  <2> QED
    BY <2>1 DEF Duty!Next, Duty!Leave, Duty!Becomes
<1>10. CASE Restore(p)
  <2>1. DutyNow = "returning" /\ DutyNow' = "none" /\ manual' = FALSE
    BY <1>1, <1>10, DutyStep DEF Restore, DutyAt
  <2> QED
    BY <2>1 DEF Duty!Next, Duty!GiveBack, Duty!Becomes
<1>11. CASE RestoreFails(p)
  <2>1. DutyNow = "returning" /\ DutyNow' = "none" /\ manual' = manual
    BY <1>1, <1>11, DutyStep DEF RestoreFails, DutyAt, shared
  <2>2. "restore" \in DutyFaults
    BY <1>11 DEF RestoreFails, DutyFaults
  <2> QED
    BY <2>1, <2>2 DEF Duty!Next, Duty!GiveBackFails, Duty!Becomes
<1>12. CASE Leave(p)
  <2>1. daemon[p] \notin OnDuty
    BY <1>12 DEF Leave, OnDuty, Obedient
  <2>2. DutyNow' = DutyNow /\ manual' = manual
    BY <1>12, <2>1, DutyDies DEF Leave, Dies
  <2> QED
    BY <2>2 DEF Duty!vars
<1>13. CASE Crash(p)
  <2>1. "crash" \in DutyFaults /\ Dies(p) /\ manual' = manual
    BY <1>13 DEF Crash, Dies, DutyFaults
  <2>2. CASE daemon[p] \in OnDuty
    <3>1. DutyNow' = "none"
      BY <2>1, <2>2, DutyDies
    <3>2. DutyNow # "none"
      BY <2>2 DEF DutyNow, OnDuty, Obedient
    <3> QED
      BY <2>1, <3>1, <3>2 DEF Duty!Next, Duty!Crash, Duty!Becomes
  <2>3. CASE daemon[p] \notin OnDuty
    BY <2>1, <2>3, DutyDies DEF Duty!vars
  <2> QED
    BY <2>2, <2>3
<1> QED
  BY <1>3, <1>4, <1>5, <1>6, <1>7, <1>8, <1>9, <1>10, <1>11, <1>12, <1>13 DEF DaemonStep

\* A command touches the fans only to clean up: alone on its terminal, it does so when
\* no daemon is on duty.
LEMMA CommandOnDuty ==
    ASSUME ServiceInv, OneTerminal => AloneInv, NEW t \in Terminals,
           DutyFaults' = DutyFaults,
           CommandStep(t) \/ Interrupt(t) \/ \E c \in Commands : Invoke(t, c)
    PROVE  [Duty!Next]_(Duty!vars)
<1>0. TypeOK
  BY DEF ServiceInv
<1>1. ASSUME manual' = manual, daemon' = daemon
      PROVE  UNCHANGED Duty!vars
  <2>1. DutyNow' = DutyNow
    BY <1>1 DEF DutyNow
  <2> QED
    BY <1>1, <2>1 DEF Duty!vars
<1>2. CASE \/ ReadPid(t) \/ JudgePid(t) \/ DropPid(t) \/ DropState(t) \/ PollGone(t)
           \/ PollTimesOut(t) \/ ForgetPid(t) \/ ForgetState(t) \/ ProbeLock(t)
           \/ ProbeDone(t) \/ WaitTimesOut(t) \/ Report(t) \/ OrphanCheck(t) \/ CleanPid(t)
           \/ CleanState(t) \/ Choose(t) \/ Interrupt(t) \/ \E c \in Commands : Invoke(t, c)
  BY <1>1, <1>2
     DEF ReadPid, JudgePid, DropPid, DropState, PollGone, PollTimesOut, ForgetPid,
         ForgetState, ProbeLock, ProbeDone, WaitTimesOut, Report, OrphanCheck, CleanPid,
         CleanState, Choose, Interrupt, Invoke, shared, daemons
<1>3. CASE Signal(t)
  <2>1. pid[t] \in Pids
    BY <1>3 DEF Signal, ServiceInv, HasNumber
  <2>2. CASE daemon[pid[t]] \in Early /\ Dies(pid[t])
    <3>1. daemon[pid[t]] \notin OnDuty
      BY <2>2 DEF Early, OnDuty, Obedient
    <3>2. DutyNow' = DutyNow /\ manual' = manual
      BY <2>1, <2>2, <3>1, DutyDies DEF Dies
    <3> QED
      BY <3>2 DEF Duty!vars
  <2> QED
    BY <1>1, <1>3, <2>2 DEF Signal, shared, daemons
<1>4. ASSUME NEW p \in Pids, Spawn(t, p)
      PROVE  UNCHANGED Duty!vars
  <2>1. /\ daemon[p] = "dead" /\ daemon' = [daemon EXCEPT ![p] = "boot"]
        /\ manual' = manual
    BY <1>4 DEF Spawn, Alive, Becomes, shared
  <2>2. {"dead", "boot"} \cap OnDuty = {}
    BY DEF OnDuty, Obedient
  <2>3. DutyNow' = DutyNow
    BY <1>0, <2>1, <2>2, DutySame
  <2> QED
    BY <2>1, <2>3 DEF Duty!vars
<1>5. CASE RestoreAuto(t)
  <2>1. daemon' = daemon /\ manual' \in {manual, FALSE} /\ pc[t] = "auto"
    BY <1>5 DEF RestoreAuto, daemons
  <2>2. ASSUME "late" \notin DutyFaults
        PROVE  DutyNow = "none"
    <3>1. OneTerminal /\ faults \subseteq {"crash", "restore"}
      BY <2>2 DEF DutyFaults
    <3>2. Alone(t)
      BY <3>1 DEF AloneInv
    <3>3. \A p \in Pids : daemon[p] \notin Early \cup {"ready"} /\ daemon[p] \notin Serving
      BY <2>1, <3>1, <3>2 DEF Alone, StartWatched, Respected
    <3> QED
      BY <3>3 DEF DutyNow, Serving
  <2>3. DutyNow' = DutyNow
    BY <2>1 DEF DutyNow
  <2> QED
    BY <1>1, <2>1, <2>2, <2>3 DEF Duty!Next, Duty!CleanUp
<1> QED
  BY <1>2, <1>3, <1>4, <1>5 DEF CommandStep

\* Whatever the number of terminals and daemons: the daemons are on duty one after the
\* other, only the one on duty takes the fans, and nobody but a command that comes late
\* gives them back for it (run_daemon, run_fixed_daemon, `vserve fan`).
THEOREM ServiceImplementsDuty == Spec => ImplementsDuty
<1> DEFINE I == ServiceInv /\ (OneTerminal => AloneInv)
<1>1. Spec => []I
  <2>1. CASE OneTerminal
    <3>1. Spec => [](ServiceInv /\ AloneInv)
      BY <2>1, AloneHolds
    <3> QED
      BY <3>1, PTL
  <2>2. CASE ~OneTerminal
    <3>1. ServiceInv => I
      BY <2>2
    <3> QED
      BY <3>1, InitInv, NextInv, PTL DEF Spec
  <2> QED
    BY <2>1, <2>2
<1>2. Init => Duty!Init
  BY DEF Init, Duty!Init, Duty!Kinds, DutyNow, DutyFaults
<1>3. I /\ [Next]_vars => [Duty!Next]_(Duty!vars)
  <2> SUFFICES ASSUME I, [Next]_vars PROVE [Duty!Next]_(Duty!vars)
    OBVIOUS
  <2>1. CASE UNCHANGED vars
    BY <2>1 DEF vars, shared, daemons, locals, Duty!vars, DutyNow, DutyFaults
  <2>2. CASE Next
    <3>1. faults' = faults
      BY <2>2, FaultsFixed
    <3>2. DutyFaults' = DutyFaults
      BY <3>1 DEF DutyFaults
    <3> QED
      BY <2>2, <3>2, DaemonOnDuty, CommandOnDuty DEF Next
  <2> QED
    BY <2>1, <2>2
<1> QED
  BY <1>1, <1>2, <1>3, PTL DEF Spec, ImplementsDuty, Duty!Spec
=============================================================================
