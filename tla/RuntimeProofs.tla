--------------------------- MODULE RuntimeProofs ---------------------------
(***************************************************************************)
(* Proofs about VllmRuntime, for any number of users and commands: the     *)
(* types, who works under a running engine, and what a cache hit is worth. *)
(***************************************************************************)
EXTENDS VllmRuntime, TLAPS

LocalType ==
    /\ pc \in [Cmds -> PCs] /\ job \in [Cmds -> Jobs \cup {"none"}]
    /\ key \in [Cmds -> 0..MaxStamp] /\ info \in [Cmds -> Info]
    /\ began \in [Cmds -> 0..MaxStamp] /\ seen \in [Cmds -> Versions]

FilesType ==
    /\ cache \in [Users -> Contents] /\ tmp \in [Users -> Contents]
    /\ fd \in [Cmds -> {"none", "tmp", "cache", "gone"}]

WorldType ==
    /\ venv \in [vllm : Versions, bin : BOOLEAN]
    /\ stamp \in 0..MaxStamp /\ engine \in BOOLEAN
    /\ locks \in [{"runtime", "cache"} -> Cmds \cup {NoCmd}] /\ late \subseteq Cmds

LEMMA TypeParts == TypeOK <=> LocalType /\ FilesType /\ WorldType
  BY DEF TypeOK, LocalType, FilesType, WorldType

LEMMA Assembled ==
    ASSUME LocalType', FilesType', WorldType'
    PROVE  TypeOK'
  BY DEF TypeOK, LocalType, FilesType, WorldType

LEMMA SameFiles ==
    ASSUME FilesType, UNCHANGED files
    PROVE  FilesType'
  BY DEF FilesType, files

LEMMA SameWorld ==
    ASSUME WorldType, UNCHANGED <<world, locks, late>>
    PROVE  WorldType'
  BY DEF WorldType, world

LEMMA Constants ==
    /\ \A c \in Cmds : UserOf[c] \in Users /\ JobsOf[c] \subseteq Jobs
    /\ "none" \in Versions /\ Pinned \in Versions /\ Older \in Versions
    /\ MaxStamp \in Nat /\ 0 \in 0..MaxStamp /\ NoCmd \notin Cmds
    /\ Blank \in Info
    /\ \A v \in Versions, e \in BOOLEAN : Learnt(v, e) \in Info
  BY RuntimeAssumption DEF Versions, Blank, Info, Learnt

LEMMA PCNames ==
    {"idle", "lookup", "read", "gate", "launch", "lock", "stopped", "invalidate", "probe",
     "release", "version", "metadata", "rekey", "open", "write", "replace", "pip", "remove",
     "place", "sockets", "confirm", "delete"} \subseteq PCs
  BY DEF PCs, Probing, PipWork, CleanUp

LEMMA InitTypes == Init => TypeOK
  BY Constants, PCNames DEF Init, TypeOK, Contents

LEMMA DoneType ==
    ASSUME LocalType, NEW c, Done(c)
    PROVE  LocalType'
  BY Constants, PCNames DEF LocalType, Done, Goto

LEMMA RenamedType ==
    ASSUME FilesType, NEW u, NEW to,
           \A n \in DOMAIN to : to[n] \in {"none", "tmp", "cache", "gone"}
    PROVE  Renamed(u, to) \in [Cmds -> {"none", "tmp", "cache", "gone"}]
  BY DEF FilesType, Renamed

------------------------------------------------------------------------------
(* Types.                                                                  *)

LEMMA MeasureType ==
    ASSUME TypeOK, NEW c \in Cmds, Measure(c)
    PROVE  TypeOK'
<1>0. LocalType /\ FilesType /\ WorldType
  BY TypeParts
<1>1. CASE Lookup(c)
  <2>1. LocalType'
    BY <1>0, <1>1, PCNames DEF Goto, Lookup, HasKey, VenvKey, LocalType, WorldType
  <2> QED
    BY <1>0, <1>1, <2>1, SameFiles, SameWorld, Assembled DEF Lookup, files, world
<1>2. CASE ReadCache(c)
  <2>1. UserOf[c] \in Users /\ cache[UserOf[c]] \in Contents
    BY <1>0, Constants DEF FilesType
  <2>2. ASSUME Accepts(cache[UserOf[c]], key[c])
        PROVE  /\ cache[UserOf[c]].version \in Versions
               /\ cache[UserOf[c]].quiet \in BOOLEAN
    BY <2>1, <2>2 DEF Accepts, Contents, Entries, Absent, Empty, Torn
  <2>3. LocalType'
    <3>1. CASE Accepts(cache[UserOf[c]], key[c])
      <4>1. [version |-> cache[UserOf[c]].version, errors |-> FALSE, hit |-> TRUE,
             quiet |-> cache[UserOf[c]].quiet] \in Info
        BY <2>2, <3>1 DEF Info
      <4> QED
        BY <1>0, <1>2, <3>1, <4>1, PCNames, Constants DEF Goto, ReadCache, LocalType
    <3>2. CASE ~Accepts(cache[UserOf[c]], key[c])
      BY <1>0, <1>2, <3>2, PCNames, Constants DEF Goto, ReadCache, LocalType
    <3> QED
      BY <3>1, <3>2
  <2> QED
    BY <1>0, <1>2, <2>3, SameFiles, SameWorld, Assembled DEF ReadCache, files, world
<1>3. CASE ReadVersion(c)
  <2>1. LocalType'
    BY <1>0, <1>3, PCNames, Constants
       DEF Goto, ReadVersion, LocalType, WorldType
  <2> QED
    BY <1>0, <1>3, <2>1, SameFiles, SameWorld, Assembled DEF ReadVersion, files, world
<1>4. CASE ReadMetadata(c)
  <2>1. info[c] \in Info /\ venv.vllm \in Versions
    BY <1>0 DEF LocalType, WorldType
  <2>2. \E i \in Info : info' = [info EXCEPT ![c] = i]
    <3>1. PICK fails \in BOOLEAN :
            info' = [info EXCEPT ![c] =
                IF fails \/ @.errors THEN Learnt("none", TRUE)
                ELSE IF venv.vllm = "none" THEN @ ELSE Learnt(venv.vllm, FALSE)]
      BY <1>4 DEF ReadMetadata
    <3>2. CASE fails \/ info[c].errors
      BY <3>1, <3>2, Constants
    <3>3. CASE ~(fails \/ info[c].errors)
      BY <2>1, <3>1, <3>3, Constants
    <3> QED
      BY <3>2, <3>3
  <2>3. LocalType'
    <3>1. info' \in [Cmds -> Info]
      BY <1>0, <2>2 DEF LocalType
    <3>2. pc' = [pc EXCEPT ![c] = "rekey"] /\ UNCHANGED <<job, key, began, seen>>
      BY <1>4 DEF Goto, ReadMetadata
    <3> QED
      BY <1>0, <3>1, <3>2, PCNames DEF LocalType
  <2> QED
    BY <1>0, <1>4, <2>3, SameFiles, SameWorld, Assembled DEF ReadMetadata, files, world
<1>5. CASE Rekey(c)
  <2>1. LocalType'
    BY <1>0, <1>5, PCNames, Constants DEF Goto, Rekey, VenvKey, LocalType, WorldType
  <2> QED
    BY <1>0, <1>5, <2>1, SameFiles, SameWorld, Assembled DEF Rekey, files, world
<1>6. CASE OpenTmp(c)
  <2>1. LocalType'
    BY <1>0, <1>6, PCNames DEF Goto, OpenTmp, LocalType, local
  <2>2. FilesType'
    BY <1>0, <1>6 DEF OpenTmp, FilesType, Contents
  <2> QED
    BY <1>0, <1>6, <2>1, <2>2, SameWorld, Assembled DEF OpenTmp, world
<1>7. CASE WriteTmp(c)
  <2>1. LocalType'
    BY <1>0, <1>7, PCNames, Constants DEF Goto, WriteTmp, LocalType
  <2>2. FilesType'
    <3>1. /\ key[c] \in 0..MaxStamp /\ began[c] \in 0..MaxStamp
          /\ info[c].version \in Versions
      BY <1>0 DEF LocalType, Info
    <3>2. [text |-> "whole", key |-> key[c], version |-> info[c].version,
           quiet |-> began[c] = key[c]] \in Entries
      BY <3>1 DEF Entries
    <3>3. Torn \in Contents /\ \A old : Written(c, old) \subseteq Contents
      BY <3>2 DEF Written, Contents
    <3>4. PICK new \in Contents :
            /\ tmp' = IF fd[c] = "tmp" THEN [tmp EXCEPT ![UserOf[c]] = new] ELSE tmp
            /\ cache' = IF fd[c] = "cache" THEN [cache EXCEPT ![UserOf[c]] = new] ELSE cache
      BY <1>7, <3>3 DEF WriteTmp
    <3>5. tmp' \in [Users -> Contents] /\ cache' \in [Users -> Contents]
      BY <1>0, <3>4 DEF FilesType
    <3> QED
      BY <1>0, <1>7, <3>5 DEF WriteTmp, FilesType
  <2> QED
    BY <1>0, <1>7, <2>1, <2>2, SameWorld, Assembled DEF WriteTmp, world
<1>8. CASE Replace(c)
  <2>1. LocalType'
    BY <1>0, <1>8, PCNames DEF Goto, Replace, LocalType, local
  <2>2. FilesType'
    <3>1. Renamed(UserOf[c], [tmp |-> "cache", cache |-> "gone"])
            \in [Cmds -> {"none", "tmp", "cache", "gone"}]
      BY <1>0, RenamedType
    <3> QED
      BY <1>0, <1>8, <3>1, Constants DEF Replace, FilesType, files, Contents
  <2> QED
    BY <1>0, <1>8, <2>1, <2>2, SameWorld, Assembled DEF Replace, world
<1>9. CASE Gate(c)
  <2>1. LocalType'
    BY <1>0, <1>9, DoneType, PCNames DEF Goto, Gate, LocalType, local
  <2> QED
    BY <1>0, <1>9, <2>1, SameFiles, SameWorld, Assembled DEF Gate, files, world
<1>10. CASE Launch(c)
  <2>1. LocalType'
    BY <1>0, <1>10, DoneType DEF Launch
  <2> QED
    BY <1>0, <1>10, <2>1, SameFiles, Assembled DEF Launch, WorldType, files
<1> QED
  BY <1>1, <1>2, <1>3, <1>4, <1>5, <1>6, <1>7, <1>8, <1>9, <1>10 DEF Measure

LEMMA UpkeepType ==
    ASSUME TypeOK, NEW c \in Cmds, Upkeep(c)
    PROVE  TypeOK'
<1>0. LocalType /\ FilesType /\ WorldType
  BY TypeParts
<1>1. LocalType'
  <2>1. CASE TakeLock(c) \/ ProbeFirst(c) \/ Release(c)
    BY <1>0, <2>1, DoneType, PCNames
       DEF Goto, TakeLock, ProbeFirst, Release, LocalType, local
  <2>2. CASE CheckStopped(c) \/ PipFails(c) \/ Invalidate(c) \/ CleanSockets(c)
             \/ DeleteCaches(c) \/ PipStep(c)
    BY <1>0, <2>2, PCNames
       DEF Goto, CheckStopped, PipFails, Invalidate, CleanSockets, DeleteCaches, PipStep,
           LocalType, local
  <2> QED
    BY <2>1, <2>2 DEF Upkeep
<1>2. FilesType'
  <2>1. CASE Invalidate(c)
    <3>1. Renamed(UserOf[c], [cache |-> "gone"]) \in [Cmds -> {"none", "tmp", "cache", "gone"}]
      BY <1>0, RenamedType
    <3> QED
      BY <1>0, <2>1, <3>1 DEF Invalidate, FilesType, Contents
  <2>2. CASE ~Invalidate(c)
    BY <1>0, <2>2 DEF Upkeep, TakeLock, CheckStopped, PipStep, PipFails, Release, ProbeFirst,
                      CleanSockets, DeleteCaches, FilesType, files
  <2> QED
    BY <2>1, <2>2
<1>3. WorldType'
  <2>1. CASE PipStep(c)
    <3>1. stamp' \in 0..MaxStamp
      BY <1>0, <2>1, Constants DEF PipStep, WorldType
    <3>2. venv' \in [vllm : Versions, bin : BOOLEAN]
      BY <1>0, <2>1, Constants DEF PipStep, WorldType
    <3> QED
      BY <1>0, <2>1, <3>1, <3>2 DEF PipStep, WorldType
  <2>2. CASE TakeLock(c) \/ Release(c)
    BY <1>0, <2>2 DEF TakeLock, Release, WorldType, world
  <2>3. CASE CheckStopped(c) \/ PipFails(c) \/ Invalidate(c) \/ ProbeFirst(c)
             \/ CleanSockets(c) \/ DeleteCaches(c)
    BY <1>0, <2>3 DEF CheckStopped, PipFails, Invalidate, ProbeFirst, CleanSockets,
                      DeleteCaches, WorldType, world
  <2> QED
    BY <2>1, <2>2, <2>3 DEF Upkeep
<1> QED
  BY <1>1, <1>2, <1>3, Assembled

LEMMA StepType ==
    ASSUME TypeOK, [Next]_vars
    PROVE  TypeOK'
<1>0. LocalType /\ FilesType /\ WorldType
  BY TypeParts
<1>1. CASE EngineStops
  BY <1>1 DEF EngineStops, TypeOK, files, local
<1>2. ASSUME NEW c \in Cmds, Begin(c)
      PROVE  TypeOK'
  <2>1. LocalType'
    BY <1>0, <1>2, PCNames, Constants DEF Goto, Begin, LocalType, local, Jobs
  <2> QED
    BY <1>0, <1>2, <2>1, SameFiles, SameWorld, Assembled DEF Begin, files, world
<1>3. ASSUME NEW c \in Cmds, Answer(c)
      PROVE  TypeOK'
  BY <1>0, <1>3, PCNames DEF Goto, Answer, TypeOK, world, files, local
<1>4. ASSUME NEW c \in Cmds, Kill(c)
      PROVE  TypeOK'
  <2>1. LocalType'
    BY <1>0, <1>4, DoneType DEF Kill
  <2> QED
    BY <1>0, <1>4, <2>1, Assembled DEF Kill, FilesType, WorldType, world
<1>5. CASE UNCHANGED vars
  BY <1>5 DEF vars, world, files, local, TypeOK
<1> QED
  BY <1>1, <1>2, <1>3, <1>4, <1>5, MeasureType, UpkeepType DEF Next

\* Type correctness, the bounds of the counters included.
THEOREM RuntimeTypeCorrect == Spec => []TypeOK
<1>1. TypeOK /\ [Next]_vars => TypeOK'
  BY StepType
<1> QED
  BY InitTypes, <1>1, PTL DEF Spec

------------------------------------------------------------------------------
(* Who holds which lock, and what it is worth.                             *)

\* The states in which a command is behind the lock it took.
Behind(c) ==
    \/ pc[c] \in {"stopped", "release", "invalidate"} \cup PipWork \cup CleanUp
    \/ job[c] = "upgrade" /\ pc[c] \notin {"idle", "lock"}

Holders == \A c \in Cmds : Behind(c) => locks[LockOf(c)] = c

HoldersInv == Holders /\ OnlyLateStarts

LEMMA HoldersInit == Init => HoldersInv
  BY DEF Init, HoldersInv, Holders, Behind, OnlyLateStarts, PipWork, CleanUp

\* A command starts outside every lock.
LEMMA BeginGoes ==
    ASSUME TypeOK, NEW c \in Cmds, Begin(c)
    PROVE  pc[c] = "idle" /\ pc'[c] \in {"lookup", "version", "lock", "probe"}
              /\ (job'[c] = "upgrade" => pc'[c] = "lock")
<1>1. PICK j \in Jobs :
        /\ job' = [job EXCEPT ![c] = j]
        /\ Goto(c, CASE j = "run" -> "lookup" [] j = "check" -> "version"
                     [] j = "upgrade" -> "lock" [] j = "clean" -> "probe")
  BY Constants DEF Begin
<1>2. job'[c] = j
  BY <1>1 DEF TypeOK
<1>3. CASE j = "run"
  BY <1>1, <1>2, <1>3 DEF TypeOK, Goto, Begin
<1>4. CASE j = "check"
  BY <1>1, <1>2, <1>4 DEF TypeOK, Goto, Begin
<1>5. CASE j = "upgrade"
  BY <1>1, <1>2, <1>5 DEF TypeOK, Goto, Begin
<1>6. CASE j = "clean"
  BY <1>1, <1>2, <1>6 DEF TypeOK, Goto, Begin
<1> QED
  BY <1>3, <1>4, <1>5, <1>6 DEF Jobs

\* The commands that leave the locks, the engine and their own place behind the lock alone.
LEMMA HoldersMeasure ==
    ASSUME TypeOK, HoldersInv, NEW c \in Cmds, Measure(c) \/ Begin(c)
    PROVE  HoldersInv'
<1>1. CASE Launch(c)
  <2>1. ASSUME NEW d \in Cmds, Behind(d)'
        PROVE  Behind(d) /\ LockOf(d)' = LockOf(d) /\ pc'[d] = pc[d]
    BY <1>1, <2>1 DEF TypeOK, Launch, Done, Goto, Behind, LockOf, PipWork, CleanUp
  <2>2. Holders'
    BY <1>1, <2>1 DEF HoldersInv, Holders, Launch
  <2>3. ASSUME NEW d \in Cmds, engine', pc'[d] \in PipWork \cup CleanUp
        PROVE  d \in late'
    <3>1. Behind(d)' /\ Behind(d) /\ pc'[d] = pc[d]
      BY <2>1, <2>3 DEF Behind
    <3>2. CASE engine' = TRUE /\ late' = late \cup ({locks[l] : l \in {"runtime", "cache"}} \ {NoCmd})
      BY <3>1, <3>2, Constants DEF HoldersInv, Holders, LockOf
    <3>3. CASE UNCHANGED <<engine, late>>
      BY <2>3, <3>1, <3>3 DEF HoldersInv, OnlyLateStarts
    <3> QED
      BY <1>1, <3>2, <3>3 DEF Launch
  <2> QED
    BY <2>2, <2>3 DEF HoldersInv, OnlyLateStarts
<1>2. CASE ~Launch(c)
  <2>1. UNCHANGED <<engine, locks, late>>
    BY <1>2 DEF Measure, Begin, Lookup, ReadCache, ReadVersion, ReadMetadata, Rekey, OpenTmp,
                WriteTmp, Replace, Gate, world
  <2>2. \A d \in Cmds : d # c => pc'[d] = pc[d] /\ job'[d] = job[d]
    BY <1>2 DEF TypeOK, Measure, Begin, Lookup, ReadCache, ReadVersion, ReadMetadata, Rekey,
                OpenTmp, WriteTmp, Replace, Gate, Done, Goto
  <2>3. pc'[c] \notin PipWork \cup CleanUp
    <3>1. CASE Begin(c)
      BY <3>1, BeginGoes DEF PipWork, CleanUp
    <3>2. CASE Gate(c)
      BY <3>2 DEF TypeOK, Gate, Done, Goto, PipWork, CleanUp
    <3>3. CASE Lookup(c) \/ ReadCache(c) \/ Rekey(c) \/ OpenTmp(c)
      BY <3>3 DEF TypeOK, Lookup, ReadCache, Rekey, OpenTmp, Goto, PipWork, CleanUp
    <3>4. CASE ReadVersion(c) \/ ReadMetadata(c) \/ WriteTmp(c) \/ Replace(c)
      BY <3>4 DEF TypeOK, ReadVersion, ReadMetadata, WriteTmp, Replace, Goto, PipWork, CleanUp
    <3> QED
      BY <1>2, <3>1, <3>2, <3>3, <3>4 DEF Measure
  <2>4. Behind(c)' => Behind(c) /\ job'[c] = job[c]
    <3>1. CASE Begin(c)
      BY <3>1, BeginGoes DEF Behind, PipWork, CleanUp
    <3>2. CASE Gate(c)
      BY <3>2 DEF TypeOK, Gate, Done, Goto, Behind, PipWork, CleanUp
    <3>3. CASE Lookup(c) \/ ReadCache(c) \/ Rekey(c) \/ OpenTmp(c)
      BY <3>3 DEF TypeOK, Lookup, ReadCache, Rekey, OpenTmp, Goto, Behind, PipWork, CleanUp
    <3>4. CASE ReadVersion(c) \/ ReadMetadata(c) \/ WriteTmp(c) \/ Replace(c)
      <4>1. /\ job' = job /\ pc[c] \in {"version", "metadata", "write", "replace"}
            /\ pc'[c] \in {"metadata", "rekey", "gate", "replace"}
        BY <3>4 DEF TypeOK, ReadVersion, ReadMetadata, WriteTmp, Replace, Goto
      <4> QED
        BY <4>1 DEF Behind, PipWork, CleanUp
    <3> QED
      BY <1>2, <3>1, <3>2, <3>3, <3>4 DEF Measure
  <2>5. Holders'
    BY <2>1, <2>2, <2>4 DEF HoldersInv, Holders, Behind, LockOf
  <2>6. OnlyLateStarts'
    BY <2>1, <2>2, <2>3 DEF HoldersInv, OnlyLateStarts
  <2> QED
    BY <2>5, <2>6 DEF HoldersInv
<1> QED
  BY <1>1, <1>2

LEMMA HoldersUpkeep ==
    ASSUME TypeOK, HoldersInv, NEW c \in Cmds, Upkeep(c) \/ Answer(c) \/ Kill(c)
    PROVE  HoldersInv'
<1>1. \A d \in Cmds : d # c => pc'[d] = pc[d] /\ job'[d] = job[d]
  BY DEF TypeOK, Upkeep, Answer, Kill, TakeLock, CheckStopped, PipStep, PipFails, Invalidate,
         Release, ProbeFirst, CleanSockets, DeleteCaches, Done, Goto
<1>2. engine' = engine
  BY DEF Upkeep, Answer, Kill, TakeLock, CheckStopped, PipStep, PipFails, Invalidate,
         Release, ProbeFirst, CleanSockets, DeleteCaches, world
<1>3. CASE TakeLock(c)
  <2>1. pc'[c] \notin PipWork \cup CleanUp /\ late \ {c} \subseteq late'
    BY <1>3 DEF TypeOK, TakeLock, Done, Goto, PipWork, CleanUp
  <2>2. CASE locks[LockOf(c)] = NoCmd
    <3>1. /\ locks' = [locks EXCEPT ![LockOf(c)] = c]
          /\ pc'[c] = "stopped" /\ job'[c] = job[c]
      BY <1>3, <2>2 DEF TypeOK, TakeLock, Goto
    <3> QED
      BY <1>1, <1>2, <2>1, <2>2, <3>1, Constants
         DEF TypeOK, HoldersInv, Holders, OnlyLateStarts, Behind, LockOf
  <2>3. CASE locks[LockOf(c)] # NoCmd
    <3>1. locks' = locks /\ late' = late /\ pc'[c] = "idle"
      BY <1>3, <2>3 DEF TypeOK, TakeLock, Done, Goto
    <3>2. ~Behind(c)'
      BY <3>1 DEF Behind, PipWork, CleanUp
    <3> QED
      BY <1>1, <1>2, <2>1, <3>1, <3>2
         DEF HoldersInv, Holders, OnlyLateStarts, Behind, LockOf
  <2> QED
    BY <2>2, <2>3
<1>4. CASE Release(c) \/ Kill(c)
  <2>1. pc'[c] = "idle" /\ ~Behind(c)'
    BY <1>4 DEF TypeOK, Release, Kill, Done, Goto, Behind, PipWork, CleanUp
  <2>2. late' = late \ {c}
    BY <1>4 DEF Release, Kill
  <2>3. ASSUME NEW l \in {"runtime", "cache"}, locks[l] # c
        PROVE  locks'[l] = locks[l]
    <3>1. CASE Release(c)
      BY <2>3, <3>1 DEF TypeOK, HoldersInv, Holders, Behind, Release
    <3>2. CASE Kill(c)
      BY <2>3, <3>2 DEF TypeOK, Kill
    <3> QED
      BY <1>4, <3>1, <3>2
  <2>4. Holders'
    BY <1>1, <2>1, <2>3 DEF HoldersInv, Holders, Behind, LockOf
  <2>5. OnlyLateStarts'
    BY <1>1, <1>2, <2>1, <2>2 DEF HoldersInv, OnlyLateStarts, PipWork, CleanUp
  <2> QED
    BY <2>4, <2>5 DEF HoldersInv
<1>5. CASE ~TakeLock(c) /\ ~Release(c) /\ ~Kill(c)
  <2>1. locks' = locks /\ late' = late
    BY <1>5 DEF Upkeep, Answer, CheckStopped, PipStep, PipFails, Invalidate, ProbeFirst,
                CleanSockets, DeleteCaches
  <2>2. Behind(c)' => Behind(c) /\ job'[c] = job[c]
    BY <1>5 DEF TypeOK, Upkeep, Answer, CheckStopped, PipStep, PipFails, Invalidate, ProbeFirst,
                CleanSockets, DeleteCaches, Done, Goto, Behind, PipWork, CleanUp
  <2>3. engine /\ pc'[c] \in PipWork \cup CleanUp => pc[c] \in PipWork \cup CleanUp
    BY <1>5 DEF TypeOK, Upkeep, Answer, CheckStopped, PipStep, PipFails, Invalidate, ProbeFirst,
                CleanSockets, DeleteCaches, Done, Goto, PipWork, CleanUp
  <2>4. Holders'
    BY <1>1, <2>1, <2>2 DEF HoldersInv, Holders, Behind, LockOf
  <2>5. OnlyLateStarts'
    BY <1>1, <1>2, <2>1, <2>3 DEF HoldersInv, OnlyLateStarts
  <2> QED
    BY <2>4, <2>5 DEF HoldersInv
<1> QED
  BY <1>3, <1>4, <1>5

LEMMA HoldersStep == TypeOK /\ HoldersInv /\ [Next]_vars => HoldersInv'
<1>1. ASSUME HoldersInv, UNCHANGED vars
      PROVE  HoldersInv'
  BY <1>1 DEF HoldersInv, Holders, OnlyLateStarts, Behind, LockOf, vars, world
<1>2. ASSUME HoldersInv, EngineStops
      PROVE  HoldersInv'
  BY <1>2 DEF HoldersInv, Holders, OnlyLateStarts, Behind, LockOf, EngineStops
<1> QED
  BY <1>1, <1>2, HoldersMeasure, HoldersUpkeep DEF Next

\* pip and the clean-up work under a running engine only if it was started under their
\* lock: whoever works holds its lock, and the probe behind the lock saw no engine.
THEOREM LateStartsHold == Spec => []OnlyLateStarts
<1>1. HoldersInv => OnlyLateStarts
  BY DEF HoldersInv
<1> QED
  BY <1>1, HoldersInit, HoldersStep, RuntimeTypeCorrect, PTL DEF Spec

------------------------------------------------------------------------------
(* What a step leaves of the other commands.                               *)

Own(c) == <<pc[c], job[c], key[c], info[c], began[c], seen[c]>>

LEMMA OthersMeasure ==
    ASSUME TypeOK, NEW c \in Cmds, Measure(c), NEW d \in Cmds, d # c
    PROVE  Own(d)' = Own(d)
<1>1. CASE Lookup(c) \/ ReadCache(c) \/ ReadVersion(c)
  BY <1>1 DEF TypeOK, Own, Lookup, ReadCache, ReadVersion, Goto
<1>2. CASE ReadMetadata(c) \/ Rekey(c) \/ OpenTmp(c)
  BY <1>2 DEF TypeOK, Own, ReadMetadata, Rekey, OpenTmp, Goto, local
<1>3. CASE WriteTmp(c) \/ Replace(c)
  BY <1>3 DEF TypeOK, Own, WriteTmp, Replace, Goto, local
<1>4. CASE Gate(c) \/ Launch(c)
  BY <1>4 DEF TypeOK, Own, Gate, Launch, Done, Goto, local
<1> QED
  BY <1>1, <1>2, <1>3, <1>4 DEF Measure

LEMMA OthersElse ==
    ASSUME TypeOK, NEW c \in Cmds, Begin(c) \/ Upkeep(c) \/ Answer(c) \/ Kill(c),
           NEW d \in Cmds, d # c
    PROVE  Own(d)' = Own(d)
<1>1. CASE Begin(c) \/ Answer(c) \/ Kill(c)
  BY <1>1 DEF TypeOK, Own, Begin, Answer, Kill, Done, Goto, local
<1>2. CASE Upkeep(c)
  BY <1>2 DEF TypeOK, Own, Upkeep, TakeLock, CheckStopped, PipStep, PipFails, Invalidate,
              Release, ProbeFirst, CleanSockets, DeleteCaches, Done, Goto, local
<1> QED
  BY <1>1, <1>2

------------------------------------------------------------------------------
(* What an upgrade reports.                                                *)

Upgrading(c) ==
    /\ pc[c] \in PipWork \cup {"invalidate"} => job[c] = "upgrade"
    /\ pc[c] \in {"lookup", "read"} => job[c] = "run"
    /\ pc[c] \in {"idle", "probe", "lock", "stopped", "invalidate"} \cup PipWork
          => info[c] = Blank
    /\ job[c] = "upgrade" => info[c].version \in {"none", venv.vllm}

UpgradeInv == \A c \in Cmds : Upgrading(c)

LEMMA UpgradeInit == Init => UpgradeInv
  BY DEF Init, UpgradeInv, Upgrading, Blank, Learnt, PipWork

LEMMA UpgradeMeasure ==
    ASSUME TypeOK, UpgradeInv, NEW c \in Cmds, Measure(c)
    PROVE  UpgradeInv'
<1>1. UNCHANGED venv /\ \A d \in Cmds \ {c} : Own(d)' = Own(d)
  BY OthersMeasure DEF Measure, Lookup, ReadCache, ReadVersion, ReadMetadata, Rekey, OpenTmp,
         WriteTmp, Replace, Gate, Launch, world
<1>2. Upgrading(c)
  BY DEF UpgradeInv
<1>3. Upgrading(c)'
  <2>1. CASE Lookup(c) \/ Rekey(c) \/ OpenTmp(c) \/ WriteTmp(c) \/ Replace(c)
    <3>1. UNCHANGED <<job, info, venv>> /\ pc'[c] \notin {"idle", "probe", "lock", "stopped",
                                                         "invalidate", "lookup"} \cup PipWork
             /\ (pc'[c] = "read" => pc[c] = "lookup")
      BY <1>1, <2>1 DEF TypeOK, Lookup, Rekey, OpenTmp, WriteTmp, Replace, Goto, PipWork, local
    <3> QED
      BY <1>2, <3>1 DEF Upgrading
  <2>2. CASE ReadCache(c)
    BY <1>1, <1>2, <2>2 DEF TypeOK, ReadCache, Goto, Upgrading, PipWork
  <2>3. CASE ReadVersion(c)
    BY <1>1, <1>2, <2>3 DEF TypeOK, ReadVersion, Goto, Upgrading, PipWork, Learnt
  <2>4. CASE ReadMetadata(c)
    <3>1. /\ job' = job /\ pc[c] = "metadata" /\ pc'[c] = "rekey"
          /\ info'[c] \in {Learnt("none", TRUE), info[c], Learnt(venv.vllm, FALSE)}
      BY <2>4 DEF TypeOK, ReadMetadata, Goto
    <3>2. job'[c] = "upgrade" => info'[c].version \in {"none", venv.vllm}
      BY <1>2, <3>1 DEF Upgrading, Learnt
    <3> QED
      BY <1>1, <3>1, <3>2 DEF Upgrading, PipWork
  <2>5. CASE Gate(c) \/ Launch(c)
    <3>1. CASE pc'[c] \in {"launch", "release"} /\ UNCHANGED <<job, info>>
      BY <1>1, <1>2, <3>1 DEF Upgrading, PipWork
    <3>2. CASE Done(c)
      BY <3>2 DEF TypeOK, Done, Goto, Upgrading, PipWork
    <3> QED
      BY <2>5, <3>1, <3>2 DEF TypeOK, Gate, Launch, Goto, local
  <2> QED
    BY <2>1, <2>2, <2>3, <2>4, <2>5 DEF Measure
<1> QED
  BY <1>1, <1>3 DEF UpgradeInv, Upgrading, Own

LEMMA UpgradeElse ==
    ASSUME TypeOK, HoldersInv, UpgradeInv, NEW c \in Cmds,
           Begin(c) \/ Upkeep(c) \/ Answer(c) \/ Kill(c)
    PROVE  UpgradeInv'
<1>1. \A d \in Cmds \ {c} : Own(d)' = Own(d)
  BY OthersElse
<1>2. Upgrading(c)
  BY DEF UpgradeInv
<1>3. CASE PipStep(c)
  <2>1. /\ pc[c] \in PipWork /\ pc'[c] \in PipWork \cup {"invalidate"}
        /\ UNCHANGED <<job, info>>
    BY <1>3 DEF TypeOK, PipStep, Goto, PipWork, local
  <2>2. Upgrading(c)'
    BY <1>2, <2>1 DEF Upgrading, PipWork, Blank, Learnt
  <2>3. ASSUME NEW d \in Cmds, d # c
        PROVE  Upgrading(d)'
    <3>1. job[d] = "upgrade" => pc[d] \in {"idle", "lock"}
      BY <1>2, <2>1, <2>3 DEF HoldersInv, Holders, Behind, LockOf, Upgrading
    <3>2. Upgrading(d) /\ Own(d)' = Own(d)
      BY <1>1, <2>3 DEF UpgradeInv
    <3> QED
      BY <3>1, <3>2 DEF Upgrading, Own, Blank, Learnt
  <2> QED
    BY <2>2, <2>3 DEF UpgradeInv
<1>4. CASE ~PipStep(c)
  <2>1. UNCHANGED venv
    BY <1>4 DEF Begin, Upkeep, Answer, Kill, TakeLock, CheckStopped, PipFails, Invalidate, Release,
                ProbeFirst, CleanSockets, DeleteCaches, world
  <2>2. Upgrading(c)'
    <3>1. CASE Begin(c)
      <4>1. /\ info' = info /\ pc[c] = "idle" /\ pc'[c] \in {"lookup", "version", "lock", "probe"}
            /\ (pc'[c] = "lookup" => job'[c] = "run")
        <5>1. PICK j \in Jobs :
                /\ job' = [job EXCEPT ![c] = j]
                /\ Goto(c, CASE j = "run" -> "lookup" [] j = "check" -> "version"
                             [] j = "upgrade" -> "lock" [] j = "clean" -> "probe")
          BY <3>1, Constants DEF Begin
        <5>2. pc'[c] = "lookup" => j = "run"
          <6>1. j = "check" => pc'[c] = "version"
            BY <5>1 DEF TypeOK, Goto
          <6>2. j = "upgrade" => pc'[c] = "lock"
            BY <5>1 DEF TypeOK, Goto
          <6>3. j = "clean" => pc'[c] = "probe"
            BY <5>1 DEF TypeOK, Goto
          <6> QED
            BY <6>1, <6>2, <6>3 DEF Jobs
        <5> QED
          BY <3>1, <5>1, <5>2, BeginGoes DEF TypeOK, Begin, local
      <4> QED
        BY <1>2, <4>1 DEF Upgrading, Blank, Learnt, PipWork
    <3>2. CASE Done(c)
      BY <3>2 DEF TypeOK, Done, Goto, Upgrading, PipWork
    <3>3. CASE UNCHANGED <<job, info>> /\ pc'[c] \in {"lock", "stopped", "sockets", "confirm", "delete",
                                                      "release", "pip", "version"}
                 /\ (pc'[c] \in {"lock", "stopped", "pip"} => pc[c] \in {"probe", "lock", "stopped"})
                 /\ (pc'[c] = "pip" => job[c] = "upgrade")
      BY <1>2, <2>1, <3>3 DEF Upgrading, PipWork
    <3>4. CASE Upkeep(c) \/ Answer(c) \/ Kill(c)
      <4>1. CASE TakeLock(c) \/ CheckStopped(c)
        BY <3>2, <3>3, <4>1 DEF TypeOK, TakeLock, CheckStopped, Goto, local
      <4>2. CASE PipFails(c) \/ Invalidate(c) \/ Release(c) \/ ProbeFirst(c)
        BY <3>2, <3>3, <4>2 DEF TypeOK, PipFails, Invalidate, Release, ProbeFirst, Goto, local
      <4>3. CASE CleanSockets(c) \/ DeleteCaches(c) \/ Answer(c) \/ Kill(c)
        BY <3>2, <3>3, <4>3 DEF TypeOK, CleanSockets, DeleteCaches, Answer, Kill, Goto, local
      <4> QED
        BY <1>4, <3>4, <4>1, <4>2, <4>3 DEF Upkeep
    <3> QED
      BY <3>1, <3>4
  <2> QED
    BY <1>1, <2>1, <2>2 DEF UpgradeInv, Upgrading, Own
<1> QED
  BY <1>3, <1>4

\* What an upgrade reports is what is installed: behind the runtime lock nobody else
\* installs, and the measurement does not believe a cache somebody refilled.
THEOREM UpgradeReports == Spec => []UpgradeReportsInstalled
<1>1. TypeOK /\ HoldersInv /\ UpgradeInv /\ [Next]_vars => UpgradeInv'
  <2>1. ASSUME UpgradeInv, UNCHANGED vars \/ EngineStops
        PROVE  UpgradeInv'
    BY <2>1 DEF UpgradeInv, Upgrading, vars, world, local, EngineStops
  <2> QED
    BY <2>1, UpgradeMeasure, UpgradeElse DEF Next
<1>2. TypeOK /\ HoldersInv /\ [Next]_vars => HoldersInv'
  BY HoldersStep
<1>3. UpgradeInv => UpgradeReportsInstalled
  BY DEF UpgradeInv, Upgrading, UpgradeReportsInstalled
<1> QED
  BY <1>1, <1>2, <1>3, HoldersInit, UpgradeInit, RuntimeTypeCorrect, PTL DEF Spec

------------------------------------------------------------------------------
(* What a hit is worth.  V is the history of the environment: what was     *)
(* installed at each of its modification times.                            *)

Tells(V, f) ==
    f.text = "whole" => f.key \in 0..stamp /\ (f.quiet => f.version = V[f.key])

Measured(c) ==
    began[c] \in 0..stamp
       /\ (began[c] = stamp /\ ~info[c].errors /\ info[c].version # "none"
              => info[c].version = venv.vllm)

Knows(V, c) ==
    /\ pc[c] \in {"metadata", "rekey"} => Measured(c)
    /\ pc[c] \in {"open", "write"}
          => key[c] \in 0..stamp /\ (began[c] = key[c] => info[c].version = V[key[c]])
    /\ pc[c] = "read" => key[c] \in 0..stamp /\ seen[c] = V[key[c]]
    /\ info[c].hit => /\ pc[c] \in {"gate", "launch", "release"}
                      /\ info[c].quiet => info[c].version = seen[c]

Histories == [0..MaxStamp -> Versions]

Files(V) == \A u \in Users : Tells(V, cache[u]) /\ Tells(V, tmp[u])

Agrees(V) == V[stamp] = venv.vllm /\ Files(V) /\ \A c \in Cmds : Knows(V, c)

HitsInv == \E V \in Histories : Agrees(V)

LEMMA HitsInit == Init => HitsInv
<1>1. ASSUME Init
      PROVE  HitsInv
  <2> DEFINE V == [s \in 0..MaxStamp |-> Older]
  <2>1. V \in Histories /\ V[0] = Older
    BY Constants DEF Histories
  <2>2. Agrees(V)
    BY <1>1, <2>1 DEF Init, Agrees, Files, Tells, Knows, Absent, Blank, Learnt
  <2> QED
    BY <2>1, <2>2 DEF HitsInv
<1> QED
  BY <1>1

\* A step that leaves the environment alone keeps the history: it is enough that the
\* files still tell the truth and that the command that stepped knows what it should.
LEMMA HitsKept ==
    ASSUME TypeOK, NEW V \in Histories, Agrees(V), NEW c \in Cmds,
           UNCHANGED <<venv, stamp>>, \A d \in Cmds \ {c} : Own(d)' = Own(d),
           Files(V)', Knows(V, c)'
    PROVE  Agrees(V)'
<1>1. ASSUME NEW d \in Cmds \ {c}
      PROVE  Knows(V, d)'
  BY <1>1 DEF Agrees, Knows, Measured, Own
<1> QED
  BY <1>1 DEF Agrees

LEMMA HitsMeasure ==
    ASSUME TypeOK, NEW V \in Histories, Agrees(V), NEW c \in Cmds, Measure(c)
    PROVE  Agrees(V)'
<1>1. UNCHANGED <<venv, stamp>> /\ \A d \in Cmds \ {c} : Own(d)' = Own(d)
  BY OthersMeasure DEF Measure, Lookup, ReadCache, ReadVersion, ReadMetadata, Rekey, OpenTmp,
         WriteTmp, Replace, Gate, Launch, world
<1>2. Knows(V, c) /\ Files(V) /\ V[stamp] = venv.vllm /\ stamp \in Nat
  BY Constants DEF Agrees, TypeOK
<1>3. ASSUME UNCHANGED files
      PROVE  Files(V)'
  BY <1>1, <1>2, <1>3 DEF Files, Tells, files
<1>4. CASE Lookup(c)
  <2>1. Knows(V, c)'
    <3>1. /\ pc[c] = "lookup" /\ info' = info
          /\ pc'[c] = "version" \/ (pc'[c] = "read" /\ key'[c] = stamp /\ seen'[c] = venv.vllm)
      BY <1>4 DEF TypeOK, Lookup, Goto, HasKey, VenvKey
    <3> QED
      BY <1>1, <1>2, <3>1 DEF Knows
  <2> QED
    BY <1>1, <1>3, <1>4, <2>1, HitsKept DEF Lookup
<1>5. CASE ReadCache(c)
  <2> DEFINE file == cache[UserOf[c]]
  <2>1. Knows(V, c)'
    <3>1. CASE Accepts(file, key[c])
      <4>1. /\ pc[c] = "read" /\ pc'[c] = "gate" /\ seen' = seen
            /\ info'[c] = [version |-> file.version, errors |-> FALSE, hit |-> TRUE,
                           quiet |-> file.quiet]
        BY <1>5, <3>1 DEF TypeOK, ReadCache, Goto
      <4>2. file.key = key[c] /\ (file.quiet => file.version = V[key[c]])
        BY <1>2, <3>1, Constants DEF Files, Tells, Accepts
      <4> QED
        BY <1>2, <4>1, <4>2 DEF Knows
    <3>2. CASE ~Accepts(file, key[c])
      <4>1. pc[c] = "read" /\ pc'[c] = "version" /\ info' = info
        BY <1>5, <3>2 DEF TypeOK, ReadCache, Goto
      <4> QED
        BY <1>2, <4>1 DEF Knows
    <3> QED
      BY <3>1, <3>2
  <2> QED
    BY <1>1, <1>3, <1>5, <2>1, HitsKept DEF ReadCache
<1>6. CASE ReadVersion(c)
  <2>1. /\ pc'[c] = "metadata" /\ began'[c] = stamp
        /\ \E fails \in BOOLEAN :
              info'[c] = Learnt(IF fails THEN "none" ELSE venv.vllm, fails)
    BY <1>6 DEF TypeOK, ReadVersion, Goto
  <2>2. Knows(V, c)'
    BY <1>1, <1>2, <2>1 DEF Knows, Measured, Learnt
  <2> QED
    BY <1>1, <1>3, <1>6, <2>2, HitsKept DEF ReadVersion
<1>7. CASE ReadMetadata(c)
  <2>1. /\ pc[c] = "metadata" /\ pc'[c] = "rekey" /\ began' = began
        /\ info'[c] \in {Learnt("none", TRUE), info[c], Learnt(venv.vllm, FALSE)}
    BY <1>7 DEF TypeOK, ReadMetadata, Goto
  <2>2. Knows(V, c)'
    BY <1>1, <1>2, <2>1 DEF Knows, Measured, Learnt
  <2> QED
    BY <1>1, <1>3, <1>7, <2>2, HitsKept DEF ReadMetadata
<1>8. CASE Rekey(c)
  <2>1. /\ pc[c] = "rekey" /\ info' = info
        /\ \/ pc'[c] = "gate"
           \/ /\ pc'[c] = "open" /\ key'[c] = stamp /\ began' = began
              /\ ~info[c].errors /\ info[c].version # "none"
    BY <1>8 DEF TypeOK, Rekey, Goto, VenvKey
  <2>2. Knows(V, c)'
    BY <1>1, <1>2, <2>1 DEF Knows, Measured
  <2> QED
    BY <1>1, <1>3, <1>8, <2>2, HitsKept DEF Rekey
<1>9. CASE OpenTmp(c)
  <2>1. /\ pc[c] = "open" /\ pc'[c] \in {"write", "gate"} /\ cache' = cache /\ UNCHANGED local
        /\ tmp' = tmp \/ tmp' = [tmp EXCEPT ![UserOf[c]] = Empty]
    BY <1>9 DEF TypeOK, OpenTmp, Goto
  <2>2. Knows(V, c)'
    BY <1>1, <1>2, <2>1 DEF Knows, local
  <2>3. Files(V)'
    BY <1>1, <1>2, <2>1 DEF TypeOK, Files, Tells, Empty
  <2> QED
    BY <1>1, <2>2, <2>3, HitsKept
<1>10. CASE WriteTmp(c)
  <2> DEFINE entry == [text |-> "whole", key |-> key[c], version |-> info[c].version,
                       quiet |-> began[c] = key[c]]
  <2>1. pc[c] = "write" /\ pc'[c] \in {"gate", "replace"} /\ info' = info /\ seen' = seen
    BY <1>10 DEF TypeOK, WriteTmp, Goto
  <2>2. Knows(V, c)'
    BY <1>2, <2>1 DEF Knows
  <2>3. Tells(V, Torn) /\ Tells(V, entry)
    BY <1>2, <2>1 DEF Tells, Torn, Knows
  <2>4. \A old : Written(c, old) \subseteq {entry, Torn}
    BY DEF Written
  <2>5. PICK new \in {entry, Torn} :
          /\ tmp' = IF fd[c] = "tmp" THEN [tmp EXCEPT ![UserOf[c]] = new] ELSE tmp
          /\ cache' = IF fd[c] = "cache" THEN [cache EXCEPT ![UserOf[c]] = new] ELSE cache
    BY <1>10, <2>4 DEF WriteTmp
  <2>6. Tells(V, new)
    BY <2>3
  <2>7. \A u \in Users : tmp'[u] \in {tmp[u], new} /\ cache'[u] \in {cache[u], new}
    BY <2>5 DEF TypeOK
  <2>8. Files(V)'
    BY <1>1, <1>2, <2>6, <2>7 DEF Files, Tells
  <2> QED
    BY <1>1, <2>2, <2>8, HitsKept
<1>11. CASE Replace(c)
  <2>1. /\ pc[c] = "replace" /\ pc'[c] = "gate" /\ UNCHANGED local
        /\ \A u \in Users : tmp'[u] \in {tmp[u], Absent} /\ cache'[u] \in {cache[u], tmp[u]}
    BY <1>11 DEF TypeOK, Replace, Goto, files
  <2>2. Knows(V, c)'
    BY <1>2, <2>1 DEF Knows, local
  <2>3. Files(V)'
    BY <1>1, <1>2, <2>1 DEF Files, Tells, Absent
  <2> QED
    BY <1>1, <2>2, <2>3, HitsKept
<1>12. CASE Gate(c) \/ Launch(c)
  <2>1. \/ pc[c] = "gate" /\ pc'[c] \in {"launch", "release"} /\ UNCHANGED local
        \/ pc'[c] = "idle" /\ info'[c] = Blank
    BY <1>12 DEF TypeOK, Gate, Launch, Done, Goto
  <2>2. Knows(V, c)'
    BY <1>2, <2>1 DEF Knows, local, Blank, Learnt
  <2> QED
    BY <1>1, <1>3, <1>12, <2>2, HitsKept DEF Gate, Launch
<1> QED
  BY <1>4, <1>5, <1>6, <1>7, <1>8, <1>9, <1>10, <1>11, <1>12 DEF Measure

\* An installation adds one time to the history.
LEMMA HitsPip ==
    ASSUME TypeOK, NEW V \in Histories, Agrees(V), NEW c \in Cmds, PipStep(c)
    PROVE  HitsInv'
<1>1. stamp \in Nat /\ stamp < MaxStamp /\ stamp' = stamp + 1 /\ MaxStamp \in Nat
  BY Constants DEF TypeOK, PipStep
<1>2. venv'.vllm \in Versions
  BY Constants DEF TypeOK, PipStep
<1>3. PICK W \in Histories :
        W[stamp + 1] = venv'.vllm /\ \A s \in 0..stamp : W[s] = V[s]
  <2> DEFINE N == [V EXCEPT ![stamp + 1] = venv'.vllm]
  <2>1. N \in Histories
    BY <1>1, <1>2 DEF Histories
  <2>2. N[stamp + 1] = venv'.vllm /\ \A s \in 0..stamp : N[s] = V[s]
    BY <1>1 DEF Histories
  <2> QED
    BY <2>1, <2>2
<1>4. \A s \in 0..stamp : W[s] = V[s] /\ s \in 0..(stamp + 1) /\ s # stamp + 1
  BY <1>1, <1>3
<1>5. /\ pc[c] \in PipWork /\ pc'[c] \in PipWork \cup {"invalidate"} /\ UNCHANGED <<files, local>>
      /\ \A d \in Cmds : d # c => pc'[d] = pc[d]
  BY DEF TypeOK, PipStep, Goto, PipWork
<1>6. ASSUME NEW d \in Cmds
      PROVE  Knows(W, d)'
  <2>1. Knows(V, d) /\ UNCHANGED <<key[d], info[d], began[d], seen[d]>>
    BY <1>5 DEF Agrees, local
  <2>2. pc'[d] = pc[d] \/ (pc[d] \in PipWork /\ pc'[d] \in PipWork \cup {"invalidate"})
    BY <1>5
  <2> QED
    BY <1>1, <1>4, <2>1, <2>2 DEF Knows, Measured, PipWork
<1>7. ASSUME NEW f, Tells(V, f)
      PROVE  Tells(W, f)'
  BY <1>1, <1>4, <1>7 DEF Tells
<1>8. Files(W)'
  BY <1>5, <1>7 DEF Agrees, Files, files
<1>9. Agrees(W)'
  BY <1>1, <1>3, <1>6, <1>8 DEF Agrees
<1> QED
  BY <1>3, <1>9 DEF HitsInv

LEMMA HitsElse ==
    ASSUME TypeOK, NEW V \in Histories, Agrees(V), NEW c \in Cmds, ~PipStep(c),
           Begin(c) \/ Upkeep(c) \/ Answer(c) \/ Kill(c)
    PROVE  Agrees(V)'
<1>1. UNCHANGED <<venv, stamp>> /\ \A d \in Cmds \ {c} : Own(d)' = Own(d)
  BY OthersElse DEF Begin, Upkeep, Answer, Kill, TakeLock, CheckStopped, PipFails, Invalidate,
         Release, ProbeFirst, CleanSockets, DeleteCaches, world
<1>2. Knows(V, c) /\ Files(V)
  BY DEF Agrees
<1>3. Knows(V, c)'
  <2>1. CASE Done(c)
    BY <2>1 DEF TypeOK, Done, Goto, Knows, Blank, Learnt
  <2>2. CASE info' = info /\ seen' = seen
               /\ pc[c] \notin {"gate", "launch", "release"}
               /\ pc'[c] \notin {"metadata", "rekey", "open", "write", "read"}
    BY <1>2, <2>2 DEF Knows
  <2>3. CASE Begin(c)
    BY <2>2, <2>3, BeginGoes DEF Begin, local
  <2>4. CASE TakeLock(c) \/ CheckStopped(c)
    BY <2>1, <2>2, <2>4 DEF TypeOK, TakeLock, CheckStopped, Goto, local
  <2>5. CASE PipFails(c) \/ Invalidate(c) \/ Release(c) \/ ProbeFirst(c)
    BY <2>1, <2>2, <2>5 DEF TypeOK, PipFails, Invalidate, Release, ProbeFirst, Goto, local, PipWork
  <2>6. CASE CleanSockets(c) \/ DeleteCaches(c) \/ Answer(c) \/ Kill(c)
    BY <2>1, <2>2, <2>6 DEF TypeOK, CleanSockets, DeleteCaches, Answer, Kill, Goto, local
  <2> QED
    BY <2>3, <2>4, <2>5, <2>6 DEF Upkeep
<1>4. Files(V)'
  <2>1. tmp' = tmp /\ \A u \in Users : cache'[u] \in {cache[u], Absent}
    BY DEF TypeOK, Begin, Upkeep, Answer, Kill, TakeLock, CheckStopped, PipFails, Invalidate,
           Release, ProbeFirst, CleanSockets, DeleteCaches, files
  <2> QED
    BY <1>1, <1>2, <2>1 DEF Files, Tells, Absent
<1> QED
  BY <1>1, <1>3, <1>4, HitsKept

\* A hit is what was installed when its key was computed, whoever wrote the entry and
\* through whichever file, as long as no installation overtook the measurement.
THEOREM HitsHold == Spec => []HitsMatchTheirKey
<1>1. ASSUME TypeOK, HitsInv, [Next]_vars
      PROVE  HitsInv'
  <2>1. PICK V \in Histories : Agrees(V)
    BY <1>1 DEF HitsInv
  <2>2. CASE UNCHANGED vars \/ EngineStops
    <3>1. Agrees(V)'
      BY <2>1, <2>2 DEF Agrees, Files, Tells, Knows, Measured, vars, world, files, local, EngineStops
    <3> QED
      BY <3>1 DEF HitsInv
  <2>3. ASSUME NEW c \in Cmds, Measure(c)
        PROVE  HitsInv'
    BY <1>1, <2>1, <2>3, HitsMeasure DEF HitsInv
  <2>4. ASSUME NEW c \in Cmds, Begin(c) \/ Upkeep(c) \/ Answer(c) \/ Kill(c)
        PROVE  HitsInv'
    <3>1. CASE PipStep(c)
      BY <1>1, <2>1, <3>1, HitsPip
    <3>2. CASE ~PipStep(c)
      BY <1>1, <2>1, <2>4, <3>2, HitsElse DEF HitsInv
    <3> QED
      BY <3>1, <3>2
  <2> QED
    BY <1>1, <2>2, <2>3, <2>4 DEF Next
<1>2. HitsInv => HitsMatchTheirKey
  BY DEF HitsInv, Agrees, Knows, HitsMatchTheirKey
<1>3. TypeOK /\ HitsInv /\ [Next]_vars => HitsInv'
  BY <1>1
<1> QED
  BY <1>2, <1>3, HitsInit, RuntimeTypeCorrect, PTL DEF Spec
=============================================================================
