-------------------------- MODULE GpuSessionProofs --------------------------
(***************************************************************************)
(* What GpuSession promises for every number of terminals, users and       *)
(* backends.  The argument: only the holder of the lock starts a unit, so  *)
(* a unit that the holder has seen stopped stays stopped until he starts   *)
(* one himself; PInv says for every stage what its terminal has seen.      *)
(***************************************************************************)
EXTENDS GpuSession, FiniteSetTheorems, WellFoundedInduction, TLAPS

-----------------------------------------------------------------------------
(* The markers, for every number of users.                                 *)

\* A marker store stays a marker store (write_session).
LEMMA WriteMarkerType ==
    ASSUME NEW m \in MarkerStores, NEW u \in Users, NEW c \in BOOLEAN
    PROVE  WriteMarker(m, u, c) \in MarkerStores
  BY DEF MarkerStores, WriteMarker

\* A marker store stays a marker store (clear_session, _clear_all_session_markers).
LEMMA RemoveMarkersType ==
    ASSUME NEW m \in MarkerStores, NEW S \in SUBSET Users
    PROVE  RemoveMarkers(m, S) \in MarkerStores
  BY DEF MarkerStores, RemoveMarkers

\* The empty store is one.
LEMMA NoMarkersType == NoMarkers \in MarkerStores /\ Ordered(NoMarkers)
  BY DEF MarkerStores, NoMarkers, Ordered

\* Writing a marker keeps the files totally ordered by age.
THEOREM WriteKeepsOrder ==
    ASSUME NEW m \in MarkerStores, Ordered(m), NEW u \in Users, NEW c \in BOOLEAN
    PROVE  Ordered(WriteMarker(m, u, c))
  <1> DEFINE F == m.files
             O == m.older
             newer == [v \in Users |-> IF v = u THEN F \ {u} ELSE O[v] \ {u}]
             claims == IF c THEN m.claims \cup {u} ELSE m.claims \ {u}
  <1>1. F \in SUBSET Users /\ O \in [Users -> SUBSET Users] /\ newer \in [Users -> SUBSET Users]
    BY DEF MarkerStores
  <1>2. /\ \A x \in Users : O[x] \subseteq F \ {x}
        /\ \A x \in F : \A y \in F \ {x} : (x \in O[y]) <=> (y \notin O[x])
        /\ \A x, y \in F : y \in O[x] => O[y] \subseteq O[x]
    BY DEF Ordered
  <1>3. \A x \in Users : newer[x] = IF x = u THEN F \ {u} ELSE O[x] \ {u}
    OBVIOUS
  <1>4. claims \subseteq F \cup {u}
    BY DEF Ordered
  <1>5. WriteMarker(m, u, c) = [files |-> F \cup {u}, older |-> newer, claims |-> claims]
    BY DEF WriteMarker
  <1> HIDE DEF F, O, newer, claims
  <1>6. /\ \A x \in Users : newer[x] \subseteq (F \cup {u}) \ {x}
        /\ \A x \in F \cup {u} : \A y \in (F \cup {u}) \ {x} :
               (x \in newer[y]) <=> (y \notin newer[x])
        /\ \A x, y \in F \cup {u} : y \in newer[x] => newer[y] \subseteq newer[x]
    BY <1>1, <1>2, <1>3, SMTT(30)
  <1> QED
    BY <1>4, <1>5, <1>6 DEF Ordered

\* Removing markers keeps the others in order.
THEOREM RemoveKeepsOrder ==
    ASSUME NEW m \in MarkerStores, Ordered(m), NEW S \in SUBSET Users
    PROVE  Ordered(RemoveMarkers(m, S))
  <1> DEFINE F == m.files
             O == m.older
             newer == [v \in Users |-> IF v \in S THEN {} ELSE O[v] \ S]
             claims == m.claims \ S
  <1>1. F \in SUBSET Users /\ O \in [Users -> SUBSET Users] /\ newer \in [Users -> SUBSET Users]
    BY DEF MarkerStores
  <1>2. /\ \A x \in Users : O[x] \subseteq F \ {x}
        /\ \A x \in F : \A y \in F \ {x} : (x \in O[y]) <=> (y \notin O[x])
        /\ \A x, y \in F : y \in O[x] => O[y] \subseteq O[x]
    BY DEF Ordered
  <1>3. \A x \in Users : newer[x] = IF x \in S THEN {} ELSE O[x] \ S
    OBVIOUS
  <1>4. claims \subseteq F \ S
    BY DEF Ordered
  <1>5. RemoveMarkers(m, S) = [files |-> F \ S, older |-> newer, claims |-> claims]
    BY DEF RemoveMarkers
  <1> HIDE DEF F, O, newer, claims
  <1>6. /\ \A x \in Users : newer[x] \subseteq (F \ S) \ {x}
        /\ \A x \in F \ S : \A y \in (F \ S) \ {x} : (x \in newer[y]) <=> (y \notin newer[x])
        /\ \A x, y \in F \ S : y \in newer[x] => newer[y] \subseteq newer[x]
    BY <1>1, <1>2, <1>3, SMTT(30)
  <1> QED
    BY <1>4, <1>5, <1>6 DEF Ordered

\* At most one marker is the newest.
LEMMA NewestUnique ==
    ASSUME NEW m \in MarkerStores, Ordered(m), NEW u \in Users, NEW v \in Users,
           Newest(m, u), Newest(m, v)
    PROVE  u = v
  BY DEF Newest, Ordered, MarkerStores

\* read_session after write_session answers the writer, whoever had markers before
\* and whatever became of them: the last to write is the holder of the session.
THEOREM LastWriterHolds ==
    ASSUME NEW m \in MarkerStores, Ordered(m), NEW u \in Users, NEW c \in BOOLEAN
    PROVE  Holder(WriteMarker(m, u, c)) = u
  <1> DEFINE w == WriteMarker(m, u, c)
  <1>1. w \in MarkerStores /\ Ordered(w)
    BY WriteMarkerType, WriteKeepsOrder
  <1>2. Newest(w, u)
    BY DEF Newest, WriteMarker, MarkerStores
  <1>3. \A v \in Users : Newest(w, v) => v = u
    BY <1>1, <1>2, NewestUnique
  <1> HIDE DEF w
  <1>4. Holder(w) = u
    BY <1>2, <1>3 DEF Holder
  <1> QED
    BY <1>4 DEF w

\* The holder has the newest marker ...
LEMMA HolderIsNewest ==
    ASSUME NEW m \in MarkerStores, NEW u \in Users, Holder(m) = u
    PROVE  Newest(m, u)
  <1>1. \E v \in Users : Newest(m, v)
    BY UsersAssumption DEF Holder
  <1>2. Holder(m) = CHOOSE v \in Users : Newest(m, v)
    BY <1>1 DEF Holder
  <1> HIDE DEF Newest
  <1> QED
    BY <1>1, <1>2

\* ... and where nobody holds the session there is no marker: of finitely many, one
\* has no newer one.
LEMMA NobodyHolds ==
    ASSUME NEW m \in MarkerStores, Ordered(m), Holder(m) = NoUser
    PROVE  m.files = {}
  <1> DEFINE F == m.files
             newer(u) == F \ m.older[u]
             N == {newer(u) : u \in F}
  <1> SUFFICES ASSUME F # {} PROVE FALSE
    OBVIOUS
  <1>1. F \subseteq Users /\ IsFiniteSet(F)
    BY UsersAssumption, FS_Subset DEF MarkerStores
  <1>2. N \subseteq FiniteSubsetsOf(F) /\ N # {}
    <2>1. \A u \in F : newer(u) \in SUBSET F
      OBVIOUS
    <2> HIDE DEF newer
    <2> QED
      BY <1>1, <2>1, FS_FiniteSubsetsOfFinite
  <1>3. PICK T \in N : \A U \in N : ~(<<U, T>> \in StrictSubsetOrdering(F))
    <2> HIDE DEF N
    <2> QED
      BY <1>1, <1>2, FS_StrictSubsetOrderingWellFounded, WFMin
  <1>4. PICK u \in F : T = newer(u)
    BY DEF N
  <1>5. ~Newest(m, u)
    BY <1>1, UsersAssumption DEF Holder
  <1>6. PICK v \in F \ {u} : v \notin m.older[u]
    BY <1>1, <1>5 DEF Newest, Ordered
  <1>7. u \in m.older[v] /\ m.older[u] \subseteq m.older[v] /\ u \notin m.older[u]
    BY <1>1, <1>6 DEF Ordered
  <1>8. newer(v) \subseteq newer(u) /\ newer(v) # newer(u)
    BY <1>7
  <1>9. <<newer(v), T>> \in StrictSubsetOrdering(F)
    <2>1. newer(v) \in SUBSET F /\ newer(u) \in SUBSET F
      OBVIOUS
    <2> HIDE DEF newer
    <2> QED
      BY <1>4, <1>8, <2>1 DEF StrictSubsetOrdering
  <1> QED
    BY <1>3, <1>6, <1>9

-----------------------------------------------------------------------------
(* The invariant.                                                          *)

Down(b) == unit[b] = "down"
Targeted == {"run", "bench", "precache"}

\* The commands that get to a stage.
JobAt(s, c) ==
    /\ s = "idle" <=> c = "none"
    /\ s \in {"precheck", "presweep"} => c \in {"run", "stop"}
    /\ s \in {"orphan", "claim", "forget", "verify", "stopped"} => c = "stop"
    /\ s \in {"inspect", "cleanup"} => c \in {"bench", "precache"}
    /\ s = "warmup" => c = "precache"
    /\ s \in {"confirm", "settle"} => c = "run"
    /\ s = "stopping" => c \in {"run", "stop"}
    /\ s \in {"start", "mark"} => c \in Targeted
    /\ s \in {"health", "giveup", "halt"} => c \in {"run", "bench"}
    /\ s = "survey" => c \in {"run", "bench", "stop"}

\* The stages in which a terminal has the lock.
Locked(p) ==
    \/ pc[p] \in {"check", "sweep", "confirm", "stopping", "settle", "start", "mark",
                  "health", "giveup", "halt", "verify", "stopped", "warmup"}
    \/ pc[p] = "survey" /\ job[p] # "stop"
    \/ pc[p] \in {"inspect", "cleanup"} /\ job[p] = "precache"

\* The stages in which it probes all the backends with the lock.
LooksAround(p) == \/ pc[p] \in {"check", "settle", "verify"}
                  \/ pc[p] = "survey" /\ job[p] # "stop"

PInv(p) ==
    /\ JobAt(pc[p], job[p])
    /\ job[p] \in Targeted => target[p] \in Backends
    /\ Locked(p) => lock = p
    /\ LooksAround(p) /\ ~unsure[p] =>
          \A b \in Backends : b \in todo[p] \/ b \in up[p] \/ Down(b)
    /\ pc[p] = "inspect" /\ job[p] = "precache" /\ ~unsure[p] =>
          target[p] \in todo[p] \/ target[p] \in up[p] \/ Down(target[p])
    /\ pc[p] \in {"sweep", "stopped"} => \A b \in Backends : Down(b)
    /\ pc[p] = "start" /\ busy[p] = NoBackend => Down(target[p])
    /\ pc[p] = "start" /\ busy[p] = NoBackend /\ job[p] # "precache" =>
          \A b \in Backends : Down(b)
    /\ (pc[p] = "start" /\ busy[p] # NoBackend)
       \/ pc[p] \in {"mark", "health", "giveup", "halt", "warmup"} =>
          Down(target[p]) \/ owner[target[p]] = Me(p)

GpuInv == TypeOK /\ Ordered(markers) /\ \A p \in Procs : PInv(p)

-----------------------------------------------------------------------------
(* How steps leave what the other terminals rely on.                       *)

SharedType ==
    /\ unit \in [Backends -> UnitStates]
    /\ restarts \in SUBSET Backends
    /\ owner \in [Backends -> Users \cup {NoUser}]
    /\ lock \in Procs \cup {NoProc}
    /\ markers \in MarkerStores
    /\ Ordered(markers)

LocalType ==
    /\ pc \in [Procs -> Stages]
    /\ job \in [Procs -> Commands \cup {"none"}]
    /\ target \in [Procs -> Backends \cup {NoBackend}]
    /\ todo \in [Procs -> SUBSET Backends]
    /\ up \in [Procs -> SUBSET Backends]
    /\ unsure \in [Procs -> BOOLEAN]
    /\ cands \in [Procs -> SUBSET Backends]
    /\ busy \in [Procs -> Backends \cup {NoBackend}]
    /\ polls \in [Procs -> 0..MaxPolls]

\* What a step of p changes for the other terminals: nothing of theirs, and not
\* their lock.
KeepsOthers(p) ==
    \A q \in Procs \ {p} :
        /\ pc'[q] = pc[q] /\ job'[q] = job[q] /\ target'[q] = target[q]
        /\ todo'[q] = todo[q] /\ up'[q] = up[q] /\ unsure'[q] = unsure[q]
        /\ busy'[q] = busy[q]
        /\ lock = q => lock' = q

\* A step that starts no engine.
Calm == \A b \in Backends : /\ unit[b] = "down" => unit'[b] = "down"
                            /\ unit'[b] = "down" \/ owner'[b] = owner[b]

\* What has to be shown of a step of p that starts no engine.
GoodStep(p) == SharedType' /\ LocalType' /\ KeepsOthers(p) /\ Calm /\ PInv(p)'

\* The locals of p after Continue(p, s, B).
Continued(p, s, B) ==
    /\ pc'[p] = s /\ todo'[p] = B /\ up'[p] = {} /\ unsure'[p] = FALSE
    /\ busy'[p] = NoBackend /\ job'[p] = job[p] /\ target'[p] = target[p]

\* The parts of GpuInv that the lemmas below work with.
LEMMA InvParts == GpuInv <=> SharedType /\ LocalType /\ \A p \in Procs : PInv(p)
  BY DEF GpuInv, TypeOK, SharedType, LocalType

\* A terminal that exits is idle and the others keep what they have.
LEMMA ExitLocals ==
    ASSUME LocalType, SharedType, NEW p \in Procs, Exit(p)
    PROVE  /\ LocalType' /\ KeepsOthers(p) /\ PInv(p)'
           /\ lock' \in Procs \cup {NoProc}
  <1>1. LocalType'
    BY GpuAssumption DEF LocalType, Exit, Stages
  <1>2. KeepsOthers(p)
    BY DEF LocalType, Exit, KeepsOthers
  <1>3. pc'[p] = "idle" /\ job'[p] = "none"
    BY DEF LocalType, Exit
  <1>4. PInv(p)'
    BY <1>3 DEF PInv, JobAt, Locked, LooksAround, Targeted
  <1>5. lock' \in Procs \cup {NoProc}
    BY DEF SharedType, Exit
  <1> QED
    BY <1>1, <1>2, <1>4, <1>5

\* The locals after Continue ...
LEMMA ContinueLocals ==
    ASSUME LocalType, NEW p \in Procs, NEW s \in Stages, NEW B \in SUBSET Backends,
           Continue(p, s, B),
           cands' \in [Procs -> SUBSET Backends], polls' \in [Procs -> 0..MaxPolls],
           \A q \in Procs \ {p} : lock = q => lock' = q
    PROVE  LocalType' /\ KeepsOthers(p) /\ Continued(p, s, B)
  <1>1. LocalType'
    BY DEF LocalType, Continue
  <1>2. KeepsOthers(p)
    BY DEF LocalType, Continue, KeepsOthers
  <1>3. Continued(p, s, B)
    BY DEF LocalType, Continue, Continued
  <1> QED
    BY <1>1, <1>2, <1>3

\* ... and after Goto.
LEMMA GotoLocals ==
    ASSUME LocalType, NEW p \in Procs, NEW s \in Stages, NEW B \in SUBSET Backends,
           Goto(p, s, B),
           \A q \in Procs \ {p} : lock = q => lock' = q
    PROVE  LocalType' /\ KeepsOthers(p) /\ Continued(p, s, B)
  <1>1. cands' \in [Procs -> SUBSET Backends] /\ polls' \in [Procs -> 0..MaxPolls]
    BY DEF LocalType, Goto
  <1> QED
    BY <1>1, ContinueLocals DEF Goto

\* Steps that leave the shared state alone, or all of it but the lock, are calm.
LEMMA SharedSame ==
    ASSUME SharedType, UNCHANGED <<system, markers>>, lock' \in Procs \cup {NoProc}
    PROVE  SharedType' /\ Calm
  BY DEF SharedType, Calm, system

\* Steps that change the markers, the restarts or the lock are calm.
LEMMA MarkersChange ==
    ASSUME SharedType, UNCHANGED <<unit, owner>>, restarts' \in SUBSET Backends,
           lock' \in Procs \cup {NoProc},
           markers' \in MarkerStores, Ordered(markers')
    PROVE  SharedType' /\ Calm
  BY DEF SharedType, Calm

\* The end of a launch: a benchmark goes to its clean-up, everybody else exits.
LEMMA EndLaunchIsGood ==
    ASSUME SharedType, LocalType, NEW p \in Procs, PInv(p), EndLaunch(p),
           UNCHANGED <<system, markers>>
    PROVE  GoodStep(p)
  <1>1. CASE job[p] = "bench"
    <2>1. lock' = (IF lock = p THEN NoProc ELSE lock) /\ Goto(p, "cleanup", {target[p]})
      BY <1>1 DEF EndLaunch
    <2>2. {target[p]} \in SUBSET Backends
      BY <1>1 DEF PInv, Targeted
    <2>3. LocalType' /\ KeepsOthers(p) /\ Continued(p, "cleanup", {target[p]})
      BY <2>1, <2>2, GotoLocals DEF Stages
    <2>4. SharedType' /\ Calm
      BY <2>1, SharedSame DEF SharedType
    <2>5. PInv(p)'
      BY <1>1, <2>2, <2>3 DEF Continued, PInv, JobAt, Locked, LooksAround, Targeted
    <2> QED
      BY <2>3, <2>4, <2>5 DEF GoodStep
  <1>2. CASE job[p] # "bench"
    <2>1. Exit(p)
      BY <1>2 DEF EndLaunch
    <2> QED
      BY <2>1, ExitLocals, SharedSame DEF GoodStep
  <1> QED
    BY <1>1, <1>2

\* PInv of the terminals that do not move: a calm step takes nothing from them ...
LEMMA OthersAfterCalmStep ==
    ASSUME SharedType, LocalType, NEW p, KeepsOthers(p), Calm,
           NEW q \in Procs \ {p}, PInv(q)
    PROVE  PInv(q)'
  <1>1. /\ pc'[q] = pc[q] /\ job'[q] = job[q] /\ target'[q] = target[q]
        /\ todo'[q] = todo[q] /\ up'[q] = up[q] /\ unsure'[q] = unsure[q]
        /\ busy'[q] = busy[q] /\ (lock = q => lock' = q)
    BY DEF KeepsOthers
  <1>2. JobAt(pc[q], job[q])'
    BY <1>1 DEF PInv, JobAt
  <1>3. (Locked(q)' => lock' = q) /\ (Locked(q)' <=> Locked(q)) /\ (LooksAround(q)' <=> LooksAround(q))
    BY <1>1 DEF PInv, Locked, LooksAround
  <1>4. job[q] \in Targeted => target[q] \in Backends
    BY DEF PInv
  <1>5. JobAt(pc[q], job[q])
    BY DEF PInv
  <1>6. \A b \in Backends : Down(b) => Down(b)'
    BY DEF Calm, Down
  <1>7. \A b \in Backends : Down(b) \/ owner[b] = Me(q) => Down(b)' \/ owner'[b] = Me(q)
    BY DEF Calm, Down
  <1> QED
    BY <1>1, <1>2, <1>3, <1>4, <1>5, <1>6, <1>7 DEF PInv, JobAt, Targeted, Me

\* ... and whoever does not have the lock has seen nothing that could change.
LEMMA OthersWithoutLock ==
    ASSUME SharedType, LocalType, NEW p \in Procs, lock = p, KeepsOthers(p),
           NEW q \in Procs \ {p}, PInv(q)
    PROVE  PInv(q)'
  <1>1. /\ pc'[q] = pc[q] /\ job'[q] = job[q] /\ target'[q] = target[q]
        /\ todo'[q] = todo[q] /\ up'[q] = up[q] /\ unsure'[q] = unsure[q]
        /\ busy'[q] = busy[q]
    BY DEF KeepsOthers
  <1>2. ~Locked(q) /\ JobAt(pc[q], job[q]) /\ (job[q] \in Targeted => target[q] \in Backends)
    BY DEF PInv
  <1> QED
    BY <1>1, <1>2 DEF PInv, JobAt, Locked, LooksAround, Targeted

-----------------------------------------------------------------------------
(* The steps, one by one.                                                  *)

\* A command begins.
LEMMA InvokeIsGood ==
    ASSUME SharedType, LocalType, NEW p \in Procs, PInv(p), Invoke(p)
    PROVE  GoodStep(p)
  <1>1. PICK c \in Commands, b \in Backends :
          /\ job' = [job EXCEPT ![p] = c]
          /\ target' = [target EXCEPT ![p] = IF c = "stop" THEN NoBackend ELSE b]
          /\ pc' = [pc EXCEPT ![p] = FirstStage(c)]
          /\ todo' = [todo EXCEPT ![p] = FirstProbes(c, b)]
    BY DEF Invoke
  <1>2. c \in {"run", "stop", "bench", "precache"}
    BY GpuAssumption
  <1>3. /\ job'[p] = c /\ pc'[p] = FirstStage(c)
        /\ target'[p] = IF c = "stop" THEN NoBackend ELSE b
    BY <1>1 DEF LocalType
  <1>4. /\ FirstStage(c) \in {"precheck", "inspect", "ready"}
        /\ FirstStage(c) = "inspect" => c = "bench"
        /\ FirstStage(c) = "precheck" => c \in {"run", "stop"}
        /\ FirstProbes(c, b) \in SUBSET Backends
    BY <1>2 DEF FirstStage, FirstProbes
  <1>5. UNCHANGED <<shared, up, unsure, cands, busy, polls>>
    BY DEF Invoke
  <1>6. LocalType'
    BY <1>1, <1>4, <1>5 DEF LocalType, Stages
  <1>7. KeepsOthers(p)
    BY <1>1, <1>5 DEF KeepsOthers, LocalType, shared
  <1>8. SharedType' /\ Calm
    BY <1>5, SharedSame DEF SharedType, shared, system
  <1>9. PInv(p)'
    BY <1>2, <1>3, <1>4 DEF PInv, JobAt, Locked, LooksAround, Targeted
  <1> QED
    BY <1>6, <1>7, <1>8, <1>9 DEF GoodStep

\* A probe under the lock adds to what the terminal knows to be down.
LEMMA ProbeIsGood ==
    ASSUME SharedType, LocalType, NEW p \in Procs, PInv(p), Probe(p)
    PROVE  GoodStep(p)
  <1>1. PICK b \in todo[p] : \E a \in Answers(b) :
          /\ todo' = [todo EXCEPT ![p] = @ \ {b}]
          /\ up' = [up EXCEPT ![p] = IF a = "running" THEN @ \cup {b} ELSE @]
          /\ unsure' = [unsure EXCEPT ![p] = @ \/ a = "error"]
    BY DEF Probe
  <1>2. PICK a \in Answers(b) :
          /\ todo' = [todo EXCEPT ![p] = @ \ {b}]
          /\ up' = [up EXCEPT ![p] = IF a = "running" THEN @ \cup {b} ELSE @]
          /\ unsure' = [unsure EXCEPT ![p] = @ \/ a = "error"]
    BY <1>1
  <1>3. b \in Backends /\ todo[p] \in SUBSET Backends /\ up[p] \in SUBSET Backends
    BY DEF LocalType
  <1>4. /\ todo'[p] = todo[p] \ {b}
        /\ up'[p] = (IF a = "running" THEN up[p] \cup {b} ELSE up[p])
        /\ unsure'[p] = (unsure[p] \/ a = "error")
    BY <1>2 DEF LocalType
  <1>5. UNCHANGED <<shared, pc, job, target, cands, busy, polls>> /\ pc[p] \in Probing
    BY DEF Probe, At
  <1>6. unsure'[p] \in BOOLEAN /\ up'[p] \in SUBSET Backends
    BY <1>3, <1>4 DEF LocalType
  <1>7. LocalType'
    <2>1. up' = [up EXCEPT ![p] = up'[p]] /\ unsure' = [unsure EXCEPT ![p] = unsure'[p]]
      BY <1>2 DEF LocalType
    <2> QED
      BY <1>2, <1>3, <1>5, <1>6, <2>1 DEF LocalType
  <1>8. KeepsOthers(p)
    BY <1>2, <1>5 DEF KeepsOthers, LocalType, shared
  <1>9. SharedType' /\ Calm
    BY <1>5, SharedSame DEF SharedType, shared, system
  <1>10. a = "running" \/ a = "error" \/ Down(b)
    BY DEF Answers, Down
  <1>11. PInv(p)'
    <2>1. ~unsure'[p] => ~unsure[p] /\ (b \in up'[p] \/ Down(b))
      BY <1>4, <1>10
    <2>2. pc'[p] = pc[p] /\ job'[p] = job[p] /\ target'[p] = target[p] /\ busy'[p] = busy[p]
          /\ lock' = lock /\ unit' = unit /\ owner' = owner
      BY <1>5 DEF shared
    <2>3. \A c \in Backends : c \in todo[p] => c = b \/ c \in todo'[p]
      BY <1>4
    <2>4. \A c \in Backends : c \in up[p] => c \in up'[p]
      BY <1>4
    <2>5. pc[p] \in {"precheck", "survey", "inspect", "check", "settle", "verify"}
      BY <1>5 DEF Probing
    <2>6. JobAt(pc[p], job[p])' /\ (Locked(p)' <=> Locked(p)) /\ (LooksAround(p)' <=> LooksAround(p))
      BY <2>2 DEF PInv, JobAt, Locked, LooksAround
    <2>7. LooksAround(p) /\ ~unsure'[p] =>
            \A c \in Backends : c \in todo'[p] \/ c \in up'[p] \/ Down(c)
      BY <2>1, <2>3, <2>4 DEF PInv
    <2>8. pc[p] = "inspect" /\ job[p] = "precache" /\ ~unsure'[p] =>
            target[p] \in todo'[p] \/ target[p] \in up'[p] \/ Down(target[p])
      BY <2>1, <2>3, <2>4 DEF PInv, Targeted
    <2>9. \A c \in Backends : Down(c)' <=> Down(c)
      BY <2>2 DEF Down
    <2>10. Down(target[p])' <=> Down(target[p])
      BY <2>2 DEF Down
    <2> QED
      BY <2>2, <2>5, <2>6, <2>7, <2>8, <2>9, <2>10 DEF PInv
  <1> QED
    BY <1>7, <1>8, <1>9, <1>11 DEF GoodStep

\* The command, or the launch of a benchmark, ends and leaves units and markers.
LEMMA LeavingIsGood ==
    ASSUME SharedType, LocalType, NEW p \in Procs, PInv(p),
           \/ CheckRefuses(p) \/ LockHeld(p) \/ Abandon(p) \/ ConfigUnreadable(p)
           \/ SurveyRefuses(p) \/ SettleTimesOut(p) \/ StartFails(p) \/ HealthKeeps(p)
           \/ HealthUnconfirmed(p) \/ Halted(p) \/ VerifyFails(p) \/ Kill(p)
    PROVE  GoodStep(p)
  <1>1. UNCHANGED <<system, markers>> /\ (EndLaunch(p) \/ Exit(p))
    BY DEF CheckRefuses, LockHeld, Abandon, ConfigUnreadable, SurveyRefuses, SettleTimesOut,
           StartFails, HealthKeeps, HealthUnconfirmed, Halted, VerifyFails, Kill
  <1> QED
    BY <1>1, EndLaunchIsGood, ExitLocals, SharedSame DEF GoodStep

\* It ends and removes markers.
LEMMA ForgettingIsGood ==
    ASSUME SharedType, LocalType, NEW p \in Procs, PInv(p),
           ForgetSession(p) \/ ReportStopped(p)
    PROVE  GoodStep(p)
  <1>1. Exit(p) /\ UNCHANGED system /\ markers' = RemoveMarkers(markers, {Me(p)})
    BY DEF ForgetSession, ReportStopped
  <1>2. {Me(p)} \in SUBSET Users
    BY GpuAssumption DEF Me
  <1>3. markers' \in MarkerStores /\ Ordered(markers')
    BY <1>1, <1>2, RemoveMarkersType, RemoveKeepsOrder DEF SharedType
  <1>4. UNCHANGED <<unit, owner>> /\ restarts' \in SUBSET Backends
    BY <1>1 DEF system, SharedType
  <1> QED
    BY <1>1, <1>3, <1>4, ExitLocals, MarkersChange DEF GoodStep

\* A passed check leads on; the holder of the lock keeps it.
LEMMA AfterCheckLocals ==
    ASSUME SharedType, LocalType, NEW p \in Procs, PInv(p), AfterCheck(p),
           pc[p] \in {"precheck", "presweep", "check", "sweep"}, UNCHANGED <<system, lock>>
    PROVE  LocalType' /\ KeepsOthers(p) /\ PInv(p)'
  <1>1. job[p] # "none" /\ job[p] \in {"run", "stop", "bench", "precache"}
    BY GpuAssumption DEF PInv, JobAt, LocalType
  <1>2. CASE pc[p] \in {"precheck", "presweep"} /\ job[p] = "run"
    <2>1. Goto(p, "ready", {})
      BY <1>2 DEF AfterCheck
    <2>2. LocalType' /\ KeepsOthers(p) /\ Continued(p, "ready", {})
      BY <2>1, GotoLocals DEF Stages
    <2> QED
      BY <1>2, <2>2 DEF Continued, PInv, JobAt, Locked, LooksAround, Targeted, Down
  <1>3. CASE pc[p] \in {"precheck", "presweep"} /\ job[p] # "run"
    <2>1. Goto(p, "orphan", {}) /\ job[p] = "stop"
      BY <1>3 DEF AfterCheck, PInv, JobAt
    <2>2. LocalType' /\ KeepsOthers(p) /\ Continued(p, "orphan", {})
      BY <2>1, GotoLocals DEF Stages
    <2> QED
      BY <2>1, <2>2 DEF Continued, PInv, JobAt, Locked, LooksAround, Targeted, Down
  <1>4. CASE pc[p] \in {"check", "sweep"} /\ job[p] = "stop"
    <2>1. Goto(p, "stopping", cands[p]) /\ cands[p] \in SUBSET Backends
      BY <1>4 DEF AfterCheck, LocalType
    <2>2. LocalType' /\ KeepsOthers(p) /\ Continued(p, "stopping", cands[p])
      BY <2>1, GotoLocals DEF Stages
    <2> QED
      BY <1>4, <2>2 DEF Continued, PInv, JobAt, Locked, LooksAround, Targeted, Down
  <1>5. CASE pc[p] \in {"check", "sweep"} /\ job[p] = "precache"
    <2>1. Goto(p, "inspect", {target[p]}) /\ {target[p]} \in SUBSET Backends
      BY <1>5 DEF AfterCheck, PInv, Targeted
    <2>2. LocalType' /\ KeepsOthers(p) /\ Continued(p, "inspect", {target[p]})
      BY <2>1, GotoLocals DEF Stages
    <2> QED
      BY <1>5, <2>2 DEF Continued, PInv, JobAt, Locked, LooksAround, Targeted, Down
  <1>6. CASE pc[p] \in {"check", "sweep"} /\ job[p] \in {"run", "bench"}
    <2>1. Goto(p, "survey", Backends)
      BY <1>6 DEF AfterCheck
    <2>2. LocalType' /\ KeepsOthers(p) /\ Continued(p, "survey", Backends)
      BY <2>1, GotoLocals DEF Stages
    <2> QED
      BY <1>6, <2>2 DEF Continued, PInv, JobAt, Locked, LooksAround, Targeted, Down
  <1> QED
    BY <1>1, <1>2, <1>3, <1>4, <1>5, <1>6

\* The session check passes.
LEMMA CheckPassesIsGood ==
    ASSUME SharedType, LocalType, NEW p \in Procs, PInv(p), CheckPasses(p)
    PROVE  GoodStep(p)
  BY AfterCheckLocals, SharedSame DEF CheckPasses, At, shared, system, SharedType, GoodStep

\* All probes answered "stopped": under the lock nothing runs when the markers go.
LEMMA CheckFindsStaleIsGood ==
    ASSUME SharedType, LocalType, NEW p \in Procs, PInv(p), CheckFindsStale(p)
    PROVE  GoodStep(p)
  <1> DEFINE s == IF pc[p] = "precheck" THEN "presweep" ELSE "sweep"
  <1>1. Goto(p, s, {}) /\ UNCHANGED shared /\ pc[p] \in {"precheck", "check"} /\ Clear(p) /\ Probed(p)
    BY DEF CheckFindsStale, At
  <1>2. LocalType' /\ KeepsOthers(p) /\ Continued(p, s, {})
    BY <1>1, GotoLocals DEF Stages, shared
  <1>3. SharedType' /\ Calm
    BY <1>1, SharedSame DEF shared, system, SharedType
  <1>4. pc[p] = "check" => \A b \in Backends : Down(b)
    BY <1>1 DEF Clear, Probed, PInv, LooksAround
  <1>5. PInv(p)'
    BY <1>1, <1>2, <1>4 DEF Continued, PInv, JobAt, Locked, LooksAround, Targeted, Down, shared
  <1> QED
    BY <1>2, <1>3, <1>5 DEF GoodStep

\* The stale markers go.
LEMMA SweepMarkersIsGood ==
    ASSUME SharedType, LocalType, NEW p \in Procs, PInv(p), SweepMarkers(p)
    PROVE  GoodStep(p)
  <1> DEFINE S == IF Me(p) \in Privileged THEN Users ELSE {Me(p)}
  <1>1. S \in SUBSET Users
    BY GpuAssumption DEF Me
  <1>2. markers' = RemoveMarkers(markers, S) /\ AfterCheck(p) /\ UNCHANGED <<system, lock>>
        /\ pc[p] \in {"presweep", "sweep"}
    BY DEF SweepMarkers, At
  <1>3. markers' \in MarkerStores /\ Ordered(markers')
    BY <1>1, <1>2, RemoveMarkersType, RemoveKeepsOrder DEF SharedType
  <1>4. SharedType' /\ Calm
    BY <1>2, <1>3, MarkersChange DEF SharedType, system
  <1> QED
    BY <1>2, <1>4, AfterCheckLocals DEF GoodStep

\* The lock was free: nobody else has it, and nothing has been probed yet.
LEMMA TakeLockIsGood ==
    ASSUME SharedType, LocalType, NEW p \in Procs, PInv(p), TakeLock(p)
    PROVE  GoodStep(p)
  <1>1. Goto(p, "check", Backends) /\ lock = NoProc /\ lock' = p /\ UNCHANGED <<system, markers>>
        /\ pc[p] = "ready"
    BY DEF TakeLock, At
  <1>2. LocalType' /\ KeepsOthers(p) /\ Continued(p, "check", Backends)
    BY <1>1, GotoLocals, GpuAssumption DEF Stages
  <1>3. SharedType' /\ Calm
    BY <1>1, SharedSame
  <1>4. PInv(p)'
    BY <1>1, <1>2 DEF Continued, PInv, JobAt, Locked, LooksAround, Targeted, Down
  <1> QED
    BY <1>2, <1>3, <1>4 DEF GoodStep

\* The survey under the lock found every backend down: a unit may be started.
LEMMA SurveyClearIsGood ==
    ASSUME SharedType, LocalType, NEW p \in Procs, PInv(p), SurveyClear(p)
    PROVE  GoodStep(p)
  <1>1. Goto(p, "start", {}) /\ UNCHANGED shared
        /\ pc[p] = "survey" /\ job[p] \in {"run", "bench"}
        /\ todo[p] = {} /\ up[p] = {} /\ ~unsure[p]
    BY DEF SurveyClear, At, Probed, Clear
  <1>2. {} \in SUBSET Backends
    BY <1>1 DEF PInv, JobAt, Targeted, LocalType
  <1>3. LocalType' /\ KeepsOthers(p) /\ Continued(p, "start", {})
    BY <1>1, <1>2, GotoLocals DEF Stages, shared
  <1>4. SharedType' /\ Calm
    BY <1>1, SharedSame DEF shared, system, SharedType
  <1>5. PInv(p)'
    <2>1. \A b \in Backends : Down(b)
      BY <1>1 DEF PInv, LooksAround
    <2>2. target[p] \in Backends
      BY <1>1 DEF PInv, Targeted
    <2> QED
      BY <1>1, <1>3, <2>1, <2>2 DEF Continued, PInv, JobAt, Locked, LooksAround, Targeted, Down, shared, system
  <1> QED
    BY <1>3, <1>4, <1>5 DEF GoodStep

\* The start returned: the engine in the target, if any, is the launcher's.
LEMMA StartReturnsIsGood ==
    ASSUME SharedType, LocalType, NEW p \in Procs, PInv(p), StartReturns(p)
    PROVE  GoodStep(p)
  <1>1. Goto(p, "mark", {}) /\ UNCHANGED shared
        /\ pc[p] = "start" /\ busy[p] # NoBackend
    BY DEF StartReturns, At
  <1>2. {} \in SUBSET Backends
    BY <1>1 DEF PInv, JobAt, Targeted, LocalType
  <1>3. LocalType' /\ KeepsOthers(p) /\ Continued(p, "mark", {})
    BY <1>1, <1>2, GotoLocals DEF Stages, shared
  <1>4. SharedType' /\ Calm
    BY <1>1, SharedSame DEF shared, system, SharedType
  <1>5. PInv(p)'
    BY <1>1, <1>3, GpuAssumption DEF Continued, PInv, JobAt, Locked, LooksAround, Targeted, Down, shared, system
  <1> QED
    BY <1>3, <1>4, <1>5 DEF GoodStep

\* The health wait failed.
LEMMA HealthFailsIsGood ==
    ASSUME SharedType, LocalType, NEW p \in Procs, PInv(p), HealthFails(p)
    PROVE  GoodStep(p)
  <1>1. Goto(p, "giveup", {}) /\ UNCHANGED shared
        /\ pc[p] = "health"
    BY DEF HealthFails, At
  <1>2. {} \in SUBSET Backends
    BY <1>1 DEF PInv, JobAt, Targeted, LocalType
  <1>3. LocalType' /\ KeepsOthers(p) /\ Continued(p, "giveup", {})
    BY <1>1, <1>2, GotoLocals DEF Stages, shared
  <1>4. SharedType' /\ Calm
    BY <1>1, SharedSame DEF shared, system, SharedType
  <1>5. PInv(p)'
    BY <1>1, <1>3 DEF Continued, PInv, JobAt, Locked, LooksAround, Targeted, Down, shared, system
  <1> QED
    BY <1>3, <1>4, <1>5 DEF GoodStep

\* The confirming probe of stop found every backend down.
LEMMA VerifiedIsGood ==
    ASSUME SharedType, LocalType, NEW p \in Procs, PInv(p), Verified(p)
    PROVE  GoodStep(p)
  <1>1. Goto(p, "stopped", {}) /\ UNCHANGED shared
        /\ pc[p] = "verify" /\ todo[p] = {} /\ up[p] = {} /\ ~unsure[p]
    BY DEF Verified, At, Probed, Clear
  <1>2. {} \in SUBSET Backends
    BY <1>1 DEF PInv, JobAt, Targeted, LocalType
  <1>3. LocalType' /\ KeepsOthers(p) /\ Continued(p, "stopped", {})
    BY <1>1, <1>2, GotoLocals DEF Stages, shared
  <1>4. SharedType' /\ Calm
    BY <1>1, SharedSame DEF shared, system, SharedType
  <1>5. PInv(p)'
    <2>1. \A b \in Backends : Down(b)
      BY <1>1 DEF PInv, LooksAround
    <2> QED
      BY <1>1, <1>3, <2>1 DEF Continued, PInv, JobAt, Locked, LooksAround, Targeted, Down, shared, system
  <1> QED
    BY <1>3, <1>4, <1>5 DEF GoodStep

\* The pre-cache goes to its clean-up.
LEMMA WarmupEndsIsGood ==
    ASSUME SharedType, LocalType, NEW p \in Procs, PInv(p), WarmupEnds(p)
    PROVE  GoodStep(p)
  <1>1. Goto(p, "cleanup", {target[p]}) /\ UNCHANGED shared
        /\ pc[p] = "warmup"
    BY DEF WarmupEnds, At
  <1>2. {target[p]} \in SUBSET Backends
    BY <1>1 DEF PInv, JobAt, Targeted, LocalType
  <1>3. LocalType' /\ KeepsOthers(p) /\ Continued(p, "cleanup", {target[p]})
    BY <1>1, <1>2, GotoLocals DEF Stages, shared
  <1>4. SharedType' /\ Calm
    BY <1>1, SharedSame DEF shared, system, SharedType
  <1>5. PInv(p)'
    BY <1>1, <1>3 DEF Continued, PInv, JobAt, Locked, LooksAround, Targeted, Down, shared, system
  <1> QED
    BY <1>3, <1>4, <1>5 DEF GoodStep

\* stop looks for a marker.
LEMMA ReadOrphanIsGood ==
    ASSUME SharedType, LocalType, NEW p \in Procs, PInv(p), ReadOrphan(p)
    PROVE  GoodStep(p)
  <1>1. UNCHANGED shared /\ pc[p] = "orphan" /\ job[p] = "stop"
        /\ (Goto(p, "claim", {}) \/ Goto(p, "survey", Backends))
    BY DEF ReadOrphan, At, PInv, JobAt
  <1>2. \E st \in {"claim", "survey"}, B \in SUBSET Backends :
            LocalType' /\ KeepsOthers(p) /\ Continued(p, st, B)
    BY <1>1, GotoLocals DEF Stages, shared
  <1>3. SharedType' /\ Calm
    BY <1>1, SharedSame DEF shared, system, SharedType
  <1>4. PInv(p)'
    BY <1>1, <1>2 DEF Continued, PInv, JobAt, Locked, LooksAround, Targeted, Down, shared, system
  <1> QED
    BY <1>2, <1>3, <1>4 DEF GoodStep

\* Steps of a wait or a survey that also set the candidates or the polls.
LEMMA ContinuingIsGood ==
    ASSUME SharedType, LocalType, NEW p \in Procs, PInv(p),
           \/ SurveyReplaces(p) \/ OldStopped(p) \/ PollAgain(p) \/ StopSurveyed(p)
           \/ AllStopped(p)
    PROVE  GoodStep(p)
  <1>1. UNCHANGED shared
    BY DEF SurveyReplaces, OldStopped, PollAgain, StopSurveyed, AllStopped
  <1>2. SharedType' /\ Calm
    BY <1>1, SharedSame DEF shared, system, SharedType
  <1>3. up[p] \in SUBSET Backends /\ polls[p] \in 0..MaxPolls /\ MaxPolls \in Nat \ {0}
    BY GpuAssumption DEF LocalType
  <1>4. CASE SurveyReplaces(p)
    <2>1. PICK C \in SUBSET Backends, st \in {"confirm", "stopping"} :
             Continue(p, st, IF st = "stopping" THEN C ELSE {}) /\ cands' = [cands EXCEPT ![p] = C]
      BY <1>3, <1>4 DEF SurveyReplaces
    <2>2. pc[p] = "survey" /\ job[p] = "run" /\ UNCHANGED polls
      BY <1>4 DEF SurveyReplaces, At
    <2>3. LocalType' /\ KeepsOthers(p) /\ Continued(p, st, IF st = "stopping" THEN C ELSE {})
      BY <1>1, <2>1, <2>2, ContinueLocals DEF Stages, shared, LocalType
    <2>4. PInv(p)'
      BY <1>1, <2>2, <2>3 DEF Continued, PInv, JobAt, Locked, LooksAround, Targeted, Down, shared, system
    <2> QED
      BY <1>2, <2>3, <2>4 DEF GoodStep
  <1>5. CASE OldStopped(p) \/ PollAgain(p)
    <2>1. Continue(p, "settle", Backends) /\ job[p] = "run" /\ lock = p
      BY <1>5 DEF OldStopped, PollAgain, At, PInv, JobAt, Locked
    <2>2. cands' \in [Procs -> SUBSET Backends] /\ polls' \in [Procs -> 0..MaxPolls]
      BY <1>3, <1>5 DEF OldStopped, PollAgain, LocalType
    <2>3. LocalType' /\ KeepsOthers(p) /\ Continued(p, "settle", Backends)
      BY <1>1, <2>1, <2>2, ContinueLocals DEF Stages, shared
    <2>4. PInv(p)'
      BY <1>1, <2>1, <2>3 DEF Continued, PInv, JobAt, Locked, LooksAround, Targeted, Down, shared, system
    <2> QED
      BY <1>2, <2>3, <2>4 DEF GoodStep
  <1>6. CASE StopSurveyed(p)
    <2>1. pc[p] = "survey" /\ job[p] = "stop" /\ UNCHANGED polls
      BY <1>6 DEF StopSurveyed, At
    <2>2. \E st \in {"forget", "ready"} : Continue(p, st, {})
      BY <1>6 DEF StopSurveyed
    <2>3. cands' \in [Procs -> SUBSET Backends]
      BY <1>3, <1>6 DEF StopSurveyed, LocalType
    <2>4. \E st \in {"forget", "ready"} : LocalType' /\ KeepsOthers(p) /\ Continued(p, st, {})
      BY <1>1, <2>1, <2>2, <2>3, ContinueLocals DEF Stages, shared, LocalType
    <2>5. PInv(p)'
      BY <1>1, <2>1, <2>4 DEF Continued, PInv, JobAt, Locked, LooksAround, Targeted, Down, shared, system
    <2> QED
      BY <1>2, <2>4, <2>5 DEF GoodStep
  <1>7. CASE AllStopped(p)
    <2>1. Continue(p, "verify", Backends) /\ job[p] = "stop" /\ lock = p /\ UNCHANGED polls
      BY <1>7 DEF AllStopped, At, PInv, JobAt, Locked
    <2>2. cands' \in [Procs -> SUBSET Backends]
      BY <1>7 DEF AllStopped, LocalType
    <2>3. LocalType' /\ KeepsOthers(p) /\ Continued(p, "verify", Backends)
      BY <1>1, <2>1, <2>2, ContinueLocals DEF Stages, shared, LocalType
    <2>4. PInv(p)'
      BY <1>1, <2>1, <2>3 DEF Continued, PInv, JobAt, Locked, LooksAround, Targeted, Down, shared, system
    <2> QED
      BY <1>2, <2>3, <2>4 DEF GoodStep
  <1> QED
    BY <1>4, <1>5, <1>6, <1>7

\* The old backends are gone: a unit may be started.
LEMMA SettledIsGood ==
    ASSUME SharedType, LocalType, NEW p \in Procs, PInv(p), Settled(p)
    PROVE  GoodStep(p)
  <1>1. /\ Continue(p, "start", {}) /\ UNCHANGED <<shared, cands>>
        /\ polls' = [polls EXCEPT ![p] = 0]
        /\ pc[p] = "settle" /\ todo[p] = {} /\ up[p] = {} /\ ~unsure[p]
    BY DEF Settled, At, Probed, Clear
  <1>2. job[p] = "run" /\ target[p] \in Backends /\ \A b \in Backends : Down(b)
    BY <1>1 DEF PInv, JobAt, Targeted, LooksAround
  <1>3. polls' \in [Procs -> 0..MaxPolls]
    BY <1>1, GpuAssumption DEF LocalType
  <1>4. LocalType' /\ KeepsOthers(p) /\ Continued(p, "start", {})
    BY <1>1, <1>3, ContinueLocals DEF Stages, shared, LocalType
  <1>5. SharedType' /\ Calm
    BY <1>1, SharedSame DEF shared, system, SharedType
  <1>6. PInv(p)'
    BY <1>1, <1>2, <1>4 DEF Continued, PInv, JobAt, Locked, LooksAround, Targeted, Down, shared, system
  <1> QED
    BY <1>4, <1>5, <1>6 DEF GoodStep

\* The user answers the prompt.
LEMMA ConfirmIsGood ==
    ASSUME SharedType, LocalType, NEW p \in Procs, PInv(p), Confirm(p)
    PROVE  GoodStep(p)
  <1>1. UNCHANGED <<system, markers>> /\ pc[p] = "confirm"
    BY DEF Confirm, At
  <1>2. CASE Exit(p)
    BY <1>1, <1>2, ExitLocals, SharedSame DEF GoodStep
  <1>3. CASE Goto(p, "stopping", cands[p]) /\ UNCHANGED lock
    <2>1. LocalType' /\ KeepsOthers(p) /\ Continued(p, "stopping", cands[p])
      BY <1>3, GotoLocals DEF Stages, LocalType
    <2>2. SharedType' /\ Calm
      BY <1>1, <1>3, SharedSame DEF SharedType
    <2>3. PInv(p)'
      BY <1>1, <1>3, <2>1 DEF Continued, PInv, JobAt, Locked, LooksAround, Targeted, Down, shared, system
    <2> QED
      BY <2>1, <2>2, <2>3 DEF GoodStep
  <1> QED
    BY <1>2, <1>3 DEF Confirm

\* A systemctl stop is issued: a unit may leave the GPU, none gets onto it.
LEMMA IssueStopIsGood ==
    ASSUME SharedType, LocalType, NEW p \in Procs, PInv(p), IssueStop(p)
    PROVE  GoodStep(p)
  <1>1. PICK b \in todo[p] :
          /\ todo' = [todo EXCEPT ![p] = @ \ {b}]
          /\ busy' = [busy EXCEPT ![p] = b]
          /\ unit' = [unit EXCEPT ![b] = IF @ = "down" THEN @ ELSE "stopping"]
    BY DEF IssueStop
  <1>2. /\ pc[p] \in {"stopping", "halt", "cleanup"} /\ b \in Backends
        /\ UNCHANGED <<restarts, owner, lock, markers, pc, job, target, up, unsure, cands, polls>>
    BY DEF IssueStop, At, Stopping, LocalType
  <1>3. LocalType'
    BY <1>1, <1>2 DEF LocalType
  <1>4. KeepsOthers(p)
    BY <1>1, <1>2 DEF LocalType, KeepsOthers
  <1>5. SharedType'
    BY <1>1, <1>2 DEF SharedType, UnitStates
  <1>6. Calm
    BY <1>1, <1>2 DEF SharedType, Calm
  <1>7. PInv(p)'
    <2>1. Down(target[p]) => Down(target[p])'
      BY <1>1, <1>2 DEF SharedType, Down, PInv, JobAt, Targeted
    <2> QED
      BY <1>2, <2>1 DEF PInv, JobAt, Locked, LooksAround, Targeted
  <1> QED
    BY <1>3, <1>4, <1>5, <1>6, <1>7 DEF GoodStep

\* The call has returned, or failed.
LEMMA StopReturnsIsGood ==
    ASSUME SharedType, LocalType, NEW p \in Procs, PInv(p), StopReturns(p)
    PROVE  GoodStep(p)
  <1>1. /\ pc[p] \in {"stopping", "halt", "cleanup"} /\ busy' = [busy EXCEPT ![p] = NoBackend]
        /\ UNCHANGED <<shared, pc, job, target, todo, up, unsure, cands, polls>>
    BY DEF StopReturns, At, Stopping
  <1>2. LocalType'
    BY <1>1 DEF LocalType
  <1>3. KeepsOthers(p)
    BY <1>1 DEF LocalType, KeepsOthers, shared
  <1>4. SharedType' /\ Calm
    BY <1>1, SharedSame DEF shared, system, SharedType
  <1>5. PInv(p)'
    BY <1>1 DEF PInv, JobAt, Locked, LooksAround, Targeted, Down, shared
  <1> QED
    BY <1>2, <1>3, <1>4, <1>5 DEF GoodStep

\* The call fails: the launch ends, the others go on.
LEMMA StopFailsIsGood ==
    ASSUME SharedType, LocalType, NEW p \in Procs, PInv(p), StopFails(p)
    PROVE  GoodStep(p)
  <1>1. UNCHANGED <<system, markers>> /\ pc[p] \in {"stopping", "halt", "cleanup"}
    BY DEF StopFails, At, Stopping
  <1>2. CASE pc[p] = "stopping" /\ job[p] = "run"
    BY <1>1, <1>2, EndLaunchIsGood DEF StopFails
  <1>3. CASE ~(pc[p] = "stopping" /\ job[p] = "run")
    <2>1. /\ UNCHANGED <<lock, pc, job, target, up, unsure, cands, polls>>
          /\ \/ busy' = [busy EXCEPT ![p] = NoBackend] /\ UNCHANGED todo
             \/ (\E b \in todo[p] : todo' = [todo EXCEPT ![p] = @ \ {b}]) /\ UNCHANGED busy
      BY <1>3 DEF StopFails
    <2>2. LocalType'
      BY <2>1 DEF LocalType
    <2>3. KeepsOthers(p)
      BY <2>1 DEF LocalType, KeepsOthers
    <2>4. SharedType' /\ Calm
      BY <1>1, <2>1, SharedSame DEF SharedType
    <2>5. PInv(p)'
      BY <1>1, <2>1 DEF PInv, JobAt, Locked, LooksAround, Targeted, Down, system
    <2> QED
      BY <2>2, <2>3, <2>4, <2>5 DEF GoodStep
  <1> QED
    BY <1>2, <1>3

\* The steps that write or remove the user's own marker and go on.
LEMMA MarkSessionIsGood ==
    ASSUME SharedType, LocalType, NEW p \in Procs, PInv(p), MarkSession(p)
    PROVE  GoodStep(p)
  <1> DEFINE st == IF job[p] = "precache" THEN "warmup" ELSE "health"
  <1>1. /\ markers' = WriteMarker(markers, Me(p), FALSE) /\ restarts' = restarts \ {target[p]}
        /\ Goto(p, st, {}) /\ UNCHANGED <<unit, owner, lock>> /\ pc[p] = "mark"
    BY DEF MarkSession, At
  <1>2. markers' \in MarkerStores /\ Ordered(markers')
    BY <1>1, WriteMarkerType, WriteKeepsOrder, GpuAssumption DEF SharedType, Me
  <1>3. SharedType' /\ Calm
    BY <1>1, <1>2, MarkersChange DEF SharedType
  <1>4. LocalType' /\ KeepsOthers(p) /\ Continued(p, st, {})
    BY <1>1, GotoLocals DEF Stages
  <1>5. PInv(p)'
    BY <1>1, <1>4 DEF Continued, PInv, JobAt, Locked, LooksAround, Targeted, Down, shared, system
  <1> QED
    BY <1>3, <1>4, <1>5 DEF GoodStep

\* stop claims the session ...
LEMMA ClaimOrphanIsGood ==
    ASSUME SharedType, LocalType, NEW p \in Procs, PInv(p), ClaimOrphan(p)
    PROVE  GoodStep(p)
  <1>1. /\ markers' = WriteMarker(markers, Me(p), TRUE)
        /\ Goto(p, "survey", Backends) /\ UNCHANGED <<system, lock>> /\ pc[p] = "claim"
    BY DEF ClaimOrphan, At
  <1>2. markers' \in MarkerStores /\ Ordered(markers')
    BY <1>1, WriteMarkerType, WriteKeepsOrder, GpuAssumption DEF SharedType, Me
  <1>3. SharedType' /\ Calm
    BY <1>1, <1>2, MarkersChange DEF SharedType, system
  <1>4. LocalType' /\ KeepsOthers(p) /\ Continued(p, "survey", Backends)
    BY <1>1, GotoLocals DEF Stages
  <1>5. PInv(p)'
    BY <1>1, <1>4 DEF Continued, PInv, JobAt, Locked, LooksAround, Targeted, Down, shared, system
  <1> QED
    BY <1>3, <1>4, <1>5 DEF GoodStep

\* ... a failed launch forgets it ...
LEMMA GiveUpIsGood ==
    ASSUME SharedType, LocalType, NEW p \in Procs, PInv(p), GiveUp(p)
    PROVE  GoodStep(p)
  <1>1. /\ markers' = RemoveMarkers(markers, {Me(p)})
        /\ Goto(p, "halt", {target[p]}) /\ UNCHANGED <<system, lock>> /\ pc[p] = "giveup"
    BY DEF GiveUp, At
  <1>2. {Me(p)} \in SUBSET Users /\ {target[p]} \in SUBSET Backends
    BY <1>1, GpuAssumption DEF Me, PInv, JobAt, Targeted
  <1>3. markers' \in MarkerStores /\ Ordered(markers')
    BY <1>1, <1>2, RemoveMarkersType, RemoveKeepsOrder DEF SharedType
  <1>4. SharedType' /\ Calm
    BY <1>1, <1>3, MarkersChange DEF SharedType, system
  <1>5. LocalType' /\ KeepsOthers(p) /\ Continued(p, "halt", {target[p]})
    BY <1>1, <1>2, GotoLocals DEF Stages
  <1>6. PInv(p)'
    BY <1>1, <1>5 DEF Continued, PInv, JobAt, Locked, LooksAround, Targeted, Down, shared, system
  <1> QED
    BY <1>4, <1>5, <1>6 DEF GoodStep

\* ... and so does the end of a benchmark or a pre-cache.
LEMMA CleanUpIsGood ==
    ASSUME SharedType, LocalType, NEW p \in Procs, PInv(p), CleanUp(p)
    PROVE  GoodStep(p)
  <1>1. markers' = RemoveMarkers(markers, {Me(p)}) /\ UNCHANGED system /\ pc[p] = "cleanup"
    BY DEF CleanUp, At
  <1>2. {Me(p)} \in SUBSET Users
    BY GpuAssumption DEF Me
  <1>3. markers' \in MarkerStores /\ Ordered(markers')
    BY <1>1, <1>2, RemoveMarkersType, RemoveKeepsOrder DEF SharedType
  <1>4. UNCHANGED <<unit, owner>> /\ restarts' \in SUBSET Backends
    BY <1>1 DEF system, SharedType
  <1>5. CASE Exit(p)
    BY <1>3, <1>4, <1>5, ExitLocals, MarkersChange DEF GoodStep
  <1>6. CASE job[p] = "bench" /\ Goto(p, "ready", {}) /\ UNCHANGED lock
    <2>1. LocalType' /\ KeepsOthers(p) /\ Continued(p, "ready", {})
      BY <1>6, GotoLocals DEF Stages
    <2>2. SharedType' /\ Calm
      BY <1>3, <1>4, <1>6, MarkersChange DEF SharedType
    <2>3. PInv(p)'
      BY <1>1, <1>6, <2>1 DEF Continued, PInv, JobAt, Locked, LooksAround, Targeted, Down, shared, system
    <2> QED
      BY <2>1, <2>2, <2>3 DEF GoodStep
  <1> QED
    BY <1>5, <1>6 DEF CleanUp

\* The pre-cache has seen its backend down under the lock.
LEMMA InspectedIsGood ==
    ASSUME SharedType, LocalType, NEW p \in Procs, PInv(p), Inspected(p)
    PROVE  GoodStep(p)
  <1> DEFINE st == IF job[p] = "bench" THEN "ready" ELSE "start"
  <1>1. UNCHANGED <<system, markers>> /\ pc[p] = "inspect" /\ todo[p] = {}
    BY DEF Inspected, At, Probed
  <1>2. CASE Clear(p)
    <2>1. Goto(p, st, {}) /\ UNCHANGED lock
      BY <1>2 DEF Inspected
    <2>2. LocalType' /\ KeepsOthers(p) /\ Continued(p, st, {})
      BY <2>1, GotoLocals DEF Stages
    <2>3. SharedType' /\ Calm
      BY <1>1, <2>1, SharedSame DEF SharedType
    <2>4. job[p] \in {"bench", "precache"} /\ (job[p] = "precache" => Down(target[p]) /\ lock = p)
      BY <1>1, <1>2 DEF Clear, PInv, JobAt, Locked
    <2>5. PInv(p)'
      BY <1>1, <2>1, <2>2, <2>4 DEF Continued, PInv, JobAt, Locked, LooksAround, Targeted, Down, shared, system
    <2> QED
      BY <2>2, <2>3, <2>5 DEF GoodStep
  <1>3. CASE ~Clear(p)
    BY <1>1, <1>3, ExitLocals, SharedSame DEF GoodStep, Inspected
  <1> QED
    BY <1>2, <1>3

\* The one step that starts an engine is taken with the lock, and the unit was down.
LEMMA IssueStartKeepsInv ==
    ASSUME GpuInv, NEW p \in Procs, IssueStart(p)
    PROVE  /\ GpuInv' /\ Down(target[p]) /\ target[p] \in Backends
           /\ \A b \in Backends \ {target[p]} : unit'[b] = unit[b]
           /\ job[p] # "precache" => \A b \in Backends : Down(b)
  <1>1. SharedType /\ LocalType /\ PInv(p)
    BY InvParts
  <1>2. /\ pc[p] = "start" /\ busy[p] = NoBackend /\ busy' = [busy EXCEPT ![p] = target[p]]
        /\ UNCHANGED <<restarts, lock, markers, pc, job, target, todo, up, unsure, cands, polls>>
    BY DEF IssueStart, At
  <1>3. /\ Down(target[p]) /\ target[p] \in Backends /\ lock = p
        /\ job[p] # "precache" => \A b \in Backends : Down(b)
    BY <1>1, <1>2 DEF PInv, JobAt, Targeted, Locked
  <1>4. /\ unit' = [unit EXCEPT ![target[p]] = "starting"]
        /\ owner' = [owner EXCEPT ![target[p]] = Me(p)]
    BY <1>3 DEF IssueStart, Down
  <1>5. LocalType'
    BY <1>1, <1>2, <1>3 DEF LocalType
  <1>6. SharedType'
    BY <1>1, <1>2, <1>3, <1>4, GpuAssumption DEF SharedType, UnitStates, Me
  <1>7. KeepsOthers(p)
    BY <1>1, <1>2 DEF LocalType, KeepsOthers
  <1>8. PInv(p)'
    <2>1. owner'[target[p]] = Me(p) /\ busy'[p] # NoBackend
      BY <1>1, <1>2, <1>3, <1>4, GpuAssumption DEF LocalType, SharedType
    <2> QED
      BY <1>1, <1>2, <2>1 DEF PInv, JobAt, Locked, LooksAround, Targeted, Me
  <1>9. \A q \in Procs \ {p} : PInv(q)'
    BY <1>1, <1>3, <1>7, OthersWithoutLock, InvParts
  <1>10. \A b \in Backends \ {target[p]} : unit'[b] = unit[b]
    BY <1>1, <1>4 DEF SharedType
  <1>11. GpuInv'
    BY <1>5, <1>6, <1>8, <1>9 DEF GpuInv, TypeOK, SharedType, LocalType
  <1> QED
    BY <1>3, <1>10, <1>11

\* systemd's own steps: a unit that is down stays down.
LEMMA UnitStepsAreCalm ==
    ASSUME SharedType, LocalType, ExternalUnits = {}, NEW b \in Backends, UnitSteps(b)
    PROVE  SharedType' /\ Calm /\ UNCHANGED <<lock, locals>>
  <1>1. UNCHANGED <<lock, markers, locals>>
    BY DEF UnitSteps, UnitComesUp, UnitRestarts, UnitGoesDown, StartedElsewhere
  <1>2. SharedType'
    BY <1>1 DEF SharedType, UnitStates, UnitSteps, UnitComesUp, UnitRestarts, UnitGoesDown,
                StartedElsewhere
  <1>3. Calm
    BY DEF SharedType, Calm, UnitSteps, UnitComesUp, UnitRestarts, UnitGoesDown, StartedElsewhere
  <1> QED
    BY <1>1, <1>2, <1>3

-----------------------------------------------------------------------------
(* The invariant and what follows from it.                                 *)

\* Every step of a terminal but the start of a unit is a good one.
LEMMA TerminalStepIsGood ==
    ASSUME SharedType, LocalType, NEW p \in Procs, PInv(p),
           Invoke(p) \/ Advance(p) \/ Prompted(p) \/ Kill(p), ~IssueStart(p)
    PROVE  GoodStep(p)
  <1>1. CASE Invoke(p)
    BY <1>1, InvokeIsGood
  <1>2. CASE SessionSteps(p)
    BY <1>2, ProbeIsGood, CheckPassesIsGood, CheckFindsStaleIsGood, SweepMarkersIsGood,
       LeavingIsGood DEF SessionSteps
  <1>3. CASE LaunchSteps(p)
    BY <1>3, LeavingIsGood, SurveyClearIsGood, ContinuingIsGood, SettledIsGood,
       StartReturnsIsGood, MarkSessionIsGood, HealthFailsIsGood, GiveUpIsGood DEF LaunchSteps
  <1>4. CASE StopSteps(p)
    BY <1>4, ReadOrphanIsGood, ClaimOrphanIsGood, ContinuingIsGood, ForgettingIsGood,
       VerifiedIsGood, LeavingIsGood DEF StopSteps
  <1>5. CASE TuneSteps(p)
    BY <1>5, InspectedIsGood, WarmupEndsIsGood, CleanUpIsGood DEF TuneSteps
  <1>6. CASE SystemctlSteps(p)
    BY <1>6, IssueStopIsGood, StopReturnsIsGood, StopFailsIsGood DEF SystemctlSteps
  <1>7. CASE Prompted(p)
    BY <1>7, TakeLockIsGood, LeavingIsGood, ConfirmIsGood DEF Prompted
  <1>8. CASE Kill(p)
    BY <1>8, LeavingIsGood
  <1> QED
    BY <1>1, <1>2, <1>3, <1>4, <1>5, <1>6, <1>7, <1>8 DEF Advance

\* GpuInv holds initially.
LEMMA InitInv == Init => GpuInv
  <1> SUFFICES ASSUME Init PROVE GpuInv
    OBVIOUS
  <1>1. TypeOK /\ Ordered(markers)
    BY NoMarkersType, GpuAssumption DEF Init, TypeOK, UnitStates, Stages
  <1>2. \A p \in Procs : PInv(p)
    BY DEF Init, PInv, JobAt, Locked, LooksAround, Targeted
  <1> QED
    BY <1>1, <1>2 DEF GpuInv

\* Every step keeps it, provided nobody starts units behind vserve's back.
LEMMA NextInv ==
    ASSUME ExternalUnits = {}, GpuInv, [Next]_vars
    PROVE  GpuInv'
  <1>0. SharedType /\ LocalType /\ \A p \in Procs : PInv(p)
    BY InvParts
  <1>1. CASE UNCHANGED vars
    <2>1. UNCHANGED <<unit, restarts, owner, lock, markers>> /\ UNCHANGED locals
      BY <1>1 DEF vars, shared
    <2>2. TypeOK' /\ Ordered(markers)'
      BY <2>1 DEF GpuInv, TypeOK, locals
    <2>3. \A p \in Procs : PInv(p)'
      BY <1>0, <2>1 DEF PInv, JobAt, Locked, LooksAround, Targeted, Down, locals
    <2> QED
      BY <2>2, <2>3 DEF GpuInv
  <1>2. ASSUME NEW p \in Procs, IssueStart(p) PROVE GpuInv'
    BY <1>2, IssueStartKeepsInv
  <1>3. ASSUME NEW p \in Procs, Invoke(p) \/ Advance(p) \/ Prompted(p) \/ Kill(p),
               ~IssueStart(p)
        PROVE  GpuInv'
    <2>1. GoodStep(p)
      BY <1>0, <1>3, TerminalStepIsGood
    <2>2. \A q \in Procs \ {p} : PInv(q)'
      BY <1>0, <2>1, OthersAfterCalmStep DEF GoodStep
    <2>3. SharedType' /\ LocalType' /\ \A q \in Procs : PInv(q)'
      BY <2>1, <2>2 DEF GoodStep
    <2> QED
      BY <2>3 DEF GpuInv, TypeOK, SharedType, LocalType
  <1>4. ASSUME NEW b \in Backends, UnitSteps(b) PROVE GpuInv'
    <2>1. SharedType' /\ Calm /\ UNCHANGED <<lock, locals>>
      BY <1>0, <1>4, UnitStepsAreCalm
    <2>2. LocalType'
      BY <1>0, <2>1 DEF LocalType, locals
    <2>3. KeepsOthers(NoProc)
      BY <2>1 DEF KeepsOthers, locals
    <2>4. \A q \in Procs : PInv(q)'
      BY <1>0, <2>1, <2>3, OthersAfterCalmStep, GpuAssumption
    <2> QED
      BY <2>1, <2>2, <2>4 DEF GpuInv, TypeOK, SharedType, LocalType
  <1> QED
    BY <1>1, <1>2, <1>3, <1>4 DEF Next

\* GpuInv is an invariant of the specification.
THEOREM InvHolds ==
    ASSUME ExternalUnits = {}
    PROVE  Spec => []GpuInv
  <1>1. GpuInv /\ [Next]_vars => GpuInv'
    BY NextInv
  <1> QED
    BY <1>1, InitInv, PTL DEF Spec

\* Every variable has its type, for every number of terminals, users and backends.
THEOREM TypeCorrect ==
    ASSUME ExternalUnits = {}
    PROVE  Spec => []TypeOK
  <1>1. GpuInv => TypeOK
    BY DEF GpuInv
  <1> QED
    BY <1>1, InvHolds, PTL

\* When `vserve stop` reports success no engine is left on the GPU.
THEOREM StopIsTruthful ==
    ASSUME ExternalUnits = {}
    PROVE  Spec => []StopReportsTruth
  <1>1. GpuInv => StopReportsTruth
    BY DEF GpuInv, PInv, StopReportsTruth, OnGpu, Down
  <1> QED
    BY <1>1, InvHolds, PTL

\* The engine a launch waits for, and the one it halts, is the one it started.
THEOREM LaunchIsOwn ==
    ASSUME ExternalUnits = {}
    PROVE  Spec => []LaunchOwnsTarget
  <1>1. GpuInv => LaunchOwnsTarget
    BY DEF GpuInv, PInv, LaunchOwnsTarget, OnGpu, Down
  <1> QED
    BY <1>1, InvHolds, PTL

\* The markers that a check removes under the lock are stale.
THEOREM LockedSweepSound ==
    ASSUME ExternalUnits = {}
    PROVE  Spec => []LockedSweepIsStale
  <1>1. GpuInv => LockedSweepIsStale
    BY DEF GpuInv, PInv, LockedSweepIsStale, OnGpu, Down
  <1> QED
    BY <1>1, InvHolds, PTL

\* One step keeps the GPU to one engine when no command pre-caches.
LEMMA NextOneBackend ==
    ASSUME ExternalUnits = {}, "precache" \notin Commands, GpuInv, OneBackend, [Next]_vars
    PROVE  OneBackend'
  <1>0. SharedType /\ LocalType /\ \A p \in Procs : PInv(p)
    BY InvParts
  <1>1. CASE Calm
    BY <1>1 DEF OneBackend, OnGpu, Calm
  <1>2. CASE UNCHANGED vars
    BY <1>2 DEF OneBackend, OnGpu, vars, shared
  <1>3. ASSUME NEW p \in Procs, IssueStart(p) PROVE OneBackend'
    <2>1. job[p] # "precache"
      BY <1>0 DEF LocalType
    <2>2. /\ \A b \in Backends : Down(b)
          /\ \A b \in Backends \ {target[p]} : unit'[b] = unit[b]
      BY <1>3, <2>1, IssueStartKeepsInv
    <2> QED
      BY <2>2 DEF OneBackend, OnGpu, Down
  <1>4. ASSUME NEW p \in Procs, Invoke(p) \/ Advance(p) \/ Prompted(p) \/ Kill(p),
               ~IssueStart(p)
        PROVE  Calm
    BY <1>0, <1>4, TerminalStepIsGood DEF GoodStep
  <1>5. ASSUME NEW b \in Backends, UnitSteps(b) PROVE Calm
    BY <1>0, <1>5, UnitStepsAreCalm
  <1> QED
    BY <1>1, <1>2, <1>3, <1>4, <1>5 DEF Next

\* However many users launch, stop and benchmark, and whichever calls fail, at most
\* one engine is on the GPU.
THEOREM OneBackendHolds ==
    ASSUME ExternalUnits = {}, "precache" \notin Commands
    PROVE  Spec => []OneBackend
  <1>1. Init => OneBackend
    BY DEF Init, OneBackend, OnGpu
  <1>2. GpuInv /\ OneBackend /\ [Next]_vars => OneBackend'
    BY NextOneBackend
  <1> QED
    BY <1>1, <1>2, InvHolds, PTL DEF Spec

\* A launch that writes its marker holds the session from then on: no older marker
\* of another user can come before it.
THEOREM LaunchTakesSession ==
    ASSUME ExternalUnits = {}
    PROVE  Spec => [][\A p \in Procs : MarkSession(p) => Holder(markers)' = Me(p)]_vars
  <1>1. GpuInv /\ [Next]_vars =>
           [\A p \in Procs : MarkSession(p) => Holder(markers)' = Me(p)]_vars
    <2> SUFFICES ASSUME GpuInv, NEW p \in Procs, MarkSession(p)
                 PROVE  Holder(markers)' = Me(p)
      OBVIOUS
    <2>1. markers' = WriteMarker(markers, Me(p), FALSE)
      BY DEF MarkSession
    <2>2. markers \in MarkerStores /\ Ordered(markers) /\ Me(p) \in Users
      BY GpuAssumption DEF GpuInv, TypeOK, Me
    <2>3. Holder(WriteMarker(markers, Me(p), FALSE)) = Me(p)
      BY <2>2, LastWriterHolds
    <2>4. Holder(markers)' = Holder(WriteMarker(markers, Me(p), FALSE))
      BY <2>1 DEF Holder, Newest
    <2> QED
      BY <2>3, <2>4
  <1> QED
    BY <1>1, InvHolds, PTL DEF Spec

-----------------------------------------------------------------------------
(* What `vserve run` stops.                                                *)

\* Whatever runs is nobody's or p's, or every other marker is a claim or older
\* than that of p's user: what a passed check under the lock leaves behind.
MaySpare(p) ==
    \/ \A b \in Backends : owner[b] \in {NoUser, Me(p)}
    \/ \A v \in markers.files \ {Me(p)} :
          v \in markers.claims \/ (Me(p) \in markers.files /\ v \in markers.older[Me(p)])

\* The stages between the check under the lock and the last stop of a launch.
Replacing(p) == job[p] = "run" /\ pc[p] \in {"survey", "confirm", "stopping"}

OwnersGone == \A b \in Backends : Down(b) => owner[b] = NoUser
HaltsItsOwn(p) == pc[p] = "halt" => todo[p] \subseteq {target[p]}

SessionInv ==
    /\ GpuInv /\ OwnersGone
    /\ \A p \in Procs : HaltsItsOwn(p) /\ (Replacing(p) => MaySpare(p))

OneTerminalEach == \A p, q \in Procs : UserOf[p] = UserOf[q] => p = q

\* What the steps of a terminal without the lock do to the markers.
MarkerStep(q) ==
    \/ markers' = markers
    \/ \E S \in {{Me(q)}, Users} : markers' = RemoveMarkers(markers, S)
    \/ markers' = WriteMarker(markers, Me(q), TRUE)

LEMMA MarkerSteps ==
    ASSUME NEW q, Invoke(q) \/ Advance(q) \/ Prompted(q) \/ Kill(q)
    PROVE  MarkerStep(q) \/ MarkSession(q)
  <1>1. CASE Invoke(q) \/ Prompted(q) \/ Kill(q)
    BY <1>1 DEF Invoke, Prompted, TakeLock, LockHeld, Abandon, Confirm, Kill, shared, MarkerStep
  <1>2. CASE SessionSteps(q)
    <2>1. CASE SweepMarkers(q)
      BY <2>1 DEF SweepMarkers, MarkerStep
    <2>2. CASE ~SweepMarkers(q)
      BY <1>2, <2>2 DEF SessionSteps, Probe, CheckPasses, CheckFindsStale, CheckRefuses, shared, MarkerStep
    <2> QED
      BY <2>1, <2>2
  <1>3. CASE LaunchSteps(q)
    BY <1>3 DEF LaunchSteps, ConfigUnreadable, SurveyClear, SurveyReplaces, SurveyRefuses, OldStopped,
                Settled, PollAgain, SettleTimesOut, IssueStart, StartReturns, StartFails, HealthKeeps,
                HealthFails, HealthUnconfirmed, GiveUp, Halted, shared, MarkerStep
  <1>4. CASE StopSteps(q)
    BY <1>4 DEF StopSteps, ReadOrphan, ClaimOrphan, StopSurveyed, ForgetSession, AllStopped, Verified,
                VerifyFails, ReportStopped, shared, MarkerStep
  <1>5. CASE TuneSteps(q) \/ SystemctlSteps(q)
    BY <1>5 DEF TuneSteps, Inspected, WarmupEnds, CleanUp, SystemctlSteps, IssueStop, StopReturns,
                StopFails, shared, MarkerStep
  <1> QED
    BY <1>1, <1>2, <1>3, <1>4, <1>5 DEF Advance

\* Another user's step takes no engine's owner away but with the engine, and
\* leaves no marker newer than p's but a claim.
LEMMA OthersSpare ==
    ASSUME SharedType, OneTerminalEach, NEW p \in Procs, NEW q \in Procs \ {p}, MarkerStep(q),
           \A b \in Backends : owner'[b] \in {owner[b], NoUser},
           MaySpare(p)
    PROVE  MaySpare(p)'
  <1>1. Me(p) \in Users /\ Me(q) \in Users /\ Me(p) # Me(q)
    BY GpuAssumption DEF Me, OneTerminalEach
  <1>2. CASE \A b \in Backends : owner[b] \in {NoUser, Me(p)}
    BY <1>2 DEF MaySpare, Me
  <1>3. CASE \A v \in markers.files \ {Me(p)} :
                v \in markers.claims \/ (Me(p) \in markers.files /\ v \in markers.older[Me(p)])
    <2>1. CASE markers' = markers
      BY <1>3, <2>1 DEF MaySpare, Me
    <2>2. CASE markers' = RemoveMarkers(markers, Users)
      <3>1. markers'.files = {}
        BY <2>2 DEF RemoveMarkers, SharedType, MarkerStores
      <3> QED
        BY <3>1 DEF MaySpare, Me
    <2>3. CASE markers' = RemoveMarkers(markers, {Me(q)})
      <3>1. /\ markers'.files = markers.files \ {Me(q)} /\ markers'.claims = markers.claims \ {Me(q)}
            /\ markers'.older[Me(p)] = markers.older[Me(p)] \ {Me(q)}
        BY <1>1, <2>3 DEF RemoveMarkers
      <3> QED
        BY <1>1, <1>3, <3>1 DEF MaySpare, Me
    <2>4. CASE markers' = WriteMarker(markers, Me(q), TRUE)
      <3>1. /\ markers'.files = markers.files \cup {Me(q)} /\ markers'.claims = markers.claims \cup {Me(q)}
            /\ markers'.older[Me(p)] = markers.older[Me(p)] \ {Me(q)}
        BY <1>1, <2>4 DEF WriteMarker
      <3> QED
        BY <1>1, <1>3, <3>1 DEF MaySpare, Me
    <2> QED
      BY <2>1, <2>2, <2>3, <2>4 DEF MarkerStep
  <1> QED
    BY <1>2, <1>3 DEF MaySpare

\* The check that passes under the lock found no foreign session.
LEMMA PassedCheckSpares ==
    ASSUME SharedType, NEW p \in Procs, job[p] = "run", SessionFree(p)
    PROVE  MaySpare(p)
  <1>1. Holder(markers) \in {NoUser, Me(p)} /\ Me(p) \in Users
    BY GpuAssumption DEF SessionFree, Strict, Me
  <1>2. CASE Holder(markers) = NoUser
    BY <1>2, NobodyHolds DEF SharedType, MaySpare
  <1>3. CASE Holder(markers) = Me(p)
    BY <1>1, <1>3, HolderIsNewest DEF SharedType, MaySpare, Newest
  <1> QED
    BY <1>1, <1>2, <1>3

\* Where p may spare what it finds, no other user's session is disrupted.
LEMMA SparedIsNotForeign ==
    ASSUME SharedType, NEW p \in Procs, MaySpare(p), NEW b \in Backends, NEW u \in Users \ {Me(p)}
    PROVE  ~ActiveSession(b, u)
  <1> SUFFICES ASSUME ActiveSession(b, u) PROVE FALSE
    OBVIOUS
  <1>1. owner[b] = u /\ Newest(markers, u) /\ u \notin markers.claims /\ u # NoUser
    BY HolderIsNewest, UsersAssumption DEF ActiveSession, SharedType
  <1>2. u \in markers.files /\ markers.older[u] = markers.files \ {u}
    BY <1>1 DEF Newest
  <1>3. Me(p) \in markers.files /\ u \in markers.older[Me(p)]
    BY <1>1, <1>2 DEF MaySpare
  <1>4. Me(p) \in markers.older[u]
    BY <1>2, <1>3
  <1> QED
    BY <1>2, <1>3, <1>4 DEF SharedType, Ordered

-----------------------------------------------------------------------------
(* The invariant's new parts, step by step.                                *)

\* An owner is set with the engine and gone with it.
LEMMA OwnersKept ==
    ASSUME SharedType, LocalType, OwnersGone, NEW p \in Procs, PInv(p),
           Invoke(p) \/ Advance(p) \/ Prompted(p) \/ Kill(p), ~IssueStart(p)
    PROVE  OwnersGone' /\ owner' = owner
  <1>1. CASE IssueStop(p)
    <2>1. PICK b \in Backends : unit' = [unit EXCEPT ![b] = IF @ = "down" THEN @ ELSE "stopping"]
      BY <1>1 DEF IssueStop, LocalType
    <2>2. owner' = owner
      BY <1>1 DEF IssueStop
    <2> QED
      BY <2>1, <2>2 DEF OwnersGone, Down, SharedType
  <1>2. CASE ~IssueStop(p)
    <2>1. UNCHANGED <<unit, owner>>
      <3>1. CASE Invoke(p) \/ Prompted(p) \/ Kill(p)
        BY <3>1 DEF Invoke, Prompted, TakeLock, LockHeld, Abandon, Confirm, Kill, shared, system
      <3>2. CASE SessionSteps(p)
        BY <3>2 DEF SessionSteps, Probe, CheckPasses, CheckFindsStale, SweepMarkers, CheckRefuses,
                    shared, system
      <3>3. CASE LaunchSteps(p)
        BY <3>3 DEF LaunchSteps, ConfigUnreadable, SurveyClear, SurveyReplaces, SurveyRefuses,
                    OldStopped, Settled, PollAgain, SettleTimesOut, StartReturns, StartFails,
                    MarkSession, HealthKeeps, HealthFails, HealthUnconfirmed, GiveUp, Halted,
                    shared, system
      <3>4. CASE StopSteps(p)
        BY <3>4 DEF StopSteps, ReadOrphan, ClaimOrphan, StopSurveyed, ForgetSession, AllStopped,
                    Verified, VerifyFails, ReportStopped, shared, system
      <3>5. CASE TuneSteps(p) \/ SystemctlSteps(p)
        BY <1>2, <3>5 DEF TuneSteps, Inspected, WarmupEnds, CleanUp, SystemctlSteps, StopReturns,
                    StopFails, shared, system
      <3> QED
        BY <3>1, <3>2, <3>3, <3>4, <3>5 DEF Advance
    <2> QED
      BY <2>1 DEF OwnersGone, Down
  <1> QED
    BY <1>1, <1>2

\* p's step leads out of, or not into, the stages between check and stop.
Elsewhere(p) == pc'[p] # "halt" /\ ~(job'[p] = "run" /\ pc'[p] \in {"survey", "confirm", "stopping"})

LEMMA ExitLeads == ASSUME LocalType, NEW p \in Procs, Exit(p) PROVE Elsewhere(p)
  BY DEF LocalType, Exit, Elsewhere

LEMMA ContinueLeads ==
    ASSUME LocalType, NEW p \in Procs, NEW s, NEW B, Continue(p, s, B)
    PROVE  pc'[p] = s /\ job'[p] = job[p] /\ todo'[p] = B /\ target'[p] = target[p]
  BY DEF LocalType, Continue

LEMMA EndLaunchLeads == ASSUME LocalType, NEW p \in Procs, EndLaunch(p) PROVE Elsewhere(p)
  BY ExitLeads, ContinueLeads DEF EndLaunch, Goto, Elsewhere

\* Most steps lead elsewhere ...
LEMMA MostLeadElsewhere ==
    ASSUME LocalType, NEW p \in Procs, PInv(p),
           \/ Invoke(p) \/ TakeLock(p) \/ LockHeld(p) \/ Abandon(p) \/ Kill(p)
           \/ CheckFindsStale(p) \/ CheckRefuses(p) \/ ConfigUnreadable(p) \/ SurveyClear(p)
           \/ SurveyRefuses(p) \/ OldStopped(p) \/ Settled(p) \/ PollAgain(p) \/ SettleTimesOut(p)
           \/ StartReturns(p) \/ StartFails(p) \/ MarkSession(p) \/ HealthKeeps(p)
           \/ HealthFails(p) \/ HealthUnconfirmed(p) \/ Halted(p) \/ StopSteps(p) \/ TuneSteps(p)
    PROVE  Elsewhere(p)
  <1>1. CASE Invoke(p)
    <2>1. PICK c \in Commands : pc' = [pc EXCEPT ![p] = FirstStage(c)]
      BY <1>1 DEF Invoke
    <2>2. FirstStage(c) \in {"precheck", "inspect", "ready"}
      BY GpuAssumption DEF FirstStage
    <2> QED
      BY <2>1, <2>2 DEF LocalType, Elsewhere
  <1>2. CASE LockHeld(p) \/ Abandon(p) \/ Kill(p) \/ CheckRefuses(p) \/ ConfigUnreadable(p)
             \/ SurveyRefuses(p) \/ SettleTimesOut(p) \/ StartFails(p) \/ HealthKeeps(p)
             \/ HealthUnconfirmed(p) \/ Halted(p)
    BY <1>2, ExitLeads, EndLaunchLeads
       DEF LockHeld, Abandon, Kill, CheckRefuses, ConfigUnreadable, SurveyRefuses, SettleTimesOut,
           StartFails, HealthKeeps, HealthUnconfirmed, Halted
  <1>3. CASE TakeLock(p) \/ CheckFindsStale(p) \/ SurveyClear(p) \/ OldStopped(p) \/ Settled(p)
             \/ PollAgain(p) \/ StartReturns(p) \/ MarkSession(p) \/ HealthFails(p)
    <2>1. \E s \in {"check", "presweep", "sweep", "start", "settle", "mark", "warmup", "health",
                    "giveup"}, B \in SUBSET Backends : Continue(p, s, B)
      <3>1. {} \in SUBSET Backends /\ Backends \in SUBSET Backends
        OBVIOUS
      <3>2. CASE TakeLock(p) \/ CheckFindsStale(p) \/ SurveyClear(p) \/ OldStopped(p)
        BY <3>1, <3>2 DEF TakeLock, CheckFindsStale, SurveyClear, OldStopped, Goto
      <3>3. CASE Settled(p) \/ PollAgain(p) \/ StartReturns(p) \/ MarkSession(p) \/ HealthFails(p)
        BY <3>1, <3>3 DEF Settled, PollAgain, StartReturns, MarkSession, HealthFails, Goto
      <3> QED
        BY <1>3, <3>2, <3>3
    <2> QED
      BY <2>1, ContinueLeads DEF Elsewhere
  <1>4. CASE StopSteps(p)
    <2>1. CASE ReadOrphan(p) \/ ClaimOrphan(p)
      <3>1. job[p] = "stop"
        BY <2>1 DEF ReadOrphan, ClaimOrphan, At, PInv, JobAt
      <3> QED
        BY <2>1, <3>1, ContinueLeads DEF ReadOrphan, ClaimOrphan, Goto, Elsewhere
    <2>2. CASE StopSurveyed(p) \/ AllStopped(p) \/ Verified(p)
      BY <2>2, ContinueLeads DEF StopSurveyed, AllStopped, Verified, Goto, Elsewhere
    <2>3. CASE ForgetSession(p) \/ VerifyFails(p) \/ ReportStopped(p)
      BY <2>3, ExitLeads DEF ForgetSession, VerifyFails, ReportStopped
    <2> QED
      BY <1>4, <2>1, <2>2, <2>3 DEF StopSteps
  <1>5. CASE TuneSteps(p)
    <2>1. CASE Inspected(p)
      BY <2>1, ContinueLeads, ExitLeads DEF Inspected, Goto, Elsewhere
    <2>2. CASE WarmupEnds(p) \/ CleanUp(p)
      BY <2>2, ContinueLeads, ExitLeads DEF WarmupEnds, CleanUp, Goto, Elsewhere
    <2> QED
      BY <1>5, <2>1, <2>2 DEF TuneSteps
  <1> QED
    BY <1>1, <1>2, <1>3, <1>4, <1>5

\* ... and the others stay between check and stop, or come from a passed check.
LEMMA OwnStepSpares ==
    ASSUME SharedType, LocalType, OwnersGone, NEW p \in Procs, PInv(p), HaltsItsOwn(p),
           Replacing(p) => MaySpare(p), owner' = owner,
           Invoke(p) \/ Advance(p) \/ Prompted(p) \/ Kill(p), ~IssueStart(p)
    PROVE  HaltsItsOwn(p)' /\ (Replacing(p)' => MaySpare(p)')
  <1>1. CASE Elsewhere(p)
    BY <1>1 DEF Elsewhere, HaltsItsOwn, Replacing
  <1>2. ASSUME markers' = markers, MaySpare(p) PROVE MaySpare(p)'
    BY <1>2 DEF MaySpare, Me
  <1>3. CASE CheckPasses(p)
    <2>1. /\ pc[p] \in {"precheck", "check"} /\ SessionFree(p) /\ AfterCheck(p) /\ markers' = markers
      BY <1>3 DEF CheckPasses, At, shared
    <2>2. /\ job'[p] = job[p] /\ pc'[p] # "halt"
          /\ pc[p] = "precheck" => pc'[p] \in {"ready", "orphan"}
      BY <2>1, ContinueLeads DEF AfterCheck, Goto
    <2>3. job[p] = "run" => MaySpare(p)
      BY <2>1, PassedCheckSpares
    <2> QED
      BY <1>2, <2>1, <2>2, <2>3 DEF HaltsItsOwn, Replacing
  <1>4. CASE SweepMarkers(p)
    <2>1. pc[p] \in {"presweep", "sweep"} /\ AfterCheck(p)
      BY <1>4 DEF SweepMarkers, At
    <2>2. pc'[p] # "halt" /\ (pc[p] = "presweep" => pc'[p] \in {"ready", "orphan"})
      BY <2>1, ContinueLeads DEF AfterCheck, Goto
    <2>3. pc[p] = "sweep" => \A b \in Backends : owner[b] = NoUser
      BY DEF PInv, OwnersGone
    <2>4. pc[p] = "sweep" => MaySpare(p)'
      BY <2>3 DEF MaySpare
    <2> QED
      BY <2>1, <2>2, <2>4 DEF HaltsItsOwn, Replacing
  <1>5. CASE Probe(p)
    <2>1. UNCHANGED <<pc, job, markers>> /\ pc[p] # "halt"
      BY <1>5 DEF Probe, At, Probing, shared
    <2> QED
      BY <1>2, <2>1 DEF HaltsItsOwn, Replacing
  <1>6. CASE SurveyReplaces(p)
    <2>1. /\ pc[p] = "survey" /\ job[p] = "run" /\ markers' = markers
          /\ \E s \in {"confirm", "stopping"}, B \in SUBSET Backends : Continue(p, s, B)
      BY <1>6 DEF SurveyReplaces, At, shared, LocalType
    <2>2. pc'[p] # "halt"
      BY <2>1, ContinueLeads
    <2> QED
      BY <1>2, <2>1, <2>2 DEF HaltsItsOwn, Replacing
  <1>7. CASE Confirm(p)
    <2>1. CASE Exit(p)
      BY <1>1, <2>1, ExitLeads
    <2>2. CASE Goto(p, "stopping", cands[p])
      <3>1. pc[p] = "confirm" /\ job[p] = "run" /\ markers' = markers
        BY <1>7 DEF Confirm, At, PInv, JobAt
      <3>2. pc'[p] = "stopping"
        BY <2>2, ContinueLeads DEF Goto
      <3> QED
        BY <1>2, <3>1, <3>2 DEF HaltsItsOwn, Replacing
    <2> QED
      BY <1>7, <2>1, <2>2 DEF Confirm
  <1>8. CASE SystemctlSteps(p)
    <2>1. CASE EndLaunch(p)
      BY <1>1, <2>1, EndLaunchLeads
    <2>2. CASE ~EndLaunch(p)
      <3>1. UNCHANGED <<pc, job, target, markers>>
        BY <1>8, <2>2 DEF SystemctlSteps, IssueStop, StopReturns, StopFails, shared
      <3>2. todo'[p] \subseteq todo[p]
        BY <1>8, <2>2 DEF SystemctlSteps, IssueStop, StopReturns, StopFails, LocalType
      <3> QED
        BY <1>2, <3>1, <3>2 DEF HaltsItsOwn, Replacing
    <2> QED
      BY <2>1, <2>2
  <1>9. CASE GiveUp(p)
    <2>1. Continue(p, "halt", {target[p]})
      BY <1>9 DEF GiveUp, Goto
    <2>2. pc'[p] = "halt" /\ todo'[p] = {target[p]} /\ target'[p] = target[p]
      BY <2>1, ContinueLeads
    <2> QED
      BY <2>2 DEF HaltsItsOwn, Replacing
  <1> QED
    BY <1>1, <1>3, <1>4, <1>5, <1>6, <1>7, <1>8, <1>9, MostLeadElsewhere
       DEF Advance, Prompted, SessionSteps, LaunchSteps

LEMMA InitSession == Init => SessionInv
  <1> SUFFICES ASSUME Init PROVE SessionInv
    OBVIOUS
  <1>1. OwnersGone /\ \A p \in Procs : pc[p] = "idle"
    BY DEF Init, OwnersGone
  <1> QED
    BY <1>1, InitInv DEF SessionInv, HaltsItsOwn, Replacing

LEMMA NextSession ==
    ASSUME ExternalUnits = {}, OneTerminalEach, SessionInv, [Next]_vars
    PROVE  SessionInv'
  <1>0. SharedType /\ LocalType /\ \A p \in Procs : PInv(p)
    BY InvParts DEF SessionInv
  <1>1. GpuInv'
    BY NextInv DEF SessionInv
  <1>2. ASSUME UNCHANGED <<pc, job, target, todo, markers>>,
               \A b \in Backends : owner'[b] \in {owner[b], NoUser}
        PROVE  \A p \in Procs : HaltsItsOwn(p)' /\ (Replacing(p)' => MaySpare(p)')
    BY <1>2 DEF SessionInv, HaltsItsOwn, Replacing, MaySpare, Me
  <1>3. CASE UNCHANGED vars
    BY <1>1, <1>2, <1>3 DEF SessionInv, OwnersGone, Down, vars, shared, locals
  <1>4. ASSUME NEW p \in Procs, IssueStart(p) PROVE SessionInv'
    <2>1. /\ Down(target[p]) /\ target[p] \in Backends
          /\ \A b \in Backends \ {target[p]} : unit'[b] = unit[b]
      BY <1>4, IssueStartKeepsInv DEF SessionInv
    <2>2. /\ pc[p] = "start" /\ UNCHANGED <<markers, pc, job, target, todo>>
          /\ unit' = [unit EXCEPT ![target[p]] = "starting"]
          /\ owner' = [owner EXCEPT ![target[p]] = Me(p)]
      BY <1>4, <2>1 DEF IssueStart, At, Down
    <2>3. OwnersGone'
      BY <1>0, <2>1, <2>2 DEF SessionInv, OwnersGone, Down, SharedType
    <2>4. \A q \in Procs : ~Replacing(q)
      <3>1. lock = p
        BY <1>0, <2>2 DEF PInv, Locked
      <3> QED
        BY <1>0, <2>2, <3>1 DEF PInv, Locked, Replacing
    <2> QED
      BY <1>1, <2>2, <2>3, <2>4 DEF SessionInv, HaltsItsOwn, Replacing
  <1>5. ASSUME NEW p \in Procs, Invoke(p) \/ Advance(p) \/ Prompted(p) \/ Kill(p), ~IssueStart(p)
        PROVE  SessionInv'
    <2>1. GoodStep(p) /\ OwnersGone' /\ owner' = owner
      BY <1>0, <1>5, TerminalStepIsGood, OwnersKept DEF SessionInv
    <2>2. HaltsItsOwn(p)' /\ (Replacing(p)' => MaySpare(p)')
      BY <1>0, <1>5, <2>1, OwnStepSpares DEF SessionInv
    <2>3. ASSUME NEW q \in Procs \ {p} PROVE HaltsItsOwn(q)' /\ (Replacing(q)' => MaySpare(q)')
      <3>1. pc'[q] = pc[q] /\ job'[q] = job[q] /\ target'[q] = target[q] /\ todo'[q] = todo[q]
        BY <2>1 DEF GoodStep, KeepsOthers
      <3>2. HaltsItsOwn(q)'
        BY <3>1 DEF SessionInv, HaltsItsOwn
      <3>3. ASSUME Replacing(q) PROVE MaySpare(q)'
        <4>1. lock = q
          BY <1>0, <3>3 DEF PInv, Locked, Replacing
        <4>2. ~MarkSession(p)
          BY <1>0, <4>1 DEF PInv, Locked, MarkSession, At
        <4>3. MarkerStep(p)
          BY <1>5, <4>2, MarkerSteps
        <4> QED
          BY <1>0, <2>1, <3>3, <4>3, OthersSpare DEF SessionInv
      <3> QED
        BY <3>1, <3>2, <3>3 DEF Replacing
    <2> QED
      BY <1>1, <2>1, <2>2, <2>3 DEF SessionInv
  <1>6. ASSUME NEW b \in Backends, UnitSteps(b) PROVE SessionInv'
    <2>1. UNCHANGED <<pc, job, target, todo, markers>>
      BY <1>6 DEF UnitSteps, UnitComesUp, UnitRestarts, UnitGoesDown, StartedElsewhere, locals
    <2>2. OwnersGone' /\ \A c \in Backends : owner'[c] \in {owner[c], NoUser}
      BY <1>0, <1>6 DEF UnitSteps, UnitComesUp, UnitRestarts, UnitGoesDown, StartedElsewhere,
                        SessionInv, OwnersGone, Down, SharedType
    <2> QED
      BY <1>1, <1>2, <2>1, <2>2 DEF SessionInv
  <1> QED
    BY <1>3, <1>4, <1>5, <1>6 DEF Next

\* `vserve run` never stops an engine that another user holds in session, however
\* the checks, claims, sweeps and launches of the others interleave with its own:
\* with each user at one terminal.  The second check, under the lock, is what
\* makes it so (_session_or_exit in _launch_backend).
THEOREM RunRespectsOthers ==
    ASSUME ExternalUnits = {}, OneTerminalEach
    PROVE  Spec => RunRespectsSession
  <1>1. SessionInv /\ [Next]_vars => SessionInv'
    BY NextSession
  <1>2. SessionInv => \A p \in Procs : job[p] = "run" /\ IssueStop(p) => ~DisruptsForeign(p)
    <2> SUFFICES ASSUME SessionInv, NEW p \in Procs, job[p] = "run", IssueStop(p),
                        NEW b \in Backends, unit[b] \in {"starting", "up"}, unit'[b] = "stopping",
                        NEW u \in Users \ {Me(p)}, ActiveSession(b, u)
                 PROVE  FALSE
      BY DEF DisruptsForeign
    <2>0. SharedType /\ LocalType /\ PInv(p)
      BY InvParts DEF SessionInv
    <2>1. pc[p] \in {"stopping", "halt"}
      BY <2>0 DEF IssueStop, At, Stopping, PInv, JobAt
    <2>2. CASE pc[p] = "stopping"
      BY <2>0, <2>2, SparedIsNotForeign DEF SessionInv, Replacing
    <2>3. CASE pc[p] = "halt"
      <3>1. b \in todo[p]
        BY <2>0 DEF IssueStop, SharedType
      <3>2. b = target[p]
        BY <2>3, <3>1 DEF SessionInv, HaltsItsOwn
      <3>3. Down(b) \/ owner[b] = Me(p)
        BY <2>0, <2>3, <3>2 DEF PInv
      <3> QED
        BY <3>3 DEF ActiveSession, OnGpu, Down
    <2> QED
      BY <2>1, <2>2, <2>3
  <1>3. SessionInv /\ [Next]_vars =>
           [\A p \in Procs : job[p] = "run" /\ IssueStop(p) => ~DisruptsForeign(p)]_vars
    BY <1>2
  <1> QED
    BY <1>1, <1>3, InitSession, PTL DEF Spec, RunRespectsSession
=============================================================================
