----------------------------- MODULE SweepProofs -----------------------------
(***************************************************************************)
(* What the files of a launch promise to systemd, and what a sweep leaves  *)
(* behind, for any profiles, users, variants and throughputs.  The         *)
(* argument: nothing runs while a launch changes link, flags and manifest, *)
(* and what it starts is what they name.                                   *)
(***************************************************************************)
EXTENDS Sweep, FiniteSetTheorems, WellFoundedInduction, TLAPS

JobSet == [pc : Phases \cup {"none"}, by : Users \cup {NoUser}, profile : Profiles \cup {NoProfile},
           old : Profiles \cup {NoProfile}, ok : BOOLEAN]

\* The launch has brought its unit up and not failed since.
Serving == job.pc = "wait" \/ (job.pc = "ended" /\ job.ok)

\* What a launch is about at its stages: vLLM's file and manifest are for vLLM's
\* profiles, and each backend's link names its own.
Kinds ==
    /\ link["vllm"] \notin Llama /\ link["llamacpp"] \in Llama \cup {NoProfile}
    /\ job = NoJob \/ (job.pc # "none" /\ job.profile \in Profiles)
    /\ job.old # NoProfile => (job.old \in Llama <=> job.profile \in Llama)
    /\ job.pc \in {"env", "manifest"} => job.profile \notin Llama
    /\ job.pc = "json" => job.profile \in Llama

\* Nothing runs while a launch changes what systemd reads.
Quiet ==
    job.pc \in {"env", "link", "json", "manifest", "start", "restore"} /\ ~late => Running = {}

\* When it starts the unit everything names the profile, and goes on to.
Named ==
    /\ job.pc \in {"json", "manifest", "start"} \/ Serving => link[BackendOf(job.profile)] = job.profile
    /\ job.pc \in {"start", "wait"} /\ job.profile \in Llama => json = job.profile
    /\ job.pc \in {"start", "wait"} /\ job.profile \notin Llama => manifest.profile = job.profile
    /\ Serving => unit[BackendOf(job.profile)].profile = job.profile

\* The file has the flag before a diffusion model is linked, put back or started.
Flagged ==
    \/ RunnerV2 \in flags
    \/ /\ link["vllm"] \notin Diffusion /\ job.old \notin Diffusion
       /\ job.pc \in {"link", "manifest", "start", "restore"} => job.profile \notin Diffusion

ActiveInv ==
    /\ ActiveTypeOK /\ Kinds /\ Quiet /\ Named /\ Flagged
    /\ RestartKeepsModel /\ ManifestNamesEngine

\* What the sweep relies on between its steps: as long as nobody else launched,
\* no launch but its own is under way, and what it measures is its variant.
SweepInv ==
    /\ target \notin Llama
    /\ at \in {"launching", "bench"} => todo # <<>>
    /\ at = "launching" => job.profile = Variant
    /\ at = "restoring" => job.profile = target /\ target \in Profiles
    /\ at # "idle" /\ ~Mine /\ ~meddled => job = NoJob
    /\ at = "bench" /\ ~meddled => unit["vllm"].profile = Variant /\ link["vllm"] = Variant
    /\ RowsAreTheirVariants /\ (at = "idle" => ~astray)
    /\ at = "done" /\ target # NoProfile /\ ~lost => unit["vllm"].profile = target

Inv == ActiveInv /\ TypeOK /\ SweepInv

LEMMA Constants ==
    /\ Llama \subseteq Profiles /\ Diffusion \subseteq Profiles /\ Llama \cap Diffusion = {}
    /\ NoProfile \notin Profiles /\ NoUser \notin Users
    /\ Installed \subseteq {"old", "new", "unknown"}
    /\ Me \in Users /\ Keys \subseteq Profiles \ Llama /\ UserProfiles \subseteq Profiles
    /\ First \subseteq Profiles
  BY ProfilesAssumption, SweepAssumption DEF ProfilesAssumption, SweepAssumption

LEMMA NoJobType == NoJob \in JobSet
  BY DEF NoJob, JobSet

-----------------------------------------------------------------------------
(* The steps of a launch, by what they do to its record.                   *)

LEMMA ToFields ==
    ASSUME job \in JobSet, NEW s \in Phases, To(s)
    PROVE  /\ job' \in JobSet /\ job'.pc = s /\ job'.profile = job.profile
           /\ job'.old = job.old /\ job'.by = job.by /\ job'.ok = job.ok
  BY DEF To, JobSet

LEMMA EndsFields ==
    ASSUME job \in JobSet, NEW ok \in BOOLEAN, Ends(ok)
    PROVE  /\ job' \in JobSet /\ job'.pc = "ended" /\ job'.profile = job.profile
           /\ job'.old = job.old /\ job'.by = job.by /\ job'.ok = ok
<1>1. "ended" \in Phases
  BY DEF Phases
<1>2. job' = [pc |-> "ended", by |-> job.by, profile |-> job.profile, old |-> job.old, ok |-> ok]
  BY DEF Ends, JobSet
<1> QED
  BY <1>1, <1>2 DEF JobSet

LEMMA Stages ==
    /\ {"session", "stop", "env", "link", "json", "manifest", "start", "restore", "wait", "ended"}
           \subseteq Phases
    /\ "none" \notin Phases
  BY DEF Phases

\* A launch that ends without success, having at most taken what runs away,
\* keeps the invariant.
LEMMA FailureKeeps ==
    ASSUME ActiveInv, Fails, job.pc # "none", UNCHANGED <<link, json, flags, version, late>>,
           session' \in Users \cup {NoUser}, manifest' = manifest,
           unit' = [b \in Backends |-> unit'[b]],
           \A b \in Backends : unit'[b] = Stopped \/ unit'[b] = unit[b]
    PROVE  ActiveInv'
<1>1. /\ job' \in JobSet /\ job'.pc = "ended" /\ job'.profile = job.profile
      /\ job'.old = job.old /\ job'.ok = FALSE
  BY EndsFields DEF Fails, ActiveInv, ActiveTypeOK, JobSet
<1>2. ActiveTypeOK'
  BY <1>1 DEF ActiveInv, ActiveTypeOK, JobSet, Stopped
<1>3. Kinds'
  BY <1>1 DEF ActiveInv, Kinds, NoJob
<1>4. Quiet' /\ Named' /\ Flagged'
  BY <1>1 DEF ActiveInv, Quiet, Named, Flagged, Serving
<1>5. RestartKeepsModel'
  <2>1. \A b \in Running' : b \in Running /\ unit'[b] = unit[b]
    BY DEF Running
  <2>2. unit'["vllm"] = Stopped \/ unit'["vllm"] = unit["vllm"]
    BY DEF Backends
  <2> QED
    BY <2>1, <2>2, Constants DEF ActiveInv, RestartKeepsModel, Stopped
<1>6. ManifestNamesEngine'
  BY DEF ActiveInv, ManifestNamesEngine, Backends
<1> QED
  BY <1>2, <1>3, <1>4, <1>5, <1>6 DEF ActiveInv

LEMMA TypedJob == ASSUME ActiveInv PROVE job \in JobSet
  BY DEF ActiveInv, ActiveTypeOK, JobSet

LEMMA CheckSessionKeeps == ASSUME ActiveInv, CheckSession PROVE ActiveInv'
<1>1. session' \in Users \cup {NoUser} /\ job.pc = "session"
  BY DEF CheckSession, At, ActiveInv, ActiveTypeOK
<1>2. CASE Fails
  <2>1. unit' = unit /\ unit = [b \in Backends |-> unit[b]]
    BY DEF CheckSession, ActiveInv, ActiveTypeOK
  <2> QED
    BY <1>1, <1>2, <2>1, FailureKeeps DEF CheckSession, config
<1>3. CASE To("stop")
  <2>1. /\ job' \in JobSet /\ job'.pc = "stop" /\ job'.profile = job.profile
        /\ job'.old = job.old /\ UNCHANGED <<config, version, unit, late>>
    BY <1>3, TypedJob, ToFields, Stages DEF CheckSession
  <2> QED
    BY <1>1, <2>1 DEF ActiveInv, ActiveTypeOK, JobSet, Kinds, NoJob, Quiet, Named, Flagged, Serving,
                      RestartKeepsModel, ManifestNamesEngine, Running, config
<1> QED
  BY <1>2, <1>3 DEF CheckSession

LEMMA StopRunningKeeps == ASSUME ActiveInv, StopRunning PROVE ActiveInv'
<1>1. PICK halted \in SUBSET Running :
          /\ unit' = [b \in Backends |-> IF b \in halted THEN Stopped ELSE unit[b]]
          /\ \/ halted = Running /\ To(IF job.profile \in Llama THEN "link" ELSE "env")
             \/ Running # {} /\ Fails
  BY DEF StopRunning
<1>2. job.pc = "stop" /\ UNCHANGED <<config, version, session, late>>
  BY DEF StopRunning, At
<1>3. CASE Fails
  BY <1>1, <1>2, <1>3, FailureKeeps DEF Running, config, ActiveInv, ActiveTypeOK
<1>4. CASE halted = Running /\ To(IF job.profile \in Llama THEN "link" ELSE "env")
  <2> DEFINE s == IF job.profile \in Llama THEN "link" ELSE "env"
  <2>1. s \in Phases
    BY Stages
  <2>2. /\ job' \in JobSet /\ job'.pc = s /\ job'.profile = job.profile /\ job'.old = job.old
    BY <1>4, <2>1, TypedJob, ToFields
  <2>3. \A b \in Backends : unit'[b] = Stopped
    BY <1>1, <1>4 DEF Running
  <2>4. Running' = {} /\ unit' = [b \in Backends |-> Stopped]
    BY <1>1, <2>3 DEF Running
  <2>5. ActiveTypeOK'
    BY <1>2, <2>2, <2>4 DEF ActiveInv, ActiveTypeOK, JobSet, Stopped, config
  <2>6. Kinds' /\ Quiet' /\ Named'
    BY <1>2, <2>2, <2>4 DEF ActiveInv, Kinds, NoJob, Quiet, Named, Serving, config
  <2>7. Flagged'
    BY <1>2, <2>2, Constants DEF ActiveInv, Flagged, config
  <2>8. RestartKeepsModel' /\ ManifestNamesEngine'
    BY <2>3, <2>4, Constants DEF RestartKeepsModel, ManifestNamesEngine, Backends, Stopped
  <2> QED
    BY <2>5, <2>6, <2>7, <2>8 DEF ActiveInv
<1> QED
  BY <1>1, <1>3, <1>4

LEMMA RefuseUnitKeeps == ASSUME ActiveInv, RefuseUnit PROVE ActiveInv'
<1>1. unit' = unit /\ unit = [b \in Backends |-> unit[b]]
  BY DEF RefuseUnit, ActiveInv, ActiveTypeOK
<1> QED
  BY <1>1, FailureKeeps DEF RefuseUnit, At, config, ActiveInv, ActiveTypeOK

\* While nothing runs, what systemd reads may change.
LEMMA QuietKept ==
    ASSUME ActiveInv, UNCHANGED <<unit, late>>,
           job.pc \in {"env", "link", "json", "manifest", "start", "restore"}
    PROVE  /\ RestartKeepsModel' /\ ManifestNamesEngine'
           /\ ~late' => Running' = {}
<1>1. ~late => Running = {} /\ Running' = {} /\ \A b \in Backends : unit'[b] = Stopped
  BY DEF ActiveInv, Quiet, Running
<1>2. RestartKeepsModel'
  BY <1>1 DEF ActiveInv, RestartKeepsModel
<1>3. ManifestNamesEngine'
  BY <1>1 DEF ManifestNamesEngine, Backends
<1> QED
  BY <1>1, <1>2, <1>3

LEMMA WriteEnvKeeps == ASSUME ActiveInv, WriteEnv PROVE ActiveInv'
<1>1. /\ job.pc = "env" /\ job.profile \in Profiles \ Llama
      /\ UNCHANGED <<link, json, version, unit, session, late>>
  BY DEF WriteEnv, At, ActiveInv, Kinds, NoJob
<1>2. /\ flags' \subseteq {MoeFp4, RunnerV2} /\ flags \subseteq flags'
      /\ job.profile \in Diffusion => RunnerV2 \in flags'
  BY DEF WriteEnv, Upsert, ResolveQuantEnvs, ResolveModelRuntimeEnvs, ActiveInv, ActiveTypeOK
<1>3. /\ job' \in JobSet /\ job'.profile = job.profile
      /\ \/ job'.pc = "link" /\ job'.old = link["vllm"] /\ manifest' = manifest
         \/ /\ job'.pc = "ended" /\ job'.old = job.old /\ job'.ok = FALSE
            /\ manifest'.profile = job.profile
  <2>1. CASE job' = [job EXCEPT !.pc = "link", !.old = link["vllm"]] /\ UNCHANGED manifest
    <3>1. link["vllm"] \in Profiles \cup {NoProfile}
      BY DEF ActiveInv, ActiveTypeOK, Backends
    <3>2. job' = [pc |-> "link", by |-> job.by, profile |-> job.profile, old |-> link["vllm"],
                  ok |-> job.ok]
      BY <2>1, TypedJob DEF JobSet
    <3> QED
      BY <2>1, <3>1, <3>2, TypedJob, Stages DEF JobSet
  <2>2. CASE Fails /\ Record(job.profile, "failed")
    BY <1>1, <2>2, TypedJob, EndsFields DEF Fails, Record
  <2> QED
    BY <2>1, <2>2 DEF WriteEnv
<1>4. RestartKeepsModel' /\ ManifestNamesEngine' /\ (~late' => Running' = {})
  BY <1>1, QuietKept
<1>5. ActiveTypeOK'
  BY <1>1, <1>2, <1>3 DEF ActiveInv, ActiveTypeOK, JobSet
<1>6. Kinds' /\ Quiet' /\ Named'
  BY <1>1, <1>3, <1>4 DEF ActiveInv, Kinds, NoJob, Quiet, Named, Serving
<1>7. Flagged'
  BY <1>1, <1>2, <1>3 DEF ActiveInv, Flagged
<1> QED
  BY <1>4, <1>5, <1>6, <1>7 DEF ActiveInv

LEMMA MoveLinkKeeps == ASSUME ActiveInv, MoveLink PROVE ActiveInv'
<1> DEFINE b == BackendOf(job.profile)
<1>1. /\ job.pc = "link" /\ job.profile \in Profiles /\ b \in Backends
      /\ UNCHANGED <<json, flags, version, unit, session, late>>
  BY DEF MoveLink, At, ActiveInv, Kinds, NoJob, BackendOf, Backends
<1>2. RestartKeepsModel' /\ ManifestNamesEngine' /\ (~late' => Running' = {})
  BY <1>1, QuietKept
<1>3. CASE /\ link' = [link EXCEPT ![b] = job.profile]
           /\ job' = [job EXCEPT !.pc = IF b = "vllm" THEN "manifest" ELSE "json", !.old = link[b]]
           /\ UNCHANGED manifest
  <2>1. link[b] \in Profiles \cup {NoProfile} /\ (b = "vllm" <=> job.profile \notin Llama)
        /\ (link[b] # NoProfile => (link[b] \in Llama <=> job.profile \in Llama))
    BY <1>1, Constants DEF ActiveInv, ActiveTypeOK, Kinds, BackendOf
  <2> DEFINE s == IF b = "vllm" THEN "manifest" ELSE "json"
  <2>2. job' = [pc |-> s, by |-> job.by, profile |-> job.profile, old |-> link[b], ok |-> job.ok]
    BY <1>3, TypedJob DEF JobSet
  <2>3. /\ job' \in JobSet /\ job'.pc = s /\ job'.profile = job.profile /\ job'.old = link[b]
    BY <2>1, <2>2, TypedJob, Stages DEF JobSet
  <2>4. link' \in [Backends -> Profiles \cup {NoProfile}] /\ link'[b] = job.profile
        /\ (b = "llamacpp" => link'["vllm"] = link["vllm"])
        /\ (b = "vllm" => link'["llamacpp"] = link["llamacpp"])
    BY <1>1, <1>3 DEF ActiveInv, ActiveTypeOK, Backends
  <2> HIDE DEF b
  <2>5. ActiveTypeOK'
    BY <1>1, <1>3, <2>3, <2>4 DEF ActiveInv, ActiveTypeOK, JobSet
  <2>6. Kinds'
    BY <1>1, <2>1, <2>3, <2>4 DEF ActiveInv, Kinds, NoJob, Backends
  <2>7. Quiet' /\ Named'
    BY <1>2, <2>3, <2>4 DEF Quiet, Named, Serving, b
  <2>8. Flagged'
    <3>1. CASE b = "vllm"
      BY <1>1, <2>3, <2>4, <3>1 DEF ActiveInv, Flagged
    <3>2. CASE b = "llamacpp"
      BY <1>1, <2>1, <2>3, <2>4, <3>2, Constants DEF ActiveInv, Flagged, ActiveTypeOK, Backends, Kinds
    <3> QED
      BY <1>1, <3>1, <3>2 DEF Backends
  <2> QED
    BY <1>2, <2>5, <2>6, <2>7, <2>8 DEF ActiveInv
<1>4. CASE link' = [link EXCEPT ![b] = NoProfile] /\ Fails /\ Record(job.profile, "failed")
  <2>1. /\ job' \in JobSet /\ job'.pc = "ended" /\ job'.profile = job.profile
        /\ job'.old = job.old /\ job'.ok = FALSE
    BY <1>4, TypedJob, EndsFields DEF Fails
  <2>2. manifest'.profile \in Profiles \cup {NoProfile}
    BY <1>1, <1>4 DEF Record, ActiveInv, ActiveTypeOK
  <2>3. link' \in [Backends -> Profiles \cup {NoProfile}]
        /\ link'["vllm"] \in {link["vllm"], NoProfile}
        /\ link'["llamacpp"] \in {link["llamacpp"], NoProfile}
    BY <1>1, <1>4 DEF ActiveInv, ActiveTypeOK, Backends
  <2> HIDE DEF b
  <2>4. ActiveTypeOK'
    BY <1>1, <2>1, <2>2, <2>3 DEF ActiveInv, ActiveTypeOK, JobSet
  <2>5. Kinds' /\ Quiet' /\ Named' /\ Flagged'
    BY <1>1, <2>1, <2>3, Constants DEF ActiveInv, Kinds, NoJob, Quiet, Named, Serving, Flagged
  <2> QED
    BY <1>2, <2>4, <2>5 DEF ActiveInv
<1> QED
  BY <1>3, <1>4 DEF MoveLink

LEMMA MoveJsonKeeps == ASSUME ActiveInv, MoveJson PROVE ActiveInv'
<1>1. /\ job.pc = "json" /\ json' = job.profile /\ job.profile \in Profiles
      /\ UNCHANGED <<link, flags, manifest, version, unit, session, late>>
  BY DEF MoveJson, At, ActiveInv, Kinds, NoJob
<1>2. /\ job' \in JobSet /\ job'.pc = "start" /\ job'.profile = job.profile /\ job'.old = job.old
  BY TypedJob, ToFields, Stages DEF MoveJson
<1>3. RestartKeepsModel' /\ ManifestNamesEngine' /\ (~late' => Running' = {})
  BY <1>1, QuietKept
<1>4. ActiveTypeOK'
  BY <1>1, <1>2 DEF ActiveInv, ActiveTypeOK, JobSet
<1>5. Kinds' /\ Quiet' /\ Named' /\ Flagged'
  BY <1>1, <1>2, <1>3, Constants DEF ActiveInv, Kinds, NoJob, Quiet, Named, Serving, Flagged
<1> QED
  BY <1>3, <1>4, <1>5 DEF ActiveInv

LEMMA WriteStartingKeeps == ASSUME ActiveInv, WriteStarting PROVE ActiveInv'
<1>1. /\ job.pc = "manifest" /\ job.profile \in Profiles \ Llama
      /\ UNCHANGED <<link, json, flags, version, unit, session, late>>
  BY DEF WriteStarting, At, ActiveInv, Kinds, NoJob
<1>2. /\ job' \in JobSet /\ job'.pc = "start" /\ job'.profile = job.profile /\ job'.old = job.old
  BY TypedJob, ToFields, Stages DEF WriteStarting
<1>3. manifest'.profile = job.profile
  BY <1>1 DEF WriteStarting, Record
<1>4. RestartKeepsModel' /\ ManifestNamesEngine' /\ (~late' => Running' = {})
  BY <1>1, QuietKept
<1>5. ActiveTypeOK'
  BY <1>1, <1>2, <1>3 DEF ActiveInv, ActiveTypeOK, JobSet
<1>6. Kinds' /\ Quiet' /\ Named' /\ Flagged'
  BY <1>1, <1>2, <1>3, <1>4 DEF ActiveInv, Kinds, NoJob, Quiet, Named, Serving, Flagged
<1> QED
  BY <1>4, <1>5, <1>6 DEF ActiveInv

LEMMA StartFailsKeeps == ASSUME ActiveInv, StartFails PROVE ActiveInv'
<1>1. job.pc = "start" /\ UNCHANGED <<config, version, unit, session, late>>
  BY DEF StartFails, At
<1>2. /\ job' \in JobSet /\ job'.pc = "restore" /\ job'.profile = job.profile /\ job'.old = job.old
  BY TypedJob, ToFields, Stages DEF StartFails
<1>3. RestartKeepsModel' /\ ManifestNamesEngine' /\ (~late' => Running' = {})
  BY <1>1, QuietKept
<1>4. ActiveTypeOK'
  BY <1>1, <1>2 DEF ActiveInv, ActiveTypeOK, JobSet, config
<1>5. Kinds' /\ Quiet' /\ Named' /\ Flagged'
  BY <1>1, <1>2, <1>3 DEF ActiveInv, Kinds, NoJob, Quiet, Named, Serving, Flagged, config
<1> QED
  BY <1>3, <1>4, <1>5 DEF ActiveInv

\* The unit that is started reads what the link names, with the flags it needs.
LEMMA ReadsTyped ==
    ASSUME ActiveInv, NEW b \in Backends
    PROVE  /\ Reads(b) \in [profile : Profiles \cup {NoProfile}, flags : SUBSET {MoeFp4, RunnerV2}]
           /\ Reads(b).profile = link[b]
           /\ b = "vllm" => Reads(b).flags = flags
  BY DEF Reads, ActiveInv, ActiveTypeOK, Backends

LEMMA StartingUnit ==
    ASSUME ActiveInv, job.pc = "start", NEW b, b = BackendOf(job.profile),
           unit' = [unit EXCEPT ![b] = Reads(b)], UNCHANGED <<link, json, flags, manifest>>
    PROVE  /\ unit' \in [Backends -> [profile : Profiles \cup {NoProfile}, flags : SUBSET {MoeFp4, RunnerV2}]]
           /\ unit'[b].profile = job.profile
           /\ ~late => RestartKeepsModel' /\ ManifestNamesEngine'
           /\ unit'["vllm"].profile \in Diffusion => RunnerV2 \in unit'["vllm"].flags
<1>1. b \in Backends /\ link[b] = job.profile /\ (b = "llamacpp" <=> job.profile \in Llama)
  BY DEF ActiveInv, Named, BackendOf, Backends
<1>2. unit \in [Backends -> [profile : Profiles \cup {NoProfile}, flags : SUBSET {MoeFp4, RunnerV2}]]
  BY DEF ActiveInv, ActiveTypeOK
<1>3. /\ unit'[b] = Reads(b) /\ \A c \in Backends \ {b} : unit'[c] = unit[c]
      /\ unit' \in [Backends -> [profile : Profiles \cup {NoProfile}, flags : SUBSET {MoeFp4, RunnerV2}]]
  BY <1>1, <1>2, ReadsTyped
<1>4. unit'["vllm"].profile \in Diffusion => RunnerV2 \in unit'["vllm"].flags
  <2>1. CASE b = "vllm"
    BY <1>1, <1>3, <2>1, ReadsTyped DEF ActiveInv, Flagged
  <2>2. CASE b = "llamacpp"
    BY <1>3, <2>2 DEF ActiveInv, RestartKeepsModel, Backends
  <2> QED
    BY <1>1, <2>1, <2>2 DEF Backends
<1>5. ASSUME ~late
      PROVE  RestartKeepsModel' /\ ManifestNamesEngine'
  <2>1. \A c \in Backends \ {b} : unit'[c] = Stopped
    BY <1>3, <1>5 DEF ActiveInv, Quiet, Running
  <2>2. Running' \subseteq {b}
    BY <2>1 DEF Running
  <2>3. RestartKeepsModel'
    BY <1>1, <1>3, <1>4, <2>2, ReadsTyped DEF RestartKeepsModel, ActiveInv, Named
  <2>4. ManifestNamesEngine'
    <3>1. CASE b = "vllm"
      BY <1>1, <1>3, <3>1, ReadsTyped DEF ManifestNamesEngine, ActiveInv, Named
    <3>2. CASE b = "llamacpp"
      BY <2>1, <3>2 DEF ManifestNamesEngine, Backends
    <3> QED
      BY <1>1, <3>1, <3>2 DEF Backends
  <2> QED
    BY <2>3, <2>4
<1> QED
  BY <1>1, <1>3, <1>4, <1>5, ReadsTyped

LEMMA StartKeeps == ASSUME ActiveInv, Start PROVE ActiveInv'
<1> DEFINE b == BackendOf(job.profile)
<1>1. /\ job.pc = "start" /\ unit' = [unit EXCEPT ![b] = Reads(b)] /\ session' = job.by
      /\ UNCHANGED <<link, json, flags, manifest, version, late>>
  BY DEF Start, At, config
<1>2. /\ job' \in JobSet /\ job'.pc = "wait" /\ job'.profile = job.profile /\ job'.old = job.old
  BY TypedJob, ToFields, Stages DEF Start
<1>3. /\ unit' \in [Backends -> [profile : Profiles \cup {NoProfile}, flags : SUBSET {MoeFp4, RunnerV2}]]
      /\ unit'[b].profile = job.profile
      /\ ~late => RestartKeepsModel' /\ ManifestNamesEngine'
      /\ unit'["vllm"].profile \in Diffusion => RunnerV2 \in unit'["vllm"].flags
  BY <1>1, StartingUnit
<1>4. ActiveTypeOK'
  BY <1>1, <1>2, <1>3, TypedJob DEF ActiveInv, ActiveTypeOK, JobSet
<1>5. Kinds' /\ Quiet' /\ Named' /\ Flagged'
  BY <1>1, <1>2, <1>3 DEF ActiveInv, Kinds, NoJob, Quiet, Named, Serving, Flagged
<1>6. RestartKeepsModel' /\ ManifestNamesEngine'
  BY <1>1, <1>3 DEF RestartKeepsModel, ManifestNamesEngine
<1> QED
  BY <1>4, <1>5, <1>6 DEF ActiveInv

LEMMA StartTimesOutKeeps == ASSUME ActiveInv, StartTimesOut PROVE ActiveInv'
<1> DEFINE b == BackendOf(job.profile)
<1>1. /\ job.pc = "start" /\ unit' = [unit EXCEPT ![b] = Reads(b)] /\ late' = TRUE
      /\ UNCHANGED <<link, json, flags, manifest, version, session>>
  BY DEF StartTimesOut, At, config
<1>2. /\ job' \in JobSet /\ job'.profile = job.profile /\ job'.old = job.old
      /\ job'.pc = "restore" \/ (job'.pc = "ended" /\ job'.ok = FALSE)
  <2>1. To("restore") \/ Ends(FALSE)
    BY DEF StartTimesOut, Fails
  <2> QED
    BY <2>1, TypedJob, ToFields, EndsFields, Stages
<1>3. /\ unit' \in [Backends -> [profile : Profiles \cup {NoProfile}, flags : SUBSET {MoeFp4, RunnerV2}]]
      /\ unit'["vllm"].profile \in Diffusion => RunnerV2 \in unit'["vllm"].flags
  BY <1>1, StartingUnit
<1>4. ActiveTypeOK'
  BY <1>1, <1>2, <1>3 DEF ActiveInv, ActiveTypeOK, JobSet
<1>5. Kinds' /\ Quiet' /\ Named' /\ Flagged'
  BY <1>1, <1>2 DEF ActiveInv, Kinds, NoJob, Quiet, Named, Serving, Flagged
<1>6. RestartKeepsModel' /\ ManifestNamesEngine'
  BY <1>1, <1>3 DEF RestartKeepsModel, ManifestNamesEngine
<1> QED
  BY <1>4, <1>5, <1>6 DEF ActiveInv

LEMMA RestoreKeeps == ASSUME ActiveInv, Restore PROVE ActiveInv'
<1> DEFINE b == BackendOf(job.profile)
<1>1. PICK to \in {job.old, NoProfile} :
          /\ link' = [link EXCEPT ![b] = to]
          /\ json' = IF b = "llamacpp" THEN to ELSE json
  BY DEF Restore
<1>2. /\ job.pc = "restore" /\ job.profile \in Profiles /\ b \in Backends
      /\ (b = "vllm" <=> job.profile \notin Llama)
      /\ UNCHANGED <<flags, version, unit, session, late>>
  BY DEF Restore, At, ActiveInv, Kinds, NoJob, BackendOf, Backends
<1>3. /\ job' \in JobSet /\ job'.pc = "ended" /\ job'.profile = job.profile
      /\ job'.old = job.old /\ job'.ok = FALSE
  BY TypedJob, EndsFields DEF Restore, Fails
<1>4. RestartKeepsModel' /\ ManifestNamesEngine' /\ (~late' => Running' = {})
  BY <1>2, QuietKept
<1>5. manifest'.profile \in Profiles \cup {NoProfile}
  BY <1>2 DEF Restore, Record, ActiveInv, ActiveTypeOK
<1>6. to \in Profiles \cup {NoProfile} /\ (to # NoProfile => to = job.old)
  BY TypedJob DEF JobSet
<1>7. /\ link' \in [Backends -> Profiles \cup {NoProfile}] /\ json' \in Profiles \cup {NoProfile}
      /\ link'["vllm"] = (IF b = "vllm" THEN to ELSE link["vllm"])
      /\ link'["llamacpp"] = (IF b = "llamacpp" THEN to ELSE link["llamacpp"])
  BY <1>1, <1>2, <1>6 DEF ActiveInv, ActiveTypeOK, Backends
<1> HIDE DEF b
<1>8. ActiveTypeOK'
  BY <1>2, <1>3, <1>5, <1>7 DEF ActiveInv, ActiveTypeOK, JobSet
<1>9. Kinds'
  BY <1>2, <1>3, <1>6, <1>7, Constants DEF ActiveInv, Kinds, NoJob, Backends
<1>10. Quiet' /\ Named' /\ Flagged'
  BY <1>2, <1>3, <1>6, <1>7, Constants DEF ActiveInv, Quiet, Named, Serving, Flagged
<1> QED
  BY <1>4, <1>8, <1>9, <1>10 DEF ActiveInv

\* The wait ends: what is running keeps running, or the launch's own unit is stopped.
LEMMA WaitEnds ==
    ASSUME ActiveInv, At("wait"), NEW status, Record(job.profile, status),
           NEW ok \in BOOLEAN, Ends(ok), UNCHANGED <<link, json, flags, version, late>>,
           session' \in Users \cup {NoUser},
           unit' = unit \/ (~ok /\ unit' = [unit EXCEPT ![BackendOf(job.profile)] = Stopped])
    PROVE  ActiveInv'
<1> DEFINE b == BackendOf(job.profile)
<1>1. /\ job.pc = "wait" /\ job.profile \in Profiles /\ b \in Backends
      /\ (b = "vllm" <=> job.profile \notin Llama) /\ unit[b].profile = job.profile
  BY DEF At, ActiveInv, Kinds, NoJob, BackendOf, Backends, Named, Serving
<1>2. /\ job' \in JobSet /\ job'.pc = "ended" /\ job'.profile = job.profile
      /\ job'.old = job.old /\ job'.ok = ok
  BY TypedJob, EndsFields
<1>3. manifest'.profile = manifest.profile
  BY <1>1 DEF Record, ActiveInv, Named
<1>4. /\ \A c \in Backends : unit'[c] = unit[c] \/ unit'[c] = Stopped
      /\ unit' \in [Backends -> [profile : Profiles \cup {NoProfile}, flags : SUBSET {MoeFp4, RunnerV2}]]
  <2>1. Stopped \in [profile : Profiles \cup {NoProfile}, flags : SUBSET {MoeFp4, RunnerV2}]
    BY DEF Stopped
  <2>2. unit \in [Backends -> [profile : Profiles \cup {NoProfile}, flags : SUBSET {MoeFp4, RunnerV2}]]
    BY DEF ActiveInv, ActiveTypeOK
  <2>3. CASE unit' = unit
    BY <2>2, <2>3
  <2>4. CASE unit' = [unit EXCEPT ![b] = Stopped]
    BY <1>1, <2>1, <2>2, <2>4
  <2> QED
    BY <2>3, <2>4
<1>5. ActiveTypeOK'
  BY <1>1, <1>2, <1>3, <1>4 DEF ActiveInv, ActiveTypeOK, JobSet
<1>6. Kinds' /\ Quiet' /\ Flagged'
  BY <1>1, <1>2 DEF ActiveInv, Kinds, NoJob, Quiet, Flagged
<1>7. Named'
  BY <1>1, <1>2 DEF ActiveInv, Named, Serving
<1>8. \A c \in Running' : c \in Running /\ unit'[c] = unit[c]
  BY <1>4 DEF Running
<1>9. unit'["vllm"] = Stopped \/ unit'["vllm"] = unit["vllm"]
  BY <1>4 DEF Backends
<1>10. RestartKeepsModel' /\ ManifestNamesEngine'
  BY <1>3, <1>8, <1>9, Constants DEF ActiveInv, RestartKeepsModel, ManifestNamesEngine, Stopped
<1> QED
  BY <1>5, <1>6, <1>7, <1>10 DEF ActiveInv

LEMMA StepsKeep == ASSUME ActiveInv, NEW interactive \in BOOLEAN, Steps(interactive) PROVE ActiveInv'
<1>1. session \in Users \cup {NoUser}
  BY DEF ActiveInv, ActiveTypeOK
<1>2. CASE Ready \/ Warming(interactive) \/ GiveUp \/ Unconfirmed
  BY <1>1, <1>2, WaitEnds DEF Ready, Warming, GiveUp, Unconfirmed, KeepLink, Fails
<1> QED
  BY <1>2, CheckSessionKeeps, StopRunningKeeps, WriteEnvKeeps, RefuseUnitKeeps, MoveLinkKeeps,
     MoveJsonKeeps, WriteStartingKeeps, StartKeeps, StartFailsKeeps, StartTimesOutKeeps, RestoreKeeps
     DEF Steps

-----------------------------------------------------------------------------
(* The world outside, and who begins and ends a launch.                    *)

LEMMA AutoRestartKeeps == ASSUME ActiveInv, NEW b \in Backends, AutoRestart(b) PROVE ActiveInv'
<1> DEFINE u == IF link[b] = NoProfile THEN Stopped ELSE Reads(b)
<1>1. unit[b] # Stopped /\ unit' = [unit EXCEPT ![b] = u]
      /\ UNCHANGED <<config, version, session, job, late>>
  BY DEF AutoRestart
<1>2. /\ u \in [profile : Profiles \cup {NoProfile}, flags : SUBSET {MoeFp4, RunnerV2}]
      /\ u.profile = link[b]
      /\ b = "vllm" /\ u.profile \in Diffusion => u.flags = flags
  BY ReadsTyped, Constants DEF Stopped
<1> HIDE DEF u
<1>3. unit \in [Backends -> [profile : Profiles \cup {NoProfile}, flags : SUBSET {MoeFp4, RunnerV2}]]
  BY DEF ActiveInv, ActiveTypeOK
<1>4. /\ unit' \in [Backends -> [profile : Profiles \cup {NoProfile}, flags : SUBSET {MoeFp4, RunnerV2}]]
      /\ unit'[b] = u /\ \A c \in Backends \ {b} : unit'[c] = unit[c]
  BY <1>1, <1>2, <1>3
<1>5. Running' \subseteq Running /\ b \in Running
  BY <1>1, <1>4 DEF Running
<1>6. ~late => unit'[b].profile = unit[b].profile
  BY <1>2, <1>4, <1>5 DEF ActiveInv, RestartKeepsModel
<1>7. ActiveTypeOK' /\ Kinds' /\ Flagged' /\ Quiet'
  BY <1>1, <1>4, <1>5 DEF ActiveInv, ActiveTypeOK, Kinds, NoJob, Flagged, Quiet, config
<1>8. Named'
  BY <1>1, <1>2, <1>4 DEF ActiveInv, Named, Serving, config, BackendOf, Backends
<1>9. unit'["vllm"].profile \in Diffusion => RunnerV2 \in unit'["vllm"].flags
  <2>1. CASE b = "vllm"
    BY <1>2, <1>4, <2>1 DEF ActiveInv, Flagged
  <2>2. CASE b # "vllm"
    BY <1>4, <2>2 DEF ActiveInv, RestartKeepsModel, Backends
  <2> QED
    BY <2>1, <2>2
<1>10. RestartKeepsModel'
  BY <1>1, <1>4, <1>5, <1>6, <1>9 DEF ActiveInv, RestartKeepsModel, config, Running
<1>11. ManifestNamesEngine'
  <2>1. CASE b = "vllm"
    BY <1>1, <1>4, <1>6, <2>1 DEF ActiveInv, ManifestNamesEngine, config
  <2>2. CASE b # "vllm"
    BY <1>1, <1>4, <2>2 DEF ActiveInv, ManifestNamesEngine, config, Backends
  <2> QED
    BY <2>1, <2>2
<1> QED
  BY <1>7, <1>8, <1>10, <1>11 DEF ActiveInv

LEMMA UpgradeKeeps == ASSUME ActiveInv, Upgrade PROVE ActiveInv'
  BY DEF Upgrade, config, ActiveInv, ActiveTypeOK, Kinds, NoJob, Quiet, Named, Flagged, Serving,
         RestartKeepsModel, ManifestNamesEngine, Running

\* A launch is begun or its process is gone: nothing that systemd reads changes.
LEMMA JobKeeps ==
    ASSUME ActiveInv, UNCHANGED <<config, version, unit, late>>, session' \in Users \cup {NoUser},
           job' = NoJob \/ (\E u \in Users, p \in Profiles : job = NoJob /\ Launch(u, p))
    PROVE  ActiveInv'
<1>1. CASE job' = NoJob
  <2>1. job' \in JobSet /\ job'.pc = "none" /\ job'.old = NoProfile /\ job'.ok = FALSE
    BY <1>1, NoJobType DEF NoJob
  <2>2. ActiveTypeOK'
    BY <2>1 DEF config, ActiveInv, ActiveTypeOK, JobSet
  <2>3. Kinds' /\ Quiet' /\ Named' /\ Flagged'
    BY <1>1, <2>1, Constants DEF config, ActiveInv, Kinds, Quiet, Named, Flagged, Serving
  <2>4. RestartKeepsModel' /\ ManifestNamesEngine'
    BY DEF config, ActiveInv, RestartKeepsModel, ManifestNamesEngine, Running
  <2> QED
    BY <2>2, <2>3, <2>4 DEF ActiveInv
<1>2. ASSUME NEW u \in Users, NEW p \in Profiles, job = NoJob, Launch(u, p)
      PROVE  ActiveInv'
  <2>1. /\ job' \in JobSet /\ job'.pc = "session" /\ job'.profile = p /\ job'.old = NoProfile
        /\ job'.ok = FALSE
    BY <1>2, Stages DEF Launch, JobSet
  <2> QED
    BY <1>2, <2>1 DEF config, ActiveInv, ActiveTypeOK, JobSet, Kinds, NoJob, Quiet, Named, Flagged,
       Serving, RestartKeepsModel, ManifestNamesEngine, Running
<1> QED
  BY <1>1, <1>2

LEMMA ActiveBegins == ASSUME ActiveInit(First) PROVE ActiveInv
<1>1. PICK p \in (First \ Llama) \cup {NoProfile}, q \in (First \cap Llama) \cup {NoProfile} :
        /\ version \in Installed /\ job = NoJob /\ late = FALSE
        /\ link = [b \in Backends |-> IF b = "vllm" THEN p ELSE q] /\ json = q
        /\ manifest = [profile |-> p, status |-> "ready"]
        /\ flags = ResolveQuantEnvs(p) \cup ResolveModelRuntimeEnvs(p)
        /\ \E b \in Backends \cup {"neither"} :
              /\ b \in Backends => link[b] # NoProfile
              /\ unit = [c \in Backends |-> IF c = b THEN Reads(c) ELSE Stopped]
              /\ session \in (IF b \in Backends THEN Users ELSE {NoUser})
  BY DEF ActiveInit
<1>2. PICK b \in Backends \cup {"neither"} :
        /\ b \in Backends => link[b] # NoProfile
        /\ unit = [c \in Backends |-> IF c = b THEN Reads(c) ELSE Stopped]
        /\ session \in (IF b \in Backends THEN Users ELSE {NoUser})
  BY <1>1
<1>3. /\ link["vllm"] = p /\ link["llamacpp"] = q /\ p \in Profiles \cup {NoProfile}
      /\ q \in Profiles \cup {NoProfile} /\ p \notin Llama /\ q \in Llama \cup {NoProfile}
      /\ link \in [Backends -> Profiles \cup {NoProfile}]
  BY <1>1, Constants DEF Backends
<1>4. flags \subseteq {MoeFp4, RunnerV2} /\ (p \in Diffusion => RunnerV2 \in flags)
  BY <1>1 DEF ResolveQuantEnvs, ResolveModelRuntimeEnvs
<1>5. /\ unit \in [Backends -> [profile : Profiles \cup {NoProfile}, flags : SUBSET {MoeFp4, RunnerV2}]]
      /\ \A c \in Backends : unit[c] = Stopped \/ unit[c] = Reads(c)
  BY <1>2, <1>3, <1>4 DEF Reads, Stopped
<1>6. \A c \in Backends : Reads(c).profile = link[c]
  BY DEF Reads
<1>7. unit["vllm"] = Stopped \/ (unit["vllm"].profile = p /\ unit["vllm"].flags = flags)
  BY <1>3, <1>5 DEF Reads, Backends
<1>8. session \in Users \cup {NoUser}
  BY <1>2
<1>9. ActiveTypeOK
  BY <1>1, <1>3, <1>4, <1>5, <1>8, NoJobType, Constants DEF ActiveTypeOK, JobSet
<1>10. Kinds /\ Quiet /\ Named /\ Flagged
  BY <1>1, <1>3, <1>4, Constants DEF Kinds, Quiet, Named, Serving, Flagged, NoJob
<1>11. RestartKeepsModel /\ ManifestNamesEngine
  <2>1. \A c \in Running : unit[c].profile = link[c]
    BY <1>5, <1>6 DEF Running
  <2>2. link["llamacpp"] = json /\ manifest.profile = p
    BY <1>1, <1>3
  <2>3. Stopped.profile \notin Diffusion
    BY Constants DEF Stopped
  <2>4. RestartKeepsModel
    BY <1>4, <1>7, <2>1, <2>2, <2>3 DEF RestartKeepsModel
  <2> QED
    BY <1>7, <2>2, <2>4 DEF ManifestNamesEngine
<1> QED
  BY <1>9, <1>10, <1>11 DEF ActiveInv

-----------------------------------------------------------------------------
(* Least counterexamples: what induction is used for here.                 *)

\* A set of numbers has a least.
LEMMA Least ==
    ASSUME NEW T, T \subseteq Nat, T # {}
    PROVE  \E x \in T : \A y \in T : x <= y
<1>1. PICK x \in T : \A y \in T : ~(<<y, x>> \in OpToRel(<, Nat))
  BY NatLessThanWellFounded, WFMin
<1>2. \A y \in T : ~(y < x)
  BY <1>1 DEF OpToRel
<1> QED
  BY <1>2

\* A function on 0..n is defined by its first value and its steps.
LEMMA StepsDefine ==
    ASSUME NEW S, NEW x \in S, NEW n \in Nat, NEW step \in [1..n -> [S -> S]]
    PROVE  \E f \in [0..n -> S] : f[0] = x /\ \A i \in 1..n : f[i] = step[i][f[i-1]]
<1> DEFINE Has(m) == \E f \in [0..m -> S] : f[0] = x /\ \A i \in 1..m : f[i] = step[i][f[i-1]]
           Bad == {m \in 0..n : ~Has(m)}
<1> SUFFICES ASSUME Bad # {} PROVE FALSE
  <2>1. n \in 0..n
    OBVIOUS
  <2>2. ~(n \in Bad) => Has(n)
    BY <2>1
  <2> HIDE DEF Bad
  <2> QED
    BY <2>2
<1>1. PICK m \in Bad : \A k \in Bad : m <= k
  <2>1. Bad \subseteq Nat
    OBVIOUS
  <2> HIDE DEF Bad
  <2> QED
    BY <2>1, Least
<1> m \in 0..n /\ ~Has(m)
  OBVIOUS
<1>2. CASE m = 0
  <2> DEFINE f == [i \in 0..0 |-> x]
  <2>1. f \in [0..0 -> S] /\ f[0] = x /\ 1..0 = {}
    OBVIOUS
  <2> HIDE DEF f
  <2>2. Has(0)
    BY <2>1
  <2> QED
    BY <1>2, <2>2
<1>3. CASE m > 0
  <2>0. m - 1 \in 0..n /\ ~(m <= m - 1)
    BY <1>3
  <2>1. m - 1 \in 0..n /\ m-1 \notin Bad
    <3> HIDE DEF Bad
    <3> QED
      BY <1>1, <2>0
  <2>2. PICK f \in [0..(m-1) -> S] : f[0] = x /\ \A i \in 1..(m-1) : f[i] = step[i][f[i-1]]
    BY <2>1
  <2> DEFINE y == step[m][f[m-1]]
             g == [i \in 0..m |-> IF i = m THEN y ELSE f[i]]
  <2>3. f[m-1] \in S /\ m \in 1..n
    BY <1>3, <2>1, <2>2
  <2>4. y \in S
    BY <2>3
  <2> HIDE DEF y
  <2>5. g \in [0..m -> S] /\ g[0] = x
    BY <1>3, <2>2, <2>4
  <2>6. \A i \in 1..m : g[i] = step[i][g[i-1]]
    <3> TAKE i \in 1..m
    <3>1. CASE i = m
      <4>1. g[m] = y /\ g[m-1] = f[m-1]
        BY <1>3
      <4> QED
        BY <3>1, <4>1 DEF y
    <3>2. CASE i < m
      BY <1>3, <3>2, <2>2
    <3> QED
      BY <3>1, <3>2, <2>3
  <2>7. Has(m)
    BY <2>5, <2>6
  <2> QED
    BY <2>7
<1> QED
  BY <1>2, <1>3, <1>1


\* The variants are keys, in the order of Depths.
LEMMA VariantsTyped ==
    ASSUME NEW l PROVE EnumerateSpecVariants(l) \in Seq(Keys)
<1> DEFINE n == Len(Depths)
           S == Seq(Keys)
           x == <<Off, Ngram>>
           put(i, s) == IF DepthAllowed(l, Depths[i]) THEN Append(s, Mtp(Depths[i])) ELSE s
           step == [i \in 1..n |-> [s \in S |-> put(i, s)]]
           upTo == CHOOSE g : g = [i \in 0..Len(Depths) |->
                      IF i = 0 THEN <<Off, Ngram>>
                      ELSE IF DepthAllowed(l, Depths[i]) THEN Append(g[i-1], Mtp(Depths[i])) ELSE g[i-1]]
<1>1. EnumerateSpecVariants(l) = upTo[Len(Depths)]
  BY Zenon DEF EnumerateSpecVariants
<1>2. n \in Nat /\ x \in S
  BY SweepAssumption DEF SweepAssumption, Keys
<1>3. \A i \in 1..n, s \in S : put(i, s) \in S
  BY SweepAssumption DEF SweepAssumption, Keys
<1>4. upTo = CHOOSE g : g = [i \in 0..n |-> IF i = 0 THEN x ELSE put(i, g[i-1])]
  BY Zenon
<1> HIDE DEF n, S, x, put, upTo
<1>5. step \in [1..n -> [S -> S]]
  BY <1>3
<1>6. \A i \in 1..n, s \in S : step[i][s] = put(i, s)
  OBVIOUS
<1> HIDE DEF step
<1>7. PICK f \in [0..n -> S] : f[0] = x /\ \A i \in 1..n : f[i] = step[i][f[i-1]]
  BY <1>2, <1>5, StepsDefine
<1>8. f = [i \in 0..n |-> IF i = 0 THEN x ELSE put(i, f[i-1])]
  <2>1. ASSUME NEW i \in 1..n PROVE f[i] = put(i, f[i-1])
    <3>1. i-1 \in 0..n
      BY <1>2
    <3>2. f[i-1] \in S
      BY <3>1
    <3> QED
      BY <1>6, <1>7, <3>2
  <2>2. \A i \in 0..n : i = 0 \/ i \in 1..n
    BY <1>2
  <2> QED
    BY <1>7, <2>1, <2>2
<1>9. upTo = [i \in 0..n |-> IF i = 0 THEN x ELSE put(i, upTo[i-1])]
  BY <1>4, <1>8, Zenon
<1>10. \A i \in 0..n : upTo[i] \in S
  <2> DEFINE Bad == {i \in 0..n : upTo[i] \notin S}
  <2> SUFFICES ASSUME Bad # {} PROVE FALSE
    OBVIOUS
  <2>1. PICK m \in Bad : \A k \in Bad : m <= k
    <3>1. Bad \subseteq Nat
      BY <1>2
    <3> HIDE DEF Bad
    <3> QED
      BY <3>1, Least
  <2>2. m = 0 \/ (m \in 1..n /\ m - 1 \in 0..n /\ ~(m <= m - 1))
    BY <1>2, <2>1
  <2>3. m # 0
    BY <1>2, <1>9, <2>1
  <2>4. upTo[m - 1] \in S /\ upTo[m] = put(m, upTo[m-1])
    BY <1>9, <2>1, <2>2, <2>3
  <2> QED
    BY <1>3, <2>1, <2>2, <2>3, <2>4
<1> QED
  BY <1>1, <1>2, <1>10 DEF n, S

-----------------------------------------------------------------------------
(* The sweep's own steps.                                                  *)

LEMMA StepsKeepJob ==
    ASSUME ActiveInv, NEW interactive \in BOOLEAN, Steps(interactive)
    PROVE  /\ job # NoJob /\ job'.profile = job.profile /\ job'.by = job.by /\ version' = version
<1>1. job \in JobSet
  BY TypedJob
<1>2. job.pc \in {"session", "stop", "env", "link", "json", "manifest", "start", "restore", "wait"}
  BY DEF Steps, CheckSession, StopRunning, WriteEnv, RefuseUnit, MoveLink, MoveJson, WriteStarting,
         Start, StartFails, StartTimesOut, Restore, Ready, Warming, GiveUp, Unconfirmed, At
<1>3. \/ \E s \in Phases : To(s)
      \/ \E ok \in BOOLEAN : Ends(ok)
      \/ job' = [job EXCEPT !.pc = "link", !.old = link["vllm"]]
      \/ \E s \in Phases, o \in {link["vllm"], link["llamacpp"]} : job' = [job EXCEPT !.pc = s, !.old = o]
  <2>1. CASE CheckSession \/ StopRunning \/ RefuseUnit \/ MoveJson \/ WriteStarting
    BY <2>1, Stages DEF CheckSession, StopRunning, RefuseUnit, MoveJson, WriteStarting, Fails
  <2>2. CASE WriteEnv
    BY <2>2 DEF WriteEnv, Fails
  <2>3. CASE MoveLink
    BY <2>3, Stages DEF MoveLink, Fails, BackendOf
  <2>4. CASE Start \/ StartFails \/ StartTimesOut \/ Restore
    BY <2>4, Stages DEF Start, StartFails, StartTimesOut, Restore, Fails
  <2>5. CASE Ready \/ Warming(interactive) \/ GiveUp \/ Unconfirmed
    BY <2>5 DEF Ready, Warming, GiveUp, Unconfirmed, Fails
  <2> QED
    BY <2>1, <2>2, <2>3, <2>4, <2>5 DEF Steps
<1>4. job'.profile = job.profile /\ job'.by = job.by
  BY <1>1, <1>3 DEF To, Ends, JobSet
<1>5. version' = version
  BY DEF Steps, CheckSession, StopRunning, WriteEnv, RefuseUnit, MoveLink, MoveJson, WriteStarting,
         Start, StartFails, StartTimesOut, Restore, Ready, Warming, GiveUp, Unconfirmed
<1> QED
  BY <1>2, <1>4, <1>5 DEF NoJob

LEMMA InvBegins == ASSUME Init PROVE Inv
<1>1. ActiveInv
  BY ActiveBegins DEF Init
<1>2. TypeOK
  <2>1. todo \in Seq(Keys) /\ runs \in 0..MaxRuns /\ measured \subseteq Cells
    BY SweepAssumption DEF Init, SweepAssumption
  <2>2. at = "idle" /\ load = Low /\ target = NoProfile
        /\ {failed, lost, meddled, astray} \subseteq BOOLEAN
    BY DEF Init
  <2> QED
    BY <1>1, <2>1, <2>2 DEF ActiveInv, TypeOK
<1>3. SweepInv
  BY Constants DEF Init, SweepInv, RowsAreTheirVariants, Mine
<1> QED
  BY <1>1, <1>2, <1>3 DEF Inv

LEMMA Todo ==
    ASSUME Inv, todo # <<>>
    PROVE  Variant \in Keys /\ Variant \in Profiles \ Llama /\ Tail(todo) \in Seq(Keys)
  BY Constants DEF Inv, TypeOK, Variant

LEMMA Fields == ASSUME Inv PROVE
    /\ session \in Users \cup {NoUser}
    /\ link["vllm"] \in (Profiles \cup {NoProfile}) \ Llama
    /\ failed \in BOOLEAN /\ lost \in BOOLEAN /\ meddled \in BOOLEAN /\ astray \in BOOLEAN
    /\ load \in {Low, High}
  BY DEF Inv, TypeOK, ActiveInv, ActiveTypeOK, Kinds, Backends

LEMMA BeginKeeps == ASSUME Inv, Begin PROVE Inv'
<1>1. /\ session' \in Users \cup {NoUser} /\ UNCHANGED <<config, version, unit, job, late>>
      /\ UNCHANGED <<load, measured, failed, lost, astray, runs>>
      /\ at = "idle" /\ at' = "variant" /\ target' = link["vllm"] /\ meddled' = (job # NoJob)
  BY Fields DEF Begin
<1>2. todo' \in Seq(Keys)
  BY VariantsTyped DEF Begin
<1>3. ActiveInv'
  BY <1>1 DEF Inv, ActiveInv, ActiveTypeOK, Kinds, Quiet, Named, Serving, Flagged, RestartKeepsModel,
              ManifestNamesEngine, Running, config
<1>4. TypeOK'
  BY <1>1, <1>2, <1>3, Fields DEF Inv, TypeOK, ActiveInv
<1>5. SweepInv'
  BY <1>1, Fields DEF Inv, SweepInv, RowsAreTheirVariants, Mine
<1> QED
  BY <1>3, <1>4, <1>5 DEF Inv

LEMMA LaunchVariantKeeps == ASSUME Inv, LaunchVariant PROVE Inv'
<1>1. /\ at = "variant" /\ todo # <<>>
      /\ UNCHANGED <<config, version, unit, session, late, target, measured, lost, meddled, astray, runs>>
  BY DEF LaunchVariant
<1>2. CASE job = NoJob /\ Launch(Me, Variant) /\ at' = "launching" /\ UNCHANGED <<todo, load, failed>>
  <2>1. ActiveInv'
    BY <1>1, <1>2, Todo, Fields, Constants, JobKeeps DEF Inv
  <2>2. job'.by = Me /\ job'.profile = Variant
    BY <1>2 DEF Launch
  <2>3. TypeOK'
    BY <1>1, <1>2, <2>1, <2>2 DEF Inv, TypeOK, ActiveInv
  <2>4. SweepInv'
    BY <1>1, <1>2, <2>2 DEF Inv, SweepInv, RowsAreTheirVariants, Mine, Variant
  <2> QED
    BY <2>1, <2>3, <2>4 DEF Inv
<1>3. CASE job # NoJob /\ VariantFails /\ UNCHANGED job
  <2>1. /\ failed' = TRUE /\ todo' = Tail(todo) /\ load' = Low /\ at' = "variant"
    BY <1>3 DEF VariantFails
  <2>2. ActiveInv'
    BY <1>1, <1>3 DEF Inv, ActiveInv, ActiveTypeOK, Kinds, Quiet, Named, Serving, Flagged,
       RestartKeepsModel, ManifestNamesEngine, Running, config
  <2>3. TypeOK'
    BY <1>1, <1>3, <2>1, <2>2, Todo DEF Inv, TypeOK, ActiveInv
  <2>4. SweepInv'
    BY <1>1, <1>3, <2>1 DEF Inv, SweepInv, RowsAreTheirVariants, Mine
  <2> QED
    BY <2>2, <2>3, <2>4 DEF Inv
<1> QED
  BY <1>2, <1>3 DEF LaunchVariant

\* What a launch that ended well has brought up.
LEMMA EndedWell ==
    ASSUME Inv, job.pc = "ended", job.ok, job.profile \notin Llama
    PROVE  unit["vllm"].profile = job.profile /\ link["vllm"] = job.profile
  BY DEF Inv, ActiveInv, Named, Serving, BackendOf

LEMMA LaunchReturnsKeeps == ASSUME Inv, LaunchReturns PROVE Inv'
<1>1. /\ at = "launching" /\ job.pc = "ended" /\ job' = NoJob
      /\ UNCHANGED <<config, version, unit, session, late, target, measured, lost, meddled, astray, runs>>
  BY DEF LaunchReturns, At
<1>2. ActiveInv'
  BY <1>1, Fields, JobKeeps DEF Inv
<1>3. todo # <<>> /\ job.profile = Variant
  BY <1>1 DEF Inv, SweepInv
<1>4. CASE job.ok /\ at' = "bench" /\ UNCHANGED <<todo, load, failed>>
  <2>1. unit["vllm"].profile = Variant /\ link["vllm"] = Variant
    BY <1>1, <1>3, <1>4, EndedWell, Todo
  <2>2. TypeOK'
    BY <1>1, <1>2, <1>4 DEF Inv, TypeOK, ActiveInv
  <2>3. SweepInv'
    BY <1>1, <1>3, <1>4, <2>1 DEF Inv, SweepInv, RowsAreTheirVariants, Mine, Variant, config
  <2> QED
    BY <1>2, <2>2, <2>3 DEF Inv
<1>5. CASE VariantFails
  <2>1. /\ failed' = TRUE /\ todo' = Tail(todo) /\ load' = Low /\ at' = "variant"
    BY <1>5 DEF VariantFails
  <2>2. TypeOK'
    BY <1>1, <1>2, <1>3, <2>1, Todo DEF Inv, TypeOK, ActiveInv
  <2>3. SweepInv'
    BY <1>1, <2>1 DEF Inv, SweepInv, RowsAreTheirVariants, Mine
  <2> QED
    BY <1>2, <2>2, <2>3 DEF Inv
<1> QED
  BY <1>4, <1>5 DEF LaunchReturns, Launched

\* The sweep alone moves, and not a launch.
LEMMA ActiveSame == ASSUME Inv, UNCHANGED acVars PROVE ActiveInv'
  BY DEF Inv, ActiveInv, ActiveTypeOK, Kinds, Quiet, Named, Serving, Flagged, RestartKeepsModel,
         ManifestNamesEngine, Running, acVars, config

LEMMA BenchKeeps == ASSUME Inv, Bench PROVE Inv'
<1>1. /\ at = "bench" /\ measured' = measured \cup {<<Variant, load>>}
      /\ astray' = (astray \/ unit["vllm"].profile # Variant)
      /\ UNCHANGED <<acVars, target, failed, lost, meddled, runs>>
      /\ \/ load' = High /\ UNCHANGED <<at, todo>>
         \/ load' = Low /\ todo' = Tail(todo) /\ at' = "variant"
  BY DEF Bench
<1>2. ActiveInv'
  BY <1>1, ActiveSame
<1>3. todo # <<>>
  BY <1>1 DEF Inv, SweepInv
<1>4. measured' \subseteq Cells /\ astray' \in BOOLEAN
  BY <1>1, <1>3, Todo, Fields DEF Inv, TypeOK, Cells
<1>5. TypeOK'
  BY <1>1, <1>2, <1>3, <1>4, Todo DEF Inv, TypeOK, ActiveInv, acVars
<1>6. ~meddled' => ~astray'
  BY <1>1 DEF Inv, SweepInv, RowsAreTheirVariants
<1>7. SweepInv'
  BY <1>1, <1>6 DEF Inv, SweepInv, RowsAreTheirVariants, Mine, Variant, acVars, config
<1> QED
  BY <1>2, <1>5, <1>7 DEF Inv

LEMMA BenchFailsKeeps == ASSUME Inv, BenchFails PROVE Inv'
<1>1. /\ at = "bench" /\ failed' = TRUE /\ todo' = Tail(todo) /\ load' = Low /\ at' = "variant"
      /\ UNCHANGED <<acVars, target, measured, lost, meddled, astray, runs>>
  BY DEF BenchFails, VariantFails
<1>2. ActiveInv' /\ todo # <<>>
  BY <1>1, ActiveSame DEF Inv, SweepInv
<1>3. TypeOK'
  BY <1>1, <1>2, Todo DEF Inv, TypeOK, ActiveInv, acVars
<1>4. SweepInv'
  BY <1>1 DEF Inv, SweepInv, RowsAreTheirVariants, Mine, acVars
<1> QED
  BY <1>2, <1>3, <1>4 DEF Inv

LEMMA LoopEndsKeeps == ASSUME Inv, LoopEnds PROVE Inv'
<1>1. /\ at = "variant" /\ at' = "finally"
      /\ UNCHANGED <<acVars, todo, load, target, measured, failed, lost, meddled, astray, runs>>
  BY DEF LoopEnds
<1>2. ActiveInv'
  BY <1>1, ActiveSame
<1>3. TypeOK'
  BY <1>1, <1>2 DEF Inv, TypeOK, ActiveInv, acVars
<1>4. SweepInv'
  BY <1>1 DEF Inv, SweepInv, RowsAreTheirVariants, Mine, acVars
<1> QED
  BY <1>2, <1>3, <1>4 DEF Inv

LEMMA FinallyKeeps == ASSUME Inv, Finally PROVE Inv'
<1>1. /\ at = "finally"
      /\ UNCHANGED <<config, version, unit, session, late, todo, load, target, measured, failed,
                     meddled, astray, runs>>
  BY DEF Finally
<1>2. CASE PutBack /\ job = NoJob /\ Launch(Me, target) /\ at' = "restoring" /\ UNCHANGED lost
  <2>1. target \in Profiles \ Llama
    BY <1>2 DEF PutBack, Inv, TypeOK, SweepInv
  <2>2. ActiveInv'
    BY <1>1, <1>2, <2>1, Fields, Constants, JobKeeps DEF Inv
  <2>3. job'.by = Me /\ job'.profile = target
    BY <1>2 DEF Launch
  <2>4. TypeOK'
    BY <1>1, <1>2, <2>2, <2>3 DEF Inv, TypeOK, ActiveInv
  <2>5. SweepInv'
    BY <1>1, <1>2, <2>1, <2>3 DEF Inv, SweepInv, RowsAreTheirVariants, Mine
  <2> QED
    BY <2>2, <2>4, <2>5 DEF Inv
<1>3. CASE UNCHANGED job /\ at' = "done" /\ ((~PutBack /\ lost' = lost) \/ lost' = TRUE)
  <2>1. ActiveInv'
    BY <1>1, <1>3, ActiveSame DEF acVars
  <2>2. TypeOK'
    BY <1>1, <1>3, <2>1 DEF Inv, TypeOK, ActiveInv
  <2>3. SweepInv'
    BY <1>1, <1>3 DEF Inv, SweepInv, RowsAreTheirVariants, Mine, PutBack
  <2> QED
    BY <2>1, <2>2, <2>3 DEF Inv
<1> QED
  BY <1>2, <1>3 DEF Finally

LEMMA RestoreReturnsKeeps == ASSUME Inv, RestoreReturns PROVE Inv'
<1>1. /\ at = "restoring" /\ job.pc = "ended" /\ job' = NoJob /\ lost' = ~job.ok /\ at' = "done"
      /\ UNCHANGED <<config, version, unit, session, late, todo, load, target, measured, failed,
                     meddled, astray, runs>>
  BY DEF RestoreReturns, At
<1>2. ActiveInv'
  BY <1>1, Fields, JobKeeps DEF Inv
<1>3. job.profile = target /\ target \notin Llama /\ job \in JobSet
  BY <1>1, TypedJob DEF Inv, SweepInv
<1>4. lost' \in BOOLEAN
  BY <1>1, <1>3 DEF JobSet
<1>5. TypeOK'
  BY <1>1, <1>2, <1>4 DEF Inv, TypeOK, ActiveInv
<1>6. ~lost' => unit'["vllm"].profile = target'
  BY <1>1, <1>3, EndedWell
<1>7. SweepInv'
  BY <1>1, <1>6 DEF Inv, SweepInv, RowsAreTheirVariants, Mine
<1> QED
  BY <1>2, <1>5, <1>7 DEF Inv

LEMMA InterruptKeeps == ASSUME Inv, NEW kill \in BOOLEAN, Interrupt(kill) PROVE Inv'
<1>1. /\ at \notin {"idle", "done", "gone"} /\ at' \in {"gone", "finally"}
      /\ job' = (IF Mine THEN NoJob ELSE job)
      /\ todo' = <<>> /\ load' = Low /\ measured' = {}
      /\ UNCHANGED <<config, version, unit, session, late, target, failed, lost, meddled, astray, runs>>
  BY DEF Interrupt
<1>2. ActiveInv'
  <2>1. CASE Mine
    BY <1>1, <2>1, Fields, JobKeeps DEF Inv
  <2>2. CASE ~Mine
    BY <1>1, <2>2, ActiveSame DEF acVars
  <2> QED
    BY <2>1, <2>2
<1>3. TypeOK'
  BY <1>1, <1>2 DEF Inv, TypeOK, ActiveInv
<1>4. SweepInv'
  BY <1>1 DEF Inv, SweepInv, RowsAreTheirVariants, Mine
<1> QED
  BY <1>2, <1>3, <1>4 DEF Inv

-----------------------------------------------------------------------------
(* Everybody else's.                                                       *)

LEMMA UserLaunchKeeps == ASSUME Inv, at \notin {"done", "gone"}, UserLaunch PROVE Inv'
<1>1. /\ runs < MaxRuns /\ runs' = runs + 1 /\ job = NoJob /\ meddled' = (at # "idle")
      /\ UNCHANGED <<config, version, unit, session, late, at, todo, load, target, measured, failed,
                     lost, astray>>
  BY DEF UserLaunch, sweepVars
<1>2. PICK u \in Users, p \in UserProfiles : Launch(u, p)
  BY DEF UserLaunch
<1>3. ActiveInv'
  BY <1>1, <1>2, Fields, Constants, JobKeeps DEF Inv
<1>4. ~Mine
  BY <1>1, Constants DEF Inv, TypeOK, Mine, NoJob
<1>5. runs' \in 0..MaxRuns
  BY <1>1, SweepAssumption DEF Inv, TypeOK, SweepAssumption
<1>6. TypeOK'
  BY <1>1, <1>3, <1>4, <1>5 DEF Inv, TypeOK, ActiveInv, Mine
<1>7. SweepInv'
  BY <1>1, <1>4 DEF Inv, SweepInv, RowsAreTheirVariants, Mine
<1> QED
  BY <1>3, <1>6, <1>7 DEF Inv

LEMMA UserDoneKeeps == ASSUME Inv, UserDone PROVE Inv'
<1>1. /\ job # NoJob /\ ~Mine /\ job' = NoJob
      /\ UNCHANGED <<config, version, unit, session, late, at, todo, load, target, measured, failed,
                     lost, astray, meddled, runs>>
  BY DEF UserDone, sweepVars
<1>2. ActiveInv'
  BY <1>1, Fields, JobKeeps DEF Inv
<1>3. TypeOK'
  BY <1>1, <1>2 DEF Inv, TypeOK, ActiveInv, Mine
<1>4. SweepInv'
  BY <1>1 DEF Inv, SweepInv, RowsAreTheirVariants, Mine, Variant, config
<1> QED
  BY <1>2, <1>3, <1>4 DEF Inv

LEMMA LaunchGoesOn ==
    ASSUME Inv, at \notin {"done", "gone"}, NEW interactive \in BOOLEAN, Steps(interactive),
           UNCHANGED <<sweepVars, meddled, runs>>
    PROVE  Inv'
<1>1. ActiveInv'
  BY StepsKeep DEF Inv
<1>2. job # NoJob /\ job'.profile = job.profile /\ job'.by = job.by
  BY StepsKeepJob DEF Inv
<1>3. UNCHANGED <<at, todo, load, target, measured, failed, lost, astray, meddled, runs>>
  BY DEF sweepVars
<1>4. TypeOK'
  BY <1>1, <1>2, <1>3 DEF Inv, TypeOK, ActiveInv
<1>5. SweepInv'
  BY <1>2, <1>3 DEF Inv, SweepInv, RowsAreTheirVariants, Mine, Variant
<1> QED
  BY <1>1, <1>4, <1>5 DEF Inv

LEMMA EngineRestarts ==
    ASSUME Inv, at \notin {"done", "gone"}, NEW b \in Backends, AutoRestart(b),
           UNCHANGED <<sweepVars, meddled, runs>>
    PROVE  Inv'
<1>1. ActiveInv'
  BY AutoRestartKeeps DEF Inv
<1>2. UNCHANGED <<at, todo, load, target, measured, failed, lost, astray, meddled, runs, job, config>>
  BY DEF sweepVars, AutoRestart
<1>3. TypeOK'
  BY <1>1, <1>2 DEF Inv, TypeOK, ActiveInv
<1>4. at = "bench" /\ ~meddled => unit'["vllm"].profile = Variant
  <2>1. at = "bench" /\ ~meddled =>
           unit["vllm"].profile = Variant /\ link["vllm"] = Variant /\ todo # <<>>
    BY DEF Inv, SweepInv
  <2>2. at = "bench" /\ ~meddled => link["vllm"] # NoProfile
    BY <2>1, Todo, Constants
  <2>3. /\ unit \in [Backends -> [profile : Profiles \cup {NoProfile}, flags : SUBSET {MoeFp4, RunnerV2}]]
        /\ unit' = [unit EXCEPT ![b] = IF link[b] = NoProfile THEN Stopped ELSE Reads(b)]
    BY DEF AutoRestart, Inv, ActiveInv, ActiveTypeOK
  <2>4. CASE b = "vllm"
    BY <2>1, <2>2, <2>3, <2>4 DEF Reads
  <2>5. CASE b # "vllm"
    BY <2>1, <2>3, <2>5 DEF Backends
  <2> QED
    BY <2>4, <2>5
<1>5. SweepInv'
  BY <1>2, <1>4 DEF Inv, SweepInv, RowsAreTheirVariants, Mine, Variant, config
<1> QED
  BY <1>1, <1>3, <1>5 DEF Inv

LEMMA RuntimeUpgrades ==
    ASSUME Inv, Upgrade, UNCHANGED <<sweepVars, meddled, runs>> PROVE Inv'
<1>1. ActiveInv'
  BY UpgradeKeeps DEF Inv
<1>2. UNCHANGED <<at, todo, load, target, measured, failed, lost, astray, meddled, runs, job, config, unit>>
  BY DEF sweepVars, Upgrade
<1>3. TypeOK'
  BY <1>1, <1>2 DEF Inv, TypeOK, ActiveInv
<1>4. SweepInv'
  BY <1>2 DEF Inv, SweepInv, RowsAreTheirVariants, Mine, Variant, config
<1> QED
  BY <1>1, <1>3, <1>4 DEF Inv

LEMMA NextKeeps == ASSUME Inv, Next PROVE Inv'
<1>1. at \notin {"done", "gone"} /\ (~Mine) \in BOOLEAN
  BY DEF Next
<1>2. CASE \/ Begin \/ LaunchVariant \/ LaunchReturns \/ Bench \/ BenchFails \/ LoopEnds
           \/ Finally \/ RestoreReturns \/ \E kill \in BOOLEAN : Interrupt(kill)
  BY <1>2, BeginKeeps, LaunchVariantKeeps, LaunchReturnsKeeps, BenchKeeps, BenchFailsKeeps,
     LoopEndsKeeps, FinallyKeeps, RestoreReturnsKeeps, InterruptKeeps
<1>3. CASE UserLaunch \/ UserDone
  BY <1>1, <1>3, UserLaunchKeeps, UserDoneKeeps
<1>4. CASE Steps(~Mine) /\ UNCHANGED <<sweepVars, meddled, runs>>
  BY <1>1, <1>4, LaunchGoesOn
<1>5. CASE (\E b \in Backends : AutoRestart(b)) /\ UNCHANGED <<sweepVars, meddled, runs>>
  BY <1>1, <1>5, EngineRestarts
<1>6. CASE Upgrade /\ UNCHANGED <<sweepVars, meddled, runs>>
  BY <1>6, RuntimeUpgrades
<1> QED
  BY <1>2, <1>3, <1>4, <1>5, <1>6 DEF Next

LEMMA StutterKeeps == ASSUME Inv, UNCHANGED vars PROVE Inv'
<1>1. UNCHANGED acVars /\ UNCHANGED <<at, todo, load, target, measured, failed, lost, astray, meddled, runs>>
  BY DEF vars, sweepVars
<1>2. ActiveInv'
  BY <1>1, ActiveSame
<1>3. TypeOK'
  BY <1>1, <1>2 DEF Inv, TypeOK, ActiveInv, acVars
<1>4. SweepInv'
  BY <1>1 DEF Inv, SweepInv, RowsAreTheirVariants, Mine, Variant, acVars, config
<1> QED
  BY <1>2, <1>3, <1>4 DEF Inv

LEMMA InvHolds == Spec => []Inv
<1>1. Init => Inv
  BY InvBegins
<1>2. Inv /\ [Next]_vars => Inv'
  BY NextKeeps, StutterKeeps
<1> QED
  BY <1>1, <1>2, PTL DEF Spec

-----------------------------------------------------------------------------
(* recommend_variant.                                                      *)

\* Of finitely many things with a number one has the greatest.
LEMMA GreatestOf ==
    ASSUME NEW S, IsFiniteSet(S), S # {}, NEW f \in [S -> Int]
    PROVE  \E x \in S : \A y \in S : f[y] <= f[x]
<1> DEFINE Has(T) == \E x \in T : \A y \in T : f[y] <= f[x]
           Bad == {T \in SUBSET S : T # {} /\ ~Has(T)}
<1> SUFFICES ASSUME Bad # {} PROVE FALSE
  OBVIOUS
<1>1. Bad \subseteq FiniteSubsetsOf(S)
  BY FS_FiniteSubsetsOfFinite
<1>2. PICK T \in Bad : \A U \in Bad : ~(<<U, T>> \in StrictSubsetOrdering(S))
  <2> HIDE DEF Bad
  <2> QED
    BY <1>1, FS_StrictSubsetOrderingWellFounded, WFMin
<1>3. PICK x \in T : TRUE
  OBVIOUS
<1>4. T \ {x} \notin Bad
  <2>1. <<T \ {x}, T>> \in StrictSubsetOrdering(S)
    BY <1>3 DEF StrictSubsetOrdering
  <2> QED
    BY <1>2, <2>1
<1>5. CASE T \ {x} = {}
  <2>1. T = {x}
    BY <1>3, <1>5
  <2> QED
    BY <2>1
<1>6. CASE Has(T \ {x})
  <2>1. PICK z \in T \ {x} : \A y \in T \ {x} : f[y] <= f[z]
    BY <1>6
  <2>2. \A y \in T : f[y] \in Int
    OBVIOUS
  <2>3. CASE f[x] <= f[z]
    <3>1. \A y \in T : f[y] <= f[z]
      BY <2>1, <2>3
    <3> QED
      BY <2>1, <3>1
  <2>4. CASE ~(f[x] <= f[z])
    <3>1. \A y \in T : f[y] <= f[x]
      BY <2>1, <2>2, <2>4, <1>3
    <3> QED
      BY <1>3, <3>1
  <2> QED
    BY <2>3, <2>4
<1> QED
  BY <1>4, <1>5, <1>6

LEMMA KeysFinite == IsFiniteSet(Keys)
<1> DEFINE name == [i \in DOMAIN Depths |-> Mtp(Depths[i])]
<1>1. IsFiniteSet(DOMAIN Depths)
  BY FS_Interval, SweepAssumption DEF SweepAssumption
<1> DEFINE named == {Mtp(Depths[i]) : i \in DOMAIN Depths}
<1>2. name \in Surjection(DOMAIN Depths, named)
  BY DEF Surjection
<1>3. IsFiniteSet(named)
  <2> HIDE DEF name, named
  <2> QED
    BY <1>1, <1>2, FS_Surjection
<1>4. IsFiniteSet({Off} \cup named)
  <2> HIDE DEF named
  <2> QED
    BY <1>3, FS_AddElement
<1>5. IsFiniteSet({Ngram} \cup ({Off} \cup named))
  <2> HIDE DEF named
  <2> QED
    BY <1>4, FS_AddElement
<1>6. Keys = {Ngram} \cup ({Off} \cup named)
  BY DEF Keys
<1> QED
  BY <1>5, <1>6

\* All but two keys are depths.
LEMMA KeyDepth ==
    ASSUME NEW v \in Keys, v # Off, v # Ngram
    PROVE  v[2] \in Nat
  BY SweepAssumption DEF SweepAssumption, Keys, Mtp

\* The recommendation is one of the best of the good, when there is a good one.
LEMMA RecommendedIsBest ==
    ASSUME NEW D, D \subseteq Cells, NEW t \in [D -> Tps],
           NEW good, good = {v \in Keys \ {Off} : <<v, Low>> \in DOMAIN t /\ Enough(t, v) /\ ~Regresses(t, v)}
    PROVE  /\ good = {} => Recommended(t) = Off
           /\ good # {} => Recommended(t) \in good /\ \A w \in good : Gain(t, w, Low) <= Gain(t, Recommended(t), Low)
<1> DEFINE best == {v \in good : \A w \in good : Gain(t, w, Low) <= Gain(t, v, Low)}
           least == CHOOSE v \in best : \A w \in best : v[2] <= w[2]
<1>1. Recommended(t) = IF good = {} THEN Off ELSE IF Ngram \in best THEN Ngram ELSE least
  <2> DEFINE g == {v \in Keys \ {Off} : <<v, Low>> \in DOMAIN t /\ Enough(t, v) /\ ~Regresses(t, v)}
             b == {v \in g : \A w \in g : Gain(t, w, Low) <= Gain(t, v, Low)}
  <2>1. Recommended(t) = IF g = {} THEN Off
                         ELSE IF Ngram \in b THEN Ngram ELSE CHOOSE v \in b : \A w \in b : v[2] <= w[2]
    BY Zenon DEF Recommended
  <2>2. g = good
    OBVIOUS
  <2> HIDE DEF g
  <2>3. b = best
    BY <2>2
  <2> HIDE DEF b, best
  <2> QED
    BY <2>1, <2>2, <2>3
<1>2. ASSUME good # {} PROVE best # {}
  <2> DEFINE f == [v \in good |-> Gain(t, v, Low)]
  <2>1. good \subseteq Keys
    OBVIOUS
  <2>2. IsFiniteSet(good)
    BY <2>1, KeysFinite, FS_Subset
  <2>3. \A v \in good : <<v, Low>> \in D
    OBVIOUS
  <2>4. \A c \in D : t[c] \in Nat
    BY SweepAssumption DEF SweepAssumption
  <2>5. \A v \in good : Gain(t, v, Low) \in Int
    BY <2>3, <2>4 DEF Gain
  <2>6. f \in [good -> Int]
    BY <2>5
  <2> HIDE DEF f
  <2>7. PICK x \in good : \A y \in good : f[y] <= f[x]
    BY <1>2, <2>2, <2>6, GreatestOf
  <2> QED
    BY <2>7 DEF f
<1>3. ASSUME good # {}, Ngram \notin best PROVE least \in best
  <2> DEFINE T == {v[2] : v \in best}
  <2>0. \A v \in best : v \in Keys /\ v # Off /\ v # Ngram
    BY <1>3
  <2>1. \A v \in best : v[2] \in Nat
    <3> HIDE DEF best
    <3> QED
      BY <2>0, KeyDepth
  <2> HIDE DEF best
  <2>2. T \subseteq Nat /\ T # {}
    BY <1>2, <1>3, <2>1
  <2>3. PICK n \in T : \A m \in T : n <= m
    <3> HIDE DEF T
    <3> QED
      BY <2>2, Least
  <2>4. PICK v \in best : v[2] = n
    BY <2>3
  <2>5. \A w \in best : v[2] <= w[2]
    BY <2>3, <2>4
  <2> QED
    BY <2>5, Zenon
<1>4. ASSUME good # {} PROVE Recommended(t) \in best
  <2> HIDE DEF best, least
  <2> QED
    BY <1>1, <1>3, <1>4
<1> QED
  BY <1>1, <1>4

LEMMA Recommends ==
    ASSUME NEW D, D \subseteq Cells, NEW t \in [D -> Tps],
           \A v \in Keys : <<v, Low>> \in D => <<v, High>> \in D
    PROVE  LET r == Recommended(t)
           IN /\ r # Off => HeldUp(t, r)
              /\ \A v \in Keys \ {Off} : HeldUp(t, v) /\ t[<<v, Low>>] > t[<<Off, Low>>] /\ t[<<Off, Low>>] > 0
                     => r # Off /\ t[<<r, Low>>] >= t[<<v, Low>>]
<1> DEFINE good == {v \in Keys \ {Off} : <<v, Low>> \in DOMAIN t /\ Enough(t, v) /\ ~Regresses(t, v)}
           r == Recommended(t)
<1>1. /\ good = {} => r = Off
      /\ good # {} => r \in good /\ \A w \in good : Gain(t, w, Low) <= Gain(t, r, Low)
  BY RecommendedIsBest
<1>2. \A c \in D : t[c] \in Nat
  BY SweepAssumption DEF SweepAssumption
<1>3. DOMAIN t = D
  OBVIOUS
<1> HIDE DEF r
<1>4. ASSUME r # Off PROVE HeldUp(t, r)
  <2>1. r \in Keys /\ <<r, Low>> \in D /\ Enough(t, r) /\ ~Regresses(t, r)
    BY <1>1, <1>3, <1>4
  <2>2. <<r, High>> \in D
    BY <2>1
  <2>3. <<Off, Low>> \in D /\ 100 * t[<<r, Low>>] >= 105 * t[<<Off, Low>>]
    BY <1>2, <1>3, <2>1 DEF Enough, Gain
  <2>4. <<Off, High>> \in D => t[<<r, High>>] >= t[<<Off, High>>]
    BY <1>2, <1>3, <2>1, <2>2 DEF Regresses, Gain
  <2> QED
    BY <1>3, <2>1, <2>2, <2>3, <2>4 DEF HeldUp
<1>5. ASSUME NEW v \in Keys \ {Off}, HeldUp(t, v), t[<<v, Low>>] > t[<<Off, Low>>], t[<<Off, Low>>] > 0
      PROVE  r # Off /\ t[<<r, Low>>] >= t[<<v, Low>>]
  <2>1. <<v, Low>> \in D /\ <<Off, Low>> \in D /\ <<v, High>> \in D
    BY <1>3, <1>5 DEF HeldUp
  <2>2. Enough(t, v)
    BY <1>2, <1>3, <1>5, <2>1 DEF Enough, Gain, HeldUp
  <2>3. ~Regresses(t, v)
    BY <1>2, <1>3, <1>5, <2>1 DEF Regresses, Gain, HeldUp
  <2>4. v \in good
    BY <1>3, <2>1, <2>2, <2>3
  <2>5. r \in Keys \ {Off} /\ <<r, Low>> \in D /\ Gain(t, v, Low) <= Gain(t, r, Low)
    BY <1>1, <1>3, <2>4
  <2>6. 100 * (t[<<v, Low>>] - t[<<Off, Low>>]) <= 100 * (t[<<r, Low>>] - t[<<Off, Low>>])
    BY <1>3, <1>5, <2>1, <2>5 DEF Gain
  <2> QED
    BY <1>2, <2>1, <2>5, <2>6
<1> QED
  BY <1>4, <1>5 DEF r

-----------------------------------------------------------------------------
(* What holds of every launch and of every sweep.                          *)

\* Every field of every step has its type; the sweep's own launches are marked as its user's.
THEOREM SweepTypeCorrect == Spec => []TypeOK
<1>1. Inv => TypeOK
  BY DEF Inv
<1> QED
  BY <1>1, InvHolds, PTL

\* A crash and a restart by systemd bring up the same profile, with the flag
\* a diffusion model needs (start_vllm, LlamaCppBackend.start, _upsert_env_file).
THEOREM RestartKeepsModelHolds == Spec => []RestartKeepsModel
<1>1. Inv => RestartKeepsModel
  BY DEF Inv, ActiveInv
<1> QED
  BY <1>1, InvHolds, PTL

\* The manifest names the vLLM profile that runs, also after a killed launch
\* (_record_backend_manifest before _systemctl("start") in start_vllm).
THEOREM ManifestNamesEngineHolds == Spec => []ManifestNamesEngine
<1>1. Inv => ManifestNamesEngine
  BY DEF Inv, ActiveInv
<1> QED
  BY <1>1, InvHolds, PTL

\* The finally of _run_spec_sweep: the profile is back or the user was told.
THEOREM RestoredHolds == Spec => []RestoredOrSaid
<1>1. Inv => RestoredOrSaid
  BY DEF Inv, SweepInv, RestoredOrSaid
<1> QED
  BY <1>1, InvHolds, PTL

\* No row of the table was measured on another variant's engine
\* (_run_spec_sweep benchmarks only what its launch brought up).
THEOREM RowsHold == Spec => []RowsAreTheirVariants
<1>1. Inv => RowsAreTheirVariants
  BY DEF Inv, SweepInv
<1> QED
  BY <1>1, InvHolds, PTL

\* recommend_variant: what is recommended beat the baseline under the low
\* load and held up under the high one, and nothing that did gained more.
THEOREM RecommendedHolds == Spec => []RecommendedHeldUpIfMeasured
<1>1. Inv => RecommendedHeldUpIfMeasured
  <2> SUFFICES ASSUME Inv, \A v \in Keys : <<v, Low>> \in measured => <<v, High>> \in measured,
                      NEW t \in Tables
               PROVE  LET r == Recommended(t)
                      IN /\ r # Off => HeldUp(t, r)
                         /\ \A v \in Keys \ {Off} :
                               HeldUp(t, v) /\ t[<<v, Low>>] > t[<<Off, Low>>] /\ t[<<Off, Low>>] > 0
                               => r # Off /\ t[<<r, Low>>] >= t[<<v, Low>>]
    BY DEF RecommendedHeldUpIfMeasured
  <2>1. measured \subseteq Cells /\ t \in [measured -> Tps]
    BY DEF Inv, TypeOK, Tables
  <2> QED
    BY <2>1, Recommends
<1> QED
  BY <1>1, InvHolds, PTL
=============================================================================
