---------------------------- MODULE ActiveConfig ----------------------------
(***************************************************************************)
(* What a launch leaves for systemd (src/vserve/serve.py, LlamaCppBackend.  *)
(* start, _launch_backend in src/vserve/cli.py): the link to the active    *)
(* profile, the flags in the environment file, the manifest.  A unit reads *)
(* the link and the flags when systemd starts it, and again whenever       *)
(* systemd restarts it after a crash.                                      *)
(*                                                                         *)
(* A launch holds the GPU lock from its first step to its last, so there   *)
(* is one at a time; between launches anybody may launch.  The session     *)
(* marker is reduced to the user it names (GpuSession has its files).      *)
(***************************************************************************)
EXTENDS Naturals, FiniteSets

CONSTANTS Profiles,   \* what can be launched
          Llama,      \* those of llama.cpp; the others are vLLM's
          Quantized,  \* those of an NVFP4 checkpoint
          Diffusion,  \* those of a block-diffusion model
          Installed,  \* what kind of vLLM may be there at first
          NoProfile,
          Users, NoUser

ASSUME ProfilesAssumption ==
    /\ Llama \cup Quantized \cup Diffusion \subseteq Profiles
    /\ Llama \cap (Quantized \cup Diffusion) = {}
    /\ Installed \subseteq {"old", "new", "unknown"}
    /\ NoProfile \notin Profiles /\ NoUser \notin Users

VARIABLES
    link,      \* per backend, the target of active.yaml or active.sh
    json,      \* the target of llama.cpp's active.json
    flags,     \* the model-specific variables in vLLM's environment file
    version,   \* the installed vLLM: before 0.22, from 0.22 on, or not known
    manifest,  \* vLLM's active manifest: a profile and how its launch stands
    unit,      \* per backend, what runs: a profile and the flags it read
    session,   \* the user the session marker names
    job,       \* the launch under way
    late       \* a start reported as failed did start the unit (history)

config == <<link, json, flags, manifest>>
acVars == <<config, version, unit, session, job, late>>

Backends == {"vllm", "llamacpp"}
BackendOf(p) == IF p \in Llama THEN "llamacpp" ELSE "vllm"

MoeFp4 == "VLLM_USE_FLASHINFER_MOE_FP4"
RunnerV2 == "VLLM_USE_V2_MODEL_RUNNER"

Stopped == [profile |-> NoProfile, flags |-> {}]
Running == {b \in Backends : unit[b] # Stopped}
NoJob   == [pc |-> "none", by |-> NoUser, profile |-> NoProfile, old |-> NoProfile, ok |-> FALSE]

Phases == {"session", "stop", "env", "link", "json", "manifest", "start", "restore", "wait", "ended"}

ActiveTypeOK ==
    /\ link \in [Backends -> Profiles \cup {NoProfile}]
    /\ json \in Profiles \cup {NoProfile}
    /\ flags \subseteq {MoeFp4, RunnerV2}
    /\ version \in {"old", "new", "unknown"}
    /\ manifest.profile \in Profiles \cup {NoProfile}
    /\ unit \in [Backends -> [profile : Profiles \cup {NoProfile}, flags : SUBSET {MoeFp4, RunnerV2}]]
    /\ session \in Users \cup {NoUser}
    /\ job \in [pc : Phases \cup {"none"}, by : Users \cup {NoUser}, profile : Profiles \cup {NoProfile},
                old : Profiles \cup {NoProfile}, ok : BOOLEAN]

-----------------------------------------------------------------------------
(* The parts of start_vllm and LlamaCppBackend.start.                      *)

\* _resolve_quant_envs: nothing on a vLLM known to be 0.22 or later.
ResolveQuantEnvs(p) == IF p \in Quantized /\ version # "new" THEN {MoeFp4} ELSE {}

\* _resolve_model_runtime_envs
ResolveModelRuntimeEnvs(p) == IF p \in Diffusion THEN {RunnerV2} ELSE {}

\* _upsert_env_file: lines are updated or added, none is removed.
Upsert(p) == flags' = flags \cup ResolveQuantEnvs(p) \cup ResolveModelRuntimeEnvs(p)

At(pc) == job.pc = pc
To(pc) == job' = [job EXCEPT !.pc = pc]
Ends(ok) == job' = [job EXCEPT !.pc = "ended", !.ok = ok]
Fails == Ends(FALSE)

\* _record_backend_manifest (only vLLM's file is modelled)
Record(p, status) ==
    manifest' = IF p \in Llama THEN manifest ELSE [profile |-> p, status |-> status]

\* What systemd runs: the profile behind the link, with the flags as they are.
Reads(b) == [profile |-> link[b], flags |-> IF b = "vllm" THEN flags ELSE {}]

\* A quiet machine: what runs was launched, by a user of the machine, with
\* the flags it needs.
ActiveInit(first) ==
    \E p \in (first \ Llama) \cup {NoProfile}, q \in (first \cap Llama) \cup {NoProfile} :
        /\ version \in Installed /\ job = NoJob /\ late = FALSE
        /\ link = [b \in Backends |-> IF b = "vllm" THEN p ELSE q] /\ json = q
        /\ manifest = [profile |-> p, status |-> "ready"]
        /\ flags = ResolveQuantEnvs(p) \cup ResolveModelRuntimeEnvs(p)
        /\ \E b \in Backends \cup {"neither"} :
              /\ b \in Backends => link[b] # NoProfile
              /\ unit = [c \in Backends |-> IF c = b THEN Reads(c) ELSE Stopped]
              /\ session \in (IF b \in Backends THEN Users ELSE {NoUser})

-----------------------------------------------------------------------------
(* One launch, a step at a time.                                           *)

\* _lock_or_exit("gpu", ...): the caller of a launch has the lock now.
Launch(u, p) ==
    job' = [pc |-> "session", by |-> u, profile |-> p, old |-> NoProfile, ok |-> FALSE]

\* _session_or_exit: nobody's engine, or one's own; the marker is removed
\* when nothing runs.
CheckSession ==
    /\ At("session")
    /\ session' = IF Running = {} THEN NoUser ELSE session
    /\ IF Running = {} \/ session = job.by THEN To("stop") ELSE Fails
    /\ UNCHANGED <<config, version, unit, late>>

\* The running backends are stopped; a stop that fails, or whose effect is not
\* seen within 30 s, ends the launch.
StopRunning ==
    /\ At("stop")
    /\ \E halted \in SUBSET Running :
          /\ unit' = [b \in Backends |-> IF b \in halted THEN Stopped ELSE unit[b]]
          /\ \/ halted = Running /\ To(IF job.profile \in Llama THEN "link" ELSE "env")
             \/ Running # {} /\ Fails
    /\ UNCHANGED <<config, version, session, late>>

\* start_vllm takes the snapshot, writes the environment file, and refuses a
\* unit that does not read it.
WriteEnv ==
    /\ At("env")
    /\ Upsert(job.profile)
    /\ \/ job' = [job EXCEPT !.pc = "link", !.old = link["vllm"]] /\ UNCHANGED manifest
       \/ Fails /\ Record(job.profile, "failed")
    /\ UNCHANGED <<link, json, version, unit, session, late>>

\* llama.cpp's start looks at the unit first: not vserve's, not started.
RefuseUnit ==
    /\ At("link") /\ job.profile \in Llama /\ Fails
    /\ UNCHANGED <<config, version, unit, session, late>>

\* _update_active_symlink: the old link is removed first, and an error after
\* that is not repaired.
MoveLink ==
    LET b == BackendOf(job.profile)
    IN /\ At("link")
       /\ \/ /\ link' = [link EXCEPT ![b] = job.profile]
             /\ job' = [job EXCEPT !.pc = IF b = "vllm" THEN "manifest" ELSE "json", !.old = link[b]]
             /\ UNCHANGED manifest
          \/ /\ link' = [link EXCEPT ![b] = NoProfile]
             /\ Fails /\ Record(job.profile, "failed")
       /\ UNCHANGED <<json, flags, version, unit, session, late>>

\* llama.cpp has a second link, to the JSON profile.
MoveJson ==
    /\ At("json") /\ json' = job.profile /\ To("start")
    /\ UNCHANGED <<link, flags, manifest, version, unit, session, late>>

\* A change of WriteStarting: the manifest is written only when the API answers.
StartingUnwritten ==
    /\ At("manifest") /\ To("start") /\ UNCHANGED <<config, version, unit, session, late>>
WriteStarting ==
    /\ At("manifest") /\ Record(job.profile, "starting") /\ To("start")
    /\ UNCHANGED <<link, json, flags, version, unit, session, late>>

\* systemctl start succeeds; the launch marks the session and waits.
Start ==
    LET b == BackendOf(job.profile)
    IN /\ At("start")
       /\ unit' = [unit EXCEPT ![b] = Reads(b)]
       /\ session' = job.by /\ To("wait")
       /\ UNCHANGED <<config, version, late>>

\* systemctl start fails: both links go back.
StartFails == At("start") /\ To("restore") /\ UNCHANGED <<config, version, unit, session, late>>

\* systemctl start takes over 30 s and the unit comes up all the same.  For
\* vLLM that is a failure like any other; in llama.cpp's start the exception
\* passes the restoring code.
StartTimesOut ==
    LET b == BackendOf(job.profile)
    IN /\ At("start")
       /\ unit' = [unit EXCEPT ![b] = Reads(b)]
       /\ late' = TRUE
       /\ IF b = "vllm" THEN To("restore") ELSE Fails
       /\ UNCHANGED <<config, version, session>>

\* _restore_active_config, _restore_active_links, which may fail half-way;
\* then the manifest says "failed".
Restore ==
    LET b == BackendOf(job.profile)
    IN /\ At("restore")
       /\ \E to \in {job.old, NoProfile} :
             /\ link' = [link EXCEPT ![b] = to]
             /\ json' = IF b = "llamacpp" THEN to ELSE json
       /\ Record(job.profile, "failed")
       /\ Fails /\ UNCHANGED <<flags, version, unit, session, late>>

\* The API answered.
Ready ==
    /\ At("wait") /\ Record(job.profile, "ready") /\ Ends(TRUE)
    /\ UNCHANGED <<link, json, flags, version, unit, session, late>>

\* Not within the time, but the unit is active: an error unless somebody is
\* at the terminal.
Warming(interactive) ==
    /\ At("wait") /\ Record(job.profile, "warming") /\ Ends(interactive)
    /\ UNCHANGED <<link, json, flags, version, unit, session, late>>

\* A change of GiveUp: the previous profile is linked again.
GiveUpLink(b) == link' = [link EXCEPT ![b] = job.old]
KeepLink(b) == link' = link
\* Stopped, crash-looping or timed out: the session ends and the unit is
\* stopped, if that succeeds.  The link stays.
GiveUp ==
    LET b == BackendOf(job.profile)
    IN /\ At("wait")
       /\ session' = NoUser
       /\ unit' \in {unit, [unit EXCEPT ![b] = Stopped]}
       /\ KeepLink(b)
       /\ Record(job.profile, "failed") /\ Fails
       /\ UNCHANGED <<json, flags, version, late>>

\* Whether the unit runs could not be told.
Unconfirmed ==
    /\ At("wait") /\ Record(job.profile, "failed") /\ Fails
    /\ UNCHANGED <<link, json, flags, version, unit, session, late>>

Steps(interactive) ==
    \/ CheckSession \/ StopRunning \/ WriteEnv \/ RefuseUnit \/ MoveLink \/ MoveJson \/ WriteStarting
    \/ Start \/ StartFails \/ StartTimesOut \/ Restore
    \/ Ready \/ Warming(interactive) \/ GiveUp \/ Unconfirmed

-----------------------------------------------------------------------------
(* The world outside.                                                      *)

\* An engine crashes and systemd (Restart=on-failure) starts it again.
AutoRestart(b) ==
    /\ unit[b] # Stopped
    /\ unit' = [unit EXCEPT ![b] = IF link[b] = NoProfile THEN Stopped ELSE Reads(b)]
    /\ UNCHANGED <<config, version, session, job, late>>

\* `vserve runtime upgrade`, which wants no engine (VllmRuntime).
Upgrade ==
    /\ version = "old" /\ Running = {} /\ job = NoJob
    /\ version' = "new"
    /\ UNCHANGED <<config, unit, session, job, late>>

-----------------------------------------------------------------------------
\* What runs is what the links name, so that a crash does not change the
\* model: the links move only while nothing runs, and back only when nothing
\* was started (start_vllm, LlamaCppBackend.start).  A start that timed out
\* and succeeded is the exception, by _restore_active_config.  And it has the
\* flags it cannot do without: the file has them before the unit reads it, in
\* every order of launches, failures and restarts (_upsert_env_file precedes
\* _systemctl("start") in start_vllm).
RestartKeepsModel ==
    /\ \A b \in Running : ~late => /\ link[b] = unit[b].profile
                                   /\ b = "llamacpp" => json = unit[b].profile
    /\ unit["vllm"].profile \in Diffusion => RunnerV2 \in unit["vllm"].flags

\* The manifest that `status` and `bench` trust names the running vLLM's
\* profile even if the launch was killed, because start_vllm writes it
\* before systemctl start.
ManifestNamesEngine ==
    LET e == unit["vllm"] IN e # Stopped /\ ~late => manifest.profile = e.profile

\* "On a KNOWN >=0.22 runtime emit nothing" (serve.py:214): a vLLM that is
\* 0.22 or later does not get the deprecated flag.  _upsert_env_file leaves
\* the line an older vLLM's launch wrote.
NoDeprecatedFlag ==
    version = "new" => MoeFp4 \notin unit["vllm"].flags
=============================================================================
