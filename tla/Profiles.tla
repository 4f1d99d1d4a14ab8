------------------------------ MODULE Profiles -------------------------------
(* From a command line to a profile: how `vserve run`, its wizard, `vserve   *)
(* tune` and `vserve add` resolve the GPU memory utilization, find or        *)
(* compute the model's capacity table (the limits file), and write the       *)
(* profile a launch reads (cli.py).                                          *)
(*                                                                           *)
(* One model is followed (model); limits files and profiles are per model,   *)
(* and the others matter as MTP variants and drafts only.  Its files have    *)
(* revisions: fetching the model again makes the next one.  What the         *)
(* fingerprint of a table lists of the files is a number (listed): paths,    *)
(* sizes and times of weights and index files, the chat template, the GGUF   *)
(* headers.  config.json is not among it.  GPU and driver do not change.     *)
EXTENDS VllmProfile, LlamaProfile

CONSTANTS
    Procs,          \* terminals
    Commands,       \* [Procs -> [Models -> what is typed there about the model]]
    Attr,           \* [Models -> [revision -> what the files tell]]
    Followed,       \* the models one of which is followed
    Configs,        \* gpu.memory_utilization and gpu.overhead_gb: [util, overhead]
    Versions,       \* of vLLM; None where it cannot be read
    Gpus,           \* compute capabilities; None where it cannot be read
    Vram, Gib,      \* memory of the GPU, and units of memory in one GiB
    Utils,          \* the utilizations that occur
    WizardTokens,   \* of the batch sizes the wizard offers, those that are taken
    MaxCommands, MaxChanges

ASSUME AttrAssumption ==
    \A m \in Models : 1 \in DOMAIN Attr[m] /\ \A r \in DOMAIN Attr[m] : r \in Nat
\* A file that changed is newer than before; of a GGUF model all is in its files.
ASSUME ListedAssumption ==
    \A m \in Models : \A i, r \in DOMAIN Attr[m] :
        /\ Attr[m][r].listed \in Nat
        /\ i <= r => Attr[m][i].listed <= Attr[m][r].listed
        /\ Card[m].backend # "vllm" /\ Attr[m][i].listed = Attr[m][r].listed => Attr[m][i] = Attr[m][r]
ASSUME FollowedAssumption == Followed \subseteq Models
ASSUME UtilsAssumption == Utils \subseteq 50 .. 99
ASSUME VramAssumption == Vram \in Nat
ASSUME NoneAssumption ==
    /\ None \notin Nat /\ None # "experts"
    /\ None \notin [info : Nat, files : Nat, util : Nat, runtime : Versions \union {None}]

\* What the files tell are numbers, and those that are divided by are not zero
\* (calculate_limits refuses a model without them, llamacpp.py puts a default);
\* what is typed is one of what the command line takes.
ASSUME NumbersAssumption ==
    \A m \in Models : \A r \in DOMAIN Attr[m] :
        LET at == Attr[m][r]
        IN  IF Card[m].backend = "vllm"
            THEN /\ {at.size, at.maxPos} \subseteq Nat
                 /\ {at.kvHeads, at.headDim, at.layers} \subseteq Nat \ {0}
            ELSE /\ {at.heads, at.key, at.value, at.maxPos, at.window, at.state} \subseteq Nat
                 /\ at.layers \in Nat \ {0}
                 /\ IsFiniteSet(at.files)
                 /\ \A f \in at.files : f.id \in Nat /\ f.size \in Nat \ {0}
ASSUME CommandsAssumption ==
    \A p \in Procs, m \in Followed : \A cmd \in Commands[p][m] :
        cmd.kind = "run" /\ Card[m].backend = "vllm" =>
            /\ cmd.o.spec \in {"off", "mtp", "ngram", "draft", "auto"}
            /\ cmd.o.n \in Nat \union {None}

VARIABLES model, gpu, config, version, rev, entry, proc, written, begun, changes

vars == <<model, gpu, config, version, rev, entry, proc, written, begun, changes>>

Backend == Card[model].backend
At == Attr[model][rev]

-----------------------------------------------------------------------------
(* resolve_gpu_memory_utilization.                                           *)

\* Nothing was saved yet.
Unsaved == [util |-> None, overhead |-> None]
ASSUME ConfigsAssumption == Unsaved \in Configs

\* runtime_headroom_gb, in tenths of a GiB.
Headroom(at) == (IF at.moe THEN 15 ELSE 0) + (IF at.multimodal THEN 25 ELSE 0)
DefaultOverhead == 35

OverheadUtil(overhead) == ((Vram - (overhead * Gib) \div 10) * 100) \div Vram

\* The flag, or the configured utilization, or what the overhead leaves; only
\* the last makes room for the class of the model.
ResolveUtil(conf, requested, headroom) ==
    IF requested # None THEN requested
    ELSE IF conf.util # None THEN conf.util
    ELSE OverheadUtil((IF conf.overhead # None THEN conf.overhead ELSE DefaultOverhead)
                      + headroom)
ValidUtil(u) == u \in 50 .. 99

\* The wizards resolve it without saying for which model.
CommandUtil(conf, cmd, at) ==
    ResolveUtil(conf, cmd.o.util, IF cmd.kind = "wizard" THEN 0 ELSE Headroom(at))

\* Utils are the utilizations that occur.
ASSUME OccurringUtils ==
    \A p \in Procs, m \in Followed, c \in Configs : \A r \in DOMAIN Attr[m], cmd \in Commands[p][m] :
        ValidUtil(CommandUtil(c, cmd, Attr[m][r])) => CommandUtil(c, cmd, Attr[m][r]) \in Utils

-----------------------------------------------------------------------------
(* Tables and their fingerprints.                                            *)

\* The part of ModelInfo, read when the command finds the model, that the
\* fingerprint holds; of the architecture, the parser that goes with it.
InfoOf(m, r) ==
    LET at == Attr[m][r]
    IN  IF Card[m].backend = "vllm"
        THEN [size |-> at.size, maxPos |-> at.maxPos, kvHeads |-> at.kvHeads,
              headDim |-> at.headDim, layers |-> at.layers, quant |-> at.quant, moe |-> at.moe,
              arch |-> at.suggests]
        ELSE [size |-> FoldSet(LAMBDA f, sum : sum + f.size, 0, at.files), moe |-> at.moe]

\* What a command can learn of the runtime: its registry of parsers is asked for in a
\* subprocess, which may fail.
Registries(m) == IF Card[m].backend = "vllm" THEN Versions \union {None} ELSE {None}
Answers == IF Backend = "vllm" THEN {version, None} ELSE {None}

\* backend.tune, on what was scanned, the files as they are and the runtime.
Tuned(m, info, r, u, seen) ==
    IF Card[m].backend = "vllm"
    THEN VllmTable(info, Attr[m][r], Vram, u, AvailableParsers(seen))
    ELSE LlamaTable(Attr[m][r], Vram, u)

\* A table is told by what it was made from: a scan, files, a utilization, a runtime.
Tables == [m \in Models |-> [i \in DOMAIN Attr[m] |-> [r \in DOMAIN Attr[m] |->
              [u \in Utils |-> [seen \in Registries(m) |->
                  Tuned(m, InfoOf(m, i), r, u, seen)]]]]]

TableOf(made) == Tables[model][made.info][made.files][made.util][made.runtime]

\* Mutants: the fingerprint leaves out the files, or the utilization.
FingerprintNoFiles(i, r, u, v) ==
    [info |-> InfoOf(model, i), files |-> 1, util |-> u,
     version |-> IF Backend = "vllm" THEN v ELSE None]
FingerprintNoUtil(i, r, u, v) ==
    [info |-> InfoOf(model, i), files |-> Attr[model][r].listed, util |-> 88,
     version |-> IF Backend = "vllm" THEN v ELSE None]

\* build_tuning_fingerprint; llama-server's version does not change here.
Fingerprint(i, r, u, v) ==
    [info |-> InfoOf(model, i), files |-> Attr[model][r].listed, util |-> u,
     version |-> IF Backend = "vllm" THEN v ELSE None]

\* limits_cache_matches.
Matches(key) == entry # None /\ entry.key = key

\* write_limits.
WriteLimits(key, made, by) == entry' = [key |-> key, made |-> made, by |-> by]

-----------------------------------------------------------------------------
(* Commands.                                                                 *)

Idle == [pc |-> "idle"]
Become(p, r) == proc' = [proc EXCEPT ![p] = r]
With(r, pc, key, made) ==
    [pc |-> pc, cmd |-> r.cmd, info |-> r.info, read |-> r.read, util |-> r.util,
     key |-> key, made |-> made, seen |-> {}]
MadeNow(r, seen) == [info |-> r.info, files |-> rev, util |-> r.util, runtime |-> seen]

\* need_tuned_defaults: something is left open.
Required(cmd) ==
    LET o == cmd.o
    IN  \/ cmd.kind # "run"
        \/ None \in {o.context, o.slots}
        \/ Backend = "vllm" /\ o.kv = None
        \/ Backend = "llamacpp" /\ o.layers = None

\* A command finds the model, the GPU and the runtime, and fixes the utilization.
Begin(p) ==
    /\ proc[p] = Idle
    /\ begun < MaxCommands
    /\ \E cmd \in Commands[p][model] :
          LET u == CommandUtil(config, cmd, At)
          IN  /\ ValidUtil(u)
              /\ Become(p, [pc |-> "begun", cmd |-> cmd, info |-> rev, read |-> version,
                            util |-> u])
    /\ begun' = begun + 1
    /\ written' = None
    /\ UNCHANGED <<model, gpu, config, version, rev, entry, changes>>

\* It takes the fingerprint and looks for a table that has it.
Stamp(p) ==
    LET r == proc[p]
        key == Fingerprint(r.info, rev, r.util, r.read)
        cached == Matches(key) /\ ~(r.cmd.kind = "tune" /\ r.cmd.o.recalc)
    IN  /\ r.pc = "begun" /\ r.cmd.kind # "add"
        /\ Become(p, IF cached /\ r.cmd.kind = "tune" THEN Idle
                     ELSE IF cached THEN With(r, "ready", key, entry.made)
                     ELSE With(r, IF Required(r.cmd) THEN "missed" ELSE "ready", key, None))
        /\ written' = None
        /\ UNCHANGED <<model, gpu, config, version, rev, entry, begun, changes>>

\* There is none: it computes one and keeps it, and what it has seen of the runtime.
Tune(p) == \E seen \in Answers :
    LET r == proc[p]
        made == MadeNow(r, seen)
    IN  /\ r.pc = "missed"
        /\ IF TableOf(made) = None THEN Become(p, Idle) /\ UNCHANGED entry
           ELSE /\ WriteLimits(r.key, made, r.cmd.kind)
                /\ Become(p, IF r.cmd.kind = "tune" THEN Idle
                             ELSE [With(r, "ready", r.key, made) EXCEPT !.seen = {seen}])
        /\ written' = None
        /\ UNCHANGED <<model, gpu, config, version, rev, begun, changes>>

\* _auto_tune_downloaded_model computes the table first and takes the
\* fingerprint of the files afterwards.
AddTune(p) == \E seen \in Answers :
    LET r == proc[p]
        made == MadeNow(r, seen)
    IN  /\ r.pc = "begun" /\ r.cmd.kind = "add"
        /\ Become(p, IF TableOf(made) = None THEN Idle ELSE With(r, "tuned", None, made))
        /\ written' = None
        /\ UNCHANGED <<model, gpu, config, version, rev, entry, begun, changes>>

AddStamp(p) ==
    LET r == proc[p]
    IN  /\ r.pc = "tuned"
        /\ WriteLimits(Fingerprint(r.info, rev, r.util, version), r.made, "add")
        /\ Become(p, Idle)
        /\ written' = None
        /\ UNCHANGED <<model, gpu, config, version, rev, begun, changes>>

-----------------------------------------------------------------------------
(* The profile of a vLLM run.                                                *)

\* The parser asked for, or the table's, or the one found now: the first that
\* this runtime registers.
ScriptedParser(o, table, seen) ==
    LET cached == IF table = None THEN None ELSE table.parser
        Ok(parser) == ParserSupported(seen, parser)
    IN  IF o.parser # None THEN IF Ok(o.parser) THEN o.parser ELSE None
        ELSE IF Ok(cached) THEN cached
        ELSE IF Ok(At.parser) THEN At.parser ELSE None

VllmChoices(d, o, u, parser, plan) ==
    [context |-> d.context, slots |-> d.slots, dtype |-> d.dtype,
     tokens |-> IF o.tokens # None THEN o.tokens ELSE d.tokens,
     util |-> u, tools |-> parser # None, parser |-> parser,
     textOnly |-> o.textOnly, spec |-> plan]

\* _scripted_config; where the command fails there is no choice.
ScriptedVllm(r, table, seen) ==
    LET o == r.cmd.o
        tools == o.tools \/ o.parser # None
        parser == IF tools THEN ScriptedParser(o, table, seen) ELSE None
        plans == {Gated(plan, o.spec, "vllm", r.read, version) :
                     plan \in Resolve(o.spec, "vllm", model, tools, o.n)}
        d == IF Required(r.cmd) THEN VllmDefaults(table, o.context, o.slots, o.kv)
             ELSE [context |-> o.context, slots |-> o.slots, dtype |-> o.kv, tokens |-> None]
    IN  IF d = None \/ (tools /\ parser = None) THEN {}
        ELSE {VllmChoices(d, o, r.util, parser, plan) : plan \in plans \ {Refused}}

\* What the wizard may choose of one cell.
WizardChoice(context, dtype, n, u, tokens, textOnly, parser, plan) ==
    VllmChoices([context |-> context, dtype |-> dtype, slots |-> n, tokens |-> None],
                [tokens |-> tokens, textOnly |-> textOnly], u, parser, plan)
CellChoices(limits, context, dtype, u, parsers, plans) ==
    {WizardChoice(context, dtype, n, u, tokens, textOnly, parser, plan) :
        n \in {1, Cell(limits, context, dtype)}, tokens \in WizardTokens,
        textOnly \in {t \in BOOLEAN : t => At.multimodal},
        parser \in parsers, plan \in plans}

\* The wizard offers any column of any row; of the slots the user takes one or
\* all.  Tools and MTP are offered where they are known to work.
WizardVllm(r, table) ==
    LET limits == table.limits
        cells == {x \in (DOMAIN limits) \X KvDtypeSet : Cell(limits, x[1], x[2]) # None}
        parser == IF table.parser # None THEN table.parser ELSE At.parser
        mtp == IF Card[model].layers > 0 /\ MtpGateOpen(r.read, version)
               THEN MtpRequest("vllm", model, None) ELSE {}
    IN  UNION {CellChoices(limits, x[1], x[2], r.util, {None, parser}, mtp \union {NoSpec}) :
                  x \in cells}

\* build_config writes the profile of the choices it does not reject.
VllmProfiles(r, table, seen) ==
    {BuildVllm(model, At, choices, gpu, version) :
        choices \in {x \in (IF r.cmd.kind = "run" THEN ScriptedVllm(r, table, seen)
                           ELSE WizardVllm(r, table)) :
                        ~Rejected(model, At, x, seen)}}

-----------------------------------------------------------------------------
(* The profile of a llama.cpp run.                                           *)

\* The experts go to the CPU if asked, or if the choice does not fit without
\* and that is not forbidden.
Override(o, table, d) ==
    IF o.override # None THEN o.override
    ELSE IF table # None /\ ~o.noOffload /\ NeedsMoeOffload(table, d.context, d.slots, d.k)
    THEN "experts" ELSE None

LlamaChoices(o, table, d, plan) ==
    [context |-> d.context, slots |-> d.slots, layers |-> d.layers, k |-> d.k, v |-> d.v,
     override |-> Override(o, table, d), nCpuMoe |-> o.nCpuMoe,
     cacheReuse |-> o.cacheReuse, swaFull |-> o.swaFull, spec |-> plan]

\* The choice of a run that leaves nothing open.
GivenLlama(o, table) ==
    LET k == IF o.k # None THEN o.k ELSE IF table # None THEN DefaultKv(table) ELSE "f16"
    IN  [context |-> o.context, slots |-> o.slots, layers |-> o.layers,
         k |-> k, v |-> IF o.v # None THEN o.v ELSE k]

ScriptedLlama(r, table) ==
    LET o == r.cmd.o
        d == IF Required(r.cmd) THEN LlamaDefaults(table, o) ELSE GivenLlama(o, table)
    IN  IF d = None THEN {}
        ELSE {LlamaChoices(o, table, d, plan) :
                 plan \in Resolve(o.spec, "llamacpp", model, FALSE, None) \ {Refused}}

\* The wizard has the recommended dtype and takes its ceiling for the limit.
PlainLlama == [override |-> None, noOffload |-> FALSE, nCpuMoe |-> None,
               cacheReuse |-> FALSE, swaFull |-> FALSE]
LlamaWizardChoice(table, context, n, layers, kv) ==
    LlamaChoices(PlainLlama, table,
                 [context |-> context, slots |-> n, layers |-> layers, k |-> kv, v |-> kv], NoSpec)
RowChoices(table, context, ceiling, kv) ==
    {LlamaWizardChoice(table, context, n, layers, kv) :
        n \in {1, ceiling}, layers \in {l \in {1, table.layers} : table.full => l = table.layers}}
WizardLlama(table) ==
    LET kv == DefaultKv(table)
        Ceiling(c) == SlotCeiling(table.limits, c, kv)
    IN  UNION {RowChoices(table, c, Ceiling(c), kv) :
                  c \in {c \in DOMAIN table.limits : Ceiling(c) # None}}

LlamaProfiles(r, table) ==
    {BuildLlama(At, choices) :
        choices \in {x \in (IF r.cmd.kind = "run" THEN ScriptedLlama(r, table)
                           ELSE WizardLlama(table)) :
                        ~LlamaRejected(At, x)}}

-----------------------------------------------------------------------------
ProfilesOf(r, seen) ==
    LET table == IF r.made = None THEN None ELSE TableOf(r.made)
    IN  IF Backend = "vllm" THEN VllmProfiles(r, table, seen) ELSE LlamaProfiles(r, table)

\* The profile is written, and the launch (GpuSession) reads it; or the command
\* ends with an error.  The parsers of the runtime are asked for once in a command.
\* written holds the profile until the next step.
WriteProfile(p) ==
    LET r == proc[p]
    IN  /\ r.pc = "ready"
        /\ \E seen \in IF r.seen # {} THEN r.seen ELSE Answers :
              LET profiles == ProfilesOf(r, seen)
              IN  \/ \E profile \in profiles :
                         written' = [cmd |-> r.cmd, info |-> r.info, read |-> r.read,
                                     util |-> r.util, key |-> r.key, made |-> r.made,
                                     profile |-> profile]
                  \/ profiles = {} /\ written' = None
        /\ Become(p, Idle)
        /\ UNCHANGED <<model, gpu, config, version, rev, entry, begun, changes>>

-----------------------------------------------------------------------------
(* What happens meanwhile.                                                   *)

\* Another vLLM is installed, or the installed one no longer tells its version.
Upgrade ==
    /\ Backend = "vllm" /\ changes < MaxChanges
    /\ version' \in Versions \ {version}
    /\ changes' = changes + 1
    /\ written' = None
    /\ UNCHANGED <<model, gpu, config, rev, entry, proc, begun>>

\* The model is fetched again.
Refetch ==
    /\ rev + 1 \in DOMAIN Attr[model] /\ changes < MaxChanges
    /\ rev' = rev + 1
    /\ changes' = changes + 1
    /\ written' = None
    /\ UNCHANGED <<model, gpu, config, version, entry, proc, begun>>

\* The menu of a bare `vserve tune` saves a utilization or an overhead, never both.
SaveConfig ==
    /\ changes < MaxChanges
    /\ config' \in Configs \ {config}
    /\ changes' = changes + 1
    /\ written' = None
    /\ UNCHANGED <<model, gpu, version, rev, entry, proc, begun>>

Init ==
    /\ model \in Followed
    /\ config = Unsaved
    \* Only vLLM's profiles read the compute capability and vLLM's version.
    /\ IF Backend = "vllm" THEN gpu \in Gpus /\ version \in Versions
       ELSE gpu = None /\ version = None
    /\ rev = 1 /\ entry = None /\ written = None
    /\ proc = [p \in Procs |-> Idle]
    /\ begun = 0 /\ changes = 0

Next ==
    \/ \E p \in Procs : \/ Begin(p) \/ Stamp(p) \/ Tune(p) \/ AddTune(p) \/ AddStamp(p)
                        \/ WriteProfile(p)
    \/ Upgrade \/ Refetch \/ SaveConfig

Spec == Init /\ [][Next]_vars

-----------------------------------------------------------------------------
(* Properties.                                                               *)

Written(backend) == IF written # None /\ Backend = backend THEN {written} ELSE {}

\* The number of slots, the context or the dtype comes out of the table.
SlotsFromTable(r) == r.cmd.kind = "wizard" \/ r.cmd.o.slots = None
FromTable(r) == r.cmd.kind = "wizard" \/ Required(r.cmd)

\* The rows of two tables, in the columns that both have.
SameSlots(a, b) ==
    /\ DOMAIN a.limits = DOMAIN b.limits /\ a.balanced = b.balanced
    /\ \A c \in DOMAIN a.limits : \A d \in DOMAIN a.limits[c] \intersect DOMAIN b.limits[c] :
           a.limits[c][d] = b.limits[c][d]

\* What a fingerprint in the limits file vouches for when it is that of now (runtime.py,
\* 441-524), whoever wrote the table and whatever was fetched, installed or configured
\* meanwhile: for vLLM the recommendation and the slots of every column the table has;
\* for llama.cpp the whole table.  If it was not `add` that wrote it, the table was made
\* from files listed as now, so that it is older than config.json and the runtime at most:
\* what they decide, which columns are there and the parser, is not vouched for.
FreshLimits ==
    entry # None /\ entry.key = Fingerprint(rev, rev, entry.key.util, entry.key.version) =>
        LET made == entry.made
            table == Tables[model][rev][rev][entry.key.util][made.runtime]
        IN  /\ Backend = "vllm" => SameSlots(TableOf(made), table)
            /\ entry.by # "add" =>
                   /\ Attr[model][made.files].listed = At.listed
                   /\ Backend = "llamacpp" => TableOf(made) = table

\* The slots a vLLM profile takes from a table fit, at its context and in the
\* dtype it ends up with, the memory its utilization leaves beside the weights
\* (the diffusion recipe lowers the utilization afterwards and is left out).
VllmSlotsFit ==
    \A r \in Written("vllm") :
        SlotsFromTable(r) /\ ~At.dllm /\ InfoOf(model, r.info) = InfoOf(model, rev) =>
            VllmFits(InfoOf(model, rev), Vram, r.profile.util,
                     r.profile.context, r.profile.slots, r.profile.dtype)

\* A model whose heads differ in size runs on TRITON_ATTN, which has no
\* TurboQuant: no dtype taken from a table is one it cannot run
\* (_filter_incompatible_kv_dtypes).
RunsOnItsBackend ==
    \A r \in Written("vllm") :
        ForcesTriton(At) /\ FromTable(r) /\ r.made.files = rev =>
            r.profile.dtype \notin IncompatibleKv("TRITON_ATTN")

\* What was not asked for by name is never speculated with on a blocklisted
\* architecture; MTP goes only to a vLLM known to take it, in whole rounds of
\* the checkpoint's layers and not beside Gemma-4's tool parser; a draft is
\* small and shares the vocabulary (spec_decode.py, _vllm_mtp_gate_reason).
SpecAllowed ==
    \A r \in Written("vllm") :
        LET spec == r.profile.spec
            card == Card[model]
        IN  /\ (r.cmd.kind = "run" /\ r.cmd.o.spec = "auto" /\ card.arch \in SpecBlocklist)
                   => spec = NoSpec
            /\ spec.method = "mtp" =>
                   /\ \E v \in {r.read, version} \ {None} : v >= Unified
                   /\ r.read = None \/ r.read >= Unified
                   /\ card.layers > 0 => (spec.n <= card.layers \/ spec.n % card.layers = 0)
                   /\ r.profile.parser # "gemma4"
            /\ spec.method = "draft" =>
                   /\ VocabCompatible(model, spec.draft)
                   /\ Card[spec.draft].params <= MaxDraftParams

\* The table a profile was written from is the one of the files as they are.
OfTheseFiles(r) == r.made # None /\ TableOf(r.made) = Tables[model][rev][rev][r.util][None]

\* The slots a llama.cpp profile takes from its own column of the table fit the
\* memory that weights and reserve leave (llamacpp.py:207-217, the silent spill
\* to host memory); values forced to f16 afterwards are left out.
LlamaSlotsFit ==
    \A r \in Written("llamacpp") :
        LET f == r.profile
        IN  SlotsFromTable(r) /\ OfTheseFiles(r) /\ f.k = f.v
            /\ Cell(TableOf(r.made).limits, f.context, f.k) # None =>
                KvCacheSize(At, f.context, f.slots, f.k, f.v)
                    <= RemainingKv(At, SelectFiles(At).size, Vram, r.util)

\* The doubling and the bisection find the largest number of slots that fits,
\* up to the 4096 llama-server takes; none only where one slot does not fit, or
\* where the header gives it nothing to keep.
SlotsAreMaximal ==
    \A r \in Written("llamacpp") : OfTheseFiles(r) =>
        LET room == RemainingKv(At, SelectFiles(At).size, Vram, r.util)
            limits == TableOf(r.made).limits
        IN  \A c \in DOMAIN limits, d \in Range(LlamaDtypes) :
                LET n == limits[c][d]
                IN  IF n = None THEN KvCacheSize(At, c, 1, d, d) \notin 1 .. room
                    ELSE n = MaxParallel \/ KvCacheSize(At, c, n + 1, d, d) > room

\* Nobody's experts are sent to the CPU unasked where the model fits the GPU
\* and the slots are the table's (picker.py:54-58).
OffloadOnlyIfNeeded ==
    \A r \in Written("llamacpp") :
        SlotsFromTable(r) /\ r.made # None /\ TableOf(r.made).full
        /\ (r.cmd.kind = "wizard" \/ (r.cmd.o.override = None /\ r.cmd.o.nCpuMoe = None)) =>
            r.profile.cpuMoe = None

-----------------------------------------------------------------------------
(* Said of the program, and not kept by the code.                            *)

\* runtime.py:487, "the inputs that make a cached tuning table valid": a table with the
\* fingerprint of now is one that would be computed now.  config.json and the runtime's
\* parsers go into the table and not into the fingerprint.
TablesAreFresh ==
    entry # None /\ entry.key = Fingerprint(rev, rev, entry.key.util, version) =>
        \E seen \in Answers : TableOf(entry.made) = Tables[model][rev][rev][entry.key.util][seen]

\* RELEASE_NOTES.md:238, "`vserve run` and `vserve tune` now resolve util
\* per-model": a profile whose utilization nobody chose leaves the headroom of
\* the model's class.  The wizards of `vserve run` leave none.
HeadroomKept ==
    \A r \in Written("vllm") :
        changes = 0 /\ config = Unsaved /\ r.cmd.o.util = None =>
            r.profile.util <= OverheadUtil(DefaultOverhead + Headroom(At))
=============================================================================
