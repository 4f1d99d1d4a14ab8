----------------------------- MODULE MCProfiles ------------------------------
(* A 30 GiB GPU, eight models of different kinds, two terminals: the first   *)
(* types anything of its list, the second tunes or asks for the wizard.      *)
EXTENDS Profiles

CONSTANTS q, g4, df, oss, dr, ll, lg, lt, ta, tb

MCModels == {q, g4, df, oss, dr, ll, lg, lt}
MCFollowed == MCModels \ {dr}

CardOf(backend, provider, arch, family, layers, params) ==
    [backend |-> backend, provider |-> provider, arch |-> arch, family |-> family,
     layers |-> layers, params |-> params, mtpNamed |-> FALSE, bos |-> 1, eos |-> 2,
     forced |-> None]
MCCard ==
    q   :> CardOf("vllm", "Qwen", "Qwen36ForCausalLM", "qwen", 2, 270) @@
    g4  :> [CardOf("vllm", "google", "Gemma4ForConditionalGeneration", "gemma", 1, 260)
               EXCEPT !.forced = "TRITON_ATTN"] @@
    df  :> CardOf("vllm", "google", "DiffusionGemma", None, 0, None) @@
    oss :> [CardOf("vllm", "openai", "GptOssForCausalLM", None, 1, 200)
               EXCEPT !.forced = "TRITON_ATTN"] @@
    dr  :> CardOf("vllm", "small", "Qwen3ForCausalLM", "qwen", 0, 6) @@
    ll  :> CardOf("llamacpp", "quants", "moe", None, 0, 300) @@
    lg  :> CardOf("llamacpp", "gguf", "gemma4", None, 0, 310) @@
    lt  :> CardOf("llamacpp", "gguf", "qwen3next", "qwen", 0, 10)

Vllm(size, quant, parser) ==
    [size |-> size, maxPos |-> 4096, kvHeads |-> 1, headDim |-> 16, layers |-> 1,
     quant |-> quant, moe |-> FALSE, multimodal |-> FALSE, mixedHeads |-> FALSE, listed |-> 1,
     parser |-> parser, suggests |-> parser, dllm |-> FALSE, hybrid |-> FALSE, vision |-> FALSE, audio |-> FALSE]
Llama(size, layers, heads) ==
    [listed |-> 1, files |-> {[id |-> 1, size |-> size, whole |-> TRUE]}, layers |-> layers,
     heads |-> heads, key |-> 1, value |-> 1, maxPos |-> 8192, window |-> 0, period |-> 0,
     interval |-> 0, state |-> 0, moe |-> FALSE, gemma4 |-> FALSE, multimodal |-> FALSE]
\* Fetched again, it has another config.json and the same weights.
GemmaFiles ==
    [Vllm(2000000, "nvfp4", "gemma4")
        EXCEPT !.moe = TRUE, !.multimodal = TRUE, !.vision = TRUE]
MCAttr ==
    q   :> <<[Vllm(2000000, "none", "hermes") EXCEPT !.suggests = "xml", !.hybrid = TRUE],
             [Vllm(2300000, "fp8", "xml") EXCEPT !.listed = 2]>> @@
    g4  :> <<GemmaFiles, [GemmaFiles EXCEPT !.mixedHeads = TRUE]>> @@
    df  :> <<[Vllm(1500000, "none", None) EXCEPT !.maxPos = 8192, !.dllm = TRUE]>> @@
    oss :> <<[Vllm(1900000, "mxfp4", "openai") EXCEPT !.moe = TRUE]>> @@
    dr  :> <<Vllm(100000, "none", None)>> @@
    ll  :> <<[Llama(2200000, 2, 64)
                 EXCEPT !.moe = TRUE,
                        !.files = @ \union {[id |-> 2, size |-> 2900000, whole |-> FALSE]}],
             [Llama(2200000, 1, 64)
                 EXCEPT !.moe = TRUE, !.listed = 2,
                        !.files = @ \union {[id |-> 2, size |-> 2900000, whole |-> TRUE]}]>> @@
    lg  :> <<[Llama(1500000, 60, 2) EXCEPT !.gemma4 = TRUE, !.window = 1024, !.period = 6]>> @@
    lt  :> <<[Llama(500000, 4, 1) EXCEPT !.interval = 4, !.state = 10],
             [Llama(500000, 2, 16) EXCEPT !.listed = 2]>>

VllmOpts ==
    [util |-> None, context |-> None, slots |-> None, kv |-> None, tokens |-> None,
     tools |-> FALSE, parser |-> None, spec |-> "off", n |-> None, textOnly |-> FALSE]
LlamaOpts ==
    [util |-> None, context |-> None, slots |-> None, layers |-> None, k |-> None, v |-> None,
     override |-> None, noOffload |-> FALSE, nCpuMoe |-> None, cacheReuse |-> FALSE,
     swaFull |-> FALSE, spec |-> "off"]

Cmd(kind, opts) == {[kind |-> kind, o |-> o] : o \in opts}
Retune == [util |-> 90, recalc |-> TRUE]
Wizard == Cmd("wizard", {[util |-> None]})
Plain == Cmd("tune", {[util |-> None, recalc |-> FALSE]})
Other == Plain \union Wizard

Ask(opts) == Cmd("add", {[util |-> None]}) \union Cmd("tune", {Retune}) \union Cmd("run", opts)
AskVllm ==
    Ask({[VllmOpts EXCEPT !.spec = "auto"],
         [VllmOpts EXCEPT !.spec = "mtp", !.n = 3, !.parser = "xml", !.textOnly = TRUE, !.util = 80],
         [VllmOpts EXCEPT !.spec = "draft", !.kv = "turboquant_k8v4", !.context = 4096]})
AskGemma ==
    Ask({[VllmOpts EXCEPT !.spec = "auto", !.context = 4096, !.slots = 9, !.kv = "turboquant_3bit_nc"],
         [VllmOpts EXCEPT !.spec = "mtp", !.n = 4, !.tools = TRUE]})
\* Of the models that differ in the recipe only, little is asked.
AskRecipe == Cmd("run", {VllmOpts, [VllmOpts EXCEPT !.spec = "auto", !.tools = TRUE],
                         [VllmOpts EXCEPT !.spec = "ngram", !.context = 4096, !.tokens = 2048]})
AskLlama ==
    Ask({LlamaOpts, [LlamaOpts EXCEPT !.context = 4096, !.slots = 64],
         [LlamaOpts EXCEPT !.k = "q4_0", !.spec = "draft"],
         [LlamaOpts EXCEPT !.k = "f16", !.v = "q8_0"],
         [LlamaOpts EXCEPT !.cacheReuse = TRUE],
         [LlamaOpts EXCEPT !.override = "experts", !.spec = "auto", !.util = 80],
         [LlamaOpts EXCEPT !.nCpuMoe = 1, !.override = "other", !.context = 8192],
         [LlamaOpts EXCEPT !.context = 4096, !.slots = 2, !.layers = 1]})

MCCommands ==
    ta :> [m \in MCModels |-> IF m = q THEN AskVllm ELSE IF m = g4 THEN AskGemma
                              ELSE IF m \in {df, oss, dr} THEN AskRecipe ELSE AskLlama] @@
    tb :> [m \in MCModels |-> IF m \in {q, g4} THEN Wizard ELSE IF m \in {df, oss} THEN Plain ELSE Other]

MCParsers == 20 :> {"hermes"} @@ 22 :> {"hermes", "openai"} @@
             24 :> {"hermes", "openai", "xml", "gemma4"}
MCConfigs == {[util |-> None, overhead |-> None], [util |-> 90, overhead |-> None],
              [util |-> None, overhead |-> 60]}
MCVersions == {None, 20, 24}
MCGpus == {120}

\* Revisions whose files are listed differently have different tables: a stale
\* one would show.
ASSUME RevisionsDiffer ==
    \A m \in Models : \A i, r \in DOMAIN Attr[m] :
        Attr[m][i].listed # Attr[m][r].listed => Tables[m][i][i] # Tables[m][r][r]
=============================================================================
