---------------------------- MODULE VllmProfile -----------------------------
(* The profile vserve writes for a vLLM launch: VllmBackend.build_config.    *)
(*                                                                           *)
(* Of the profile the model keeps what decides whether the engine comes up   *)
(* and serves what was asked: memory, KV dtype, attention backend, batch     *)
(* size, CUDA graphs, tool parser and speculative decoding.  Names, ports,   *)
(* sampling defaults and chat-template arguments are left out.  A version is *)
(* its minor number (0.22 is 22), None when it cannot be determined.         *)
EXTENDS SpecRecipe

CONSTANTS Parsers   \* the tool parsers a runtime of some version registers

FlagMigration == 22     \* VLLM_FLAG_MIGRATION_VERSION, 0.22

\* The block-diffusion recipe: utilization, sequences.
DllmUtil == 70
DllmSlots == 16

\* available_tool_parsers, of a runtime that was inspected or (None) could not be.
AvailableParsers(seen) == IF seen = None THEN None ELSE Parsers[seen]
ParserSupported(seen, parser) ==
    parser # None /\ seen # None /\ parser \in AvailableParsers(seen)

\* BACKEND_INCOMPATIBLE_KV_DTYPES.
IncompatibleKv(backend) ==
    CASE backend = "TRITON_ATTN" -> Turboquant
      [] backend = "FLASHMLA"    -> {"turboquant_3bit_nc", "turboquant_k3v4_nc"}
      [] OTHER                   -> {}

\* _forced_attention_backend: what the architecture asks for on this GPU.
ForcedBackend(m, at, cc) ==
    LET base == Card[m].forced
    IN  IF at.dllm THEN "TRITON_ATTN"
        ELSE IF base = "FLASHMLA" /\ cc >= 100 THEN "TOKENSPEED_MLA"
        ELSE IF base = "TRITON_ATTN" /\ Card[m].arch = "GptOssForCausalLM" /\ cc # 120 THEN None
        ELSE base

\* The diffusion recipe pins its backend even when the GPU cannot be probed.
AttentionBackend(m, at, cc) ==
    IF cc # None THEN ForcedBackend(m, at, cc)
    ELSE IF at.dllm THEN "TRITON_ATTN" ELSE None

\* One image or audio clip must fit in a batch, and so must the scheduler unit
\* of a model with linear attention.
MinimumBatchedTokens(at) == IF at.hybrid THEN {4096} ELSE {}
MmBatchedTokensFloor(at) == IF at.audio THEN {8192} ELSE IF at.vision THEN {4096} ELSE {}

BatchedTokens(at, choices) ==
    LET floors == MinimumBatchedTokens(at)
                  \union (IF choices.textOnly THEN {} ELSE MmBatchedTokensFloor(at))
    IN  IF floors = {} THEN choices.tokens
        ELSE IF choices.tokens = None THEN Max(floors)
        ELSE Max(floors \union {choices.tokens})

\* NVFP4 weights break the automatic KV dtype; diffusion models accept no other.
KvDtype(at, choices) ==
    IF at.dllm THEN "auto"
    ELSE IF at.quant \in {"nvfp4", "modelopt"} /\ choices.dtype = "auto" THEN "fp8"
    ELSE choices.dtype

Util(at, choices) == IF at.dllm THEN Min({choices.util, DllmUtil}) ELSE choices.util
Slots(at, choices) == IF at.dllm THEN Min({choices.slots, DllmSlots}) ELSE choices.slots

\* CUDA graphs are turned off for TurboQuant, and for speculative decoding with
\* a quantized KV cache that the runtime is not known to handle.
GraphsOff(choices, version) ==
    \/ choices.dtype \in Turboquant
    \/ /\ choices.spec # NoSpec
       /\ choices.dtype # "auto"
       /\ ~(version # None /\ version >= FlagMigration /\ choices.dtype = "fp8")

ParserOf(choices) == IF choices.tools THEN choices.parser ELSE None

SpecOf(at, choices) == IF at.dllm THEN NoSpec ELSE choices.spec

\* _validate_parsers: a parser the runtime does not register fails the launch.
UnknownParser(choices, seen) ==
    choices.parser # None /\ ~ParserSupported(seen, choices.parser)

\* build_config raises for one, and for MTP with Gemma-4's tools, whose first
\* call it corrupts.
Rejected(m, at, choices, seen) ==
    \/ UnknownParser(choices, seen)
    \/ SpecOf(at, choices).method = "mtp" /\ ParserOf(choices) = "gemma4"

BuildVllm(m, at, choices, cc, version) ==
    [context |-> choices.context,
     slots |-> Slots(at, choices),
     util |-> Util(at, choices),
     dtype |-> KvDtype(at, choices),
     tokens |-> BatchedTokens(at, choices),
     backend |-> AttentionBackend(m, at, cc),
     graphs |-> ~GraphsOff(choices, version),
     parser |-> ParserOf(choices),
     textOnly |-> choices.textOnly,
     spec |-> SpecOf(at, choices)]
=============================================================================
