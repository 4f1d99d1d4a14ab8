----------------------------- MODULE VllmLimits -----------------------------
(* The capacity table of a vLLM model (probe.py) and the choices made from   *)
(* it without asking (picker.py): for each context length and KV dtype, how  *)
(* many sequences of that length the KV cache holds.                         *)
(*                                                                           *)
(* Memory is counted in whole units instead of floating-point gigabytes; a   *)
(* GPU memory utilization is a percentage.  None stands for Python's None.   *)
EXTENDS Integers, FiniteSets, FiniteSetsExt, SequencesExt

CONSTANT None

MinCtx == 4096
BlockSize == 16

\* _DEFAULT_KV_DTYPES, in the order of the table's columns.
KvDtypes == <<"auto", "fp8", "turboquant_k8v4", "turboquant_4bit_nc",
              "turboquant_k3v4_nc", "turboquant_3bit_nc">>
KvDtypeSet == Range(KvDtypes)
Turboquant == KvDtypeSet \ {"auto", "fp8"}

CeilDiv(a, b) == (a + b - 1) \div b

\* Powers of two from 4k up to the model's maximum, here of a million at most.
ContextSteps(maxPos) ==
    {c \in {4096, 8192, 16384, 32768, 65536, 131072, 262144, 524288, 1048576} : c <= maxPos}

\* Bits of a key and of a value; FP8 keys carry no norm, the others two bytes.
TurboquantProfile ==
    [d \in Turboquant |->
        CASE d = "turboquant_k8v4"    -> [key |-> 8, value |-> 4, norm |-> 0]
          [] d = "turboquant_4bit_nc" -> [key |-> 4, value |-> 4, norm |-> 2]
          [] d = "turboquant_k3v4_nc" -> [key |-> 3, value |-> 4, norm |-> 2]
          [] d = "turboquant_3bit_nc" -> [key |-> 3, value |-> 3, norm |-> 2]]
ValueScaleZeroBytes == 4

TurboquantBytesPerHead(headDim, dtype) ==
    LET p == TurboquantProfile[dtype]
        bytes == CeilDiv(headDim * p.key, 8) + p.norm
                 + CeilDiv(headDim * p.value, 8) + ValueScaleZeroBytes
    IN  bytes + (bytes % 2)

KvBytesPerToken(at, dtype) ==
    CASE dtype = "auto" -> 2 * at.kvHeads * at.headDim * at.layers * 2
      [] dtype = "fp8"  -> 2 * at.kvHeads * at.headDim * at.layers
      [] OTHER          -> at.kvHeads * at.layers * TurboquantBytesPerHead(at.headDim, dtype)

\* Every sequence occupies whole blocks of the paged cache.
Resident(context) == CeilDiv(context, BlockSize) * BlockSize

MaxConcurrentSequences(available, bytesPerToken, context) ==
    (available \div bytesPerToken) \div Resident(context)

\* What the weights leave of the memory vLLM may use.
AvailableKv(at, vram, util) == Max({0, (vram * util) \div 100 - at.size})

Limits(at, vram, util) ==
    [c \in ContextSteps(at.maxPos) |->
        [d \in KvDtypeSet |->
            LET n == MaxConcurrentSequences(AvailableKv(at, vram, util),
                                            KvBytesPerToken(at, d), c)
            IN  IF n >= 1 THEN n ELSE None]]

\* A cell of a table, None where the table has no such row or column.
Cell(limits, context, dtype) ==
    IF context \in DOMAIN limits /\ dtype \in DOMAIN limits[context]
    THEN limits[context][dtype] ELSE None

-----------------------------------------------------------------------------
(* The recommended profile.  Only "balanced" is used without asking.         *)

LargestWorkingContext(limits, dtype, cap) ==
    LET working == {c \in DOMAIN limits : Cell(limits, c, dtype) # None}
        capped == {c \in working : c <= cap}
    IN  IF working = {} THEN None
        ELSE IF capped # {} THEN Max(capped) ELSE Min(working)

\* The first of some dtypes that a row has slots for.
FirstFitting(dtypes, limits, context) ==
    LET fitting == {i \in DOMAIN dtypes : Cell(limits, context, dtypes[i]) # None}
    IN  IF fitting = {} THEN None ELSE dtypes[Min(fitting)]

RecommendedDtype(limits, context) == FirstFitting(KvDtypes, limits, context)

BalancedTokens(context) == Max({4096, Min({8192, context})})

Balanced(limits) ==
    LET auto == LargestWorkingContext(limits, "auto", 32768)
        context == IF auto # None THEN auto
                   ELSE LargestWorkingContext(limits, "fp8", 32768)
        dtype == RecommendedDtype(limits, context)
    IN  IF context = None THEN None
        ELSE [context |-> context, dtype |-> dtype,
              slots |-> limits[context][dtype], tokens |-> BalancedTokens(context)]

\* Mutant: the columns are not filtered.
FilterNothing(at, limits) == limits

\* _architecture_forces_triton_attn: config.json gives global layers heads of another
\* size than the others', on the same level of the file.
ForcesTriton(at) == at.mixedHeads

\* backend.tune drops the columns TRITON_ATTN cannot run; every row keeps "auto".
FilterIncompatible(at, limits) ==
    IF ~ForcesTriton(at) THEN limits
    ELSE [c \in DOMAIN limits |->
             [d \in DOMAIN limits[c] \ Turboquant |-> limits[c][d]]]

\* _suggested_tool_parser: the one of the architecture, if the runtime registers it;
\* nothing is filtered where the runtime cannot be asked.
Suggested(at, available) ==
    IF available = None \/ at.suggests \in available THEN at.suggests ELSE None

\* What tune stores for a vLLM model: the limits from what the scan of the model
\* told (info), the filter and the parser from its files as they are now (at), the
\* parser also by what the runtime registers.
VllmTable(info, at, vram, util, available) ==
    LET limits == Limits(info, vram, util)
        suggested == Suggested(at, available)
    IN  [limits |-> FilterIncompatible(at, limits), balanced |-> Balanced(limits),
         parser |-> IF suggested # None THEN suggested ELSE at.parser]

-----------------------------------------------------------------------------
(* choose_vllm_scripted_defaults: what the flags leave open.                 *)

AutomaticKvDtypes == <<"auto", "fp8">>

\* The contexts a run may use under the dtype asked for.
WorkingContexts(limits, kv) ==
    {c \in DOMAIN limits :
        \E d \in IF kv # None THEN {kv} ELSE Range(AutomaticKvDtypes) :
            Cell(limits, c, d) # None}

\* The choice made from a table, or None where the code raises.
VllmDefaults(table, context, slots, kv) ==
    LET limits == table.limits
        working == WorkingContexts(limits, kv)
        chosen == IF context # None THEN context ELSE Max(working)
        dtype == IF kv # None THEN kv ELSE FirstFitting(AutomaticKvDtypes, limits, chosen)
        b == table.balanced
    IN  IF /\ context = None /\ slots = None /\ kv = None
           /\ b # None /\ Cell(limits, b.context, b.dtype) # None
        THEN [context |-> b.context, dtype |-> b.dtype, slots |-> b.slots, tokens |-> b.tokens]
        ELSE IF working = {} \/ (context # None /\ context \notin working) THEN None
        ELSE [context |-> chosen, dtype |-> dtype,
              slots |-> IF slots # None THEN slots ELSE Cell(limits, chosen, dtype),
              tokens |-> None]

-----------------------------------------------------------------------------
(* A written context and number of slots fit the memory left by the weights. *)
VllmFits(at, vram, util, context, slots, dtype) ==
    slots * Resident(context) * KvBytesPerToken(at, dtype) <= AvailableKv(at, vram, util)
=============================================================================
