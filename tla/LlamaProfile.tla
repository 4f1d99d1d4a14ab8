---------------------------- MODULE LlamaProfile -----------------------------
(* The capacity table of a llama.cpp model, the choices made from it, and    *)
(* the profile vserve writes for a llama-server launch (llamacpp.py,         *)
(* picker.py).                                                               *)
(*                                                                           *)
(* A KV cell is 256 tokens; memory is counted in sixteenths of a byte per    *)
(* cell's token.  A revision of a model's files is described by              *)
(*   files      the GGUF variants: [id, size, whole] each, whole when every  *)
(*              shard of the set is there                                    *)
(*   layers, heads, key, value, maxPos   the header's numbers                *)
(*   window, period   sliding-window attention, 0 for none                   *)
(*   interval, state  full attention every interval layers, 0 for none, and  *)
(*              the recurrent state of one other layer                       *)
(*   moe, gemma4      mixture of experts; the Gemma-4 architecture           *)
EXTENDS VllmLimits

LlamaDtypes == <<"f16", "bf16", "q8_0", "q5_1", "q4_1", "q4_0">>

\* _KV_DTYPE_BYTES_PER_ELEMENT, in sixteenths of a byte.
ElementSize == [f16 |-> 32, bf16 |-> 32, q8_0 |-> 17, q5_1 |-> 12, q4_1 |-> 10, q4_0 |-> 9]

CellTokens == 256
MaxParallel == 4096
UBatch == 512
AllExperts == 99

\* _select_gguf_model_files: the largest complete variant, or None where the
\* code raises because every shard set lacks a shard.
SelectFiles(at) ==
    LET whole == {f \in at.files : f.whole}
    IN  IF whole = {} THEN None
        ELSE CHOOSE f \in whole :
                \A g \in whole : \/ g.size < f.size
                                 \/ g.size = f.size /\ g.id <= f.id

RecurrentLayer(at, i) == at.interval > 0 /\ (i + 1) % at.interval # 0
SwaLayer(at, i) == at.window > 0 /\ at.period > 0 /\ i % at.period < at.period - 1

\* _swa_cache_cells: a sliding window keeps the window and one micro-batch.
SwaCells(at, context) == CeilDiv(Min({context, at.window + UBatch}), CellTokens)

\* The layers that keep a recurrent state, those whose attention slides over a
\* window, and those that attend to the whole context.
RecurrentLayers(at) == {i \in 0 .. at.layers - 1 : RecurrentLayer(at, i)}
SwaLayers(at) == {i \in 0 .. at.layers - 1 : SwaLayer(at, i)} \ RecurrentLayers(at)
FullLayers(at) == (0 .. at.layers - 1) \ (RecurrentLayers(at) \union SwaLayers(at))

\* Every slot keeps the state of the recurrent layers.
RecurrentState(at, parallel) == parallel * Cardinality(RecurrentLayers(at)) * at.state

KvCacheSize(at, context, parallel, k, v) ==
    LET cells == Cardinality(SwaLayers(at)) * SwaCells(at, context)
                 + Cardinality(FullLayers(at)) * (context \div CellTokens)
    IN  parallel * at.heads * (at.key * ElementSize[k] + at.value * ElementSize[v]) * cells
        + RecurrentState(at, parallel)

\* Mutants: the doubling without the bisection, from above and from below.
MaxParallelSlotsAbove(at, remaining, context, dtype) ==
    LET over == {i \in 0 .. 11 : KvCacheSize(at, context, 2 ^ (i + 1), dtype, dtype) > remaining}
    IN  IF KvCacheSize(at, context, 1, dtype, dtype) > remaining THEN 0
        ELSE IF over = {} THEN MaxParallel ELSE 2 ^ (Min(over) + 1) - 1
MaxParallelSlotsBelow(at, remaining, context, dtype) ==
    LET fit == {i \in 0 .. 12 : KvCacheSize(at, context, 2 ^ i, dtype, dtype) <= remaining}
    IN  IF fit = {} THEN 0 ELSE 2 ^ Max(fit)

\* _max_parallel_slots_for_context: double until it no longer fits, then bisect.
MaxParallelSlots(at, remaining, context, dtype) ==
    LET bytes(n) == KvCacheSize(at, context, n, dtype, dtype)
        fits(n) == bytes(n) <= remaining
        grow[high \in 1 .. MaxParallel] ==
            LET candidate == IF 2 * high < MaxParallel THEN 2 * high ELSE MaxParallel
            IN  IF high = MaxParallel THEN high
                ELSE IF fits(candidate) THEN grow[candidate] ELSE candidate - 1
        search[r \in (1 .. MaxParallel) \X (1 .. MaxParallel)] ==
            LET mid == (r[1] + r[2] + 1) \div 2
            IN  IF r[1] >= r[2] THEN r[1]
                ELSE IF fits(mid) THEN search[<<mid, r[2]>>]
                ELSE search[<<r[1], mid - 1>>]
    IN  IF context <= 0 \/ remaining <= 0 \/ bytes(1) <= 0 \/ ~fits(1) THEN 0
        ELSE search[<<1, grow[1]>>]

-----------------------------------------------------------------------------
(* tune: the GPU layers, the KV memory left, and the table of slots.         *)

Usable(vram, util) == (vram * util) \div 100

\* A tenth of the usable memory is kept from the layers, a tenth of the whole
\* from the KV cache.
GpuLayers(at, size, vram, util) ==
    Min({at.layers, (9 * Usable(vram, util) * at.layers) \div (10 * size)})

RemainingKv(at, size, vram, util) ==
    LET n == GpuLayers(at, size, vram, util)
    IN  Max({0, Usable(vram, util) - CeilDiv(n * size, at.layers) - CeilDiv(vram, 10)})

LlamaContexts(at) == IF at.maxPos >= MinCtx THEN ContextSteps(at.maxPos) ELSE {MinCtx}

LlamaLimits(at, size, vram, util) ==
    [c \in LlamaContexts(at) |->
        [d \in Range(LlamaDtypes) |->
            LET n == MaxParallelSlots(at, RemainingKv(at, size, vram, util), c, d)
            IN  IF n >= 1 THEN n ELSE None]]

\* _recommended_kv_dtype: at the largest context where f16 or q8_0 fits, q8_0
\* if it holds more.
RecommendedKv(limits) ==
    LET Q8(c) == limits[c]["q8_0"]
        F16(c) == limits[c]["f16"]
        fitting == {c \in DOMAIN limits : Q8(c) # None \/ F16(c) # None}
        c == Max(fitting)
    IN  IF fitting = {} THEN None
        ELSE IF Q8(c) # None /\ (F16(c) = None \/ Q8(c) > F16(c)) THEN "q8_0" ELSE "f16"

\* What tune stores, None where it raises.
LlamaTable(at, vram, util) ==
    LET f == SelectFiles(at)
        limits == LlamaLimits(at, f.size, vram, util)
        n == GpuLayers(at, f.size, vram, util)
    IN  IF f = None THEN None
        ELSE [limits |-> limits, kv |-> RecommendedKv(limits), layers |-> n,
              full |-> n >= at.layers, moe |-> at.moe]

-----------------------------------------------------------------------------
(* What the flags leave open, and the wizard's ceiling.                      *)

\* llamacpp_slots_from_limits_entry: the most slots of a row.
RowBest(row) ==
    LET some == {row[d] : d \in DOMAIN row} \ {None}
    IN  IF some = {} THEN None ELSE Max(some)

DefaultKv(table) == IF table.kv # None THEN table.kv ELSE "f16"

\* llamacpp_interactive_slot_ceiling, and the scripted run's slot count: the
\* column of the dtype, or the f16 column, or the best of the row.
SlotCeiling(limits, context, dtype) ==
    LET column == Cell(limits, context, dtype)
        f16 == Cell(limits, context, "f16")
    IN  IF column # None THEN column ELSE IF f16 # None THEN f16 ELSE RowBest(limits[context])

\* choose_llamacpp_scripted_defaults, None where it raises.
LlamaDefaults(table, o) ==
    LET limits == table.limits
        working == {c \in DOMAIN limits : RowBest(limits[c]) # None}
        chosen == IF o.context # None THEN o.context ELSE Max(working)
        k == IF o.k # None THEN o.k ELSE DefaultKv(table)
        v == IF o.v # None THEN o.v ELSE k
    IN  IF working = {} \/ (o.context # None /\ o.context \notin working) THEN None
        ELSE [context |-> chosen, k |-> k, v |-> v,
              slots |-> IF o.slots # None THEN o.slots ELSE SlotCeiling(limits, chosen, k),
              layers |-> IF o.layers # None THEN o.layers ELSE table.layers]

\* Mutant: a table's own number of slots counts as too many.
NeedsMoeOffloadEagerly(table, context, slots, dtype) ==
    /\ table.moe
    /\ \/ ~table.full
       \/ Cell(table.limits, context, dtype) # None /\ slots >= Cell(table.limits, context, dtype)

\* llamacpp_needs_moe_offload: only what cannot fit otherwise sends the experts
\* to the CPU.
NeedsMoeOffload(table, context, slots, dtype) ==
    LET own == Cell(table.limits, context, dtype)
        cap == IF own # None THEN own ELSE Cell(table.limits, context, "f16")
    IN  /\ table.moe
        /\ \/ ~table.full
           \/ cap # None /\ slots > cap

-----------------------------------------------------------------------------
(* build_config.                                                             *)

\* Fused Flash-Attention, which is always on, wants K and V of one type.
Asymmetric(choices) == choices.k # choices.v

\* Gemma-4's shared layers break the reuse heuristic without the full cache.
StaleReuse(at, choices) == at.gemma4 /\ choices.cacheReuse /\ ~choices.swaFull

\* What build_config refuses to write.
LlamaRejected(at, choices) ==
    SelectFiles(at) = None \/ Asymmetric(choices) \/ StaleReuse(at, choices)

\* The one pattern that sends every expert to the CPU becomes --n-cpu-moe.
CpuMoe(choices) ==
    IF choices.nCpuMoe # None THEN choices.nCpuMoe
    ELSE IF choices.override = "experts" THEN AllExperts ELSE None

\* Gemma-4 with sixty layers or more crashes on quantized values.
ForcedF16(at, choices) == at.gemma4 /\ at.layers >= 60 /\ choices.v = "q8_0"

\* llama-server takes a draft model only; n-gram speculation is left off.
DraftOf(spec) == IF spec.method = "ngram" THEN None ELSE spec.draft

BuildLlama(at, choices) ==
    [file |-> SelectFiles(at).id,
     ctxSize |-> choices.context * choices.slots,
     context |-> choices.context,
     slots |-> choices.slots,
     layers |-> choices.layers,
     k |-> choices.k,
     v |-> IF ForcedF16(at, choices) THEN "f16" ELSE choices.v,
     cpuMoe |-> CpuMoe(choices),
     override |-> IF choices.nCpuMoe = None /\ choices.override = "experts"
                  THEN None ELSE choices.override,
     cacheReuse |-> choices.cacheReuse,
     swaFull |-> choices.swaFull,
     draft |-> DraftOf(choices.spec)]
=============================================================================
