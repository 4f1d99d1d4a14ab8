----------------------------- MODULE SpecRecipe -----------------------------
(* Which speculative-decoding method a run gets (recipes/spec_decode.py and  *)
(* the MTP gate of cli.py).                                                  *)
(*                                                                           *)
(* A model's card says what its name, directory and config.json tell:        *)
(*   provider  the directory it lies in        mtpNamed  "mtp" in its name   *)
(*   base      the model it is a variant of    arch      its architecture    *)
(*   family    family_of(arch), or None        layers    in-checkpoint MTP   *)
(*   bos, eos  token ids, or None                        draft layers, or 0  *)
(*   params    tenths of billions of parameters, read off the name, or None  *)
(* An operator that picks "the first" of an unordered directory listing      *)
(* returns the set of what it may pick.                                      *)
EXTENDS VllmLimits

CONSTANTS Models, Card

ASSUME CardAssumption == \A m \in Models : Card[m].layers \in Nat

Unified == 24       \* VLLM_UNIFIED_MTP_VERSION, 0.24
MtpTokens == 3      \* MTP_NUM_SPECULATIVE_TOKENS
NgramTokens == 5    \* NGRAM_NUM_SPECULATIVE_TOKENS
MaxDraftParams == 15

Plan(method, draft, n) == [method |-> method, draft |-> draft, n |-> n]
NoSpec == Plan("none", None, 0)
Refused == Plan("refused", None, 0)
Ngram == Plan("ngram", None, NgramTokens)

RecommendsMtp ==
    {"Qwen36ForCausalLM", "Qwen36MoeForCausalLM",
     "Qwen3_5ForConditionalGeneration", "Qwen3_5MoeForConditionalGeneration"}
SpecBlocklist ==
    {"Qwen3A3BForCausalLM", "Qwen3MoeForCausalLM", "Qwen3_5MoeForConditionalGeneration",
     "Qwen36MoeForCausalLM", "GptOssForCausalLM", "MixtralForCausalLM", "DeepseekV2ForCausalLM"}
Gemma4 == {"Gemma4ForCausalLM", "Gemma4ForConditionalGeneration"}

\* A checkpoint with one draft layer runs it three times, a deeper one once through.
DefaultMtpTokens(layers) == IF layers <= 1 THEN MtpTokens ELSE layers

\* find_mtp_variant: any directory beside the model's with "mtp" in its name.
MtpVariants(m) ==
    {s \in Models \ {m} : Card[s].provider = Card[m].provider /\ Card[s].mtpNamed}

VocabCompatible(m, draft) ==
    LET t == Card[m]
        d == Card[draft]
    IN  /\ t.family # None /\ d.family = t.family
        /\ None \notin {t.bos, t.eos, d.bos, d.eos}
        /\ t.bos = d.bos /\ t.eos = d.eos

\* The smallest local models that may draft for m: _discover_draft_candidates,
\* the size rule and the vocabulary rule.
Drafts(m) ==
    LET fit == {d \in Models \ {m} :
                   /\ Card[d].params # None /\ Card[d].params <= MaxDraftParams
                   /\ VocabCompatible(m, d)}
    IN  {d \in fit : \A e \in fit : Card[d].params <= Card[e].params}

DraftPlans(m) == {Plan("draft", d, 3) : d \in Drafts(m)}

\* resolve_mtp_request: MTP was asked for by name.
MtpRequest(backend, m, tokens) ==
    LET layers == Card[m].layers
        n == IF tokens # None THEN tokens ELSE DefaultMtpTokens(layers)
    IN  IF tokens # None /\ tokens < 1 THEN {Refused}
        ELSE IF backend = "vllm" /\ layers > 0
        THEN {IF n > layers /\ n % layers # 0 THEN Refused ELSE Plan("mtp", None, n)}
        ELSE IF MtpVariants(m) = {} THEN {Refused}
        ELSE {Plan("mtp", s, IF tokens # None THEN tokens ELSE MtpTokens) : s \in MtpVariants(m)}

\* Mutant: the blocklist is not consulted.
AutoPlanUnlisted(backend, m, tools) ==
    IF Drafts(m) # {} THEN DraftPlans(m) ELSE IF backend = "vllm" THEN {Ngram} ELSE {NoSpec}

\* pick_spec_config: the recommendation for "auto".
AutoPlan(backend, m, tools) ==
    LET c == Card[m]
        mtpAllowed == c.arch \in RecommendsMtp /\ ~(c.arch \in Gemma4 /\ tools)
    IN  IF c.arch \in SpecBlocklist THEN {NoSpec}
        ELSE IF mtpAllowed /\ backend = "vllm" /\ c.layers > 0
        THEN {Plan("mtp", None, DefaultMtpTokens(c.layers))}
        ELSE IF mtpAllowed /\ MtpVariants(m) # {}
        THEN {Plan("mtp", s, MtpTokens) : s \in MtpVariants(m)}
        ELSE IF Drafts(m) # {} THEN DraftPlans(m)
        ELSE IF backend = "vllm" THEN {Ngram} ELSE {NoSpec}

\* resolve_spec_request.
Resolve(method, backend, m, tools, tokens) ==
    CASE method = "off"   -> {NoSpec}
      [] method = "mtp"   -> MtpRequest(backend, m, tokens)
      [] method = "ngram" -> {IF backend = "vllm" THEN Ngram ELSE Refused}
      [] method = "draft" -> IF Drafts(m) = {} THEN {Refused} ELSE DraftPlans(m)
      [] method = "auto"  -> AutoPlan(backend, m, tools)

\* _vllm_mtp_gate_reason: the version the command read when it began counts,
\* or, when it could not read one, the version the runtime has now.
MtpGateOpen(read, now) ==
    LET version == IF read # None THEN read ELSE now
    IN  version # None /\ version >= Unified

\* MTP the runtime may not know is refused, or replaced when it was not asked for.
Gated(plan, method, backend, read, now) ==
    IF plan.method = "mtp" /\ backend = "vllm" /\ ~MtpGateOpen(read, now)
    THEN IF method = "auto" THEN Ngram ELSE Refused
    ELSE plan
=============================================================================
