------------------------------ MODULE MCSweep ------------------------------
(* One vLLM profile of the user's own, two others anybody may launch, and   *)
(* the variants of a sweep.                                                *)
EXTENDS Sweep

Own   == <<"own", 0>>
Dllm  == <<"dllm", 0>>
Gguf  == <<"gguf", 0>>
None  == <<"none", 0>>

OneThree == <<1, 3>>
AllOf == Keys \cup {Own, Dllm, Gguf}
GgufOnly == {Gguf}
DllmOnly == {Dllm}
Nvfp4 == Keys \cup {Own}
Others == {Dllm, Gguf}
Before == {Own, Gguf}
=============================================================================
