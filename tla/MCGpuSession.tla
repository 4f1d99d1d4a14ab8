---------------------------- MODULE MCGpuSession ----------------------------
(* Small instances of GpuSession. *)
EXTENDS GpuSession, TLC

CONSTANTS alice, bob, t1, t2, vllm, llamacpp

\* Two terminals of two users.
TwoUsers == (t1 :> alice) @@ (t2 :> bob)

\* The users are interchangeable together with their terminals, where both or
\* neither are privileged.
Mirror == {f \in Permutations({alice, bob, t1, t2}) :
              \A t \in {t1, t2} : f[t] \in {t1, t2} /\ TwoUsers[f[t]] = f[TwoUsers[t]]}

\* One terminal.
OneTerminal == t1 :> alice
=============================================================================
