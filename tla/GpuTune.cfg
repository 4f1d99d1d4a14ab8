\* Benchmarks, pre-caching and launches of two users who may remove any marker.
SPECIFICATION Spec
CONSTANTS
    alice = alice
    bob = bob
    t1 = t1
    t2 = t2
    vllm = vllm
    llamacpp = llamacpp
    Users = {alice, bob}
    NoUser = NoUser
    Procs = {t1, t2}
    UserOf <- TwoUsers
    Privileged = {alice, bob}
    Backends = {vllm, llamacpp}
    Vllm = vllm
    Commands = {"run", "bench", "precache"}
    ExternalUnits = {}
    MaxPolls = 2
    NoProc = NoProc
    NoBackend = NoBackend
INVARIANTS
    LaunchOwnsTarget
SYMMETRY Mirror
