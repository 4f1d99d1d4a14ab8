\* A benchmark whose launch was refused.
SPECIFICATION Spec
CONSTANTS
    alice = alice
    bob = bob
    t1 = t1
    t2 = t2
    vllm = vllm
    llamacpp = llamacpp
    Users = {alice, bob}
    NoUser = NoUser
    Procs = {t1, t2}
    UserOf <- TwoUsers
    Privileged = {}
    Backends = {vllm, llamacpp}
    Vllm = vllm
    Commands = {"run", "bench"}
    ExternalUnits = {}
    MaxPolls = 2
    NoProc = NoProc
    NoBackend = NoBackend
PROPERTIES
    BenchRespectsSession
