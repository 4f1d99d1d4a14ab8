\* Two users launch and stop models on a machine with both backends.
SPECIFICATION Spec
CONSTANTS
    alice = alice
    bob = bob
    t1 = t1
    t2 = t2
    vllm = vllm
    llamacpp = llamacpp
    Users = {alice, bob}
    NoUser = NoUser
    Procs = {t1, t2}
    UserOf <- TwoUsers
    Privileged = {}
    Backends = {vllm, llamacpp}
    Vllm = vllm
    Commands = {"run", "stop"}
    ExternalUnits = {}
    MaxPolls = 2
    NoProc = NoProc
    NoBackend = NoBackend
INVARIANTS
    OneBackend
    StopReportsTruth
    LockedSweepIsStale
PROPERTIES
    RunRespectsSession
SYMMETRY Mirror
