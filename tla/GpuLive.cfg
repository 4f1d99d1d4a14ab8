\* Every command of one terminal; llamacpp is also started elsewhere.
SPECIFICATION FairSpec
CONSTANTS
    alice = alice
    bob = bob
    t1 = t1
    t2 = t2
    vllm = vllm
    llamacpp = llamacpp
    Users = {alice}
    NoUser = NoUser
    Procs = {t1}
    UserOf <- OneTerminal
    Privileged = {}
    Backends = {vllm, llamacpp}
    Vllm = vllm
    Commands = {"run", "stop", "bench", "precache"}
    ExternalUnits = {llamacpp}
    MaxPolls = 2
    NoProc = NoProc
    NoBackend = NoBackend
PROPERTIES
    LockComesBack
