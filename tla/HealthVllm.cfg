\* A vLLM launch, its calls failing or not (it may end: no deadlock check).
SPECIFICATION FairSpec
CONSTANTS
    alice = alice
    bob = bob
    Users = {alice, bob}
    NoUser = NoUser
    User = alice
    Counted = TRUE
    Iterations = 4
    Grace = 1
    MaxRestarts = 4
    Launcher = Launcher
    NoProc = NoProc
    Srv = Srv
    NoBackend = NoBackend
INVARIANTS
    SlowStartIsKept
PROPERTIES
    LaunchReturns
    CrashLoopCaught
    ImplementsLaunch
CHECK_DEADLOCK FALSE
