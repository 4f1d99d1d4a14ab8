\* Two terminals of alice share a cache.
SPECIFICATION FairSpec
CONSTANTS
    alice = alice
    t1 = t1
    t2 = t2
    Users = {alice}
    Cmds = {t1, t2}
    UserOf <- MCUserOf
    JobsOf <- MCJobsOf
    Pinned = "0.24.0"
    Older = "0.19.1"
    Supported = {"0.24.0"}
    MaxStamp = 3
    NoCmd = NoCmd
INVARIANTS
    HitsMatchTheirKey
    OnlyLateStarts
PROPERTIES
    UpgradeEnds
