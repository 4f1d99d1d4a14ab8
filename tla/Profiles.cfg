SPECIFICATION Spec
CONSTANTS
    None = None
    q = q
    g4 = g4
    df = df
    oss = oss
    dr = dr
    ll = ll
    lg = lg
    lt = lt
    ta = ta
    tb = tb
    Procs = {ta, tb}
    Models <- MCModels
    Card <- MCCard
    Followed <- MCFollowed
    Attr <- MCAttr
    Commands <- MCCommands
    Parsers <- MCParsers
    Configs <- MCConfigs
    Versions <- MCVersions
    Gpus <- MCGpus
    Vram = 3000000
    Gib = 100000
    Utils = {66, 67, 68, 70, 75, 76, 80, 81, 83, 84, 88, 90}
    WizardTokens = {None}
    MaxCommands = 2
    MaxChanges = 1
INVARIANTS FreshLimits VllmSlotsFit RunsOnItsBackend SpecAllowed
           LlamaSlotsFit SlotsAreMaximal OffloadOnlyIfNeeded
CHECK_DEADLOCK FALSE
