\* A sweep of three variants, one launch by a user, crashes and failures.
SPECIFICATION Spec
CONSTANTS
    Profiles <- AllOf
    Llama <- GgufOnly
    Quantized <- Nvfp4
    Diffusion <- DllmOnly
    Installed = {"old"}
    NoProfile <- None
    Me = me
    Users = {me, you}
    NoUser = NoUser
    Layers = {2}
    Depths <- OneThree
    Low = 1
    High = 8
    Tps = {100, 110}
    UserProfiles <- Others
    First <- Before
    MaxRuns = 1
INVARIANTS
    TypeOK
    RestartKeepsModel
    ManifestNamesEngine
    RestoredOrSaid
    RowsAreTheirVariants
    RecommendedHeldUpIfMeasured
CHECK_DEADLOCK FALSE
