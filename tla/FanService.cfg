\* One terminal: nothing goes wrong, daemons are killed, or commands are.
SPECIFICATION FairSpec
CONSTANTS
    Terminals = {t1}
    Pids = {p1, p2, p3}
    Commands = {"start", "off", "menu"}
    FaultSets <- Worlds
    None = None
    Empty = Empty
INVARIANTS Findable HasTheFans AutoWithoutDaemon
PROPERTIES OffMeansAuto CommandsEnd ImplementsDuty
