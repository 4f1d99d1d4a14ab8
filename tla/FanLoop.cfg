\* Two fans, of which any may fail; temperatures close to each other.
SPECIFICATION PFairSpec
CONSTANTS
    NumFans = 2
    Temps <- Warm
    FixedSpeeds = {80}
    QuietStart = 9
    QuietEnd = 18
    QuietMax = 60
    Hysteresis = 4
    MaxRamp = 5
    ResetThreshold = 2
    MaxFailures = 3
    Hours = {8, 12}
INVARIANTS FansTrack
PROPERTIES NoFlutter EmergencyReached QuietRespected GivesUpBlind
