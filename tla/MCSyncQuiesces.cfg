SPECIFICATION FairSpec
CONSTANTS
    Servers = {1, 2}
    Dials <- Single
    Tracks = {t1}
    NoTrack = NoTrack
    Connected = TRUE
    Reserve = 10
    EventCapacity = 2
    EventMemory = 0
    Hazards = {"overlap", "skip", "disconnect", "restart", "torn", "unplayable"}
    MaxStimuli = 2
INVARIANTS
    TypeOK
PROPERTIES
    Quiesces
CHECK_DEADLOCK FALSE
