SPECIFICATION Spec
CONSTANTS
    Servers = {1, 2}
    Dials <- Single
    Tracks = {t1}
    NoTrack = NoTrack
    Connected = TRUE
    Reserve = 10
    EventCapacity = 4
    EventMemory = 0
    Hazards = {"overlap", "disconnect", "restart"}
    MaxStimuli = 3
INVARIANTS
    RebootWins
PROPERTIES
    OnlyForward
CHECK_DEADLOCK FALSE
