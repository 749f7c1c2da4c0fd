SPECIFICATION Spec
CONSTANTS
    Servers = {1, 2, 3}
    Dials <- Mesh
    Tracks = {t1}
    NoTrack = NoTrack
    Connected = TRUE
    Reserve = 10
    EventCapacity = 4
    EventMemory = 1
    Hazards = {}
    MaxStimuli = 2
INVARIANTS
    Converged
PROPERTIES
    StateNeverRegresses
CHECK_DEADLOCK FALSE
