SPECIFICATION Spec
CONSTANTS
    Tracks = {t1, t2}
    Sinks = {s1, s2}
    MaxQueue = 2
    Positions <- MCPositions
    EvidenceChunks = 2
    None = None
SYMMETRY Symmetry
INVARIANTS
    TypeOK
    PlayOrderOK
    ActivePipeline
    HonestStates
    NoLeakedOutput
PROPERTIES
    NoImmediateRepeat
