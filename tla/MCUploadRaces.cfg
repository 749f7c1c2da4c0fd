SPECIFICATION Spec
CONSTANTS
    Requests = {r1, r2}
    Recovery = recovery
    LastChunk = 1
    Payloads = {"good", "bad"}
    Faults = {"crash", "error", "heartbeat", "leak", "drop", "stall"}
    MaxFaults = 1
SYMMETRY Symmetry
INVARIANTS
    TypeOK
    FinalizingIsWhole
    CompletedIsPublished
    CacheNeverAhead
    OneOwner
PROPERTIES
    VerdictIsFinal
    LiveLeaseNotStolen
