SPECIFICATION FairSpec
CONSTANTS
    Requests = {r1, r2}
    Recovery = recovery
    LastChunk = 1
    Payloads = {"good"}
    Faults = {"crash", "error"}
    MaxFaults = 1
INVARIANTS
    CompletedIsValid
PROPERTIES
    WholeUploadSettles
