CONSTANTS
    e1 = e1
    e2 = e2
    Events = {e1}
    Reused = {}
    Times = {1, 2}
    CheckpointEvery = 2
    Signatures = {1}
    Outcomes = {"ok", "error", "unencodable"}
    MaxEntries = 4
    MaxFaults = 2
CHECK_DEADLOCK FALSE
SPECIFICATION Spec
INVARIANTS TypeOK ChainVerifies TamperEvident LastGoodAnchor CadenceKept
