SPECIFICATION FairSpec
CONSTANTS
    v1 = v1  v2 = v2
    None = None  Half = Half
    Versions = {v1, v2}
    Installed = v1
    MaxCommands = 3
    MaxFaults = 2
INVARIANTS NoHalfStart NilSafe OneAgent
PROPERTY Guarded
