SPECIFICATION FairSpec
CONSTANTS
    p1 = p1  p2 = p2
    Page = {p1, p2}
    MaxFaults = 2
INVARIANTS InstalledIsComplete KeysFit StepOnce
PROPERTY Finishes
CHECK_DEADLOCK FALSE
