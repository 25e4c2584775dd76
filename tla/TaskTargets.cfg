SPECIFICATION Spec
CONSTANTS
    Addresses = {1, 2, 3}
    Ranges <- MCRanges
    MaxEntries = 3
    MaxFaults = 1
INVARIANTS NoStranger PreciseListDone
CHECK_DEADLOCK FALSE
