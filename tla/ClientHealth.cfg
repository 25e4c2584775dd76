SPECIFICATION FairSpec
CONSTANTS
    h1 = h1  s1 = s1
    Host = {h1}
    Server = {s1}
    OfflineCheck = TRUE
    MaxChanges = 2
    MaxFaults = 2
INVARIANTS CachedWereTold
PROPERTIES RunningIsShown DownIsShown StoppedIsTold
