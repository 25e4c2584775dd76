SPECIFICATION FairSpec
CONSTANTS
    s1 = s1  s2 = s2
    Server = {s1, s2}
    MaxContent = 1
    MaxEvents = 1
    MaxConfig = 1
    MaxFaults = 1
INVARIANTS ResetLosesNothing
PROPERTIES FindsServers LinksHeal ConfigCatchesUp ListIsSent
