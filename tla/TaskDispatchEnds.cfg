SPECIFICATION FairSpec
CONSTANTS
    i1 = i1  i2 = i2  i3 = i3
    h1 = h1  h2 = h2
    t1 = t1  t2 = t2
    s1 = s1  s2 = s2
    None = None
    Items = {i1, i2, i3}
    Servers = {s1}
    Hosts = {h1}
    Tasks = {t1, t2}
    TaskOf <- MCTaskOf
    HostOf <- BlankHost
    KindOf <- KillAndUninstall
    PoolSize = 2
    MaxFaults = 2
    DbFaults = FALSE
    SilentLoss = FALSE

INVARIANT Accounted
PROPERTIES Answered DaemonFreed
