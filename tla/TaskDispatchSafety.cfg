SPECIFICATION Spec
CONSTANTS
    i1 = i1  i2 = i2  i3 = i3
    h1 = h1  h2 = h2
    t1 = t1  t2 = t2
    s1 = s1  s2 = s2
    None = None
    Items = {i1, i2}
    Servers = {s1, s2}
    Hosts = {h1}
    Tasks = {t1, t2}
    TaskOf <- MCTaskOf
    HostOf <- OneHost
    KindOf <- KillAndQuit
    PoolSize = 1
    MaxFaults = 2
    DbFaults = TRUE
    SilentLoss = TRUE
SYMMETRY ServerSymmetry
INVARIANTS TypeOK AtMostOnce ReplyIsEvidence PoolAccounted
PROPERTIES OneCommandAtATime KeepsPromise
