SPECIFICATION Spec
CONSTANTS
    s1 = s1  s2 = s2  w1 = w1  w2 = w2  ip1 = ip1  ip2 = ip2  x = x  h1 = h1  h2 = h2
    Server = {s1}
    Worker = {w1, w2}
    WorkerOf <- SameServer
    Ip = {ip1, ip2}
    Info = {x}
    Handler = {h1, h2}
    MaxOps = 2
    MaxFaults = 1
INVARIANTS TypeOK OneOpen AlertedOncePerNotice IgnoreSettles
PROPERTY SettledStays
SYMMETRY Alike
