SPECIFICATION Spec
CONSTANTS
    s1 = s1  s2 = s2  w1 = w1  w2 = w2  ip1 = ip1  ip2 = ip2  x = x  h1 = h1  h2 = h2
    Server = {s1, s2}
    Worker = {w1, w2}
    WorkerOf <- OwnServer
    Ip = {ip1}
    Info = {x}
    Handler = {h1}
    MaxOps = 3
    MaxFaults = 0
PROPERTY LearntIsKept
