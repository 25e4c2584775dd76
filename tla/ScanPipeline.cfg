SPECIFICATION Spec
CONSTANTS
    u1 = u1  u2 = u2  l1 = l1  w1 = w1  w2 = w2  x = x  y = y  h1 = h1  h2 = h2  first = first
    Message = {u1, u2}
    Worker = {w1}
    Item = {x, y}
    Host <- Hosts
    Type <- Kinds
    Data <- Lists
    Rule = {first}
    CountRule = {first}
    Pattern <- Accept
    ScanCap = 1
    EsCap = 1
    Dangerous = {}
    Stored <- Watching
    MaxSent = 2
    MaxEvents = 1
INVARIANTS TypeOK CountsAddUp CountedBeforeChecked SilentWhenKnown InfoNotOutdated
CHECK_DEADLOCK FALSE
