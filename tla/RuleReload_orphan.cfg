SPECIFICATION Spec
CONSTANTS
    c1 = c1
    q1 = q1
    r1 = r1  r2 = r2
    Boot = Boot
    Free = Free
    NoChannel = NoChannel
    Channels = {c1}
    Patterns = {q1}
    Clients = {r1, r2}
    MaxVer = 3
INVARIANT
    NoOrphanRules
