SPECIFICATION Spec
CONSTANTS
    t1 = t1  t2 = t2
    Tasks = {t1, t2}
    NoTask = NoTask
    NoRules = NoRules
    MaxVer = 2
    MaxQueue = 1
INVARIANTS
    FlagTellsTruth
    RoutesFollowRules
    RebuildHeals
SYMMETRY Symmetry
CHECK_DEADLOCK FALSE
