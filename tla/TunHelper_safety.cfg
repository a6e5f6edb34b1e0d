SPECIFICATION Spec
CONSTANTS
    c1 = c1  c2 = c2
    d1 = d1  d2 = d2
    g1 = g1  g2 = g2
    Cidrs = {c1, c2}
    Dests = {d1, d2}
    Dest <- Apart
    ForeignDests = {d1}
    Configs = {g1, g2}
    NoConfig = NoConfig
SYMMETRY Symmetry
INVARIANTS
    EngineRunsDesired
    OwnedIsReal
    NothingLeaks
    OneOwner
PROPERTIES
    ForeignKept
    RestartResumes
