SPECIFICATION FairSpec
CONSTANTS
    c1 = c1  c2 = c2
    d1 = d1  d2 = d2
    g1 = g1
    Cidrs = {c1, c2}
    Dests = {d1}
    Dest <- Twins
    ForeignDests = {d1}
    Configs = {g1}
    NoConfig = NoConfig
PROPERTY
    Settles
