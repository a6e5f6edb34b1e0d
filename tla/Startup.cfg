SPECIFICATION FairSpec
CONSTANTS
    b1 = b1  b2 = b2
    l1 = l1
    NewRule = NewRule
    Boots = {b1, b2}
    Legacy = {l1}
    MaxFaults = 3
    MaxDeaths = 2
    MaxDrawn = 5
INVARIANTS
    OneBoot
    ParamsStick
    SecretsReadable
    DeletedRulesStay
PROPERTY
    BootSettles
