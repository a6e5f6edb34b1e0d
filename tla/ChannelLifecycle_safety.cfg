SPECIFICATION Spec
CONSTANTS
    c1 = c1
    r1 = r1  r2 = r2
    NoChannel = NoChannel
    Channels = {c1}
    Clients = {r1, r2}
    MaxBox = 2
    MaxSet = 2
SYMMETRY Symmetry
INVARIANTS
    StatusHonest
    LoginIsFresh
    SettingsInForce
    LeftoverOnlyByRace
