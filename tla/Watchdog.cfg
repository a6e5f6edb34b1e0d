SPECIFICATION FairSpec
CONSTANTS
    Streak = 2
    Cooldown = 2
    Window = 5
    FlapCount = 2
    MaxBusy = 1
INVARIANTS
    TunnelOnce
PROPERTIES
    RestartsSpaced
    Resolves
    DockerReturns
