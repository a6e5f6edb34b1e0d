SPECIFICATION Spec
CONSTANTS
    t1 = t1  t2 = t2
    m1 = m1  m2 = m2
    Tasks = {t1, t2}
    Mirrors = {m1, m2}
    MirrorLists = {{m1}, {m2}, {m1, m2}}
    NoMirror = NoMirror
SYMMETRY Symmetry
INVARIANTS
    FailureHasCause
    PassMeansDevice
    SomebodyRemoves
PROPERTIES
    ForeignOnlyByCrossing
