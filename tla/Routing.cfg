SPECIFICATION Spec
CONSTANTS
    Channels <- Two
    m = m  n = n
    Names = {m, n}
    Width = 1
    Hosts <- MCHosts
    Unicode <- MCUnicode
    Dotted <- MCDotted
    Group <- MCGroup
    Legacy <- MCLegacy
    Entries <- MCEntries
    MaxRows = 3
SYMMETRY Symmetry
INVARIANTS
    SpecificWins
    EntriesAgree
    BackupRestores
PROPERTIES
    AddTakesFromWider
CHECK_DEADLOCK FALSE
