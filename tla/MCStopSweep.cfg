CONSTANTS
    Launches = {p}
    Sweepers = {s1, s2}
SPECIFICATION Spec
INVARIANTS
    NoSilentOrphan
    RemovalIsFinal
    StrangersSpared
    FolderOutlivesCommands
SYMMETRY Peers
CHECK_DEADLOCK FALSE
