SPECIFICATION Spec
CONSTANTS
    None = None
    Payloads = {p1, p2}
    Configs = {c1, c2}
    Pids = {pid1, pid2}
    MaxCommands = 5
SYMMETRY Symmetry
CHECK_DEADLOCK FALSE
INVARIANTS
    BackupStaysConsistent
