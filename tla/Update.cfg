CONSTANTS
    Updater = {u1, u2}
    MaxVersion = 3
SPECIFICATION UpdateSpec
CHECK_DEADLOCK FALSE
INVARIANTS RestartReported
