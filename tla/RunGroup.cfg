CONSTANTS
    PromEnabled = TRUE
    MaxEvents = 1
    Clients = {c1, c2}
SPECIFICATION GroupFairSpec
INVARIANTS
    LoopOutlivesWatcher
PROPERTIES
    ShutdownCompletes
CHECK_DEADLOCK FALSE
