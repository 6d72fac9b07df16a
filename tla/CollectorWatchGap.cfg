CONSTANTS
    Pods = {p1, p2}
    MaxPending = 3
    MaxGaps = 2
SPECIFICATION WatchSpec
INVARIANTS
    ProvidesDeployed
