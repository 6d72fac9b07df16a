CONSTANTS
    Pods = {p1, p2, p3}
    MaxPending = 3
    MaxGaps = 2
SPECIFICATION WatchFairSpec
INVARIANTS
    PodsKnown
    OnlyGapsGoUnnoticed
PROPERTIES
    PodsBecomeCollectors
