CONSTANTS
    None = None
    Collectors <- MCCollectors
    Targets <- MCTargets
    Jobs <- MCJobs
    JobOf <- MCJobOf
    LocateKey <- MCLocateKey
SPECIFICATION RingSpec
INVARIANTS
    CountsMatchItems
    OwnersAreCollectors
    HistoryIndependent
PROPERTIES
    ImplementsAllocation
