CONSTANTS
    None = None
    Collectors = {c1, c2, c3}
    TargetsOfJ1 = {t1, t2, t3}
    TargetsOfJ2 = {t4}
    Targets <- MCTargets
    Jobs <- MCJobs
    JobOf <- MCJobOf
SYMMETRY MCSymmetry
SPECIFICATION Spec
INVARIANTS
    IndexMatchesItems
    CountsMatchItems
    OnlyOrphansLackCollector
PROPERTIES
    StableAssignment
    BalanceKept
    ImplementsAllocation
    CallsTakeEffect
