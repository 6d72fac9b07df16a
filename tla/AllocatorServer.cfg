CONSTANTS
    None = None
    Collectors = {c1, c2}
    TargetsOfJ1 = {t1}
    TargetsOfJ2 = {t2}
    Targets <- MCTargets
    Jobs <- MCJobs
    JobOf <- MCJobOf
SPECIFICATION FairServerSpec
INVARIANTS
    AnswerComplete
    AnswerTrue
PROPERTIES
    EveryoneReturns
