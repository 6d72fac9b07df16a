CONSTANTS
    Specs <- MCSpecs
    None = None
    NamesakeService = FALSE
    MaxChanges = 2
    MaxLag = 1
SPECIFICATION FairSpec
INVARIANT SettledIsDesired
PROPERTY NeverDeletesDesired
PROPERTY ComesToRest
CHECK_DEADLOCK FALSE
