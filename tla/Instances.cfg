CONSTANTS
    Nil = Nil
    None = None
    RewriteGate = FALSE
    k1 = k1
    Key = {k1}
    OldInstances <- MCOldInstances
    UserSpecs <- MCUserSpecs
    Cost <- MCCost
    Messages <- MCMessages
    Disallowed = {"receivers.httpd"}
    RecordBufferSize = 10
    MaxChanges = 3
SPECIFICATION Spec
INVARIANTS
    
    VersionTellsTruth
    AppliedIsInPlace
PROPERTIES
    WritesAreDefaulted
    AutoscalerBuildable
    DeletesOnlyItsOwn
    UpgradedEventually
CHECK_DEADLOCK FALSE
