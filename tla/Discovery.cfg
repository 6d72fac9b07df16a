CONSTANTS
    FileConfigs <- MCFileConfigs
    CRConfigs <- MCCRConfigs
    Broken = Broken
    Unset = Unset
    HashOf <- MCHashOf
    Found <- MCFound
    Keeps <- MCKeeps
    MaxChanges = 1
    MaxRestarts = 1
SPECIFICATION FairSpec
INVARIANTS
    OneConfiguration
PROPERTIES
    AllocationConverges
    ConfigurationConverges
CHECK_DEADLOCK FALSE
