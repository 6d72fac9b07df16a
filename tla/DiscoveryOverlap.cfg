CONSTANTS
    FileConfigs <- MCFileConfigs
    CRConfigs <- MCCRConfigs
    Broken = Broken
    Unset = Unset
    HashOf <- MCHashOf
    Found <- MCFound
    Keeps <- MCKeeps
    MaxChanges = 1
    MaxRestarts = 1
SPECIFICATION Spec
INVARIANTS
    ResponseMatchesHash
CHECK_DEADLOCK FALSE
