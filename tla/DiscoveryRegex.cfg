CONSTANTS
    FileConfigs <- MCFileConfigs
    CRConfigs <- MCCRConfigs
    Broken = Broken
    Unset = Unset
    HashOf <- MCHashOf
    Found <- MCFound
    Keeps <- MCKeeps
    MaxChanges = 1
    MaxRestarts = 0
SPECIFICATION Spec
INVARIANTS
    ResponseReflectsManager
CHECK_DEADLOCK FALSE
