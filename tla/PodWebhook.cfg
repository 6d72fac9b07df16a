CONSTANTS
    Nil = Nil
    Enabled = {"java", "python", "dotnet", "go", "apache"}
    ConfPaths <- MCConfPaths
    Name <- MCName
    Namespaces <- MCNamespaces
    Collectors <- MCCollectors
    Instances <- MCInstances
    InitialCollectors <- MCInitialCollectors
    InitialInstances <- MCInitialInstances
    Requests <- MCRequests
    Cost <- MCCost
    MaxVersion = 2
    MaxChanges = 2

SPECIFICATION Spec

INVARIANTS
    
    UpdatesPass
    AllOrNothing
    AgentPresent
    AttributesDefinedOnce
    PortsMatch
    ChosenImagesStay
    DefaultImagesFollow

CHECK_DEADLOCK FALSE
