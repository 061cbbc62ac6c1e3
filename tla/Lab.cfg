SPECIFICATION LabSpec
CHECK_DEADLOCK FALSE
CONSTANTS
    HostEntries <- Entries
    DocumentPlaces <- PlacesOfADocument
    MaxCalls = 2
    LeafPlaces <- DocumentLeaves
    LeafKind <- KindOfLeaf
    HostLists <- ListsOfHosts
    MaxChanges = 2
    TargetLists <- ListsOfTargets
    Rulings <- Inventories
    Octet = 8
    StackRam = 6
    Overhead = 2
    VspMin = 3
    Files <- DepotFiles
    Starts <- DepotStarts
    MaxCommands = 2
INVARIANTS
    OnlyTheDeclared
    
PROPERTIES
    LabSettles
