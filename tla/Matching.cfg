SPECIFICATION Spec
CONSTANTS
    Listeners <- MCListeners
    Containers <- MCContainers
    Hostnames <- MCHostnames
    Services <- MCServices
    Patterns = {"api"}
    MaxListeners = 3
    MaxContainers = 2
    None = None
INVARIANTS
    OnePortPerProcess
    
    RelatedStaysInProject
    HomeNeverClaims
    ExactDirectoryWins
