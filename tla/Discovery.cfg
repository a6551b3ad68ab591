SPECIFICATION DSpec
CONSTANTS
    Listeners <- MCListeners
    Containers <- MCContainers
    Hostnames <- MCHostnames
    Services = {}
    Patterns = {}
    MaxListeners = 3
    MaxContainers = 2
    OwnProject = "tudy"
    MaxChanges = 2
    None = None
CHECK_DEADLOCK FALSE
INVARIANTS
    MapsWhatIsWanted
    StaysListed
    ChildrenHidden
