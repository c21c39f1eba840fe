CONSTANTS
    Locations = {"CPU", "GPU"}
    Kinds = {"pool", "other"}
    Priorities = {"LOW", "NORMAL", "CRITICAL"}
    Slots = {s1, s2}
    MaxFree = 1
    EvictCount = 2
    MaxId = 3
SPECIFICATION ManagerSpec
PROPERTIES MemoryHasOwner
CHECK_DEADLOCK FALSE
