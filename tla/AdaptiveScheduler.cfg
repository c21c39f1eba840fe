CONSTANTS
    CPU = CPU
    VULKAN = VULKAN
    Backends = {CPU, VULKAN}
    memory <- MCMemory
    Workloads <- MCWorkloads
    destroyOrder <- MCDestroyOrder
    Clients = {c1, c2}
    MaxTasks = 2
    MaxSamples = 1
SPECIFICATION Spec
INVARIANTS ResultOfOwnTask NoJobLost
PROPERTIES WaitsReturn DestructorEnds
CHECK_DEADLOCK FALSE
