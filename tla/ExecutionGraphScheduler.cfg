CONSTANTS
    CPU = CPU
    VULKAN = VULKAN
    Nodes = {1, 2, 3}
    Resources = {CPU, VULKAN}
    Shared = {CPU}
    resource <- MCResource
SPECIFICATION Spec
INVARIANTS PredecessorsFirst ExclusiveResources FailurePropagates NoTaskOutlives
PROPERTIES Terminates
CHECK_DEADLOCK FALSE
