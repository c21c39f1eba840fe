CONSTANTS
    DeviceLists <- MCDeviceLists
    Models <- MCModels
    MaxSeq = 2
    MaxPrompt = 3
    MaxNew = 1
    Sizes = {0, 1, 2}
    Budget = 3
    MaxGrowth = 9
    MaxHostId = 10
    MaxId = 32
SPECIFICATION ClientSpec
INVARIANTS HandlesOwned DispatchFits
