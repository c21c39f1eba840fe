CONSTANTS
    r1 = r1
    r2 = r2
    r3 = r3
    r4 = r4
    Regions <- MCRegions
    Bytes <- MCBytes
    RamBudget = 4
    AccelCapacity = 2
    MaxPins = 1
SPECIFICATION Spec
INVARIANTS ResidencyHonest Accounting
PROPERTIES GrantedMeansResident ImplementsCache CallReturns
