SPECIFICATION AccessSpec
CONSTANTS
    Families <- MCFamilies
    Values = {1}
    MSRs = {"pat", "hidden", "specctrl"}
    MaxMsrArray = 2
    MaxBatch = 2
    MaxMsrs = 3
INVARIANT ReadsMatch
PROPERTIES GuestRunsWithWrites RefusedChangesNothing
