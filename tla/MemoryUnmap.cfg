SPECIFICATION Spec
CONSTANTS
    AddrSpace = 32
    PageSize = 2
    GpaLimit = 8
    LargeLimit = 8
    LargeMemoryAllocation = TRUE
    MemoryUnmapping = TRUE
    StrictUnmapping = FALSE
    Remapping = TRUE
    ImplErrors <- MCImplErrors
    Bases <- MCBases
    Sizes <- MCSizes
    Hosts <- MCHosts
    MaxRegions = 2
INVARIANTS TypeOK BackedMemoryIsRecorded
PROPERTIES UnmapForgets SubtractTerminates
