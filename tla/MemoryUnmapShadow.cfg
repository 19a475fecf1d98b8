SPECIFICATION Spec
CONSTANTS
    AddrSpace = 32
    PageSize = 2
    GpaLimit = 8
    LargeLimit = 8
    LargeMemoryAllocation = TRUE
    MemoryUnmapping = TRUE
    StrictUnmapping = TRUE
    Remapping = FALSE
    ImplErrors <- MCImplErrors
    Bases <- MCBases
    Sizes <- MCSizes
    Hosts <- MCHosts
    MaxRegions = 3
INVARIANT ByteAccessMatchesGuest
