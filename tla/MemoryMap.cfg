SPECIFICATION Spec
CONSTANTS
    AddrSpace = 32
    PageSize = 2
    GpaLimit = 8
    LargeLimit = 10
    LargeMemoryAllocation = TRUE
    MemoryUnmapping = FALSE
    StrictUnmapping = FALSE
    Remapping = TRUE
    ImplErrors <- MCImplErrors
    Bases <- MCBases
    Sizes <- MCSizes
    Hosts <- MCHosts
    MaxRegions = 3
INVARIANTS ByteAccessMatchesGuest AccessMatchesGuest RegionLookupMatchesGuest
