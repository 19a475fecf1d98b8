SPECIFICATION Spec
CONSTANTS
    Backends = {"kvm", "haxm", "whpx"}
    VMs = {1, 2}
    NumProcessors = 2
    MemoryVMs = {1}
    Pages <- MCPages
    Hosts = {"h1"}
    FlagSets <- MCFlagSets
    LargePages = 2
    BlockPages = 48
    BitmapSizes = {6, 8, 12, 16}
    MaxCalls = 3
INVARIANTS GoneIsReleased CallsAreValid LiveIsComplete MemoryIsAsReported SlotsAreTheKernels BitmapsHold
CHECK_DEADLOCK FALSE
