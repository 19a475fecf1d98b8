SPECIFICATION Spec
CONSTANTS
    EntrySize = 2
    Entries = 4
    EntrySize32 = 1
    Entries32 = 8
    TopEntries = 4
    HighSize = 2
    Frames = 256
    LinearSize = 4096
    LinearAddresses <- MCLinearAddresses
    FrameNumbers <- MCFrameNumbers
    CR3s <- MCCR3s
    RegsMayFail = TRUE
INVARIANTS WalkIsArchitecturalButPAE ResultIsArchitectural PageOffsetKept
