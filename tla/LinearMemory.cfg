SPECIFICATION Spec
CONSTANTS
    PageSize = 3
    AddrSpace = 12
    Frames = {2, 5, 7}
    Backed = {2, 7}
    Addresses <- MCAddresses
    Sizes <- MCSizes
INVARIANTS AccessWithinPage LoopIsAt AllOrFalse
PROPERTIES EachByteTranslated CallReturns
