SPECIFICATION Spec
CONSTANTS
    Backends = {"kvm", "haxm", "whpx"}
    Slots = {0, 1}
    Conditions = {"trigger"}
    Addresses = {0, 1}
    Requests <- MCRequests
INVARIANTS RequestedAreArmed RunIsNotStepped BreakpointsReported
PROPERTY HitAddressIsRequested
