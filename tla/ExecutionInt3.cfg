SPECIFICATION Spec
CONSTANTS
    Backends = {"kvm"}
    Slots = {0, 1}
    Conditions = {"trigger"}
    Addresses = {0, 1}
    Requests <- MCRequests
INVARIANT SoftwareBreakpointReported
