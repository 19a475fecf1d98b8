SPECIFICATION Spec
CONSTANTS
    Enqueuers = {e1, e2}
    Backends = {"tunnel", "whpx"}
    MaxRequests = 3
INVARIANTS NeverPopsEmpty NothingLost DeliveredInOrder
PROPERTIES QueueDrains ImplementsChannel
