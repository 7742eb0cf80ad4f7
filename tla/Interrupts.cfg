CONSTANTS
    BootOrders <- MCBootOrders
    Devices = {0, 3, 12}
    MaxRaises = 2
    MaxFaults = 1
    MaxDepth = 2
SPECIFICATION Spec
INVARIANTS MasksFollowDrivers DeliveredSafely OneAtATime
PROPERTIES DevicesServed
CHECK_DEADLOCK FALSE
