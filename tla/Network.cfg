SPECIFICATION Spec
CONSTANTS
    Admins = {a1, a2}
    Containers = {c1, c2}
    W = 5
    Size = 8
    Leaked = {1, 2, 3}
    Faults = {"create", "delete", "connect"}
    MaxOps = 4
    MaxCrashes = 1
SYMMETRY ActorSymmetry
INVARIANTS RecordedMeansBuilt BridgeAddressesReserved GatewayReachable
PROPERTY LeastFreeAllocated
CHECK_DEADLOCK FALSE
