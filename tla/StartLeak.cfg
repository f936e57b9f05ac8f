SPECIFICATION Spec
CONSTANTS
    Faults = {"init"}
    OpCommands = {}
    Conns = {c1}
    Sessions = {}
    Requests = {"delete"}
    Drivers = {"shim"}
    MaxWire = 1
INVARIANT FailedStartIsDeleted
CHECK_DEADLOCK FALSE
