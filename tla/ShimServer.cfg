SPECIFICATION Spec
CONSTANTS
    Faults = {"create", "init", "write", "deadline", "bundle"}
    OpCommands = {"start", "delete", "force"}
    Conns = {c1, c2}
    Sessions = {c1}
    Requests = {"wait", "stop", "kill", "delete"}
    Drivers = {"shim", "run"}
    MaxWire = 2
INVARIANTS UserIsConfined LiveInitIsRecorded FailedCreateLeavesNothing
    EndLeavesNothing ExecComplete
PROPERTIES StartReturns ShutdownReturns
CHECK_DEADLOCK FALSE
