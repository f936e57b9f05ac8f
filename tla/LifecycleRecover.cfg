\* The daemon dies anywhere around one start, shims are refused, late or lost,
\* and a new daemon reconciles.
SPECIFICATION FairSpec
CONSTANTS
    MaxGen = 2
    MaxStarts = 1
    Clients = {c1, c2}
    NoOne = NoOne
    Ops = {"start", "stop", "kill"}
    Faults = {"prepare", "refused", "timeout", "shimlost"}
    MaxCrashes = 1
PROPERTIES
    ImplementsCustody
    DeadIsNotRunningOnDisk
CHECK_DEADLOCK FALSE
