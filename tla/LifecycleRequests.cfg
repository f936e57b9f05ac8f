\* What two requests can do to a container and two of its starts, with a rootfs
\* or a state that cannot be written and shims that are lost.
SPECIFICATION Spec
CONSTANTS
    MaxGen = 2
    MaxStarts = 2
    Clients = {c1, c2}
    NoOne = NoOne
    Ops = {"start", "kill", "rm"}
    Faults = {"prepare", "persist", "remove", "shimlost"}
    MaxCrashes = 0
SYMMETRY ClientSymmetry
INVARIANTS
    TypeOK
    WatchedWhileRunning
    LifecycleSerialised
PROPERTIES
    StateMachine
    ImplementsCustody
\* a removed container takes no more requests
CHECK_DEADLOCK FALSE
