\* One start of the container and all requests around it, also for liveness
\* under the fairness of the Go scheduler (hence no symmetry).
SPECIFICATION FairSpec
CONSTANTS
    MaxGen = 1
    MaxStarts = 1
    Clients = {c1, c2}
    NoOne = NoOne
    Ops = {"start", "stop", "kill", "rm", "rmforce", "wait"}
    Faults = {"prepare", "remove"}
    MaxCrashes = 0
INVARIANTS
    DoneMeansCleanedUp
    ShimOutlivesCleanup
    StoppedMeansExited
PROPERTIES
    StopReturns
    ExitRecorded
    ShimReaped
CHECK_DEADLOCK FALSE
