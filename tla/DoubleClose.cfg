\* The waiter of one start closes the channel of the next.
SPECIFICATION Spec
CONSTANTS
    MaxGen = 2
    MaxStarts = 2
    Clients = {c1, c2}
    NoOne = NoOne
    Ops = {"start"}
    Faults = {}
    MaxCrashes = 0
INVARIANT NoPanic
CHECK_DEADLOCK FALSE
