\* Two containers side by side, with every fault and a crash.
SPECIFICATION Spec
CONSTANTS
    Containers = {a, b}
    Hosts = {2, 3}
    Faults = {"prepare", "db", "link", "shim", "persist", "wait", "unlink"}
    MaxStarts = 3
    MaxCrashes = 1
    NoOne = NoOne
    Torn = Torn
    Nothing = Nothing
    Marked = Marked
SYMMETRY ContainerSymmetry
INVARIANTS NoSharedAddress UsedIsMarked MarkedIsUsed 
CHECK_DEADLOCK FALSE
