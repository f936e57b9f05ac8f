SPECIFICATION Spec
CONSTANTS
    Ids = {a, b}
    Names <- MCNames
    Folded <- MCFolded
    Absent = Absent
    Torn = Torn
    MaxStarts = 2
    MaxCrashes = 2
SYMMETRY IdSymmetry
INVARIANTS UniqueNames DiskAgrees
CHECK_DEADLOCK FALSE
