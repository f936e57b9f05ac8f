SPECIFICATION Spec
CONSTANTS
    Requests = {q}
    Streams = {stdout, stderr}
    Chunk = 2
    MaxBytes = 2
    MaxRuns = 2
SYMMETRY StreamSymmetry
INVARIANTS FramesIntact FollowerGotAll
CHECK_DEADLOCK FALSE
