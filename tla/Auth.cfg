SPECIFICATION Spec
CONSTANTS
    Clients = {c1, c2}
    Names = {x, y}
    Emails = {e, f}
    Lifetime = 1
    MaxUsers = 2
    MaxTime = 1
    MaxOps = 5
    MaxRestarts = 1
SYMMETRY AuthSymmetry
INVARIANTS KeptOut UniqueAccounts
CHECK_DEADLOCK FALSE
