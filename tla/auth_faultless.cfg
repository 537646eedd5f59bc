CONSTANTS
    Request = {r1, r2, r3}
    Login = {l1}
    None = None
    MaxPolls = 1
    Faults = {"login"}
SPECIFICATION FairSpec
INVARIANTS
    NobodyDenied
    RotationPersisted
PROPERTY LoginsEnd
CHECK_DEADLOCK FALSE
