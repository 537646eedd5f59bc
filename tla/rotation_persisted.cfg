CONSTANTS
    Request = {r1}
    Login = {}
    None = None
    MaxPolls = 1
    Faults = {"cancel"}
SPECIFICATION Spec
INVARIANT RotationPersisted
CHECK_DEADLOCK FALSE
