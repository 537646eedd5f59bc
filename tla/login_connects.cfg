CONSTANTS
    Request = {}
    Login = {l1}
    None = None
    MaxPolls = 1
    Faults = {}
SPECIFICATION Spec
PROPERTY LoginConnects
CHECK_DEADLOCK FALSE
