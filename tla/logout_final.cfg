CONSTANTS
    Request = {r1}
    Login = {}
    None = None
    MaxPolls = 1
    Faults = {}
SPECIFICATION Spec
PROPERTY LogoutIsFinal
CHECK_DEADLOCK FALSE
