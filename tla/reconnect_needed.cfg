CONSTANTS
    Request = {r1}
    Login = {}
    None = None
    MaxPolls = 1
    Faults = {"revoke"}
    Defects = {}
SPECIFICATION HandlerSpec
PROPERTY ReconnectNeeded
CHECK_DEADLOCK FALSE
