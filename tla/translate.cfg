CONSTANTS
    Request = {r1, r2}
    Login = {}
    None = None
    MaxPolls = 1
    Faults = {"cancel", "crash", "kv"}
    Defects = {"forbidden", "unsupported"}
SPECIFICATION FairHandlerSpec
INVARIANTS
    HandlerTypeOK
    ReconnectJustified
PROPERTIES
    RequestsAnswered
    MutexReleased
CHECK_DEADLOCK FALSE
