CONSTANTS
    Request = {r1, r2}
    Login = {l1}
    None = None
    MaxPolls = 1
    Faults = {"cancel", "crash", "kv", "login", "network", "revoke"}
SPECIFICATION Spec
SYMMETRY MCSymmetry
INVARIANTS
    TypeOK
    StoredTokenAccounted
    NoDoubleRefresh
    RecordStableUnderLock
    MutexOwned
    ReloginJustified
PROPERTIES
    CredentialImplemented
    CallsAtomic
CHECK_DEADLOCK FALSE
