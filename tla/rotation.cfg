SPECIFICATION FairSpec
CONSTANTS
    None = None
    Procs = {p1, p2}
    Profiles = {f}
    Bindings = {b1, b2}
    MaxTokens = 3
    Faults = {"crash", "lost_reply", "keyring", "write", "dirsync"}
INVARIANTS
    RefusedOnlyIfLost
    StoredIsUsable
    StoredOnTarget
    AccessNotAhead
PROPERTIES
    LockReleased
