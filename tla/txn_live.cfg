SPECIFICATION FairSpec
CONSTANTS
    None = None
    Procs = {p1, p2}
    Accounts = {a}
    Secrets = {s1}
    Settings = {x}
    Ops = {"set", "replace", "unset", "resave", "login", "logout"}
    Faults = {"crash", "keyring", "journal", "conflict", "encode", "write", "dirsync"}
    Headless = {p2}

    
PROPERTIES
    LockReleased
