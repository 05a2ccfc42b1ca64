SPECIFICATION Spec
CONSTANTS
    None = None
    Procs = {p1, p2}
    Accounts = {a}
    Secrets = {s1, s2}
    Settings = {x}
    Ops = {"set", "replace", "unset"}
    Faults = {"crash", "keyring", "journal", "conflict", "encode"}
    Headless = {}
SYMMETRY Symmetry
INVARIANTS
    RecoverableJournal
    NoOrphanBackup
PROPERTIES
    ImplementsAtomicSave
